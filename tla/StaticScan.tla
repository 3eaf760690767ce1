------------------------------ MODULE StaticScan ------------------------------
(***************************************************************************)
(* FilesAndLinesCache::IsStaticFreeFunction: the .obj does not say whether *)
(* a free function is static, so its source is asked. The line the .obj    *)
(* gives for the function is that of its body's "{"; from there the scan   *)
(* goes back, line by line, until a line ends another declaration.         *)
(***************************************************************************)
EXTENDS Naturals, Sequences, SequencesExt

CONSTANTS
  MaxLines,  \* bound: lines up to that of the "{"
  MaxTokens  \* bound: tokens on a line

ASSUME BoundsAssumption == MaxLines \in Nat /\ MaxTokens \in Nat

(* What the scan tells apart in a line: the keyword; a word that holds its *)
(* letters (static_cast, nonstatic); "{" (open); ";" or "}" (end); ">"     *)
(* (angle); any other.                                                     *)
Tokens == {"static", "staticish", "open", "end", "angle", "word"}

VARIABLES
  lines,     \* the file, as far as the line the .obj gives
  brace,     \* which token of the last line is the function's "{"
  free,      \* is it a free function (decorated[pos] == L'Y')?
  known,     \* the .obj gives a file and a line, and the file can be read
  linenumber,
  result     \* "none" while the scan is under way

vars == <<lines, brace, free, known, linenumber, result>>

Line == BoundedSeq(Tokens, MaxTokens)

Init ==
  /\ \E n \in 1 .. MaxLines : lines \in [1 .. n -> Line]
  /\ brace \in {k \in DOMAIN lines[Len(lines)] : lines[Len(lines)][k] = "open"}
  /\ free \in BOOLEAN /\ known \in BOOLEAN
  /\ linenumber = Len(lines)
  /\ result = "none"

(* Only the first place where the letters are is looked at.                *)
HasLeadingKeyword(line) ==
  \E k \in DOMAIN line :
    /\ line[k] = "static"
    /\ \A j \in 1 .. k - 1 : line[j] # "staticish"

(* Mutation: only ";" ends a declaration. *)
MutantEndsAtSemicolon(line) == \E k \in DOMAIN line : line[k] = "end"

PreviousDeclarationEnds(line) == \E k \in DOMAIN line : line[k] \in {"end", "open", "angle"}

Scanning == result = "none" /\ free /\ known

Return(verdict) ==
  /\ result' = verdict
  /\ UNCHANGED <<lines, brace, free, known, linenumber>>

NotAsked == result = "none" /\ ~(free /\ known) /\ Return("no")

(* Mutation: the line the scan starts from is tested, too. *)
MutantTestsFirstLine == linenumber > 0 => PreviousDeclarationEnds(lines[linenumber])

(* Tested after --linenumber only, not on the line the scan starts from.   *)
TooFar ==
  /\ linenumber < Len(lines)
  /\ linenumber > 0 => PreviousDeclarationEnds(lines[linenumber])

Found ==
  /\ Scanning /\ ~TooFar
  /\ HasLeadingKeyword(lines[linenumber])
  /\ Return("yes")

GoneTooFar ==
  /\ Scanning /\ TooFar
  /\ Return("no")

(* Mutation: the line number is not counted down. *)
MutantKeepsLine ==
  /\ Scanning /\ ~TooFar
  /\ ~HasLeadingKeyword(lines[linenumber])
  /\ UNCHANGED vars

(* --linenumber *)
BackUp ==
  /\ Scanning /\ ~TooFar
  /\ ~HasLeadingKeyword(lines[linenumber])
  /\ linenumber' = linenumber - 1
  /\ UNCHANGED <<lines, brace, free, known, result>>

Finished == result # "none" /\ UNCHANGED vars

Next == NotAsked \/ Found \/ GoneTooFar \/ BackUp \/ Finished

Spec == Init /\ [][Next]_vars

(* One thread and no calls that wait. *)
FairSpec == Spec /\ WF_vars(Next)

-----------------------------------------------------------------------------
(* What "static" means: between the end of the declaration before and the  *)
(* function's "{", the keyword is there.                                   *)
Before(l, k) == {p \in (1 .. l) \X (1 .. MaxTokens) :
                   p[2] \in DOMAIN lines[p[1]] /\ (p[1] < l \/ p[2] < k)}
Delimiters == {p \in Before(Len(lines), brace) : lines[p[1]][p[2]] \in {"end", "open"}}
Declaration ==
  Before(Len(lines), brace) \ UNION {Before(p[1], p[2]) \cup {p} : p \in Delimiters}
Holds(token) == \E p \in Declaration : lines[p[1]][p[2]] = token
IsStatic == Holds("static")

(* The layouts the scan is made for: the declaration begins on a line of   *)
(* its own, holds no ">" above the line of the "{" and no other word with  *)
(* the letters, and what follows the "{" on its line does not say static.  *)
UsualLayout ==
  /\ \A p \in Delimiters : \A q \in Declaration : p[1] < q[1]
  /\ \A p \in Delimiters : p[1] < Len(lines)
  /\ \A p \in Declaration : lines[p[1]][p[2]] = "angle" => p[1] = Len(lines)
  /\ ~Holds("staticish")
  /\ \A j \in DOMAIN lines[Len(lines)] : j > brace => lines[Len(lines)][j] # "static"

(* Laid out as usual, a free function is taken for static exactly when its *)
(* declaration says so, on whichever of its lines                          *)
(* (FunctionExtractor.h:576-590).                                          *)
VerdictIsRight ==
  result # "none" /\ free /\ known /\ UsualLayout => (result = "yes" <=> IsStatic)

(* In any layout, the declarations before the last one that ends above the *)
(* line of the "{" have no say: the scan never passes such an end.         *)
NothingEarlierCounts ==
  result = "yes" =>
    \E m \in DOMAIN lines :
      /\ HasLeadingKeyword(lines[m])
      /\ \A p \in Delimiters : p[1] < Len(lines) => m > p[1]

(* The scan ends, at the first line of the file if nothing stops it.       *)
ScanEnds == <>(result # "none")
=============================================================================
