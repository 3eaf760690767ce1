------------------------------ MODULE TextProofs ------------------------------
(***************************************************************************)
(* The two scans of text, proved for texts of any length. The verdict of   *)
(* IsStaticFreeFunction, which goes back through the lines of a file; and  *)
(* what FuncInfo reads from an undecorated name: arguments, return type    *)
(* and kind.                                                               *)
(***************************************************************************)
EXTENDS StaticScan, Signature, SequenceTheorems, WellFoundedInduction, NaturalsInduction, TLAPS

-----------------------------------------------------------------------------
(* The verdict on the lines of a file.                                     *)

(* The lines the scan has left behind hold no keyword, and all but the one *)
(* it began with end no declaration.                                       *)
Passed(n) ==
  /\ \A m \in n + 1 .. Len(lines) : ~HasLeadingKeyword(lines[m])
  /\ \A m \in n + 1 .. Len(lines) - 1 : ~PreviousDeclarationEnds(lines[m])

TextOK ==
  /\ Len(lines) \in Nat \ {0} /\ DOMAIN lines = 1 .. Len(lines)
  /\ \A m \in DOMAIN lines :
       Len(lines[m]) \in 0 .. MaxTokens /\ DOMAIN lines[m] = 1 .. Len(lines[m])
  /\ brace \in DOMAIN lines[Len(lines)]
  /\ lines[Len(lines)][brace] = "open"

(* The inductive invariant: where the scan is, and why it has ended. *)
ScanInv ==
  /\ TextOK
  /\ linenumber \in 0 .. Len(lines)
  /\ result \in {"none", "yes", "no"}
  /\ result = "yes" =>
       /\ linenumber # 0 /\ HasLeadingKeyword(lines[linenumber])
       /\ linenumber < Len(lines) => ~PreviousDeclarationEnds(lines[linenumber])
  /\ free /\ known => Passed(linenumber)
  /\ result = "yes" => free /\ known
  /\ result = "no" /\ free /\ known => TooFar

LEMMA LinesOfText ==
  ASSUME NEW line \in Line
  PROVE  Len(line) \in 0 .. MaxTokens /\ DOMAIN line = 1 .. Len(line)
BY BoundsAssumption DEF Line, BoundedSeq, SeqOf, BoundsAssumption

LEMMA ScanInit == Init => ScanInv
<1> SUFFICES ASSUME Init PROVE ScanInv
  OBVIOUS
<1>1. PICK n \in 1 .. MaxLines : lines \in [1 .. n -> Line]
  BY DEF Init
<1>2. Len(lines) = n /\ n \in Nat \ {0} /\ DOMAIN lines = 1 .. n
  BY <1>1, BoundsAssumption
<1>3. \A m \in DOMAIN lines :
        Len(lines[m]) \in 0 .. MaxTokens /\ DOMAIN lines[m] = 1 .. Len(lines[m])
  BY <1>1, <1>2, LinesOfText
<1>4. TextOK
  BY <1>2, <1>3 DEF TextOK, Init
<1>5. Passed(linenumber)
  BY <1>2 DEF Passed, Init
<1> QED  BY <1>2, <1>4, <1>5 DEF ScanInv, Init

LEMMA ScanStep == ScanInv /\ [Next]_vars => ScanInv'
<1> SUFFICES ASSUME ScanInv, [Next]_vars PROVE ScanInv'
  OBVIOUS
<1>1. CASE NotAsked
  BY <1>1 DEF ScanInv, NotAsked, Return, TextOK, Passed, TooFar
<1>2. CASE Found
  BY <1>2 DEF ScanInv, Found, Return, TextOK, Passed, TooFar, Scanning
<1>3. CASE GoneTooFar
  BY <1>3 DEF ScanInv, GoneTooFar, Return, TextOK, Passed, TooFar, Scanning
<1>4. CASE BackUp
  <2>1. linenumber # 0 /\ linenumber' = linenumber - 1
    BY <1>4 DEF ScanInv, BackUp, TooFar, TextOK
  <2>2. ~HasLeadingKeyword(lines[linenumber])
        /\ (linenumber < Len(lines) => ~PreviousDeclarationEnds(lines[linenumber]))
    BY <1>4, <2>1 DEF BackUp, TooFar
  <2>3. Passed(linenumber)
    BY <1>4 DEF BackUp, Scanning, ScanInv
  <2>4. Passed(linenumber - 1)
    BY <2>1, <2>2, <2>3 DEF Passed, ScanInv, TextOK
  <2> QED  BY <1>4, <2>1, <2>4 DEF BackUp, Scanning, ScanInv, TextOK, Passed
<1>5. CASE UNCHANGED vars
  BY <1>5 DEF vars, ScanInv, TextOK, Passed, TooFar
<1> QED  BY <1>1, <1>2, <1>3, <1>4, <1>5 DEF Next, Finished

LEMMA ScanInvariant == Spec => []ScanInv
BY ScanInit, ScanStep, PTL DEF Spec

-----------------------------------------------------------------------------
(* A line above that of the "{" with a delimiter ends a declaration. *)
LEMMA DelimitersEnd ==
  ASSUME TextOK, NEW p \in Delimiters, p[1] < Len(lines)
  PROVE  p[1] \in DOMAIN lines /\ PreviousDeclarationEnds(lines[p[1]])
BY DEF Delimiters, Before, PreviousDeclarationEnds, TextOK

(* The keyword that is found, and the line it is on, lie behind every end  *)
(* of a declaration above the line of the "{".                             *)
LEMMA FoundBelow ==
  ASSUME ScanInv, result = "yes", NEW p \in Delimiters, p[1] < Len(lines)
  PROVE  linenumber > p[1]
<1>1. p[1] \in DOMAIN lines /\ PreviousDeclarationEnds(lines[p[1]])
  BY DelimitersEnd DEF ScanInv
<1>2. Passed(linenumber)
  BY DEF ScanInv
<1>3. p[1] # linenumber
  BY <1>1 DEF ScanInv
<1>4. ~(p[1] \in linenumber + 1 .. Len(lines) - 1)
  BY <1>1, <1>2 DEF Passed
<1> QED  BY <1>1, <1>3, <1>4 DEF ScanInv, TextOK

(* Declarations that end above the line of the function's "{" have no say  *)
(* in the verdict (FunctionExtractor.h:576-590), in a file of any length.  *)
THEOREM NothingEarlierCountsAlways == Spec => []NothingEarlierCounts
<1>1. ScanInv => NothingEarlierCounts
  <2> SUFFICES ASSUME ScanInv, result = "yes"
               PROVE  /\ linenumber \in DOMAIN lines
                      /\ HasLeadingKeyword(lines[linenumber])
                      /\ \A p \in Delimiters : p[1] < Len(lines) => linenumber > p[1]
    BY DEF NothingEarlierCounts
  <2> QED  BY FoundBelow DEF ScanInv, TextOK
<1> QED  BY <1>1, ScanInvariant, PTL

-----------------------------------------------------------------------------
LEMMA ScanFacts ==
  ASSUME ScanInv
  PROVE  /\ Len(lines) \in Nat \ {0} /\ DOMAIN lines = 1 .. Len(lines)
         /\ \A m \in 1 .. Len(lines) :
              Len(lines[m]) \in 0 .. MaxTokens /\ DOMAIN lines[m] = 1 .. Len(lines[m])
         /\ brace \in 1 .. MaxTokens /\ lines[Len(lines)][brace] = "open"
         /\ linenumber \in 0 .. Len(lines)
<1>1. TextOK /\ linenumber \in 0 .. Len(lines)
  BY DEF ScanInv
<1>2. Len(lines) \in DOMAIN lines
  BY <1>1 DEF TextOK
<1>3. /\ \A m \in 1 .. Len(lines) :
           Len(lines[m]) \in 0 .. MaxTokens /\ DOMAIN lines[m] = 1 .. Len(lines[m])
      /\ brace \in DOMAIN lines[Len(lines)]
  BY <1>1 DEF TextOK
<1>4. brace \in 1 .. MaxTokens
  <2>1. /\ DOMAIN lines[Len(lines)] = 1 .. Len(lines[Len(lines)])
        /\ Len(lines[Len(lines)]) \in 0 .. MaxTokens
    BY <1>1, <1>2, <1>3 DEF TextOK
  <2> QED  BY <1>3, <2>1, BoundsAssumption DEF BoundsAssumption
<1> QED  BY <1>1, <1>3, <1>4 DEF TextOK

LEMMA Places ==
  ASSUME NEW l \in Nat, NEW k \in Nat, NEW p \in Before(l, k)
  PROVE  /\ p = <<p[1], p[2]>> /\ p[1] \in 1 .. l /\ p[2] \in 1 .. MaxTokens
         /\ p[2] \in DOMAIN lines[p[1]] /\ (p[1] < l \/ p[2] < k)
BY DEF Before

(* A place is in a declaration, and is no delimiter, if it is on a line    *)
(* below all of them.                                                      *)
LEMMA BelowDelimiters ==
  ASSUME ScanInv, NEW m \in 1 .. Len(lines), NEW j \in DOMAIN lines[m],
         m < Len(lines) \/ j < brace,
         \A p \in Delimiters : p[1] < m
  PROVE  <<m, j>> \in Declaration \ Delimiters
<1>1. <<m, j>> \in Before(Len(lines), brace)
  <2>1. j \in 1 .. MaxTokens
    <3>1. DOMAIN lines[m] = 1 .. Len(lines[m]) /\ Len(lines[m]) \in 0 .. MaxTokens
      BY ScanFacts
    <3> QED  BY <3>1, BoundsAssumption DEF BoundsAssumption
  <2> QED  BY <2>1, ScanFacts DEF Before
<1>2. ASSUME NEW p \in Delimiters
      PROVE  <<m, j>> \notin Before(p[1], p[2]) \cup {p}
  <2>1. p[1] \in Nat
    <3>1. Len(lines) \in Nat /\ brace \in Nat
      BY ScanFacts, BoundsAssumption DEF BoundsAssumption
    <3>2. p \in Before(Len(lines), brace)
      BY DEF Delimiters
    <3> QED  BY <3>1, <3>2, Places
  <2>2. p[1] < m
    OBVIOUS
  <2>3. <<m, j>> # p
    BY <2>2
  <2>4. <<m, j>> \notin Before(p[1], p[2])
    BY <2>1, <2>2 DEF Before
  <2> QED  BY <2>3, <2>4
<1>3. <<m, j>> \notin Delimiters
  BY BoundsAssumption
<1> QED  BY <1>1, <1>2, <1>3 DEF Declaration

LEMMA YesIsStatic ==
  ASSUME ScanInv, result = "yes", UsualLayout
  PROVE  IsStatic
<1> DEFINE line == lines[linenumber]
<1>1. linenumber \in 1 .. Len(lines)
  <2>1. linenumber # 0
    BY DEF ScanInv
  <2> QED  BY <2>1, ScanFacts
<1>2. PICK k \in DOMAIN line : line[k] = "static"
  BY DEF ScanInv, HasLeadingKeyword
<1>3. k \in Nat
  <2>1. DOMAIN line = 1 .. Len(line)
    BY <1>1, ScanFacts
  <2> QED  BY <1>2, <2>1
<1>4. linenumber < Len(lines) \/ k < brace
  <2> SUFFICES ASSUME linenumber = Len(lines) PROVE k < brace
    BY <1>1
  <2>1. ~(k > brace)
    BY <1>2 DEF UsualLayout
  <2>2. k # brace
    BY <1>2, ScanFacts
  <2> QED  BY <1>3, <2>1, <2>2, ScanFacts
<1>5. \A p \in Delimiters : p[1] < linenumber
  <2> TAKE p \in Delimiters
  <2>1. p[1] < Len(lines)
    BY DEF UsualLayout
  <2>2. linenumber > p[1]
    BY <2>1, FoundBelow
  <2>3. p[1] \in Nat
    BY Places, ScanFacts, BoundsAssumption DEF Delimiters, BoundsAssumption
  <2> QED  BY <1>1, <2>2, <2>3
<1>6. <<linenumber, k>> \in Declaration
  BY <1>1, <1>2, <1>4, <1>5, BelowDelimiters
<1> QED  BY <1>2, <1>6 DEF IsStatic, Holds

LEMMA NoIsNotStatic ==
  ASSUME ScanInv, result = "no", free, known, UsualLayout, IsStatic
  PROVE  FALSE
<1>1. PICK q \in Declaration : lines[q[1]][q[2]] = "static"
  BY DEF IsStatic, Holds
<1> DEFINE m == q[1]  j == q[2]  line == lines[m]
<1>2. /\ m \in 1 .. Len(lines) /\ j \in 1 .. MaxTokens
      /\ j \in DOMAIN line /\ (m < Len(lines) \/ j < brace)
  BY Places, ScanFacts, BoundsAssumption DEF Declaration, BoundsAssumption
<1>3. \A p \in Delimiters : p[1] < m /\ p[1] \in 1 .. Len(lines)
  BY Places, ScanFacts, BoundsAssumption DEF UsualLayout, Delimiters, BoundsAssumption
<1>4. HasLeadingKeyword(line)
  <2>1. ASSUME NEW i \in 1 .. j - 1, line[i] = "staticish" PROVE FALSE
    <3>1. i \in DOMAIN line /\ (m < Len(lines) \/ i < brace)
      BY <1>2, ScanFacts
    <3>2. <<m, i>> \in Declaration
      BY <1>2, <1>3, <3>1, BelowDelimiters
    <3> QED  BY <2>1, <3>2 DEF UsualLayout, Holds
  <2> QED  BY <1>1, <1>2, <2>1 DEF HasLeadingKeyword
<1>5. m <= linenumber
  <2>1. Passed(linenumber)
    BY DEF ScanInv
  <2>2. m \notin linenumber + 1 .. Len(lines)
    BY <1>4, <2>1 DEF Passed
  <2>3. m \in Nat /\ linenumber \in Nat /\ m <= Len(lines) /\ Len(lines) \in Nat
    BY <1>2, ScanFacts
  <2> QED  BY <2>2, <2>3
<1>6. linenumber \in 1 .. Len(lines) - 1 /\ PreviousDeclarationEnds(lines[linenumber])
  BY <1>2, <1>5, ScanFacts DEF ScanInv, TooFar
<1>7. PICK x \in DOMAIN lines[linenumber] : lines[linenumber][x] \in {"end", "open", "angle"}
  BY <1>6 DEF PreviousDeclarationEnds
<1>8. \A p \in Delimiters : p[1] < linenumber
  BY <1>2, <1>3, <1>5, <1>6
<1>9. <<linenumber, x>> \in Declaration \ Delimiters
  BY <1>6, <1>7, <1>8, BelowDelimiters, ScanFacts
<1>10. <<linenumber, x>> \in Before(Len(lines), brace)
  BY <1>9 DEF Declaration
<1>11. lines[linenumber][x] = "angle"
  BY <1>7, <1>9, <1>10 DEF Delimiters
<1>12. linenumber = Len(lines)
  BY <1>9, <1>11 DEF UsualLayout
<1> QED  BY <1>6, <1>12, ScanFacts

(* Laid out as usual, a free function is taken for static exactly when its *)
(* declaration says so (FunctionExtractor.h:562-592), however long the     *)
(* file, the declaration and their lines are.                              *)
THEOREM VerdictIsRightAlways == Spec => []VerdictIsRight
<1>1. ScanInv => VerdictIsRight
  BY YesIsStatic, NoIsNotStatic DEF VerdictIsRight, ScanInv
<1> QED  BY <1>1, ScanInvariant, PTL

-----------------------------------------------------------------------------
(* Induction and recursion over the natural numbers, as in BodiesProofs.   *)

LEMMA Induction ==
  ASSUME NEW S, 0 \in S, \A n \in Nat : n \in S => n + 1 \in S
  PROVE  Nat \subseteq S
<1> SUFFICES ASSUME ~(Nat \subseteq S) PROVE FALSE
  OBVIOUS
<1> DEFINE T == Nat \ S
<1>1. T # {} /\ T \subseteq Nat
  OBVIOUS
<1>2. PICK x \in T : \A y \in T : ~(<<y, x>> \in OpToRel(<, Nat))
  BY <1>1, WFMin, NatLessThanWellFounded
<1>3. \A y \in T : ~(y < x)
  BY <1>2 DEF OpToRel
<1> QED  BY <1>3

(* What a recursive definition has up to N: v first, then step after step. *)
StepsUpTo(N, V) == [(1 .. N) \X V -> V]
Unfolds(N, V, v, step) ==
  \E g \in [0 .. N -> V] : g[0] = v /\ \A n \in 1 .. N : g[n] = step[<<n, g[n - 1]>>]

LEMMA Recursion ==
  ASSUME NEW N \in Nat, NEW V, NEW v \in V, NEW step \in StepsUpTo(N, V)
  PROVE  Unfolds(N, V, v, step)
<1> DEFINE Good(k, g) == g[0] = v /\ \A n \in 1 .. k : g[n] = step[<<n, g[n - 1]>>]
           S == {k \in Nat : k <= N => \E g \in [0 .. k -> V] : Good(k, g)}
<1>1. 0 \in S
  <2>1. [n \in 0 .. 0 |-> v] \in [0 .. 0 -> V] /\ Good(0, [n \in 0 .. 0 |-> v])
    OBVIOUS
  <2> QED  BY <2>1
<1>2. ASSUME NEW k \in Nat, k \in S PROVE k + 1 \in S
  <2> SUFFICES ASSUME k + 1 <= N PROVE \E g \in [0 .. k + 1 -> V] : Good(k + 1, g)
    OBVIOUS
  <2>1. PICK g \in [0 .. k -> V] : Good(k, g)
    BY <1>2
  <2> DEFINE w == step[<<k + 1, g[k]>>]
             h == [n \in 0 .. k + 1 |-> IF n = k + 1 THEN w ELSE g[n]]
  <2>2. w \in V
    BY DEF StepsUpTo
  <2>3. h \in [0 .. k + 1 -> V]
    BY <2>2
  <2>4. h[0] = g[0] /\ h[k + 1] = w /\ \A n \in 1 .. k : h[n] = g[n] /\ h[n - 1] = g[n - 1]
    OBVIOUS
  <2>5. h[k + 1 - 1] = g[k]
    OBVIOUS
  <2>6. \A n \in 1 .. k + 1 : h[n] = step[<<n, h[n - 1]>>]
    <3> SUFFICES ASSUME NEW n \in 1 .. k + 1 PROVE h[n] = step[<<n, h[n - 1]>>]
      OBVIOUS
    <3> HIDE DEF h
    <3>1. CASE n = k + 1
      BY <2>4, <2>5, <3>1
    <3>2. CASE n \in 1 .. k
      BY <2>1, <2>4, <3>2
    <3> QED  BY <3>1, <3>2
  <2> QED  BY <2>1, <2>3, <2>4, <2>6
<1> HIDE DEF S
<1>3. N \in S
  BY <1>1, <1>2, Induction
<1> QED  BY <1>3 DEF S, Unfolds

-----------------------------------------------------------------------------
(* The recursive functions: what they are at the start of a text, and how  *)
(* they go on. Each is shown to exist, step by step (Recursion).           *)

LEMMA TextIs ==
  ASSUME NEW text \in Text
  PROVE  /\ Len(text) \in Nat /\ DOMAIN text = 1 .. Len(text)
         /\ \A n \in 1 .. Len(text) : text[n] \in Lexemes
<1> QED  BY DEF Text

LEMMA TokensAre ==
  /\ Words \subseteq Lexemes
  /\ {"(", ")", ",", "::", "~", "*", "cc", "junk", "f", "operator"} \subseteq Lexemes
  /\ << >> \in Text /\ \A c \in Lexemes : <<c>> \in Text
<1>1. << >> \in Text /\ \A c \in Lexemes : <<c>> \in Text
  BY DEF Text
<1> QED  BY <1>1 DEF Lexemes

Weight(c, open, close) == IF c = open THEN 1 ELSE IF c = close THEN -1 ELSE 0

LEMMA OpensAre ==
  ASSUME NEW text \in Text, NEW open, NEW close
  PROVE  /\ Opens(text, open, close)[0] = 0
         /\ \A n \in 0 .. Len(text) : Opens(text, open, close)[n] \in Int
         /\ \A n \in 1 .. Len(text) :
              Opens(text, open, close)[n]
                = Opens(text, open, close)[n - 1] + Weight(text[n], open, close)
<1> DEFINE N == Len(text)
           add(n) == Weight(text[n], open, close)
           Is(f) == f = [n \in 0 .. N |-> IF n = 0 THEN 0 ELSE f[n - 1] + add(n)]
           step == [q \in (1 .. N) \X Int |-> q[2] + add(q[1])]
           V == Int
           v == 0
<1>1. N \in Nat /\ v \in V /\ \A n : add(n) \in Int
  BY TextIs DEF Weight
<1>2. step \in StepsUpTo(N, V)
  <2> HIDE DEF add
  <2> QED  BY <1>1 DEF StepsUpTo
<1>3. PICK g \in [0 .. N -> V] : g[0] = v /\ \A n \in 1 .. N : g[n] = step[<<n, g[n - 1]>>]
  <2> HIDE DEF N, V, v, step
  <2>1. Unfolds(N, V, v, step)
    BY <1>1, <1>2, Recursion
  <2> QED  BY <2>1 DEF Unfolds
<1>4. ASSUME NEW n \in 1 .. N PROVE g[n] = g[n - 1] + add(n)
  <2> HIDE DEF add
  <2>1. g[n - 1] \in V
    <3> HIDE DEF N, V
    <3> QED  BY <1>1
  <2>2. <<n, g[n - 1]>> \in (1 .. N) \X V
    BY <2>1
  <2> QED  BY <1>3, <2>2
<1>5. Is(g)
  <2> HIDE DEF step, add
  <2>1. \A n \in 0 .. N : n = 0 \/ n \in 1 .. N
    BY <1>1
  <2> QED  BY <1>3, <1>4, <2>1
<1>6. Is(Opens(text, open, close))
  <2> HIDE DEF Is
  <2>1. Is(CHOOSE f : Is(f))
    BY <1>5
  <2> QED  BY <2>1 DEF Opens, Is, Weight
<1> DEFINE O == Opens(text, open, close)
<1>7. O[0] = 0 /\ \A n \in 1 .. N : O[n] = O[n - 1] + add(n)
  <2> HIDE DEF N, add
  <2>1. Is(O)
    BY <1>6
  <2> HIDE DEF O
  <2>2. 0 \in 0 .. N /\ \A n \in 1 .. N : n \in 0 .. N /\ n # 0
    BY <1>1
  <2> QED  BY <2>1, <2>2
<1>8. \A n \in 0 .. N : O[n] \in Int
  <2> DEFINE S == {n \in Nat : n <= N => O[n] \in Int}
  <2> HIDE DEF O, add, N
  <2>1. 0 \in S
    BY <1>7
  <2>2. ASSUME NEW n \in Nat, n \in S PROVE n + 1 \in S
    <3> SUFFICES ASSUME n + 1 <= N PROVE O[n + 1] \in Int
      OBVIOUS
    <3>1. n + 1 \in 1 .. N /\ n + 1 - 1 = n /\ n <= N
      BY <1>1
    <3>2. O[n + 1] = O[n] + add(n + 1)
      BY <1>7, <3>1
    <3> QED  BY <1>1, <2>2, <3>1, <3>2
  <2> HIDE DEF S
  <2>3. Nat \subseteq S
    BY <2>1, <2>2, Induction
  <2> QED  BY <1>1, <2>3 DEF S
<1> QED  BY <1>7, <1>8

LEMMA DepthsAre ==
  ASSUME NEW text \in Text
  PROVE  /\ Depths(text)[0] = [paren |-> 0, backtick |-> 0]
         /\ \A n \in 1 .. Len(text) : Depths(text)[n] = Counted(Depths(text)[n - 1], text[n])
<1> DEFINE N == Len(text)
           V == [paren : Int, backtick : Int]
           v == [paren |-> 0, backtick |-> 0]
           Is(f) == f = [n \in 0 .. N |-> IF n = 0 THEN v ELSE Counted(f[n - 1], text[n])]
           step == [q \in (1 .. N) \X V |-> Counted(q[2], text[q[1]])]
<1>0. v \in V
  OBVIOUS
<1>1. N \in Nat
  BY TextIs
<1>2. step \in StepsUpTo(N, V)
  <2>1. ASSUME NEW d \in V, NEW c PROVE Counted(d, c) \in V
    BY DEF Counted
  <2> HIDE DEF V
  <2> QED  BY <2>1 DEF StepsUpTo
<1>3. PICK g \in [0 .. N -> V] : g[0] = v /\ \A n \in 1 .. N : g[n] = step[<<n, g[n - 1]>>]
  <2> HIDE DEF N, V, v, step
  <2>1. Unfolds(N, V, v, step)
    BY <1>0, <1>1, <1>2, Recursion
  <2> QED  BY <2>1 DEF Unfolds
<1>4. ASSUME NEW n \in 1 .. N PROVE g[n] = Counted(g[n - 1], text[n])
  <2>1. g[n - 1] \in V
    <3> HIDE DEF N, V
    <3> QED  BY <1>1
  <2> HIDE DEF V
  <2>2. <<n, g[n - 1]>> \in (1 .. N) \X V
    BY <2>1
  <2> QED  BY <1>3, <2>2
<1>5. Is(g)
  <2> HIDE DEF step, v
  <2>1. \A n \in 0 .. N : n = 0 \/ n \in 1 .. N
    BY <1>1
  <2> QED  BY <1>3, <1>4, <2>1
<1>6. Is(Depths(text))
  <2> HIDE DEF Is
  <2>1. Is(CHOOSE f : Is(f))
    BY <1>5
  <2> QED  BY <2>1 DEF Depths, Is
<1> DEFINE D == Depths(text)
<1> HIDE DEF N, v
<1>7. Is(D)
  BY <1>6
<1> HIDE DEF D
<1>8. 0 \in 0 .. N /\ \A n \in 1 .. N : n \in 0 .. N /\ n # 0
  BY <1>1
<1>9. D[0] = v /\ \A n \in 1 .. N : D[n] = Counted(D[n - 1], text[n])
  BY <1>7, <1>8
<1> QED  BY <1>9 DEF D, v, N

LEMMA JoinedAre ==
  ASSUME NEW texts \in Seq(Text)
  PROVE  /\ Joined(texts)[0] = << >>
         /\ \A n \in 0 .. Len(texts) : Joined(texts)[n] \in Text
         /\ \A n \in 1 .. Len(texts) :
              Joined(texts)[n] = IF n = 1 THEN texts[1]
                                 ELSE Joined(texts)[n - 1] \o <<",">> \o texts[n]
<1> DEFINE N == Len(texts)
           V == Text
           v == << >>
           more(n, t) == IF n = 1 THEN texts[1] ELSE t \o <<",">> \o texts[n]
           Is(f) == f = [n \in 0 .. N |-> IF n = 0 THEN v
                                          ELSE IF n = 1 THEN texts[1]
                                          ELSE f[n - 1] \o <<",">> \o texts[n]]
           step == [q \in (1 .. N) \X V |-> more(q[1], q[2])]
<1>0. N \in Nat
  OBVIOUS
<1>1. N \in Nat /\ v \in V /\ \A n \in 1 .. N : \A t \in V : more(n, t) \in V
  <2>1. v \in V /\ <<",">> \in V
    BY TokensAre
  <2>2. \A n \in 1 .. N : texts[n] \in V
    OBVIOUS
  <2>3. \A s, t \in V : s \o t \in V
    BY ConcatProperties DEF Text
  <2> QED  BY <1>0, <2>1, <2>2, <2>3
<1>2. step \in StepsUpTo(N, V)
  <2> HIDE DEF V, more
  <2> QED  BY <1>1 DEF StepsUpTo
<1>3. PICK g \in [0 .. N -> V] : g[0] = v /\ \A n \in 1 .. N : g[n] = step[<<n, g[n - 1]>>]
  <2> HIDE DEF N, V, v, step
  <2>1. Unfolds(N, V, v, step)
    BY <1>1, <1>2, Recursion
  <2> QED  BY <2>1 DEF Unfolds
<1>4. ASSUME NEW n \in 1 .. N PROVE g[n] = more(n, g[n - 1])
  <2>1. g[n - 1] \in V
    <3> HIDE DEF N, V
    <3> QED  BY <1>0
  <2> HIDE DEF V, more
  <2>2. <<n, g[n - 1]>> \in (1 .. N) \X V
    BY <2>1
  <2> QED  BY <1>3, <2>2
<1>5. Is(g)
  <2> HIDE DEF step, v
  <2>1. \A n \in 0 .. N : n = 0 \/ n \in 1 .. N
    BY <1>0
  <2> QED  BY <1>3, <1>4, <2>1
<1>6. Is(Joined(texts))
  <2> HIDE DEF Is
  <2>1. Is(CHOOSE f : Is(f))
    BY <1>5
  <2> QED  BY <2>1 DEF Joined, Is
<1> DEFINE J == Joined(texts)
<1>7. J[0] = v /\ \A n \in 1 .. N : J[n] = more(n, J[n - 1])
  <2> HIDE DEF N, v
  <2>1. Is(J)
    BY <1>6
  <2> HIDE DEF J
  <2>2. 0 \in 0 .. N /\ \A n \in 1 .. N : n \in 0 .. N /\ n # 0
    BY <1>0
  <2> QED  BY <2>1, <2>2
<1>8. \A n \in 0 .. N : J[n] \in Text
  <2> DEFINE S == {n \in Nat : n <= N => J[n] \in Text}
  <2> HIDE DEF J, more, N
  <2>1. 0 \in S
    BY <1>1, <1>7
  <2>2. ASSUME NEW n \in Nat, n \in S PROVE n + 1 \in S
    <3> SUFFICES ASSUME n + 1 <= N PROVE J[n + 1] \in Text
      OBVIOUS
    <3>1. n + 1 \in 1 .. N /\ n + 1 - 1 = n /\ n <= N
      BY <1>1
    <3>2. J[n + 1] = more(n + 1, J[n])
      BY <1>7, <3>1
    <3> QED  BY <1>1, <2>2, <3>1, <3>2
  <2> HIDE DEF S
  <2>3. Nat \subseteq S
    BY <2>1, <2>2, Induction
  <2> QED  BY <1>1, <2>3 DEF S
<1> QED  BY <1>7, <1>8

LEMMA ClearedIs ==
  ASSUME NEW text \in Text
  PROVE  /\ Cleared(text)[0] = << >>
         /\ \A n \in 0 .. Len(text) : Cleared(text)[n] \in Text
         /\ \A n \in 1 .. Len(text) :
              Cleared(text)[n] = IF IsJunk(text, n) THEN Cleared(text)[n - 1]
                                 ELSE Append(Cleared(text)[n - 1], text[n])
<1> DEFINE N == Len(text)
           V == Text
           v == << >>
           more(n, t) == IF IsJunk(text, n) THEN t ELSE Append(t, text[n])
           Is(f) == f = [n \in 0 .. N |-> IF n = 0 THEN v
                                          ELSE IF IsJunk(text, n) THEN f[n - 1]
                                          ELSE Append(f[n - 1], text[n])]
           step == [q \in (1 .. N) \X V |-> more(q[1], q[2])]
<1>0. N \in Nat
  OBVIOUS
<1>1. N \in Nat /\ v \in V /\ \A n \in 1 .. N : \A t \in V : more(n, t) \in V
  <2>1. v \in V /\ \A n \in 1 .. N : text[n] \in Lexemes
    BY TokensAre, TextIs
  <2>2. \A t \in V, x \in Lexemes : Append(t, x) \in V
    BY DEF Text
  <2> QED  BY <1>0, <2>1, <2>2
<1>2. step \in StepsUpTo(N, V)
  <2> HIDE DEF V, more
  <2> QED  BY <1>1 DEF StepsUpTo
<1>3. PICK g \in [0 .. N -> V] : g[0] = v /\ \A n \in 1 .. N : g[n] = step[<<n, g[n - 1]>>]
  <2> HIDE DEF N, V, v, step
  <2>1. Unfolds(N, V, v, step)
    BY <1>1, <1>2, Recursion
  <2> QED  BY <2>1 DEF Unfolds
<1>4. ASSUME NEW n \in 1 .. N PROVE g[n] = more(n, g[n - 1])
  <2>1. g[n - 1] \in V
    <3> HIDE DEF N, V
    <3> QED  BY <1>0
  <2> HIDE DEF V, more
  <2>2. <<n, g[n - 1]>> \in (1 .. N) \X V
    BY <2>1
  <2> QED  BY <1>3, <2>2
<1>5. Is(g)
  <2> HIDE DEF step, v
  <2>1. \A n \in 0 .. N : n = 0 \/ n \in 1 .. N
    BY <1>0
  <2> QED  BY <1>3, <1>4, <2>1
<1>6. Is(Cleared(text))
  <2> HIDE DEF Is
  <2>1. Is(CHOOSE f : Is(f))
    BY <1>5
  <2> QED  BY <2>1 DEF Cleared, Is
<1> DEFINE J == Cleared(text)
<1>7. J[0] = v /\ \A n \in 1 .. N : J[n] = more(n, J[n - 1])
  <2> HIDE DEF N, v
  <2>1. Is(J)
    BY <1>6
  <2> HIDE DEF J
  <2>2. 0 \in 0 .. N /\ \A n \in 1 .. N : n \in 0 .. N /\ n # 0
    BY <1>0
  <2> QED  BY <2>1, <2>2
<1>8. \A n \in 0 .. N : J[n] \in Text
  <2> DEFINE S == {n \in Nat : n <= N => J[n] \in Text}
  <2> HIDE DEF J, more, N
  <2>1. 0 \in S
    BY <1>1, <1>7
  <2>2. ASSUME NEW n \in Nat, n \in S PROVE n + 1 \in S
    <3> SUFFICES ASSUME n + 1 <= N PROVE J[n + 1] \in Text
      OBVIOUS
    <3>1. n + 1 \in 1 .. N /\ n + 1 - 1 = n /\ n <= N
      BY <1>1
    <3>2. J[n + 1] = more(n + 1, J[n])
      BY <1>7, <3>1
    <3> QED  BY <1>1, <2>2, <3>1, <3>2
  <2> HIDE DEF S
  <2>3. Nat \subseteq S
    BY <2>1, <2>2, Induction
  <2> QED  BY <1>1, <2>3 DEF S
<1> QED  BY <1>7, <1>8

-----------------------------------------------------------------------------
(* Texts one behind the other.                                             *)

LEMMA ConcatIs ==
  ASSUME NEW a \in Text, NEW b \in Text
  PROVE  /\ a \o b \in Text /\ Len(a \o b) = Len(a) + Len(b)
         /\ Len(a) \in Nat /\ Len(b) \in Nat
         /\ DOMAIN (a \o b) = 1 .. Len(a) + Len(b)
         /\ \A i \in 1 .. Len(a) : (a \o b)[i] = a[i]
         /\ \A i \in 1 .. Len(b) : (a \o b)[Len(a) + i] = b[i]
<1>1. a \o b \in Text /\ Len(a \o b) = Len(a) + Len(b)
  BY ConcatProperties DEF Text
<1>2. \A i \in 1 .. Len(a) + Len(b) :
        (a \o b)[i] = IF i <= Len(a) THEN a[i] ELSE b[i - Len(a)]
  BY ConcatProperties DEF Text
<1>3. Len(a) \in Nat /\ Len(b) \in Nat /\ DOMAIN (a \o b) = 1 .. Len(a \o b)
  BY <1>1, TextIs
<1>4. ASSUME NEW i \in 1 .. Len(a) PROVE (a \o b)[i] = a[i]
  BY <1>2, <1>3
<1>5. ASSUME NEW i \in 1 .. Len(b) PROVE (a \o b)[Len(a) + i] = b[i]
  <2>1. Len(a) + i \in 1 .. Len(a) + Len(b) /\ ~(Len(a) + i <= Len(a)) /\ Len(a) + i - Len(a) = i
    BY <1>3
  <2> QED  BY <1>2, <2>1
<1> QED  BY <1>1, <1>3, <1>4, <1>5

LEMMA OpensOfConcat ==
  ASSUME NEW a \in Text, NEW b \in Text, NEW open, NEW close
  PROVE  /\ \A n \in 0 .. Len(a) :
              Opens(a \o b, open, close)[n] = Opens(a, open, close)[n]
         /\ \A n \in 0 .. Len(b) :
              Opens(a \o b, open, close)[Len(a) + n]
                = Opens(a, open, close)[Len(a)] + Opens(b, open, close)[n]
<1> DEFINE ab == a \o b
           O == Opens(ab, open, close)
           A == Opens(a, open, close)
           B == Opens(b, open, close)
           add(c) == Weight(c, open, close)
           k == Len(a)
           m == Len(b)
<1>1. /\ ab \in Text /\ Len(ab) = k + m /\ k \in Nat /\ m \in Nat
      /\ \A i \in 1 .. k : ab[i] = a[i]
      /\ \A i \in 1 .. m : ab[k + i] = b[i]
  BY ConcatIs
<1>2. /\ O[0] = 0 /\ A[0] = 0 /\ B[0] = 0
      /\ \A n \in 0 .. k : A[n] \in Int
      /\ \A n \in 0 .. m : B[n] \in Int
      /\ \A n \in 1 .. k + m : O[n] = O[n - 1] + add(ab[n])
      /\ \A n \in 1 .. k : A[n] = A[n - 1] + add(a[n])
      /\ \A n \in 1 .. m : B[n] = B[n - 1] + add(b[n])
  <2> HIDE DEF ab
  <2>1. O[0] = 0 /\ \A n \in 1 .. k + m : O[n] = O[n - 1] + add(ab[n])
    BY <1>1, OpensAre
  <2>2. /\ A[0] = 0 /\ \A n \in 0 .. k : A[n] \in Int
        /\ \A n \in 1 .. k : A[n] = A[n - 1] + add(a[n])
    BY OpensAre
  <2>3. /\ B[0] = 0 /\ \A n \in 0 .. m : B[n] \in Int
        /\ \A n \in 1 .. m : B[n] = B[n - 1] + add(b[n])
    BY OpensAre
  <2> QED  BY <2>1, <2>2, <2>3
<1>3. \A c : add(c) \in Int
  BY DEF Weight
<1> HIDE DEF ab, O, A, B, add, k, m
<1>4. \A n \in 0 .. k : O[n] = A[n]
  <2> DEFINE S == {n \in Nat : n <= k => O[n] = A[n]}
  <2>1. 0 \in S
    BY <1>2
  <2>2. ASSUME NEW n \in Nat, n \in S PROVE n + 1 \in S
    <3> SUFFICES ASSUME n + 1 <= k PROVE O[n + 1] = A[n + 1]
      OBVIOUS
    <3>1. n + 1 \in 1 .. k /\ n + 1 \in 1 .. k + m /\ n + 1 - 1 = n /\ n <= k
      BY <1>1
    <3>2. O[n + 1] = O[n] + add(ab[n + 1]) /\ A[n + 1] = A[n] + add(a[n + 1])
      BY <1>2, <3>1
    <3> QED  BY <1>1, <2>2, <3>1, <3>2
  <2> HIDE DEF S
  <2>3. Nat \subseteq S
    BY <2>1, <2>2, Induction
  <2> QED  BY <1>1, <2>3 DEF S
<1>5. \A n \in 0 .. m : O[k + n] = A[k] + B[n]
  <2> DEFINE S == {n \in Nat : n <= m => O[k + n] = A[k] + B[n]}
  <2>0. A[k] \in Int /\ O[k] = A[k]
    BY <1>1, <1>2, <1>4
  <2>1. 0 \in S
    BY <1>1, <1>2, <2>0
  <2>2. ASSUME NEW n \in Nat, n \in S PROVE n + 1 \in S
    <3> SUFFICES ASSUME n + 1 <= m PROVE O[k + (n + 1)] = A[k] + B[n + 1]
      OBVIOUS
    <3>1. /\ n + 1 \in 1 .. m /\ k + (n + 1) \in 1 .. k + m /\ n + 1 - 1 = n /\ n <= m
          /\ k + (n + 1) - 1 = k + n /\ n \in 0 .. m
      BY <1>1
    <3>2. B[n + 1] = B[n] + add(b[n + 1]) /\ B[n] \in Int
      BY <1>2, <3>1
    <3> DEFINE j == k + (n + 1)
    <3>a. j \in 1 .. k + m /\ j - 1 = k + n
      BY <1>1, <3>1
    <3> HIDE DEF j
    <3>b. O[j] = O[j - 1] + add(ab[j])
      BY <1>2, <3>a
    <3>3. O[k + (n + 1)] = O[k + n] + add(ab[k + (n + 1)])
      BY <3>a, <3>b DEF j
    <3>4. ab[k + (n + 1)] = b[n + 1] /\ O[k + n] = A[k] + B[n]
      BY <1>1, <2>2, <3>1
    <3> QED  BY <1>3, <2>0, <3>2, <3>3, <3>4
  <2> HIDE DEF S
  <2>3. Nat \subseteq S
    BY <2>1, <2>2, Induction
  <2> QED  BY <1>1, <2>3 DEF S
<1> QED  BY <1>4, <1>5 DEF ab, O, A, B, k, m

LEMMA OpensOfToken ==
  ASSUME NEW c \in Lexemes, NEW open, NEW close
  PROVE  /\ <<c>> \in Text /\ Len(<<c>>) = 1
         /\ Opens(<<c>>, open, close)[0] = 0
         /\ Opens(<<c>>, open, close)[1] = Weight(c, open, close)
<1>1. <<c>> \in Text /\ Len(<<c>>) = 1 /\ <<c>>[1] = c
  BY TokensAre
<1>2. 1 \in 1 .. Len(<<c>>)
  BY <1>1
<1>3. Opens(<<c>>, open, close)[1] = Opens(<<c>>, open, close)[1 - 1]
        + Weight(<<c>>[1], open, close)
  <2> DEFINE t == <<c>>
  <2>1. t \in Text /\ 1 \in 1 .. Len(t)
    BY <1>1, <1>2
  <2> HIDE DEF t
  <2>2. Opens(t, open, close)[1] = Opens(t, open, close)[1 - 1] + Weight(t[1], open, close)
    BY <2>1, OpensAre
  <2> QED  BY <2>2 DEF t
<1>4. Opens(<<c>>, open, close)[0] = 0 /\ 1 - 1 = 0
  BY <1>1, OpensAre
<1>5. Weight(c, open, close) \in Int
  BY DEF Weight
<1> QED  BY <1>1, <1>3, <1>4, <1>5

(* Nested texts, and what is outside of all brackets and quotes in them.   *)
LEMMA NestedConcat ==
  ASSUME NEW a \in Text, NEW b \in Text, Nested(a)
  PROVE  /\ Nested(b) <=> Nested(a \o b)
         /\ \A token : Outside(a \o b, token) =
              Outside(a, token) \cup {Len(a) + i : i \in Outside(b, token)}
<1> DEFINE ab == a \o b
           k == Len(a)
           m == Len(b)
           P == Parens(ab)
           PA == Parens(a)
           PB == Parens(b)
           Q == Quotes(ab)
           QA == Quotes(a)
           QB == Quotes(b)
<1>1. /\ ab \in Text /\ Len(ab) = k + m /\ k \in Nat /\ m \in Nat
      /\ \A i \in 1 .. k : ab[i] = a[i]
      /\ \A i \in 1 .. m : ab[k + i] = b[i]
      /\ DOMAIN ab = 1 .. k + m /\ DOMAIN a = 1 .. k /\ DOMAIN b = 1 .. m
  BY ConcatIs, TextIs
<1>2. /\ \A n \in 0 .. k : P[n] = PA[n] /\ Q[n] = QA[n]
      /\ \A n \in 0 .. m : P[k + n] = PA[k] + PB[n] /\ Q[k + n] = QA[k] + QB[n]
  BY OpensOfConcat DEF Parens, Quotes
<1>3. \A n \in 0 .. m : PB[n] \in Int /\ QB[n] \in Int
  BY OpensAre DEF Parens, Quotes
<1>4. /\ \A n \in 0 .. k : PA[n] >= 0 /\ QA[n] >= 0
      /\ PA[k] = 0 /\ QA[k] = 0
  BY DEF Nested
<1> HIDE DEF ab, k, m, P, PA, PB, Q, QA, QB
<1>5. \A n \in 0 .. m : P[k + n] = PB[n] /\ Q[k + n] = QB[n]
  BY <1>2, <1>3, <1>4
<1>6. \A n \in 0 .. k + m : n \in 0 .. k \/ \E j \in 0 .. m : n = k + j
  <2> SUFFICES ASSUME NEW n \in 0 .. k + m, ~(n \in 0 .. k) PROVE \E j \in 0 .. m : n = k + j
    OBVIOUS
  <2>1. n - k \in 0 .. m /\ n = k + (n - k)
    BY <1>1
  <2> QED  BY <2>1
<1>7. Nested(ab) <=> /\ \A n \in 0 .. k + m : P[n] >= 0 /\ Q[n] >= 0
                     /\ P[k + m] = 0 /\ Q[k + m] = 0
  BY <1>1 DEF Nested, P, Q
<1>8. Nested(b) <=> /\ \A n \in 0 .. m : PB[n] >= 0 /\ QB[n] >= 0
                    /\ PB[m] = 0 /\ QB[m] = 0
  BY DEF Nested, PB, QB, m
<1>9. m \in 0 .. m /\ \A j \in 0 .. m : k + j \in 0 .. k + m
  BY <1>1
<1>10. Nested(b) <=> Nested(ab)
  <2>1. P[k + m] = PB[m] /\ Q[k + m] = QB[m]
    BY <1>5, <1>9
  <2>2. ASSUME Nested(b), NEW n \in 0 .. k + m PROVE P[n] >= 0 /\ Q[n] >= 0
    <3>1. CASE n \in 0 .. k
      BY <1>2, <1>4, <3>1
    <3>2. CASE \E j \in 0 .. m : n = k + j
      BY <1>5, <1>8, <2>2, <3>2
    <3> QED  BY <1>6, <3>1, <3>2
  <2>3. ASSUME Nested(ab), NEW j \in 0 .. m PROVE PB[j] >= 0 /\ QB[j] >= 0
    BY <1>5, <1>7, <1>9, <2>3
  <2> QED  BY <1>7, <1>8, <2>1, <2>2, <2>3
<1>11. ASSUME NEW token
       PROVE  Outside(ab, token) = Outside(a, token) \cup {k + i : i \in Outside(b, token)}
  <2>1. \A i : i \in Outside(ab, token) <=>
                 i \in 1 .. k + m /\ ab[i] = token /\ P[i - 1] = 0 /\ Q[i - 1] = 0
    BY <1>1 DEF Outside, P, Q
  <2>2. \A i : i \in Outside(a, token) <=>
                 i \in 1 .. k /\ a[i] = token /\ PA[i - 1] = 0 /\ QA[i - 1] = 0
    BY <1>1 DEF Outside, PA, QA
  <2>3. \A i : i \in Outside(b, token) <=>
                 i \in 1 .. m /\ b[i] = token /\ PB[i - 1] = 0 /\ QB[i - 1] = 0
    BY <1>1 DEF Outside, PB, QB
  <2>4. \A i \in 1 .. k : i \in Outside(ab, token) <=> i \in Outside(a, token)
    <3> SUFFICES ASSUME NEW i \in 1 .. k
                 PROVE  i \in Outside(ab, token) <=> i \in Outside(a, token)
      OBVIOUS
    <3>1. i - 1 \in 0 .. k /\ i \in 1 .. k + m
      BY <1>1
    <3> QED  BY <1>1, <1>2, <2>1, <2>2, <3>1
  <2>5. \A j \in 1 .. m : k + j \in Outside(ab, token) <=> j \in Outside(b, token)
    <3> SUFFICES ASSUME NEW j \in 1 .. m
                 PROVE  k + j \in Outside(ab, token) <=> j \in Outside(b, token)
      OBVIOUS
    <3>1. j - 1 \in 0 .. m /\ k + j \in 1 .. k + m /\ k + j - 1 = k + (j - 1)
      BY <1>1
    <3>2. k + j \in Outside(ab, token) <=>
            ab[k + j] = token /\ P[k + (j - 1)] = 0 /\ Q[k + (j - 1)] = 0
      <4> DEFINE x == k + j
      <4>1. x \in 1 .. k + m /\ x - 1 = k + (j - 1)
        BY <1>1
      <4> HIDE DEF x
      <4>2. x \in Outside(ab, token) <=> ab[x] = token /\ P[x - 1] = 0 /\ Q[x - 1] = 0
        BY <2>1, <4>1
      <4> QED  BY <4>1, <4>2 DEF x
    <3>3. ab[k + j] = b[j] /\ P[k + (j - 1)] = PB[j - 1] /\ Q[k + (j - 1)] = QB[j - 1]
      BY <1>1, <1>5, <3>1
    <3> QED  BY <2>3, <3>2, <3>3
  <2>6. \A i \in 1 .. k + m : i \in 1 .. k \/ \E j \in 1 .. m : i = k + j
    <3> SUFFICES ASSUME NEW i \in 1 .. k + m, ~(i \in 1 .. k) PROVE \E j \in 1 .. m : i = k + j
      OBVIOUS
    <3>1. i - k \in 1 .. m /\ i = k + (i - k)
      BY <1>1
    <3> QED  BY <3>1
  <2>7. \A i : i \in Outside(ab, token) <=>
                 i \in Outside(a, token) \/ \E j \in Outside(b, token) : i = k + j
    <3>1. ASSUME NEW i \in Outside(ab, token)
          PROVE  i \in Outside(a, token) \/ \E j \in Outside(b, token) : i = k + j
      <4>1. i \in 1 .. k + m
        BY <2>1
      <4>2. CASE i \in 1 .. k
        BY <2>4, <4>2
      <4>3. CASE \E j \in 1 .. m : i = k + j
        BY <2>5, <4>3
      <4> QED  BY <2>6, <4>1, <4>2, <4>3
    <3>2. ASSUME NEW i \in Outside(a, token) PROVE i \in Outside(ab, token)
      BY <2>2, <2>4
    <3>3. ASSUME NEW j \in Outside(b, token) PROVE k + j \in Outside(ab, token)
      BY <2>3, <2>5
    <3> QED  BY <3>1, <3>2, <3>3
  <2> QED  BY <2>7
<1> QED  BY <1>10, <1>11 DEF ab, k

LEMMA NestedToken ==
  ASSUME NEW c \in Lexemes, c \notin {"(", ")", "backtick", "quote"}
  PROVE  /\ <<c>> \in Text /\ Len(<<c>>) = 1 /\ Nested(<<c>>)
         /\ \A token : Outside(<<c>>, token) = IF token = c THEN {1} ELSE {}
<1>1. /\ <<c>> \in Text /\ Len(<<c>>) = 1 /\ <<c>>[1] = c /\ DOMAIN <<c>> = {1}
      /\ \A n \in 0 .. Len(<<c>>) : n = 0 \/ n = 1
  <2>1. <<c>> \in Text
    BY TokensAre
  <2>2. Len(<<c>>) = 1 /\ <<c>>[1] = c
    OBVIOUS
  <2>3. DOMAIN <<c>> = 1 .. 1 /\ 1 .. 1 = {1}
    BY <2>1, <2>2, TextIs
  <2> QED  BY <2>1, <2>2, <2>3
<1>2. /\ Parens(<<c>>)[0] = 0 /\ Quotes(<<c>>)[0] = 0
      /\ Parens(<<c>>)[1] = 0 /\ Quotes(<<c>>)[1] = 0
  BY OpensOfToken DEF Parens, Quotes, Weight
<1>3. Nested(<<c>>)
  BY <1>1, <1>2 DEF Nested
<1>4. ASSUME NEW token PROVE Outside(<<c>>, token) = IF token = c THEN {1} ELSE {}
  <2>1. \A i : i \in Outside(<<c>>, token) <=> i = 1 /\ c = token
    BY <1>1, <1>2 DEF Outside
  <2> QED  BY <2>1
<1> QED  BY <1>1, <1>3, <1>4

LEMMA NestedEmpty ==
  << >> \in Text /\ Len(<< >>) = 0 /\ Nested(<< >>) /\ \A token : Outside(<< >>, token) = {}
<1>1. << >> \in Text /\ Len(<< >>) = 0 /\ DOMAIN << >> = {}
  <2>1. << >> \in Text
    BY TokensAre
  <2>2. Len(<< >>) = 0
    OBVIOUS
  <2>3. DOMAIN << >> = 1 .. 0 /\ 1 .. 0 = {}
    BY <2>1, <2>2, TextIs
  <2> QED  BY <2>1, <2>2, <2>3
<1>2. Parens(<< >>)[0] = 0 /\ Quotes(<< >>)[0] = 0
  BY <1>1, OpensAre DEF Parens, Quotes
<1>3. Nested(<< >>)
  BY <1>1, <1>2 DEF Nested
<1>4. \A token : Outside(<< >>, token) = {}
  BY <1>1 DEF Outside
<1> QED  BY <1>1, <1>3, <1>4

LEMMA CountsOfConcat ==
  ASSUME NEW a \in Text, NEW b \in Text
  PROVE  /\ \A n \in 0 .. Len(a) : /\ Parens(a \o b)[n] = Parens(a)[n]
                                  /\ Quotes(a \o b)[n] = Quotes(a)[n]
         /\ \A n \in 0 .. Len(b) :
              /\ Parens(a \o b)[Len(a) + n] = Parens(a)[Len(a)] + Parens(b)[n]
              /\ Quotes(a \o b)[Len(a) + n] = Quotes(a)[Len(a)] + Quotes(b)[n]
<1> QED  BY OpensOfConcat DEF Parens, Quotes

LEMMA ParensOfInParens ==
  ASSUME NEW a \in Text, Nested(a)
  PROVE  /\ InParens(a) \in Text /\ Len(InParens(a)) = Len(a) + 2 /\ Len(a) \in Nat
         /\ InParens(a)[1] = "(" /\ InParens(a)[Len(a) + 2] = ")"
         /\ \A i \in 1 .. Len(a) : InParens(a)[i + 1] = a[i]
         /\ Parens(InParens(a))[0] = 0 /\ Quotes(InParens(a))[0] = 0
         /\ \A n \in 0 .. Len(a) : /\ Parens(InParens(a))[n + 1] = Parens(a)[n] + 1
                                   /\ Quotes(InParens(a))[n + 1] = Quotes(a)[n]
                                   /\ Parens(a)[n] \in Nat /\ Quotes(a)[n] \in Nat
         /\ Parens(InParens(a))[Len(a) + 2] = 0 /\ Quotes(InParens(a))[Len(a) + 2] = 0
<1> DEFINE l == <<"(">>
           la == l \o a
           r == <<")">>
           k == Len(a)
           P == Parens(InParens(a))
           Q == Quotes(InParens(a))
<1>1. /\ l \in Text /\ r \in Text /\ Len(l) = 1 /\ Len(r) = 1 /\ l[1] = "(" /\ r[1] = ")"
  BY TokensAre
<1>2. /\ Parens(l)[1] = 1 /\ Quotes(l)[1] = 0 /\ Parens(r)[1] = -1 /\ Quotes(r)[1] = 0
      /\ Parens(r)[0] = 0 /\ Quotes(r)[0] = 0 /\ Parens(l)[0] = 0 /\ Quotes(l)[0] = 0
  <2>1. "(" \in Lexemes /\ ")" \in Lexemes
    BY TokensAre
  <2>2. Parens(l)[0] = 0 /\ Parens(l)[1] = 1 /\ Quotes(l)[0] = 0 /\ Quotes(l)[1] = 0
    BY <2>1, OpensOfToken DEF Parens, Quotes, Weight
  <2>3. Parens(r)[0] = 0 /\ Parens(r)[1] = -1 /\ Quotes(r)[0] = 0 /\ Quotes(r)[1] = 0
    BY <2>1, OpensOfToken DEF Parens, Quotes, Weight
  <2> QED  BY <2>2, <2>3
<1> HIDE DEF l, r
<1>3. /\ la \in Text /\ Len(la) = 1 + k /\ k \in Nat
      /\ la[1] = "(" /\ \A i \in 1 .. k : la[1 + i] = a[i]
  <2>1. /\ la \in Text /\ Len(la) = Len(l) + k /\ k \in Nat
        /\ \A i \in 1 .. Len(l) : la[i] = l[i]
        /\ \A i \in 1 .. k : la[Len(l) + i] = a[i]
    BY <1>1, ConcatIs
  <2> HIDE DEF la, k
  <2>2. 1 \in 1 .. Len(l)
    BY <1>1
  <2> QED  BY <1>1, <2>1, <2>2
<1>4. /\ \A n \in 0 .. 1 : Parens(la)[n] = Parens(l)[n] /\ Quotes(la)[n] = Quotes(l)[n]
      /\ \A n \in 0 .. k : /\ Parens(la)[1 + n] = Parens(l)[1] + Parens(a)[n]
                           /\ Quotes(la)[1 + n] = Quotes(l)[1] + Quotes(a)[n]
  <2>1. /\ \A n \in 0 .. Len(l) : Parens(la)[n] = Parens(l)[n] /\ Quotes(la)[n] = Quotes(l)[n]
        /\ \A n \in 0 .. k : /\ Parens(la)[Len(l) + n] = Parens(l)[Len(l)] + Parens(a)[n]
                             /\ Quotes(la)[Len(l) + n] = Quotes(l)[Len(l)] + Quotes(a)[n]
    BY <1>1, CountsOfConcat
  <2> HIDE DEF la, k
  <2> QED  BY <1>1, <2>1
<1>5. /\ \A n \in 0 .. k : Parens(a)[n] \in Int /\ Quotes(a)[n] \in Int
                           /\ Parens(a)[n] >= 0 /\ Quotes(a)[n] >= 0
      /\ Parens(a)[k] = 0 /\ Quotes(a)[k] = 0
  BY OpensAre DEF Nested, Parens, Quotes
<1> HIDE DEF la
<1>6. InParens(a) = la \o r
  BY DEF InParens, la, l, r
<1>7. /\ la \o r \in Text /\ Len(la \o r) = Len(la) + Len(r)
      /\ \A i \in 1 .. Len(la) : (la \o r)[i] = la[i]
      /\ \A i \in 1 .. Len(r) : (la \o r)[Len(la) + i] = r[i]
  BY <1>1, <1>3, ConcatIs
<1>8. /\ InParens(a) \in Text /\ Len(InParens(a)) = k + 2
      /\ \A i \in 1 .. k + 1 : InParens(a)[i] = la[i]
      /\ InParens(a)[k + 2] = ")"
  <2>1. 1 + k + 1 = k + 2 /\ 1 + k = k + 1 /\ 1 \in 1 .. 1
    BY <1>3
  <2> QED  BY <1>1, <1>3, <1>6, <1>7, <2>1
<1>9. /\ \A n \in 0 .. Len(la) : P[n] = Parens(la)[n] /\ Q[n] = Quotes(la)[n]
      /\ \A n \in 0 .. Len(r) : /\ P[Len(la) + n] = Parens(la)[Len(la)] + Parens(r)[n]
                                /\ Q[Len(la) + n] = Quotes(la)[Len(la)] + Quotes(r)[n]
  <2>1. la \in Text /\ r \in Text
    BY <1>1, <1>3
  <2>2. /\ \A n \in 0 .. Len(la) : /\ Parens(la \o r)[n] = Parens(la)[n]
                                   /\ Quotes(la \o r)[n] = Quotes(la)[n]
        /\ \A n \in 0 .. Len(r) :
             /\ Parens(la \o r)[Len(la) + n] = Parens(la)[Len(la)] + Parens(r)[n]
             /\ Quotes(la \o r)[Len(la) + n] = Quotes(la)[Len(la)] + Quotes(r)[n]
    BY <2>1, CountsOfConcat
  <2> QED  BY <1>6, <2>2
<1> HIDE DEF P, Q, k
<1>10. P[0] = 0 /\ Q[0] = 0
  BY <1>2, <1>3, <1>4, <1>9
<1>11. ASSUME NEW n \in 0 .. k
       PROVE  P[n + 1] = Parens(a)[n] + 1 /\ Q[n + 1] = Quotes(a)[n]
  <2>1. 1 + n \in 0 .. Len(la) /\ 1 + n = n + 1
    BY <1>3
  <2>2. P[1 + n] = 1 + Parens(a)[n] /\ Q[1 + n] = 0 + Quotes(a)[n]
    BY <1>2, <1>4, <1>9, <2>1
  <2> QED  BY <1>5, <2>1, <2>2
<1>12. P[k + 2] = 0 /\ Q[k + 2] = 0
  <2>1. Len(la) + 1 = k + 2 /\ 1 \in 0 .. Len(r) /\ k \in 0 .. k /\ Len(la) = k + 1
    BY <1>1, <1>3
  <2>2. Parens(la)[k + 1] = 1 /\ Quotes(la)[k + 1] = 0
    <3>1. k + 1 \in 0 .. Len(la)
      BY <1>3
    <3>2. P[k + 1] = Parens(la)[k + 1] /\ Q[k + 1] = Quotes(la)[k + 1]
      BY <1>9, <3>1
    <3> QED  BY <1>5, <1>11, <2>1, <3>2
  <2>3. P[Len(la) + 1] = Parens(la)[Len(la)] + Parens(r)[1]
        /\ Q[Len(la) + 1] = Quotes(la)[Len(la)] + Quotes(r)[1]
    BY <1>9, <2>1
  <2> QED  BY <1>2, <2>1, <2>2, <2>3
<1>13. InParens(a)[1] = "(" /\ \A i \in 1 .. k : InParens(a)[i + 1] = a[i]
  <2>1. 1 \in 1 .. k + 1 /\ \A i \in 1 .. k : i + 1 \in 1 .. k + 1 /\ i + 1 = 1 + i
    BY <1>3
  <2> QED  BY <1>3, <1>8, <2>1 DEF k
<1> QED  BY <1>3, <1>5, <1>8, <1>10, <1>11, <1>12, <1>13 DEF P, Q, k

LEMMA NestedParens ==
  ASSUME NEW a \in Text, Nested(a)
  PROVE  /\ InParens(a) \in Text /\ Nested(InParens(a))
         /\ \A token : token \notin {"(", ")"} => Outside(InParens(a), token) = {}
<1> DEFINE k == Len(a)
           t == InParens(a)
           P == Parens(t)
           Q == Quotes(t)
<1>1. /\ t \in Text /\ Len(t) = k + 2 /\ k \in Nat /\ t[1] = "(" /\ t[k + 2] = ")"
      /\ P[0] = 0 /\ Q[0] = 0 /\ P[k + 2] = 0 /\ Q[k + 2] = 0
      /\ \A n \in 0 .. k : /\ P[n + 1] = Parens(a)[n] + 1 /\ Q[n + 1] = Quotes(a)[n]
                           /\ Parens(a)[n] \in Nat /\ Quotes(a)[n] \in Nat
  BY ParensOfInParens
<1>2. DOMAIN t = 1 .. k + 2
  BY <1>1, TextIs
<1> HIDE DEF t, P, Q, k
<1>3. \A n \in 0 .. k + 2 : n = 0 \/ n = k + 2 \/ (n - 1 \in 0 .. k /\ n = n - 1 + 1)
  BY <1>1
<1>4. ASSUME NEW n \in 0 .. k + 2 PROVE P[n] >= 0 /\ Q[n] >= 0
  <2>1. CASE n = 0
    BY <1>1, <2>1
  <2>2. CASE n = k + 2
    BY <1>1, <2>2
  <2>3. CASE n - 1 \in 0 .. k /\ n = n - 1 + 1
    <3> DEFINE j == n - 1
    <3>1. j \in 0 .. k /\ n = j + 1
      BY <2>3
    <3> HIDE DEF j
    <3>2. /\ P[n] = Parens(a)[j] + 1 /\ Q[n] = Quotes(a)[j]
          /\ Parens(a)[j] \in Nat /\ Quotes(a)[j] \in Nat
      BY <1>1, <3>1
    <3> QED  BY <3>2
  <2> QED  BY <1>3, <2>1, <2>2, <2>3
<1>5. Nested(t)
  BY <1>1, <1>4 DEF Nested, P, Q
<1>6. ASSUME NEW token, token \notin {"(", ")"}, NEW i \in Outside(t, token) PROVE FALSE
  <2>1. i \in 1 .. k + 2 /\ t[i] = token /\ P[i - 1] = 0
    BY <1>2, <1>6 DEF Outside, P
  <2>2. i # 1 /\ i # k + 2
    BY <1>1, <1>6, <2>1
  <2>3. i - 2 \in 0 .. k /\ i - 1 = i - 2 + 1
    BY <1>1, <2>1, <2>2
  <2>4. P[i - 1] = Parens(a)[i - 2] + 1 /\ Parens(a)[i - 2] \in Nat
    BY <1>1, <2>3
  <2> QED  BY <2>1, <2>4
<1> QED  BY <1>1, <1>5, <1>6 DEF t

(* The scans find the places outside of all brackets and quotes.           *)
LEMMA TopsOfNested ==
  ASSUME NEW text \in Text, Nested(text)
  PROVE  \A token : Tops(text, token) = Outside(text, token)
<1> DEFINE N == Len(text)
           D == Depths(text)
           P == Parens(text)
           Q == Quotes(text)
<1>1. N \in Nat /\ DOMAIN text = 1 .. N
  BY TextIs
<1>2. /\ D[0] = [paren |-> 0, backtick |-> 0]
      /\ \A n \in 1 .. N : D[n] = Counted(D[n - 1], text[n])
  BY DepthsAre
<1>3. /\ P[0] = 0 /\ \A n \in 0 .. N : P[n] \in Int
      /\ \A n \in 1 .. N : P[n] = P[n - 1] + Weight(text[n], "(", ")")
  BY OpensAre DEF Parens
<1>4. /\ Q[0] = 0 /\ \A n \in 0 .. N : Q[n] \in Int
      /\ \A n \in 1 .. N : Q[n] = Q[n - 1] + Weight(text[n], "backtick", "quote")
  BY OpensAre DEF Quotes
<1>5. \A n \in 0 .. N : P[n] >= 0 /\ Q[n] >= 0
  BY DEF Nested
<1> HIDE DEF N, D, P, Q
<1>6. \A n \in 0 .. N : D[n] = [paren |-> P[n], backtick |-> Q[n]]
  <2> DEFINE S == {n \in Nat : n <= N => D[n] = [paren |-> P[n], backtick |-> Q[n]]}
  <2>1. 0 \in S
    BY <1>2, <1>3, <1>4
  <2>2. ASSUME NEW n \in Nat, n \in S PROVE n + 1 \in S
    <3> SUFFICES ASSUME n + 1 <= N
                 PROVE  D[n + 1] = [paren |-> P[n + 1], backtick |-> Q[n + 1]]
      OBVIOUS
    <3>1. /\ n + 1 \in 1 .. N /\ n + 1 - 1 = n /\ n \in 0 .. N /\ n + 1 \in 0 .. N
      BY <1>1
    <3> DEFINE c == text[n + 1]
               d == [paren |-> P[n], backtick |-> Q[n]]
    <3>2. /\ D[n + 1] = Counted(d, c)
          /\ P[n + 1] = P[n] + Weight(c, "(", ")")
          /\ Q[n + 1] = Q[n] + Weight(c, "backtick", "quote")
      BY <1>2, <1>3, <1>4, <2>2, <3>1
    <3>3. P[n] \in Int /\ Q[n] \in Int /\ Q[n] >= 0 /\ Q[n + 1] >= 0
      BY <1>3, <1>4, <1>5, <3>1
    <3>4. d.paren = P[n] /\ d.backtick = Q[n]
          /\ \A e : [d EXCEPT !.paren = e] = [paren |-> e, backtick |-> Q[n]]
          /\ \A x : [d EXCEPT !.backtick = x] = [paren |-> P[n], backtick |-> x]
      OBVIOUS
    <3>5. /\ c = "backtick" => Counted(d, c) = [d EXCEPT !.backtick = Q[n] + 1]
          /\ c = "quote" /\ Q[n] > 0 => Counted(d, c) = [d EXCEPT !.backtick = Q[n] - 1]
          /\ c = "(" => Counted(d, c) = [d EXCEPT !.paren = P[n] + 1]
          /\ c = ")" => Counted(d, c) = [d EXCEPT !.paren = P[n] - 1]
          /\ c \notin {"backtick", "quote", "(", ")"} => Counted(d, c) = d
      BY <3>4 DEF Counted
    <3> HIDE DEF c, d
    <3>6. CASE c = "backtick"
      <4>1. Q[n + 1] = Q[n] + 1 /\ P[n + 1] = P[n]
        BY <3>2, <3>3, <3>6 DEF Weight
      <4> QED  BY <3>2, <3>4, <3>5, <3>6, <4>1
    <3>7. CASE c = "quote"
      <4>1. Q[n + 1] = Q[n] - 1 /\ P[n + 1] = P[n]
        BY <3>2, <3>3, <3>7 DEF Weight
      <4>2. Q[n] > 0
        BY <3>3, <4>1
      <4> QED  BY <3>2, <3>4, <3>5, <3>7, <4>1, <4>2
    <3>8. CASE c = "("
      <4>1. Q[n + 1] = Q[n] /\ P[n + 1] = P[n] + 1
        BY <3>2, <3>3, <3>8 DEF Weight
      <4> QED  BY <3>2, <3>4, <3>5, <3>8, <4>1
    <3>9. CASE c = ")"
      <4>1. Q[n + 1] = Q[n] /\ P[n + 1] = P[n] - 1
        BY <3>2, <3>3, <3>9 DEF Weight
      <4> QED  BY <3>2, <3>4, <3>5, <3>9, <4>1
    <3>10. CASE c \notin {"backtick", "quote", "(", ")"}
      <4>1. Q[n + 1] = Q[n] /\ P[n + 1] = P[n]
        BY <3>2, <3>3, <3>10 DEF Weight
      <4> QED  BY <3>2, <3>5, <3>10, <4>1 DEF d
    <3> QED  BY <3>6, <3>7, <3>8, <3>9, <3>10
  <2> HIDE DEF S
  <2>3. Nat \subseteq S
    BY <2>1, <2>2, Induction
  <2> QED  BY <1>1, <2>3 DEF S
<1> SUFFICES ASSUME NEW token, NEW i \in 1 .. N
             PROVE  D[i - 1] = [paren |-> 0, backtick |-> 0] <=> P[i - 1] = 0 /\ Q[i - 1] = 0
  BY <1>1 DEF Tops, Outside, D, P, Q
<1>7. i - 1 \in 0 .. N
  BY <1>1
<1>8. D[i - 1] = [paren |-> P[i - 1], backtick |-> Q[i - 1]]
  BY <1>6, <1>7
<1>9. \A x, y, u, v :
        [paren |-> x, backtick |-> y] = [paren |-> u, backtick |-> v] <=> x = u /\ y = v
  OBVIOUS
<1> QED  BY <1>8, <1>9

LEMMA NestedBoth ==
  ASSUME NEW a \in Text, NEW b \in Text, Nested(a), Nested(b)
  PROVE  /\ a \o b \in Text /\ Nested(a \o b) /\ Len(a \o b) = Len(a) + Len(b)
         /\ \A token : Outside(a, token) = {} /\ Outside(b, token) = {}
                         => Outside(a \o b, token) = {}
<1>1. a \o b \in Text /\ Len(a \o b) = Len(a) + Len(b)
  BY ConcatIs
<1>2. /\ Nested(a \o b)
      /\ \A token : Outside(a \o b, token) =
              Outside(a, token) \cup {Len(a) + i : i \in Outside(b, token)}
  BY NestedConcat
<1> QED  BY <1>1, <1>2

LEMMA Associative ==
  ASSUME NEW a \in Text, NEW b \in Text, NEW c \in Text
  PROVE  (a \o b) \o c = a \o (b \o c)
<1> QED  BY ConcatAssociative DEF Text

(* The same of three texts given, with no equation to be instantiated.     *)
Bracketed(a, b, c) == (a \o b) \o c = a \o (b \o c)

LEMMA AsBracketed ==
  ASSUME NEW a \in Text, NEW b \in Text, NEW c \in Text
  PROVE  Bracketed(a, b, c)
<1> QED  BY Associative DEF Bracketed

-----------------------------------------------------------------------------
(* Texts joined by commas.                                                 *)

LEMMA JoinNested ==
  ASSUME NEW texts \in Seq(Text), \A i \in 1 .. Len(texts) : Nested(texts[i])
  PROVE  Join(texts) \in Text /\ Nested(Join(texts))
<1> DEFINE N == Len(texts)
           J == Joined(texts)
           S == {n \in Nat : n <= N => J[n] \in Text /\ Nested(J[n])}
<1>1. N \in Nat /\ \A i \in 1 .. N : texts[i] \in Text
  OBVIOUS
<1>2. /\ J[0] = << >>
      /\ \A n \in 1 .. N : J[n] = IF n = 1 THEN texts[1] ELSE J[n - 1] \o <<",">> \o texts[n]
  BY JoinedAre
<1>3. <<",">> \in Text /\ Nested(<<",">>)
  BY TokensAre, NestedToken
<1> HIDE DEF J, N
<1>4. 0 \in S
  BY <1>2, NestedEmpty
<1>5. ASSUME NEW n \in Nat, n \in S PROVE n + 1 \in S
  <2> SUFFICES ASSUME n + 1 <= N PROVE J[n + 1] \in Text /\ Nested(J[n + 1])
    OBVIOUS
  <2>1. n + 1 \in 1 .. N /\ n + 1 - 1 = n /\ n <= N
    BY <1>1
  <2>2. J[n] \in Text /\ Nested(J[n]) /\ texts[n + 1] \in Text /\ Nested(texts[n + 1])
    BY <1>1, <1>5, <2>1 DEF N
  <2>3. J[n] \o <<",">> \in Text /\ Nested(J[n] \o <<",">>)
    BY <1>3, <2>2, NestedBoth
  <2>4. J[n] \o <<",">> \o texts[n + 1] \in Text /\ Nested(J[n] \o <<",">> \o texts[n + 1])
    BY <2>2, <2>3, NestedBoth
  <2> DEFINE j == n + 1
  <2>5. j \in 1 .. N /\ j - 1 = n
    BY <2>1
  <2>6. \/ J[n + 1] = texts[n + 1]
        \/ J[n + 1] = J[n] \o <<",">> \o texts[n + 1]
    <3> HIDE DEF j
    <3>1. J[j] = IF j = 1 THEN texts[1] ELSE J[n] \o <<",">> \o texts[j]
      BY <1>2, <2>5
    <3> QED  BY <3>1 DEF j
  <2> QED  BY <2>2, <2>4, <2>6
<1> HIDE DEF S
<1>6. Nat \subseteq S
  BY <1>4, <1>5, Induction
<1> QED  BY <1>1, <1>6 DEF S, Join, J, N

LEMMA JoinIsText ==
  ASSUME NEW texts \in Seq(Text)
  PROVE  Join(texts) \in Text
<1>1. Len(texts) \in 0 .. Len(texts)
  OBVIOUS
<1> QED  BY <1>1, JoinedAre DEF Join

LEMMA JoinAppend ==
  ASSUME NEW texts \in Seq(Text), NEW a \in Text
  PROVE  Join(Append(texts, a)) =
           IF texts = << >> THEN a ELSE Join(texts) \o <<",">> \o a
<1> DEFINE more == Append(texts, a)
           N == Len(texts)
           J == Joined(texts)
           M == Joined(more)
           S == {n \in Nat : n <= N => M[n] = J[n]}
<1>1. /\ N \in Nat /\ more \in Seq(Text) /\ Len(more) = N + 1 /\ more[N + 1] = a
      /\ \A n \in 1 .. N : more[n] = texts[n]
  BY AppendProperties
<1>2. /\ J[0] = << >>
      /\ \A n \in 1 .. N : J[n] = IF n = 1 THEN texts[1] ELSE J[n - 1] \o <<",">> \o texts[n]
  BY JoinedAre
<1>3. /\ M[0] = << >>
      /\ \A n \in 1 .. N + 1 :
           M[n] = IF n = 1 THEN more[1] ELSE M[n - 1] \o <<",">> \o more[n]
  <2> HIDE DEF more
  <2> QED  BY <1>1, JoinedAre
<1> HIDE DEF more, N, J, M
<1>4. 0 \in S
  BY <1>2, <1>3
<1>5. ASSUME NEW n \in Nat, n \in S PROVE n + 1 \in S
  <2> SUFFICES ASSUME n + 1 <= N PROVE M[n + 1] = J[n + 1]
    OBVIOUS
  <2> DEFINE j == n + 1
  <2>1. j \in 1 .. N /\ j \in 1 .. N + 1 /\ j - 1 = n /\ n <= N
    BY <1>1
  <2>2. M[n] = J[n]
    BY <1>5, <2>1
  <2> HIDE DEF j
  <2>3. more[j] = texts[j] /\ more[j] = texts[j]
    BY <1>1, <2>1
  <2>4. /\ M[j] = IF j = 1 THEN more[1] ELSE M[n] \o <<",">> \o more[j]
        /\ J[j] = IF j = 1 THEN texts[1] ELSE J[n] \o <<",">> \o texts[j]
    BY <1>2, <1>3, <2>1
  <2> QED  BY <2>2, <2>3, <2>4 DEF j
<1> HIDE DEF S
<1>6. M[N] = J[N]
  <2>1. N \in S
    BY <1>1, <1>4, <1>5, Induction
  <2> QED  BY <1>1, <2>1 DEF S
<1>7. N + 1 \in 1 .. N + 1 /\ N + 1 - 1 = N
  BY <1>1
<1>8. M[N + 1] = IF N = 0 THEN a ELSE J[N] \o <<",">> \o a
  <2> DEFINE j == N + 1
  <2>1. j \in 1 .. N + 1 /\ j - 1 = N /\ (j = 1 <=> N = 0) /\ more[j] = a
    BY <1>1
  <2> HIDE DEF j
  <2>2. M[j] = IF j = 1 THEN more[1] ELSE J[N] \o <<",">> \o more[j]
    BY <1>3, <1>6, <2>1
  <2>3. j = 1 => more[1] = a
    BY <2>1
  <2> QED  BY <2>1, <2>2, <2>3 DEF j
<1>9. N = 0 <=> texts = << >>
  BY EmptySeq DEF N
<1> QED  BY <1>1, <1>8, <1>9 DEF Join, M, J, N, more

LEMMA JoinCons ==
  ASSUME NEW texts \in Seq(Text), texts # << >>
  PROVE  /\ Len(texts) = 1 => Join(texts) = texts[1]
         /\ Len(texts) # 1 => Join(texts) = texts[1] \o (<<",">> \o Join(Tail(texts)))
<1> DEFINE N == Len(texts)
           rest == Tail(texts)
           J == Joined(texts)
           R == Joined(rest)
           x == texts[1]
           comma == <<",">>
           S == {n \in Nat : n > 0 /\ n + 1 <= N => J[n + 1] = x \o (comma \o R[n])}
<1>1. /\ N \in Nat \ {0} /\ rest \in Seq(Text) /\ Len(rest) = N - 1
      /\ \A n \in 1 .. N - 1 : rest[n] = texts[n + 1]
  <2>1. N \in Nat \ {0}
    BY EmptySeq
  <2> QED  BY <2>1
<1>2. /\ \A n \in 1 .. N : J[n] = IF n = 1 THEN x ELSE J[n - 1] \o comma \o texts[n]
  BY JoinedAre
<1>3. /\ \A n \in 0 .. N - 1 : R[n] \in Text
      /\ \A n \in 1 .. N - 1 : R[n] = IF n = 1 THEN rest[1] ELSE R[n - 1] \o comma \o rest[n]
  <2> HIDE DEF rest
  <2> QED  BY <1>1, JoinedAre
<1>4. comma \in Text /\ \A n \in 1 .. N : texts[n] \in Text
  <2>1. \A n \in 1 .. N : texts[n] \in Text
    OBVIOUS
  <2> QED  BY <2>1, TokensAre
<1> HIDE DEF N, rest, J, R, comma
<1>5. x \in Text
  BY <1>1, <1>4
<1> HIDE DEF x
<1>6. 0 \in S
  OBVIOUS
<1>7. ASSUME NEW n \in Nat, n \in S PROVE n + 1 \in S
  <2> DEFINE m == n + 1
  <2> SUFFICES ASSUME m + 1 <= N PROVE J[m + 1] = x \o (comma \o R[m])
    OBVIOUS
  <2>1. /\ m \in 1 .. N - 1 /\ m \in 1 .. N /\ m - 1 = n
        /\ m + 1 \in 1 .. N /\ m + 1 - 1 = m /\ m + 1 # 1
    BY <1>1
  <2>2. J[m + 1] = J[m] \o comma \o texts[m + 1] /\ rest[m] = texts[m + 1]
    <3> DEFINE j == m + 1
    <3>1. j \in 1 .. N /\ j # 1 /\ j - 1 = m /\ m \in 1 .. N - 1
      BY <2>1
    <3> HIDE DEF j, m
    <3>2. J[j] = J[m] \o comma \o texts[j] /\ rest[m] = texts[m + 1]
      BY <1>1, <1>2, <3>1
    <3> QED  BY <3>2 DEF j
  <2>3. rest[m] \in Text
    BY <1>4, <2>1, <2>2
  <2>4. CASE n = 0
    <3>1. m = 1
      BY <2>4
    <3>2. J[m] = x /\ R[m] = rest[m]
      BY <1>2, <1>3, <2>1, <3>1
    <3> HIDE DEF m
    <3>3. x \o comma \o rest[m] = x \o (comma \o rest[m])
      BY <1>4, <1>5, <2>3, Associative
    <3> QED  BY <2>2, <3>2, <3>3
  <2>5. CASE n # 0
    <3>1. J[m] = x \o (comma \o R[n]) /\ n \in 0 .. N - 1
      BY <1>1, <1>7, <2>1, <2>5
    <3>2. R[m] = R[n] \o comma \o rest[m] /\ R[n] \in Text
      <4>1. m \in 1 .. N - 1 /\ m - 1 = n /\ m # 1
        BY <2>1, <2>5
      <4> HIDE DEF m
      <4> QED  BY <1>3, <3>1, <4>1
    <3> DEFINE r == R[n]
               t == rest[m]
    <3>3. r \in Text /\ t \in Text
      BY <2>3, <3>2
    <3> HIDE DEF r, t, m
    <3>4. (x \o (comma \o r)) \o comma = x \o ((comma \o r) \o comma)
      <4>1. comma \o r \in Text
        BY <1>4, <3>3, ConcatIs
      <4>2. Bracketed(x, comma \o r, comma)
        BY <1>4, <1>5, <4>1, AsBracketed
      <4> QED  BY <4>2 DEF Bracketed
    <3>5. (x \o ((comma \o r) \o comma)) \o t = x \o (((comma \o r) \o comma) \o t)
      <4>1. (comma \o r) \o comma \in Text
        BY <1>4, <3>3, ConcatIs
      <4>2. Bracketed(x, (comma \o r) \o comma, t)
        BY <1>5, <3>3, <4>1, AsBracketed
      <4> QED  BY <4>2 DEF Bracketed
    <3>6. ((comma \o r) \o comma) \o t = comma \o (r \o comma \o t)
      <4>1. r \o comma \in Text
        BY <1>4, <3>3, ConcatIs
      <4>2. Bracketed(comma, r, comma)
        BY <1>4, <3>3, AsBracketed
      <4>3. Bracketed(comma, r \o comma, t)
        BY <1>4, <3>3, <4>1, AsBracketed
      <4> QED  BY <4>2, <4>3 DEF Bracketed
    <3> QED  BY <2>2, <3>1, <3>2, <3>4, <3>5, <3>6 DEF r, t
  <2> QED  BY <2>4, <2>5
<1> HIDE DEF S
<1>8. Nat \subseteq S
  BY <1>6, <1>7, Induction
<1>9. N = 1 => J[N] = x
  BY <1>1, <1>2
<1>10. N # 1 => J[N] = x \o (comma \o R[N - 1])
  <2> SUFFICES ASSUME N # 1 PROVE J[N] = x \o (comma \o R[N - 1])
    OBVIOUS
  <2>1. N - 1 \in Nat /\ N - 1 > 0 /\ N - 1 + 1 <= N /\ N - 1 + 1 = N
    BY <1>1
  <2> QED  BY <1>8, <2>1 DEF S
<1> QED  BY <1>1, <1>9, <1>10 DEF Join, J, R, N, rest, x, comma

-----------------------------------------------------------------------------
(* The first and the last of some places.                                  *)
LEMMA LastPlace ==
  ASSUME NEW N \in Nat, NEW S \in SUBSET (1 .. N), S # {}
  PROVE  \E i \in S : \A j \in S : j <= i
<1> DEFINE T == {n \in Nat : \A s \in S : s <= N - n}
<1> SUFFICES ASSUME \A i \in S : \E j \in S : ~(j <= i) PROVE FALSE
  OBVIOUS
<1>1. 0 \in T
  OBVIOUS
<1>2. ASSUME NEW n \in Nat, n \in T PROVE n + 1 \in T
  <2>1. ASSUME NEW s \in S PROVE s <= N - (n + 1)
    <3>1. PICK j \in S : ~(j <= s)
      OBVIOUS
    <3>2. j <= N - n /\ j \in Nat /\ s \in Nat
      BY <1>2
    <3> QED  BY <3>1, <3>2
  <2> QED  BY <2>1
<1> HIDE DEF T
<1>3. N \in T
  BY <1>1, <1>2, Induction
<1>4. PICK s \in S : TRUE
  OBVIOUS
<1>5. s <= N - N /\ s \in 1 .. N
  BY <1>3 DEF T
<1> QED  BY <1>5

LEMMA FirstPlace ==
  ASSUME NEW N \in Nat, NEW S \in SUBSET (1 .. N), S # {}
  PROVE  \E i \in S : \A j \in S : i <= j
<1> DEFINE T == {n \in Nat : \A s \in S : n <= s}
<1> SUFFICES ASSUME \A i \in S : \E j \in S : ~(i <= j) PROVE FALSE
  OBVIOUS
<1>1. 0 \in T
  OBVIOUS
<1>2. ASSUME NEW n \in Nat, n \in T PROVE n + 1 \in T
  <2>1. ASSUME NEW s \in S PROVE n + 1 <= s
    <3>1. PICK j \in S : ~(s <= j)
      OBVIOUS
    <3>2. n <= j /\ j \in Nat /\ s \in Nat
      BY <1>2
    <3> QED  BY <3>1, <3>2
  <2> QED  BY <2>1
<1> HIDE DEF T
<1>3. N + 1 \in T
  BY <1>1, <1>2, Induction
<1>4. PICK s \in S : TRUE
  OBVIOUS
<1>5. N + 1 <= s /\ s \in 1 .. N
  BY <1>3 DEF T
<1> QED  BY <1>5

LEMMA LastInIs ==
  ASSUME NEW N \in Nat, NEW S \in SUBSET (1 .. N)
  PROVE  \/ S = {} /\ LastIn(S) = 0
         \/ /\ LastIn(S) \in S /\ LastIn(S) \in 1 .. N
            /\ \A j \in S : j <= LastIn(S)
<1>1. CASE S = {}
  BY <1>1 DEF LastIn
<1>2. CASE S # {}
  <2>1. \E i \in S : \A j \in S : j <= i
    BY <1>2, LastPlace
  <2> QED  BY <1>2, <2>1 DEF LastIn
<1> QED  BY <1>1, <1>2

LEMMA FirstTopIs ==
  ASSUME NEW text \in Text, NEW token
  PROVE  \/ Tops(text, token) = {} /\ FirstTop(text, token) = 0
         \/ /\ FirstTop(text, token) \in Tops(text, token)
            /\ \A j \in Tops(text, token) : FirstTop(text, token) <= j
            /\ FirstTop(text, token) \in 1 .. Len(text)
            /\ text[FirstTop(text, token)] = token
<1> DEFINE tops == Tops(text, token)
           N == Len(text)
<1>1. N \in Nat /\ tops \in SUBSET (1 .. N) /\ \A i \in tops : text[i] = token
  BY TextIs DEF Tops
<1>2. FirstTop(text, token) =
        IF tops = {} THEN 0 ELSE CHOOSE i \in tops : \A j \in tops : i <= j
  BY DEF FirstTop
<1> HIDE DEF tops, N
<1>3. CASE tops = {}
  BY <1>2, <1>3 DEF tops
<1>4. CASE tops # {}
  <2>1. \E i \in tops : \A j \in tops : i <= j
    BY <1>1, <1>4, FirstPlace
  <2>2. FirstTop(text, token) \in tops /\ \A j \in tops : FirstTop(text, token) <= j
    BY <1>2, <1>4, <2>1
  <2> QED  BY <1>1, <2>2 DEF tops, N
<1> QED  BY <1>3, <1>4

(* The first place of a token is behind a text that has none of it.        *)
LEMMA FirstTopBehind ==
  ASSUME NEW a \in Text, NEW b \in Text, NEW token \in Lexemes,
         Nested(a), Nested(b), Outside(a, token) = {},
         token \notin {"(", ")", "backtick", "quote"}
  PROVE  FirstTop(a \o (<<token>> \o b), token) = Len(a) + 1
<1> DEFINE text == a \o (<<token>> \o b)
           tb == <<token>> \o b
           k == Len(a)
<1>1. /\ <<token>> \in Text /\ Len(<<token>>) = 1 /\ Nested(<<token>>)
      /\ Outside(<<token>>, token) = {1}
  BY NestedToken
<1>2. /\ tb \in Text /\ Nested(tb)
      /\ Outside(tb, token) = {1} \cup {1 + i : i \in Outside(b, token)}
  <2> DEFINE t == <<token>>
  <2> HIDE DEF t
  <2>1. t \in Text /\ Len(t) = 1 /\ Nested(t) /\ Outside(t, token) = {1}
    BY <1>1 DEF t
  <2>2. t \o b \in Text /\ Nested(t \o b)
    BY <2>1, NestedBoth
  <2>3. Outside(t \o b, token) = Outside(t, token) \cup {Len(t) + i : i \in Outside(b, token)}
    BY <2>1, NestedConcat
  <2> QED  BY <2>1, <2>2, <2>3 DEF t
<1> HIDE DEF tb
<1>3. /\ a \o tb \in Text /\ Nested(a \o tb)
      /\ Outside(a \o tb, token) = {k + i : i \in Outside(tb, token)}
  <2>1. a \o tb \in Text /\ Nested(a \o tb)
    BY <1>2, NestedBoth
  <2>2. Outside(a \o tb, token) = Outside(a, token) \cup {k + i : i \in Outside(tb, token)}
    BY <1>2, NestedConcat
  <2> QED  BY <2>1, <2>2
<1>4. text \in Text /\ Tops(text, token) = {k + i : i \in Outside(tb, token)}
  BY <1>3, TopsOfNested DEF tb
<1>5. k \in Nat /\ \A i \in Outside(b, token) : i \in Nat
  BY TextIs DEF Outside
<1> HIDE DEF text, k
<1>6. k + 1 \in Tops(text, token)
  BY <1>2, <1>4
<1>7. \A j \in Tops(text, token) : j \in Nat /\ k + 1 <= j
  BY <1>2, <1>4, <1>5
<1>8. FirstTop(text, token) \in Tops(text, token) /\ FirstTop(text, token) <= k + 1
  BY <1>4, <1>6, FirstTopIs
<1>9. FirstTop(text, token) = k + 1
  BY <1>5, <1>7, <1>8
<1> QED  BY <1>9 DEF text, k

(* What the last parentheses hold, with no others behind them.             *)
LEMMA LastParenthesesAre ==
  ASSUME NEW w \in Text, NEW a \in Text, NEW s \in Text, w # << >>, Nested(a),
         \A i \in 1 .. Len(s) : s[i] # ")"
  PROVE  LastParentheses(w \o InParens(a) \o s) = a
<1> DEFINE k == Len(w)
           n == Len(a)
           m == Len(s)
           g == InParens(a)
           wg == w \o g
           text == wg \o s
           P == Parens(text)
           PA == Parens(a)
           close == k + (n + 2)
           p == Parens(w)[k]
<1>1. /\ g \in Text /\ Len(g) = n + 2 /\ n \in Nat
      /\ g[n + 2] = ")" /\ \A i \in 1 .. n : g[i + 1] = a[i]
      /\ Parens(g)[0] = 0 /\ Parens(g)[n + 2] = 0
      /\ \A i \in 0 .. n : Parens(g)[i + 1] = PA[i] + 1 /\ PA[i] \in Nat
  BY ParensOfInParens
<1> HIDE DEF g, PA, n
<1>2. /\ wg \in Text /\ Len(wg) = close /\ k \in Nat
      /\ \A i \in 1 .. n + 2 : wg[k + i] = g[i]
  <2>1. /\ wg \in Text /\ Len(wg) = k + Len(g) /\ k \in Nat
        /\ \A i \in 1 .. Len(g) : wg[k + i] = g[i]
    BY <1>1, ConcatIs
  <2> HIDE DEF wg, k
  <2> QED  BY <1>1, <2>1
<1>3. \A i \in 0 .. n + 2 : Parens(wg)[k + i] = p + Parens(g)[i]
  BY <1>1, CountsOfConcat
<1>4. p \in Int
  <2>1. k \in 0 .. k
    BY <1>2
  <2> QED  BY <2>1, OpensAre DEF Parens
<1> HIDE DEF wg, p
<1>5. /\ text \in Text /\ Len(text) = close + m /\ m \in Nat /\ DOMAIN text = 1 .. close + m
      /\ \A i \in 1 .. close : text[i] = wg[i]
      /\ \A i \in 1 .. m : text[close + i] = s[i]
  <2>1. /\ text \in Text /\ Len(text) = Len(wg) + m /\ m \in Nat
        /\ DOMAIN text = 1 .. Len(wg) + m
        /\ \A i \in 1 .. Len(wg) : text[i] = wg[i]
        /\ \A i \in 1 .. m : text[Len(wg) + i] = s[i]
    BY <1>2, ConcatIs
  <2> HIDE DEF text, close, m
  <2> QED  BY <1>2, <2>1
<1>6. \A i \in 0 .. close : P[i] = Parens(wg)[i]
  BY <1>2, CountsOfConcat
<1> HIDE DEF text, P, m
<1>7. k > 0
  BY <1>2, EmptySeq DEF Text, k
<1>8. close \in Nat /\ close \in 1 .. close /\ close \in 1 .. close + m /\ n + 2 \in 1 .. n + 2
  BY <1>1, <1>2, <1>5, <1>7
<1>9. text[close] = ")"
  BY <1>1, <1>2, <1>5, <1>8
<1>10. ASSUME NEW j \in 1 .. close + m, text[j] = ")" PROVE j <= close
  <2> SUFFICES ASSUME ~(j <= close) PROVE FALSE
    OBVIOUS
  <2>1. j - close \in 1 .. m /\ close + (j - close) = j
    <3>1. close \in Nat /\ m \in Nat /\ j \in 1 .. close + m
      BY <1>5, <1>8, <1>10
    <3> HIDE DEF close, m
    <3> QED  BY <3>1
  <2>2. text[j] = s[j - close]
    BY <1>5, <2>1
  <2> QED  BY <1>10, <2>1, <2>2 DEF m
<1>11. LastOf(text, ")") = close
  <2> DEFINE S == {i \in DOMAIN text : text[i] = ")"}
  <2>1. close \in S /\ S \in SUBSET (1 .. close + m) /\ \A j \in S : j <= close
    BY <1>5, <1>8, <1>9, <1>10
  <2> HIDE DEF S
  <2>2. LastIn(S) \in S /\ \A j \in S : j <= LastIn(S)
    <3> DEFINE N == close + m
    <3>1. N \in Nat /\ S \in SUBSET (1 .. N)
      BY <1>5, <1>8, <2>1
    <3> HIDE DEF N
    <3> QED  BY <2>1, <3>1, LastInIs
  <2>3. LastIn(S) = close
    <3>1. close <= LastIn(S) /\ LastIn(S) <= close /\ LastIn(S) \in 1 .. close + m
      BY <2>1, <2>2
    <3> QED  BY <1>8, <3>1
  <2> QED  BY <2>3 DEF S, LastOf
<1>12. P[close] = p
  <2>1. n + 2 \in 0 .. n + 2 /\ close \in 0 .. close
    BY <1>1, <1>8
  <2> QED  BY <1>1, <1>3, <1>4, <1>6, <2>1
<1>13. P[k] = p
  <2>1. 0 \in 0 .. n + 2 /\ k \in 0 .. close /\ k + 0 = k
    BY <1>1, <1>2
  <2>2. Parens(wg)[k + 0] = p + Parens(g)[0]
    BY <1>3, <2>1
  <2> QED  BY <1>1, <1>4, <1>6, <2>1, <2>2
<1>14. ASSUME NEW i \in 0 .. n PROVE P[k + (i + 1)] # p
  <2>1. i + 1 \in 0 .. n + 2 /\ k + (i + 1) \in 0 .. close
    BY <1>1, <1>2
  <2>2. P[k + (i + 1)] = p + (PA[i] + 1)
    BY <1>1, <1>3, <1>6, <2>1
  <2> QED  BY <1>1, <1>4, <2>2
<1> DEFINE matches == {i \in 2 .. close - 1 : P[i - 1] = P[close]}
           open == LastIn(matches)
<1>15. k + 1 \in matches
  <2>1. k + 1 \in 2 .. close - 1 /\ k + 1 - 1 = k
    BY <1>1, <1>2, <1>7
  <2> QED  BY <1>12, <1>13, <2>1
<1>16. ASSUME NEW j \in matches PROVE j <= k + 1
  <2> SUFFICES ASSUME ~(j <= k + 1) PROVE FALSE
    OBVIOUS
  <2>1. j \in 2 .. close - 1 /\ P[j - 1] = p
    BY <1>12
  <2>2. j - k - 2 \in 0 .. n /\ k + (j - k - 2 + 1) = j - 1
    BY <1>1, <1>2, <2>1
  <2>3. P[k + (j - k - 2 + 1)] # p
    BY <1>14, <2>2
  <2> QED  BY <2>1, <2>2, <2>3
<1>17. \A j \in matches : j \in Int
  OBVIOUS
<1> HIDE DEF matches
<1>18. open = k + 1
  BY <1>2, <1>15, <1>16, <1>17 DEF LastIn
<1>19. LastParentheses(text) = SubSeq(text, k + 2, close - 1)
  <2> DEFINE Matches(c) == {i \in 2 .. c - 1 : Parens(text)[i - 1] = Parens(text)[c]}
  <2>a. LastParentheses(text) =
          IF Matches(LastOf(text, ")")) = {} THEN << >>
          ELSE SubSeq(text, LastIn(Matches(LastOf(text, ")"))) + 1, LastOf(text, ")") - 1)
    BY DEF LastParentheses
  <2>b. Matches(close) = matches /\ LastIn(Matches(close)) = open
    BY DEF matches, P
  <2> HIDE DEF Matches, close
  <2>1. LastParentheses(text) =
          IF matches = {} THEN << >> ELSE SubSeq(text, open + 1, close - 1)
    BY <1>11, <2>a, <2>b
  <2> HIDE DEF open
  <2>2. k + 1 + 1 = k + 2 /\ matches # {}
    BY <1>2, <1>15
  <2> QED  BY <1>18, <2>1, <2>2
<1>20. SubSeq(text, k + 2, close - 1) = a
  <2> DEFINE r == SubSeq(text, k + 2, close - 1)
  <2>1. /\ k + 2 \in 1 .. close + m + 1 /\ close - 1 \in k + 1 .. close + m
        /\ close - 1 - (k + 2) + 1 = n
    BY <1>1, <1>2, <1>5
  <2>2. r \in Text /\ Len(r) = n /\ \A i \in 1 .. n : r[i] = text[k + 2 + i - 1]
    BY <1>1, <1>2, <1>5, <2>1, SubSeqProperties DEF Text
  <2>3. ASSUME NEW i \in 1 .. n PROVE r[i] = a[i]
    <3>1. /\ k + 2 + i - 1 = k + (i + 1) /\ i + 1 \in 1 .. n + 2
          /\ k + (i + 1) \in 1 .. close
      BY <1>1, <1>2
    <3>2. text[k + (i + 1)] = g[i + 1]
      BY <1>2, <1>5, <3>1
    <3> QED  BY <1>1, <2>2, <3>1, <3>2
  <2> HIDE DEF r
  <2>4. r = a
    BY <2>2, <2>3, SeqEqual DEF Text, n
  <2> QED  BY <2>4 DEF r
<1> QED  BY <1>19, <1>20 DEF text, wg, g

-----------------------------------------------------------------------------
(* A nested text cut where nothing is open.                                *)
LEMMA CutIs ==
  ASSUME NEW text \in Text, Nested(text), NEW n \in 0 .. Len(text),
         Parens(text)[n] = 0, Quotes(text)[n] = 0
  PROVE  /\ SubSeq(text, 1, n) \in Text /\ SubSeq(text, n + 1, Len(text)) \in Text
         /\ Len(SubSeq(text, 1, n)) = n /\ Len(SubSeq(text, n + 1, Len(text))) = Len(text) - n
         /\ SubSeq(text, 1, n) \o SubSeq(text, n + 1, Len(text)) = text
         /\ Nested(SubSeq(text, 1, n)) /\ Nested(SubSeq(text, n + 1, Len(text)))
<1> DEFINE N == Len(text)
           a == SubSeq(text, 1, n)
           b == SubSeq(text, n + 1, N)
<1>1. N \in Nat /\ n \in Nat /\ n <= N /\ \A i \in 1 .. N : text[i] \in Lexemes
  BY TextIs
<1>2. a \in Text /\ Len(a) = n
  BY <1>1, SubSeqProperties DEF Text
<1>3. b \in Text /\ Len(b) = N - n
  BY <1>1, SubSeqProperties DEF Text
<1>4. a \o b = text
  <2>1. a \o b = SubSeq(text, 1, N)
    <3>1. 1 \in 1 .. N + 1 /\ n \in 1 - 1 .. N /\ N \in n .. N
      BY <1>1
    <3> QED  BY <3>1, ConcatAdjacentSubSeq DEF Text
  <2> QED  BY <2>1, SubSeqFull DEF Text
<1> HIDE DEF a, b, N
<1>5. \A i \in 0 .. n : Parens(text)[i] = Parens(a)[i] /\ Quotes(text)[i] = Quotes(a)[i]
  BY <1>2, <1>3, <1>4, CountsOfConcat
<1>6. \A i \in 0 .. N : Parens(text)[i] >= 0 /\ Quotes(text)[i] >= 0
  BY DEF Nested, N
<1>7. Nested(a)
  <2>1. \A i \in 0 .. n : Parens(a)[i] >= 0 /\ Quotes(a)[i] >= 0
    BY <1>1, <1>5, <1>6
  <2>2. Parens(a)[n] = 0 /\ Quotes(a)[n] = 0
    BY <1>1, <1>5
  <2> QED  BY <1>2, <2>1, <2>2 DEF Nested
<1>8. Nested(b)
  BY <1>2, <1>3, <1>4, <1>7, NestedConcat
<1> QED  BY <1>2, <1>3, <1>4, <1>7, <1>8 DEF a, b, N

LEMMA LastNameIs ==
  ASSUME NEW class \in Text, Nested(class)
  PROVE  /\ LastName(class) \in Text /\ Nested(LastName(class))
         /\ LastSep(class) \in 0 .. Len(class)
         /\ SubSeq(class, 1, LastSep(class)) \in Text
         /\ SubSeq(class, 1, LastSep(class)) \o LastName(class) = class
         /\ ~InAngles(class, "::") => /\ LastSep(class) = LastIn(Outside(class, "::"))
                                      /\ Outside(LastName(class), "::") = {}
<1> DEFINE seps == {i \in Outside(class, "::") : Angles(class)[i] = 0}
           n == LastSep(class)
           a == SubSeq(class, 1, n)
           b == LastName(class)
           N == Len(class)
<1>1. N \in Nat /\ DOMAIN class = 1 .. N
  BY TextIs
<1>2. seps \in SUBSET (1 .. N) /\ Outside(class, "::") \in SUBSET (1 .. N) /\ n = LastIn(seps)
  BY <1>1 DEF Outside, LastSep
<1>3. \A i \in seps : class[i] = "::" /\ Parens(class)[i - 1] = 0 /\ Quotes(class)[i - 1] = 0
  BY DEF Outside
<1> HIDE DEF seps, n, N
<1>4. \/ seps = {} /\ n = 0
      \/ n \in seps /\ n \in 1 .. N /\ \A j \in seps : j <= n
  BY <1>1, <1>2, LastInIs
<1>5. n \in 0 .. N /\ Parens(class)[n] = 0 /\ Quotes(class)[n] = 0
  <2>1. Parens(class)[0] = 0 /\ Quotes(class)[0] = 0
    BY OpensAre DEF Parens, Quotes
  <2>2. ASSUME n \in seps, n \in 1 .. N PROVE Parens(class)[n] = 0 /\ Quotes(class)[n] = 0
    <3>1. Parens(class)[n] = Parens(class)[n - 1] + Weight(class[n], "(", ")")
      BY <2>2, OpensAre DEF Parens, N
    <3>2. Quotes(class)[n] = Quotes(class)[n - 1] + Weight(class[n], "backtick", "quote")
      BY <2>2, OpensAre DEF Quotes, N
    <3>3. Weight("::", "(", ")") = 0 /\ Weight("::", "backtick", "quote") = 0
      BY DEF Weight
    <3> QED  BY <1>3, <2>2, <3>1, <3>2, <3>3
  <2> QED  BY <1>1, <1>4, <2>1, <2>2
<1>6. b = SubSeq(class, n + 1, N)
  BY DEF LastName, n, N
<1>7. /\ a \in Text /\ b \in Text /\ Len(a) = n /\ a \o b = class /\ Nested(a) /\ Nested(b)
  BY <1>5, <1>6, CutIs DEF N
<1> HIDE DEF a, b
<1>8. ASSUME ~InAngles(class, "::") PROVE n = LastIn(Outside(class, "::")) /\ Outside(b, "::") = {}
  <2>1. seps = Outside(class, "::")
    <3>1. \A i \in Outside(class, "::") : Angles(class)[i] = 0
      BY <1>8 DEF InAngles, Outside
    <3> QED  BY <3>1 DEF seps
  <2>2. ASSUME NEW i \in Outside(b, "::") PROVE FALSE
    <3>1. Len(a) + i \in Outside(class, "::")
      <4>1. Outside(a \o b, "::") =
              Outside(a, "::") \cup {Len(a) + j : j \in Outside(b, "::")}
        BY <1>7, NestedConcat
      <4> QED  BY <1>7, <2>2, <4>1
    <3>2. i \in Nat /\ i > 0
      BY <1>7, TextIs DEF Outside
    <3> QED  BY <1>4, <1>5, <1>7, <2>1, <3>1, <3>2
  <2> QED  BY <1>2, <2>1, <2>2
<1> QED  BY <1>5, <1>7, <1>8 DEF a, b, n, N

LEMMA FunctionIs ==
  ASSUME NEW f \in Functions
  PROVE  /\ f.kind \in Kinds /\ f.class \in Classes /\ f.type \in Types
         /\ f.suffix \in {<< >>, <<"junk">>}
         /\ f.args \in Seq(Types) /\ f.args # << >> /\ DOMAIN f.args = 1 .. Len(f.args)
<1>1. PICK n \in 1 .. MaxArgs :
        f \in [kind : Kinds, class : Classes, type : Types, args : [1 .. n -> Types],
               suffix : {<< >>, <<"junk">>}]
  BY DEF Functions
<1>2. f.args \in [1 .. n -> Types] /\ n \in Nat /\ n >= 1
  <2>1. MaxArgs \in Nat
    BY TextsAssumption
  <2>2. f.args \in [1 .. n -> Types]
    BY <1>1
  <2> QED  BY <2>1, <2>2
<1>3. f.args \in Seq(Types) /\ Len(f.args) = n
  BY <1>2
<1>4. f.args # << >>
  BY <1>2, <1>3
<1> QED  BY <1>1, <1>2, <1>3, <1>4

(* A function without a calling convention in what it is seen to return.   *)
Whole(f) == f.kind \in {"Regular", "ReturnsFunction"} => Outside(f.type, "cc") = {}

LEMMA PartsAre ==
  ASSUME NEW f \in Functions
  PROVE  /\ f.class \in Text /\ Nested(f.class) /\ f.type \in Text /\ Nested(f.type)
         /\ f.args \in Seq(Text) /\ \A i \in 1 .. Len(f.args) : Nested(f.args[i])
         /\ f.suffix \in Text /\ Nested(f.suffix)
         /\ \A i \in 1 .. Len(f.suffix) : f.suffix[i] # ")"
         /\ \A token : token # "junk" => Outside(f.suffix, token) = {}
         /\ Returned(f) \in Text /\ Nested(Returned(f))
         /\ Whole(f) => Outside(Returned(f), "cc") = {}
<1>1. /\ f.class \in Classes /\ f.type \in Types
      /\ f.suffix \in {<< >>, <<"junk">>}
      /\ f.args \in Seq(Types)
  BY FunctionIs
<1>2. f.class \in Text /\ Nested(f.class) /\ f.type \in Text /\ Nested(f.type)
  BY <1>1, TextsAssumption
<1>3. f.args \in Seq(Text) /\ \A i \in 1 .. Len(f.args) : Nested(f.args[i])
  <2>1. \A t \in Types : t \in Text /\ Nested(t)
    BY TextsAssumption
  <2>2. f.args \in [1 .. Len(f.args) -> Types] /\ Len(f.args) \in Nat
    BY <1>1, LenProperties
  <2>3. f.args \in [1 .. Len(f.args) -> Text]
    BY <2>1, <2>2
  <2> QED  BY <2>1, <2>2, <2>3
<1>4. /\ f.suffix \in Text /\ Nested(f.suffix)
      /\ \A i \in 1 .. Len(f.suffix) : f.suffix[i] # ")"
      /\ \A token : token # "junk" => Outside(f.suffix, token) = {}
  <2>1. CASE f.suffix = << >>
    <3>1. Len(f.suffix) = 0
      BY <2>1
    <3> QED  BY <2>1, <3>1, NestedEmpty
  <2>2. CASE f.suffix = <<"junk">>
    <3>1. "junk" \in Lexemes
      BY TokensAre
    <3>2. Len(f.suffix) = 1 /\ f.suffix[1] = "junk"
      BY <2>2
    <3>3. \A i \in 1 .. Len(f.suffix) : f.suffix[i] # ")"
      BY <3>2
    <3> QED  BY <2>2, <3>1, <3>3, NestedToken
  <2> QED  BY <1>1, <2>1, <2>2
<1>5. /\ Returned(f) \in Text /\ Nested(Returned(f))
      /\ Whole(f) => Outside(Returned(f), "cc") = {}
  BY <1>2, NestedEmpty DEF Returned, Whole
<1> QED  BY <1>2, <1>3, <1>4, <1>5

LEMMA NameIs ==
  ASSUME NEW f \in Functions
  PROVE  /\ Name(f) \in Text /\ Nested(Name(f)) /\ Len(Name(f)) > 0
         /\ ~InAngles(f.class, "::") => Outside(Name(f), "::") = {}
<1> DEFINE ln == LastName(f.class)
           e == << >>
<1>1. /\ ln \in Text /\ Nested(ln) /\ Len(ln) > 0
      /\ ~InAngles(f.class, "::") => Outside(ln, "::") = {}
  <2>1. ln \in Text /\ Nested(ln) /\ (~InAngles(f.class, "::") => Outside(ln, "::") = {})
    BY PartsAre, LastNameIs
  <2>2. ln # << >>
    BY FunctionIs, TextsAssumption
  <2> QED  BY <2>1, <2>2, EmptySeq DEF Text
<1> HIDE DEF ln
<1>2. ASSUME NEW c \in {"~", "operator", "f"}
      PROVE  <<c>> \in Text /\ Len(<<c>>) = 1 /\ Nested(<<c>>) /\ Outside(<<c>>, "::") = {}
  <2>1. c \in Lexemes
    BY TokensAre
  <2> QED  BY <2>1, NestedToken
<1>3. CASE f.kind = "Constructor"
  BY <1>1, <1>3 DEF Name, ln
<1>4. CASE f.kind = "Destructor"
  <2> DEFINE t == <<"~">>
  <2>1. t \in Text /\ Len(t) = 1 /\ Nested(t) /\ Outside(t, "::") = {}
    BY <1>2
  <2> HIDE DEF t
  <2>2. /\ t \o ln \in Text /\ Nested(t \o ln) /\ Len(t \o ln) = Len(t) + Len(ln)
        /\ Outside(ln, "::") = {} => Outside(t \o ln, "::") = {}
    BY <1>1, <2>1, NestedBoth
  <2>3. Name(f) = t \o ln
    BY <1>4 DEF Name, ln, t
  <2>4. Len(t \o ln) > 0
    BY <1>1, <2>1, <2>2, TextIs
  <2> QED  BY <1>1, <2>2, <2>3, <2>4
<1>5. CASE f.kind = "Deduced"
  <2> DEFINE t == <<"operator">>
             g == InParens(e)
  <2>1. t \in Text /\ Len(t) = 1 /\ Nested(t) /\ Outside(t, "::") = {}
    BY <1>2
  <2>2. g \in Text /\ Nested(g) /\ Outside(g, "::") = {}
    BY NestedEmpty, NestedParens
  <2>3. Name(f) = t \o g
    BY <1>5 DEF Name
  <2> HIDE DEF t, g
  <2>4. /\ t \o g \in Text /\ Nested(t \o g) /\ Len(t \o g) = Len(t) + Len(g)
        /\ Outside(t \o g, "::") = {}
    BY <2>1, <2>2, NestedBoth
  <2>5. Len(t \o g) > 0
    BY <2>1, <2>2, <2>4, TextIs
  <2> QED  BY <2>3, <2>4, <2>5
<1>6. CASE f.kind \notin {"Constructor", "Destructor", "Deduced"}
  <2>1. Name(f) = <<"f">>
    BY <1>6 DEF Name
  <2>2. <<"f">> \in Text /\ Len(<<"f">>) = 1 /\ Nested(<<"f">>) /\ Outside(<<"f">>, "::") = {}
    BY <1>2
  <2> QED  BY <2>1, <2>2
<1> QED  BY <1>3, <1>4, <1>5, <1>6

UpToArgs(f) == f.class \o <<"::">> \o Name(f)

LEMMA CallIs ==
  ASSUME NEW f \in Functions
  PROVE  /\ f.class \o <<"::">> \in Text /\ Nested(f.class \o <<"::">>)
         /\ UpToArgs(f) \in Text /\ Nested(UpToArgs(f)) /\ UpToArgs(f) # << >>
         /\ Join(f.args) \in Text /\ Nested(Join(f.args))
         /\ UpToArgs(f) \o InParens(Join(f.args)) \in Text
         /\ Nested(UpToArgs(f) \o InParens(Join(f.args)))
         /\ Call(f) = UpToArgs(f) \o InParens(Join(f.args)) \o f.suffix
         /\ Call(f) \in Text /\ Nested(Call(f))
<1> DEFINE c == f.class
           sep == <<"::">>
           cs == c \o sep
           n == Name(f)
           front == cs \o n
           j == Join(f.args)
           g == InParens(j)
           s == f.suffix
<1>1. /\ c \in Text /\ Nested(c) /\ s \in Text /\ Nested(s)
      /\ f.args \in Seq(Text) /\ \A i \in 1 .. Len(f.args) : Nested(f.args[i])
  BY PartsAre
<1>2. sep \in Text /\ Nested(sep) /\ Len(sep) = 1
  BY TokensAre, NestedToken
<1>3. n \in Text /\ Nested(n) /\ Len(n) > 0
  BY NameIs
<1>4. j \in Text /\ Nested(j)
  BY <1>1, JoinNested
<1> HIDE DEF c, sep, n, j, s
<1>5. g \in Text /\ Nested(g)
  BY <1>4, NestedParens
<1>6. cs \in Text /\ Nested(cs)
  BY <1>1, <1>2, NestedBoth
<1> HIDE DEF g, cs
<1>7. front \in Text /\ Nested(front) /\ Len(front) = Len(cs) + Len(n)
  BY <1>3, <1>6, NestedBoth
<1>8. front # << >>
  <2>1. Len(cs) \in Nat /\ Len(n) \in Nat
    BY <1>3, <1>6, TextIs
  <2>2. Len(front) # 0
    BY <1>3, <1>7, <2>1
  <2> QED  BY <1>7, <2>2, NestedEmpty
<1> HIDE DEF front
<1>9. front \o g \in Text /\ Nested(front \o g)
  BY <1>5, <1>7, NestedBoth
<1>10. (front \o g) \o s \in Text /\ Nested((front \o g) \o s)
  BY <1>1, <1>9, NestedBoth
<1>11. front = UpToArgs(f) /\ Call(f) = (front \o g) \o s
  BY DEF UpToArgs, Call, front, g, j, s, cs, c, sep, n
<1> QED  BY <1>4, <1>6, <1>7, <1>8, <1>9, <1>10, <1>11 DEF cs, c, sep, j, g, s

(* What stands before the calling convention of the function.              *)
Lead(f) == <<"junk">> \o Returned(f)

LEMMA LeadIs ==
  ASSUME NEW f \in Functions
  PROVE  /\ Lead(f) \in Text /\ Nested(Lead(f))
         /\ Whole(f) => Outside(Lead(f), "cc") = {}
         /\ Len(Lead(f)) = Len(Returned(f)) + 1 /\ Len(Returned(f)) \in Nat
<1> DEFINE t == <<"junk">>
           r == Returned(f)
<1>1. t \in Text /\ Nested(t) /\ Outside(t, "cc") = {} /\ Len(t) = 1
  <2>1. "junk" \in Lexemes
    BY TokensAre
  <2> QED  BY <2>1, NestedToken
<1>2. r \in Text /\ Nested(r) /\ (Whole(f) => Outside(r, "cc") = {}) /\ Len(r) \in Nat
  BY PartsAre, TextIs
<1> HIDE DEF t, r
<1>3. t \o r \in Text /\ Nested(t \o r) /\ (Whole(f) => Outside(t \o r, "cc") = {})
      /\ Len(t \o r) = Len(t) + Len(r)
  BY <1>1, <1>2, NestedBoth
<1>4. Lead(f) = t \o r
  BY DEF Lead, t, r
<1>5. Len(t \o r) = Len(r) + 1
  BY <1>1, <1>2, <1>3
<1> QED  BY <1>2, <1>3, <1>4, <1>5 DEF r

(* What the last parentheses of an undecorated name hold.                  *)
Between(f) == IF f.kind = "ReturnsFunction" THEN f.type ELSE Join(f.args)

LEMMA BetweenIs ==
  ASSUME NEW f \in Functions
  PROVE  Between(f) \in Text /\ LastParentheses(Undecorated(f)) = Between(f)
<1> DEFINE lead == Lead(f)
           cc == <<"cc">>
           head == lead \o cc
           front == UpToArgs(f)
           j == Join(f.args)
           g == InParens(j)
           s == f.suffix
<1>1. /\ front \in Text /\ front # << >> /\ j \in Text /\ Nested(j) /\ front \o g \in Text
      /\ Call(f) = front \o g \o s /\ Call(f) \in Text /\ Nested(Call(f))
  BY CallIs
<1>2. s \in Text /\ (\A i \in 1 .. Len(s) : s[i] # ")") /\ f.type \in Text /\ Nested(f.type)
  BY PartsAre
<1>3. cc \in Text /\ Nested(cc) /\ Len(cc) = 1
  BY TokensAre, NestedToken
<1>4. lead \in Text /\ Nested(lead)
  BY LeadIs
<1>5. g \in Text /\ Nested(g)
  BY <1>1, NestedParens
<1>6. CASE f.kind # "ReturnsFunction"
  <2>1. Undecorated(f) = lead \o cc \o Call(f)
    BY <1>6 DEF Undecorated, Lead
  <2> HIDE DEF lead, cc, front, j, g, s
  <2>2. head \in Text /\ Len(head) = Len(lead) + Len(cc)
    BY <1>3, <1>4, ConcatIs
  <2> HIDE DEF head
  <2>3. head \o front \in Text /\ Len(head \o front) = Len(head) + Len(front)
    BY <1>1, <2>2, ConcatIs
  <2>4. head \o front # << >>
    <3>1. Len(lead) \in Nat /\ Len(front) \in Nat
      BY <1>1, <1>4, TextIs
    <3>2. Len(head \o front) # 0
      BY <1>3, <2>2, <2>3, <3>1
    <3> QED  BY <2>3, <3>2, NestedEmpty
  <2>5. head \o ((front \o g) \o s) = (head \o (front \o g)) \o s
    BY <1>1, <1>2, <2>2, Associative
  <2>6. head \o (front \o g) = (head \o front) \o g
    BY <1>1, <1>5, <2>2, Associative
  <2> DEFINE w == head \o front
  <2> HIDE DEF w
  <2>7. Undecorated(f) = w \o g \o s
    BY <1>1, <2>1, <2>5, <2>6 DEF w, head
  <2>8. LastParentheses(w \o InParens(j) \o s) = j
    BY <1>1, <1>2, <2>3, <2>4, LastParenthesesAre DEF w
  <2> QED  BY <1>1, <1>6, <2>7, <2>8 DEF g, j, Between
<1>7. CASE f.kind = "ReturnsFunction"
  <2> DEFINE t == f.type
             junk == <<"junk">>
             jt == junk \o t
             p == <<"cc", "*", "cc">> \o Call(f)
             pp == InParens(p)
             w == jt \o pp
             e == << >>
  <2>1. Undecorated(f) = w \o InParens(t)
    BY <1>7 DEF Undecorated
  <2>2. junk \in Text /\ Len(junk) = 1 /\ Nested(junk)
    BY TokensAre, NestedToken
  <2> HIDE DEF junk, t
  <2>3. jt \in Text /\ Len(jt) = Len(junk) + Len(t) /\ Len(t) \in Nat
    BY <1>2, <2>2, ConcatIs DEF t
  <2>4. pp \in Text
    <3>1. <<"cc", "*", "cc">> \in Text
      <4>1. "cc" \in Lexemes /\ "*" \in Lexemes
        BY TokensAre
      <4> QED  BY <4>1 DEF Text
    <3>2. p \in Text
      BY <1>1, <3>1, ConcatIs
    <3> HIDE DEF p
    <3>3. <<"(">> \in Text /\ <<")">> \in Text
      BY TokensAre
    <3>4. <<"(">> \o p \in Text
      BY <3>2, <3>3, ConcatIs
    <3>5. (<<"(">> \o p) \o <<")">> \in Text
      BY <3>3, <3>4, ConcatIs
    <3> QED  BY <3>5 DEF InParens
  <2> HIDE DEF jt, pp
  <2>5. w \in Text /\ Len(w) = Len(jt) + Len(pp) /\ Len(pp) \in Nat
    BY <2>3, <2>4, ConcatIs
  <2>6. w # << >>
    <3>1. Len(w) # 0
      BY <2>2, <2>3, <2>5
    <3> QED  BY <3>1, <2>5, NestedEmpty
  <2> HIDE DEF w
  <2>7. InParens(t) \in Text
    BY <1>2, NestedParens DEF t
  <2>8. LastParentheses(w \o InParens(t) \o e) = t
    <3>1. e \in Text /\ \A i \in 1 .. Len(e) : e[i] # ")"
      BY NestedEmpty
    <3> HIDE DEF e
    <3> QED  BY <1>2, <2>5, <2>6, <3>1, LastParenthesesAre DEF t
  <2>9. w \o InParens(t) \o e = w \o InParens(t)
    <3>1. w \o InParens(t) \in Text
      BY <2>5, <2>7, ConcatIs
    <3> QED  BY <3>1, ConcatEmptySeq DEF Text
  <2> QED  BY <1>2, <1>7, <2>1, <2>8, <2>9 DEF Between, t
<1> QED  BY <1>6, <1>7

-----------------------------------------------------------------------------
(* Cutting at the first comma.                                             *)
LEMMA HalvesAre ==
  ASSUME NEW a \in Text, NEW b \in Text
  PROVE  SubSeq(a \o b, 1, Len(a)) = a /\ SubSeq(a \o b, Len(a) + 1, Len(a \o b)) = b
<1> DEFINE ab == a \o b
           k == Len(a)
           m == Len(b)
           l == SubSeq(ab, 1, k)
           r == SubSeq(ab, k + 1, k + m)
<1>1. /\ ab \in Text /\ Len(ab) = k + m /\ k \in Nat /\ m \in Nat
      /\ \A i \in 1 .. k : ab[i] = a[i]
      /\ \A i \in 1 .. m : ab[k + i] = b[i]
  BY ConcatIs
<1>2. /\ \A i \in 1 .. k + m : ab[i] \in Lexemes
  BY <1>1, TextIs
<1> HIDE DEF ab, k, m
<1>3. l \in Text /\ Len(l) = k /\ \A i \in 1 .. k : l[i] = ab[i]
  <2>1. \A i \in 1 .. k : ab[i] \in Lexemes
    BY <1>1, <1>2
  <2>2. l \in Text /\ Len(l) = k /\ \A i \in 1 .. k - 1 + 1 : l[i] = ab[1 + i - 1]
    BY <1>1, <2>1, SubSeqProperties DEF Text
  <2> HIDE DEF l
  <2>3. \A i \in 1 .. k : i \in 1 .. k - 1 + 1 /\ 1 + i - 1 = i
    BY <1>1
  <2> QED  BY <2>2, <2>3
<1>4. r \in Text /\ Len(r) = m /\ \A i \in 1 .. m : r[i] = ab[k + i]
  <2>1. \A i \in k + 1 .. k + m : ab[i] \in Lexemes
    BY <1>1, <1>2
  <2>2. r \in Text /\ Len(r) = m /\ \A i \in 1 .. k + m - (k + 1) + 1 : r[i] = ab[k + 1 + i - 1]
    BY <1>1, <2>1, SubSeqProperties DEF Text
  <2> HIDE DEF r
  <2>3. \A i \in 1 .. m : i \in 1 .. k + m - (k + 1) + 1 /\ k + 1 + i - 1 = k + i
    BY <1>1
  <2> QED  BY <2>2, <2>3
<1> HIDE DEF l, r
<1>5. l = a
  BY <1>1, <1>3, SeqEqual DEF Text, k
<1>6. r = b
  BY <1>1, <1>4, SeqEqual DEF Text, m
<1> QED  BY <1>1, <1>5, <1>6 DEF l, r, ab, k

LEMMA CutAtTop ==
  ASSUME NEW a \in Text, NEW b \in Text, NEW token \in Lexemes,
         Nested(a), Nested(b), Outside(a, token) = {},
         token \notin {"(", ")", "backtick", "quote"}
  PROVE  /\ FirstTop(a \o (<<token>> \o b), token) = Len(a) + 1
         /\ FirstTop(a \o (<<token>> \o b), token) # 0
         /\ SubSeq(a \o (<<token>> \o b), 1, FirstTop(a \o (<<token>> \o b), token) - 1) = a
         /\ SubSeq(a \o (<<token>> \o b), FirstTop(a \o (<<token>> \o b), token) + 1,
                   Len(a \o (<<token>> \o b))) = b
<1> DEFINE t == <<token>>
           z == a \o (t \o b)
           at == a \o t
           c == FirstTop(z, token)
<1>1. c = Len(a) + 1
  BY FirstTopBehind
<1>2. t \in Text /\ Len(t) = 1
  BY TokensAre
<1> HIDE DEF t
<1>3. at \in Text /\ Len(at) = Len(a) + Len(t) /\ Len(a) \in Nat
  BY <1>2, ConcatIs
<1>4. SubSeq(z, 1, Len(a)) = a
  <2>1. t \o b \in Text
    BY <1>2, ConcatIs
  <2> QED  BY <2>1, HalvesAre
<1>5. at \o b = z
  BY <1>2, Associative
<1> HIDE DEF at, z, c
<1>6. SubSeq(z, Len(at) + 1, Len(z)) = b
  BY <1>3, <1>5, HalvesAre
<1>7. c # 0 /\ c - 1 = Len(a) /\ c + 1 = Len(at) + 1
  BY <1>1, <1>2, <1>3
<1> QED  BY <1>1, <1>4, <1>6, <1>7 DEF c, z, t

LEMMA CutAtToken ==
  ASSUME NEW text \in Text, NEW c \in 1 .. Len(text), NEW token \in Lexemes, text[c] = token
  PROVE  /\ SubSeq(text, 1, c - 1) \in Text /\ SubSeq(text, c + 1, Len(text)) \in Text
         /\ text = SubSeq(text, 1, c - 1) \o <<token>> \o SubSeq(text, c + 1, Len(text))
<1> DEFINE N == Len(text)
           a == SubSeq(text, 1, c - 1)
           t == SubSeq(text, c, c)
           b == SubSeq(text, c + 1, N)
<1>1. N \in Nat /\ c \in Nat /\ c > 0 /\ c <= N /\ \A i \in 1 .. N : text[i] \in Lexemes
  BY TextIs
<1>2. a \in Text /\ b \in Text
  BY <1>1, SubSeqProperties DEF Text
<1>3. t = <<token>>
  <2>1. t \in Text /\ Len(t) = 1 /\ t[1] = text[c]
    BY <1>1, SubSeqProperties DEF Text
  <2> HIDE DEF t
  <2>2. <<token>> \in Text /\ Len(<<token>>) = 1 /\ <<token>>[1] = token
    BY TokensAre
  <2> QED  BY <2>1, <2>2, SeqEqual DEF Text
<1>4. a \o t = SubSeq(text, 1, c)
  <2>1. 1 \in 1 .. N + 1 /\ c - 1 \in 1 - 1 .. N /\ c \in c - 1 .. N /\ c - 1 + 1 = c
    BY <1>1
  <2>2. SubSeq(text, 1, c - 1) \o SubSeq(text, c - 1 + 1, c) = SubSeq(text, 1, c)
    BY <2>1, ConcatAdjacentSubSeq DEF Text
  <2> QED  BY <2>1, <2>2
<1>5. SubSeq(text, 1, c) \o b = SubSeq(text, 1, N)
  <2>1. 1 \in 1 .. N + 1 /\ c \in 1 - 1 .. N /\ N \in c .. N
    BY <1>1
  <2> QED  BY <2>1, ConcatAdjacentSubSeq DEF Text
<1>6. SubSeq(text, 1, N) = text
  BY SubSeqFull DEF Text
<1> QED  BY <1>2, <1>3, <1>4, <1>5, <1>6

(* A text that is not cut at a comma.                                      *)
Unbroken(text) == Nested(text) /\ Outside(text, ",") = {}

LEMMA FirstOfJoined ==
  ASSUME NEW texts \in Seq(Text), texts # << >>,
         \A i \in 1 .. Len(texts) : Unbroken(texts[i])
  PROVE  /\ Len(texts) = 1 => FirstTop(Join(texts), ",") = 0 /\ Join(texts) = texts[1]
         /\ Len(texts) # 1 =>
              /\ FirstTop(Join(texts), ",") # 0
              /\ SubSeq(Join(texts), 1, FirstTop(Join(texts), ",") - 1) = texts[1]
              /\ SubSeq(Join(texts), FirstTop(Join(texts), ",") + 1, Len(Join(texts)))
                   = Join(Tail(texts))
<1> DEFINE rest == Join(texts)
           x == texts[1]
           y == Join(Tail(texts))
           comma == <<",">>
<1>1. /\ Len(texts) \in Nat \ {0} /\ Tail(texts) \in Seq(Text)
      /\ Len(Tail(texts)) = Len(texts) - 1
      /\ \A i \in 1 .. Len(texts) - 1 : Tail(texts)[i] = texts[i + 1]
  <2>1. Len(texts) \in Nat \ {0}
    BY EmptySeq
  <2> QED  BY <2>1
<1>2. x \in Text /\ Unbroken(x)
  BY <1>1
<1>3. y \in Text /\ Nested(y)
  <2>1. ASSUME NEW i \in 1 .. Len(Tail(texts)) PROVE Nested(Tail(texts)[i])
    <3>1. i + 1 \in 1 .. Len(texts) /\ Tail(texts)[i] = texts[i + 1]
      BY <1>1
    <3> QED  BY <3>1 DEF Unbroken
  <2> QED  BY <1>1, <2>1, JoinNested
<1>4. comma \in Text /\ Len(comma) = 1 /\ "," \in Lexemes
  BY TokensAre
<1>5. /\ Len(texts) = 1 => rest = x
      /\ Len(texts) # 1 => rest = x \o (comma \o y)
  BY JoinCons
<1> HIDE DEF rest, x, y, comma
<1>6. FirstTop(x, ",") = 0
  <2>1. Tops(x, ",") = {}
    BY <1>2, TopsOfNested DEF Unbroken
  <2> QED  BY <1>2, <2>1, FirstTopIs
<1>7. ASSUME Len(texts) # 1
      PROVE  /\ FirstTop(rest, ",") # 0
             /\ SubSeq(rest, 1, FirstTop(rest, ",") - 1) = x
             /\ SubSeq(rest, FirstTop(rest, ",") + 1, Len(rest)) = y
  <2> DEFINE z == x \o (comma \o y)
  <2>1. /\ FirstTop(z, ",") # 0
        /\ SubSeq(z, 1, FirstTop(z, ",") - 1) = x
        /\ SubSeq(z, FirstTop(z, ",") + 1, Len(z)) = y
    BY <1>2, <1>3, <1>4, CutAtTop DEF comma, Unbroken
  <2> HIDE DEF z
  <2>2. rest = z
    BY <1>5, <1>7 DEF z
  <2> QED  BY <2>1, <2>2
<1> QED  BY <1>5, <1>6, <1>7 DEF rest, x, y

-----------------------------------------------------------------------------
(* The return type.                                                        *)
(* A function that returns a pointer to one: T (cc* cc f(args))(T).        *)
Pointed(f) == InParens(<<"cc", "*", "cc">> \o Call(f))
Target(f) == InParens(f.type)

LEMMA PointedIs ==
  ASSUME NEW f \in Functions
  PROVE  /\ Pointed(f) \in Text /\ Nested(Pointed(f)) /\ Outside(Pointed(f), "cc") = {}
         /\ Target(f) \in Text /\ Nested(Target(f)) /\ Outside(Target(f), "cc") = {}
<1> DEFINE cc == <<"cc">>
           call == Call(f)
           ccs == <<"cc", "*", "cc">>
<1>1. call \in Text /\ Nested(call)
  BY CallIs
<1>2. "cc" \in Lexemes /\ cc \in Text /\ Nested(cc)
  BY TokensAre, NestedToken
<1>3. ccs \in Text /\ Nested(ccs)
  <2> DEFINE star == <<"*">>
             r == cc \o star \o cc
  <2>1. star \in Text /\ Nested(star)
    BY TokensAre, NestedToken
  <2>2. cc \o star \in Text /\ Nested(cc \o star)
    <3> HIDE DEF cc, star
    <3> QED  BY <1>2, <2>1, NestedBoth
  <2>3. r \in Text /\ Nested(r)
    <3> DEFINE h == cc \o star
    <3> HIDE DEF cc, h
    <3>1. h \o cc \in Text /\ Nested(h \o cc)
      BY <1>2, <2>2, NestedBoth DEF h
    <3> QED  BY <3>1 DEF h
  <2>4. r = ccs
    <3>1. cc \in Seq(Lexemes) /\ star \in Seq(Lexemes) /\ cc \o star \in Seq(Lexemes)
          /\ r \in Seq(Lexemes)
      BY <1>2, <2>1, <2>2, <2>3 DEF Text
    <3>2. ccs \in Seq(Lexemes)
      <4>1. "cc" \in Lexemes /\ "*" \in Lexemes
        BY TokensAre
      <4> QED  BY <4>1
    <3>3. Len(cc \o star) = 2 /\ (cc \o star)[1] = "cc" /\ (cc \o star)[2] = "*"
      BY <3>1
    <3>4. Len(r) = 3 /\ r[1] = "cc" /\ r[2] = "*" /\ r[3] = "cc"
      <4> DEFINE h == cc \o star
      <4> HIDE DEF h
      <4>1. Len(h \o cc) = 3 /\ (h \o cc)[1] = h[1] /\ (h \o cc)[2] = h[2]
            /\ (h \o cc)[3] = "cc"
        BY <3>1, <3>3 DEF h
      <4> QED  BY <3>3, <4>1 DEF h
    <3>5. Len(ccs) = 3 /\ ccs[1] = "cc" /\ ccs[2] = "*" /\ ccs[3] = "cc"
      OBVIOUS
    <3> HIDE DEF r, ccs
    <3>6. \A i \in 1 .. 3 : r[i] = ccs[i]
      BY <3>4, <3>5
    <3> QED  BY <3>1, <3>2, <3>4, <3>5, <3>6, SeqEqual
  <2> QED  BY <2>3, <2>4
<1> HIDE DEF ccs, call
<1>4. ccs \o call \in Text /\ Nested(ccs \o call)
  BY <1>1, <1>3, NestedBoth
<1>5. f.type \in Text /\ Nested(f.type)
  BY PartsAre
<1> QED  BY <1>4, <1>5, NestedParens DEF Pointed, Target, ccs, call

LEMMA ConventionIs ==
  ASSUME NEW f \in Functions, Whole(f)
  PROVE  /\ f.kind # "ReturnsFunction" =>
              /\ FirstTop(Undecorated(f), "cc") # 0
              /\ SubSeq(Undecorated(f), 1, FirstTop(Undecorated(f), "cc") - 1) = Lead(f)
              /\ SubSeq(Undecorated(f), FirstTop(Undecorated(f), "cc") + 1, Len(Undecorated(f)))
                   = Call(f)
         /\ f.kind = "ReturnsFunction" => FirstTop(Undecorated(f), "cc") = 0
<1> DEFINE cc == <<"cc">>
           lead == Lead(f)
           call == Call(f)
           U == Undecorated(f)
<1>1. /\ lead \in Text /\ Nested(lead) /\ Outside(lead, "cc") = {}
      /\ call \in Text /\ Nested(call)
  BY LeadIs, CallIs
<1>2. "cc" \in Lexemes /\ cc \in Text /\ Nested(cc)
  BY TokensAre, NestedToken
<1>3. CASE f.kind # "ReturnsFunction"
  <2> DEFINE z == lead \o (cc \o call)
  <2>1. U = lead \o cc \o call
    BY <1>3 DEF Undecorated, Lead
  <2> HIDE DEF U, lead, call
  <2>2. U = z
    BY <1>1, <1>2, <2>1, Associative
  <2>3. /\ FirstTop(z, "cc") # 0
        /\ SubSeq(z, 1, FirstTop(z, "cc") - 1) = lead
        /\ SubSeq(z, FirstTop(z, "cc") + 1, Len(z)) = call
    BY <1>1, <1>2, CutAtTop
  <2> HIDE DEF z
  <2> QED  BY <1>3, <2>2, <2>3 DEF U, lead, call
<1>4. CASE f.kind = "ReturnsFunction"
  <2> DEFINE t == f.type
             p == Pointed(f)
             q == Target(f)
             junk == <<"junk">>
  <2>1. t \in Text /\ Nested(t) /\ Outside(t, "cc") = {}
    BY <1>4, PartsAre DEF Whole
  <2>2. /\ p \in Text /\ Nested(p) /\ Outside(p, "cc") = {}
        /\ q \in Text /\ Nested(q) /\ Outside(q, "cc") = {}
    BY PointedIs
  <2>3. junk \in Text /\ Nested(junk) /\ Outside(junk, "cc") = {}
    BY TokensAre, NestedToken
  <2>4. U = junk \o t \o p \o q
    BY <1>4 DEF Undecorated, Pointed, Target
  <2> HIDE DEF U, junk, t, p, q
  <2> DEFINE a == junk \o t
             b == a \o p
             c == b \o q
  <2>5. a \in Text /\ Nested(a) /\ Outside(a, "cc") = {}
    BY <2>1, <2>3, NestedBoth
  <2> HIDE DEF a
  <2>6. b \in Text /\ Nested(b) /\ Outside(b, "cc") = {}
    BY <2>2, <2>5, NestedBoth
  <2> HIDE DEF b
  <2>7. c \in Text /\ Nested(c) /\ Outside(c, "cc") = {}
    BY <2>2, <2>6, NestedBoth
  <2> HIDE DEF c
  <2>8. FirstTop(c, "cc") = 0
    <3>1. Tops(c, "cc") = {}
      BY <2>7, TopsOfNested
    <3> QED  BY <2>7, <3>1, FirstTopIs
  <2>9. U = c
    BY <2>4 DEF c, b, a
  <2> QED  BY <1>4, <2>8, <2>9 DEF U
<1> QED  BY <1>3, <1>4

(* A type with a calling convention between angle brackets.                *)
LEMMA BrokenType ==
  ASSUME NEW type \in Types, Outside(type, "cc") # {}
  PROVE  /\ BeforeConvention(type) \in Text /\ Nested(BeforeConvention(type))
         /\ Outside(BeforeConvention(type), "cc") = {}
         /\ BeforeConvention(type) # << >>
         /\ BeforeConvention(type)[1] \notin {"junk", "cc"}
         /\ \E b \in Text :
              Nested(b) /\ type = BeforeConvention(type) \o (<<"cc">> \o b)
<1> DEFINE N == Len(type)
           ccs == Outside(type, "cc")
           c == CHOOSE i \in ccs : \A j \in ccs : i <= j
           a == SubSeq(type, 1, c - 1)
           b == SubSeq(type, c + 1, N)
           t == <<"cc">>
<1>1. /\ type \in Text /\ Nested(type) /\ type # << >>
      /\ type[1] \notin {"junk", "cc"}
  BY TextsAssumption
<1>2. N \in Nat /\ DOMAIN type = 1 .. N
  BY <1>1, TextIs
<1>3. ccs \in SUBSET (1 .. N)
  BY <1>2 DEF Outside
<1>4. c \in ccs /\ \A j \in ccs : c <= j
  <2>1. \E i \in ccs : \A j \in ccs : i <= j
    BY <1>2, <1>3, FirstPlace
  <2> QED  BY <2>1
<1>5. BeforeConvention(type) = a
  BY DEF BeforeConvention
<1> HIDE DEF c
<1>6. type[c] = "cc" /\ Parens(type)[c - 1] = 0 /\ Quotes(type)[c - 1] = 0
  BY <1>4 DEF Outside
<1> HIDE DEF ccs
<1>7. c \in 1 .. N /\ c # 1 /\ c - 1 \in 0 .. N /\ c - 1 >= 1
  <2>1. c \in 1 .. N /\ c # 1
    BY <1>1, <1>3, <1>4, <1>6
  <2> QED  BY <1>2, <2>1
<1>8. t \in Text /\ Nested(t)
  BY TokensAre, NestedToken
<1> HIDE DEF N
<1>9. a \in Text /\ Nested(a) /\ Len(a) = c - 1
  <2> DEFINE n == c - 1
  <2>1. n \in 0 .. Len(type) /\ Parens(type)[n] = 0 /\ Quotes(type)[n] = 0
    BY <1>6, <1>7 DEF N
  <2> HIDE DEF n
  <2>2. /\ SubSeq(type, 1, n) \in Text /\ Nested(SubSeq(type, 1, n))
        /\ Len(SubSeq(type, 1, n)) = n
    BY <1>1, <2>1, CutIs
  <2> QED  BY <2>2 DEF n
<1>10. b \in Text /\ type = a \o t \o b
  <2>1. "cc" \in Lexemes /\ c \in 1 .. Len(type)
    BY <1>7, TokensAre DEF N
  <2> QED  BY <1>1, <1>6, <2>1, CutAtToken DEF N
<1> HIDE DEF t, b
<1>11. type = a \o (t \o b) /\ t \o b \in Text
  <2> HIDE DEF a
  <2> QED  BY <1>8, <1>9, <1>10, Associative, ConcatIs
<1>12. Nested(b)
  <2> HIDE DEF a
  <2>1. Nested(t \o b)
    BY <1>1, <1>9, <1>11, NestedConcat
  <2> QED  BY <1>8, <1>10, <2>1, NestedConcat
<1>13. Outside(a, "cc") = {}
  <2> SUFFICES ASSUME NEW i \in Outside(a, "cc") PROVE FALSE
    OBVIOUS
  <2>1. i \in 1 .. c - 1
    BY <1>9, TextIs DEF Outside
  <2> HIDE DEF a
  <2>2. i \in ccs
    <3>1. Outside(a \o (t \o b), "cc") =
            Outside(a, "cc") \cup {Len(a) + j : j \in Outside(t \o b, "cc")}
      BY <1>9, <1>11, NestedConcat
    <3> QED  BY <1>11, <3>1 DEF ccs
  <2> QED  BY <1>4, <1>7, <2>1, <2>2
<1>14. a # << >> /\ a[1] = type[1]
  <2>1. Len(a) > 0 /\ 1 \in 1 .. Len(a)
    BY <1>7, <1>9
  <2> HIDE DEF a
  <2>2. (a \o (t \o b))[1] = a[1]
    BY <1>9, <1>11, <2>1, ConcatIs
  <2> QED  BY <1>9, <1>11, <2>1, <2>2, EmptySeq DEF Text
<1> HIDE DEF a
<1>15. BeforeConvention(type) = a /\ type = a \o (t \o b)
  BY <1>5, <1>11
<1> QED  BY <1>1, <1>9, <1>10, <1>12, <1>13, <1>14, <1>15 DEF t

(* Then what precedes it is taken for what precedes the function's own.    *)
LEMMA BrokenConventionIs ==
  ASSUME NEW f \in Functions, ~Whole(f)
  PROVE  /\ FirstTop(Undecorated(f), "cc") # 0
         /\ SubSeq(Undecorated(f), 1, FirstTop(Undecorated(f), "cc") - 1)
              = <<"junk">> \o BeforeConvention(f.type)
<1> DEFINE U == Undecorated(f)
           junk == <<"junk">>
           cc == <<"cc">>
           t == f.type
           a == BeforeConvention(f.type)
           call == Call(f)
           p == Pointed(f)
           q == Target(f)
<1>1. /\ f.kind \in {"Regular", "ReturnsFunction"} /\ Outside(t, "cc") # {}
      /\ t \in Types
  BY FunctionIs DEF Whole
<1>2. PICK b \in Text : Nested(b) /\ t = a \o (cc \o b)
  BY <1>1, BrokenType
<1>3. a \in Text /\ Nested(a) /\ Outside(a, "cc") = {} /\ t \in Text
  BY <1>1, BrokenType, TextsAssumption
<1>4. /\ junk \in Text /\ Nested(junk) /\ Outside(junk, "cc") = {}
      /\ cc \in Text /\ Nested(cc) /\ "cc" \in Lexemes
  BY TokensAre, NestedToken
<1>5. call \in Text /\ Nested(call) /\ p \in Text /\ Nested(p) /\ q \in Text /\ Nested(q)
  BY CallIs, PointedIs
<1>6. \E r \in Text : Nested(r) /\ U = (junk \o t) \o r
  <2>1. CASE f.kind = "Regular"
    <3>1. U = junk \o t \o cc \o call
      BY <2>1 DEF Undecorated, Returned
    <3> HIDE DEF U, junk, t, cc, call
    <3>2. junk \o t \in Text /\ cc \o call \in Text /\ Nested(cc \o call)
      BY <1>3, <1>4, <1>5, ConcatIs, NestedBoth
    <3>3. Bracketed(junk \o t, cc, call)
      BY <1>4, <1>5, <3>2, AsBracketed
    <3>4. U = (junk \o t) \o (cc \o call)
      BY <3>1, <3>3 DEF Bracketed
    <3> QED  BY <3>2, <3>4
  <2>2. CASE f.kind = "ReturnsFunction"
    <3>1. U = junk \o t \o p \o q
      BY <2>2 DEF Undecorated, Pointed, Target
    <3> HIDE DEF U, junk, t, p, q
    <3>2. junk \o t \in Text /\ p \o q \in Text /\ Nested(p \o q)
      BY <1>3, <1>4, <1>5, ConcatIs, NestedBoth
    <3>3. Bracketed(junk \o t, p, q)
      BY <1>5, <3>2, AsBracketed
    <3>4. U = (junk \o t) \o (p \o q)
      BY <3>1, <3>3 DEF Bracketed
    <3> QED  BY <3>2, <3>4
  <2> QED  BY <1>1, <2>1, <2>2
<1>7. PICK r \in Text : Nested(r) /\ U = (junk \o t) \o r
  BY <1>6
<1> HIDE DEF U, junk, cc, t, a
<1> DEFINE ja == junk \o a
           cb == cc \o b
           br == b \o r
<1>8. ja \in Text /\ Nested(ja) /\ Outside(ja, "cc") = {}
  BY <1>3, <1>4, NestedBoth
<1>9. cb \in Text /\ br \in Text /\ Nested(br)
  BY <1>2, <1>4, <1>7, ConcatIs, NestedBoth
<1>10. junk \o t = ja \o cb
  <2>1. t = a \o cb
    BY <1>2
  <2> HIDE DEF cb
  <2>2. junk \in Text /\ a \in Text /\ cb \in Text
    BY <1>3, <1>4, <1>9
  <2>3. (junk \o a) \o cb = junk \o (a \o cb)
    BY <2>2, Associative
  <2> QED  BY <2>1, <2>3
<1>11. (ja \o cb) \o r = ja \o (cb \o r)
  <2> HIDE DEF ja, cb
  <2> QED  BY <1>7, <1>8, <1>9, Associative
<1>12. cb \o r = cc \o br
  BY <1>2, <1>4, <1>7, Associative
<1> HIDE DEF ja, cb, br
<1>13. U = ja \o (cc \o br)
  BY <1>7, <1>10, <1>11, <1>12
<1>14. /\ FirstTop(ja \o (cc \o br), "cc") # 0
       /\ SubSeq(ja \o (cc \o br), 1, FirstTop(ja \o (cc \o br), "cc") - 1) = ja
  BY <1>4, <1>8, <1>9, CutAtTop DEF cc
<1> QED  BY <1>13, <1>14 DEF U, ja, junk, a

LEMMA LeadCleared ==
  ASSUME NEW r \in Text, r # << >> => r[1] # "cc"
  PROVE  WithoutJunk(<<"junk">> \o r) = WithoutJunk(r)
<1> DEFINE junk == <<"junk">>
           l == junk \o r
           N == Len(r)
           CL == Cleared(l)
           CR == Cleared(r)
           S == {n \in Nat : n <= N => CL[n + 1] = CR[n]}
<1>1. r \in Text
  OBVIOUS
<1>2. r = << >> \/ (Len(r) > 0 /\ r[1] # "cc")
  <2>1. r # << >> => Len(r) > 0
    BY EmptySeq DEF Text
  <2> QED  BY <2>1
<1>3. junk \in Text /\ Len(junk) = 1 /\ junk[1] = "junk"
  <2>1. junk \in Text
    BY TokensAre
  <2> QED  BY <2>1
<1> HIDE DEF junk
<1>4. /\ l \in Text /\ Len(l) = N + 1 /\ N \in Nat /\ l[1] = "junk"
      /\ \A n \in 1 .. N : l[n + 1] = r[n]
  <2>1. /\ l \in Text /\ Len(l) = Len(junk) + N /\ N \in Nat
        /\ \A i \in 1 .. Len(junk) : l[i] = junk[i]
        /\ \A i \in 1 .. N : l[Len(junk) + i] = r[i]
    BY <1>1, <1>3, ConcatIs
  <2> HIDE DEF l, N
  <2>2. 1 \in 1 .. Len(junk) /\ \A n \in 1 .. N : n + 1 = 1 + n
    BY <1>3, <2>1
  <2> QED  BY <1>3, <2>1, <2>2
<1> HIDE DEF l
<1>5. /\ CL[0] = << >>
      /\ \A n \in 1 .. N + 1 :
           CL[n] = IF IsJunk(l, n) THEN CL[n - 1] ELSE Append(CL[n - 1], l[n])
  BY <1>4, ClearedIs
<1>6. /\ CR[0] = << >>
      /\ \A n \in 1 .. N :
           CR[n] = IF IsJunk(r, n) THEN CR[n - 1] ELSE Append(CR[n - 1], r[n])
  BY <1>1, ClearedIs
<1>7. IsJunk(l, 1) /\ \A n \in 1 .. N : IsJunk(l, n + 1) <=> IsJunk(r, n)
  <2>1. IsJunk(l, 1)
    BY <1>4 DEF IsJunk
  <2>2. ASSUME NEW n \in 1 .. N PROVE IsJunk(l, n + 1) <=> IsJunk(r, n)
    <3> DEFINE j == n + 1
    <3>1. j > 1 /\ j - 1 = n /\ l[j] = r[n] /\ n \in Nat
      BY <1>4
    <3> HIDE DEF j
    <3>2. IsJunk(l, j) <=> r[n] = "junk" \/ (r[n] = "cc" /\ l[n] # "(")
      BY <3>1 DEF IsJunk
    <3>3. CASE n = 1
      <4>1. r[n] # "cc"
        <5>1. r # << >>
          BY <3>3 DEF N
        <5> QED  BY <1>2, <3>3, <5>1
      <4> QED  BY <3>2, <4>1 DEF IsJunk, j
    <3>4. CASE n > 1
      <4>1. n - 1 \in 1 .. N /\ n - 1 + 1 = n
        BY <3>4, <1>4
      <4>2. l[n] = r[n - 1]
        BY <1>4, <4>1
      <4> QED  BY <3>2, <3>4, <4>2 DEF IsJunk, j
    <3> QED  BY <3>1, <3>3, <3>4
  <2> QED  BY <2>1, <2>2
<1> HIDE DEF N, CL, CR
<1>8. 0 \in S
  <2>1. 1 \in 1 .. N + 1 /\ 1 - 1 = 0 /\ 0 + 1 = 1
    BY <1>4 DEF N
  <2>2. CL[1] = CL[0]
    BY <1>5, <1>7, <2>1
  <2> QED  BY <1>5, <1>6, <2>1, <2>2
<1>9. ASSUME NEW n \in Nat, n \in S PROVE n + 1 \in S
  <2> DEFINE j == n + 1
             k == j + 1
  <2> SUFFICES ASSUME j <= N PROVE CL[k] = CR[j]
    OBVIOUS
  <2>1. j \in 1 .. N /\ j - 1 = n /\ k \in 1 .. N + 1 /\ k - 1 = j /\ n <= N
    BY <1>4
  <2>2. CL[j] = CR[n]
    BY <1>9, <2>1
  <2>3. (IsJunk(l, k) <=> IsJunk(r, j)) /\ l[k] = r[j]
    BY <1>4, <1>7, <2>1
  <2> HIDE DEF j, k
  <2>4. /\ CL[k] = IF IsJunk(l, k) THEN CL[j] ELSE Append(CL[j], l[k])
        /\ CR[j] = IF IsJunk(r, j) THEN CR[n] ELSE Append(CR[n], r[j])
    BY <1>5, <1>6, <2>1
  <2> QED  BY <2>2, <2>3, <2>4
<1> HIDE DEF S
<1>10. N \in S
  BY <1>4, <1>8, <1>9, Induction
<1>11. CL[N + 1] = CR[N]
  BY <1>4, <1>10 DEF S
<1> QED  BY <1>4, <1>11 DEF WithoutJunk, CL, CR, l, junk, N

LEMMA TypeRemains ==
  ASSUME NEW type \in Text, type # << >>, type[1] \notin {"junk", "cc"}
  PROVE  WithoutJunk(type) # << >>
<1> DEFINE N == Len(type)
           C == Cleared(type)
           S == {n \in Nat : n > 0 /\ n <= N => Len(C[n]) > 0}
<1>1. type \in Text /\ type # << >> /\ type[1] \notin {"junk", "cc"}
  OBVIOUS
<1>2. N \in Nat /\ N > 0 /\ \A n \in 1 .. N : type[n] \in Lexemes
  BY <1>1, EmptySeq, TextIs DEF Text
<1>3. /\ C[0] = << >> /\ \A n \in 0 .. N : C[n] \in Text
      /\ \A n \in 1 .. N :
           C[n] = IF IsJunk(type, n) THEN C[n - 1] ELSE Append(C[n - 1], type[n])
  BY <1>1, ClearedIs
<1>4. ~IsJunk(type, 1)
  BY <1>1 DEF IsJunk
<1> HIDE DEF N, C
<1>5. 0 \in S
  OBVIOUS
<1>6. ASSUME NEW n \in Nat, n \in S PROVE n + 1 \in S
  <2> DEFINE j == n + 1
  <2> SUFFICES ASSUME j <= N PROVE Len(C[j]) > 0
    OBVIOUS
  <2>1. j \in 1 .. N /\ j - 1 = n /\ n \in 0 .. N
    BY <1>2
  <2>2. n > 0 => Len(C[n]) > 0
    BY <1>6, <2>1
  <2>3. n = 0 => ~IsJunk(type, j)
    BY <1>4
  <2> HIDE DEF j
  <2> DEFINE c == C[n]
             x == type[j]
  <2>4. C[j] = IF IsJunk(type, j) THEN c ELSE Append(c, x)
    BY <1>3, <2>1
  <2>5. c \in Text /\ x \in Lexemes
    BY <1>2, <1>3, <2>1
  <2> HIDE DEF c, x
  <2>6. Len(Append(c, x)) > 0
    <3>1. Len(Append(c, x)) = Len(c) + 1 /\ Len(c) \in Nat
      BY <2>5, AppendProperties DEF Text
    <3> QED  BY <3>1
  <2> QED  BY <2>2, <2>3, <2>4, <2>6 DEF c
<1> HIDE DEF S
<1>7. Len(C[N]) > 0
  <2>1. N \in S
    BY <1>2, <1>5, <1>6, Induction
  <2> QED  BY <1>2, <2>1 DEF S
<1> QED  BY <1>7 DEF WithoutJunk, C, N

LEMMA NothingRemains == WithoutJunk(<< >>) = << >>
<1>1. Len(<< >>) = 0 /\ << >> \in Text
  BY NestedEmpty
<1> QED  BY <1>1, ClearedIs DEF WithoutJunk

LEMMA BareReturnTypeIs ==
  ASSUME NEW f \in Functions
  PROVE  BareReturnType(Undecorated(f)) =
           IF Whole(f) THEN WithoutJunk(Returned(f)) ELSE WithoutJunk(BeforeConvention(f.type))
<1>1. CASE Whole(f) /\ f.kind # "ReturnsFunction"
  <2>1. /\ Returned(f) \in Text
        /\ Returned(f) # << >> => Returned(f)[1] # "cc"
    BY PartsAre, FunctionIs, TextsAssumption DEF Returned
  <2>2. WithoutJunk(<<"junk">> \o Returned(f)) = WithoutJunk(Returned(f))
    <3> DEFINE r == Returned(f)
    <3> HIDE DEF r
    <3>1. r \in Text /\ (r # << >> => r[1] # "cc")
      BY <2>1 DEF r
    <3>2. WithoutJunk(<<"junk">> \o r) = WithoutJunk(r)
      BY <3>1, LeadCleared
    <3> QED  BY <3>2 DEF r
  <2>3. SubSeq(Undecorated(f), 1, FirstTop(Undecorated(f), "cc") - 1)
          = <<"junk">> \o Returned(f)
    BY <1>1, ConventionIs DEF Lead
  <2> QED  BY <1>1, <2>2, <2>3 DEF BareReturnType
<1>2. CASE Whole(f) /\ f.kind = "ReturnsFunction"
  <2>1. FirstTop(Undecorated(f), "cc") = 0
    BY <1>2, ConventionIs
  <2>2. SubSeq(Undecorated(f), 1, 0 - 1) = << >>
    BY SubSeqEmpty
  <2>3. Returned(f) = << >>
    BY <1>2 DEF Returned
  <2> QED  BY <1>2, <2>1, <2>2, <2>3 DEF BareReturnType
<1>3. CASE ~Whole(f)
  <2> DEFINE b == BeforeConvention(f.type)
  <2>1. f.type \in Types /\ Outside(f.type, "cc") # {}
    BY <1>3, FunctionIs DEF Whole
  <2>2. b \in Text /\ b # << >> /\ b[1] \notin {"junk", "cc"}
    BY <2>1, BrokenType
  <2>3. SubSeq(Undecorated(f), 1, FirstTop(Undecorated(f), "cc") - 1) = <<"junk">> \o b
    BY <1>3, BrokenConventionIs
  <2> HIDE DEF b
  <2>4. WithoutJunk(<<"junk">> \o b) = WithoutJunk(b)
    BY <2>2, LeadCleared
  <2> QED  BY <1>3, <2>3, <2>4 DEF BareReturnType, b
<1> QED  BY <1>1, <1>2, <1>3

-----------------------------------------------------------------------------
(* The kind of a function.                                                 *)
LEMMA DestructorInConcat ==
  ASSUME NEW a \in Text, NEW b \in Text
  PROVE  NamesDestructor(a \o b) <=>
           \/ NamesDestructor(a) \/ NamesDestructor(b)
           \/ Len(a) > 0 /\ Len(b) > 0 /\ a[Len(a)] = "::" /\ b[1] = "~"
<1> DEFINE ab == a \o b
           k == Len(a)
           m == Len(b)
<1>1. /\ ab \in Text /\ Len(ab) = k + m /\ k \in Nat /\ m \in Nat
      /\ \A i \in 1 .. k : ab[i] = a[i]
      /\ \A i \in 1 .. m : ab[k + i] = b[i]
  BY ConcatIs
<1> HIDE DEF ab
<1>2. NamesDestructor(ab) <=> \E i \in 2 .. k + m : ab[i - 1] = "::" /\ ab[i] = "~"
  BY <1>1 DEF NamesDestructor
<1>3. NamesDestructor(a) <=> \E i \in 2 .. k : a[i - 1] = "::" /\ a[i] = "~"
  BY DEF NamesDestructor
<1>4. NamesDestructor(b) <=> \E i \in 2 .. m : b[i - 1] = "::" /\ b[i] = "~"
  BY DEF NamesDestructor
<1>5. ASSUME NEW i \in 2 .. k PROVE i \in 2 .. k + m /\ ab[i - 1] = a[i - 1] /\ ab[i] = a[i]
  <2>1. i \in 1 .. k /\ i - 1 \in 1 .. k
    BY <1>1
  <2> QED  BY <1>1, <2>1
<1>6. ASSUME NEW i \in 2 .. m
      PROVE  k + i \in 2 .. k + m /\ ab[k + i - 1] = b[i - 1] /\ ab[k + i] = b[i]
  <2>1. i \in 1 .. m /\ i - 1 \in 1 .. m /\ k + (i - 1) = k + i - 1 /\ k + i \in 2 .. k + m
    BY <1>1
  <2>2. ab[k + (i - 1)] = b[i - 1] /\ ab[k + i] = b[i]
    BY <1>1, <2>1
  <2> QED  BY <2>1, <2>2
<1>7. ASSUME k > 0, m > 0
      PROVE  k + 1 \in 2 .. k + m /\ ab[k + 1 - 1] = a[k] /\ ab[k + 1] = b[1]
  <2>1. k \in 1 .. k /\ 1 \in 1 .. m /\ k + 1 - 1 = k /\ k + 1 \in 2 .. k + m
    BY <1>1, <1>7
  <2> QED  BY <1>1, <2>1
<1>8. \A i \in 2 .. k + m : \/ i \in 2 .. k
                            \/ k > 0 /\ m > 0 /\ i = k + 1
                            \/ i - k \in 2 .. m /\ i = k + (i - k)
  BY <1>1
<1>9. ASSUME NEW i \in 2 .. k + m, ab[i - 1] = "::", ab[i] = "~"
      PROVE  \/ NamesDestructor(a) \/ NamesDestructor(b)
             \/ k > 0 /\ m > 0 /\ a[k] = "::" /\ b[1] = "~"
  <2>1. CASE i \in 2 .. k
    BY <1>3, <1>5, <1>9, <2>1
  <2>2. CASE k > 0 /\ m > 0 /\ i = k + 1
    BY <1>7, <1>9, <2>2
  <2>3. CASE i - k \in 2 .. m /\ i = k + (i - k)
    <3> DEFINE j == i - k
    <3>1. j \in 2 .. m /\ i = k + j
      BY <2>3
    <3> HIDE DEF j
    <3>2. b[j - 1] = "::" /\ b[j] = "~"
      BY <1>6, <1>9, <3>1
    <3> QED  BY <1>4, <3>1, <3>2
  <2> QED  BY <1>8, <2>1, <2>2, <2>3
<1>10. NamesDestructor(a) => NamesDestructor(ab)
  BY <1>2, <1>3, <1>5
<1>11. NamesDestructor(b) => NamesDestructor(ab)
  <2> SUFFICES ASSUME NEW i \in 2 .. m, b[i - 1] = "::", b[i] = "~" PROVE NamesDestructor(ab)
    BY <1>4
  <2> DEFINE j == k + i
  <2>1. j \in 2 .. k + m /\ ab[j - 1] = "::" /\ ab[j] = "~"
    BY <1>6
  <2> HIDE DEF j
  <2> QED  BY <1>2, <2>1
<1>12. k > 0 /\ m > 0 /\ a[k] = "::" /\ b[1] = "~" => NamesDestructor(ab)
  BY <1>2, <1>7
<1> QED  BY <1>2, <1>9, <1>10, <1>11, <1>12 DEF ab

LEMMA DestructorInToken ==
  ASSUME NEW c \in Lexemes
  PROVE  /\ <<c>> \in Text /\ Len(<<c>>) = 1 /\ <<c>>[1] = c
         /\ ~NamesDestructor(<<c>>) /\ ~NamesDestructor(<< >>) /\ << >> \in Text
<1>1. <<c>> \in Text /\ << >> \in Text
  BY TokensAre
<1>2. Len(<<c>>) = 1 /\ <<c>>[1] = c /\ Len(<< >>) = 0
  OBVIOUS
<1>3. 2 .. 1 = {} /\ 2 .. 0 = {}
  OBVIOUS
<1> QED  BY <1>1, <1>2, <1>3 DEF NamesDestructor

(* A token that is neither "::" nor "~" keeps apart what is around it.     *)
LEMMA DestructorApart ==
  ASSUME NEW a \in Text, NEW b \in Text, NEW c \in Lexemes, c \notin {"::", "~"}
  PROVE  /\ a \o <<c>> \in Text /\ a \o <<c>> \o b \in Text /\ <<c>> \o b \in Text
         /\ NamesDestructor(a \o <<c>>) <=> NamesDestructor(a)
         /\ NamesDestructor(<<c>> \o b) <=> NamesDestructor(b)
         /\ NamesDestructor(a \o <<c>> \o b) <=> NamesDestructor(a) \/ NamesDestructor(b)
<1> DEFINE t == <<c>>
           at == a \o t
<1>1. t \in Text /\ Len(t) = 1 /\ t[1] = c /\ ~NamesDestructor(t)
  BY DestructorInToken
<1> HIDE DEF t
<1>2. NamesDestructor(at) <=> NamesDestructor(a)
  BY <1>1, DestructorInConcat
<1>3. NamesDestructor(t \o b) <=> NamesDestructor(b)
  BY <1>1, DestructorInConcat
<1>4. at \in Text /\ Len(at) = Len(a) + 1 /\ Len(a) \in Nat /\ at[Len(a) + 1] = c
      /\ t \o b \in Text
  <2>1. at \in Text /\ Len(at) = Len(a) + Len(t) /\ Len(a) \in Nat /\ t \o b \in Text
        /\ \A i \in 1 .. Len(t) : at[Len(a) + i] = t[i]
    BY <1>1, ConcatIs
  <2> HIDE DEF at
  <2>2. 1 \in 1 .. Len(t)
    BY <1>1
  <2> QED  BY <1>1, <2>1, <2>2
<1> HIDE DEF at
<1>5. at[Len(at)] # "::"
  BY <1>4
<1>6. at \o b \in Text
  BY <1>4, ConcatIs
<1>7. NamesDestructor(at \o b) <=> NamesDestructor(at) \/ NamesDestructor(b)
  BY <1>4, <1>5, DestructorInConcat
<1> QED  BY <1>2, <1>3, <1>4, <1>6, <1>7 DEF at, t

LEMMA DestructorInParens ==
  ASSUME NEW a \in Text
  PROVE  InParens(a) \in Text /\ (NamesDestructor(InParens(a)) <=> NamesDestructor(a))
<1> DEFINE l == <<"(">> \o a
<1>1. "(" \in Lexemes /\ ")" \in Lexemes
  BY TokensAre
<1>2. l \in Text /\ (NamesDestructor(l) <=> NamesDestructor(a))
  BY <1>1, DestructorApart
<1> HIDE DEF l
<1>3. l \o <<")">> \in Text /\ (NamesDestructor(l \o <<")">>) <=> NamesDestructor(l))
  BY <1>1, <1>2, DestructorApart
<1> QED  BY <1>2, <1>3 DEF InParens, l

LEMMA DestructorInJoined ==
  ASSUME NEW texts \in Seq(Text)
  PROVE  NamesDestructor(Join(texts)) <=>
           \E i \in 1 .. Len(texts) : NamesDestructor(texts[i])
<1> DEFINE N == Len(texts)
           J == Joined(texts)
           Some(n) == \E i \in 1 .. n : NamesDestructor(texts[i])
           S == {n \in Nat : n <= N => (NamesDestructor(J[n]) <=> Some(n))}
<1>1. N \in Nat /\ \A i \in 1 .. N : texts[i] \in Text
  OBVIOUS
<1>2. /\ J[0] = << >> /\ \A n \in 0 .. N : J[n] \in Text
      /\ \A n \in 1 .. N : J[n] = IF n = 1 THEN texts[1] ELSE J[n - 1] \o <<",">> \o texts[n]
  BY JoinedAre
<1>3. "," \in Lexemes /\ ~NamesDestructor(<< >>)
  BY TokensAre, DestructorInToken
<1> HIDE DEF N, J
<1>4. 0 \in S
  <2>1. ~Some(0)
    OBVIOUS
  <2> QED  BY <1>2, <1>3, <2>1
<1>5. ASSUME NEW n \in Nat, n \in S PROVE n + 1 \in S
  <2> DEFINE j == n + 1
             x == texts[j]
  <2> SUFFICES ASSUME j <= N PROVE NamesDestructor(J[j]) <=> Some(j)
    OBVIOUS
  <2>1. j \in 1 .. N /\ j - 1 = n /\ n \in 0 .. N
    BY <1>1
  <2>2. NamesDestructor(J[n]) <=> Some(n)
    BY <1>5, <2>1
  <2>3. Some(j) <=> Some(n) \/ NamesDestructor(x)
    <3>1. \A i : i \in 1 .. j <=> i \in 1 .. n \/ i = j
      BY <2>1
    <3> HIDE DEF j
    <3> QED  BY <3>1
  <2>4. x \in Text /\ J[n] \in Text
    BY <1>1, <1>2, <2>1
  <2>5. J[j] = IF j = 1 THEN x ELSE J[n] \o <<",">> \o x
    <3> HIDE DEF j
    <3>1. J[j] = IF j = 1 THEN texts[1] ELSE J[n] \o <<",">> \o texts[j]
      BY <1>2, <2>1
    <3>2. j = 1 => texts[1] = texts[j]
      OBVIOUS
    <3> QED  BY <3>1, <3>2
  <2>6. j = 1 => ~NamesDestructor(J[n])
    <3>1. j = 1 => n = 0
      BY <2>1
    <3> HIDE DEF j
    <3> QED  BY <1>2, <1>3, <3>1
  <2> HIDE DEF x, j, Some
  <2>7. NamesDestructor(J[n] \o <<",">> \o x) <=> NamesDestructor(J[n]) \/ NamesDestructor(x)
    BY <1>3, <2>4, DestructorApart
  <2> QED  BY <2>2, <2>3, <2>5, <2>6, <2>7
<1> HIDE DEF S
<1>6. N \in S
  BY <1>1, <1>4, <1>5, Induction
<1> QED  BY <1>1, <1>6 DEF S, Join, J, N

(* What a call says of destructors: the name, the class or an argument.    *)
LEMMA DestructorInCall ==
  ASSUME NEW f \in Functions
  PROVE  NamesDestructor(Call(f)) <=>
           \/ NamesDestructor(f.class) \/ NamesDestructor(Name(f)) \/ Name(f)[1] = "~"
           \/ \E i \in DOMAIN f.args : NamesDestructor(f.args[i])
<1> DEFINE c == f.class
           cs == c \o <<"::">>
           n == Name(f)
           front == UpToArgs(f)
           j == Join(f.args)
           g == InParens(j)
           s == f.suffix
<1>1. /\ c \in Text /\ s \in Text /\ n \in Text /\ Len(n) > 0
  BY PartsAre, NameIs
<1>2. /\ cs \in Text /\ front \in Text /\ j \in Text /\ Nested(j) /\ front \o g \in Text
      /\ Call(f) = front \o g \o s
  BY CallIs
<1>3. front = cs \o n
  BY DEF UpToArgs
<1>4. NamesDestructor(j) <=> \E i \in DOMAIN f.args : NamesDestructor(f.args[i])
  BY PartsAre, FunctionIs, DestructorInJoined
<1>5. g \in Text /\ Len(g) > 0 /\ g[1] = "(" /\ g[Len(g)] = ")"
      /\ (NamesDestructor(g) <=> NamesDestructor(j))
  <2>1. /\ Len(g) = Len(j) + 2 /\ Len(j) \in Nat /\ g[1] = "(" /\ g[Len(j) + 2] = ")"
    BY <1>2, ParensOfInParens
  <2>2. g \in Text /\ (NamesDestructor(g) <=> NamesDestructor(j))
    BY <1>2, DestructorInParens
  <2> HIDE DEF g, j
  <2> QED  BY <2>1, <2>2
<1>6. ~NamesDestructor(s)
  <2>1. s = << >> \/ s = <<"junk">>
    BY FunctionIs
  <2>2. "junk" \in Lexemes
    BY TokensAre
  <2> HIDE DEF s
  <2> QED  BY <2>1, <2>2, DestructorInToken
<1>7. /\ NamesDestructor(cs) <=> NamesDestructor(c)
      /\ Len(cs) > 0 /\ cs[Len(cs)] = "::"
  <2> DEFINE t == <<"::">>
  <2>1. t \in Text /\ Len(t) = 1 /\ t[1] = "::" /\ ~NamesDestructor(t)
    BY TokensAre, DestructorInToken
  <2> HIDE DEF t, c
  <2>2. NamesDestructor(c \o t) <=> NamesDestructor(c)
    BY <1>1, <2>1, DestructorInConcat
  <2>3. /\ Len(c \o t) = Len(c) + Len(t) /\ Len(c) \in Nat
        /\ \A i \in 1 .. Len(t) : (c \o t)[Len(c) + i] = t[i]
    BY <1>1, <2>1, ConcatIs
  <2>4. (c \o t)[Len(c) + 1] = "::"
    BY <2>1, <2>3
  <2>5. Len(c \o t) = Len(c) + 1
    BY <2>1, <2>3
  <2> QED  BY <2>2, <2>3, <2>4, <2>5 DEF t
<1> HIDE DEF c, cs, n, front, j, g, s
<1>8. NamesDestructor(front) <=>
        NamesDestructor(c) \/ NamesDestructor(n) \/ n[1] = "~"
  BY <1>1, <1>2, <1>3, <1>7, DestructorInConcat
<1>9. NamesDestructor(front \o g) <=> NamesDestructor(front) \/ NamesDestructor(j)
  BY <1>2, <1>5, DestructorInConcat
<1>10. NamesDestructor((front \o g) \o s) <=> NamesDestructor(front \o g)
  <2> DEFINE fg == front \o g
  <2>1. Len(fg) = Len(front) + Len(g) /\ Len(front) \in Nat /\ Len(g) \in Nat
        /\ \A i \in 1 .. Len(g) : fg[Len(front) + i] = g[i]
    BY <1>2, <1>5, ConcatIs
  <2>2. Len(g) \in 1 .. Len(g)
    BY <1>5, <2>1
  <2> HIDE DEF fg
  <2>3. fg[Len(fg)] = ")"
    BY <1>5, <2>1, <2>2
  <2>4. fg \in Text
    BY <1>2 DEF fg
  <2>5. NamesDestructor(fg \o s) <=> NamesDestructor(fg)
    BY <1>1, <1>6, <2>3, <2>4, DestructorInConcat
  <2> QED  BY <2>5 DEF fg
<1> QED  BY <1>2, <1>4, <1>8, <1>9, <1>10 DEF c, n

LEMMA DestructorOfKind ==
  ASSUME NEW f \in Functions
  PROVE  /\ f.kind = "Destructor" => NamesDestructor(Call(f))
         /\ f.kind \in {"Constructor", "Deduced"} =>
              (NamesDestructor(Call(f)) <=>
                 \/ NamesDestructor(f.class)
                 \/ \E i \in DOMAIN f.args : NamesDestructor(f.args[i]))
<1> DEFINE ln == LastName(f.class)
           c == f.class
<1>1. /\ c \in Text /\ ln \in Text /\ ln # << >> /\ ln[1] \notin {"operator", "~"}
      /\ SubSeq(c, 1, LastSep(c)) \in Text /\ SubSeq(c, 1, LastSep(c)) \o ln = c
  <2>1. ln # << >> /\ ln[1] \notin {"operator", "~"}
    BY FunctionIs, TextsAssumption
  <2> QED  BY <2>1, PartsAre, LastNameIs
<1>2. CASE f.kind = "Destructor"
  <2> DEFINE t == <<"~">>
  <2>1. t \in Text /\ Len(t) = 1 /\ t[1] = "~"
    BY TokensAre, DestructorInToken
  <2>2. Name(f) = t \o ln
    BY <1>2 DEF Name
  <2> HIDE DEF t, ln
  <2>3. \A i \in 1 .. Len(t) : (t \o ln)[i] = t[i]
    BY <1>1, <2>1, ConcatIs
  <2>4. Name(f)[1] = "~"
    BY <2>1, <2>2, <2>3
  <2> QED  BY <1>2, <2>4, DestructorInCall
<1>3. CASE f.kind = "Constructor"
  <2>1. Name(f) = ln
    BY <1>3 DEF Name
  <2>2. NamesDestructor(ln) => NamesDestructor(c)
    <3> DEFINE a == SubSeq(c, 1, LastSep(c))
    <3> HIDE DEF a, ln, c
    <3>1. NamesDestructor(ln) => NamesDestructor(a \o ln)
      BY <1>1, DestructorInConcat DEF a
    <3> QED  BY <1>1, <3>1 DEF a
  <2> HIDE DEF ln
  <2> QED  BY <1>1, <1>3, <2>1, <2>2, DestructorInCall DEF c
<1>4. CASE f.kind = "Deduced"
  <2> DEFINE e == << >>
             g == InParens(e)
             n == <<"operator">> \o g
  <2>1. "operator" \in Lexemes /\ e \in Text /\ ~NamesDestructor(e)
    BY TokensAre, DestructorInToken
  <2> HIDE DEF e
  <2>2. g \in Text /\ ~NamesDestructor(g)
    BY <2>1, DestructorInParens
  <2> HIDE DEF g
  <2>3. ~NamesDestructor(n)
    BY <2>1, <2>2, DestructorApart
  <2>4. n[1] = "operator"
    <3> DEFINE t == <<"operator">>
    <3>1. t \in Text /\ Len(t) = 1 /\ t[1] = "operator"
      BY <2>1, DestructorInToken
    <3> HIDE DEF t
    <3>2. \A i \in 1 .. Len(t) : (t \o g)[i] = t[i]
      BY <2>2, <3>1, ConcatIs
    <3> QED  BY <3>1, <3>2 DEF t
  <2>5. Name(f) = n
    BY <1>4 DEF Name, g, e
  <2> HIDE DEF n
  <2>6. ~NamesDestructor(Name(f)) /\ Name(f)[1] # "~"
    BY <2>3, <2>4, <2>5
  <2> QED  BY <1>4, <2>6, DestructorInCall
<1> QED  BY <1>2, <1>3, <1>4

LEMMA OutsideKept ==
  ASSUME NEW a \in Text, NEW b \in Text, NEW token, Nested(a), Outside(b, token) = {}
  PROVE  Outside(a \o b, token) = Outside(a, token)
<1>1. Outside(a \o b, token) = Outside(a, token) \cup {Len(a) + i : i \in Outside(b, token)}
  BY NestedConcat
<1> QED  BY <1>1

LEMMA SeparatorsAre ==
  ASSUME NEW f \in Functions, ~InAngles(f.class, "::")
  PROVE  Tops(Call(f), "::") = Outside(f.class, "::") \cup {Len(f.class) + 1}
<1> DEFINE c == f.class
           t == <<"::">>
           cs == c \o t
           n == Name(f)
           front == UpToArgs(f)
           g == InParens(Join(f.args))
           s == f.suffix
<1>1. /\ c \in Text /\ Nested(c) /\ s \in Text /\ Outside(s, "::") = {}
  BY PartsAre
<1>2. n \in Text /\ Outside(n, "::") = {}
  BY NameIs
<1>3. /\ cs \in Text /\ Nested(cs) /\ front \in Text /\ Nested(front)
      /\ front \o g \in Text /\ Nested(front \o g)
      /\ Call(f) = front \o g \o s /\ Call(f) \in Text /\ Nested(Call(f))
  BY CallIs
<1>4. g \in Text /\ Outside(g, "::") = {}
  BY CallIs, NestedParens
<1>5. t \in Text /\ Outside(t, "::") = {1}
  BY TokensAre, NestedToken
<1>6. front = cs \o n
  BY DEF UpToArgs
<1> HIDE DEF c, t, n, front, g, s
<1>7. Outside(cs, "::") = Outside(c, "::") \cup {Len(c) + 1}
  <2>1. Outside(cs, "::") = Outside(c, "::") \cup {Len(c) + i : i \in Outside(t, "::")}
    BY <1>1, <1>5, NestedConcat
  <2> QED  BY <1>5, <2>1
<1> HIDE DEF cs
<1>8. Outside(front, "::") = Outside(cs, "::")
  BY <1>2, <1>3, <1>6, OutsideKept
<1>9. Outside(front \o g, "::") = Outside(front, "::")
  BY <1>3, <1>4, OutsideKept
<1>10. Outside(front \o g \o s, "::") = Outside(front \o g, "::")
  BY <1>1, <1>3, OutsideKept
<1>11. Tops(Call(f), "::") = Outside(Call(f), "::")
  BY <1>3, TopsOfNested
<1>12. Outside(Call(f), "::") = Outside(c, "::") \cup {Len(c) + 1}
  BY <1>3, <1>7, <1>8, <1>9, <1>10
<1> QED  BY <1>11, <1>12 DEF c

(* What stands behind the last separator of a call.                        *)
NameAndArgs(f) == Name(f) \o (InParens(Join(f.args)) \o f.suffix)

LEMMA ComponentsAre ==
  ASSUME NEW f \in Functions, ~InAngles(f.class, "::")
  PROVE  KindOfUntyped(Call(f)) =
           IF NamesDestructor(Call(f)) THEN "Destructor"
           ELSE IF IsPrefix(LastName(f.class) \o <<"(">>, NameAndArgs(f)) THEN "Constructor"
           ELSE "Deduced"
<1> DEFINE c == f.class
           k == Len(c)
           sep == <<"::">>
           cs == c \o sep
           n == Name(f)
           g == InParens(Join(f.args))
           s == f.suffix
           fn == Call(f)
           gs == g \o s
           rest == n \o gs
           seps == Tops(fn, "::")
           ln == LastName(c)
           b == LastSep(c)
<1>1. c \in Text /\ Nested(c) /\ s \in Text /\ n \in Text /\ k \in Nat
  BY PartsAre, NameIs, TextIs
<1>2. /\ cs \in Text /\ cs \o n \in Text /\ g \in Text /\ fn = (cs \o n) \o g \o s /\ fn \in Text
  <2>1. UpToArgs(f) = cs \o n
    BY DEF UpToArgs
  <2>2. g \in Text
    BY CallIs, NestedParens
  <2> QED  BY <2>1, <2>2, CallIs
<1>3. sep \in Text /\ Len(sep) = 1
  BY TokensAre, NestedToken
<1>4. /\ ln \in Text /\ ln # << >> /\ b \in 0 .. k /\ b = LastIn(Outside(c, "::"))
      /\ SubSeq(c, 1, b) \in Text /\ SubSeq(c, 1, b) \o ln = c
  <2>1. ln # << >>
    BY FunctionIs, TextsAssumption
  <2> QED  BY <1>1, <2>1, LastNameIs
<1>5. seps = Outside(c, "::") \cup {k + 1}
  BY SeparatorsAre
<1>6. Outside(c, "::") \in SUBSET (1 .. k)
  BY <1>1, TextIs DEF Outside
<1> HIDE DEF c, k, sep, n, g, s, fn
<1>7. gs \in Text
  BY <1>1, <1>2, ConcatIs
<1> HIDE DEF cs, gs
<1>8. fn = cs \o rest
  <2>1. ((cs \o n) \o g) \o s = (cs \o n) \o (g \o s)
    <3>1. Bracketed(cs \o n, g, s)
      BY <1>1, <1>2, AsBracketed
    <3> QED  BY <3>1 DEF Bracketed
  <2>2. (cs \o n) \o gs = cs \o (n \o gs)
    <3>1. Bracketed(cs, n, gs)
      BY <1>1, <1>2, <1>7, AsBracketed
    <3> QED  BY <3>1 DEF Bracketed
  <2> QED  BY <1>2, <2>1, <2>2 DEF gs
<1>9. rest \in Text
  BY <1>1, <1>7, ConcatIs
<1> HIDE DEF rest
<1>10. Len(cs) = k + 1
  <2>1. Len(c \o sep) = Len(c) + Len(sep)
    BY <1>1, <1>3, ConcatIs
  <2> QED  BY <1>1, <1>3, <2>1 DEF cs, k
<1>11. SubSeq(fn, k + 2, Len(fn)) = rest
  <2>1. SubSeq(cs \o rest, Len(cs) + 1, Len(cs \o rest)) = rest
    BY <1>2, <1>9, HalvesAre
  <2>2. Len(cs) + 1 = k + 2
    BY <1>1, <1>10
  <2> QED  BY <1>8, <2>1, <2>2
<1>12. SubSeq(fn, b + 1, k) = ln
  <2> DEFINE a == SubSeq(c, 1, b)
             tail == sep \o rest
  <2>1. tail \in Text
    BY <1>3, <1>9, ConcatIs
  <2>2. fn = c \o tail
    <3>1. (c \o sep) \o rest = c \o (sep \o rest)
      BY <1>1, <1>3, <1>9, Associative
    <3> QED  BY <1>8, <3>1 DEF cs
  <2>3. /\ Len(a) = b /\ b \in Nat
    <3>1. a \in Text /\ b \in Nat /\ b <= k
      BY <1>1, <1>4
    <3>2. Len(a) = b
      <4>1. \A i \in 1 .. b : c[i] \in Lexemes
        <5>1. \A i \in 1 .. k : c[i] \in Lexemes
          BY <1>1, TextIs DEF k
        <5> QED  BY <1>1, <3>1, <5>1
      <4> QED  BY <3>1, <4>1, SubSeqProperties
    <3> QED  BY <3>1, <3>2
  <2>4. SubSeq(a \o ln, Len(a) + 1, Len(a \o ln)) = ln
    BY <1>4, HalvesAre
  <2>5. SubSeq(c, b + 1, k) = ln
    BY <1>4, <2>3, <2>4 DEF k
  <2>6. b + 1 \in 1 .. k
    <3>1. b # k
      <4>1. ASSUME b = k PROVE FALSE
        <5>1. SubSeq(c, b + 1, k) = << >>
          BY <1>1, <4>1, SubSeqEmpty
        <5> QED  BY <1>4, <2>5, <5>1
      <4> QED  BY <4>1
    <3> QED  BY <1>1, <1>4, <3>1
  <2> HIDE DEF tail
  <2>7. b + 1 \in 1 .. Len(c) /\ k \in 1 .. Len(c)
    BY <1>1, <2>6 DEF k
  <2>8. SubSeq(c \o tail, b + 1, k) = SubSeq(c, b + 1, k)
    BY <1>1, <2>1, <2>7, SubSeqOfConcat1 DEF Text
  <2> QED  BY <2>2, <2>5, <2>8
<1> HIDE DEF b, ln
<1>13. LastIn(seps) = k + 1
  <2>1. seps \in SUBSET (1 .. k + 1) /\ k + 1 \in seps /\ k + 1 \in Nat
    BY <1>1, <1>5, <1>6
  <2> HIDE DEF seps
  <2>2. LastIn(seps) \in 1 .. k + 1 /\ k + 1 <= LastIn(seps)
    BY <2>1, LastInIs
  <2> QED  BY <1>1, <2>2
<1>14. seps \ {k + 1} = Outside(c, "::")
  BY <1>1, <1>5, <1>6
<1>15. seps # {}
  BY <1>5
<1> HIDE DEF seps
<1> DEFINE last == LastIn(seps)
           before == LastIn(seps \ {last})
<1>16. KindOfUntyped(fn) =
         IF NamesDestructor(fn) THEN "Destructor"
         ELSE IF /\ seps # {}
                 /\ IsPrefix(SubSeq(fn, before + 1, last - 1) \o <<"(">>,
                             SubSeq(fn, last + 1, Len(fn)))
              THEN "Constructor" ELSE "Deduced"
  BY DEF KindOfUntyped, seps
<1>17. last = k + 1 /\ before = b /\ last - 1 = k /\ last + 1 = k + 2
  <2>1. last = k + 1
    BY <1>13
  <2>2. before = b
    BY <1>4, <1>14, <2>1
  <2> HIDE DEF last, before
  <2> QED  BY <1>1, <2>1, <2>2
<1> HIDE DEF last, before
<1>18. rest = NameAndArgs(f)
  BY DEF rest, NameAndArgs, gs, g, s, n
<1> QED  BY <1>11, <1>12, <1>15, <1>16, <1>17, <1>18 DEF fn, ln, c

LEMMA PrefixIs ==
  ASSUME NEW a \in Text, NEW b \in Text
  PROVE  /\ IsPrefix(a, a \o b)
         /\ Len(a) > 0 /\ Len(b) > 0 /\ IsPrefix(a, b) => a[1] = b[1]
<1>1. Len(a) \in Nat /\ Len(b) \in Nat
  BY TextIs
<1>2. IsPrefix(a, a \o b)
  <2>1. SubSeq(a \o b, 1, Len(a)) = a /\ SubSeq(a, 1, Len(a)) = a
    BY HalvesAre, SubSeqFull DEF Text
  <2>2. Len(a \o b) = Len(a) + Len(b)
    BY ConcatIs
  <2>3. Len(a) <= Len(a \o b)
    BY <1>1, <2>2
  <2> QED  BY <2>1, <2>3 DEF IsPrefix
<1>3. ASSUME Len(a) > 0, Len(b) > 0, IsPrefix(a, b) PROVE a[1] = b[1]
  <2> DEFINE k == Len(a)
             p == SubSeq(b, 1, k)
  <2>1. k <= Len(b) /\ p = a
    <3>1. SubSeq(a, 1, k) = a
      BY SubSeqFull DEF Text
    <3> QED  BY <1>3, <3>1 DEF IsPrefix
  <2>2. \A i \in 1 .. k : b[i] \in Lexemes
    <3>1. \A i \in 1 .. Len(b) : b[i] \in Lexemes
      BY TextIs
    <3> QED  BY <1>1, <2>1, <3>1
  <2>3. \A i \in 1 .. k - 1 + 1 : p[i] = b[1 + i - 1]
    BY <1>1, <2>2, SubSeqProperties
  <2>4. 1 \in 1 .. k - 1 + 1 /\ 1 + 1 - 1 = 1
    BY <1>1, <1>3
  <2> HIDE DEF p, k
  <2>5. p[1] = b[1]
    BY <2>3, <2>4
  <2> QED  BY <2>1, <2>5
<1> QED  BY <1>2, <1>3

LEMMA KindOfCall ==
  ASSUME NEW f \in Functions, ~InAngles(f.class, "::"),
         f.kind \in {"Constructor", "Destructor", "Deduced"}
  PROVE  KindOfUntyped(Call(f)) =
           IF /\ f.kind \in {"Constructor", "Deduced"}
              /\ \/ NamesDestructor(f.class)
                 \/ \E i \in DOMAIN f.args : NamesDestructor(f.args[i])
           THEN "Destructor" ELSE f.kind
<1> DEFINE ln == LastName(f.class)
           l == <<"(">>
           j == Join(f.args)
           r == <<")">>
           s == f.suffix
           lnl == ln \o l
<1>1. /\ ln \in Text /\ Len(ln) \in Nat /\ Len(ln) > 0 /\ ln[1] # "operator"
  <2>1. ln # << >> /\ ln[1] # "operator"
    BY FunctionIs, TextsAssumption
  <2>2. ln \in Text
    BY PartsAre, LastNameIs
  <2> QED  BY <2>1, <2>2, EmptySeq, TextIs DEF Text
<1>2. l \in Text /\ r \in Text /\ j \in Text /\ s \in Text /\ Len(l) = 1
  BY TokensAre, CallIs, PartsAre
<1>3. InParens(j) = (l \o j) \o r
  BY DEF InParens
<1> HIDE DEF ln, l, j, r, s
<1>4. /\ lnl \in Text /\ Len(lnl) > 0 /\ lnl[1] = ln[1]
  <2>1. lnl \in Text /\ Len(lnl) = Len(ln) + Len(l) /\ \A i \in 1 .. Len(ln) : lnl[i] = ln[i]
    BY <1>1, <1>2, ConcatIs
  <2> HIDE DEF lnl
  <2>2. 1 \in 1 .. Len(ln)
    BY <1>1
  <2> QED  BY <1>1, <1>2, <2>1, <2>2
<1>5. /\ l \o j \in Text /\ r \o s \in Text /\ j \o (r \o s) \in Text
      /\ (l \o j) \o r \in Text /\ ((l \o j) \o r) \o s \in Text
  <2>1. l \o j \in Text /\ r \o s \in Text
    BY <1>2, ConcatIs
  <2>2. (l \o j) \o r \in Text /\ j \o (r \o s) \in Text
    BY <1>2, <2>1, ConcatIs
  <2>3. ((l \o j) \o r) \o s \in Text
    BY <1>2, <2>2, ConcatIs
  <2> QED  BY <2>1, <2>2, <2>3
<1>6. ((l \o j) \o r) \o s = l \o (j \o (r \o s))
  <2> DEFINE lj == l \o j
             rs == r \o s
  <2>0. lj \in Text /\ rs \in Text
    BY <1>5
  <2> HIDE DEF lj, rs
  <2>1. Bracketed(lj, r, s)
    BY <1>2, <2>0, AsBracketed
  <2>2. Bracketed(l, j, rs)
    BY <1>2, <2>0, AsBracketed
  <2> QED  BY <2>1, <2>2 DEF lj, rs, Bracketed
<1>7. NameAndArgs(f) = Name(f) \o (((l \o j) \o r) \o s)
  BY <1>3 DEF NameAndArgs, j, s
<1>8. CASE f.kind = "Constructor"
  <2>1. Name(f) = ln
    BY <1>8 DEF Name, ln
  <2>2. NameAndArgs(f) = lnl \o (j \o (r \o s))
    <3> DEFINE m == j \o (r \o s)
    <3>1. m \in Text
      BY <1>5
    <3> HIDE DEF m
    <3>2. (ln \o l) \o m = ln \o (l \o m)
      BY <1>1, <1>2, <3>1, Associative
    <3> QED  BY <1>6, <1>7, <2>1, <3>2 DEF m
  <2>3. IsPrefix(lnl, NameAndArgs(f))
    BY <1>4, <1>5, <2>2, PrefixIs
  <2> QED  BY <1>8, <2>3, ComponentsAre, DestructorOfKind DEF lnl, ln, l
<1>9. CASE f.kind = "Destructor"
  BY <1>9, ComponentsAre, DestructorOfKind
<1>10. CASE f.kind = "Deduced"
  <2> DEFINE o == <<"operator">>
             e == InParens(<< >>)
             m == ((l \o j) \o r) \o s
             em == e \o m
             z == (o \o e) \o m
  <2>1. Name(f) = o \o e
    BY <1>10 DEF Name
  <2>2. o \in Text /\ Len(o) = 1 /\ o[1] = "operator" /\ e \in Text
    <3>1. e \in Text
      BY TokensAre, DestructorInParens
    <3> QED  BY <3>1, TokensAre, DestructorInToken
  <2>3. m \in Text
    BY <1>5
  <2>4. NameAndArgs(f) = z
    BY <1>7, <2>1
  <2> HIDE DEF o, e, m
  <2>5. em \in Text /\ z = o \o em
    BY <2>2, <2>3, ConcatIs, Associative
  <2> HIDE DEF z, em
  <2>6. z \in Text /\ Len(z) > 0 /\ z[1] = "operator"
    <3>1. /\ o \o em \in Text /\ Len(o \o em) = Len(o) + Len(em) /\ Len(em) \in Nat
          /\ \A i \in 1 .. Len(o) : (o \o em)[i] = o[i]
      BY <2>2, <2>5, ConcatIs
    <3>2. Len(o \o em) > 0
      BY <2>2, <3>1
    <3>3. (o \o em)[1] = "operator"
      BY <2>2, <3>1
    <3> QED  BY <2>5, <3>1, <3>2, <3>3
  <2>7. ~IsPrefix(lnl, NameAndArgs(f))
    BY <1>1, <1>4, <2>4, <2>6, PrefixIs
  <2> QED  BY <1>10, <2>7, ComponentsAre, DestructorOfKind DEF lnl, ln, l
<1> QED  BY <1>8, <1>9, <1>10

-----------------------------------------------------------------------------
(* The inductive invariant: nothing of what the parentheses hold is lost   *)
(* while it is split, and the arguments split off are the first of those   *)
(* declared, the others still joined, if none has a comma between angles.  *)
KeptWhole(f) ==
  f.kind # "ReturnsFunction" /\ \A i \in DOMAIN f.args : ~InAngles(f.args[i], ",")
ArgsLeft == SubSeq(func.args, Len(theArgs) + 1, Len(func.args))

Splitting ==
  /\ theArgs \in Seq(Text) /\ argsAsOneString \in Text
  /\ Between(func) = IF theArgs = << >> THEN argsAsOneString
                     ELSE Join(theArgs) \o <<",">> \o argsAsOneString
  /\ KeptWhole(func) => /\ theArgs \o ArgsLeft = func.args /\ ArgsLeft # << >>
                        /\ argsAsOneString = Join(ArgsLeft)
ArgsRead ==
  /\ Join(theArgs) = Between(func)
  /\ KeptWhole(func) => theArgs = func.args

ReadingInv ==
  /\ func \in Functions
  /\ stage = "args" => theArgs = << >>
  /\ stage = "split" => Splitting
  /\ stage \in {"return", "done"} => ArgsRead
  /\ stage = "done" =>
       /\ returnType = BareReturnType(unmangled)
       /\ kind = ClassifyFunctionKind(unmangled, returnType)

LEMMA WholeArgsAre ==
  ASSUME NEW f \in Functions, KeptWhole(f)
  PROVE  \A i \in 1 .. Len(f.args) : Unbroken(f.args[i])
<1> SUFFICES ASSUME NEW i \in 1 .. Len(f.args) PROVE Unbroken(f.args[i])
  OBVIOUS
<1>1. f.args[i] \in Types /\ i \in DOMAIN f.args
  BY FunctionIs
<1>2. ~InAngles(f.args[i], ",")
  BY <1>1 DEF KeptWhole
<1> DEFINE t == f.args[i]
<1>3. t \in Types
  BY <1>1
<1> HIDE DEF t
<1>4. Nested(t) /\ \A n \in Outside(t, ",") : Angles(t)[n] # 0
  BY <1>3, TextsAssumption
<1>5. \A n \in Outside(t, ",") : n \in DOMAIN t /\ t[n] = ","
  BY DEF Outside
<1>6. Outside(t, ",") = {}
  BY <1>2, <1>4, <1>5 DEF InAngles, t
<1> QED  BY <1>4, <1>6 DEF Unbroken, t

LEMMA FindArgsSplits ==
  ASSUME func \in Functions, theArgs = << >>, FindArgs
  PROVE  Splitting'
<1>1. /\ argsAsOneString' = Between(func) /\ Between(func) \in Text
      /\ theArgs' = << >> /\ func' = func
  BY BetweenIs DEF FindArgs, unmangled
<1>2. << >> \in Seq(Text) /\ Len(<< >>) = 0
  BY EmptySeq
<1>3. func.args \in Seq(Text) /\ func.args # << >>
  BY PartsAre, FunctionIs
<1>4. SubSeq(func.args, 0 + 1, Len(func.args)) = func.args
  BY <1>3, SubSeqFull
<1>5. << >> \o func.args = func.args
  BY <1>3, ConcatEmptySeq
<1>6. ArgsLeft' = func.args
  BY <1>1, <1>2, <1>4 DEF ArgsLeft
<1>7. KeptWhole(func) => Between(func) = Join(func.args)
  BY DEF KeptWhole, Between
<1> QED  BY <1>1, <1>2, <1>3, <1>5, <1>6, <1>7 DEF Splitting

(* The arguments left, with the first of them split off.                   *)
LEMMA LeftAre ==
  ASSUME func \in Functions, Splitting, KeptWhole(func)
  PROVE  /\ ArgsLeft \in Seq(Text) /\ ArgsLeft # << >>
         /\ \A i \in 1 .. Len(ArgsLeft) : Unbroken(ArgsLeft[i])
         /\ Len(func.args) = Len(theArgs) + Len(ArgsLeft)
         /\ Len(theArgs) \in Nat /\ Len(ArgsLeft) \in Nat \ {0}
         /\ \A i \in 1 .. Len(theArgs) : func.args[i] = theArgs[i]
         /\ \A i \in 1 .. Len(ArgsLeft) : func.args[Len(theArgs) + i] = ArgsLeft[i]
<1> DEFINE as == func.args
           ts == theArgs
           ls == ArgsLeft
           k == Len(ts)
           N == Len(as)
<1>1. as \in Seq(Text) /\ \A i \in 1 .. N : Unbroken(as[i])
  BY PartsAre, WholeArgsAre
<1>2. ts \in Seq(Text) /\ ts \o ls = as /\ ls # << >> /\ ls = SubSeq(as, k + 1, N)
  BY DEF Splitting, ArgsLeft
<1>3. k \in Nat /\ N \in Nat /\ \A i \in 1 .. N : as[i] \in Text
  BY <1>1, <1>2
<1> HIDE DEF as, ts, ls, k, N
<1>4. ls \in Seq(Text)
  <2>1. ASSUME NEW i \in k + 1 .. N PROVE as[i] \in Text
    <3>1. i \in 1 .. N
      BY <1>3
    <3> QED  BY <1>3, <3>1
  <2>2. k + 1 \in Int /\ N \in Int
    BY <1>3
  <2>3. SubSeq(as, k + 1, N) \in Seq(Text)
    BY <2>1, <2>2, SubSeqProperties
  <2> QED  BY <1>2, <2>3
<1>5. Len(ls) \in Nat \ {0}
  BY <1>2, <1>4, EmptySeq
<1>6. Len(as) = k + Len(ls) /\ \A i \in 1 .. Len(as) :
        as[i] = IF i <= k THEN ts[i] ELSE ls[i - k]
  <2>1. Len(ts \o ls) = k + Len(ls) /\ \A i \in 1 .. k + Len(ls) :
          (ts \o ls)[i] = IF i <= k THEN ts[i] ELSE ls[i - k]
    BY <1>2, <1>4, ConcatProperties DEF k
  <2> QED  BY <1>2, <2>1
<1>7. \A i \in 1 .. k : as[i] = ts[i]
  <2>1. \A i \in 1 .. k : i \in 1 .. Len(as) /\ i <= k
    BY <1>3, <1>5, <1>6
  <2> QED  BY <1>6, <2>1
<1>8. ASSUME NEW i \in 1 .. Len(ls) PROVE as[k + i] = ls[i] /\ k + i \in 1 .. N
  <2> DEFINE j == k + i
  <2>1. j \in 1 .. Len(as) /\ ~(j <= k) /\ j - k = i
    BY <1>3, <1>5, <1>6
  <2> HIDE DEF j
  <2>2. as[j] = ls[i]
    BY <1>6, <2>1
  <2> QED  BY <2>1, <2>2 DEF N, j
<1>9. \A i \in 1 .. Len(ls) : Unbroken(ls[i])
  BY <1>1, <1>8
<1> QED  BY <1>2, <1>3, <1>4, <1>5, <1>6, <1>7, <1>8, <1>9 DEF as, ts, ls, k

LEMMA ItemsOfSubSeq ==
  ASSUME NEW s, NEW m \in Int, NEW n \in Int, \A i \in m .. n : s[i] \in Text
  PROVE  \A i \in 1 .. n - m + 1 : SubSeq(s, m, n)[i] = s[m + i - 1]
<1> DEFINE S == Text
<1> HIDE DEF S
<1>1. \A i \in m .. n : s[i] \in S
  BY DEF S
<1>2. /\ SubSeq(s, m, n) \in Seq(S)
      /\ Len(SubSeq(s, m, n)) = IF m <= n THEN n - m + 1 ELSE 0
      /\ \A i \in 1 .. n - m + 1 : SubSeq(s, m, n)[i] = s[m + i - 1]
  BY <1>1, SubSeqProperties
<1> QED  BY <1>2

LEMMA SplitOffSplits ==
  ASSUME func \in Functions, Splitting, SplitOff
  PROVE  Splitting'
<1> DEFINE rest == argsAsOneString
           c == Comma
           p == SubSeq(rest, 1, c - 1)
           q == SubSeq(rest, c + 1, Len(rest))
           comma == <<",">>
           ts == theArgs
<1>1. /\ rest \in Text /\ c # 0 /\ ts \in Seq(Text)
      /\ theArgs' = Append(ts, p) /\ argsAsOneString' = q /\ func' = func
  BY DEF Splitting, SplitOff
<1>2. p \in Text /\ q \in Text /\ rest = p \o comma \o q
  <2>1. c \in 1 .. Len(rest) /\ rest[c] = ","
    BY <1>1, FirstTopIs DEF Comma
  <2> HIDE DEF rest, c
  <2> QED  BY <1>1, <2>1, TokensAre, CutAtToken
<1>3. Between(func) = IF ts = << >> THEN rest ELSE Join(ts) \o comma \o rest
  BY DEF Splitting
<1>4. KeptWhole(func) =>
        /\ ArgsLeft \in Seq(Text) /\ ArgsLeft # << >> /\ rest = Join(ArgsLeft)
        /\ \A i \in 1 .. Len(ArgsLeft) : Unbroken(ArgsLeft[i])
  BY LeftAre DEF Splitting
<1>5. ASSUME KeptWhole(func)
      PROVE  Len(ArgsLeft) # 1 /\ p = ArgsLeft[1] /\ q = Join(Tail(ArgsLeft))
  <2>1. /\ Len(ArgsLeft) = 1 => c = 0
        /\ Len(ArgsLeft) # 1 => p = ArgsLeft[1] /\ q = Join(Tail(ArgsLeft))
    BY <1>4, <1>5, FirstOfJoined DEF Comma
  <2> QED  BY <1>1, <2>1
<1>6. comma \in Text
  BY TokensAre
<1> HIDE DEF rest, c, p, q, comma, ts
<1>7. /\ Append(ts, p) \in Seq(Text) /\ Append(ts, p) # << >>
      /\ Join(Append(ts, p)) = IF ts = << >> THEN p ELSE Join(ts) \o comma \o p
  BY <1>1, <1>2, JoinAppend, AppendProperties DEF comma
<1>8. Between(func) = Join(Append(ts, p)) \o comma \o q
  <2>1. CASE ts = << >>
    BY <1>2, <1>3, <1>7, <2>1
  <2>2. CASE ts # << >>
    <3> DEFINE j == Join(ts)
               jc == j \o comma
               pc == p \o comma
    <3>1. j \in Text
      BY <1>1, JoinIsText
    <3> HIDE DEF j
    <3>2. jc \in Text /\ pc \in Text
      BY <1>2, <1>6, <3>1, ConcatIs
    <3>3. (jc \o p) \o comma = jc \o (p \o comma)
      <4> HIDE DEF jc
      <4>1. Bracketed(jc, p, comma)
        BY <1>2, <1>6, <3>2, AsBracketed
      <4> QED  BY <4>1 DEF Bracketed
    <3>4. (jc \o pc) \o q = jc \o (pc \o q)
      <4> HIDE DEF jc, pc
      <4>1. Bracketed(jc, pc, q)
        BY <1>2, <3>2, AsBracketed
      <4> QED  BY <4>1 DEF Bracketed
    <3> QED  BY <1>2, <1>3, <1>7, <2>2, <3>3, <3>4 DEF j
  <2> QED  BY <2>1, <2>2
<1>9. ASSUME KeptWhole(func)
      PROVE  /\ Append(ts, p) \o ArgsLeft' = func.args /\ ArgsLeft' # << >>
             /\ q = Join(ArgsLeft')
  <2> DEFINE ls == ArgsLeft
             as == func.args
             k == Len(ts)
             N == Len(as)
             more == Append(ts, p)
             r == Tail(ls)
  <2>1. /\ ls \in Seq(Text) /\ N = k + Len(ls) /\ k \in Nat /\ Len(ls) \in Nat \ {0}
        /\ \A i \in 1 .. k : as[i] = ts[i]
        /\ \A i \in 1 .. Len(ls) : as[k + i] = ls[i]
    BY <1>9, LeftAre DEF ts
  <2>2. as \in Seq(Text)
    BY PartsAre
  <2>3. ArgsLeft' = SubSeq(as, Len(more) + 1, N)
    BY <1>1 DEF ArgsLeft
  <2>4. Len(ls) # 1 /\ p = ls[1] /\ q = Join(r)
    BY <1>5, <1>9
  <2> HIDE DEF ls, as
  <2>5. /\ r \in Seq(Text) /\ Len(r) = Len(ls) - 1 /\ Len(r) \in Nat \ {0}
        /\ \A i \in 1 .. Len(r) : r[i] = ls[i + 1]
    <3>1. /\ r \in Seq(Text) /\ Len(r) = Len(ls) - 1
          /\ \A i \in 1 .. Len(ls) - 1 : r[i] = ls[i + 1]
      BY <2>1
    <3> HIDE DEF r
    <3> QED  BY <2>1, <2>4, <3>1
  <2> HIDE DEF r
  <2>6. /\ more \in Seq(Text) /\ Len(more) = k + 1 /\ more[k + 1] = p
        /\ \A i \in 1 .. k : more[i] = ts[i]
    BY <1>1, <1>2, AppendProperties
  <2> HIDE DEF more, k, N
  <2>7. more \o r = as
    <3> DEFINE m == more \o r
    <3>1. /\ m \in Seq(Text) /\ Len(m) = Len(more) + Len(r)
          /\ \A i \in 1 .. Len(more) + Len(r) :
               m[i] = IF i <= Len(more) THEN more[i] ELSE r[i - Len(more)]
      BY <2>5, <2>6, ConcatProperties
    <3> HIDE DEF m
    <3>2. Len(m) = N /\ \A i \in 1 .. N : m[i] = IF i <= k + 1 THEN more[i] ELSE r[i - (k + 1)]
      <4>1. Len(more) + Len(r) = N
        BY <2>1, <2>5, <2>6
      <4> QED  BY <2>6, <3>1, <4>1
    <3>3. ASSUME NEW i \in 1 .. N PROVE m[i] = as[i]
      <4>1. CASE i \in 1 .. k
        <5>1. i <= k + 1
          BY <2>1, <4>1
        <5> QED  BY <2>1, <2>6, <3>2, <4>1, <5>1
      <4>2. CASE i = k + 1
        <5>1. 1 \in 1 .. Len(ls)
          BY <2>1
        <5>2. as[k + 1] = p
          BY <2>1, <2>4, <5>1
        <5>3. k + 1 <= k + 1
          BY <2>1
        <5> QED  BY <2>6, <3>2, <4>2, <5>2, <5>3
      <4>3. CASE i > k + 1
        <5> DEFINE j == i - (k + 1)
        <5>1. j \in 1 .. Len(r) /\ j + 1 \in 1 .. Len(ls) /\ k + (j + 1) = i /\ ~(i <= k + 1)
          BY <2>1, <2>5, <4>3
        <5>2. m[i] = r[j]
          BY <3>2, <5>1
        <5> HIDE DEF j
        <5>3. r[j] = ls[j + 1]
          BY <2>5, <5>1
        <5>4. as[k + (j + 1)] = ls[j + 1]
          BY <2>1, <5>1
        <5> QED  BY <5>1, <5>2, <5>3, <5>4
      <4>4. i \in 1 .. k \/ i = k + 1 \/ i > k + 1
        BY <2>1
      <4> QED  BY <4>1, <4>2, <4>3, <4>4
    <3>4. m = as
      BY <2>2, <3>1, <3>2, <3>3, SeqEqual DEF N
    <3> QED  BY <3>4 DEF m
  <2>8. SubSeq(as, Len(more) + 1, N) = r
    <3> DEFINE o == Len(more)
               b == SubSeq(as, o + 1, N)
    <3>1. /\ o \in Nat /\ N \in Nat /\ N - (o + 1) + 1 = Len(r) /\ o + 1 <= N
          /\ \A i \in o + 1 .. N : as[i] \in Text
      <4>1. N \in Nat /\ Len(more) = k + 1 /\ k \in Nat /\ N = k + 1 + Len(r)
        BY <2>1, <2>5, <2>6
      <4>2. as \in [1 .. N -> Text]
        BY <2>2, LenProperties DEF N
      <4>3. \A i \in o + 1 .. N : i \in 1 .. N
        BY <4>1
      <4>4. o \in Nat /\ N \in Nat /\ N - (o + 1) + 1 = Len(r) /\ o + 1 <= N
        BY <2>5, <4>1
      <4> QED  BY <4>2, <4>3, <4>4
    <3>2. b \in Seq(Text) /\ Len(b) = Len(r)
          /\ \A i \in 1 .. N - (o + 1) + 1 : b[i] = as[o + 1 + i - 1]
      <4> HIDE DEF o
      <4>1. o + 1 \in Int /\ N \in Int
        BY <3>1
      <4>2. b \in Seq(Text) /\ Len(b) = IF o + 1 <= N THEN N - (o + 1) + 1 ELSE 0
        BY <3>1, <4>1, SubSeqProperties
      <4>3. \A i \in 1 .. N - (o + 1) + 1 : b[i] = as[o + 1 + i - 1]
        <5> DEFINE u == o + 1
        <5>1. u \in Int /\ N \in Int /\ \A i \in u .. N : as[i] \in Text
          BY <3>1, <4>1
        <5> HIDE DEF u
        <5>2. \A i \in 1 .. N - u + 1 : SubSeq(as, u, N)[i] = as[u + i - 1]
          BY <5>1, ItemsOfSubSeq
        <5> QED  BY <5>2 DEF u
      <4> QED  BY <3>1, <4>2, <4>3
    <3> HIDE DEF b
    <3>3. ASSUME NEW i \in 1 .. Len(r) PROVE b[i] = r[i]
      <4>1. o + 1 + i - 1 = k + (i + 1) /\ i + 1 \in 1 .. Len(ls) /\ i \in 1 .. N - (o + 1) + 1
        BY <2>1, <2>5, <2>6, <3>1
      <4>2. b[i] = as[o + 1 + i - 1]
        BY <3>2, <4>1
      <4>3. as[k + (i + 1)] = ls[i + 1] /\ r[i] = ls[i + 1]
        BY <2>1, <2>5, <4>1
      <4> QED  BY <4>1, <4>2, <4>3
    <3>4. b = r
      BY <2>5, <3>2, <3>3, SeqEqual
    <3> QED  BY <3>4 DEF b
  <2>9. r # << >>
    <3>1. Len(<< >>) = 0
      OBVIOUS
    <3> QED  BY <2>5, <3>1
  <2>10. ArgsLeft' = r
    BY <2>3, <2>8
  <2> QED  BY <2>4, <2>7, <2>9, <2>10 DEF more, as
<1>10. /\ theArgs' \in Seq(Text) /\ argsAsOneString' \in Text
       /\ Between(func') = Join(theArgs') \o <<",">> \o argsAsOneString' /\ theArgs' # << >>
  BY <1>1, <1>2, <1>7, <1>8 DEF comma
<1>11. KeptWhole(func') => /\ theArgs' \o ArgsLeft' = func'.args /\ ArgsLeft' # << >>
                           /\ argsAsOneString' = Join(ArgsLeft')
  BY <1>1, <1>9
<1> QED  BY <1>10, <1>11 DEF Splitting

LEMMA LastArgReads ==
  ASSUME func \in Functions, Splitting, LastArg
  PROVE  ArgsRead'
<1> DEFINE rest == argsAsOneString
           ts == theArgs
<1>1. /\ rest \in Text /\ ts \in Seq(Text) /\ Comma = 0
      /\ theArgs' = Append(ts, rest) /\ func' = func
  BY DEF Splitting, LastArg
<1>2. Between(func) = IF ts = << >> THEN rest ELSE Join(ts) \o <<",">> \o rest
  BY DEF Splitting
<1>3. Join(Append(ts, rest)) = Between(func)
  <2> HIDE DEF rest, ts
  <2> QED  BY <1>1, <1>2, JoinAppend
<1>4. ASSUME KeptWhole(func) PROVE Append(ts, rest) = func.args
  <2> DEFINE ls == ArgsLeft
             as == func.args
             more == Append(ts, rest)
             k == Len(ts)
  <2>1. /\ ls \in Seq(Text) /\ Len(as) = k + Len(ls) /\ k \in Nat
        /\ \A i \in 1 .. k : as[i] = ts[i]
        /\ \A i \in 1 .. Len(ls) : as[k + i] = ls[i]
    BY <1>4, LeftAre
  <2>2. Len(ls) = 1 /\ rest = ls[1]
    <3>1. /\ ls # << >> /\ (\A i \in 1 .. Len(ls) : Unbroken(ls[i])) /\ rest = Join(ls)
      BY <1>4, LeftAre DEF Splitting
    <3>2. /\ Len(ls) = 1 => rest = ls[1]
          /\ Len(ls) # 1 => Comma # 0
      BY <2>1, <3>1, FirstOfJoined DEF Comma
    <3> QED  BY <1>1, <3>2
  <2>3. as \in Seq(Text)
    BY PartsAre
  <2> HIDE DEF ls, as, rest, ts
  <2>4. /\ more \in Seq(Text) /\ Len(more) = k + 1 /\ more[k + 1] = rest
        /\ \A i \in 1 .. k : more[i] = ts[i]
    BY <1>1, AppendProperties
  <2> HIDE DEF more, k
  <2>5. as[k + 1] = ls[1] /\ Len(as) = k + 1
    <3>1. 1 \in 1 .. Len(ls)
      BY <2>2
    <3>2. as[k + 1] = ls[1]
      BY <2>1, <3>1
    <3>3. Len(as) = k + 1
      BY <2>1, <2>2
    <3> QED  BY <3>2, <3>3
  <2>6. \A i \in 1 .. k + 1 : i \in 1 .. k \/ i = k + 1
    BY <2>1
  <2>7. \A i \in 1 .. k + 1 : more[i] = as[i]
    BY <2>1, <2>2, <2>4, <2>5, <2>6
  <2>8. more = as
    BY <2>3, <2>4, <2>5, <2>7, SeqEqual
  <2> QED  BY <2>8 DEF more, as
<1> QED  BY <1>1, <1>3, <1>4 DEF ArgsRead

LEMMA ReadingInitially ==
  ASSUME SignatureInit
  PROVE  ReadingInv
<1> QED  BY DEF SignatureInit, ReadingInv

LEMMA ReadingStep ==
  ASSUME ReadingInv, [SignatureNext]_signatureVars
  PROVE  ReadingInv'
<1>1. CASE FindArgs
  <2>1. Splitting'
    BY <1>1, FindArgsSplits DEF ReadingInv, FindArgs
  <2>2. stage' = "split" /\ func' = func
    BY <1>1 DEF FindArgs
  <2> QED  BY <2>1, <2>2 DEF ReadingInv
<1>2. CASE SplitOff
  <2>1. Splitting'
    BY <1>2, SplitOffSplits DEF ReadingInv, SplitOff
  <2>2. stage' = "split" /\ func' = func
    BY <1>2 DEF SplitOff
  <2> QED  BY <2>1, <2>2 DEF ReadingInv
<1>3. CASE LastArg
  <2>1. ArgsRead'
    BY <1>3, LastArgReads DEF ReadingInv, LastArg
  <2>2. stage' = "return" /\ func' = func
    BY <1>3 DEF LastArg
  <2> QED  BY <2>1, <2>2 DEF ReadingInv
<1>4. CASE ExtractReturnTypeAndKind
  <2>1. /\ stage = "return" /\ stage' = "done" /\ func' = func /\ theArgs' = theArgs
        /\ returnType' = BareReturnType(unmangled)
        /\ kind' = ClassifyFunctionKind(unmangled, BareReturnType(unmangled))
    BY <1>4 DEF ExtractReturnTypeAndKind
  <2>2. unmangled' = unmangled
    BY <2>1 DEF unmangled
  <2>3. func \in Functions /\ ArgsRead
    BY <2>1 DEF ReadingInv
  <2>4. ArgsRead'
    BY <2>1, <2>3 DEF ArgsRead
  <2>5. /\ returnType' = BareReturnType(unmangled')
        /\ kind' = ClassifyFunctionKind(unmangled', returnType')
    BY <2>1, <2>2
  <2> QED  BY <2>1, <2>3, <2>4, <2>5 DEF ReadingInv
<1>5. CASE UNCHANGED signatureVars
  <2>1. /\ func' = func /\ stage' = stage /\ argsAsOneString' = argsAsOneString
        /\ theArgs' = theArgs /\ returnType' = returnType /\ kind' = kind
    BY <1>5 DEF signatureVars
  <2>2. Splitting' = Splitting /\ ArgsRead' = ArgsRead /\ unmangled' = unmangled
    BY <2>1 DEF Splitting, ArgsLeft, ArgsRead, unmangled
  <2> QED  BY <2>1, <2>2 DEF ReadingInv
<1> QED  BY <1>1, <1>2, <1>3, <1>4, <1>5 DEF SignatureNext, Read

LEMMA Reading == SignatureSpec => []ReadingInv
<1>1. SignatureInit => ReadingInv
  BY ReadingInitially
<1>2. ReadingInv /\ [SignatureNext]_signatureVars => ReadingInv'
  BY ReadingStep
<1> QED  BY <1>1, <1>2, PTL DEF SignatureSpec

(* The arguments read back are those declared, whatever types and classes  *)
(* there are in them and around them: none is lost, and each is whole      *)
(* unless it has a comma between angle brackets                            *)
(* (FunctionExtractor.h:72-130).                                           *)
THEOREM ArgsAreFoundAlways == SignatureSpec => []ArgsAreFound
<1>1. ReadingInv => ArgsAreFound
  BY DEF ReadingInv, ArgsRead, KeptWhole, Between, ArgsAreFound
<1> QED  BY <1>1, Reading, PTL

(* The return type read back is the one declared but for its junk, cut at  *)
(* the first calling convention between angle brackets if it has one, and  *)
(* nothing for a function without one (FunctionExtractor.h:192-279).       *)
THEOREM ReturnTypeIsFoundAlways == SignatureSpec => []ReturnTypeIsFound
<1>1. ReadingInv => ReturnTypeIsFound
  <2> SUFFICES ASSUME ReadingInv, stage = "done" PROVE ReturnTypeIsFound
    BY DEF ReturnTypeIsFound
  <2>1. func \in Functions /\ returnType = BareReturnType(Undecorated(func))
    BY DEF ReadingInv, unmangled
  <2>2. returnType = IF Whole(func) THEN WithoutJunk(Returned(func))
                     ELSE WithoutJunk(BeforeConvention(func.type))
    BY <2>1, BareReturnTypeIs
  <2>3. func.kind \notin {"Regular", "ReturnsFunction"} =>
          WithoutJunk(Returned(func)) = << >>
    BY NothingRemains DEF Returned
  <2> QED  BY <2>2, <2>3 DEF ReturnTypeIsFound, Whole
<1> QED  BY <1>1, Reading, PTL

(* Constructors, destructors, functions of a deduced type and regular ones *)
(* are told apart, unless the class or an argument of one without a type   *)
(* is local to a destructor (FunctionExtractor.h:281-371).                 *)
THEOREM KindIsFoundAlways == SignatureSpec => []KindIsFound
<1>1. ReadingInv => KindIsFound
  <2> SUFFICES ASSUME ReadingInv, stage = "done", func.kind # "ReturnsFunction",
                      ~InAngles(func.class, "::")
               PROVE  kind = IF /\ func.kind \in {"Constructor", "Deduced"}
                                /\ \/ NamesDestructor(func.class)
                                   \/ \E i \in DOMAIN func.args : NamesDestructor(func.args[i])
                             THEN "Destructor" ELSE func.kind
    BY DEF KindIsFound
  <2>1. func \in Functions /\ func.kind \in Kinds
    BY FunctionIs DEF ReadingInv
  <2>2. kind = ClassifyFunctionKind(Undecorated(func), BareReturnType(Undecorated(func)))
    BY DEF ReadingInv, unmangled
  <2>3. CASE func.kind = "Regular"
    <3>1. WithoutJunk(func.type) # << >>
      BY <2>1, FunctionIs, TypeRemains, TextsAssumption
    <3>2. ~Whole(func) => WithoutJunk(BeforeConvention(func.type)) # << >>
      BY <2>1, FunctionIs, BrokenType, TypeRemains DEF Whole
    <3>3. BareReturnType(Undecorated(func)) # << >>
      BY <2>1, <2>3, <3>1, <3>2, BareReturnTypeIs DEF Returned
    <3> QED  BY <2>2, <2>3, <3>3 DEF ClassifyFunctionKind
  <2>4. CASE func.kind # "Regular"
    <3>1. func.kind \in {"Constructor", "Destructor", "Deduced"} /\ Whole(func)
      BY <2>1, <2>4 DEF Kinds, Whole
    <3>2. BareReturnType(Undecorated(func)) = << >>
      BY <2>1, <3>1, BareReturnTypeIs, NothingRemains DEF Returned
    <3>3. /\ FirstTop(Undecorated(func), "cc") # 0
          /\ SubSeq(Undecorated(func), FirstTop(Undecorated(func), "cc") + 1,
                    Len(Undecorated(func))) = Call(func)
      BY <2>1, <3>1, ConventionIs
    <3>4. kind = KindOfUntyped(Call(func))
      BY <2>2, <3>2, <3>3 DEF ClassifyFunctionKind
    <3> QED  BY <2>1, <3>1, <3>4, KindOfCall
  <2> QED  BY <2>3, <2>4
<1> QED  BY <1>1, Reading, PTL
=============================================================================
