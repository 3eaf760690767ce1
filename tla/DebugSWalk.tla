------------------------------ MODULE DebugSWalk ------------------------------
(***************************************************************************)
(* FunctionExtractor::ExtractFunctions on one .obj: the two walks over its *)
(* .debug$S sections.                                                      *)
(*                                                                         *)
(* Such a section is a signature and then subsections, each a header and a *)
(* payload, whose length is rounded up to a multiple of four. The pre-pass *)
(* collects line records and, from the section that holds the string table *)
(* and the checksums, the paths those records refer to; the main pass      *)
(* reads the symbols (ProcPairing is what it does with them). They find    *)
(* the end of a section by different tests.                                *)
(***************************************************************************)
EXTENDS Offsets, FiniteSets, SequencesExt

CONSTANTS
  ShortMax,   \* the largest SHORT
  MaxDebugS,  \* bound: sections of the .obj
  MaxSubs,    \* bound: subsections of them all
  Lengths     \* the values of cbLen

(* The number of sections is a WORD. *)
ASSUME SizesAssumption ==
  /\ ShortMax \in Nat /\ MaxDebugS \in 0 .. 2 * ShortMax + 1 /\ MaxSubs \in Nat
  /\ Lengths \subseteq Nat

Signature == 4
Header == 8
Round(n) == ((n + 3) \div 4) * 4

(* "lines" is a LINES subsection whose segment is relocated, so that its   *)
(* code is known; "other" is one that is not, or any other type.           *)
Types == {"symbols", "lines", "strings", "checksums", "other"}
Subsections == [type : Types, cbLen : Lengths]

(* The sections of an .obj: each has its share of the subsections, the     *)
(* last of which may lack the padding of its payload. One that is not      *)
(* .debug$S, or has another signature, has none to walk.                   *)
Split(subs, ends, debugS, padded) ==
  [i \in DOMAIN debugS |->
     [debugS |-> debugS[i], padded |-> padded[i],
      subs |-> SubSeq(subs, ends[i - 1] + 1, ends[i])]]
SectionsOf(subs, n) ==
  {sec \in {Split(subs, ends, debugS, padded) :
              ends \in {e \in [0 .. n -> 0 .. Len(subs)] :
                         /\ e[0] = 0 /\ e[n] = Len(subs)
                         /\ \A i \in 1 .. n : e[i - 1] <= e[i]},
              debugS \in [1 .. n -> BOOLEAN], padded \in [1 .. n -> BOOLEAN]} :
     \A i \in 1 .. n : ~sec[i].debugS => sec[i].padded /\ sec[i].subs = << >>}

VARIABLES
  sections,   \* those of the .obj
  pass,       \* "pre", "main", "done"
  at,         \* the section being walked, i + 1
  p,          \* offset in it of the next header; 0: it is not entered yet
  raw,        \* subsections the pre-pass has collected from this section
  haveFiles,  \* fileChecksumOffsetToPath is not empty
  lines,      \* linesPerSection: which LINES subsection, and is its path known?
  read        \* per pass, what was read as a subsection: <<section, index>>,
              \* index 0 for bytes that are not one

walkVars == <<sections, pass, at, p, raw, haveFiles, lines, read>>

TypesOf(sec) == {sec.subs[k].type : k \in DOMAIN sec.subs}

(* The compiler writes one string table, with the checksums, in one place. *)
OneTable ==
  /\ \A i \in DOMAIN sections :
       "strings" \in TypesOf(sections[i]) <=> "checksums" \in TypesOf(sections[i])
  /\ \A i, j \in DOMAIN sections :
       \A k \in DOMAIN sections[i].subs, m \in DOMAIN sections[j].subs :
         /\ sections[i].subs[k].type = sections[j].subs[m].type
         /\ sections[i].subs[k].type \in {"strings", "checksums"}
         => i = j /\ k = m

WalkInit ==
  /\ \E subs \in BoundedSeq(Subsections, MaxSubs), n \in 0 .. MaxDebugS :
       sections \in SectionsOf(subs, n)
  /\ OneTable
  /\ pass = "pre" /\ at = 1 /\ p = 0
  /\ raw = << >>
  /\ haveFiles = FALSE
  /\ lines = {}
  /\ read = [pre |-> {}, main |-> {}]

-----------------------------------------------------------------------------
(* (SHORT)sectionHeaders.size() *)
Count ==
  LET n == Len(sections) % (2 * (ShortMax + 1))
  IN IF n > ShortMax THEN n - 2 * (ShortMax + 1) ELSE n

(* Mutation: the length is not rounded up. *)
MutantNotRounded(q, sub) == q + Header + sub.cbLen

Next4(q, sub) == q + Header + Round(sub.cbLen)

(* Where the headers are, as the compiler wrote them, and the raw size. *)
Lengthened(sec) == [k \in DOMAIN sec.subs |-> Header + Round(sec.subs[k].cbLen)]
Start(sec, k) == Signature + Sums(Lengthened(sec))[k - 1]
SizeOfRawData(sec) ==
  LET n == Len(sec.subs)
  IN IF n = 0 \/ sec.padded THEN Start(sec, n + 1)
     ELSE Start(sec, n) + Header + sec.subs[n].cbLen

Section == sections[at]
Size == SizeOfRawData(Section)
(* The subsection that begins at p; 0 when none does. *)
Here ==
  IF \E k \in DOMAIN Section.subs : Start(Section, k) = p
  THEN CHOOSE k \in DOMAIN Section.subs : Start(Section, k) = p ELSE 0

Walking(which) == pass = which /\ at <= Count

LeaveSection == at' = at + 1 /\ p' = 0

SkipSection ==
  /\ at <= Count /\ pass # "done" /\ ~Section.debugS
  /\ LeaveSection
  /\ UNCHANGED <<sections, pass, raw, haveFiles, lines, read>>

EnterSection ==
  /\ at <= Count /\ pass # "done" /\ Section.debugS /\ p = 0
  /\ p' = Signature
  /\ raw' = << >>
  /\ UNCHANGED <<sections, pass, at, haveFiles, lines, read>>

(* while (p < end). Bytes that are no subsection would say anything.       *)
PreRead ==
  /\ Walking("pre") /\ p > 0 /\ p < Size
  /\ read' = [read EXCEPT !.pre = @ \cup {<<at, Here>>}]
  /\ IF Here = 0 THEN p' = Size /\ UNCHANGED raw
     ELSE p' = Next4(p, Section.subs[Here]) /\ raw' = Append(raw, Here)
  /\ UNCHANGED <<sections, pass, at, haveFiles, lines>>

Collected(type) == {k \in Range(raw) : Section.subs[k].type = type}

(* Mutation: the paths are looked up before the tables are evaluated. *)
MutantLooksUpFirst ==
  /\ Walking("pre") /\ p >= Size
  /\ haveFiles' = (haveFiles \/ (Collected("strings") # {} /\ Collected("checksums") # {}))
  /\ lines' = lines \cup {[sub |-> <<at, k>>, path |-> haveFiles] : k \in Collected("lines")}
  /\ LeaveSection
  /\ UNCHANGED <<sections, pass, raw, read>>

(* The table is filled once, by the first section that has one; the lines  *)
(* of this section get what is in it now.                                  *)
PreLeave ==
  /\ Walking("pre") /\ p >= Size
  /\ haveFiles' = (haveFiles \/ (Collected("strings") # {} /\ Collected("checksums") # {}))
  /\ lines' = lines \cup {[sub |-> <<at, k>>, path |-> haveFiles'] : k \in Collected("lines")}
  /\ LeaveSection
  /\ UNCHANGED <<sections, pass, raw, read>>

EndPrePass ==
  /\ pass = "pre" /\ at > Count
  /\ pass' = "main" /\ at' = 1
  /\ UNCHANGED <<sections, p, raw, haveFiles, lines, read>>

(* Mutation: the walk goes on behind the end, too. *)
MutantTestsEquality ==
  /\ Walking("main") /\ p > 0
  /\ read' = [read EXCEPT !.main = @ \cup {<<at, Here>>}]
  /\ IF Here # 0 /\ Next4(p, Section.subs[Here]) = Size THEN LeaveSection
     ELSE /\ p' = IF Here = 0 THEN p ELSE Next4(p, Section.subs[Here])
          /\ UNCHANGED at
  /\ UNCHANGED <<sections, pass, raw, haveFiles, lines>>

(* for (;;): the header is read first, and then raw == end and raw > end   *)
(* are tested. Behind the end, the header is followed by raw > end.        *)
MainRead ==
  /\ Walking("main") /\ p > 0
  /\ read' = [read EXCEPT !.main = @ \cup {<<at, Here>>}]
  /\ IF Here = 0 \/ Next4(p, Section.subs[Here]) >= Size THEN LeaveSection
     ELSE p' = Next4(p, Section.subs[Here]) /\ UNCHANGED at
  /\ UNCHANGED <<sections, pass, raw, haveFiles, lines>>

EndMainPass ==
  /\ pass = "main" /\ at > Count
  /\ pass' = "done"
  /\ UNCHANGED <<sections, at, p, raw, haveFiles, lines, read>>

Walked == pass = "done" /\ UNCHANGED walkVars

WalkNext ==
  \/ SkipSection \/ EnterSection
  \/ PreRead \/ PreLeave \/ EndPrePass
  \/ MainRead \/ EndMainPass
  \/ Walked

WalkSpec == WalkInit /\ [][WalkNext]_walkVars

(* One thread and no calls that wait. *)
FairWalkSpec == WalkSpec /\ WF_walkVars(WalkNext)

-----------------------------------------------------------------------------
Fits == Len(sections) <= ShortMax

SubsOf(i) == {<<i, k>> : k \in DOMAIN sections[i].subs}

(* Both passes interpret exactly the subsections, padded or not, one by    *)
(* one, although one tests for the end before it reads and the other after *)
(* (FunctionExtractor.h:810, 921-1029). A section that holds nothing but   *)
(* its signature is the exception, in the main pass alone. When a SHORT    *)
(* cannot count the sections (FunctionExtractor.h:781, 889), both passes   *)
(* read nothing at all.                                                    *)
PassesReadAlike ==
  pass = "done" =>
    IF Fits
    THEN \A i \in DOMAIN sections :
           /\ {r \in read.pre : r[1] = i} = SubsOf(i)
           /\ \/ sections[i].debugS /\ sections[i].subs = << >>
              \/ {r \in read.main : r[1] = i} = SubsOf(i)
    ELSE read = [pre |-> {}, main |-> {}] /\ lines = {}

HasTable(i) == "strings" \in TypesOf(sections[i])

(* A line record gets its path exactly if the tables are in its section,   *)
(* before or after it, or in an earlier one (FunctionExtractor.h:865-883); *)
(* and no record is lost.                                                  *)
PathsFollowTheTable ==
  /\ \A l \in lines : l.path <=> \E i \in 1 .. l.sub[1] : HasTable(i)
  /\ pass # "pre" /\ Fits =>
       {l.sub : l \in lines} =
         {s \in UNION {SubsOf(i) : i \in DOMAIN sections} :
            sections[s[1]].subs[s[2]].type = "lines"}

(* The walk comes to its end whatever the last payload's padding.          *)
WalkEnds == <>(pass = "done")
=============================================================================
