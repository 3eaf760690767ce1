----------------------------- MODULE ProcPairing ------------------------------
(***************************************************************************)
(* FunctionExtractor::ExtractFunctions on one .obj: how a function's name, *)
(* its body's length and its line are put together.                        *)
(*                                                                         *)
(* The name and the offset come from the COFF symbol table, sorted by      *)
(* offset; the length from an S_PROC record of .debug$S, which names only  *)
(* a section; the line from the line records that begin a function. The    *)
(* n-th record of a section is taken to be about its n-th name and line,   *)
(* and a counter per section says which n is next. Since a body is the     *)
(* bytes from the name's offset on, as many as the record says, and its    *)
(* relocations are those in that range, the pairing decides both. It also  *)
(* decides which undecorated name, the record's, Extract's filters see.    *)
(***************************************************************************)
EXTENDS Naturals, Sequences, FiniteSets

CONSTANTS
  Sections,  \* the executable sections
  MaxFuncs,  \* bound: functions in the .obj
  MaxStarts  \* bound: line records for one function's first byte

ASSUME MaxFuncsAssumption == MaxFuncs \in Nat /\ MaxStarts \in Nat \ {0}

(* A function of the .obj: IsPlainCFunction and IsCompilerGenerated tell   *)
(* the first two kinds. Only a compiler-generated one (a funclet) has no   *)
(* S_PROC record. Of its line records only those for its first byte        *)
(* ("starts") matter here: usually one, none when it has no lines, more    *)
(* when the lines of several files begin with it.                          *)
Compiled ==
  {c \in [section : Sections, kind : {"c", "generated", "cxx"},
          proc : BOOLEAN, starts : 0 .. MaxStarts] : c.proc \/ c.kind = "generated"}

VARIABLES
  code,       \* the functions, each section's in the order of their offsets,
              \* the first at the beginning of the section
  absolute,   \* the compiler counts codeOffset from the beginning of the
              \* section, as the comments at lines 772-773 and 957 have it,
              \* and not from the beginning of the function
  table,      \* the symbols still to be read that are functions defined in an
              \* executable section, in any order
  names,      \* sectionIndexToOffsetFunction: indices in code
  sorted,     \* the names have been sorted
  records,    \* the S_PROC records still to be walked, by index in code. All
              \* those of a section are in one .debug$S section, so that the
              \* counters, new in each, are one function here
  counter,    \* countOfProcsPerSection
  functions   \* what ExtractFunctions returns

vars == <<code, absolute, table, names, sorted, records, counter, functions>>

given == <<code, absolute>>

Orders(n) == {o \in [1 .. n -> 1 .. n] : \A i, j \in 1 .. n : o[i] = o[j] => i = j}

(* The numbers of a set in increasing order: the k-th is the one that      *)
(* k - 1 of them precede.                                                  *)
Before(S, i) == {j \in S : j < i}
InOrder(S) ==
  [k \in 1 .. Cardinality(S) |-> CHOOSE i \in S : Cardinality(Before(S, i)) = k - 1]

ProcsOf(cs) == InOrder({i \in DOMAIN cs : cs[i].proc})

Init ==
  /\ \E n \in 0 .. MaxFuncs :
       /\ code \in [1 .. n -> Compiled]
       /\ table \in Orders(n)
  /\ absolute \in BOOLEAN
  /\ names = [s \in Sections |-> << >>]
  /\ sorted = FALSE
  /\ records = ProcsOf(code)
  /\ counter = [s \in Sections |-> 0]
  /\ functions = << >>

ReadSymbol ==
  /\ table # << >>
  /\ table' = Tail(table)
  /\ LET i == Head(table) IN names' = [names EXCEPT ![code[i].section] = Append(@, i)]
  /\ UNCHANGED <<given, sorted, records, counter, functions>>

(* Mutation: the names stay in the order of the symbol table. *)
MutantUnsorted ==
  /\ table = << >> /\ ~sorted
  /\ sorted' = TRUE
  /\ UNCHANGED <<given, table, names, records, counter, functions>>

(* std::sort of each section's names, which are all different. *)
SortNames ==
  /\ table = << >> /\ ~sorted
  /\ sorted' = TRUE
  /\ names' = [s \in Sections |-> InOrder({names[s][n] : n \in DOMAIN names[s]})]
  /\ UNCHANGED <<given, table, records, counter, functions>>

InSection(s) == {i \in DOMAIN code : code[i].section = s}

(* How many line records a function has whose codeOffset is 0. The code    *)
(* reads codeOffset as it is written (lineEntry[j].offset), and does not   *)
(* look at the contribution's own offset.                                  *)
Zeros(i) ==
  IF absolute /\ Before(InSection(code[i].section), i) # {} THEN 0 ELSE code[i].starts

(* The records at 0 of the functions of S that come before function i.     *)
ZerosBefore(S, i) == {r \in Before(S, i) \X (1 .. MaxStarts) : r[2] <= Zeros(r[1])}

(* Mutation: the lines of all sections are counted together. *)
MutantAllLines(s, count) ==
  LET found == {i \in DOMAIN code :
                  LET n == Cardinality(ZerosBefore(DOMAIN code, i))
                  IN n <= count /\ count < n + Zeros(i)}
  IN IF found = {} THEN 0 ELSE CHOOSE i \in found : TRUE

(* The function whose line record is the one at offset 0 that count others *)
(* of the section precede ("zeroth == count"); 0 when there are no more.   *)
Line(s, count) ==
  LET found == {i \in InSection(s) :
                  LET n == Cardinality(ZerosBefore(InSection(s), i))
                  IN n <= count /\ count < n + Zeros(i)}
  IN IF found = {} THEN 0 ELSE CHOOSE i \in found : TRUE

Section == code[Head(records)].section
Name == names[Section][counter[Section] + 1]

(* count = countOfProcsPerSection[sectionIndex]++ *)
AtRecord ==
  /\ sorted /\ records # << >>
  /\ counter' = [counter EXCEPT ![Section] = @ + 1]
  /\ UNCHANGED <<given, table, names, sorted>>

HasName == counter[Section] < Len(names[Section])

(* Mutations: "continue" goes on to the next record; the count is not      *)
(* incremented before it.                                                  *)
MutantLosesRecord ==
  /\ AtRecord
  /\ HasName /\ code[Name].kind # "cxx"
  /\ records' = Tail(records)
  /\ UNCHANGED functions
MutantSameName ==
  /\ sorted /\ records # << >>
  /\ HasName /\ code[Name].kind # "cxx"
  /\ UNCHANGED vars

(* "continue": the same record is looked at again, with the next count.    *)
PassOverName ==
  /\ AtRecord
  /\ HasName /\ code[Name].kind # "cxx"
  /\ UNCHANGED <<records, functions>>

(* Mutation: only the names passed over are counted. *)
MutantTakesAgain ==
  /\ sorted /\ records # << >>
  /\ HasName /\ code[Name].kind = "cxx"
  /\ functions' = Append(functions, [name |-> Name, record |-> Head(records),
                                     line |-> Line(Section, counter[Section])])
  /\ records' = Tail(records)
  /\ UNCHANGED <<given, table, names, sorted, counter>>

TakeName ==
  /\ AtRecord
  /\ HasName /\ code[Name].kind = "cxx"
  /\ functions' = Append(functions, [name |-> Name, record |-> Head(records),
                                     line |-> Line(Section, counter[Section])])
  /\ records' = Tail(records)

(* Mutation: a record without a name is not left behind. *)
MutantStaysAtRecord == AtRecord /\ ~HasName /\ UNCHANGED <<records, functions>>

NoName ==
  /\ AtRecord
  /\ ~HasName
  /\ records' = Tail(records)
  /\ UNCHANGED functions

Done == sorted /\ records = << >>
Finished == Done /\ UNCHANGED vars

Next == ReadSymbol \/ SortNames \/ PassOverName \/ TakeName \/ NoName \/ Finished

Spec == Init /\ [][Next]_vars

(* One thread and no calls that wait. *)
FairSpec == Spec /\ WF_vars(Next)

-----------------------------------------------------------------------------
(* In particular the counter of a section stays below its names and its    *)
(* records together, although a record may be looked at many times.        *)
TypeOK ==
  /\ code \in Seq(Compiled) /\ absolute \in BOOLEAN
  /\ table \in Seq(DOMAIN code) /\ records \in Seq(DOMAIN code)
  /\ names \in [Sections -> Seq(DOMAIN code)]
  /\ \A s \in Sections :
       counter[s] <= Len(names[s]) + Cardinality({i \in InSection(s) : code[i].proc})
  /\ functions \in Seq([name : DOMAIN code, record : DOMAIN code,
                        line : DOMAIN code \cup {0}])

(* No function is extracted twice, whatever was passed over in between:    *)
(* twice the same name in funcMap would compare a body with itself under   *)
(* two lengths (FunctionExtractor.h:951-953).                              *)
EachNameOnce ==
  \A m, n \in DOMAIN functions : functions[m].name = functions[n].name => m = n

(* Every C++ function of the .obj is extracted, though records and names   *)
(* do not match one to one: passing over a name costs no record.           *)
NothingLost ==
  Done => \A i \in DOMAIN code :
            code[i].kind = "cxx" => \E n \in DOMAIN functions : functions[n].name = i

(* When the length is right. The body of a C++ function is its own unless  *)
(* a passed-over function with a record of its own comes before it in the  *)
(* same section; so it always is in a section of one function (COMDAT),    *)
(* and funclets, which have no record, disturb nothing.                    *)
BodiesAreOwn ==
  \A n \in DOMAIN functions :
    LET i == functions[n].name
    IN (\A j \in InSection(code[i].section) :
          j < i => code[j].kind = "cxx" \/ ~code[j].proc)
       => functions[n].record = i

(* When the line is right: passing over names moves names and line records *)
(* alike, so all that can disturb it is a function, itself or before it in *)
(* its section, that has not exactly one line record at offset 0. And when *)
(* it never is: where offsets are "absolute within the section", as the    *)
(* comments have it, a "range-based lookup" (FunctionExtractor.h:956-957,  *)
(* 772-773) would find each function its line, but the lookup is for       *)
(* offset 0 and no function but a section's first gets its own.            *)
LinesAreOwn ==
  \A n \in DOMAIN functions :
    LET i == functions[n].name
        others == Before(InSection(code[i].section), i)
    IN /\ (\A j \in others \cup {i} : Zeros(j) = 1) => functions[n].line = i
       /\ absolute /\ others # {} => functions[n].line # i

(* The walk ends, although a record is not always left behind.             *)
WalkEnds == <>Done

-----------------------------------------------------------------------------
(* "filter out extern "C" functions" (FunctionExtractor.h:979), "ignore C  *)
(* functions entirely" (FunctionExtractor.h:982): a C function that is     *)
(* ignored leaves the others with their own bodies. But its record is used *)
(* for the next name, and all the lengths after it move by one.            *)
CFunctionsIgnored ==
  \A n \in DOMAIN functions : functions[n].record = functions[n].name
=============================================================================
