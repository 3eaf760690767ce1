------------------------------ MODULE CoffLayout ------------------------------
(***************************************************************************)
(* CoffReader's constructor on one .obj, and the walk over its symbols in  *)
(* ExtractFunctions.                                                       *)
(*                                                                         *)
(* The file is laid out as a compiler does: header, section headers, for   *)
(* each section its data and its relocations, the symbol table, the string *)
(* table. It may be cut short (a build that was interrupted), or mapping   *)
(* it may fail. A read behind the end of the file gives zeros up to the    *)
(* end of a page, or ends the program.                                     *)
(***************************************************************************)
EXTENDS Offsets, SequencesExt

CONSTANTS
  MaxSections, MaxSymbols, MaxAux, MaxRelocs, \* bounds
  WordMax  \* the largest number NumberOfRelocations can hold

ASSUME BoundsAssumption ==
  {MaxSections, MaxSymbols, MaxAux, MaxRelocs, WordMax} \subseteq Nat

IMAGE_FILE_HEADER == 20
IMAGE_SECTION_HEADER == 40
IMAGE_RELOCATION == 10
IMAGE_SYMBOL == 18

VARIABLES
  relocs,       \* true number of relocations of each section
  auxs,         \* of each symbol, how many auxiliary records follow
  strings,      \* size of the string table, its own size field included
  size,         \* of the file
  view,         \* is the file mapped?
  stage,        \* "header", "sections", "relocations", "symbols", "walk";
                \* "done", "thrown", "dead"
  relocations,  \* offsets kept, section by section
  symbolTable,  \* offsets kept
  walked        \* indices in symbolTable, from 1, that ExtractFunctions comes to

vars == <<relocs, auxs, strings, size, view, stage, relocations, symbolTable, walked>>
file == <<relocs, auxs, strings, size, view>>

-----------------------------------------------------------------------------
(* What the compiler wrote. From WordMax relocations on, the field holds   *)
(* WordMax, IMAGE_SCN_LNK_NRELOC_OVFL is set, and an additional record in  *)
(* front has the number of records, itself included.                       *)
Overflows(i) == relocs[i] >= WordMax
Records(i) == IF Overflows(i) THEN relocs[i] + 1 ELSE relocs[i]
DataSize == 6

Parts == [i \in DOMAIN relocs |-> DataSize + IMAGE_RELOCATION * Records(i)]
DataAt(i) == IMAGE_FILE_HEADER + IMAGE_SECTION_HEADER * Len(relocs) + Sums(Parts)[i - 1]
PointerToRelocations(i) == DataAt(i) + DataSize
PointerToSymbolTable == DataAt(Len(relocs) + 1)
NumberOfSymbols == Len(auxs) + Sums(auxs)[Len(auxs)]
StringTable == PointerToSymbolTable + IMAGE_SYMBOL * NumberOfSymbols
WholeSize == StringTable + strings

RelocationAt(i, k) ==
  PointerToRelocations(i)
    + IMAGE_RELOCATION * (IF Overflows(i) THEN k ELSE k - 1)

(* Where a file may be cut short: at the ends of its parts, or one byte    *)
(* before its end.                                                         *)
Cuts ==
  {0, IMAGE_FILE_HEADER, DataAt(1), PointerToSymbolTable, StringTable, WholeSize - 1, WholeSize}
    \cup {PointerToRelocations(i) : i \in DOMAIN relocs}

Init ==
  /\ relocs \in BoundedSeq(0 .. MaxRelocs, MaxSections)
  /\ auxs \in BoundedSeq(0 .. MaxAux, MaxSymbols)
  /\ strings \in {4, 9}
  /\ size \in Cuts
  /\ view \in BOOLEAN
  /\ stage = "header"
  /\ relocations = << >> /\ symbolTable = << >> /\ walked = << >>

-----------------------------------------------------------------------------
(* The value at an offset: v, as it was written, or, behind the end of the *)
(* file, a zero, if the program does not die of it.                        *)
Reading(offset, v) == IF offset < size THEN v ELSE 0
Throw == stage' = "thrown" /\ UNCHANGED <<relocations, symbolTable, walked>>
Die == stage' = "dead" /\ UNCHANGED <<relocations, symbolTable, walked>>

ReadHeader ==
  /\ stage = "header"
  /\ \/ size < IMAGE_FILE_HEADER /\ Throw
     \/ size >= IMAGE_FILE_HEADER /\ ~view /\ Die
     \/ /\ size >= IMAGE_FILE_HEADER /\ view
        /\ stage' = "sections"
        /\ UNCHANGED <<relocations, symbolTable, walked>>
  /\ UNCHANGED file

(* Only addresses are taken, nothing is read. *)
ReadSections ==
  /\ stage = "sections"
  /\ IF DataAt(1) > PointerToSymbolTable THEN Throw
     ELSE stage' = "relocations" /\ UNCHANGED <<relocations, symbolTable, walked>>
  /\ UNCHANGED file

Index == Len(relocations) + 1
HeaderAt == IMAGE_FILE_HEADER + IMAGE_SECTION_HEADER * (Index - 1)

(* The fields of the section header; zeros if it is not in the file.       *)
Pointer == Reading(HeaderAt, PointerToRelocations(Index))
Flagged == HeaderAt < size /\ Overflows(Index)

(* Where the relocations are, and how many: with the flag, the number in   *)
(* the count record, which counts itself and is skipped.                   *)
Listed ==
  IF Flagged
  THEN [from |-> Pointer + IMAGE_RELOCATION, count |-> Reading(Pointer, Records(Index))]
  ELSE [from |-> Pointer, count |-> Reading(HeaderAt, relocs[Index])]

DieOfRelocations ==
  /\ stage = "relocations" /\ Index <= Len(relocs)
  /\ HeaderAt >= size \/ (Flagged /\ Pointer >= size)
  /\ Die /\ UNCHANGED file

(* Mutation: relocations that end where the symbol table begins are refused. *)
MutantRefusesLast ==
  /\ stage = "relocations" /\ Index <= Len(relocs)
  /\ IF Listed.from + IMAGE_RELOCATION * Listed.count >= PointerToSymbolTable THEN Throw
     ELSE /\ relocations' = Append(relocations,
               [k \in 1 .. Listed.count |-> Listed.from + IMAGE_RELOCATION * (k - 1)])
          /\ UNCHANGED <<stage, symbolTable, walked>>
  /\ UNCHANGED file

ReadRelocations ==
  /\ stage = "relocations" /\ Index <= Len(relocs)
  /\ IF Listed.from + IMAGE_RELOCATION * Listed.count > PointerToSymbolTable THEN Throw
     ELSE /\ relocations' = Append(relocations,
               [k \in 1 .. Listed.count |-> Listed.from + IMAGE_RELOCATION * (k - 1)])
          /\ UNCHANGED <<stage, symbolTable, walked>>
  /\ UNCHANGED file

EndRelocations ==
  /\ stage = "relocations" /\ Index > Len(relocs)
  /\ stage' = "symbols"
  /\ UNCHANGED <<file, relocations, symbolTable, walked>>

DieOfSymbols ==
  /\ stage = "symbols" /\ StringTable >= size
  /\ Die /\ UNCHANGED file

(* Mutation: the end of the string table is not compared with the size. *)
MutantTrustsSizes ==
  /\ stage = "symbols"
  /\ symbolTable' = [k \in 1 .. NumberOfSymbols |-> PointerToSymbolTable + IMAGE_SYMBOL * (k - 1)]
  /\ stage' = "walk"
  /\ UNCHANGED <<file, relocations, walked>>

(* Auxiliary records are kept like symbols, so that an index in this       *)
(* vector is the index a relocation has.                                   *)
ReadSymbols ==
  /\ stage = "symbols"
  /\ IF StringTable + Reading(StringTable, strings) > size THEN Throw
     ELSE /\ symbolTable' =
               [k \in 1 .. NumberOfSymbols |-> PointerToSymbolTable + IMAGE_SYMBOL * (k - 1)]
          /\ stage' = "walk"
          /\ UNCHANGED <<relocations, walked>>
  /\ UNCHANGED file

-----------------------------------------------------------------------------
(* The index of the j-th symbol, and how many records follow one.          *)
Position(j) == j + Sums(auxs)[j - 1]
NumberOfAuxSymbols(i) ==
  IF \E j \in DOMAIN auxs : Position(j) = i
  THEN auxs[CHOOSE j \in DOMAIN auxs : Position(j) = i] ELSE 0

(* Mutation: the auxiliary records are not stepped over. *)
MutantNext == IF walked = << >> THEN 1 ELSE Last(walked) + 1

NextSymbol ==
  IF walked = << >> THEN 1 ELSE Last(walked) + 1 + NumberOfAuxSymbols(Last(walked))

WalkSymbol ==
  /\ stage = "walk" /\ NextSymbol <= Len(symbolTable)
  /\ walked' = Append(walked, NextSymbol)
  /\ UNCHANGED <<file, stage, relocations, symbolTable>>

EndWalk ==
  /\ stage = "walk" /\ NextSymbol > Len(symbolTable)
  /\ stage' = "done"
  /\ UNCHANGED <<file, relocations, symbolTable, walked>>

Finished == stage \in {"done", "thrown", "dead"} /\ UNCHANGED vars

Next ==
  \/ ReadHeader \/ ReadSections
  \/ ReadRelocations \/ DieOfRelocations \/ EndRelocations
  \/ ReadSymbols \/ DieOfSymbols
  \/ WalkSymbol \/ EndWalk
  \/ Finished

Spec == Init /\ [][Next]_vars

-----------------------------------------------------------------------------
Whole == view /\ size = WholeSize
Accepted == stage \in {"walk", "done"}

(* A whole file loses no relocation. After an overflow one record too     *)
(* many is taken, the bytes that follow (CoffReader.h:120-124), and the    *)
(* file is refused, as corrupted, exactly when these reach into the symbol *)
(* table; no other whole file is refused, and none ends the program.       *)
ReachesIntoSymbols(i) ==
  /\ Overflows(i)
  /\ RelocationAt(i, Records(i)) + IMAGE_RELOCATION > PointerToSymbolTable
WholeFilesAreRead ==
  Whole =>
    /\ stage # "dead"
    /\ stage = "thrown" => \E i \in DOMAIN relocs : ReachesIntoSymbols(i)
    /\ Accepted =>
         /\ \A i \in DOMAIN relocs : ~ReachesIntoSymbols(i)
         /\ relocations =
              [i \in DOMAIN relocs |->
                 [k \in 1 .. Records(i) |-> RelocationAt(i, k)]]

(* Whatever was cut off or not, records that are kept when the constructor *)
(* returns are in the file, though every check but the last is against     *)
(* what the header says and not against the size (CoffReader.h:141).       *)
KeptRecordsAreInTheFile ==
  Accepted =>
    /\ \A i \in DOMAIN relocations : \A k \in DOMAIN relocations[i] :
         relocations[i][k] + IMAGE_RELOCATION <= size
    /\ \A k \in DOMAIN symbolTable : symbolTable[k] + IMAGE_SYMBOL <= size

(* ExtractFunctions' walk comes to every symbol and takes no auxiliary     *)
(* record for one (FunctionExtractor.h:744-763).                           *)
SymbolsAreTaken ==
  /\ Range(walked) \subseteq {Position(j) : j \in DOMAIN auxs}
  /\ stage = "done" => Len(walked) = Len(auxs)
=============================================================================
