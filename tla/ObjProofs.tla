------------------------------- MODULE ObjProofs -------------------------------
(***************************************************************************)
(* What is read of an .obj, proved for any layout.                         *)
(*                                                                         *)
(* CoffLayout: what CoffReader keeps of a file, and what the walk over its *)
(* symbols takes, for any number of sections, relocations and symbols and  *)
(* wherever the file is cut short. DebugSWalk: what the two passes over    *)
(* its .debug$S sections read, for any sections and subsections. Both say  *)
(* where a record begins by the sums of the lengths before it.             *)
(***************************************************************************)
EXTENDS CoffLayout, DebugSWalk, WellFoundedInduction, NaturalsInduction,
        SequenceTheorems, TLAPS

-----------------------------------------------------------------------------
(* Sums of numbers.                                                        *)

LEMMA Induction ==
  ASSUME NEW S, 0 \in S, \A n \in Nat : n \in S => n + 1 \in S
  PROVE  Nat \subseteq S
<1> SUFFICES ASSUME ~(Nat \subseteq S) PROVE FALSE
  OBVIOUS
<1> DEFINE T == Nat \ S
<1>1. T # {} /\ T \subseteq Nat
  OBVIOUS
<1>2. PICK x \in T : \A y \in T : ~(<<y, x>> \in OpToRel(<, Nat))
  BY <1>1, WFMin, NatLessThanWellFounded
<1>3. \A y \in T : ~(y < x)
  BY <1>2 DEF OpToRel
<1> QED  BY <1>3

LEMMA SumsAre ==
  ASSUME NEW q \in Seq(Nat)
  PROVE  /\ Sums(q)[0] = 0
         /\ \A n \in 0 .. Len(q) : Sums(q)[n] \in Nat
         /\ \A n \in 1 .. Len(q) : Sums(q)[n] = Sums(q)[n - 1] + q[n]
<1> DEFINE N == Len(q)
           Is(f) == f = [n \in 0 .. N |-> IF n = 0 THEN 0 ELSE f[n - 1] + q[n]]
           Good(k, f) == f[0] = 0 /\ \A n \in 1 .. k : f[n] = f[n - 1] + q[n]
           S == {k \in Nat : k <= N => \E f \in [0 .. k -> Nat] : Good(k, f)}
<1>1. N \in Nat /\ \A n \in 1 .. N : q[n] \in Nat
  OBVIOUS
<1> HIDE DEF N
<1>2. 0 \in S
  <2>1. [n \in 0 .. 0 |-> 0] \in [0 .. 0 -> Nat] /\ Good(0, [n \in 0 .. 0 |-> 0])
    OBVIOUS
  <2> QED  BY <2>1
<1>3. ASSUME NEW k \in Nat, k \in S PROVE k + 1 \in S
  <2> SUFFICES ASSUME k + 1 <= N PROVE \E f \in [0 .. k + 1 -> Nat] : Good(k + 1, f)
    <3> HIDE DEF Good
    <3> QED  OBVIOUS
  <2>1. PICK f \in [0 .. k -> Nat] : Good(k, f)
    BY <1>1, <1>3
  <2> DEFINE w == f[k] + q[k + 1]
             g == [n \in 0 .. k + 1 |-> IF n = k + 1 THEN w ELSE f[n]]
  <2>2. w \in Nat
    BY <1>1
  <2>3. g \in [0 .. k + 1 -> Nat]
    BY <2>2
  <2>4. /\ g[0] = f[0] /\ g[k + 1] = w /\ g[k + 1 - 1] = f[k]
        /\ \A n \in 1 .. k : g[n] = f[n] /\ g[n - 1] = f[n - 1]
    OBVIOUS
  <2>5. ASSUME NEW n \in 1 .. k + 1 PROVE g[n] = g[n - 1] + q[n]
    <3> HIDE DEF g
    <3>1. CASE n = k + 1
      BY <2>4, <3>1
    <3>2. CASE n \in 1 .. k
      BY <2>1, <2>4, <3>2
    <3> QED  BY <3>1, <3>2
  <2> HIDE DEF g
  <2> QED  BY <2>1, <2>3, <2>4, <2>5
<1>4. PICK f \in [0 .. N -> Nat] : Good(N, f)
  <2> HIDE DEF S
  <2>1. N \in S
    BY <1>1, <1>2, <1>3, Induction
  <2> QED  BY <1>1, <2>1 DEF S
<1>5. Is(f)
  <2>1. \A n \in 0 .. N : n = 0 \/ n \in 1 .. N
    BY <1>1
  <2> QED  BY <1>4, <2>1
<1>6. Is(Sums(q))
  <2> HIDE DEF Is
  <2>1. Is(CHOOSE h : Is(h))
    BY <1>5
  <2> QED  BY <2>1 DEF Sums, Is, N
<1> DEFINE T == {n \in Nat : n <= N => Sums(q)[n] = f[n]}
<1>7. /\ Sums(q)[0] = 0
      /\ \A n \in 1 .. N : Sums(q)[n] = Sums(q)[n - 1] + q[n]
  <2> DEFINE h == Sums(q)
  <2>1. Is(h)
    BY <1>6
  <2> HIDE DEF h
  <2>2. 0 \in 0 .. N /\ \A n \in 1 .. N : n \in 0 .. N /\ n # 0
    BY <1>1
  <2>3. h[0] = 0 /\ \A n \in 1 .. N : h[n] = h[n - 1] + q[n]
    BY <2>1, <2>2
  <2> QED  BY <2>3 DEF h
<1>8. 0 \in T
  BY <1>4, <1>7
<1>9. ASSUME NEW n \in Nat, n \in T PROVE n + 1 \in T
  <2> SUFFICES ASSUME n + 1 <= N PROVE Sums(q)[n + 1] = f[n + 1]
    OBVIOUS
  <2>1. n + 1 \in 1 .. N /\ n + 1 - 1 = n /\ n <= N
    BY <1>1
  <2> QED  BY <1>4, <1>7, <1>9, <2>1
<1> HIDE DEF T
<1>10. Nat \subseteq T
  BY <1>8, <1>9, Induction
<1>11. \A n \in 0 .. N : Sums(q)[n] \in Nat
  BY <1>1, <1>4, <1>10 DEF T
<1> QED  BY <1>7, <1>11 DEF N

(* The sums of the first m and of the first n, m <= n.                     *)
LEMMA SumsIncrease ==
  ASSUME NEW q \in Seq(Nat), NEW m \in 0 .. Len(q), NEW n \in 0 .. Len(q), m <= n
  PROVE  Sums(q)[m] <= Sums(q)[n]
<1> DEFINE s == Sums(q)
           S == {k \in Nat : m <= k /\ k <= Len(q) => s[m] <= s[k]}
<1>1. /\ Len(q) \in Nat /\ m \in Nat /\ n \in Nat
      /\ \A k \in 1 .. Len(q) : q[k] \in Nat
  OBVIOUS
<1>2. \A k \in 0 .. Len(q) : s[k] \in Nat
  BY SumsAre
<1>3. \A k \in 1 .. Len(q) : s[k] = s[k - 1] + q[k]
  BY SumsAre
<1> HIDE DEF s
<1>4. 0 \in S
  BY <1>1, <1>2
<1>5. ASSUME NEW k \in Nat, k \in S PROVE k + 1 \in S
  <2> SUFFICES ASSUME m <= k + 1, k + 1 <= Len(q) PROVE s[m] <= s[k + 1]
    OBVIOUS
  <2>1. CASE m = k + 1
    BY <1>2, <2>1
  <2>2. CASE m <= k
    <3>1. s[k + 1] = s[k] + q[k + 1] /\ q[k + 1] \in Nat /\ s[k] \in Nat /\ s[m] \in Nat
      BY <1>1, <1>2, <1>3, <2>2
    <3>2. s[m] <= s[k]
      BY <1>1, <1>5, <2>2
    <3> QED  BY <3>1, <3>2
  <2> QED  BY <1>1, <2>1, <2>2
<1> HIDE DEF S
<1>6. Nat \subseteq S
  BY <1>4, <1>5, Induction
<1> QED  BY <1>1, <1>6 DEF S, s


-----------------------------------------------------------------------------
(* CoffLayout: the layout of the file, and what has been read of it.       *)
FileInv ==
  /\ relocs \in Seq(Nat) /\ auxs \in Seq(Nat)
  /\ strings \in Nat \ {0} /\ size \in Nat /\ view \in BOOLEAN

(* The constructor's relocations of a section end where its symbols begin, *)
(* or before it; of a whole file, they are the records of the section.     *)
RelocationsInv ==
  /\ relocations \in Seq(Seq(Nat)) /\ Len(relocations) <= Len(relocs)
  /\ stage \in {"header", "sections"} => relocations = << >>
  /\ stage = "symbols" \/ Accepted => Len(relocations) = Len(relocs)
  /\ \A i \in 1 .. Len(relocations) : \A k \in DOMAIN relocations[i] :
       relocations[i][k] + IMAGE_RELOCATION <= PointerToSymbolTable
  /\ Whole =>
       \A i \in 1 .. Len(relocations) :
         /\ ~ReachesIntoSymbols(i)
         /\ relocations[i] = [k \in 1 .. Records(i) |-> RelocationAt(i, k)]

SymbolsInv ==
  Accepted =>
    /\ symbolTable = [k \in 1 .. NumberOfSymbols |-> PointerToSymbolTable + IMAGE_SYMBOL * (k - 1)]
    /\ StringTable <= size

(* The walk has come to the first symbols, each at its place.              *)
WalkInv ==
  /\ walked \in Seq(Nat) /\ Len(walked) <= Len(auxs)
  /\ \A j \in 1 .. Len(walked) : walked[j] = Position(j)
  /\ ~Accepted => walked = << >>
  /\ stage = "done" => Len(walked) = Len(auxs)

RefusalInv ==
  Whole => stage # "dead" /\ (stage = "thrown" => \E i \in DOMAIN relocs : ReachesIntoSymbols(i))

LayoutInv == FileInv /\ RelocationsInv /\ SymbolsInv /\ WalkInv /\ RefusalInv

LEMMA LayoutIs ==
  ASSUME relocs \in Seq(Nat), auxs \in Seq(Nat)
  PROVE  /\ Len(relocs) \in Nat /\ DOMAIN relocs = 1 .. Len(relocs)
         /\ DataAt(1) = 20 + 40 * Len(relocs)
         /\ \A i \in 1 .. Len(relocs) + 1 : DataAt(i) \in Nat /\ DataAt(i) <= PointerToSymbolTable
         /\ \A i \in 1 .. Len(relocs) :
              /\ relocs[i] \in Nat /\ Records(i) \in Nat
              /\ DataAt(i + 1) = DataAt(i) + 6 + 10 * Records(i)
         /\ PointerToSymbolTable \in Nat /\ NumberOfSymbols \in Nat
         /\ StringTable = PointerToSymbolTable + 18 * NumberOfSymbols
         /\ WholeSize = StringTable + strings
<1> DEFINE N == Len(relocs)
<1>1. N \in Nat /\ DOMAIN relocs = 1 .. N /\ \A i \in 1 .. N : relocs[i] \in Nat
  OBVIOUS
<1>2. \A i \in 1 .. N : Records(i) \in Nat
  BY <1>1 DEF Records
<1>3. Parts = [i \in 1 .. N |-> 6 + 10 * Records(i)]
  BY <1>1 DEF Parts, DataSize, IMAGE_RELOCATION
<1>4. Parts \in Seq(Nat) /\ Len(Parts) = N /\ \A i \in 1 .. N : Parts[i] = 6 + 10 * Records(i)
  <2>1. \A i \in 1 .. N : 6 + 10 * Records(i) \in Nat
    BY <1>2
  <2> HIDE DEF N
  <2> QED  BY <1>1, <1>3, <2>1
<1>5. /\ Sums(Parts)[0] = 0
      /\ \A n \in 0 .. N : Sums(Parts)[n] \in Nat
      /\ \A n \in 1 .. N : Sums(Parts)[n] = Sums(Parts)[n - 1] + Parts[n]
  BY <1>4, SumsAre
<1>6. \A i : DataAt(i) = 20 + 40 * N + Sums(Parts)[i - 1]
  BY DEF DataAt, IMAGE_FILE_HEADER, IMAGE_SECTION_HEADER
<1> HIDE DEF N
<1>7. DataAt(1) = 20 + 40 * N
  BY <1>1, <1>5, <1>6
<1>8. PointerToSymbolTable = 20 + 40 * N + Sums(Parts)[N]
  <2>1. N + 1 - 1 = N
    BY <1>1
  <2> QED  BY <1>6, <2>1 DEF PointerToSymbolTable, N
<1>9. ASSUME NEW i \in 1 .. N + 1 PROVE DataAt(i) \in Nat /\ DataAt(i) <= PointerToSymbolTable
  <2>1. i - 1 \in 0 .. N /\ N \in 0 .. N /\ i - 1 <= N
    BY <1>1
  <2>2. Sums(Parts)[i - 1] <= Sums(Parts)[N]
    BY <1>4, <2>1, SumsIncrease
  <2>3. Sums(Parts)[i - 1] \in Nat /\ Sums(Parts)[N] \in Nat
    BY <1>5, <2>1
  <2> QED  BY <1>1, <1>6, <1>8, <2>2, <2>3
<1>10. ASSUME NEW i \in 1 .. N PROVE DataAt(i + 1) = DataAt(i) + 6 + 10 * Records(i)
  <2>1. Sums(Parts)[i] = Sums(Parts)[i - 1] + (6 + 10 * Records(i)) /\ i + 1 - 1 = i
    BY <1>1, <1>4, <1>5
  <2>2. Sums(Parts)[i - 1] \in Nat /\ Records(i) \in Nat
    <3>1. i - 1 \in 0 .. N
      BY <1>1
    <3> QED  BY <1>2, <1>5, <3>1
  <2> QED  BY <1>1, <1>6, <2>1, <2>2
<1>11. PointerToSymbolTable \in Nat
  BY <1>1, <1>5, <1>8
<1>12. NumberOfSymbols \in Nat
  <2>1. auxs \in Seq(Nat) /\ Len(auxs) \in Nat
    OBVIOUS
  <2>2. Sums(auxs)[Len(auxs)] \in Nat
    BY <2>1, SumsAre
  <2> QED  BY <2>1, <2>2 DEF NumberOfSymbols
<1>13. StringTable = PointerToSymbolTable + 18 * NumberOfSymbols /\ WholeSize = StringTable + strings
  BY DEF StringTable, WholeSize, IMAGE_SYMBOL
<1> QED  BY <1>1, <1>2, <1>7, <1>9, <1>10, <1>11, <1>12, <1>13 DEF N

(* The places of the symbols between the auxiliary records.                *)
LEMMA Positions ==
  ASSUME FileInv
  PROVE  /\ Len(auxs) \in Nat /\ DOMAIN auxs = 1 .. Len(auxs)
         /\ \A j \in 1 .. Len(auxs) : auxs[j] \in Nat
         /\ Position(1) = 1 /\ Position(Len(auxs) + 1) = NumberOfSymbols + 1
         /\ \A j \in 1 .. Len(auxs) + 1 : Position(j) \in Nat
         /\ \A j \in 1 .. Len(auxs) : Position(j + 1) = Position(j) + 1 + auxs[j]
         /\ \A j, k \in 1 .. Len(auxs) + 1 : j < k => Position(j) < Position(k)
<1> DEFINE N == Len(auxs)
           s == Sums(auxs)
<1>1. N \in Nat /\ auxs \in Seq(Nat) /\ DOMAIN auxs = 1 .. N /\ \A j \in 1 .. N : auxs[j] \in Nat
  BY DEF FileInv
<1>2. s[0] = 0 /\ (\A n \in 0 .. N : s[n] \in Nat) /\ \A n \in 1 .. N : s[n] = s[n - 1] + auxs[n]
  BY <1>1, SumsAre
<1>3. (\A j : Position(j) = j + s[j - 1]) /\ NumberOfSymbols = N + s[N]
  BY DEF Position, NumberOfSymbols
<1>4. ASSUME NEW m \in 0 .. N, NEW n \in 0 .. N, m <= n PROVE s[m] <= s[n]
  BY <1>1, <1>4, SumsIncrease
<1> HIDE DEF N, s
<1>5. Position(1) = 1
  <2>1. 1 - 1 = 0
    OBVIOUS
  <2> QED  BY <1>2, <1>3, <2>1
<1>6. Position(N + 1) = NumberOfSymbols + 1
  <2>1. N + 1 - 1 = N /\ s[N] \in Nat
    BY <1>1, <1>2
  <2> QED  BY <1>1, <1>3, <2>1
<1>7. \A j \in 1 .. N + 1 : j \in Nat /\ j - 1 \in 0 .. N
  BY <1>1
<1>8. \A j \in 1 .. N + 1 : Position(j) \in Nat
  BY <1>2, <1>3, <1>7
<1>9. ASSUME NEW j \in 1 .. N PROVE Position(j + 1) = Position(j) + 1 + auxs[j]
  <2>1. j + 1 - 1 = j /\ s[j] = s[j - 1] + auxs[j] /\ s[j - 1] \in Nat /\ auxs[j] \in Nat
    BY <1>1, <1>2, <1>7
  <2> QED  BY <1>3, <2>1
<1>10. ASSUME NEW j \in 1 .. N + 1, NEW k \in 1 .. N + 1, j < k PROVE Position(j) < Position(k)
  <2>1. s[j - 1] <= s[k - 1] /\ s[j - 1] \in Nat /\ s[k - 1] \in Nat
    BY <1>2, <1>4, <1>7, <1>10
  <2> QED  BY <1>3, <1>10, <2>1
<1> QED  BY <1>1, <1>5, <1>6, <1>8, <1>9, <1>10 DEF N

(* A step that leaves the file leaves its layout.                          *)
LEMMA FileStays ==
  ASSUME UNCHANGED file
  PROVE  /\ UNCHANGED <<relocs, auxs, strings, size, view>>
         /\ FileInv => FileInv'
         /\ PointerToSymbolTable' = PointerToSymbolTable /\ NumberOfSymbols' = NumberOfSymbols
         /\ StringTable' = StringTable
         /\ Whole' <=> Whole
         /\ \A i : Position(i)' = Position(i) /\ Records(i)' = Records(i)
         /\ \A i, k : RelocationAt(i, k)' = RelocationAt(i, k)
         /\ \A i : ReachesIntoSymbols(i)' <=> ReachesIntoSymbols(i)
<1>1. UNCHANGED <<relocs, auxs, strings, size, view>>
  BY DEF file
<1>2. FileInv => FileInv'
  BY <1>1 DEF FileInv
<1>3. \A i : (Overflows(i)' <=> Overflows(i)) /\ Records(i)' = Records(i)
  BY <1>1 DEF Overflows, Records
<1>4. Sums(Parts)' = Sums(Parts) /\ Sums(auxs)' = Sums(auxs)
  BY <1>1 DEF Sums, Parts, Records, Overflows
<1>5. \A i : DataAt(i)' = DataAt(i)
  BY <1>1, <1>4 DEF DataAt
<1>6. PointerToSymbolTable' = PointerToSymbolTable
  BY <1>1, <1>4 DEF PointerToSymbolTable, DataAt
<1>7. NumberOfSymbols' = NumberOfSymbols /\ \A i : Position(i)' = Position(i)
  BY <1>1, <1>4 DEF NumberOfSymbols, Position
<1>8. StringTable' = StringTable
  BY <1>6, <1>7 DEF StringTable
<1>9. Whole' <=> Whole
  BY <1>1, <1>8 DEF Whole, WholeSize
<1>10. \A i, k : RelocationAt(i, k)' = RelocationAt(i, k)
  BY <1>3, <1>5 DEF RelocationAt, PointerToRelocations
<1>11. \A i : ReachesIntoSymbols(i)' <=> ReachesIntoSymbols(i)
  BY <1>3, <1>6, <1>10 DEF ReachesIntoSymbols
<1> QED  BY <1>1, <1>2, <1>3, <1>6, <1>7, <1>8, <1>9, <1>10, <1>11


LEMMA LayoutInit == Init => LayoutInv
<1> SUFFICES ASSUME Init PROVE LayoutInv
  OBVIOUS
<1>1. /\ relocs \in BoundedSeq(0 .. MaxRelocs, MaxSections)
      /\ auxs \in BoundedSeq(0 .. MaxAux, MaxSymbols)
      /\ strings \in {4, 9} /\ size \in Cuts /\ view \in BOOLEAN
      /\ stage = "header" /\ relocations = << >> /\ walked = << >>
  BY DEF Init
<1>2. relocs \in Seq(Nat) /\ auxs \in Seq(Nat)
  <2>1. ASSUME NEW m \in Nat, NEW n \in Nat, NEW q \in BoundedSeq(0 .. m, n)
        PROVE  q \in Seq(Nat)
    <3>1. PICK k \in 0 .. n : q \in [1 .. k -> 0 .. m]
      BY DEF BoundedSeq, SeqOf
    <3>2. k \in Nat /\ q \in [1 .. k -> Nat]
      BY <3>1
    <3> QED  BY <3>2
  <2> QED  BY <1>1, <2>1, BoundsAssumption DEF BoundsAssumption
<1>3. size \in Nat
  <2>1. /\ Len(relocs) \in Nat /\ DOMAIN relocs = 1 .. Len(relocs) /\ DataAt(1) \in Nat
        /\ \A i \in DOMAIN relocs : PointerToRelocations(i) \in Nat
        /\ PointerToSymbolTable \in Nat /\ StringTable \in Nat
        /\ WholeSize \in Nat /\ WholeSize - 1 \in Nat
    <3>1. /\ Len(relocs) \in Nat /\ DOMAIN relocs = 1 .. Len(relocs)
          /\ \A i \in 1 .. Len(relocs) + 1 : DataAt(i) \in Nat
          /\ PointerToSymbolTable \in Nat /\ NumberOfSymbols \in Nat
          /\ StringTable = PointerToSymbolTable + 18 * NumberOfSymbols
          /\ WholeSize = StringTable + strings
      BY <1>2, LayoutIs
    <3>2. DataAt(1) \in Nat
      BY <3>1
    <3>3. \A i \in DOMAIN relocs : PointerToRelocations(i) \in Nat
      BY <3>1 DEF PointerToRelocations, DataSize
    <3>4. StringTable \in Nat /\ WholeSize \in Nat /\ WholeSize - 1 \in Nat
      BY <1>1, <3>1
    <3> QED  BY <3>1, <3>2, <3>3, <3>4
  <2>2. Cuts \subseteq Nat
    BY <2>1 DEF Cuts, IMAGE_FILE_HEADER
  <2> QED  BY <1>1, <2>2
<1>4. FileInv
  BY <1>1, <1>2, <1>3 DEF FileInv
<1>5. /\ Len(relocs) \in Nat /\ Len(auxs) \in Nat
      /\ relocations \in Seq(Seq(Nat)) /\ Len(relocations) = 0
      /\ walked \in Seq(Nat) /\ Len(walked) = 0
  BY <1>1, <1>2
<1>6. RelocationsInv
  BY <1>1, <1>5 DEF RelocationsInv, Accepted
<1>7. WalkInv
  BY <1>1, <1>5 DEF WalkInv, Accepted
<1> QED  BY <1>1, <1>4, <1>6, <1>7 DEF LayoutInv, SymbolsInv, RefusalInv, Accepted

(* A step of another part of the constructor: what was kept of relocations *)
(* and symbols stays, and so does what is known of it.                     *)
LEMMA KeptStays ==
  ASSUME LayoutInv, UNCHANGED <<file, relocations, walked>>
  PROVE  /\ FileInv'
         /\ (stage' \in {"header", "sections"} => relocations = << >>)
              /\ (stage' = "symbols" \/ Accepted' => Len(relocations) = Len(relocs))
              => RelocationsInv'
         /\ (Accepted' \/ walked = << >>) /\ (stage' = "done" => Len(walked) = Len(auxs))
              => WalkInv'
<1>1. UNCHANGED file
  OBVIOUS
<1>2. /\ UNCHANGED <<relocs, auxs, strings, size, view>> /\ FileInv'
      /\ PointerToSymbolTable' = PointerToSymbolTable /\ (Whole' <=> Whole)
      /\ \A i : Position(i)' = Position(i) /\ Records(i)' = Records(i)
      /\ \A i, k : RelocationAt(i, k)' = RelocationAt(i, k)
      /\ \A i : ReachesIntoSymbols(i)' <=> ReachesIntoSymbols(i)
  BY <1>1, FileStays DEF LayoutInv
<1>3. ASSUME stage' \in {"header", "sections"} => relocations = << >>,
             stage' = "symbols" \/ Accepted' => Len(relocations) = Len(relocs)
      PROVE  RelocationsInv'
  BY <1>2, <1>3 DEF LayoutInv, RelocationsInv
<1>4. ASSUME Accepted' \/ walked = << >>, stage' = "done" => Len(walked) = Len(auxs)
      PROVE  WalkInv'
  BY <1>2, <1>4 DEF LayoutInv, WalkInv
<1> QED  BY <1>2, <1>3, <1>4


(* Before the walk.                                                        *)
LEMMA StopStep ==
  ASSUME LayoutInv, UNCHANGED file, Throw \/ Die, ~Accepted,
         Whole => stage' = "thrown" /\ \E i \in DOMAIN relocs : ReachesIntoSymbols(i)
  PROVE  LayoutInv'
<1>1. stage' \in {"thrown", "dead"} /\ UNCHANGED <<relocations, symbolTable, walked>>
  BY DEF Throw, Die
<1>2. ~Accepted' /\ stage' # "symbols" /\ stage' # "done" /\ stage' \notin {"header", "sections"}
  BY <1>1 DEF Accepted
<1>3. walked = << >>
  BY DEF LayoutInv, WalkInv
<1>4. FileInv' /\ RelocationsInv' /\ WalkInv'
  BY <1>1, <1>2, <1>3, KeptStays
<1>5. UNCHANGED relocs /\ (Whole' <=> Whole)
      /\ \A i : ReachesIntoSymbols(i)' <=> ReachesIntoSymbols(i)
  BY FileStays
<1>6. RefusalInv'
  BY <1>1, <1>5 DEF RefusalInv
<1>7. SymbolsInv'
  BY <1>2 DEF SymbolsInv
<1> QED  BY <1>4, <1>6, <1>7 DEF LayoutInv

LEMMA GoOnStep ==
  ASSUME LayoutInv, UNCHANGED <<file, relocations, symbolTable, walked>>, ~Accepted,
         stage' \in {"sections", "relocations", "symbols"},
         stage' = "sections" => stage = "header",
         stage' = "symbols" => Len(relocations) = Len(relocs)
  PROVE  LayoutInv'
<1>1. ~Accepted' /\ stage' \notin {"done", "dead", "thrown"}
  BY DEF Accepted
<1>2. walked = << >> /\ (stage' \in {"header", "sections"} => relocations = << >>)
  BY DEF LayoutInv, WalkInv, RelocationsInv
<1>3. UNCHANGED <<file, relocations, walked>>
  OBVIOUS
<1>4. FileInv' /\ RelocationsInv' /\ WalkInv'
  BY <1>1, <1>2, <1>3, KeptStays
<1> QED  BY <1>1, <1>4 DEF LayoutInv, SymbolsInv, RefusalInv

(* A whole file reaches to the end of its string table.                    *)
LEMMA WholeIs ==
  ASSUME FileInv, Whole
  PROVE  /\ view /\ size = StringTable + strings
         /\ StringTable \in Nat /\ strings \in Nat \ {0} /\ PointerToSymbolTable <= StringTable
         /\ 20 + 40 * Len(relocs) <= PointerToSymbolTable
<1>1. /\ Len(relocs) \in Nat
      /\ DataAt(1) = 20 + 40 * Len(relocs)
      /\ \A i \in 1 .. Len(relocs) + 1 : DataAt(i) \in Nat /\ DataAt(i) <= PointerToSymbolTable
      /\ PointerToSymbolTable \in Nat /\ NumberOfSymbols \in Nat
      /\ StringTable = PointerToSymbolTable + 18 * NumberOfSymbols
      /\ WholeSize = StringTable + strings
  BY LayoutIs DEF FileInv
<1>2. 1 \in 1 .. Len(relocs) + 1
  BY <1>1
<1>3. DataAt(1) <= PointerToSymbolTable
  BY <1>1, <1>2
<1>4. strings \in Nat \ {0}
  BY DEF FileInv
<1> QED  BY <1>1, <1>3, <1>4 DEF Whole

LEMMA HeaderStep == LayoutInv /\ ReadHeader => LayoutInv'
<1> SUFFICES ASSUME LayoutInv, ReadHeader PROVE LayoutInv'
  OBVIOUS
<1>1. stage = "header" /\ UNCHANGED file /\ ~Accepted /\ FileInv
  BY DEF ReadHeader, Accepted, LayoutInv
<1>2. CASE size < IMAGE_FILE_HEADER /\ Throw
  <2>1. ~Whole
    <3> SUFFICES ASSUME Whole PROVE FALSE
      OBVIOUS
    <3>1. /\ size = StringTable + strings /\ StringTable \in Nat /\ strings \in Nat
          /\ PointerToSymbolTable <= StringTable /\ 20 + 40 * Len(relocs) <= PointerToSymbolTable
      BY <1>1, WholeIs
    <3>2. Len(relocs) \in Nat /\ PointerToSymbolTable \in Nat
      BY <1>1, LayoutIs DEF FileInv
    <3> QED  BY <1>2, <3>1, <3>2 DEF IMAGE_FILE_HEADER
  <2> QED  BY <1>1, <1>2, <2>1, StopStep
<1>3. CASE ~view /\ Die
  <2>1. ~Whole
    BY <1>3 DEF Whole
  <2> QED  BY <1>1, <1>3, <2>1, StopStep
<1>4. CASE stage' = "sections" /\ UNCHANGED <<relocations, symbolTable, walked>>
  <2>1. UNCHANGED <<file, relocations, symbolTable, walked>>
    BY <1>1, <1>4
  <2> QED  BY <1>1, <1>4, <2>1, GoOnStep
<1> QED  BY <1>2, <1>3, <1>4 DEF ReadHeader

LEMMA SectionsStep == LayoutInv /\ ReadSections => LayoutInv'
<1> SUFFICES ASSUME LayoutInv, ReadSections PROVE LayoutInv'
  OBVIOUS
<1>1. stage = "sections" /\ UNCHANGED file /\ ~Accepted
  BY DEF ReadSections, Accepted
<1>2. ~(DataAt(1) > PointerToSymbolTable)
  <2>1. /\ Len(relocs) \in Nat /\ PointerToSymbolTable \in Nat
        /\ \A i \in 1 .. Len(relocs) + 1 : DataAt(i) \in Nat /\ DataAt(i) <= PointerToSymbolTable
    BY LayoutIs DEF LayoutInv, FileInv
  <2>2. 1 \in 1 .. Len(relocs) + 1
    BY <2>1
  <2> QED  BY <2>1, <2>2
<1>3. stage' = "relocations" /\ UNCHANGED <<file, relocations, symbolTable, walked>>
  BY <1>1, <1>2 DEF ReadSections
<1> QED  BY <1>1, <1>3, GoOnStep

LEMMA EndRelocationsStep == LayoutInv /\ EndRelocations => LayoutInv'
<1> SUFFICES ASSUME LayoutInv, EndRelocations PROVE LayoutInv'
  OBVIOUS
<1>1. /\ stage = "relocations" /\ stage' = "symbols" /\ ~Accepted
      /\ UNCHANGED <<file, relocations, symbolTable, walked>>
  BY DEF EndRelocations, Accepted
<1>2. Len(relocations) = Len(relocs)
  <2>1. Len(relocations) \in Nat /\ Len(relocs) \in Nat /\ Len(relocations) <= Len(relocs)
    BY DEF LayoutInv, FileInv, RelocationsInv
  <2> QED  BY <2>1 DEF EndRelocations, Index
<1> QED  BY <1>1, <1>2, GoOnStep

(* What the section headers and the count record say.                      *)
LEMMA ListedIs ==
  ASSUME LayoutInv, Index <= Len(relocs)
  PROVE  /\ Index \in 1 .. Len(relocs) /\ Index = Len(relocations) + 1
         /\ Listed.from \in Nat /\ Listed.count \in Nat
         /\ Whole =>
              /\ HeaderAt < size /\ Pointer < size /\ Pointer = PointerToRelocations(Index)
              /\ Flagged <=> Overflows(Index)
              /\ Listed.count = Records(Index)
              /\ Listed.from = RelocationAt(Index, 1)
<1>1. /\ relocs \in Seq(Nat) /\ auxs \in Seq(Nat) /\ size \in Nat /\ FileInv
      /\ relocations \in Seq(Seq(Nat))
  BY DEF LayoutInv, FileInv, RelocationsInv
<1>2. /\ Len(relocs) \in Nat /\ PointerToSymbolTable \in Nat
      /\ \A i \in 1 .. Len(relocs) + 1 : DataAt(i) \in Nat /\ DataAt(i) <= PointerToSymbolTable
      /\ \A i \in 1 .. Len(relocs) :
           /\ relocs[i] \in Nat /\ Records(i) \in Nat
           /\ DataAt(i + 1) = DataAt(i) + 6 + 10 * Records(i)
  BY <1>1, LayoutIs
<1>3. Index \in 1 .. Len(relocs) /\ Index = Len(relocations) + 1
  BY <1>1, <1>2 DEF Index
<1> DEFINE x == Index
<1>4. /\ x \in 1 .. Len(relocs) + 1 /\ x + 1 \in 1 .. Len(relocs) + 1
  BY <1>2, <1>3
<1> HIDE DEF x
<1>5. /\ DataAt(x) \in Nat /\ DataAt(x + 1) <= PointerToSymbolTable
      /\ DataAt(x + 1) = DataAt(x) + 6 + 10 * Records(x)
      /\ relocs[x] \in Nat /\ Records(x) \in Nat /\ x \in Nat
  BY <1>2, <1>3, <1>4 DEF x
<1>6. PointerToRelocations(x) = DataAt(x) + 6
  BY DEF PointerToRelocations, DataSize
<1>7. Pointer \in Nat
  BY <1>5, <1>6 DEF Pointer, Reading, x
<1>8. Listed.from \in Nat /\ Listed.count \in Nat
  <2>1. Reading(Pointer, Records(x)) \in Nat /\ Reading(HeaderAt, relocs[x]) \in Nat
    BY <1>5 DEF Reading
  <2>2. Pointer + IMAGE_RELOCATION \in Nat
    BY <1>7 DEF IMAGE_RELOCATION
  <2> QED  BY <1>7, <2>1, <2>2 DEF Listed, x
<1>9. ASSUME Whole
      PROVE  /\ HeaderAt < size /\ Pointer < size /\ Pointer = PointerToRelocations(x)
             /\ Flagged <=> Overflows(x)
             /\ Listed.count = Records(x)
             /\ Listed.from = RelocationAt(x, 1)
  <2>1. /\ size = StringTable + strings /\ StringTable \in Nat /\ strings \in Nat \ {0}
        /\ PointerToSymbolTable <= StringTable /\ 20 + 40 * Len(relocs) <= PointerToSymbolTable
    BY <1>1, <1>9, WholeIs
  <2>2. HeaderAt = 20 + 40 * (x - 1)
    BY DEF HeaderAt, IMAGE_FILE_HEADER, IMAGE_SECTION_HEADER, x
  <2>3. HeaderAt < size
    <3>1. x <= Len(relocs) /\ Len(relocs) \in Nat
      BY <1>2, <1>3 DEF x
    <3> QED  BY <1>2, <1>5, <2>1, <2>2, <3>1
  <2>4. Pointer = PointerToRelocations(x)
    BY <2>3 DEF Pointer, Reading, x
  <2>5. Pointer < size
    BY <1>2, <1>5, <1>6, <2>1, <2>4
  <2>6. Flagged <=> Overflows(x)
    BY <2>3 DEF Flagged, x
  <2>7. CASE Overflows(x)
    <3>1. Listed.from = Pointer + 10 /\ Listed.count = Records(x)
      BY <2>5, <2>6, <2>7 DEF Listed, Reading, IMAGE_RELOCATION, x
    <3>2. RelocationAt(x, 1) = PointerToRelocations(x) + 10 * 1
      BY <2>7 DEF RelocationAt, IMAGE_RELOCATION
    <3> QED  BY <2>3, <2>4, <2>5, <2>6, <3>1, <3>2
  <2>8. CASE ~Overflows(x)
    <3>1. Listed.from = Pointer /\ Listed.count = relocs[x] /\ Records(x) = relocs[x]
      BY <2>3, <2>6, <2>8 DEF Listed, Reading, Records, x
    <3>2. RelocationAt(x, 1) = PointerToRelocations(x) + 10 * (1 - 1)
      BY <2>8 DEF RelocationAt, IMAGE_RELOCATION
    <3> QED  BY <1>7, <2>3, <2>4, <2>5, <2>6, <3>1, <3>2
  <2> QED  BY <2>7, <2>8
<1> QED  BY <1>3, <1>8, <1>9 DEF x


(* Of a whole file, the section's records are taken, and the constructor   *)
(* throws when the one behind the last reaches into the symbols.           *)
LEMMA TakenOfWhole ==
  ASSUME LayoutInv, Index <= Len(relocs), Whole
  PROVE  /\ Listed.from + IMAGE_RELOCATION * Listed.count > PointerToSymbolTable
              <=> ReachesIntoSymbols(Index)
         /\ \A k \in 1 .. Records(Index) :
              Listed.from + IMAGE_RELOCATION * (k - 1) = RelocationAt(Index, k)
<1> DEFINE x == Index
           from == Listed.from
           q == PointerToRelocations(x)
<1>1. /\ x \in 1 .. Len(relocs) /\ Listed.count = Records(x) /\ from \in Nat
      /\ from = RelocationAt(x, 1)
  BY ListedIs
<1>2. /\ \A i \in 1 .. Len(relocs) + 1 : DataAt(i) \in Nat /\ DataAt(i) <= PointerToSymbolTable
      /\ \A i \in 1 .. Len(relocs) :
           /\ relocs[i] \in Nat /\ Records(i) \in Nat
           /\ DataAt(i + 1) = DataAt(i) + 6 + 10 * Records(i)
      /\ PointerToSymbolTable \in Nat /\ Len(relocs) \in Nat
  BY LayoutIs DEF LayoutInv, FileInv
<1>3. q = DataAt(x) + 6
  BY DEF PointerToRelocations, DataSize
<1>4. \A k : RelocationAt(x, k) = q + 10 * (IF Overflows(x) THEN k ELSE k - 1)
  BY DEF RelocationAt, IMAGE_RELOCATION
<1> HIDE DEF x, from, q
<1>5. x \in 1 .. Len(relocs) + 1 /\ x + 1 \in 1 .. Len(relocs) + 1
  BY <1>1, <1>2
<1>6. /\ DataAt(x) \in Nat /\ DataAt(x + 1) <= PointerToSymbolTable /\ DataAt(x + 1) \in Nat
      /\ DataAt(x + 1) = q + 10 * Records(x) /\ Records(x) \in Nat /\ q \in Nat
  BY <1>1, <1>2, <1>3, <1>5
<1>7. CASE Overflows(x)
  <2>1. from = q + 10 /\ RelocationAt(x, Records(x)) = q + 10 * Records(x)
    BY <1>1, <1>4, <1>6, <1>7
  <2>2. from + 10 * Records(x) > PointerToSymbolTable <=> ReachesIntoSymbols(x)
    BY <1>2, <1>6, <1>7, <2>1 DEF ReachesIntoSymbols, IMAGE_RELOCATION
  <2>3. \A k \in 1 .. Records(x) : from + 10 * (k - 1) = RelocationAt(x, k)
    BY <1>4, <1>6, <1>7, <2>1
  <2> QED  BY <1>1, <2>2, <2>3 DEF IMAGE_RELOCATION, x, from
<1>8. CASE ~Overflows(x)
  <2>1. from = q
    BY <1>1, <1>4, <1>6, <1>8
  <2>2. ~(from + 10 * Records(x) > PointerToSymbolTable)
    BY <1>2, <1>6, <2>1
  <2>3. \A k \in 1 .. Records(x) : from + 10 * (k - 1) = RelocationAt(x, k)
    BY <1>4, <1>6, <1>8, <2>1
  <2> QED  BY <1>1, <1>8, <2>2, <2>3 DEF ReachesIntoSymbols, IMAGE_RELOCATION, x, from
<1> QED  BY <1>7, <1>8

LEMMA RelocationsStep == LayoutInv /\ ReadRelocations => LayoutInv'
<1> SUFFICES ASSUME LayoutInv, ReadRelocations PROVE LayoutInv'
  OBVIOUS
<1> DEFINE x == Index
           from == Listed.from
           count == Listed.count
           taken == [k \in 1 .. count |-> from + IMAGE_RELOCATION * (k - 1)]
<1>1. stage = "relocations" /\ x <= Len(relocs) /\ UNCHANGED file /\ ~Accepted
  BY DEF ReadRelocations, Accepted
<1>2. x \in 1 .. Len(relocs) /\ x = Len(relocations) + 1 /\ from \in Nat /\ count \in Nat
  BY <1>1, ListedIs
<1>3. Whole =>
        /\ from + IMAGE_RELOCATION * count > PointerToSymbolTable <=> ReachesIntoSymbols(x)
        /\ count = Records(x)
        /\ \A k \in 1 .. count : from + IMAGE_RELOCATION * (k - 1) = RelocationAt(x, k)
  BY <1>1, ListedIs, TakenOfWhole
<1>4. CASE from + IMAGE_RELOCATION * count > PointerToSymbolTable
  <2>1. Throw /\ stage' = "thrown"
    BY <1>4 DEF ReadRelocations, Throw
  <2>2. x \in DOMAIN relocs
    BY <1>2 DEF LayoutInv, FileInv
  <2>3. Whole => \E i \in DOMAIN relocs : ReachesIntoSymbols(i)
    BY <1>3, <1>4, <2>2
  <2> QED  BY <1>1, <2>1, <2>3, StopStep
<1>5. CASE ~(from + IMAGE_RELOCATION * count > PointerToSymbolTable)
  <2>1. relocations' = Append(relocations, taken) /\ UNCHANGED <<stage, symbolTable, walked>>
    BY <1>5 DEF ReadRelocations
  <2>2. /\ UNCHANGED <<relocs, auxs, strings, size, view>> /\ (FileInv => FileInv')
        /\ PointerToSymbolTable' = PointerToSymbolTable
        /\ Whole' <=> Whole
        /\ \A i : Position(i)' = Position(i) /\ Records(i)' = Records(i)
        /\ \A i, k : RelocationAt(i, k)' = RelocationAt(i, k)
        /\ \A i : ReachesIntoSymbols(i)' <=> ReachesIntoSymbols(i)
    BY <1>1, FileStays
  <2>3. /\ taken \in Seq(Nat) /\ DOMAIN taken = 1 .. count
        /\ \A k \in 1 .. count : taken[k] + IMAGE_RELOCATION <= PointerToSymbolTable
    <3>1. \A k \in 1 .. count : from + IMAGE_RELOCATION * (k - 1) \in Nat
      BY <1>2 DEF IMAGE_RELOCATION
    <3>2. PointerToSymbolTable \in Nat
      BY LayoutIs DEF LayoutInv, FileInv
    <3> HIDE DEF from, count
    <3>3. taken \in Seq(Nat)
      BY <1>2, <3>1
    <3>4. \A k \in 1 .. count :
            from + IMAGE_RELOCATION * (k - 1) + IMAGE_RELOCATION <= PointerToSymbolTable
      BY <1>2, <1>5, <3>2 DEF IMAGE_RELOCATION
    <3> QED  BY <3>3, <3>4
  <2>4. Whole => ~ReachesIntoSymbols(x) /\ taken = [k \in 1 .. Records(x) |-> RelocationAt(x, k)]
    BY <1>3, <1>5
  <2> HIDE DEF x, taken, from, count
  <2>5. /\ relocations \in Seq(Seq(Nat)) /\ relocations' \in Seq(Seq(Nat))
        /\ Len(relocations) \in Nat /\ Len(relocations') = x /\ relocations'[x] = taken
        /\ \A i \in 1 .. Len(relocations) : relocations'[i] = relocations[i]
    BY <1>2, <2>1, <2>3 DEF LayoutInv, RelocationsInv
  <2>6. \A i \in 1 .. x : i = x \/ i \in 1 .. Len(relocations)
    BY <1>2, <2>5
  <2>7. /\ \A i \in 1 .. Len(relocations) : \A k \in DOMAIN relocations[i] :
             relocations[i][k] + IMAGE_RELOCATION <= PointerToSymbolTable
        /\ Whole =>
             \A i \in 1 .. Len(relocations) :
               /\ ~ReachesIntoSymbols(i)
               /\ relocations[i] = [k \in 1 .. Records(i) |-> RelocationAt(i, k)]
    BY DEF LayoutInv, RelocationsInv
  <2>8. \A i \in 1 .. Len(relocations') : \A k \in DOMAIN relocations'[i] :
             relocations'[i][k] + IMAGE_RELOCATION <= PointerToSymbolTable
    BY <2>3, <2>5, <2>6, <2>7
  <2>9. Whole =>
             \A i \in 1 .. Len(relocations') :
               /\ ~ReachesIntoSymbols(i)
               /\ relocations'[i] = [k \in 1 .. Records(i) |-> RelocationAt(i, k)]
    BY <2>4, <2>5, <2>6, <2>7
  <2>10. stage' = "relocations" /\ ~Accepted'
    BY <1>1, <2>1 DEF Accepted
  <2>11. RelocationsInv'
    <3>1. Len(relocations') <= Len(relocs)
      BY <1>1, <2>5 DEF x
    <3> QED  BY <2>2, <2>5, <2>8, <2>9, <2>10, <3>1 DEF RelocationsInv
  <2>12. WalkInv'
    BY <2>1, <2>2, <2>10 DEF LayoutInv, WalkInv, Accepted
  <2> QED  BY <2>2, <2>10, <2>11, <2>12 DEF LayoutInv, SymbolsInv, RefusalInv
<1> QED  BY <1>4, <1>5

LEMMA DieOfRelocationsStep == LayoutInv /\ DieOfRelocations => LayoutInv'
<1> SUFFICES ASSUME LayoutInv, DieOfRelocations PROVE LayoutInv'
  OBVIOUS
<1>1. /\ stage = "relocations" /\ Index <= Len(relocs) /\ UNCHANGED file /\ ~Accepted /\ Die
      /\ HeaderAt >= size \/ Pointer >= size
  BY DEF DieOfRelocations, Accepted
<1>2. ~Whole
  <2> SUFFICES ASSUME Whole PROVE FALSE
    OBVIOUS
  <2>1. HeaderAt < size /\ Pointer < size /\ Pointer = PointerToRelocations(Index)
        /\ Index \in 1 .. Len(relocs)
    BY <1>1, ListedIs
  <2>2. size \in Nat /\ HeaderAt \in Nat /\ Pointer \in Nat
    <3>1. Index \in Nat /\ Index - 1 \in Nat
      BY <2>1
    <3>2. HeaderAt \in Nat
      BY <3>1 DEF HeaderAt, IMAGE_FILE_HEADER, IMAGE_SECTION_HEADER
    <3>3. DataAt(Index) \in Nat
      <4>1. Len(relocs) \in Nat /\ \A i \in 1 .. Len(relocs) + 1 : DataAt(i) \in Nat
        BY LayoutIs DEF LayoutInv, FileInv
      <4>2. Index \in 1 .. Len(relocs) + 1
        BY <2>1, <4>1
      <4> QED  BY <4>1, <4>2
    <3> QED  BY <2>1, <3>2, <3>3 DEF LayoutInv, FileInv, PointerToRelocations, DataSize
  <2> QED  BY <1>1, <2>1, <2>2
<1> QED  BY <1>1, <1>2, StopStep


LEMMA SymbolsStep == LayoutInv /\ ReadSymbols => LayoutInv'
<1> SUFFICES ASSUME LayoutInv, ReadSymbols PROVE LayoutInv'
  OBVIOUS
<1>1. stage = "symbols" /\ UNCHANGED file /\ ~Accepted /\ FileInv
  BY DEF ReadSymbols, Accepted, LayoutInv
<1>2. /\ StringTable \in Nat /\ size \in Nat /\ strings \in Nat \ {0}
      /\ Reading(StringTable, strings) \in Nat
      /\ Reading(StringTable, strings) <= strings
  <2>1. StringTable \in Nat
    BY <1>1, LayoutIs DEF FileInv
  <2>2. size \in Nat /\ strings \in Nat \ {0}
    BY <1>1 DEF FileInv
  <2> QED  BY <2>1, <2>2 DEF Reading
<1>3. CASE StringTable + Reading(StringTable, strings) > size
  <2>1. Throw
    BY <1>3 DEF ReadSymbols
  <2>2. ~Whole
    <3>1. Whole => size = StringTable + strings
      BY <1>1, WholeIs
    <3> QED  BY <1>2, <1>3, <3>1
  <2> QED  BY <1>1, <2>1, <2>2, StopStep
<1>4. CASE ~(StringTable + Reading(StringTable, strings) > size)
  <2>1. /\ stage' = "walk" /\ UNCHANGED <<relocations, walked>>
        /\ symbolTable' =
             [k \in 1 .. NumberOfSymbols |-> PointerToSymbolTable + IMAGE_SYMBOL * (k - 1)]
    BY <1>4 DEF ReadSymbols
  <2>2. Accepted' /\ stage' # "done" /\ stage' \notin {"header", "sections"}
        /\ stage' \notin {"thrown", "dead"}
    BY <2>1 DEF Accepted
  <2>3. Len(relocations) = Len(relocs)
    BY <1>1 DEF LayoutInv, RelocationsInv
  <2>4. FileInv' /\ RelocationsInv' /\ WalkInv'
    BY <1>1, <2>1, <2>2, <2>3, KeptStays
  <2>5. StringTable <= size
    BY <1>2, <1>4
  <2>6. /\ UNCHANGED size /\ PointerToSymbolTable' = PointerToSymbolTable
        /\ NumberOfSymbols' = NumberOfSymbols /\ StringTable' = StringTable
    BY <1>1, FileStays
  <2>7. SymbolsInv'
    BY <2>1, <2>5, <2>6 DEF SymbolsInv
  <2> QED  BY <2>2, <2>4, <2>7 DEF LayoutInv, RefusalInv
<1> QED  BY <1>3, <1>4

LEMMA DieOfSymbolsStep == LayoutInv /\ DieOfSymbols => LayoutInv'
<1> SUFFICES ASSUME LayoutInv, DieOfSymbols PROVE LayoutInv'
  OBVIOUS
<1>1. stage = "symbols" /\ UNCHANGED file /\ ~Accepted /\ FileInv /\ Die /\ StringTable >= size
  BY DEF DieOfSymbols, Accepted, LayoutInv
<1>2. ~Whole
  <2>1. Whole => size = StringTable + strings /\ StringTable \in Nat /\ strings \in Nat \ {0}
    BY <1>1, WholeIs
  <2> QED  BY <1>1, <2>1
<1> QED  BY <1>1, <1>2, StopStep

(* The walk is at a symbol, or behind the last record.                     *)
LEMMA NextIs ==
  ASSUME LayoutInv, stage = "walk"
  PROVE  /\ Len(symbolTable) = NumberOfSymbols /\ Len(walked) \in 0 .. Len(auxs)
         /\ NextSymbol = Position(Len(walked) + 1)
         /\ NextSymbol > Len(symbolTable) <=> Len(walked) = Len(auxs)
<1> DEFINE n == Len(walked)
           N == Len(auxs)
<1>1. FileInv /\ Accepted
  BY DEF LayoutInv, Accepted
<1>2. /\ walked \in Seq(Nat) /\ n \in Nat /\ n <= N /\ DOMAIN walked = 1 .. n
      /\ \A j \in 1 .. n : walked[j] = Position(j)
  BY DEF LayoutInv, WalkInv
<1>3. /\ N \in Nat /\ DOMAIN auxs = 1 .. N
      /\ \A j \in 1 .. N : auxs[j] \in Nat
      /\ Position(1) = 1 /\ Position(N + 1) = NumberOfSymbols + 1
      /\ \A j \in 1 .. N + 1 : Position(j) \in Nat
      /\ \A j \in 1 .. N : Position(j + 1) = Position(j) + 1 + auxs[j]
      /\ \A j, k \in 1 .. N + 1 : j < k => Position(j) < Position(k)
  BY <1>1, Positions
<1>4. NumberOfSymbols \in Nat
  BY <1>1, LayoutIs DEF FileInv
<1>5. Len(symbolTable) = NumberOfSymbols
  <2>1. symbolTable =
          [k \in 1 .. NumberOfSymbols |-> PointerToSymbolTable + IMAGE_SYMBOL * (k - 1)]
    BY <1>1 DEF LayoutInv, SymbolsInv
  <2> QED  BY <1>4, <2>1
<1> HIDE DEF n, N
<1>6. NextSymbol = Position(n + 1)
  <2>1. CASE n = 0
    <3>1. walked = << >>
      BY <1>2, <2>1 DEF n
    <3> QED  BY <1>3, <2>1, <3>1 DEF NextSymbol
  <2>2. CASE n # 0
    <3>1. walked # << >> /\ Last(walked) = Position(n) /\ n \in 1 .. N
      <4>1. n \in 1 .. n /\ n \in 1 .. N
        BY <1>2, <1>3, <2>2
      <4>2. walked[n] = Position(n) /\ walked # << >>
        BY <1>2, <2>2, <4>1 DEF n
      <4> QED  BY <4>1, <4>2 DEF Last, n
    <3>2. \A j \in 1 .. N : Position(j) = Position(n) => j = n
      <4> SUFFICES ASSUME NEW j \in 1 .. N, Position(j) = Position(n), j # n PROVE FALSE
        OBVIOUS
      <4>1. j \in 1 .. N + 1 /\ n \in 1 .. N + 1 /\ (j < n \/ n < j)
        BY <1>3, <3>1
      <4>2. Position(j) < Position(n) \/ Position(n) < Position(j)
        BY <1>3, <4>1
      <4> QED  BY <1>3, <4>1, <4>2
    <3>3. NumberOfAuxSymbols(Position(n)) = auxs[n]
      BY <1>3, <3>1, <3>2 DEF NumberOfAuxSymbols
    <3>4. NextSymbol = Position(n) + 1 + auxs[n]
      BY <3>1, <3>3 DEF NextSymbol
    <3> QED  BY <1>3, <3>1, <3>4
  <2> QED  BY <2>1, <2>2
<1>7. NextSymbol > Len(symbolTable) <=> n = N
  <2>1. n = N => NextSymbol = NumberOfSymbols + 1
    BY <1>3, <1>6
  <2>2. n # N => Position(n + 1) < Position(N + 1) /\ Position(n + 1) \in Nat
    <3> SUFFICES ASSUME n # N PROVE Position(n + 1) < Position(N + 1) /\ Position(n + 1) \in Nat
      OBVIOUS
    <3>1. n + 1 \in 1 .. N + 1 /\ N + 1 \in 1 .. N + 1 /\ n + 1 < N + 1
      BY <1>2, <1>3
    <3> QED  BY <1>3, <3>1
  <2> QED  BY <1>3, <1>4, <1>5, <1>6, <2>1, <2>2
<1>8. n \in 0 .. N
  BY <1>2, <1>3
<1> QED  BY <1>5, <1>6, <1>7, <1>8 DEF n, N

LEMMA WalkStep == LayoutInv /\ WalkSymbol => LayoutInv'
<1> SUFFICES ASSUME LayoutInv, WalkSymbol PROVE LayoutInv'
  OBVIOUS
<1> DEFINE n == Len(walked)
<1>1. /\ stage = "walk" /\ NextSymbol <= Len(symbolTable) /\ UNCHANGED file
      /\ walked' = Append(walked, NextSymbol) /\ UNCHANGED <<stage, relocations, symbolTable>>
  BY DEF WalkSymbol
<1>2. /\ UNCHANGED <<relocs, auxs, strings, size, view>> /\ (FileInv => FileInv')
      /\ PointerToSymbolTable' = PointerToSymbolTable /\ NumberOfSymbols' = NumberOfSymbols
      /\ StringTable' = StringTable
      /\ Whole' <=> Whole
      /\ \A i : Position(i)' = Position(i) /\ Records(i)' = Records(i)
      /\ \A i, k : RelocationAt(i, k)' = RelocationAt(i, k)
      /\ \A i : ReachesIntoSymbols(i)' <=> ReachesIntoSymbols(i)
  BY <1>1, FileStays
<1>3. /\ n \in 0 .. Len(auxs) /\ NextSymbol = Position(n + 1) /\ Len(symbolTable) = NumberOfSymbols
      /\ NextSymbol > Len(symbolTable) <=> n = Len(auxs)
  BY <1>1, NextIs
<1>4. /\ Len(auxs) \in Nat /\ NumberOfSymbols \in Nat
      /\ \A j \in 1 .. Len(auxs) + 1 : Position(j) \in Nat
  BY Positions, LayoutIs DEF LayoutInv, FileInv
<1>5. n + 1 \in 1 .. Len(auxs) /\ NextSymbol \in Nat
  <2>1. NextSymbol \in Nat
    BY <1>3, <1>4
  <2> QED  BY <1>1, <1>3, <1>4, <2>1
<1>6. RelocationsInv' /\ SymbolsInv' /\ RefusalInv'
  BY <1>1, <1>2 DEF LayoutInv, RelocationsInv, SymbolsInv, RefusalInv, Accepted
<1>7. WalkInv'
  <2>1. walked \in Seq(Nat) /\ \A j \in 1 .. n : walked[j] = Position(j)
    BY DEF LayoutInv, WalkInv
  <2>2. walked' \in Seq(Nat) /\ Len(walked') = n + 1 /\ walked'[n + 1] = NextSymbol
        /\ \A j \in 1 .. n : walked'[j] = walked[j]
    BY <1>1, <1>5, <2>1
  <2>3. \A j \in 1 .. n + 1 : walked'[j] = Position(j)
    BY <1>3, <2>1, <2>2
  <2>4. Len(walked') <= Len(auxs)
    BY <1>4, <1>5, <2>2
  <2> QED  BY <1>1, <1>2, <2>2, <2>3, <2>4 DEF WalkInv, Accepted
<1> QED  BY <1>2, <1>6, <1>7 DEF LayoutInv

LEMMA EndWalkStep == LayoutInv /\ EndWalk => LayoutInv'
<1> SUFFICES ASSUME LayoutInv, EndWalk PROVE LayoutInv'
  OBVIOUS
<1>1. /\ stage = "walk" /\ NextSymbol > Len(symbolTable) /\ stage' = "done"
      /\ UNCHANGED <<file, relocations, symbolTable, walked>> /\ UNCHANGED file
  BY DEF EndWalk
<1>2. Len(walked) = Len(auxs)
  BY <1>1, NextIs
<1>3. Accepted /\ Accepted' /\ Len(relocations) = Len(relocs)
      /\ stage' \notin {"header", "sections"}
  BY <1>1 DEF Accepted, LayoutInv, RelocationsInv
<1>4. FileInv' /\ RelocationsInv' /\ WalkInv'
  BY <1>1, <1>2, <1>3, KeptStays
<1>5. /\ UNCHANGED size /\ PointerToSymbolTable' = PointerToSymbolTable
      /\ NumberOfSymbols' = NumberOfSymbols /\ StringTable' = StringTable
  BY <1>1, FileStays
<1>6. SymbolsInv'
  BY <1>1, <1>3, <1>5 DEF LayoutInv, SymbolsInv
<1> QED  BY <1>1, <1>4, <1>6 DEF LayoutInv, RefusalInv

LEMMA LayoutStep == LayoutInv /\ [Next]_vars => LayoutInv'
<1> SUFFICES ASSUME LayoutInv, [Next]_vars PROVE LayoutInv'
  OBVIOUS
<1>1. CASE UNCHANGED vars
  <2>1. UNCHANGED <<relocs, auxs, strings, size, view, stage, relocations, symbolTable, walked>>
    BY <1>1 DEF vars
  <2>2. UNCHANGED file
    BY <2>1 DEF file
  <2>3. /\ PointerToSymbolTable' = PointerToSymbolTable /\ NumberOfSymbols' = NumberOfSymbols
        /\ StringTable' = StringTable
        /\ Whole' <=> Whole
        /\ \A i : Position(i)' = Position(i) /\ Records(i)' = Records(i)
        /\ \A i, k : RelocationAt(i, k)' = RelocationAt(i, k)
        /\ \A i : ReachesIntoSymbols(i)' <=> ReachesIntoSymbols(i)
    BY <2>2, FileStays
  <2>4. FileInv' /\ RelocationsInv'
    BY <2>1, <2>3 DEF LayoutInv, FileInv, RelocationsInv, Accepted
  <2>5. SymbolsInv' /\ WalkInv'
    BY <2>1, <2>3 DEF LayoutInv, SymbolsInv, WalkInv, Accepted
  <2>6. RefusalInv'
    BY <2>1, <2>3 DEF LayoutInv, RefusalInv
  <2> QED  BY <2>4, <2>5, <2>6 DEF LayoutInv
<1> QED
  BY <1>1, HeaderStep, SectionsStep, RelocationsStep, DieOfRelocationsStep, EndRelocationsStep,
     SymbolsStep, DieOfSymbolsStep, WalkStep, EndWalkStep DEF Next, Finished

LEMMA LayoutAlways == Spec => []LayoutInv
BY LayoutInit, LayoutStep, PTL DEF Spec

-----------------------------------------------------------------------------
(* Records that are kept when the constructor returns are in the file,     *)
(* wherever it was cut short: the last check bounds the others.            *)
THEOREM KeptRecordsAreInTheFileAlways == Spec => []KeptRecordsAreInTheFile
<1>1. LayoutInv => KeptRecordsAreInTheFile
  <2> SUFFICES ASSUME LayoutInv, Accepted
               PROVE  /\ \A i \in DOMAIN relocations : \A k \in DOMAIN relocations[i] :
                           relocations[i][k] + IMAGE_RELOCATION <= size
                      /\ \A k \in DOMAIN symbolTable : symbolTable[k] + IMAGE_SYMBOL <= size
    BY DEF KeptRecordsAreInTheFile
  <2>1. /\ PointerToSymbolTable \in Nat /\ NumberOfSymbols \in Nat /\ size \in Nat
        /\ StringTable = PointerToSymbolTable + 18 * NumberOfSymbols
    BY LayoutIs DEF LayoutInv, FileInv
  <2>2. StringTable <= size
    BY DEF LayoutInv, SymbolsInv
  <2>3. PointerToSymbolTable <= size
    BY <2>1, <2>2
  <2>4. ASSUME NEW i \in DOMAIN relocations, NEW k \in DOMAIN relocations[i]
        PROVE  relocations[i][k] + IMAGE_RELOCATION <= size
    <3>1. relocations \in Seq(Seq(Nat)) /\ relocations[i][k] \in Nat
      BY DEF LayoutInv, RelocationsInv
    <3>2. i \in 1 .. Len(relocations)
      BY <3>1
    <3>3. relocations[i][k] + IMAGE_RELOCATION <= PointerToSymbolTable
      BY <3>2 DEF LayoutInv, RelocationsInv
    <3> QED  BY <2>1, <2>3, <3>1, <3>3 DEF IMAGE_RELOCATION
  <2>5. ASSUME NEW k \in DOMAIN symbolTable
        PROVE  symbolTable[k] + IMAGE_SYMBOL <= size
    <3>1. k \in 1 .. NumberOfSymbols /\ symbolTable[k] = PointerToSymbolTable + 18 * (k - 1)
      BY DEF LayoutInv, SymbolsInv, IMAGE_SYMBOL
    <3> QED  BY <2>1, <2>2, <3>1 DEF IMAGE_SYMBOL
  <2> QED  BY <2>4, <2>5
<1> QED  BY <1>1, LayoutAlways, PTL

(* The walk comes to every symbol, and to no auxiliary record.             *)
THEOREM SymbolsAreTakenAlways == Spec => []SymbolsAreTaken
<1>1. LayoutInv => SymbolsAreTaken
  <2> SUFFICES ASSUME LayoutInv PROVE SymbolsAreTaken
    OBVIOUS
  <2>1. /\ walked \in Seq(Nat) /\ Len(walked) <= Len(auxs) /\ Len(auxs) \in Nat
        /\ DOMAIN auxs = 1 .. Len(auxs) /\ DOMAIN walked = 1 .. Len(walked) /\ Len(walked) \in Nat
    BY DEF LayoutInv, FileInv, WalkInv
  <2>2. \A j \in DOMAIN walked : j \in DOMAIN auxs /\ walked[j] = Position(j)
    <3>1. \A j \in 1 .. Len(walked) : walked[j] = Position(j)
      BY DEF LayoutInv, WalkInv
    <3>2. 1 .. Len(walked) \subseteq 1 .. Len(auxs)
      BY <2>1
    <3> QED  BY <2>1, <3>1, <3>2
  <2>3. Range(walked) \subseteq {Position(j) : j \in DOMAIN auxs}
    BY <2>2 DEF Range
  <2> QED  BY <2>3 DEF LayoutInv, WalkInv, SymbolsAreTaken
<1> QED  BY <1>1, LayoutAlways, PTL

(* A whole file is read, and each section's relocations are those that     *)
(* were written; only one with an overflow at the end may be refused.      *)
THEOREM WholeFilesAreReadAlways == Spec => []WholeFilesAreRead
<1>1. LayoutInv => WholeFilesAreRead
  <2> SUFFICES ASSUME LayoutInv, Whole, Accepted
               PROVE  /\ \A i \in DOMAIN relocs : ~ReachesIntoSymbols(i)
                      /\ relocations =
                           [i \in DOMAIN relocs |-> [k \in 1 .. Records(i) |-> RelocationAt(i, k)]]
    BY DEF WholeFilesAreRead, LayoutInv, RefusalInv
  <2>1. /\ relocations \in Seq(Seq(Nat)) /\ Len(relocations) = Len(relocs)
        /\ DOMAIN relocs = 1 .. Len(relocs) /\ DOMAIN relocations = 1 .. Len(relocations)
    BY DEF LayoutInv, FileInv, RelocationsInv
  <2>2. \A i \in DOMAIN relocs :
          /\ ~ReachesIntoSymbols(i)
          /\ relocations[i] = [k \in 1 .. Records(i) |-> RelocationAt(i, k)]
    BY <2>1 DEF LayoutInv, RelocationsInv
  <2>3. relocations = [i \in DOMAIN relocs |-> relocations[i]]
    BY <2>1
  <2> QED  BY <2>2, <2>3
<1> QED  BY <1>1, LayoutAlways, PTL

-----------------------------------------------------------------------------
(* DebugSWalk: the .obj, and how far a walk over it has come. Sections up  *)
(* to Final are walked: all of them, or none.                              *)
Sec == [debugS : BOOLEAN, padded : BOOLEAN, subs : Seq(Subsections)]
NoSubs(i) == sections[i].subs = << >>

SectionsInv ==
  /\ sections \in Seq(Sec) /\ Len(sections) < 2 * (ShortMax + 1)
  /\ \A i \in DOMAIN sections : ~sections[i].debugS => NoSubs(i)
  /\ OneTable

Final == IF Fits THEN Len(sections) ELSE 0

PlaceInv ==
  /\ pass \in {"pre", "main", "done"}
  /\ at \in 1 .. Final + 1 /\ p \in Nat
  /\ p > 0 => at <= Final /\ Section.debugS
  /\ pass = "done" => at = Final + 1
  /\ read = [pre |-> read.pre, main |-> read.main]

(* The subsections before section i, and the first n of that.              *)
Before(i, n) == (UNION {SubsOf(j) : j \in 1 .. i - 1}) \cup {<<i, k>> : k \in 1 .. n}
LinesOf(i) ==
  {[sub |-> <<i, k>>, path |-> \E j \in 1 .. i : HasTable(j)] :
     k \in {k \in DOMAIN sections[i].subs : sections[i].subs[k].type = "lines"}}
LinesBefore(i) == UNION {LinesOf(j) : j \in 1 .. i - 1}

(* In the pre-pass: raw holds the subsections up to p.                     *)
PreInv ==
  pass = "pre" =>
    /\ read.main = {}
    /\ haveFiles <=> \E i \in 1 .. at - 1 : HasTable(i)
    /\ lines = LinesBefore(at)
    /\ p = 0 => read.pre = Before(at, 0)
    /\ p > 0 => /\ raw \in Seq(Nat) /\ Len(raw) <= Len(Section.subs)
                /\ \A k \in 1 .. Len(raw) : raw[k] = k
                /\ p = Start(Section, Len(raw) + 1)
                /\ read.pre = Before(at, Len(raw))

AfterInv ==
  pass # "pre" => lines = LinesBefore(Final + 1) /\ read.pre = Before(Final + 1, 0)

(* In the main pass: bytes that are no subsection have been read only in a *)
(* section that has none.                                                  *)
MainReads(i, n) ==
  /\ Before(i, n) \subseteq read.main
  /\ \A r \in read.main :
       \/ r \in Before(i, n)
       \/ r[1] \in 1 .. Final /\ sections[r[1]].debugS /\ NoSubs(r[1])

MainInv ==
  /\ pass = "main" /\ p = 0 => MainReads(at, 0)
  /\ pass = "main" /\ p > 0 =>
       \E n \in Nat :
         /\ n < Len(Section.subs) \/ (n = 0 /\ NoSubs(at))
         /\ p = Start(Section, n + 1) /\ MainReads(at, n)
  /\ pass = "done" => MainReads(Final + 1, 0)

DebugSInv == SectionsInv /\ PlaceInv /\ PreInv /\ AfterInv /\ MainInv

-----------------------------------------------------------------------------
(* Where the subsections of a section begin: one behind the other, each in *)
(* the section, and the last one ends where the section ends or behind it. *)
LEMMA RoundedUp ==
  ASSUME NEW n \in Nat
  PROVE  Round(n) \in Nat /\ n <= Round(n)
BY DEF Round

LEMMA SubsAre ==
  ASSUME NEW sec \in Sec
  PROVE  /\ Len(sec.subs) \in Nat /\ DOMAIN sec.subs = 1 .. Len(sec.subs)
         /\ \A k \in 1 .. Len(sec.subs) : sec.subs[k] \in Subsections /\ sec.subs[k].cbLen \in Nat
<1>1. sec.subs \in Seq(Subsections)
  BY DEF Sec
<1> DEFINE q == sec.subs
<1> HIDE DEF q
<1>2. q \in Seq(Subsections)
  BY <1>1 DEF q
<1>3. Len(q) \in Nat /\ DOMAIN q = 1 .. Len(q) /\ \A k \in 1 .. Len(q) : q[k] \in Subsections
  BY <1>2
<1>4. \A s \in Subsections : s.cbLen \in Nat
  BY SizesAssumption DEF Subsections, SizesAssumption
<1> QED  BY <1>3, <1>4 DEF q

LEMMA StartsAre ==
  ASSUME NEW sec \in Sec
  PROVE  /\ Len(sec.subs) \in Nat /\ DOMAIN sec.subs = 1 .. Len(sec.subs)
         /\ \A k \in 1 .. Len(sec.subs) + 1 : Start(sec, k) \in Nat \ {0}
         /\ Start(sec, 1) = Signature
         /\ \A k \in 1 .. Len(sec.subs) : Start(sec, k + 1) = Next4(Start(sec, k), sec.subs[k])
         /\ \A j, k \in 1 .. Len(sec.subs) + 1 : j < k => Start(sec, j) < Start(sec, k)
<1> DEFINE q == Lengthened(sec)
           n == Len(sec.subs)
<1>1. n \in Nat /\ DOMAIN sec.subs = 1 .. n /\ \A k \in 1 .. n : sec.subs[k].cbLen \in Nat
  BY SubsAre
<1>2. \A k \in 1 .. n : Round(sec.subs[k].cbLen) \in Nat /\ Header + Round(sec.subs[k].cbLen) \in Nat \ {0}
  <2>1. \A l \in Nat : Round(l) \in Nat
    BY RoundedUp
  <2>2. \A r \in Nat : Header + r \in Nat \ {0}
    BY DEF Header
  <2> QED  BY <1>1, <2>1, <2>2
<1> HIDE DEF n
<1>3. q \in Seq(Nat) /\ Len(q) = n /\ \A k \in 1 .. n : q[k] = Header + Round(sec.subs[k].cbLen)
  BY <1>1, <1>2 DEF Lengthened
<1> HIDE DEF q
<1>4. /\ Sums(q)[0] = 0
      /\ \A k \in 0 .. n : Sums(q)[k] \in Nat
      /\ \A k \in 1 .. n : Sums(q)[k] = Sums(q)[k - 1] + q[k]
  BY <1>3, SumsAre
<1>5. \A j, k \in 0 .. n : j <= k => Sums(q)[j] <= Sums(q)[k]
  BY <1>3, SumsIncrease
<1>6. \A k : Start(sec, k) = 4 + Sums(q)[k - 1]
  BY DEF Start, q, Signature
<1>7. \A k \in 1 .. n + 1 : k - 1 \in 0 .. n
  BY <1>1
<1>8. \A k \in 1 .. n + 1 : Start(sec, k) \in Nat \ {0}
  BY <1>4, <1>6, <1>7
<1>9. Start(sec, 1) = Signature
  BY <1>4, <1>6 DEF Signature
<1>10. ASSUME NEW k \in 1 .. n
       PROVE  Start(sec, k + 1) = Next4(Start(sec, k), sec.subs[k])
  <2>1. Start(sec, k + 1) = 4 + Sums(q)[k] /\ Start(sec, k) = 4 + Sums(q)[k - 1]
    BY <1>1, <1>6
  <2>2. Sums(q)[k] = Sums(q)[k - 1] + q[k] /\ Sums(q)[k - 1] \in Nat
    <3>1. k - 1 \in 0 .. n
      BY <1>1
    <3> QED  BY <1>4, <3>1
  <2>3. q[k] = Header + Round(sec.subs[k].cbLen) /\ Round(sec.subs[k].cbLen) \in Nat
    BY <1>2, <1>3
  <2> QED  BY <2>1, <2>2, <2>3 DEF Next4, Header
<1>11. ASSUME NEW j \in 1 .. n + 1, NEW k \in 1 .. n + 1, j < k
       PROVE  Start(sec, j) < Start(sec, k)
  <2>1. j \in 1 .. n /\ j - 1 \in 0 .. n /\ j \in 0 .. n /\ k - 1 \in 0 .. n /\ j <= k - 1
    BY <1>1, <1>11
  <2>2. Sums(q)[j] = Sums(q)[j - 1] + q[j] /\ Sums(q)[j] <= Sums(q)[k - 1]
    BY <1>4, <1>5, <2>1
  <2>3. q[j] > 0 /\ q[j] \in Nat
    BY <1>2, <1>3, <2>1
  <2>4. Sums(q)[j - 1] \in Nat /\ Sums(q)[j] \in Nat /\ Sums(q)[k - 1] \in Nat
    BY <1>4, <2>1
  <2> QED  BY <1>6, <2>2, <2>3, <2>4
<1> QED  BY <1>1, <1>8, <1>9, <1>10, <1>11 DEF n

LEMMA SizeIs ==
  ASSUME NEW sec \in Sec
  PROVE  /\ SizeOfRawData(sec) \in Nat
         /\ SizeOfRawData(sec) <= Start(sec, Len(sec.subs) + 1)
         /\ \A k \in 1 .. Len(sec.subs) : Start(sec, k) < SizeOfRawData(sec)
<1> DEFINE n == Len(sec.subs)
<1>1. n \in Nat /\ DOMAIN sec.subs = 1 .. n /\ \A k \in 1 .. n : sec.subs[k].cbLen \in Nat
  BY SubsAre
<1>2. /\ \A k \in 1 .. n + 1 : Start(sec, k) \in Nat \ {0}
      /\ \A k \in 1 .. n : Start(sec, k + 1) = Next4(Start(sec, k), sec.subs[k])
      /\ \A j, k \in 1 .. n + 1 : j < k => Start(sec, j) < Start(sec, k)
  BY StartsAre
<1>3. SizeOfRawData(sec) = IF n = 0 \/ sec.padded THEN Start(sec, n + 1)
                           ELSE Start(sec, n) + Header + sec.subs[n].cbLen
  BY DEF SizeOfRawData
<1> HIDE DEF n
<1>4. CASE n = 0 \/ sec.padded
  <2>1. n + 1 \in 1 .. n + 1 /\ SizeOfRawData(sec) = Start(sec, n + 1)
    BY <1>1, <1>3, <1>4
  <2>2. Start(sec, n + 1) \in Nat
    BY <1>2, <2>1
  <2>3. \A k \in 1 .. n : k \in 1 .. n + 1 /\ k < n + 1
    BY <1>1
  <2>4. \A k \in 1 .. n : Start(sec, k) < Start(sec, n + 1)
    BY <1>2, <2>1, <2>3
  <2> QED  BY <2>1, <2>2, <2>4 DEF n
<1>5. CASE ~(n = 0 \/ sec.padded)
  <2> DEFINE s == Start(sec, n)
             l == sec.subs[n].cbLen
  <2>1. n \in 1 .. n /\ n \in 1 .. n + 1 /\ SizeOfRawData(sec) = s + Header + l
    BY <1>1, <1>3, <1>5
  <2>2. s \in Nat /\ l \in Nat
    BY <1>1, <1>2, <2>1
  <2>3. Start(sec, n + 1) = s + Header + Round(l) /\ Round(l) \in Nat /\ l <= Round(l)
    BY <1>1, <1>2, <2>1, <2>2, RoundedUp DEF Next4
  <2> HIDE DEF s, l
  <2>4. SizeOfRawData(sec) \in Nat /\ SizeOfRawData(sec) <= Start(sec, n + 1) /\ s < SizeOfRawData(sec)
    BY <2>1, <2>2, <2>3 DEF Header
  <2>5. ASSUME NEW k \in 1 .. n PROVE Start(sec, k) <= s
    <3>1. CASE k = n
      BY <2>2, <3>1 DEF s
    <3>2. CASE k < n
      BY <1>1, <1>2, <2>1, <3>2 DEF s
    <3> QED  BY <1>1, <3>1, <3>2
  <2>6. ASSUME NEW k \in 1 .. n PROVE Start(sec, k) < SizeOfRawData(sec)
    <3>1. Start(sec, k) \in Nat /\ Start(sec, k) <= s
      BY <1>1, <1>2, <2>5
    <3> QED  BY <2>2, <2>4, <3>1
  <2> QED  BY <2>4, <2>6 DEF n
<1> QED  BY <1>4, <1>5 DEF n

(* The subsection that begins where the n+1st does is that, and none does  *)
(* behind the last.                                                        *)
LEMMA HereIs ==
  ASSUME Section \in Sec, NEW n \in Nat, n <= Len(Section.subs), p = Start(Section, n + 1)
  PROVE  /\ n < Len(Section.subs) =>
              Here = n + 1 /\ p < Size /\ Next4(p, Section.subs[n + 1]) = Start(Section, n + 2)
         /\ n = Len(Section.subs) => Here = 0 /\ p >= Size
<1> DEFINE sec == Section
           N == Len(sec.subs)
<1>1. /\ N \in Nat /\ DOMAIN sec.subs = 1 .. N
      /\ \A k \in 1 .. N + 1 : Start(sec, k) \in Nat \ {0}
      /\ \A k \in 1 .. N : Start(sec, k + 1) = Next4(Start(sec, k), sec.subs[k])
      /\ \A j, k \in 1 .. N + 1 : j < k => Start(sec, j) < Start(sec, k)
  BY StartsAre
<1>2. /\ SizeOfRawData(sec) \in Nat
      /\ SizeOfRawData(sec) <= Start(sec, N + 1)
      /\ \A k \in 1 .. N : Start(sec, k) < SizeOfRawData(sec)
  BY SizeIs
<1>3. /\ Here = IF \E k \in DOMAIN sec.subs : Start(sec, k) = p
                THEN CHOOSE k \in DOMAIN sec.subs : Start(sec, k) = p ELSE 0
      /\ p = Start(sec, n + 1) /\ n <= N /\ Size = SizeOfRawData(sec)
  BY DEF Here, Size
<1> HIDE DEF sec, N
<1>4. n + 1 \in 1 .. N + 1
  BY <1>1, <1>3
<1>5. ASSUME NEW k \in 1 .. N, Start(sec, k) = p PROVE k = n + 1
  <2>1. k \in 1 .. N + 1 /\ k \in Nat
    BY <1>1
  <2>2. Start(sec, k) = Start(sec, n + 1) /\ Start(sec, k) \in Nat
    BY <1>1, <1>3, <1>5, <2>1
  <2>3. ~(k < n + 1) /\ ~(n + 1 < k)
    <3>1. /\ k < n + 1 => Start(sec, k) < Start(sec, n + 1)
          /\ n + 1 < k => Start(sec, n + 1) < Start(sec, k)
      BY <1>1, <1>4, <2>1
    <3> DEFINE s == Start(sec, k)
               t == Start(sec, n + 1)
    <3> HIDE DEF s, t
    <3>2. s = t /\ s \in Nat /\ (k < n + 1 => s < t) /\ (n + 1 < k => t < s)
      BY <2>2, <3>1 DEF s, t
    <3> QED  BY <3>2
  <2> QED  BY <2>1, <2>3
<1>6. ASSUME n < N
      PROVE  Here = n + 1 /\ p < Size /\ Next4(p, sec.subs[n + 1]) = Start(sec, n + 2)
  <2>1. n + 1 \in 1 .. N /\ n + 1 + 1 = n + 2
    BY <1>1, <1>6
  <2>2. Here = n + 1
    BY <1>1, <1>3, <1>5, <2>1
  <2> QED  BY <1>1, <1>2, <1>3, <2>1, <2>2
<1>7. ASSUME n = N PROVE Here = 0 /\ p >= Size
  <2>1. ~ \E k \in DOMAIN sec.subs : Start(sec, k) = p
    BY <1>1, <1>5, <1>7
  <2>2. p \in Nat
    BY <1>1, <1>3, <1>4
  <2> QED  BY <1>2, <1>3, <1>7, <2>1, <2>2
<1> QED  BY <1>6, <1>7 DEF sec, N

LEMMA SizePositive == ASSUME NEW sec \in Sec PROVE SizeOfRawData(sec) > 0
<1>1. Len(sec.subs) \in Nat /\ SizeOfRawData(sec) \in Nat
  BY SubsAre, SizeIs
<1>2. Start(sec, 1) = 4
  BY StartsAre DEF Signature
<1>3. CASE Len(sec.subs) = 0
  BY <1>2, <1>3 DEF SizeOfRawData
<1>4. CASE Len(sec.subs) # 0
  <2>1. 1 \in 1 .. Len(sec.subs)
    BY <1>1, <1>4
  <2>2. 4 < SizeOfRawData(sec)
    BY <1>2, <2>1, SizeIs
  <2> QED  BY <1>1, <2>2
<1> QED  BY <1>3, <1>4

-----------------------------------------------------------------------------
(* How far the walks have come.                                            *)
LEMMA FinalIs ==
  ASSUME SectionsInv
  PROVE  /\ Final \in Nat /\ Final <= Len(sections) /\ Len(sections) \in Nat
         /\ \A i \in 1 .. Final + 1 : i <= Count <=> i <= Final
<1>1. Len(sections) \in Nat /\ ShortMax \in Nat /\ Len(sections) < 2 * (ShortMax + 1)
  BY SizesAssumption DEF SectionsInv, SizesAssumption
<1> DEFINE n == Len(sections)
<1> HIDE DEF n
<1>2. n \in Nat /\ n < 2 * (ShortMax + 1)
  BY <1>1 DEF n
<1>3. n % (2 * (ShortMax + 1)) = n
  BY <1>1, <1>2
<1>4. Count = IF n > ShortMax THEN n - 2 * (ShortMax + 1) ELSE n
  BY <1>3 DEF Count, n
<1>5. Final = IF n <= ShortMax THEN n ELSE 0
  BY DEF Final, Fits, n
<1>6. CASE n <= ShortMax
  <2>1. Final = n /\ Count = n
    BY <1>1, <1>2, <1>4, <1>5, <1>6
  <2> QED  BY <1>1, <1>2, <2>1 DEF n
<1>7. CASE n > ShortMax
  <2>1. Final = 0 /\ Count < 0 /\ Count \in Int
    BY <1>1, <1>2, <1>4, <1>5, <1>7
  <2>2. \A i \in 1 .. Final + 1 : i = 1
    BY <2>1
  <2> QED  BY <1>1, <1>2, <2>1, <2>2 DEF n
<1> QED  BY <1>1, <1>2, <1>6, <1>7

LEMMA CountType == ASSUME SectionsInv PROVE Count \in Int
<1> DEFINE n == Len(sections) % (2 * (ShortMax + 1))
<1>1. Len(sections) \in Nat /\ ShortMax \in Nat
  BY SizesAssumption DEF SectionsInv, SizesAssumption
<1>2. n \in Int
  BY <1>1
<1> HIDE DEF n
<1>3. Count = IF n > ShortMax THEN n - 2 * (ShortMax + 1) ELSE n
  BY DEF Count, n
<1> QED  BY <1>1, <1>2, <1>3

LEMMA SecIs ==
  ASSUME SectionsInv, NEW i \in 1 .. Final
  PROVE  i \in DOMAIN sections /\ sections[i] \in Sec
<1>1. sections \in Seq(Sec) /\ DOMAIN sections = 1 .. Len(sections)
  BY DEF SectionsInv
<1>2. i \in 1 .. Len(sections)
  BY FinalIs
<1> QED  BY <1>1, <1>2

LEMMA SubsOfIs ==
  ASSUME SectionsInv, NEW i \in 1 .. Final
  PROVE  /\ Len(sections[i].subs) \in Nat
         /\ SubsOf(i) = {<<i, k>> : k \in 1 .. Len(sections[i].subs)}
<1>1. DOMAIN sections[i].subs = 1 .. Len(sections[i].subs) /\ Len(sections[i].subs) \in Nat
  BY SecIs, SubsAre
<1> QED  BY <1>1 DEF SubsOf

(* Another section, another subsection.                                    *)
LEMMA BeforeFirst == Before(1, 0) = {} /\ LinesBefore(1) = {}
<1>1. 1 .. 1 - 1 = {} /\ 1 .. 0 = {}
  OBVIOUS
<1> QED  BY <1>1 DEF Before, LinesBefore

LEMMA BeforeNext ==
  ASSUME SectionsInv, NEW i \in 1 .. Final
  PROVE  /\ Before(i, Len(sections[i].subs)) = Before(i + 1, 0)
         /\ NoSubs(i) => Before(i, 0) = Before(i + 1, 0)
         /\ LinesBefore(i + 1) = LinesBefore(i) \cup LinesOf(i)
<1>1. i \in Nat /\ 1 .. i + 1 - 1 = (1 .. i - 1) \cup {i} /\ 1 .. 0 = {}
  <2>1. Final \in Nat
    BY FinalIs
  <2> QED  BY <2>1
<1>2. SubsOf(i) = {<<i, k>> : k \in 1 .. Len(sections[i].subs)}
  BY SubsOfIs
<1>3. Before(i, Len(sections[i].subs)) = Before(i + 1, 0)
  <2> DEFINE A == 1 .. i - 1
  <2>1. Before(i, Len(sections[i].subs)) = (UNION {SubsOf(j) : j \in A}) \cup SubsOf(i)
    BY <1>2 DEF Before
  <2>2. {<<i + 1, k>> : k \in 1 .. 0} = {}
    BY <1>1
  <2>3. Before(i + 1, 0) = UNION {SubsOf(j) : j \in A \cup {i}}
    BY <1>1, <2>2 DEF Before
  <2> HIDE DEF A
  <2>4. UNION {SubsOf(j) : j \in A \cup {i}} = (UNION {SubsOf(j) : j \in A}) \cup SubsOf(i)
    <3>1. \A r : r \in UNION {SubsOf(j) : j \in A \cup {i}} <=>
                   \E j \in A \cup {i} : r \in SubsOf(j)
      OBVIOUS
    <3>2. \A r : r \in (UNION {SubsOf(j) : j \in A}) \cup SubsOf(i) <=>
                   (\E j \in A : r \in SubsOf(j)) \/ r \in SubsOf(i)
      OBVIOUS
    <3>3. \A r : (\E j \in A \cup {i} : r \in SubsOf(j)) <=>
                   (\E j \in A : r \in SubsOf(j)) \/ r \in SubsOf(i)
      OBVIOUS
    <3> QED  BY <3>1, <3>2, <3>3
  <2> QED  BY <2>1, <2>3, <2>4
<1>4. LinesBefore(i + 1) = LinesBefore(i) \cup LinesOf(i)
  BY <1>1 DEF LinesBefore
<1>5. NoSubs(i) => Len(sections[i].subs) = 0
  BY DEF NoSubs
<1> QED  BY <1>3, <1>4, <1>5

LEMMA BeforeSub ==
  ASSUME NEW i \in Nat, NEW n \in Nat
  PROVE  Before(i, n + 1) = Before(i, n) \cup {<<i, n + 1>>}
<1>1. 1 .. n + 1 = (1 .. n) \cup {n + 1}
  OBVIOUS
<1> DEFINE A == 1 .. n
           a == n + 1
<1>2. {<<i, k>> : k \in 1 .. n + 1} = {<<i, k>> : k \in A \cup {a}}
  BY <1>1
<1> HIDE DEF A, a
<1>3. {<<i, k>> : k \in A \cup {a}} = {<<i, k>> : k \in A} \cup {<<i, a>>}
  OBVIOUS
<1> DEFINE U == UNION {SubsOf(j) : j \in 1 .. i - 1}
<1>4. Before(i, n + 1) = U \cup {<<i, k>> : k \in A \cup {a}}
  BY <1>2 DEF Before
<1>5. Before(i, n) = U \cup {<<i, k>> : k \in A}
  BY DEF Before, A
<1> HIDE DEF U
<1> QED  BY <1>3, <1>4, <1>5 DEF a

LEMMA LinesOfNone == ASSUME NEW i, NoSubs(i) PROVE LinesOf(i) = {} /\ ~HasTable(i)
<1>1. DOMAIN sections[i].subs = {}
  BY DEF NoSubs
<1> QED  BY <1>1 DEF LinesOf, HasTable, TypesOf

-----------------------------------------------------------------------------
(* The first state.                                                        *)
LEMMA PartOfSeq ==
  ASSUME NEW T, NEW q \in Seq(T), NEW m \in 0 .. Len(q), NEW n \in 0 .. Len(q), m <= n
  PROVE  SubSeq(q, m + 1, n) \in Seq(T)
<1>1. m + 1 \in 1 .. Len(q) + 1 /\ n \in m + 1 - 1 .. Len(q)
  OBVIOUS
<1> QED  BY <1>1, SubSeqProperties

LEMMA SectionsInit == WalkInit => SectionsInv
<1> SUFFICES ASSUME WalkInit PROVE SectionsInv
  OBVIOUS
<1>1. PICK q \in BoundedSeq(Subsections, MaxSubs), n \in 0 .. MaxDebugS :
        sections \in SectionsOf(q, n)
  BY DEF WalkInit
<1>2. n \in Nat /\ n < 2 * (ShortMax + 1)
  BY SizesAssumption DEF SizesAssumption
<1>3. q \in Seq(Subsections)
  BY <1>1 DEF BoundedSeq, SeqOf
<1>4. PICK ends \in [0 .. n -> 0 .. Len(q)], debugS \in [1 .. n -> BOOLEAN],
           padded \in [1 .. n -> BOOLEAN] :
        /\ sections = Split(q, ends, debugS, padded)
        /\ \A i \in 1 .. n : ends[i - 1] <= ends[i]
  BY <1>1 DEF SectionsOf
<1>5. \A i \in 1 .. n : ~sections[i].debugS => sections[i].subs = << >>
  BY <1>1 DEF SectionsOf
<1>6. sections = [i \in 1 .. n |->
        [debugS |-> debugS[i], padded |-> padded[i],
         subs |-> SubSeq(q, ends[i - 1] + 1, ends[i])]]
  BY <1>4 DEF Split
<1>7. ASSUME NEW i \in 1 .. n PROVE sections[i] \in Sec
  <2>1. i \in 0 .. n /\ i - 1 \in 0 .. n
    BY <1>2
  <2>2. ends[i - 1] \in 0 .. Len(q) /\ ends[i] \in 0 .. Len(q) /\ ends[i - 1] <= ends[i]
    BY <1>4, <2>1
  <2>3. SubSeq(q, ends[i - 1] + 1, ends[i]) \in Seq(Subsections)
    BY <1>3, <2>2, PartOfSeq
  <2> QED  BY <1>4, <1>6, <2>3 DEF Sec
<1>8. sections \in Seq(Sec) /\ Len(sections) = n /\ DOMAIN sections = 1 .. n
  BY <1>2, <1>6, <1>7
<1>9. OneTable
  BY DEF WalkInit
<1> QED  BY <1>2, <1>5, <1>8, <1>9 DEF SectionsInv, NoSubs

LEMMA DebugSInit == WalkInit => DebugSInv
<1> SUFFICES ASSUME WalkInit PROVE DebugSInv
  OBVIOUS
<1>1. SectionsInv
  BY SectionsInit
<1>2. /\ pass = "pre" /\ at = 1 /\ p = 0 /\ haveFiles = FALSE /\ lines = {}
      /\ read = [pre |-> {}, main |-> {}]
  BY DEF WalkInit
<1>3. PlaceInv
  <2>1. 1 \in 1 .. Final + 1
    BY <1>1, FinalIs
  <2> QED  BY <1>2, <2>1 DEF PlaceInv
<1>4. PreInv
  BY <1>2, BeforeFirst DEF PreInv
<1>5. AfterInv /\ MainInv
  BY <1>2 DEF AfterInv, MainInv
<1> QED  BY <1>1, <1>3, <1>4, <1>5 DEF DebugSInv

-----------------------------------------------------------------------------
(* The steps. The sections stay, and all that is said of them alone.       *)
LEMMA SectionsStay ==
  ASSUME UNCHANGED sections
  PROVE  /\ SectionsInv => SectionsInv'
         /\ Final' = Final
         /\ \A i, n : Before(i, n)' = Before(i, n)
         /\ \A i : LinesBefore(i)' = LinesBefore(i)
         /\ \A i : NoSubs(i)' <=> NoSubs(i)
         /\ \A i : HasTable(i)' <=> HasTable(i)
<1>1. SectionsInv => SectionsInv'
  BY DEF SectionsInv, NoSubs, OneTable
<1>2. Final' = Final
  BY DEF Final, Fits
<1>3. \A i, n : Before(i, n)' = Before(i, n)
  BY DEF Before, SubsOf
<1>4. \A i : HasTable(i)' <=> HasTable(i)
  BY DEF HasTable
<1>5. \A i : LinesBefore(i)' = LinesBefore(i)
  BY DEF LinesBefore, LinesOf, HasTable
<1>6. \A i : NoSubs(i)' <=> NoSubs(i)
  BY DEF NoSubs
<1> QED  BY <1>1, <1>2, <1>3, <1>4, <1>5, <1>6

LEMMA MainReadsStay ==
  ASSUME UNCHANGED sections, read'.main = read.main
  PROVE  \A i, n : MainReads(i, n)' <=> MainReads(i, n)
<1>1. Final' = Final /\ (\A i, n : Before(i, n)' = Before(i, n)) /\ \A i : NoSubs(i)' <=> NoSubs(i)
  BY SectionsStay
<1> QED  BY <1>1 DEF MainReads

LEMMA MainReadsFirst ==
  ASSUME read.main = {}
  PROVE  MainReads(1, 0)
BY BeforeFirst DEF MainReads

(* A section with nothing to walk, or the end of one, is left.             *)
LEMMA PlaceLeft ==
  ASSUME SectionsInv, PlaceInv, at <= Final, pass # "done", LeaveSection,
         UNCHANGED <<sections, pass>>, read' = [pre |-> read'.pre, main |-> read'.main]
  PROVE  PlaceInv'
<1>1. at \in Nat /\ Final \in Nat /\ at' = at + 1 /\ p' = 0 /\ Final' = Final
  BY FinalIs, SectionsStay DEF PlaceInv, LeaveSection
<1>2. at' \in 1 .. Final + 1
  BY <1>1 DEF PlaceInv
<1> QED  BY <1>1, <1>2 DEF PlaceInv

LEMMA SkipStep == DebugSInv /\ SkipSection => DebugSInv'
<1> SUFFICES ASSUME DebugSInv, SkipSection PROVE DebugSInv'
  OBVIOUS
<1>1. SectionsInv /\ PlaceInv /\ PreInv /\ AfterInv /\ MainInv
  BY DEF DebugSInv
<1>2. /\ at <= Final /\ at \in 1 .. Final /\ at \in Nat /\ NoSubs(at) /\ p = 0 /\ pass # "done"
  <2>1. at \in 1 .. Final + 1 /\ at <= Count /\ Final \in Nat
    BY <1>1, FinalIs DEF PlaceInv, SkipSection
  <2>2. at <= Final
    BY <1>1, <2>1, FinalIs
  <2>3. at \in DOMAIN sections /\ ~sections[at].debugS
    BY <1>1, <2>1, <2>2, SecIs DEF SkipSection, Section
  <2>4. p = 0
    BY <1>1, <2>3 DEF PlaceInv, Section
  <2> QED  BY <1>1, <2>1, <2>2, <2>3, <2>4 DEF SkipSection, SectionsInv
<1>3. /\ at' = at + 1 /\ p' = 0 /\ LeaveSection
      /\ UNCHANGED <<sections, pass, raw, haveFiles, lines, read>>
  BY DEF SkipSection, LeaveSection
<1>4. /\ Before(at, 0) = Before(at + 1, 0) /\ LinesBefore(at + 1) = LinesBefore(at)
      /\ ~HasTable(at)
  BY <1>1, <1>2, BeforeNext, LinesOfNone
<1>5. /\ SectionsInv' /\ Final' = Final
      /\ \A i, n : Before(i, n)' = Before(i, n)
      /\ \A i : LinesBefore(i)' = LinesBefore(i)
      /\ \A i : HasTable(i)' <=> HasTable(i)
      /\ \A i, n : MainReads(i, n)' <=> MainReads(i, n)
  BY <1>1, <1>3, SectionsStay, MainReadsStay
<1>6. PlaceInv'
  BY <1>1, <1>2, <1>3, PlaceLeft DEF PlaceInv
<1>7. PreInv'
  <2> SUFFICES ASSUME pass = "pre" PROVE PreInv'
    BY <1>3 DEF PreInv
  <2>1. /\ read.main = {} /\ lines = LinesBefore(at) /\ read.pre = Before(at, 0)
        /\ haveFiles <=> \E i \in 1 .. at - 1 : HasTable(i)
    BY <1>1, <1>2 DEF PreInv
  <2>2. haveFiles <=> \E i \in 1 .. at : HasTable(i)
    BY <1>2, <1>4, <2>1
  <2>3. haveFiles' <=> \E i \in 1 .. at' - 1 : HasTable(i)'
    BY <1>2, <1>3, <1>5, <2>2
  <2>4. lines' = LinesBefore(at)' /\ read'.pre = Before(at, 0)' /\ read'.main = {}
    BY <1>3, <1>4, <1>5, <2>1
  <2> QED  BY <1>3, <2>3, <2>4 DEF PreInv
<1>8. AfterInv'
  BY <1>1, <1>3, <1>5 DEF AfterInv
<1>9. MainInv'
  <2> SUFFICES ASSUME pass = "main" PROVE MainReads(at, 0)'
    BY <1>2, <1>3 DEF MainInv
  <2>1. MainReads(at, 0)
    BY <1>1, <1>2 DEF MainInv
  <2>2. MainReads(at + 1, 0)
    BY <1>4, <2>1 DEF MainReads
  <2> QED  BY <1>3, <1>5, <2>2
<1> QED  BY <1>5, <1>6, <1>7, <1>8, <1>9 DEF DebugSInv

LEMMA EnterStep == DebugSInv /\ EnterSection => DebugSInv'
<1> SUFFICES ASSUME DebugSInv, EnterSection PROVE DebugSInv'
  OBVIOUS
<1>1. SectionsInv /\ PlaceInv /\ PreInv /\ AfterInv /\ MainInv
  BY DEF DebugSInv
<1>2. at <= Final /\ at \in 1 .. Final /\ p = 0 /\ pass # "done" /\ Section.debugS
  <2>1. at \in 1 .. Final + 1 /\ at <= Count /\ Final \in Nat
    BY <1>1, FinalIs DEF PlaceInv, EnterSection
  <2>2. at <= Final
    BY <1>1, <2>1, FinalIs
  <2> QED  BY <2>1, <2>2 DEF EnterSection
<1>3. Section \in Sec
  BY <1>1, <1>2, SecIs DEF Section
<1>4. /\ p' = Signature /\ raw' = << >>
      /\ UNCHANGED <<sections, pass, at, haveFiles, lines, read>>
  BY DEF EnterSection
<1>5. p' = Start(Section, 0 + 1) /\ p' \in Nat /\ p' > 0 /\ Len(Section.subs) \in Nat
  BY <1>3, <1>4, StartsAre, SubsAre DEF Signature
<1>6. /\ SectionsInv' /\ Final' = Final /\ Section' = Section
      /\ \A i, n : Before(i, n)' = Before(i, n)
      /\ \A i : LinesBefore(i)' = LinesBefore(i)
      /\ \A i : NoSubs(i)' <=> NoSubs(i)
      /\ \A i : HasTable(i)' <=> HasTable(i)
      /\ \A i, n : MainReads(i, n)' <=> MainReads(i, n)
  BY <1>1, <1>4, SectionsStay, MainReadsStay DEF Section
<1>7. PlaceInv'
  BY <1>1, <1>2, <1>4, <1>5, <1>6 DEF PlaceInv
<1>8. PreInv'
  <2> SUFFICES ASSUME pass = "pre" PROVE PreInv'
    BY <1>4 DEF PreInv
  <2>1. /\ read.main = {} /\ lines = LinesBefore(at) /\ read.pre = Before(at, 0)
        /\ haveFiles <=> \E i \in 1 .. at - 1 : HasTable(i)
    BY <1>1, <1>2 DEF PreInv
  <2>2. /\ read'.main = {} /\ lines' = LinesBefore(at)' /\ read'.pre = Before(at, 0)'
        /\ haveFiles' <=> \E i \in 1 .. at' - 1 : HasTable(i)'
    BY <1>4, <1>6, <2>1
  <2>3. raw' \in Seq(Nat) /\ Len(raw') = 0 /\ \A k \in 1 .. Len(raw') : raw'[k] = k
    BY <1>4
  <2>4. p' = Start(Section', Len(raw') + 1) /\ Len(raw') <= Len(Section'.subs) /\ p' > 0
    BY <1>5, <1>6, <2>3
  <2>5. read'.pre = Before(at, Len(raw))'
    BY <2>2, <2>3
  <2> QED  BY <2>2, <2>3, <2>4, <2>5 DEF PreInv
<1>9. AfterInv'
  BY <1>1, <1>4, <1>6 DEF AfterInv
<1>10. MainInv'
  <2> SUFFICES ASSUME pass = "main" PROVE MainInv'
    BY <1>2, <1>4 DEF MainInv
  <2>1. MainReads(at, 0)'
    BY <1>1, <1>2, <1>4, <1>6 DEF MainInv
  <2>2. 0 < Len(Section'.subs) \/ NoSubs(at)'
    <3>1. Len(Section.subs) = 0 => Section.subs = << >>
      BY <1>3 DEF Sec
    <3> QED  BY <1>4, <1>5, <1>6, <3>1 DEF NoSubs, Section
  <2>3. p' = Start(Section', 0 + 1) /\ p' > 0
    BY <1>5, <1>6
  <2>4. /\ 0 < Len(Section'.subs) \/ (0 = 0 /\ NoSubs(at)')
        /\ p' = Start(Section', 0 + 1) /\ MainReads(at, 0)'
    BY <2>1, <2>2, <2>3
  <2> QED  BY <1>4, <2>3, <2>4 DEF MainInv
<1> QED  BY <1>6, <1>7, <1>8, <1>9, <1>10 DEF DebugSInv

LEMMA PreReadStep == DebugSInv /\ PreRead => DebugSInv'
<1> SUFFICES ASSUME DebugSInv, PreRead PROVE DebugSInv'
  OBVIOUS
<1>1. SectionsInv /\ PlaceInv /\ PreInv /\ AfterInv /\ MainInv
  BY DEF DebugSInv
<1>2. pass = "pre" /\ p > 0 /\ p < Size /\ p \in Nat
  BY <1>1 DEF PreRead, Walking, PlaceInv
<1>3. at <= Final /\ at \in 1 .. Final /\ at \in Nat /\ Section \in Sec /\ Section.debugS
  <2>1. at <= Final /\ at \in 1 .. Final + 1 /\ Final \in Nat /\ Section.debugS
    BY <1>1, <1>2, FinalIs DEF PlaceInv
  <2>2. at \in 1 .. Final /\ at \in Nat
    BY <2>1
  <2> QED  BY <1>1, <2>1, <2>2, SecIs DEF Section
<1> DEFINE n == Len(raw)
<1>4. /\ raw \in Seq(Nat) /\ n \in Nat /\ n <= Len(Section.subs)
      /\ \A k \in 1 .. n : raw[k] = k
      /\ p = Start(Section, n + 1)
      /\ read.pre = Before(at, n) /\ read.main = {} /\ lines = LinesBefore(at)
      /\ haveFiles <=> \E i \in 1 .. at - 1 : HasTable(i)
  BY <1>1, <1>2 DEF PreInv
<1>5. Len(Section.subs) \in Nat /\ Size \in Nat
  BY <1>3, SubsAre, SizeIs DEF Size
<1>6. n < Len(Section.subs) /\ Here = n + 1 /\ Next4(p, Section.subs[n + 1]) = Start(Section, n + 2)
  <2> HIDE DEF n
  <2>1. n # Len(Section.subs)
    BY <1>2, <1>3, <1>4, <1>5, HereIs
  <2>2. n < Len(Section.subs)
    BY <1>4, <1>5, <2>1
  <2> QED  BY <1>3, <1>4, <2>2, HereIs
<1>7. /\ p' = Start(Section, n + 2) /\ raw' = Append(raw, n + 1)
      /\ read' = [read EXCEPT !.pre = @ \cup {<<at, n + 1>>}]
      /\ UNCHANGED <<sections, pass, at, haveFiles, lines>>
  <2> HIDE DEF n
  <2>1. Here # 0
    BY <1>4, <1>6
  <2> QED  BY <1>6, <2>1 DEF PreRead
<1>8. /\ SectionsInv' /\ Final' = Final /\ Section' = Section
      /\ \A i, k : Before(i, k)' = Before(i, k)
      /\ \A i : LinesBefore(i)' = LinesBefore(i)
      /\ \A i : HasTable(i)' <=> HasTable(i)
  BY <1>1, <1>7, SectionsStay DEF Section
<1>9. /\ read'.pre = read.pre \cup {<<at, n + 1>>} /\ read'.main = read.main
      /\ read' = [pre |-> read'.pre, main |-> read'.main]
  <2>1. read = [pre |-> read.pre, main |-> read.main]
    BY <1>1 DEF PlaceInv
  <2> DEFINE w == read.pre \cup {<<at, n + 1>>}
  <2>2. read' = [pre |-> w, main |-> read.main]
    BY <1>7, <2>1
  <2> HIDE DEF w
  <2>3. read'.pre = w /\ read'.main = read.main
    BY <2>2
  <2> QED  BY <2>2, <2>3 DEF w
<1>10. n + 2 \in 1 .. Len(Section.subs) + 1
  BY <1>4, <1>5, <1>6
<1>11. p' \in Nat /\ p' > 0
  <2>1. Start(Section, n + 2) \in Nat \ {0}
    BY <1>3, <1>10, StartsAre
  <2> QED  BY <1>7, <2>1
<1>12. PlaceInv'
  BY <1>1, <1>3, <1>7, <1>8, <1>9, <1>11 DEF PlaceInv
<1>13. PreInv'
  <2>1. /\ raw' \in Seq(Nat) /\ Len(raw') = n + 1
        /\ \A k \in 1 .. n : raw'[k] = raw[k]
        /\ raw'[n + 1] = n + 1
    BY <1>4, <1>7
  <2>2. ASSUME NEW k \in 1 .. n + 1 PROVE raw'[k] = k
    <3> HIDE DEF n
    <3>1. k \in 1 .. n \/ k = n + 1
      BY <1>4
    <3> QED  BY <1>4, <2>1, <3>1
  <2>3. read'.pre = Before(at, n + 1)
    <3> HIDE DEF n
    <3> QED  BY <1>3, <1>4, <1>9, BeforeSub
  <2>4. n + 1 + 1 = n + 2 /\ n + 1 <= Len(Section.subs)
    BY <1>4, <1>5, <1>6
  <2>5. Before(at, Len(raw))' = Before(at, n + 1)
    <3> HIDE DEF n
    <3> QED  BY <1>7, <1>8, <2>1
  <2>6. /\ read'.main = {} /\ lines' = LinesBefore(at)'
        /\ haveFiles' <=> \E i \in 1 .. at' - 1 : HasTable(i)'
    BY <1>4, <1>7, <1>8, <1>9
  <2>7. /\ Len(raw') <= Len(Section'.subs) /\ \A k \in 1 .. Len(raw') : raw'[k] = k
        /\ p' = Start(Section', Len(raw') + 1)
    <3> HIDE DEF n
    <3> QED  BY <1>7, <1>8, <2>1, <2>2, <2>4
  <2> HIDE DEF n
  <2> QED  BY <1>11, <2>1, <2>3, <2>5, <2>6, <2>7 DEF PreInv
<1>14. AfterInv' /\ MainInv'
  BY <1>2, <1>7 DEF AfterInv, MainInv
<1> QED  BY <1>8, <1>12, <1>13, <1>14 DEF DebugSInv

(* At the end of a section all of it has been collected, and so the tables *)
(* if it has them.                                                         *)
LEMMA PreLeaveStep == DebugSInv /\ PreLeave => DebugSInv'
<1> SUFFICES ASSUME DebugSInv, PreLeave PROVE DebugSInv'
  OBVIOUS
<1>1. SectionsInv /\ PlaceInv /\ PreInv /\ AfterInv /\ MainInv
  BY DEF DebugSInv
<1>2. pass = "pre" /\ p >= Size /\ p \in Nat
  BY <1>1 DEF PreLeave, Walking, PlaceInv
<1>3. p > 0
  <2>1. at <= Count /\ at \in 1 .. Final + 1 /\ Final \in Nat
    BY <1>1, FinalIs DEF PreLeave, Walking, PlaceInv
  <2>2. at \in 1 .. Final
    BY <1>1, <2>1, FinalIs
  <2>3. Section \in Sec
    BY <1>1, <2>2, SecIs DEF Section
  <2>4. Size > 0 /\ Size \in Nat
    BY <2>3, SizePositive, SizeIs DEF Size
  <2> QED  BY <1>2, <2>4
<1>4. at <= Final /\ at \in 1 .. Final /\ at \in Nat /\ Section \in Sec
  <2>1. at <= Final /\ at \in 1 .. Final + 1 /\ Final \in Nat
    BY <1>1, <1>3, FinalIs DEF PlaceInv
  <2>2. at \in 1 .. Final /\ at \in Nat
    BY <2>1
  <2> QED  BY <1>1, <2>1, <2>2, SecIs DEF Section
<1> DEFINE n == Len(raw)
<1>5. /\ raw \in Seq(Nat) /\ n \in Nat /\ n <= Len(Section.subs)
      /\ \A k \in 1 .. n : raw[k] = k
      /\ p = Start(Section, n + 1)
      /\ read.pre = Before(at, n) /\ read.main = {} /\ lines = LinesBefore(at)
      /\ haveFiles <=> \E i \in 1 .. at - 1 : HasTable(i)
  BY <1>1, <1>2, <1>3 DEF PreInv
<1>6. n = Len(Section.subs)
  <2> HIDE DEF n
  <2>1. Len(Section.subs) \in Nat /\ Size \in Nat
    BY <1>4, SubsAre, SizeIs DEF Size
  <2>2. ~(n < Len(Section.subs))
    BY <1>2, <1>4, <1>5, <2>1, HereIs
  <2> QED  BY <1>5, <2>1, <2>2
<1>7. Range(raw) = DOMAIN Section.subs
  <2>1. DOMAIN Section.subs = 1 .. n
    BY <1>4, <1>6, SubsAre
  <2>2. DOMAIN raw = 1 .. n
    BY <1>5
  <2> HIDE DEF n
  <2> QED  BY <1>5, <2>1, <2>2 DEF Range
<1>8. \A type : Collected(type) = {k \in DOMAIN Section.subs : Section.subs[k].type = type}
  BY <1>7 DEF Collected
<1>9. Collected("strings") # {} /\ Collected("checksums") # {} <=> HasTable(at)
  <2>1. HasTable(at) <=> Collected("strings") # {}
    BY <1>8 DEF HasTable, TypesOf, Section
  <2>2. "checksums" \in TypesOf(sections[at]) <=> Collected("checksums") # {}
    BY <1>8 DEF TypesOf, Section
  <2>3. "strings" \in TypesOf(sections[at]) <=> "checksums" \in TypesOf(sections[at])
    BY <1>1, <1>4, SecIs DEF SectionsInv, OneTable
  <2> QED  BY <2>1, <2>2, <2>3 DEF HasTable
<1>10. /\ at' = at + 1 /\ p' = 0 /\ LeaveSection
       /\ UNCHANGED <<sections, pass, raw, read>>
       /\ haveFiles' <=> haveFiles \/ HasTable(at)
       /\ lines' = lines \cup {[sub |-> <<at, k>>, path |-> haveFiles'] : k \in Collected("lines")}
  BY <1>9 DEF PreLeave, LeaveSection
<1>11. haveFiles' <=> \E i \in 1 .. at : HasTable(i)
  <2>1. \A i : i \in 1 .. at <=> i \in 1 .. at - 1 \/ i = at
    BY <1>4
  <2> QED  BY <1>5, <1>10, <2>1
<1>12. /\ SectionsInv' /\ Final' = Final
       /\ \A i, k : Before(i, k)' = Before(i, k)
       /\ \A i : LinesBefore(i)' = LinesBefore(i)
       /\ \A i : HasTable(i)' <=> HasTable(i)
  BY <1>1, <1>10, SectionsStay
<1>13. PlaceInv'
  BY <1>1, <1>2, <1>4, <1>10, PlaceLeft DEF PlaceInv
<1>14. lines' = LinesBefore(at + 1)
  <2>1. haveFiles' = \E i \in 1 .. at : HasTable(i)
    BY <1>11, <1>10 DEF PreLeave
  <2>2. LinesOf(at) = {[sub |-> <<at, k>>, path |-> haveFiles'] : k \in Collected("lines")}
    BY <1>8, <2>1 DEF LinesOf, Section
  <2> QED  BY <1>1, <1>4, <1>5, <1>10, <2>2, BeforeNext
<1>15. read.pre = Before(at + 1, 0)
  BY <1>1, <1>4, <1>5, <1>6, BeforeNext DEF Section
<1>16. PreInv'
  <2>1. lines' = LinesBefore(at)' /\ read'.pre = Before(at, 0)' /\ read'.main = {}
    BY <1>5, <1>10, <1>12, <1>14, <1>15
  <2>2. haveFiles' <=> \E i \in 1 .. at' - 1 : HasTable(i)'
    BY <1>4, <1>10, <1>11, <1>12
  <2> QED  BY <1>10, <2>1, <2>2 DEF PreInv
<1>17. AfterInv' /\ MainInv'
  BY <1>2, <1>10 DEF AfterInv, MainInv
<1> QED  BY <1>12, <1>13, <1>16, <1>17 DEF DebugSInv

LEMMA EndPreStep == DebugSInv /\ EndPrePass => DebugSInv'
<1> SUFFICES ASSUME DebugSInv, EndPrePass PROVE DebugSInv'
  OBVIOUS
<1>1. SectionsInv /\ PlaceInv /\ PreInv /\ AfterInv /\ MainInv
  BY DEF DebugSInv
<1>2. /\ pass = "pre" /\ at > Count /\ pass' = "main" /\ at' = 1
      /\ UNCHANGED <<sections, p, raw, haveFiles, lines, read>>
  BY DEF EndPrePass
<1>3. at = Final + 1 /\ p = 0 /\ Final \in Nat
  <2>1. at \in 1 .. Final + 1 /\ Final \in Nat /\ Count \in Int
    BY <1>1, FinalIs, CountType DEF PlaceInv
  <2>2. ~(at <= Count)
    BY <1>2, <2>1
  <2>3. ~(at <= Final)
    BY <1>1, <2>1, <2>2, FinalIs
  <2> QED  BY <1>1, <2>1, <2>3 DEF PlaceInv
<1>4. /\ SectionsInv' /\ Final' = Final
      /\ \A i, k : Before(i, k)' = Before(i, k)
      /\ \A i : LinesBefore(i)' = LinesBefore(i)
      /\ \A i, n : MainReads(i, n)' <=> MainReads(i, n)
  BY <1>1, <1>2, SectionsStay, MainReadsStay
<1>5. read.main = {} /\ lines = LinesBefore(at) /\ read.pre = Before(at, 0)
  BY <1>1, <1>2, <1>3 DEF PreInv
<1>6. PlaceInv'
  BY <1>1, <1>2, <1>3, <1>4 DEF PlaceInv
<1>7. PreInv'
  BY <1>2 DEF PreInv
<1>8. AfterInv'
  <2>1. lines' = LinesBefore(Final + 1)' /\ read'.pre = Before(Final + 1, 0)'
    BY <1>2, <1>3, <1>4, <1>5
  <2> QED  BY <2>1 DEF AfterInv
<1>9. MainInv'
  <2>1. MainReads(at, 0)'
    BY <1>2, <1>4, <1>5, MainReadsFirst
  <2> QED  BY <1>2, <1>3, <2>1 DEF MainInv
<1> QED  BY <1>4, <1>6, <1>7, <1>8, <1>9 DEF DebugSInv

(* The main pass reads a subsection, or the bytes behind a signature that  *)
(* no subsection follows.                                                  *)
LEMMA MainReadsNext ==
  ASSUME SectionsInv, NEW i \in 1 .. Final, NEW n \in Nat, MainReads(i, n), NEW k,
         read'.main = read.main \cup {<<i, k>>}, UNCHANGED sections,
         k = n + 1 \/ (sections[i].debugS /\ NoSubs(i))
  PROVE  /\ k = n + 1 => MainReads(i, n + 1)'
         /\ k # n + 1 => MainReads(i, n)'
<1>1. /\ Final' = Final
      /\ \A j, l : Before(j, l)' = Before(j, l)
      /\ \A j : NoSubs(j)' <=> NoSubs(j)
  BY SectionsStay
<1>2. i \in Nat
  BY FinalIs
<1>3. Before(i, n + 1) = Before(i, n) \cup {<<i, n + 1>>}
  BY <1>2, BeforeSub
<1>4. <<i, k>>[1] = i
  OBVIOUS
<1>5. ASSUME k = n + 1 PROVE MainReads(i, n + 1)'
  BY <1>1, <1>3, <1>5 DEF MainReads
<1>6. ASSUME k # n + 1 PROVE MainReads(i, n)'
  BY <1>1, <1>4, <1>6 DEF MainReads
<1> QED  BY <1>5, <1>6

LEMMA MainReadStep == DebugSInv /\ MainRead => DebugSInv'
<1> SUFFICES ASSUME DebugSInv, MainRead PROVE DebugSInv'
  OBVIOUS
<1>1. SectionsInv /\ PlaceInv /\ PreInv /\ AfterInv /\ MainInv
  BY DEF DebugSInv
<1>2. pass = "main" /\ p > 0
  BY DEF MainRead, Walking
<1>3. at <= Final /\ at \in 1 .. Final /\ at \in Nat /\ Section \in Sec /\ Section.debugS
  <2>1. at <= Final /\ at \in 1 .. Final + 1 /\ Final \in Nat /\ Section.debugS
    BY <1>1, <1>2, FinalIs DEF PlaceInv
  <2>2. at \in 1 .. Final /\ at \in Nat
    BY <2>1
  <2> QED  BY <1>1, <2>1, <2>2, SecIs DEF Section
<1>4. PICK n \in Nat :
        /\ n < Len(Section.subs) \/ (n = 0 /\ NoSubs(at))
        /\ p = Start(Section, n + 1) /\ MainReads(at, n)
  BY <1>1, <1>2 DEF MainInv
<1>5. Len(Section.subs) \in Nat
  BY <1>3, SubsAre
<1>6. UNCHANGED <<sections, pass, raw, haveFiles, lines>>
  BY DEF MainRead
<1>7. /\ read'.pre = read.pre /\ read'.main = read.main \cup {<<at, Here>>}
      /\ read' = [pre |-> read'.pre, main |-> read'.main]
  <2>1. read = [pre |-> read.pre, main |-> read.main]
    BY <1>1 DEF PlaceInv
  <2> DEFINE w == read.main \cup {<<at, Here>>}
  <2>2. read' = [read EXCEPT !.main = w]
    BY DEF MainRead
  <2> HIDE DEF w
  <2>3. read' = [pre |-> read.pre, main |-> w]
    BY <2>1, <2>2
  <2>4. read'.pre = read.pre /\ read'.main = w
    BY <2>3
  <2> QED  BY <2>3, <2>4 DEF w
<1>8. /\ SectionsInv' /\ Final' = Final /\ Section' = sections[at']
      /\ \A i, k : Before(i, k)' = Before(i, k)
      /\ \A i : LinesBefore(i)' = LinesBefore(i)
      /\ \A i : NoSubs(i)' <=> NoSubs(i)
  BY <1>1, <1>6, SectionsStay DEF Section
<1>9. PreInv'
  BY <1>2, <1>6 DEF PreInv
<1>10. AfterInv'
  <2>1. lines' = LinesBefore(Final + 1)' /\ read'.pre = Before(Final + 1, 0)'
    BY <1>1, <1>2, <1>6, <1>7, <1>8 DEF AfterInv
  <2> QED  BY <2>1 DEF AfterInv
<1>11. PICK a : a = at
  OBVIOUS
<1>12. ASSUME LeaveSection, MainReads(a + 1, 0)' PROVE DebugSInv'
  <2>1. PlaceInv'
    BY <1>1, <1>2, <1>3, <1>6, <1>7, <1>12, PlaceLeft
  <2>2. MainInv'
    <3>1. at' = a + 1 /\ p' = 0 /\ pass' = "main"
      BY <1>2, <1>6, <1>11, <1>12 DEF LeaveSection
    <3>2. MainReads(at, 0)'
      BY <1>12, <3>1
    <3> QED  BY <3>1, <3>2 DEF MainInv
  <2> QED  BY <1>8, <1>9, <1>10, <2>1, <2>2 DEF DebugSInv
<1>13. a \in 1 .. Final /\ MainReads(a, n) /\ read'.main = read.main \cup {<<a, Here>>}
  BY <1>3, <1>4, <1>7, <1>11
<1>14. CASE n < Len(Section.subs)
  <2>1. Here = n + 1 /\ Next4(p, Section.subs[n + 1]) = Start(Section, n + 2) /\ Here # 0
    BY <1>3, <1>4, <1>5, <1>14, HereIs
  <2>2. MainReads(a, n + 1)'
    BY <1>1, <1>6, <1>13, <2>1, MainReadsNext
  <2>3. n + 2 \in 1 .. Len(Section.subs) + 1 /\ n + 2 = n + 1 + 1
    BY <1>4, <1>5, <1>14
  <2>4. Start(Section, n + 2) \in Nat \ {0} /\ Size \in Nat
    BY <1>3, <2>3, StartsAre, SizeIs DEF Size
  <2>5. CASE Start(Section, n + 2) >= Size
    <3>1. LeaveSection
      BY <2>1, <2>5 DEF MainRead
    <3>2. n + 1 = Len(Section.subs)
      <4>1. ~(n + 1 < Len(Section.subs))
        <5>1. ASSUME n + 1 < Len(Section.subs) PROVE Start(Section, n + 2) < Size
          BY <1>3, <1>5, <2>3, <5>1, SizeIs DEF Size
        <5> QED  BY <2>4, <2>5, <5>1
      <4> QED  BY <1>5, <1>14, <4>1
    <3>3. Before(a, n + 1) = Before(a + 1, 0)
      BY <1>1, <1>11, <1>13, <3>2, BeforeNext DEF Section
    <3>4. MainReads(a + 1, 0)'
      BY <1>8, <2>2, <3>3 DEF MainReads
    <3> QED  BY <1>12, <3>1, <3>4
  <2>6. CASE ~(Start(Section, n + 2) >= Size)
    <3>1. p' = Start(Section, n + 2) /\ at' = at
      BY <2>1, <2>6 DEF MainRead
    <3>2. p' \in Nat /\ p' > 0 /\ Section' = Section
      BY <1>6, <2>4, <3>1 DEF Section
    <3>3. n + 1 < Len(Section.subs)
      <4>1. n + 1 # Len(Section.subs)
        <5>1. ASSUME n + 1 = Len(Section.subs) PROVE Size <= Start(Section, n + 2)
          BY <1>3, <2>3, <5>1, SizeIs DEF Size
        <5> QED  BY <2>4, <2>6, <5>1
      <4> QED  BY <1>5, <1>14, <4>1
    <3>4. PlaceInv'
      BY <1>1, <1>2, <1>3, <1>6, <1>7, <1>8, <3>1, <3>2 DEF PlaceInv
    <3>5. MainReads(at, n + 1)'
      BY <1>11, <2>2, <3>1
    <3>6. n + 1 \in Nat /\ p' = Start(Section', n + 1 + 1) /\ n + 1 < Len(Section'.subs)
      BY <2>3, <3>1, <3>2, <3>3
    <3>7. MainInv'
      BY <1>2, <1>6, <3>2, <3>5, <3>6 DEF MainInv
    <3> QED  BY <1>8, <1>9, <1>10, <3>4, <3>7 DEF DebugSInv
  <2> QED  BY <2>5, <2>6
<1>15. CASE n = 0 /\ NoSubs(at)
  <2>1. Len(Section.subs) = 0
    BY <1>15 DEF NoSubs, Section
  <2>2. Here = 0 /\ Here # n + 1
    BY <1>3, <1>4, <1>15, <2>1, HereIs
  <2>3. LeaveSection
    BY <2>2 DEF MainRead
  <2>4. MainReads(a, 0)'
    BY <1>1, <1>3, <1>6, <1>11, <1>13, <1>15, <2>2, MainReadsNext DEF Section
  <2>5. Before(a, 0) = Before(a + 1, 0)
    BY <1>1, <1>11, <1>13, <1>15, BeforeNext
  <2>6. MainReads(a + 1, 0)'
    BY <1>8, <2>4, <2>5 DEF MainReads
  <2> QED  BY <1>12, <2>3, <2>6
<1> QED  BY <1>4, <1>14, <1>15

LEMMA EndMainStep == DebugSInv /\ EndMainPass => DebugSInv'
<1> SUFFICES ASSUME DebugSInv, EndMainPass PROVE DebugSInv'
  OBVIOUS
<1>1. SectionsInv /\ PlaceInv /\ PreInv /\ AfterInv /\ MainInv
  BY DEF DebugSInv
<1>2. /\ pass = "main" /\ at > Count /\ pass' = "done"
      /\ UNCHANGED <<sections, at, p, raw, haveFiles, lines, read>>
  BY DEF EndMainPass
<1>3. at = Final + 1 /\ p = 0 /\ Final \in Nat
  <2>1. at \in 1 .. Final + 1 /\ Final \in Nat /\ Count \in Int
    BY <1>1, FinalIs, CountType DEF PlaceInv
  <2>2. ~(at <= Count)
    BY <1>2, <2>1
  <2>3. ~(at <= Final)
    BY <1>1, <2>1, <2>2, FinalIs
  <2> QED  BY <1>1, <2>1, <2>3 DEF PlaceInv
<1>4. /\ SectionsInv' /\ Final' = Final
      /\ \A i, k : Before(i, k)' = Before(i, k)
      /\ \A i : LinesBefore(i)' = LinesBefore(i)
      /\ \A i, n : MainReads(i, n)' <=> MainReads(i, n)
  BY <1>1, <1>2, SectionsStay, MainReadsStay
<1>5. PlaceInv'
  BY <1>1, <1>2, <1>3, <1>4 DEF PlaceInv
<1>6. PreInv'
  BY <1>2 DEF PreInv
<1>7. AfterInv'
  <2>1. lines' = LinesBefore(Final + 1)' /\ read'.pre = Before(Final + 1, 0)'
    BY <1>1, <1>2, <1>4 DEF AfterInv
  <2> QED  BY <2>1 DEF AfterInv
<1>8. MainInv'
  <2>1. MainReads(Final + 1, 0)'
    BY <1>1, <1>2, <1>3, <1>4 DEF MainInv
  <2> QED  BY <1>2, <2>1 DEF MainInv
<1> QED  BY <1>4, <1>5, <1>6, <1>7, <1>8 DEF DebugSInv

LEMMA DebugSStep == DebugSInv /\ [WalkNext]_walkVars => DebugSInv'
<1> SUFFICES ASSUME DebugSInv, [WalkNext]_walkVars PROVE DebugSInv'
  OBVIOUS
<1>1. CASE SkipSection
  BY <1>1, SkipStep
<1>2. CASE EnterSection
  BY <1>2, EnterStep
<1>3. CASE PreRead
  BY <1>3, PreReadStep
<1>4. CASE PreLeave
  BY <1>4, PreLeaveStep
<1>5. CASE EndPrePass
  BY <1>5, EndPreStep
<1>6. CASE MainRead
  BY <1>6, MainReadStep
<1>7. CASE EndMainPass
  BY <1>7, EndMainStep
<1>8. CASE UNCHANGED walkVars
  <2>1. UNCHANGED <<sections, pass, at, p, raw, haveFiles, lines, read>>
    BY <1>8 DEF walkVars
  <2>2. /\ SectionsInv => SectionsInv'
        /\ Final' = Final /\ Section' = Section
        /\ \A i, k : Before(i, k)' = Before(i, k)
        /\ \A i : LinesBefore(i)' = LinesBefore(i)
        /\ \A i : NoSubs(i)' <=> NoSubs(i)
        /\ \A i : HasTable(i)' <=> HasTable(i)
        /\ \A i, n : MainReads(i, n)' <=> MainReads(i, n)
    BY <2>1, SectionsStay, MainReadsStay DEF Section
  <2>3. PlaceInv => PlaceInv'
    BY <2>1, <2>2 DEF PlaceInv
  <2>4. PreInv => PreInv'
    BY <2>1, <2>2 DEF PreInv
  <2>5. AfterInv => AfterInv'
    <3>1. pass' # "pre" => pass # "pre"
      BY <2>1
    <3>2. /\ LinesBefore(Final + 1)' = LinesBefore(Final + 1)
          /\ Before(Final + 1, 0)' = Before(Final + 1, 0)
      BY <2>2
    <3> QED  BY <2>1, <3>1, <3>2 DEF AfterInv
  <2>6. MainInv => MainInv'
    <3>1. /\ MainReads(at, 0)' <=> MainReads(at, 0)
          /\ MainReads(Final + 1, 0)' <=> MainReads(Final + 1, 0)
          /\ \A n : MainReads(at, n)' <=> MainReads(at, n)
          /\ NoSubs(at)' <=> NoSubs(at)
      BY <2>1, <2>2
    <3> QED  BY <2>1, <2>2, <3>1 DEF MainInv
  <2> QED  BY <2>2, <2>3, <2>4, <2>5, <2>6 DEF DebugSInv
<1> QED
  BY <1>1, <1>2, <1>3, <1>4, <1>5, <1>6, <1>7, <1>8 DEF WalkNext, Walked

LEMMA DebugSInvAlways == WalkSpec => []DebugSInv
<1> QED  BY DebugSInit, DebugSStep, PTL DEF WalkSpec

(* Both passes read the subsections, each once and nothing else, or both   *)
(* read nothing (FunctionExtractor.h:781-1034).                            *)
THEOREM PassesReadAlikeAlways == WalkSpec => []PassesReadAlike
<1>1. DebugSInv => PassesReadAlike
  <2> SUFFICES ASSUME DebugSInv, pass = "done"
               PROVE  IF Fits
                      THEN \A i \in DOMAIN sections :
                             /\ {r \in read.pre : r[1] = i} = SubsOf(i)
                             /\ \/ sections[i].debugS /\ sections[i].subs = << >>
                                \/ {r \in read.main : r[1] = i} = SubsOf(i)
                      ELSE read = [pre |-> {}, main |-> {}] /\ lines = {}
    BY DEF PassesReadAlike
  <2>1. SectionsInv /\ PlaceInv /\ AfterInv /\ MainInv
    BY DEF DebugSInv
  <2>2. /\ read.pre = Before(Final + 1, 0) /\ lines = LinesBefore(Final + 1)
        /\ MainReads(Final + 1, 0)
        /\ read = [pre |-> read.pre, main |-> read.main]
    BY <2>1 DEF AfterInv, MainInv, PlaceInv
  <2>3. Final \in Nat /\ Len(sections) \in Nat /\ DOMAIN sections = 1 .. Len(sections)
    BY <2>1, FinalIs DEF SectionsInv
  <2>4. CASE Fits
    <3>1. Final = Len(sections) /\ 1 .. Final + 1 - 1 = DOMAIN sections
      BY <2>3, <2>4 DEF Final
    <3>2. \A r : r \in Before(Final + 1, 0) <=> \E j \in DOMAIN sections : r \in SubsOf(j)
      <4>1. 1 .. 0 = {}
        OBVIOUS
      <4> QED  BY <3>1, <4>1 DEF Before
    <3>3. \A j : \A r \in SubsOf(j) : r[1] = j
      BY DEF SubsOf
    <3>4. ASSUME NEW i \in DOMAIN sections PROVE {r \in read.pre : r[1] = i} = SubsOf(i)
      BY <2>2, <3>2, <3>3
    <3>5. ASSUME NEW i \in DOMAIN sections, ~(sections[i].debugS /\ sections[i].subs = << >>)
          PROVE  {r \in read.main : r[1] = i} = SubsOf(i)
      <4>1. \A r \in read.main : r[1] = i => r \in Before(Final + 1, 0)
        BY <2>2, <3>5 DEF MainReads, NoSubs
      <4>2. Before(Final + 1, 0) \subseteq read.main
        BY <2>2 DEF MainReads
      <4> QED  BY <3>2, <3>3, <4>1, <4>2
    <3> QED  BY <2>4, <3>4, <3>5
  <2>5. CASE ~Fits
    <3>1. Final = 0
      BY <2>5 DEF Final
    <3>2. read.pre = {} /\ lines = {}
      BY <2>2, <3>1, BeforeFirst
    <3>3. read.main = {}
      <4>1. Before(Final + 1, 0) = {} /\ 1 .. Final = {}
        BY <3>1, BeforeFirst
      <4> QED  BY <2>2, <4>1 DEF MainReads
    <3> QED  BY <2>2, <2>5, <3>2, <3>3
  <2> QED  BY <2>4, <2>5
<1> QED  BY <1>1, DebugSInvAlways, PTL

LEMMA LinesBeforeIs ==
  ASSUME NEW n, NEW S, 1 .. n - 1 = S
  PROVE  LinesBefore(n) = UNION {LinesOf(j) : j \in S}
<1> QED  BY DEF LinesBefore

(* A line record has a path exactly if the tables are not in a later       *)
(* section, and no record is lost (FunctionExtractor.h:865-883).           *)
THEOREM PathsFollowTheTableAlways == WalkSpec => []PathsFollowTheTable
<1>1. DebugSInv => PathsFollowTheTable
  <2> SUFFICES ASSUME DebugSInv PROVE PathsFollowTheTable
    OBVIOUS
  <2>1. SectionsInv /\ PlaceInv /\ PreInv /\ AfterInv
    BY DEF DebugSInv
  <2>2. \E i : lines = LinesBefore(i)
    BY <2>1 DEF PlaceInv, PreInv, AfterInv
  <2>3. ASSUME NEW l \in lines PROVE l.path <=> \E i \in 1 .. l.sub[1] : HasTable(i)
    <3>1. PICK j, k : l = [sub |-> <<j, k>>, path |-> \E i \in 1 .. j : HasTable(i)]
      BY <2>2, <2>3 DEF LinesBefore, LinesOf
    <3> QED  BY <3>1
  <2>4. ASSUME pass # "pre", Fits
        PROVE  {l.sub : l \in lines} =
                 {s \in UNION {SubsOf(i) : i \in DOMAIN sections} :
                    sections[s[1]].subs[s[2]].type = "lines"}
    <3>1. Final \in Nat /\ Final = Len(sections) /\ DOMAIN sections = 1 .. Len(sections)
      BY <2>1, <2>4, FinalIs DEF Final, SectionsInv
    <3>2. 1 .. Final + 1 - 1 = DOMAIN sections
      BY <3>1
    <3>3. lines = UNION {LinesOf(i) : i \in DOMAIN sections}
      <4>1. LinesBefore(Final + 1) = UNION {LinesOf(i) : i \in DOMAIN sections}
        <5>1. PICK n : n = Final + 1
          OBVIOUS
        <5>2. n \in Nat /\ n - 1 = Final /\ 1 .. n - 1 = DOMAIN sections
          BY <3>1, <5>1
        <5>3. LinesBefore(n) = UNION {LinesOf(i) : i \in DOMAIN sections}
          BY <5>2, LinesBeforeIs
        <5> QED  BY <5>1, <5>3
      <4>2. lines = LinesBefore(Final + 1)
        BY <2>1, <2>4 DEF AfterInv
      <4> QED  BY <4>1, <4>2
    <3> DEFINE Is(s) == \E i \in DOMAIN sections : \E k \in DOMAIN sections[i].subs :
                          s = <<i, k>> /\ sections[i].subs[k].type = "lines"
    <3>4. \A s : s \in {l.sub : l \in lines} <=> Is(s)
      <4>1. \A l : l \in lines <=> \E i \in DOMAIN sections : l \in LinesOf(i)
        BY <3>3
      <4>2. \A i, l : l \in LinesOf(i) <=>
              \E k \in DOMAIN sections[i].subs :
                /\ sections[i].subs[k].type = "lines"
                /\ l = [sub |-> <<i, k>>, path |-> \E j \in 1 .. i : HasTable(j)]
        BY DEF LinesOf
      <4>3. \A i, k, path : [sub |-> <<i, k>>, path |-> path].sub = <<i, k>>
        OBVIOUS
      <4>4. \A s : s \in {l.sub : l \in lines} => Is(s)
        BY <4>1, <4>2, <4>3
      <4>5. ASSUME NEW i \in DOMAIN sections, NEW k \in DOMAIN sections[i].subs,
                   sections[i].subs[k].type = "lines"
            PROVE  <<i, k>> \in {l.sub : l \in lines}
        <5> DEFINE l == [sub |-> <<i, k>>, path |-> \E j \in 1 .. i : HasTable(j)]
        <5>1. l \in lines
          BY <4>1, <4>2, <4>5
        <5>2. l.sub = <<i, k>>
          BY <4>3
        <5> HIDE DEF l
        <5> QED  BY <5>1, <5>2
      <4> QED  BY <4>4, <4>5
    <3>5. \A s : s \in {r \in UNION {SubsOf(i) : i \in DOMAIN sections} :
                          sections[r[1]].subs[r[2]].type = "lines"} <=> Is(s)
      BY DEF SubsOf
    <3> HIDE DEF Is
    <3> QED  BY <3>4, <3>5
  <2> QED  BY <2>3, <2>4 DEF PathsFollowTheTable
<1> QED  BY <1>1, DebugSInvAlways, PTL
=============================================================================
