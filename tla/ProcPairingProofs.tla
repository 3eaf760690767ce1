-------------------------- MODULE ProcPairingProofs ---------------------------
(***************************************************************************)
(* ExtractFunctions' pairing of names, lengths and lines, proved for any   *)
(* number of functions and sections and any order of the symbol table.     *)
(***************************************************************************)
EXTENDS ProcPairing, FiniteSetTheorems, TLAPS

LEMMA SeqOfSubset ==
  ASSUME NEW Q, NEW P, P \subseteq Q, NEW q \in Seq(P)
  PROVE  q \in Seq(Q)
OBVIOUS

-----------------------------------------------------------------------------
(* Sets of numbers in increasing order.                                    *)
Rank(S, i) == Cardinality(Before(S, i))

LEMMA Ranks ==
  ASSUME NEW N \in Nat, NEW S, S \subseteq 1 .. N
  PROVE  /\ IsFiniteSet(S) /\ Cardinality(S) \in Nat
         /\ \A i : IsFiniteSet(Before(S, i))
         /\ \A i : Rank(S, i) \in Nat
         /\ \A i \in S : Rank(S, i) \in 0 .. Cardinality(S) - 1
         /\ \A i, j \in S : i < j => Rank(S, i) < Rank(S, j)
         /\ \A i, j \in S : Rank(S, i) = Rank(S, j) => i = j
<1>1. IsFiniteSet(S) /\ Cardinality(S) \in Nat
  <2>1. IsFiniteSet(1 .. N)
    BY FS_Interval
  <2>2. IsFiniteSet(S)
    BY <2>1, FS_Subset
  <2> QED  BY <2>2, FS_CardinalityType
<1>2. ASSUME NEW i
      PROVE  IsFiniteSet(Before(S, i)) /\ Rank(S, i) \in Nat
  <2>1. Before(S, i) \in SUBSET S
    BY DEF Before
  <2>2. IsFiniteSet(Before(S, i))
    BY <1>1, <2>1, FS_Subset
  <2> QED  BY <2>2, FS_CardinalityType DEF Rank
<1>3. ASSUME NEW i \in S
      PROVE  Rank(S, i) < Cardinality(S)
  <2>1. Before(S, i) \in SUBSET S /\ Before(S, i) # S
    BY DEF Before
  <2>2. Rank(S, i) <= Cardinality(S) /\ Rank(S, i) # Cardinality(S)
    BY <1>1, <2>1, FS_Subset DEF Rank
  <2> QED  BY <1>1, <1>2, <2>2
<1>4. ASSUME NEW i \in S, NEW j \in S, i < j
      PROVE  Rank(S, i) < Rank(S, j)
  <2>1. Before(S, i) \in SUBSET Before(S, j) /\ Before(S, i) # Before(S, j)
    <3>1. i \in Before(S, j) /\ i \notin Before(S, i)
      BY <1>4 DEF Before
    <3>2. \A k \in S : k < i => k < j
      BY <1>4
    <3> QED  BY <3>1, <3>2 DEF Before
  <2>2. IsFiniteSet(Before(S, j))
    BY <1>2
  <2>3. Rank(S, i) <= Rank(S, j) /\ Rank(S, i) # Rank(S, j)
    BY <2>1, <2>2, FS_Subset DEF Rank
  <2> QED  BY <1>2, <2>3
<1>5. ASSUME NEW i \in S, NEW j \in S, Rank(S, i) = Rank(S, j)
      PROVE  i = j
  <2>1. i < j \/ j < i \/ i = j
    OBVIOUS
  <2> QED  BY <1>2, <1>4, <1>5, <2>1
<1> QED  BY <1>1, <1>2, <1>3, <1>4, <1>5

(* InOrder has every element of S, at the place its rank says.             *)
LEMMA InOrderIs ==
  ASSUME NEW N \in Nat, NEW S, S \subseteq 1 .. N
  PROVE  /\ InOrder(S) \in Seq(S)
         /\ Len(InOrder(S)) = Cardinality(S) /\ DOMAIN InOrder(S) = 1 .. Cardinality(S)
         /\ \A k \in 1 .. Cardinality(S) : /\ InOrder(S)[k] \in S
                                          /\ Rank(S, InOrder(S)[k]) = k - 1
         /\ \A i \in S : /\ Rank(S, i) + 1 \in 1 .. Cardinality(S)
                         /\ InOrder(S)[Rank(S, i) + 1] = i
<1> DEFINE C == Cardinality(S)
           f == [i \in S |-> Rank(S, i)]
<1>1. IsFiniteSet(S) /\ C \in Nat
  BY Ranks
<1>2. f \in Injection(S, 0 .. C - 1)
  BY Ranks DEF Injection, IsInjective
<1>3. IsFiniteSet(0 .. C - 1) /\ Cardinality(0 .. C - 1) = C
  BY <1>1, FS_Interval
<1>4. f \in Surjection(S, 0 .. C - 1)
  <2> HIDE DEF f
  <2> QED  BY <1>2, <1>3, FS_Injection
<1>5. ASSUME NEW k \in 1 .. C PROVE \E i \in S : Rank(S, i) = k - 1
  <2>1. \A t \in 0 .. C - 1 : \E i \in S : f[i] = t
    BY <1>4 DEF Surjection
  <2>2. k - 1 \in 0 .. C - 1
    BY <1>1
  <2>3. PICK i \in S : f[i] = k - 1
    BY <2>1, <2>2
  <2> QED  BY <2>3
<1>6. ASSUME NEW k \in 1 .. C
      PROVE  InOrder(S)[k] \in S /\ Rank(S, InOrder(S)[k]) = k - 1
  <2>1. PICK i \in S : Rank(S, i) = k - 1
    BY <1>5
  <2>2. InOrder(S)[k] = CHOOSE j \in S : Rank(S, j) = k - 1
    BY DEF InOrder, Rank
  <2> QED  BY <2>1, <2>2
<1>7. InOrder(S) \in Seq(S) /\ Len(InOrder(S)) = C /\ DOMAIN InOrder(S) = 1 .. C
  <2>1. InOrder(S) = [k \in 1 .. C |-> InOrder(S)[k]]
    BY DEF InOrder
  <2>2. InOrder(S) \in [1 .. C -> S]
    BY <1>6, <2>1
  <2> HIDE DEF C
  <2> QED  BY <1>1, <2>1, <2>2
<1>8. ASSUME NEW i \in S
      PROVE  Rank(S, i) + 1 \in 1 .. C /\ InOrder(S)[Rank(S, i) + 1] = i
  <2>0. Rank(S, i) \in 0 .. C - 1
    BY Ranks
  <2>1. Rank(S, i) \in 0 .. C - 1 /\ Rank(S, i) + 1 \in 1 .. C
    <3> HIDE DEF C
    <3> QED  BY <1>1, <2>0
  <2>2. Rank(S, InOrder(S)[Rank(S, i) + 1]) = Rank(S, i)
    BY <1>1, <1>6, <2>1
  <2> QED  BY <1>6, <2>1, <2>2, Ranks
<1> QED  BY <1>6, <1>7, <1>8

LEMMA InOrderIncreases ==
  ASSUME NEW N \in Nat, NEW S, S \subseteq 1 .. N,
         NEW m \in 1 .. Cardinality(S), NEW n \in 1 .. Cardinality(S), m < n
  PROVE  InOrder(S)[m] < InOrder(S)[n]
<1> DEFINE i == InOrder(S)[m]
           j == InOrder(S)[n]
<1>1. i \in S /\ Rank(S, i) = m - 1
  BY InOrderIs
<1>2. j \in S /\ Rank(S, j) = n - 1
  BY InOrderIs
<1> HIDE DEF i, j
<1>3. Cardinality(S) \in Nat /\ \A x, y \in S : x < y => Rank(S, x) < Rank(S, y)
  BY Ranks
<1>4. i \in Nat /\ j \in Nat /\ (j < i \/ i = j \/ i < j)
  BY <1>1, <1>2
<1>5. ~(i = j) /\ ~(j < i)
  BY <1>1, <1>2, <1>3
<1> QED  BY <1>4, <1>5 DEF i, j

-----------------------------------------------------------------------------
(* The sections, and what the walk has made of their functions.            *)
Procs(s) == {i \in InSection(s) : code[i].proc}
Left == {records[n] : n \in DOMAIN records}
Consumed(s) == Procs(s) \ Left
Extracted(i) == \E n \in DOMAIN functions : functions[n].name = i
Taken(s) == {i \in InSection(s) : Extracted(i)}

(* Reading the symbol table: each function is in the table or among its    *)
(* section's names; sorted, a section's names are its functions in order.  *)
NamesInv ==
  /\ code \in Seq(Compiled) /\ table \in Seq(DOMAIN code)
  /\ names \in [Sections -> Seq(DOMAIN code)]
  /\ \A s \in Sections : \A n \in DOMAIN names[s] : names[s][n] \in InSection(s)
  /\ ~sorted => \A s \in Sections : \A i \in InSection(s) :
       \/ \E n \in DOMAIN names[s] : names[s][n] = i
       \/ \E n \in DOMAIN table : table[n] = i
  /\ sorted => table = << >> /\ \A s \in Sections : names[s] = InOrder(InSection(s))

(* Walking the records: they are in order and none is skipped.             *)
RecordsInv ==
  /\ records \in Seq(DOMAIN code)
  /\ \A n \in DOMAIN records : code[records[n]].proc
  /\ \A m, n \in DOMAIN records : m < n => records[m] < records[n]
  /\ \A i \in DOMAIN code : code[i].proc /\ i \notin Left => \A j \in Left : i < j
  /\ ~sorted => functions = << >> /\ \A s \in Sections : counter[s] = 0 /\ Consumed(s) = {}

(* The counter of a section. The C++ functions extracted are those that    *)
(* fewer than counter[s] of the section precede; and as long as it is not  *)
(* beyond the names, as many records are consumed as functions extracted.  *)
CounterInv ==
  /\ counter \in [Sections -> Nat]
  /\ \A s \in Sections :
       /\ counter[s] <= Len(names[s]) + Cardinality(Consumed(s))
       /\ sorted /\ counter[s] <= Len(names[s]) =>
            Cardinality(Consumed(s)) = Cardinality(Taken(s))
       /\ \A i \in InSection(s) :
            Extracted(i) <=> code[i].kind = "cxx" /\ Rank(InSection(s), i) < counter[s]

FunctionsInv ==
  /\ functions \in Seq([name : DOMAIN code, record : DOMAIN code, line : DOMAIN code \cup {0}])
  /\ EachNameOnce /\ BodiesAreOwn /\ LinesAreOwn
  /\ absolute \in BOOLEAN

Inv == NamesInv /\ RecordsInv /\ CounterInv /\ FunctionsInv

LEMMA SectionsOfCode ==
  ASSUME code \in Seq(Compiled), NEW s \in Sections
  PROVE  /\ Len(code) \in Nat /\ DOMAIN code = 1 .. Len(code)
         /\ \A i \in DOMAIN code : code[i].section \in Sections
                                  /\ (code[i].kind = "cxx" => code[i].proc)
         /\ InSection(s) \subseteq 1 .. Len(code)
         /\ Procs(s) \subseteq InSection(s) /\ Procs(s) \subseteq 1 .. Len(code)
<1>1. Len(code) \in Nat /\ DOMAIN code = 1 .. Len(code)
  OBVIOUS
<1>2. \A i \in DOMAIN code : code[i] \in Compiled
  OBVIOUS
<1>3. \A c \in Compiled : c.section \in Sections /\ (c.kind = "cxx" => c.proc)
  BY DEF Compiled
<1> QED  BY <1>1, <1>2, <1>3 DEF InSection, Procs

LEMMA InvInit == Init => Inv
<1> SUFFICES ASSUME Init PROVE Inv
  OBVIOUS
<1>1. PICK N \in 0 .. MaxFuncs : code \in [1 .. N -> Compiled] /\ table \in Orders(N)
  BY DEF Init
<1>2. N \in Nat /\ code \in Seq(Compiled) /\ DOMAIN code = 1 .. N /\ Len(code) = N
  BY <1>1, MaxFuncsAssumption DEF MaxFuncsAssumption
<1>3. /\ names = [s \in Sections |-> << >>] /\ ~sorted /\ functions = << >>
      /\ counter = [s \in Sections |-> 0] /\ records = ProcsOf(code)
  BY DEF Init
<1>4. \A i \in 1 .. N : \E n \in DOMAIN table : table[n] = i
  <2>1. table \in Injection(1 .. N, 1 .. N)
    BY <1>1 DEF Orders, Injection, IsInjective
  <2>2. IsFiniteSet(1 .. N)
    BY <1>2, FS_Interval
  <2>3. table \in Surjection(1 .. N, 1 .. N)
    BY <2>1, <2>2, FS_Injection
  <2> QED  BY <2>3 DEF Surjection
<1>5. NamesInv
  <2>1. table \in Seq(DOMAIN code)
    BY <1>1, <1>2 DEF Orders
  <2>2. \A s \in Sections : names[s] = << >> /\ DOMAIN names[s] = {}
    BY <1>3
  <2>3. names \in [Sections -> Seq(DOMAIN code)]
    BY <1>3
  <2>4. \A s \in Sections : InSection(s) \subseteq 1 .. N
    BY <1>2 DEF InSection
  <2> QED  BY <1>2, <1>3, <1>4, <2>1, <2>2, <2>3, <2>4 DEF NamesInv
<1> DEFINE P == {i \in DOMAIN code : code[i].proc}
<1>6. /\ records = InOrder(P) /\ P \subseteq 1 .. N /\ records \in Seq(P)
      /\ DOMAIN records = 1 .. Cardinality(P) /\ \A n \in DOMAIN records : records[n] \in P
  <2>1. records = InOrder(P) /\ P \subseteq 1 .. N
    BY <1>2, <1>3 DEF ProcsOf
  <2>2. records \in Seq(P) /\ DOMAIN records = 1 .. Cardinality(P)
        /\ \A n \in DOMAIN records : records[n] \in P
    <3> HIDE DEF P
    <3> QED  BY <1>2, <2>1, InOrderIs
  <2> QED  BY <2>1, <2>2
<1>7. Left = P
  <2>1. \A n \in DOMAIN records : records[n] \in P
    BY <1>6
  <2>2. \A i \in P : \E n \in DOMAIN records : records[n] = i
    <3> HIDE DEF P
    <3>1. \A i \in P : Rank(P, i) + 1 \in 1 .. Cardinality(P) /\ InOrder(P)[Rank(P, i) + 1] = i
      BY <1>2, <1>6, InOrderIs
    <3> QED  BY <1>6, <3>1
  <2> QED  BY <2>1, <2>2 DEF Left
<1>8. RecordsInv
  <2>1. records \in Seq(DOMAIN code) /\ \A n \in DOMAIN records : code[records[n]].proc
    <3>1. P \subseteq DOMAIN code /\ \A i \in P : code[i].proc
      OBVIOUS
    <3> HIDE DEF P
    <3>2. \A n \in DOMAIN records : records[n] \in DOMAIN code /\ code[records[n]].proc
      BY <1>6, <3>1
    <3>3. records \in Seq(P)
      BY <1>6
    <3>4. records \in Seq(DOMAIN code)
      BY <3>1, <3>3, SeqOfSubset
    <3> QED  BY <3>2, <3>4
  <2>2. \A m, n \in DOMAIN records : m < n => records[m] < records[n]
    BY <1>2, <1>6, InOrderIncreases
  <2>3. \A s \in Sections : counter[s] = 0 /\ Consumed(s) = {}
    BY <1>2, <1>3, <1>7 DEF Consumed, Procs, InSection
  <2>4. \A i \in DOMAIN code : code[i].proc => i \in Left
    BY <1>7
  <2> QED  BY <1>3, <2>1, <2>2, <2>3, <2>4 DEF RecordsInv
<1>9. CounterInv
  <2> SUFFICES ASSUME NEW s \in Sections
               PROVE  /\ counter[s] <= Len(names[s]) + Cardinality(Consumed(s))
                      /\ \A i \in InSection(s) :
                           Extracted(i) <=> code[i].kind = "cxx" /\ Rank(InSection(s), i) < counter[s]
    BY <1>3 DEF CounterInv
  <2>1. counter[s] = 0 /\ names[s] = << >> /\ Consumed(s) = {}
    BY <1>3, <1>8 DEF RecordsInv
  <2>2. Cardinality(Consumed(s)) = 0 /\ Len(names[s]) = 0
    BY <2>1, FS_EmptySet
  <2>3. \A i : ~Extracted(i)
    BY <1>3 DEF Extracted
  <2>4. \A i \in InSection(s) : Rank(InSection(s), i) \in Nat
    BY <1>2, SectionsOfCode, Ranks
  <2> QED  BY <2>1, <2>2, <2>3, <2>4
<1>10. FunctionsInv
  <2>1. functions = << >> /\ DOMAIN functions = {}
    BY <1>3
  <2>2. functions \in Seq([name : DOMAIN code, record : DOMAIN code, line : DOMAIN code \cup {0}])
    BY <2>1
  <2>3. absolute \in BOOLEAN
    BY DEF Init
  <2> QED  BY <2>1, <2>2, <2>3 DEF FunctionsInv, EachNameOnce, BodiesAreOwn, LinesAreOwn
<1> QED  BY <1>5, <1>8, <1>9, <1>10 DEF Inv

(* A function's line records at offset 0 are given with the code.          *)
LEMMA ZerosStay ==
  ASSUME UNCHANGED <<code, absolute>>
  PROVE  \A i : Zeros(i)' = Zeros(i)
<1>1. \A s : InSection(s)' = InSection(s)
  BY DEF InSection
<1> QED  BY <1>1 DEF Zeros, Before

(* What stays true of the sections when the code, the records and the      *)
(* functions do not change.                                                *)
LEMMA WalkStays ==
  ASSUME UNCHANGED <<code, absolute, records, functions>>
  PROVE  /\ Left' = Left
         /\ \A s : /\ InSection(s)' = InSection(s) /\ Procs(s)' = Procs(s)
                   /\ Consumed(s)' = Consumed(s) /\ Taken(s)' = Taken(s)
         /\ \A i : Extracted(i)' <=> Extracted(i)
         /\ FunctionsInv => FunctionsInv'
<1>1. code' = code /\ absolute' = absolute /\ records' = records /\ functions' = functions
  OBVIOUS
<1>2. Left' = Left /\ \A s : InSection(s)' = InSection(s)
  BY <1>1 DEF Left, InSection
<1>3. \A s : Procs(s)' = Procs(s)
  BY <1>1, <1>2 DEF Procs
<1>4. \A i : Extracted(i)' <=> Extracted(i)
  BY <1>1 DEF Extracted
<1>5. \A s : Consumed(s)' = Consumed(s) /\ Taken(s)' = Taken(s)
  BY <1>2, <1>3, <1>4 DEF Consumed, Taken
<1>6. FunctionsInv => FunctionsInv'
  <2>1. \A i : Zeros(i)' = Zeros(i)
    BY <1>1, ZerosStay
  <2>2. LinesAreOwn => LinesAreOwn'
    BY <1>1, <1>2, <2>1 DEF LinesAreOwn, Before
  <2> QED  BY <1>1, <1>2, <2>2 DEF FunctionsInv, EachNameOnce, BodiesAreOwn
<1> QED  BY <1>2, <1>3, <1>4, <1>5, <1>6

LEMMA ReadStep == Inv /\ ReadSymbol => Inv'
<1> SUFFICES ASSUME Inv, ReadSymbol PROVE Inv'
  OBVIOUS
<1> DEFINE i == Head(table)
           t == code[i].section
<1>1. /\ table # << >> /\ table' = Tail(table)
      /\ names' = [names EXCEPT ![t] = Append(@, i)]
      /\ UNCHANGED <<code, absolute, sorted, records, counter, functions>>
  BY DEF ReadSymbol, given
<1>2. ~sorted /\ code \in Seq(Compiled) /\ table \in Seq(DOMAIN code)
      /\ names \in [Sections -> Seq(DOMAIN code)]
  BY <1>1 DEF Inv, NamesInv
<1>3. i \in DOMAIN code /\ t \in Sections /\ i \in InSection(t)
  <2>1. i \in DOMAIN code
    BY <1>1, <1>2
  <2>2. t \in Sections
    BY <1>2, <2>1 DEF Compiled
  <2> QED  BY <2>1, <2>2 DEF InSection
<1>4. UNCHANGED <<code, absolute, records, functions>>
  BY <1>1
<1>5. /\ Left' = Left
      /\ \A s : /\ InSection(s)' = InSection(s) /\ Procs(s)' = Procs(s)
                /\ Consumed(s)' = Consumed(s) /\ Taken(s)' = Taken(s)
      /\ \A j : Extracted(j)' <=> Extracted(j)
      /\ FunctionsInv => FunctionsInv'
  BY <1>4, WalkStays
<1>6. table' \in Seq(DOMAIN code)
      /\ \A n \in DOMAIN table : table[n] = i \/ \E m \in DOMAIN table' : table'[m] = table[n]
  <2>1. table' \in Seq(DOMAIN code) /\ DOMAIN table' = 1 .. (Len(table) - 1)
        /\ \A m \in 1 .. (Len(table) - 1) : table'[m] = table[m + 1]
        /\ Len(table) \in Nat \ {0} /\ DOMAIN table = 1 .. Len(table) /\ i = table[1]
    BY <1>1, <1>2
  <2> SUFFICES ASSUME NEW n \in DOMAIN table, n # 1
               PROVE  \E m \in DOMAIN table' : table'[m] = table[n]
    BY <2>1
  <2>2. n - 1 \in 1 .. (Len(table) - 1) /\ (n - 1) + 1 = n
    BY <2>1
  <2>3. table'[n - 1] = table[n]
    BY <2>1, <2>2
  <2> QED  BY <2>1, <2>2, <2>3
<1> HIDE DEF i, t
<1>7. /\ names' \in [Sections -> Seq(DOMAIN code)]
      /\ \A s \in Sections : s # t => names'[s] = names[s]
      /\ names'[t] = Append(names[t], i) /\ names[t] \in Seq(DOMAIN code)
  BY <1>1, <1>2, <1>3
<1>8. NamesInv'
  <2>0. /\ DOMAIN names[t] = 1 .. Len(names[t]) /\ Len(names[t]) \in Nat
        /\ DOMAIN names'[t] = 1 .. (Len(names[t]) + 1)
        /\ names'[t][Len(names[t]) + 1] = i
        /\ \A n \in DOMAIN names[t] : n \in DOMAIN names'[t] /\ names'[t][n] = names[t][n]
    BY <1>3, <1>7
  <2>1. ASSUME NEW s \in Sections, NEW n \in DOMAIN names'[s]
        PROVE  names'[s][n] \in InSection(s)
    <3>1. \A m \in DOMAIN names[s] : names[s][m] \in InSection(s)
      BY DEF Inv, NamesInv
    <3>2. CASE s = t
      <4>1. n \in DOMAIN names[t] \/ n = Len(names[t]) + 1
        BY <2>0, <2>1, <3>2
      <4> QED  BY <1>3, <2>0, <3>1, <3>2, <4>1
    <3>3. CASE s # t
      BY <1>7, <2>1, <3>1, <3>3
    <3> QED  BY <3>2, <3>3
  <2>2. ASSUME NEW s \in Sections, NEW n \in DOMAIN names[s]
        PROVE  \E m \in DOMAIN names'[s] : names'[s][m] = names[s][n]
    <3>1. n \in DOMAIN names'[s] /\ names'[s][n] = names[s][n]
      BY <1>7, <2>0, <2>2
    <3> QED  BY <3>1
  <2>3. \E m \in DOMAIN names'[t] : names'[t][m] = i
    <3>1. names'[t][Len(names[t]) + 1] = i /\ Len(names[t]) + 1 \in DOMAIN names'[t]
      BY <1>3, <1>7
    <3> QED  BY <3>1
  <2>4. ASSUME NEW s \in Sections, NEW j \in InSection(s)
        PROVE  \/ \E n \in DOMAIN names'[s] : names'[s][n] = j
               \/ \E n \in DOMAIN table' : table'[n] = j
    <3>1. CASE \E n \in DOMAIN names[s] : names[s][n] = j
      BY <2>2, <3>1
    <3>2. CASE \E n \in DOMAIN table : table[n] = j
      <4>1. j = i \/ \E n \in DOMAIN table' : table'[n] = j
        BY <1>6, <3>2
      <4>2. j = i => s = t
        BY <1>3 DEF InSection
      <4> QED  BY <2>3, <4>1, <4>2
    <3> QED  BY <1>2, <3>1, <3>2 DEF Inv, NamesInv
  <2> QED  BY <1>1, <1>2, <1>5, <1>6, <1>7, <2>1, <2>4 DEF NamesInv
<1>9. RecordsInv'
  BY <1>1, <1>5 DEF Inv, RecordsInv
<1>10. CounterInv'
  <2>1. ASSUME NEW s \in Sections
        PROVE  Len(names'[s]) \in Nat /\ Len(names[s]) \in Nat /\ Len(names'[s]) >= Len(names[s])
    <3>1. names'[s] \in Seq(DOMAIN code) /\ names[s] \in Seq(DOMAIN code)
      BY <1>2, <1>7
    <3>2. s = t => Len(names'[s]) = Len(names[s]) + 1
      BY <1>3, <1>7
    <3>3. s # t => Len(names'[s]) = Len(names[s])
      BY <1>7
    <3> QED  BY <3>1, <3>2, <3>3
  <2>2. \A s \in Sections : Consumed(s) = {} /\ Cardinality(Consumed(s)) = 0 /\ counter[s] = 0
    BY <1>2, FS_EmptySet DEF Inv, RecordsInv
  <2>3. \A s, j : Rank(InSection(s), j)' = Rank(InSection(s), j)
    BY <1>5 DEF Rank, Before
  <2> QED  BY <1>1, <1>2, <1>5, <2>1, <2>2, <2>3 DEF Inv, CounterInv
<1> QED  BY <1>5, <1>8, <1>9, <1>10 DEF Inv

LEMMA SortStep == Inv /\ SortNames => Inv'
<1> SUFFICES ASSUME Inv, SortNames PROVE Inv'
  OBVIOUS
<1>1. /\ table = << >> /\ ~sorted /\ sorted' = TRUE
      /\ names' = [s \in Sections |-> InOrder({names[s][n] : n \in DOMAIN names[s]})]
      /\ UNCHANGED <<code, absolute, table, records, counter, functions>>
  BY DEF SortNames, given
<1>2. code \in Seq(Compiled)
  BY DEF Inv, NamesInv
<1>3. /\ Left' = Left
      /\ \A s : /\ InSection(s)' = InSection(s) /\ Procs(s)' = Procs(s)
                /\ Consumed(s)' = Consumed(s) /\ Taken(s)' = Taken(s)
      /\ \A j : Extracted(j)' <=> Extracted(j)
      /\ FunctionsInv => FunctionsInv'
  BY <1>1, WalkStays
<1>4. ASSUME NEW s \in Sections
      PROVE  names'[s] = InOrder(InSection(s))
  <2>1. \A i \in InSection(s) : \E n \in DOMAIN names[s] : names[s][n] = i
    BY <1>1 DEF Inv, NamesInv
  <2>2. {names[s][n] : n \in DOMAIN names[s]} = InSection(s)
    BY <2>1 DEF Inv, NamesInv
  <2> QED  BY <1>1, <2>2
<1>5. ASSUME NEW s \in Sections
      PROVE  /\ names'[s] \in Seq(DOMAIN code) /\ Len(names'[s]) \in Nat
             /\ \A n \in DOMAIN names'[s] : names'[s][n] \in InSection(s)
  <2>1. InSection(s) \subseteq 1 .. Len(code) /\ Len(code) \in Nat /\ InSection(s) \subseteq DOMAIN code
    BY <1>2, SectionsOfCode DEF InSection
  <2>2. InOrder(InSection(s)) \in Seq(InSection(s))
        /\ DOMAIN InOrder(InSection(s)) = 1 .. Cardinality(InSection(s))
        /\ \A k \in 1 .. Cardinality(InSection(s)) : InOrder(InSection(s))[k] \in InSection(s)
    BY <2>1, InOrderIs
  <2>3. names'[s] \in Seq(DOMAIN code)
    BY <1>4, <2>1, <2>2, SeqOfSubset
  <2> QED  BY <1>4, <2>2, <2>3
<1>6. NamesInv'
  <2>1. names' = [s \in Sections |-> names'[s]]
    BY <1>1
  <2>2. names' \in [Sections -> Seq(DOMAIN code)]
    BY <1>5, <2>1
  <2> QED  BY <1>1, <1>3, <1>4, <1>5, <2>2 DEF Inv, NamesInv
<1>7. RecordsInv'
  BY <1>1, <1>3 DEF Inv, RecordsInv
<1>8. CounterInv'
  <2>1. \A s \in Sections : Consumed(s) = {} /\ Cardinality(Consumed(s)) = 0 /\ counter[s] = 0
    BY <1>1, FS_EmptySet DEF Inv, RecordsInv
  <2>2. \A s \in Sections : Taken(s) = {} /\ Cardinality(Taken(s)) = 0
    <3>1. \A s : Taken(s) = {}
      BY <1>1 DEF Inv, RecordsInv, Taken, Extracted
    <3> QED  BY <3>1, FS_EmptySet
  <2>3. \A s, j : Rank(InSection(s), j)' = Rank(InSection(s), j)
    BY <1>3 DEF Rank, Before
  <2> QED  BY <1>1, <1>3, <1>5, <2>1, <2>2, <2>3 DEF Inv, CounterInv
<1> QED  BY <1>3, <1>6, <1>7, <1>8 DEF Inv

-----------------------------------------------------------------------------
(* The record looked at. The records consumed of its section are those of  *)
(* the functions before it.                                                *)
LEMMA RecordAt ==
  ASSUME Inv, AtRecord
  PROVE  /\ sorted /\ code \in Seq(Compiled) /\ UNCHANGED <<code, absolute, table, names, sorted>>
         /\ records # << >> /\ Head(records) \in DOMAIN code /\ Head(records) \in Left
         /\ \A i \in Left : Head(records) <= i
         /\ Section \in Sections /\ Head(records) \in Procs(Section)
         /\ counter[Section] \in Nat
         /\ counter' = [counter EXCEPT ![Section] = counter[Section] + 1]
         /\ names[Section] = InOrder(InSection(Section))
         /\ Len(names[Section]) = Cardinality(InSection(Section)) /\ Len(names[Section]) \in Nat
         /\ Consumed(Section) = Before(Procs(Section), Head(records))
<1> DEFINE r == Head(records)
<1>1. /\ sorted /\ records # << >> /\ UNCHANGED <<code, absolute, table, names, sorted>>
      /\ counter' = [counter EXCEPT ![Section] = counter[Section] + 1]
  BY DEF AtRecord, given
<1>2. /\ code \in Seq(Compiled) /\ records \in Seq(DOMAIN code)
      /\ \A n \in DOMAIN records : code[records[n]].proc
      /\ \A m, n \in DOMAIN records : m < n => records[m] < records[n]
  BY DEF Inv, NamesInv, RecordsInv
<1>3. r = records[1] /\ 1 \in DOMAIN records /\ r \in DOMAIN code /\ code[r].proc
      /\ DOMAIN records = 1 .. Len(records) /\ Len(records) \in Nat
  BY <1>1, <1>2
<1>4. r \in Left
  BY <1>3 DEF Left
<1>5. \A i \in Left : r <= i
  <2> SUFFICES ASSUME NEW n \in DOMAIN records PROVE r <= records[n]
    BY DEF Left
  <2>1. n = 1 \/ 1 < n
    BY <1>3
  <2>2. records[1] \in Nat /\ records[n] \in Nat
    BY <1>2, <1>3
  <2>3. 1 < n => records[1] < records[n]
    BY <1>2, <1>3
  <2> QED  BY <1>3, <2>1, <2>2, <2>3
<1>6. Section = code[r].section /\ Section \in Sections /\ r \in Procs(Section)
  <2>1. Section \in Sections
    BY <1>2, <1>3, SectionsOfCode DEF Section, Compiled
  <2> QED  BY <1>3, <2>1 DEF Section, Procs, InSection
<1>7. counter[Section] \in Nat
  BY <1>6 DEF Inv, CounterInv
<1>8. names[Section] = InOrder(InSection(Section))
      /\ Len(names[Section]) = Cardinality(InSection(Section)) /\ Len(names[Section]) \in Nat
  <2>1. InSection(Section) \subseteq 1 .. Len(code) /\ Len(code) \in Nat
    BY <1>2, <1>6, SectionsOfCode
  <2>2. names[Section] = InOrder(InSection(Section))
    BY <1>1, <1>6 DEF Inv, NamesInv
  <2> QED  BY <2>1, <2>2, InOrderIs, Ranks
<1>9. Consumed(Section) = Before(Procs(Section), r)
  <2>1. \A i \in DOMAIN code : code[i].proc /\ i \notin Left => i < r
    BY <1>4 DEF Inv, RecordsInv
  <2>2. \A i \in Left : i \in Nat /\ r \in Nat /\ ~(i < r)
    <3>1. \A i \in Left : i \in DOMAIN code
      BY <1>2 DEF Left
    <3>2. \A i \in DOMAIN code : i \in Nat
      BY <1>2
    <3> QED  BY <1>3, <1>5, <3>1, <3>2
  <2>3. \A i \in Procs(Section) : i \in DOMAIN code /\ code[i].proc
    BY DEF Procs, InSection
  <2> QED  BY <2>1, <2>2, <2>3 DEF Consumed, Before
<1> QED  BY <1>1, <1>2, <1>3, <1>4, <1>5, <1>6, <1>7, <1>8, <1>9

(* The name looked at: counter[Section] functions of the section precede   *)
(* it.                                                                     *)
LEMMA NameAt ==
  ASSUME Inv, AtRecord, HasName
  PROVE  /\ Name \in InSection(Section)
         /\ Rank(InSection(Section), Name) = counter[Section]
         /\ counter[Section] < Len(names[Section])
         /\ \A j \in InSection(Section) :
              Rank(InSection(Section), j) < counter[Section] + 1 <=>
                Rank(InSection(Section), j) < counter[Section] \/ j = Name
<1> DEFINE S == InSection(Section)
           c == counter[Section]
<1>1. /\ code \in Seq(Compiled) /\ Section \in Sections /\ c \in Nat
      /\ names[Section] = InOrder(S) /\ Len(names[Section]) = Cardinality(S)
      /\ Len(names[Section]) \in Nat
  BY RecordAt
<1>2. S \subseteq 1 .. Len(code) /\ Len(code) \in Nat
  BY <1>1, SectionsOfCode
<1>3. c < Len(names[Section])
  BY DEF HasName
<1>4. Name = InOrder(S)[c + 1]
  BY <1>1 DEF Name
<1> HIDE DEF S, c
<1>5. c + 1 \in 1 .. Cardinality(S) /\ (c + 1) - 1 = c
  BY <1>1, <1>3
<1>6. Name \in S /\ Rank(S, Name) = c
  BY <1>2, <1>4, <1>5, InOrderIs
<1>7. ASSUME NEW j \in S
      PROVE  Rank(S, j) < c + 1 <=> Rank(S, j) < c \/ j = Name
  <2>1. Rank(S, j) \in Nat
    BY <1>2, Ranks
  <2>2. Rank(S, j) = c => j = Name
    BY <1>2, <1>6, Ranks
  <2> QED  BY <1>1, <1>6, <2>1, <2>2
<1> QED  BY <1>3, <1>6, <1>7 DEF S, c

(* A record left behind.                                                   *)
LEMMA RecordLeft ==
  ASSUME Inv, AtRecord, records' = Tail(records)
  PROVE  /\ RecordsInv'
         /\ \A s \in Sections :
              /\ Cardinality(Consumed(s)) \in Nat
              /\ s # Section => Consumed(s)' = Consumed(s)
              /\ s = Section => Cardinality(Consumed(s)') = Cardinality(Consumed(s)) + 1
<1> DEFINE r == Head(records)
           K == Section
<1>1. /\ sorted /\ code \in Seq(Compiled) /\ UNCHANGED <<code, absolute, table, names, sorted>>
      /\ records # << >> /\ r \in DOMAIN code /\ r \in Left /\ \A i \in Left : r <= i
      /\ K \in Sections /\ r \in Procs(K)
  BY RecordAt
<1>2. /\ records \in Seq(DOMAIN code)
      /\ \A n \in DOMAIN records : code[records[n]].proc
      /\ \A m, n \in DOMAIN records : m < n => records[m] < records[n]
      /\ \A i \in DOMAIN code : code[i].proc /\ i \notin Left => \A j \in Left : i < j
  BY DEF Inv, RecordsInv
<1>3. /\ records' \in Seq(DOMAIN code) /\ Len(records) \in Nat \ {0}
      /\ DOMAIN records' = 1 .. (Len(records) - 1) /\ DOMAIN records = 1 .. Len(records)
      /\ \A n \in DOMAIN records' : records'[n] = records[n + 1] /\ n + 1 \in DOMAIN records
      /\ r = records[1]
  BY <1>1, <1>2
<1>4. Left' = Left \ {r}
  <2>1. ASSUME NEW i \in Left' PROVE i \in Left \ {r}
    <3>1. PICK n \in DOMAIN records' : i = records'[n]
      BY <2>1 DEF Left
    <3>2. i = records[n + 1] /\ n + 1 \in DOMAIN records /\ 1 \in DOMAIN records /\ 1 < n + 1
      BY <1>3, <3>1
    <3>3. r < i
      BY <1>2, <1>3, <3>2
    <3>4. r \in Nat
      BY <1>1
    <3> QED  BY <3>2, <3>3, <3>4 DEF Left
  <2>2. ASSUME NEW i \in Left, i # r PROVE i \in Left'
    <3>1. PICK n \in DOMAIN records : i = records[n]
      BY DEF Left
    <3>2. n # 1
      BY <1>3, <2>2, <3>1
    <3>3. n - 1 \in DOMAIN records' /\ (n - 1) + 1 = n
      BY <1>3, <3>2
    <3>4. records'[n - 1] = i
      BY <1>3, <3>1, <3>3
    <3> QED  BY <3>3, <3>4 DEF Left
  <2> QED  BY <2>1, <2>2
<1>5. RecordsInv'
  <2>1. \A n \in DOMAIN records' : code[records'[n]].proc
    BY <1>2, <1>3
  <2>2. ASSUME NEW m \in DOMAIN records', NEW n \in DOMAIN records', m < n
        PROVE  records'[m] < records'[n]
    <3>1. m + 1 \in DOMAIN records /\ n + 1 \in DOMAIN records /\ m + 1 < n + 1
      BY <1>3, <2>2
    <3> QED  BY <1>2, <1>3, <3>1
  <2>3. ASSUME NEW i \in DOMAIN code, code[i].proc, i \notin Left', NEW j \in Left'
        PROVE  i < j
    <3>1. j \in Left /\ j # r
      BY <1>4
    <3>2. CASE i \notin Left
      BY <1>2, <2>3, <3>1, <3>2
    <3>3. CASE i = r
      <4>1. r <= j /\ r \in Nat /\ j \in Nat
        <5>1. \A n \in DOMAIN records : records[n] \in DOMAIN code
          BY <1>2, <1>3
        <5>2. \A k \in DOMAIN code : k \in Nat
          BY <1>1
        <5>3. j \in DOMAIN code
          BY <3>1, <5>1 DEF Left
        <5> QED  BY <1>1, <3>1, <5>2, <5>3
      <4> QED  BY <3>1, <3>3, <4>1
    <3> QED  BY <1>4, <2>3, <3>2, <3>3
  <2> QED  BY <1>1, <1>3, <2>1, <2>2, <2>3 DEF RecordsInv
<1>6. \A s : Procs(s)' = Procs(s)
  BY <1>1 DEF Procs, InSection
<1>7. ASSUME NEW s \in Sections, s # K PROVE Consumed(s)' = Consumed(s)
  <2>1. r \notin Procs(s)
    BY <1>1, <1>7 DEF Procs, InSection
  <2> QED  BY <1>4, <1>6, <2>1 DEF Consumed
<1>8. ASSUME NEW s \in Sections
      PROVE  IsFiniteSet(Consumed(s)) /\ Cardinality(Consumed(s)) \in Nat
  <2>1. Procs(s) \subseteq 1 .. Len(code) /\ Len(code) \in Nat
    BY <1>1, SectionsOfCode
  <2>2. Consumed(s) \subseteq 1 .. Len(code)
    BY <2>1 DEF Consumed
  <2> QED  BY <2>1, <2>2, Ranks
<1>9. ASSUME NEW s \in Sections, s = K
      PROVE  Cardinality(Consumed(s)') = Cardinality(Consumed(s)) + 1
  <2>1. Consumed(s)' = Procs(s) \ Left' /\ Consumed(s) = Procs(s) \ Left
    BY <1>6 DEF Consumed
  <2>2. r \in Procs(s)
    BY <1>1, <1>9
  <2>3. Consumed(s)' = Consumed(s) \cup {r} /\ r \notin Consumed(s)
    BY <1>1, <1>4, <2>1, <2>2
  <2> QED  BY <1>8, <2>3, FS_AddElement
<1> QED  BY <1>5, <1>7, <1>8, <1>9


(* Where the code and the order of the names stay, so do the ranks.        *)
LEMMA RanksStay ==
  ASSUME UNCHANGED code
  PROVE  /\ \A s : InSection(s)' = InSection(s)
         /\ \A s, i : Rank(InSection(s), i)' = Rank(InSection(s), i)
<1>1. \A s : InSection(s)' = InSection(s)
  BY DEF InSection
<1> QED  BY <1>1 DEF Rank, Before

LEMMA PassStep == Inv /\ PassOverName => Inv'
<1> SUFFICES ASSUME Inv, PassOverName PROVE Inv'
  OBVIOUS
<1>1. AtRecord /\ HasName /\ code[Name].kind # "cxx" /\ UNCHANGED <<records, functions>>
  BY DEF PassOverName
<1>2. /\ sorted /\ UNCHANGED <<code, absolute, table, names, sorted>> /\ Section \in Sections
      /\ counter[Section] \in Nat /\ Len(names[Section]) \in Nat
      /\ counter' = [counter EXCEPT ![Section] = counter[Section] + 1]
  BY <1>1, RecordAt
<1>3. /\ counter[Section] < Len(names[Section])
      /\ \A j \in InSection(Section) :
           Rank(InSection(Section), j) < counter[Section] + 1 <=>
             Rank(InSection(Section), j) < counter[Section] \/ j = Name
  BY <1>1, NameAt
<1>4. /\ Left' = Left
      /\ \A s : /\ InSection(s)' = InSection(s) /\ Procs(s)' = Procs(s)
                /\ Consumed(s)' = Consumed(s) /\ Taken(s)' = Taken(s)
      /\ \A i : Extracted(i)' <=> Extracted(i)
      /\ FunctionsInv => FunctionsInv'
  BY <1>1, <1>2, WalkStays
<1>5. NamesInv'
  BY <1>2, <1>4 DEF Inv, NamesInv
<1>6. RecordsInv'
  BY <1>1, <1>2, <1>4 DEF Inv, RecordsInv
<1>7. CounterInv'
  <2>1. \A s, i : Rank(InSection(s), i)' = Rank(InSection(s), i)
    BY <1>2, RanksStay
  <2>2. counter \in [Sections -> Nat] /\ counter' \in [Sections -> Nat]
    BY <1>2 DEF Inv, CounterInv
  <2>3. ASSUME NEW s \in Sections
        PROVE  /\ counter[s] <= Len(names[s]) + Cardinality(Consumed(s))
               /\ counter[s] <= Len(names[s]) => Cardinality(Consumed(s)) = Cardinality(Taken(s))
               /\ \A i \in InSection(s) :
                    Extracted(i) <=> code[i].kind = "cxx" /\ Rank(InSection(s), i) < counter[s]
    BY <1>2 DEF Inv, CounterInv
  <2>4. ASSUME NEW s \in Sections
        PROVE  /\ counter'[s] <= Len(names[s]) + Cardinality(Consumed(s))
               /\ counter'[s] <= Len(names[s]) => Cardinality(Consumed(s)) = Cardinality(Taken(s))
               /\ \A i \in InSection(s) :
                    Extracted(i) <=> code[i].kind = "cxx" /\ Rank(InSection(s), i) < counter'[s]
    <3>1. CASE s = Section
      <4>1. counter'[s] = counter[s] + 1
        BY <1>2, <3>1 DEF Inv, CounterInv
      <4>2. Cardinality(Consumed(s)) \in Nat
        <5>1. code \in Seq(Compiled)
          BY DEF Inv, NamesInv
        <5>2. Consumed(s) \subseteq 1 .. Len(code) /\ Len(code) \in Nat
          BY <5>1, SectionsOfCode DEF Consumed
        <5> QED  BY <5>2, Ranks
      <4>3. ASSUME NEW i \in InSection(s)
            PROVE  Extracted(i) <=> code[i].kind = "cxx" /\ Rank(InSection(s), i) < counter'[s]
        BY <1>1, <1>3, <2>3, <3>1, <4>1
      <4> QED  BY <1>2, <1>3, <2>3, <3>1, <4>1, <4>2, <4>3
    <3>2. CASE s # Section
      <4>1. counter'[s] = counter[s]
        BY <1>2, <2>2, <3>2
      <4> QED  BY <2>3, <4>1
    <3> QED  BY <3>1, <3>2
  <2> QED  BY <1>2, <1>4, <2>1, <2>2, <2>4 DEF CounterInv
<1> QED  BY <1>4, <1>5, <1>6, <1>7 DEF Inv

-----------------------------------------------------------------------------
(* A C++ function is taken: what its record and its line are.              *)

(* Without a function passed over before it that has a record, the records *)
(* consumed are those of the C++ functions before it, and the next is its  *)
(* own.                                                                    *)
LEMMA OwnBody ==
  ASSUME Inv, AtRecord, HasName, code[Name].kind = "cxx",
         \A j \in InSection(Section) : j < Name => code[j].kind = "cxx" \/ ~code[j].proc
  PROVE  Head(records) = Name
<1> DEFINE S == InSection(Section)
           P == Procs(Section)
           r == Head(records)
           i == Name
<1>1. /\ sorted /\ code \in Seq(Compiled) /\ Section \in Sections /\ r \in P
      /\ counter[Section] \in Nat /\ Len(names[Section]) \in Nat
      /\ Consumed(Section) = Before(P, r)
  BY RecordAt
<1>2. i \in S /\ Rank(S, i) = counter[Section] /\ counter[Section] < Len(names[Section])
  BY NameAt
<1>3. /\ S \subseteq 1 .. Len(code) /\ P \subseteq 1 .. Len(code) /\ Len(code) \in Nat
      /\ \A k \in S : code[k].kind = "cxx" => code[k].proc
  <2>1. S \subseteq DOMAIN code
    BY DEF InSection
  <2> QED  BY <1>1, <2>1, SectionsOfCode
<1>4. Cardinality(Consumed(Section)) = Cardinality(Taken(Section))
      /\ \A k \in S : Extracted(k) <=> code[k].kind = "cxx" /\ Rank(S, k) < counter[Section]
  BY <1>1, <1>2 DEF Inv, CounterInv
<1>5. \A k \in S : Rank(S, k) < Rank(S, i) <=> k < i
  <2> HIDE DEF S, i
  <2>1. \A k \in S : Rank(S, k) \in Nat /\ k \in Nat
    <3>1. \A k \in S : Rank(S, k) \in Nat
      BY <1>3, Ranks
    <3> QED  BY <1>3, <3>1
  <2>2. \A k, l \in S : k < l => Rank(S, k) < Rank(S, l)
    BY <1>3, Ranks
  <2> QED  BY <1>2, <2>1, <2>2
<1>6. Taken(Section) = Before(P, i)
  <2>1. Taken(Section) = {k \in S : Extracted(k)} /\ P = {k \in S : code[k].proc}
    BY DEF Taken, Procs
  <2>2. \A k \in S : Extracted(k) <=> code[k].proc /\ k < i
    BY <1>2, <1>3, <1>4, <1>5
  <2> QED  BY <2>1, <2>2 DEF Before
<1>7. i \in P /\ Rank(P, r) = Rank(P, i)
  BY <1>1, <1>2, <1>3, <1>4, <1>6 DEF Rank, Procs
<1> HIDE DEF P, r, i
<1>8. r = i
  BY <1>1, <1>3, <1>7, Ranks
<1> QED  BY <1>8 DEF r, i

(* The line is one of the section's or 0, and its own where the functions  *)
(* up to it have one line record at offset 0 each: as many of them then    *)
(* precede it as names, and the ranges in which the functions find theirs  *)
(* follow one another. Never is it that of a function without such a       *)
(* record, as all but the first are where offsets are absolute.            *)
LEMMA OwnLine ==
  ASSUME Inv, AtRecord, HasName
  PROVE  /\ Line(Section, counter[Section]) \in DOMAIN code \cup {0}
         /\ (\A j \in Before(InSection(Section), Name) \cup {Name} : Zeros(j) = 1)
              => Line(Section, counter[Section]) = Name
         /\ absolute /\ Before(InSection(Section), Name) # {}
              => Line(Section, counter[Section]) # Name
<1> DEFINE S == InSection(Section)
           c == counter[Section]
           i == Name
           B(k) == ZerosBefore(S, k)
           found == {k \in S : Cardinality(B(k)) <= c /\ c < Cardinality(B(k)) + Zeros(k)}
<1>1. code \in Seq(Compiled) /\ Section \in Sections /\ c \in Nat
  BY RecordAt
<1>2. i \in S /\ Rank(S, i) = c
  BY NameAt
<1>3. /\ Len(code) \in Nat /\ S \subseteq 1 .. Len(code) /\ S \subseteq DOMAIN code
      /\ \A k \in S : k \in Nat
  BY <1>1, SectionsOfCode DEF InSection
<1>4. Line(Section, c) = IF found = {} THEN 0 ELSE CHOOSE k \in found : TRUE
  BY DEF Line
<1>5. Line(Section, c) \in DOMAIN code \cup {0}
  <2>1. found \subseteq DOMAIN code
    BY <1>3
  <2> HIDE DEF found
  <2> QED  BY <1>4, <2>1
<1>6. MaxStarts \in Nat \ {0} /\ 1 \in 1 .. MaxStarts
  BY MaxFuncsAssumption DEF MaxFuncsAssumption
<1>7. \A k \in S : IsFiniteSet(B(k)) /\ Cardinality(B(k)) \in Nat
  <2>1. \A k \in S : Before(S, k) \subseteq 1 .. Len(code)
    BY <1>3 DEF Before
  <2>2. IsFiniteSet(1 .. MaxStarts)
    BY <1>6, FS_Interval
  <2> SUFFICES ASSUME NEW k \in S PROVE IsFiniteSet(B(k)) /\ Cardinality(B(k)) \in Nat
    OBVIOUS
  <2>3. IsFiniteSet(Before(S, k))
    BY <1>3, <2>1, Ranks
  <2>4. IsFiniteSet(Before(S, k) \X (1 .. MaxStarts))
    BY <2>2, <2>3, FS_Product
  <2>5. B(k) \subseteq Before(S, k) \X (1 .. MaxStarts)
    BY DEF ZerosBefore
  <2> QED  BY <2>4, <2>5, FS_Subset, FS_CardinalityType
<1>8. ASSUME \A j \in Before(S, i) \cup {i} : Zeros(j) = 1
      PROVE  Line(Section, c) = i
  <2>1. \A j \in S : j <= i => Zeros(j) = 1
    <3> HIDE DEF i, S
    <3> QED  BY <1>2, <1>3, <1>8 DEF Before
  <2>2. ASSUME NEW k \in S, k <= i
        PROVE  Cardinality(B(k)) = Rank(S, k)
    <3> DEFINE R == Before(S, k)
               f == [j \in R |-> <<j, 1>>]
    <3>1. \A j \in R : j \in Nat /\ Zeros(j) = 1
      BY <1>2, <1>3, <2>1, <2>2 DEF Before
    <3>2. \A j \in R : <<j, 1>> \in B(k)
      BY <1>6, <3>1 DEF ZerosBefore
    <3>3. \A r \in B(k) : r[1] \in R /\ r = <<r[1], 1>>
      <4> SUFFICES ASSUME NEW r \in B(k) PROVE r[1] \in R /\ r = <<r[1], 1>>
        OBVIOUS
      <4>1. r \in R \X (1 .. MaxStarts) /\ r[2] <= Zeros(r[1])
        BY DEF ZerosBefore
      <4>2. r[1] \in R /\ r[2] \in 1 .. MaxStarts /\ r = <<r[1], r[2]>>
        BY <4>1
      <4>3. r[2] = 1
        BY <1>6, <3>1, <4>1, <4>2
      <4> QED  BY <4>2, <4>3
    <3> HIDE DEF B
    <3>4. f \in Bijection(R, B(k))
      <4>1. f \in [R -> B(k)]
        BY <3>2
      <4>2. \A x, y \in R : f[x] = f[y] => x = y
        OBVIOUS
      <4>3. \A r \in B(k) : \E j \in R : f[j] = r
        BY <3>3
      <4> HIDE DEF f, R
      <4> QED  BY <4>1, <4>2, <4>3 DEF Bijection, Injection, Surjection, IsInjective
    <3>5. IsFiniteSet(R)
      <4>1. R \subseteq 1 .. Len(code)
        BY <1>3 DEF Before
      <4> QED  BY <1>3, <4>1, Ranks
    <3> HIDE DEF f
    <3> QED  BY <3>4, <3>5, FS_Bijection DEF Rank, ExistsBijection
  <2>3. i \in found
    <3>1. Cardinality(B(i)) = c /\ Zeros(i) = 1
      BY <1>2, <1>3, <2>1, <2>2
    <3> HIDE DEF B, i, c
    <3> QED  BY <1>1, <1>2, <3>1
  <2>4. ASSUME NEW k \in found
        PROVE  k = i
    <3>1. k \in S /\ Cardinality(B(k)) <= c /\ c < Cardinality(B(k)) + Zeros(k)
      BY <2>4
    <3>2. ~(k < i)
      <4> SUFFICES ASSUME k < i PROVE FALSE
        OBVIOUS
      <4>1. Cardinality(B(k)) = Rank(S, k) /\ Zeros(k) = 1
        BY <1>2, <1>3, <2>1, <2>2, <3>1
      <4>2. Rank(S, k) < Rank(S, i) /\ Rank(S, k) \in Nat
        BY <1>2, <1>3, <3>1, Ranks
      <4> HIDE DEF B, S, i, c
      <4> QED  BY <1>1, <1>2, <3>1, <4>1, <4>2
    <3>3. ~(i < k)
      <4> SUFFICES ASSUME i < k PROVE FALSE
        OBVIOUS
      <4>1. <<i, 1>> \notin B(i) /\ <<i, 1>> \in B(k)
        BY <1>2, <1>3, <2>1, <1>6 DEF ZerosBefore, Before
      <4>2. B(i) \subseteq B(k)
        BY <1>2, <1>3, <3>1 DEF ZerosBefore, Before
      <4> HIDE DEF B, S, i, c
      <4>3. /\ IsFiniteSet(B(i) \cup {<<i, 1>>})
            /\ Cardinality(B(i) \cup {<<i, 1>>}) = Cardinality(B(i)) + 1
        BY <1>2, <1>7, <4>1, FS_AddElement
      <4>4. Cardinality(B(i) \cup {<<i, 1>>}) <= Cardinality(B(k))
        BY <1>7, <3>1, <4>1, <4>2, FS_Subset
      <4>5. Cardinality(B(i)) = c
        BY <1>2, <1>3, <2>2
      <4> QED  BY <1>1, <1>7, <3>1, <4>3, <4>4, <4>5
    <3> QED  BY <1>2, <1>3, <3>1, <3>2, <3>3
  <2> HIDE DEF found, i, c
  <2> QED  BY <1>4, <2>3, <2>4
<1>9. ASSUME absolute, Before(S, i) # {}
      PROVE  Line(Section, c) # i
  <2>1. Zeros(i) = 0
    BY <1>2, <1>9 DEF Zeros, InSection
  <2>2. i \notin found
    <3> SUFFICES ASSUME i \in found PROVE FALSE
      OBVIOUS
    <3>1. c < Cardinality(B(i)) + Zeros(i) /\ Cardinality(B(i)) <= c
      OBVIOUS
    <3>2. Cardinality(B(i)) \in Nat
      BY <1>2, <1>7
    <3> HIDE DEF B, i, c
    <3> QED  BY <1>1, <2>1, <3>1, <3>2
  <2>3. i # 0
    BY <1>2, <1>3
  <2> HIDE DEF found
  <2> QED  BY <1>4, <2>2, <2>3
<1> QED  BY <1>5, <1>8, <1>9

(* What taking the name does to the functions extracted.                   *)
LEMMA FunctionTaken ==
  ASSUME Inv, TakeName
  PROVE  /\ FunctionsInv'
         /\ \A i : Extracted(i)' <=> Extracted(i) \/ i = Name
         /\ ~Extracted(Name)
<1> DEFINE F == [name : DOMAIN code, record : DOMAIN code, line : DOMAIN code \cup {0}]
           e == [name |-> Name, record |-> Head(records), line |-> Line(Section, counter[Section])]
           n == Len(functions) + 1
<1>1. AtRecord /\ HasName /\ code[Name].kind = "cxx" /\ functions' = Append(functions, e)
  BY DEF TakeName
<1>2. /\ UNCHANGED <<code, absolute>> /\ Section \in Sections /\ Head(records) \in DOMAIN code
      /\ counter[Section] \in Nat
  BY <1>1, RecordAt
<1>3. Name \in InSection(Section) /\ Rank(InSection(Section), Name) = counter[Section]
  BY <1>1, NameAt
<1>4. Name \in DOMAIN code /\ code[Name].section = Section
  BY <1>3 DEF InSection
<1>5. e \in F /\ e.name = Name /\ e.record = Head(records)
      /\ e.line = Line(Section, counter[Section])
  BY <1>1, <1>2, <1>4, OwnLine
<1>6. functions \in Seq(F) /\ EachNameOnce /\ BodiesAreOwn /\ LinesAreOwn
      /\ absolute \in BOOLEAN
  BY DEF Inv, FunctionsInv
<1> HIDE DEF F, e
<1>7. /\ functions' \in Seq(F) /\ n \in Nat
      /\ DOMAIN functions = 1 .. (n - 1) /\ DOMAIN functions' = 1 .. n
      /\ functions'[n] = e /\ \A m \in DOMAIN functions : functions'[m] = functions[m]
  BY <1>1, <1>5, <1>6
<1>8. \A m \in DOMAIN functions' : m = n \/ m \in DOMAIN functions
  BY <1>7
<1>9. n \in DOMAIN functions' /\ \A m \in DOMAIN functions : m \in DOMAIN functions'
  BY <1>7
<1>10. \A i : Extracted(i)' <=> Extracted(i) \/ i = Name
  BY <1>5, <1>7, <1>8, <1>9 DEF Extracted
<1>11. ~Extracted(Name)
  BY <1>2, <1>3 DEF Inv, CounterInv
<1>12. EachNameOnce'
  <2>1. \A m \in DOMAIN functions : functions[m].name # Name
    BY <1>11 DEF Extracted
  <2> QED  BY <1>5, <1>6, <1>7, <1>8, <2>1 DEF EachNameOnce
<1>13. \A s : InSection(s)' = InSection(s)
  BY <1>2, RanksStay
<1>14. BodiesAreOwn'
  <2> SUFFICES ASSUME NEW m \in DOMAIN functions',
                      \A j \in InSection(code[functions'[m].name].section) :
                        j < functions'[m].name => code[j].kind = "cxx" \/ ~code[j].proc
               PROVE  functions'[m].record = functions'[m].name
    BY <1>2, <1>13 DEF BodiesAreOwn
  <2>1. CASE m = n
    <3>1. functions'[m].name = Name /\ functions'[m].record = Head(records)
      BY <1>5, <1>7, <2>1
    <3>2. Head(records) = Name
      BY <1>1, <1>4, <3>1, OwnBody
    <3> QED  BY <3>1, <3>2
  <2>2. CASE m \in DOMAIN functions
    BY <1>6, <1>7, <2>2 DEF BodiesAreOwn
  <2> QED  BY <1>8, <2>1, <2>2
<1>15. LinesAreOwn'
  <2> DEFINE Own(m, fs) ==
        LET k == fs[m].name
            others == Before(InSection(code[k].section), k)
        IN /\ (\A j \in others \cup {k} : Zeros(j) = 1) => fs[m].line = k
           /\ absolute /\ others # {} => fs[m].line # k
  <2>1. LinesAreOwn' <=> \A m \in DOMAIN functions' : Own(m, functions')
    <3>1. \A i : Zeros(i)' = Zeros(i)
      BY <1>2, ZerosStay
    <3>2. \A S, i : Before(S, i)' = Before(S, i)
      BY DEF Before
    <3> QED  BY <1>2, <1>13, <3>1, <3>2 DEF LinesAreOwn, Before
  <2>2. Own(n, functions')
    <3>1. functions'[n].name = Name /\ functions'[n].line = Line(Section, counter[Section])
      BY <1>5, <1>7
    <3> QED  BY <1>1, <1>4, <3>1, OwnLine
  <2>3. \A m \in DOMAIN functions : Own(m, functions')
    BY <1>6, <1>7 DEF LinesAreOwn
  <2> HIDE DEF Own
  <2> QED  BY <1>8, <2>1, <2>2, <2>3
<1>16. FunctionsInv'
  BY <1>2, <1>6, <1>7, <1>12, <1>14, <1>15 DEF FunctionsInv, F
<1> QED  BY <1>10, <1>11, <1>16

LEMMA TakeStep == Inv /\ TakeName => Inv'
<1> SUFFICES ASSUME Inv, TakeName PROVE Inv'
  OBVIOUS
<1>1. AtRecord /\ HasName /\ code[Name].kind = "cxx" /\ records' = Tail(records)
  BY DEF TakeName
<1>2. /\ sorted /\ code \in Seq(Compiled) /\ UNCHANGED <<code, absolute, table, names, sorted>>
      /\ Section \in Sections
      /\ counter[Section] \in Nat /\ Len(names[Section]) \in Nat
      /\ counter' = [counter EXCEPT ![Section] = counter[Section] + 1]
  BY <1>1, RecordAt
<1>3. /\ counter[Section] < Len(names[Section]) /\ Name \in InSection(Section)
      /\ \A j \in InSection(Section) :
           Rank(InSection(Section), j) < counter[Section] + 1 <=>
             Rank(InSection(Section), j) < counter[Section] \/ j = Name
  BY <1>1, NameAt
<1>4. /\ RecordsInv'
      /\ \A s \in Sections :
           /\ Cardinality(Consumed(s)) \in Nat
           /\ s # Section => Consumed(s)' = Consumed(s)
           /\ s = Section => Cardinality(Consumed(s)') = Cardinality(Consumed(s)) + 1
  BY <1>1, RecordLeft
<1>5. FunctionsInv' /\ (\A i : Extracted(i)' <=> Extracted(i) \/ i = Name) /\ ~Extracted(Name)
  BY FunctionTaken
<1>6. /\ \A s : InSection(s)' = InSection(s)
      /\ \A s, i : Rank(InSection(s), i)' = Rank(InSection(s), i)
  BY <1>2, RanksStay
<1>7. NamesInv'
  BY <1>2, <1>6 DEF Inv, NamesInv
<1>8. ASSUME NEW s \in Sections
      PROVE  /\ s # Section => Taken(s)' = Taken(s)
             /\ s = Section => Cardinality(Taken(s)') = Cardinality(Taken(s)) + 1
  <2>1. CASE s # Section
    <3>1. Name \notin InSection(s)
      BY <1>3, <2>1 DEF InSection
    <3> QED  BY <1>5, <1>6, <2>1, <3>1 DEF Taken
  <2>2. CASE s = Section
    <3>1. Taken(s)' = Taken(s) \cup {Name} /\ Name \notin Taken(s)
      BY <1>3, <1>5, <1>6, <2>2 DEF Taken
    <3>2. InSection(s) \subseteq 1 .. Len(code) /\ Len(code) \in Nat
      BY <1>2, SectionsOfCode
    <3>3. Taken(s) \subseteq 1 .. Len(code)
      BY <3>2 DEF Taken
    <3>4. IsFiniteSet(Taken(s))
      BY <3>2, <3>3, Ranks
    <3> QED  BY <2>2, <3>1, <3>4, FS_AddElement
  <2> QED  BY <2>1, <2>2
<1>9. counter \in [Sections -> Nat] /\ counter' \in [Sections -> Nat]
  BY <1>2 DEF Inv, CounterInv
<1>10. ASSUME NEW s \in Sections
       PROVE  /\ counter'[s] <= Len(names[s]) + Cardinality(Consumed(s)')
              /\ counter'[s] <= Len(names[s]) => Cardinality(Consumed(s)') = Cardinality(Taken(s)')
              /\ \A i \in InSection(s) :
                   Extracted(i)' <=> code[i].kind = "cxx" /\ Rank(InSection(s), i) < counter'[s]
  <2>1. /\ counter[s] <= Len(names[s]) + Cardinality(Consumed(s))
        /\ counter[s] <= Len(names[s]) => Cardinality(Consumed(s)) = Cardinality(Taken(s))
        /\ \A i \in InSection(s) :
             Extracted(i) <=> code[i].kind = "cxx" /\ Rank(InSection(s), i) < counter[s]
    BY <1>2 DEF Inv, CounterInv
  <2>2. CASE s = Section
    <3>1. counter'[s] = counter[s] + 1
      BY <1>2, <1>9, <2>2
    <3>2. ASSUME NEW i \in InSection(s)
          PROVE  Extracted(i)' <=> code[i].kind = "cxx" /\ Rank(InSection(s), i) < counter'[s]
      BY <1>1, <1>3, <1>5, <2>1, <2>2, <3>1
    <3> QED  BY <1>2, <1>3, <1>4, <1>8, <2>1, <2>2, <3>1, <3>2
  <2>3. CASE s # Section
    <3>1. counter'[s] = counter[s] /\ Consumed(s)' = Consumed(s) /\ Taken(s)' = Taken(s)
      BY <1>2, <1>4, <1>8, <1>9, <2>3
    <3>2. \A i \in InSection(s) : Extracted(i)' <=> Extracted(i)
      BY <1>3, <1>5, <2>3 DEF InSection
    <3> QED  BY <2>1, <3>1, <3>2
  <2> QED  BY <2>2, <2>3
<1>11. CounterInv'
  BY <1>2, <1>6, <1>9, <1>10 DEF CounterInv
<1> QED  BY <1>4, <1>5, <1>7, <1>11 DEF Inv

(* Behind the last name no function of the section is left, and a record   *)
(* is used for each count.                                                 *)
LEMMA NoNameStep == Inv /\ NoName => Inv'
<1> SUFFICES ASSUME Inv, NoName PROVE Inv'
  OBVIOUS
<1>1. AtRecord /\ ~HasName /\ records' = Tail(records) /\ UNCHANGED functions
  BY DEF NoName
<1>2. /\ sorted /\ code \in Seq(Compiled) /\ UNCHANGED <<code, absolute, table, names, sorted>>
      /\ Section \in Sections
      /\ counter[Section] \in Nat /\ Len(names[Section]) \in Nat
      /\ Len(names[Section]) = Cardinality(InSection(Section))
      /\ counter' = [counter EXCEPT ![Section] = counter[Section] + 1]
  BY <1>1, RecordAt
<1>3. counter[Section] >= Len(names[Section])
  BY <1>1, <1>2 DEF HasName
<1>4. /\ RecordsInv'
      /\ \A s \in Sections :
           /\ Cardinality(Consumed(s)) \in Nat
           /\ s # Section => Consumed(s)' = Consumed(s)
           /\ s = Section => Cardinality(Consumed(s)') = Cardinality(Consumed(s)) + 1
  BY <1>1, RecordLeft
<1>5. /\ \A s : InSection(s)' = InSection(s)
      /\ \A s, i : Rank(InSection(s), i)' = Rank(InSection(s), i)
  BY <1>2, RanksStay
<1>6. /\ \A i : Extracted(i)' <=> Extracted(i)
      /\ \A s : Taken(s)' = Taken(s)
      /\ FunctionsInv'
  <2>1. \A i : Extracted(i)' <=> Extracted(i)
    BY <1>1 DEF Extracted
  <2>2. \A s : Taken(s)' = Taken(s)
    BY <1>5, <2>1 DEF Taken
  <2>3. \A i : Zeros(i)' = Zeros(i)
    BY <1>2, ZerosStay
  <2>4. LinesAreOwn'
    BY <1>1, <1>2, <1>5, <2>3 DEF Inv, FunctionsInv, LinesAreOwn, Before
  <2> QED  BY <1>1, <1>2, <1>5, <2>1, <2>2, <2>4
           DEF Inv, FunctionsInv, EachNameOnce, BodiesAreOwn
<1>7. NamesInv'
  BY <1>2, <1>5 DEF Inv, NamesInv
<1>8. counter \in [Sections -> Nat] /\ counter' \in [Sections -> Nat]
  BY <1>2 DEF Inv, CounterInv
<1>9. ASSUME NEW s \in Sections
      PROVE  /\ counter'[s] <= Len(names[s]) + Cardinality(Consumed(s)')
             /\ counter'[s] <= Len(names[s]) => Cardinality(Consumed(s)') = Cardinality(Taken(s))
             /\ \A i \in InSection(s) :
                  Extracted(i) <=> code[i].kind = "cxx" /\ Rank(InSection(s), i) < counter'[s]
  <2>1. /\ counter[s] <= Len(names[s]) + Cardinality(Consumed(s))
        /\ counter[s] <= Len(names[s]) => Cardinality(Consumed(s)) = Cardinality(Taken(s))
        /\ \A i \in InSection(s) :
             Extracted(i) <=> code[i].kind = "cxx" /\ Rank(InSection(s), i) < counter[s]
    BY <1>2 DEF Inv, CounterInv
  <2>2. CASE s = Section
    <3>1. counter'[s] = counter[s] + 1
      BY <1>2, <1>8, <2>2
    <3>2. ASSUME NEW i \in InSection(s)
          PROVE  Rank(InSection(s), i) < counter[s] /\ Rank(InSection(s), i) < counter'[s]
      <4>1. InSection(s) \subseteq 1 .. Len(code) /\ Len(code) \in Nat
        BY <1>2, SectionsOfCode
      <4>2. Rank(InSection(s), i) \in 0 .. Cardinality(InSection(s)) - 1
        BY <4>1, Ranks
      <4> QED  BY <1>2, <1>3, <2>2, <3>1, <4>2
    <3> QED  BY <1>2, <1>3, <1>4, <2>1, <2>2, <3>1, <3>2
  <2>3. CASE s # Section
    <3>1. counter'[s] = counter[s] /\ Consumed(s)' = Consumed(s)
      BY <1>2, <1>4, <1>8, <2>3
    <3> QED  BY <2>1, <3>1
  <2> QED  BY <2>2, <2>3
<1>10. CounterInv'
  BY <1>2, <1>5, <1>6, <1>8, <1>9 DEF CounterInv
<1> QED  BY <1>4, <1>6, <1>7, <1>10 DEF Inv


LEMMA InvStep == Inv /\ [Next]_vars => Inv'
<1> SUFFICES ASSUME Inv, [Next]_vars PROVE Inv'
  OBVIOUS
<1>1. CASE ReadSymbol
  BY <1>1, ReadStep
<1>2. CASE SortNames
  BY <1>2, SortStep
<1>3. CASE PassOverName
  BY <1>3, PassStep
<1>4. CASE TakeName
  BY <1>4, TakeStep
<1>5. CASE NoName
  BY <1>5, NoNameStep
<1>6. CASE UNCHANGED vars
  <2>1. UNCHANGED <<code, absolute, table, names, sorted, records, counter, functions>>
    BY <1>6 DEF vars, given
  <2>2. /\ Left' = Left
        /\ \A s : /\ InSection(s)' = InSection(s) /\ Procs(s)' = Procs(s)
                  /\ Consumed(s)' = Consumed(s) /\ Taken(s)' = Taken(s)
        /\ \A i : Extracted(i)' <=> Extracted(i)
        /\ FunctionsInv => FunctionsInv'
    BY <2>1, WalkStays
  <2>3. \A s, i : Rank(InSection(s), i)' = Rank(InSection(s), i)
    BY <2>1, RanksStay
  <2>4. NamesInv'
    BY <2>1, <2>2 DEF Inv, NamesInv
  <2>5. RecordsInv'
    BY <2>1, <2>2 DEF Inv, RecordsInv
  <2>6. CounterInv'
    BY <2>1, <2>2, <2>3 DEF Inv, CounterInv
  <2> QED  BY <2>2, <2>4, <2>5, <2>6 DEF Inv
<1> QED  BY <1>1, <1>2, <1>3, <1>4, <1>5, <1>6 DEF Next, Finished

(* Together, the sections, the counters and the functions extracted are    *)
(* what the names in order and the records in order make of them.          *)
THEOREM InvAlways == Spec => []Inv
BY InvInit, InvStep, PTL DEF Spec

-----------------------------------------------------------------------------
(* A counter has no type of its own in the code but int: it stays below    *)
(* the names and the records of its section together, so it cannot         *)
(* overflow however often a record is looked at.                           *)
LEMMA TypeOfInv == Inv => TypeOK
<1> SUFFICES ASSUME Inv PROVE TypeOK
  OBVIOUS
<1>1. /\ code \in Seq(Compiled) /\ table \in Seq(DOMAIN code)
      /\ names \in [Sections -> Seq(DOMAIN code)] /\ records \in Seq(DOMAIN code)
      /\ functions \in Seq([name : DOMAIN code, record : DOMAIN code, line : DOMAIN code \cup {0}])
      /\ absolute \in BOOLEAN
  BY DEF Inv, NamesInv, RecordsInv, FunctionsInv
<1>2. ASSUME NEW s \in Sections
      PROVE  counter[s] <= Len(names[s]) + Cardinality({i \in InSection(s) : code[i].proc})
  <2>1. Procs(s) \subseteq 1 .. Len(code) /\ Len(code) \in Nat
    BY <1>1, SectionsOfCode
  <2>2. IsFiniteSet(Procs(s)) /\ Cardinality(Procs(s)) \in Nat
    BY <2>1, Ranks
  <2>3. Consumed(s) \in SUBSET Procs(s)
    BY DEF Consumed
  <2>4. IsFiniteSet(Consumed(s)) /\ Cardinality(Consumed(s)) <= Cardinality(Procs(s))
    BY <2>2, <2>3, FS_Subset
  <2>5. Cardinality(Consumed(s)) \in Nat
    BY <2>4, FS_CardinalityType
  <2>6. counter[s] \in Nat /\ counter[s] <= Len(names[s]) + Cardinality(Consumed(s))
    BY DEF Inv, CounterInv
  <2>7. Len(names[s]) \in Nat
    BY <1>1
  <2>8. counter[s] <= Len(names[s]) + Cardinality(Procs(s))
    BY <2>2, <2>4, <2>5, <2>6, <2>7
  <2> QED  BY <2>8 DEF Procs
<1> QED  BY <1>1, <1>2 DEF TypeOK

(* When the walk is over, every record of every section was consumed. A    *)
(* C++ function that was not extracted would have stopped its section's    *)
(* counter among the names, with as many records consumed as functions     *)
(* extracted: then the functions extracted would be all those with a       *)
(* record, and it has one.                                                 *)
LEMMA NothingLostOfInv == Inv => NothingLost
<1> SUFFICES ASSUME Inv, Done, NEW i \in DOMAIN code, code[i].kind = "cxx", ~Extracted(i)
             PROVE  FALSE
  BY DEF NothingLost, Extracted
<1> DEFINE s == code[i].section
           S == InSection(s)
<1>1. sorted /\ records = << >> /\ code \in Seq(Compiled)
  BY DEF Inv, NamesInv, Done
<1>2. s \in Sections /\ i \in S /\ code[i].proc
      /\ \A k \in DOMAIN code : code[k].kind = "cxx" => code[k].proc
  <2>1. \A k \in DOMAIN code : code[k] \in Compiled
    BY <1>1
  <2>2. \A c \in Compiled : c.section \in Sections /\ (c.kind = "cxx" => c.proc)
    BY DEF Compiled
  <2>3. i \in S
    BY DEF InSection
  <2> HIDE DEF S
  <2> QED  BY <2>1, <2>2, <2>3
<1>3. S \subseteq 1 .. Len(code) /\ Procs(s) \subseteq 1 .. Len(code) /\ Len(code) \in Nat
  BY <1>1, <1>2, SectionsOfCode
<1> HIDE DEF s
<1>4. Consumed(s) = Procs(s)
  <2>1. Left = {}
    BY <1>1 DEF Left
  <2> QED  BY <2>1 DEF Consumed
<1>5. /\ counter[s] \in Nat /\ names[s] = InOrder(S)
      /\ counter[s] <= Len(names[s]) => Cardinality(Consumed(s)) = Cardinality(Taken(s))
      /\ \A k \in S : Extracted(k) <=> code[k].kind = "cxx" /\ Rank(S, k) < counter[s]
  BY <1>1, <1>2 DEF Inv, NamesInv, CounterInv
<1>6. counter[s] <= Len(names[s])
  <2>1. Rank(S, i) \in 0 .. Cardinality(S) - 1 /\ Cardinality(S) \in Nat
    BY <1>2, <1>3, Ranks
  <2>2. Len(names[s]) = Cardinality(S)
    BY <1>3, <1>5, InOrderIs
  <2>3. ~(Rank(S, i) < counter[s])
    BY <1>2, <1>5
  <2> HIDE DEF S
  <2> QED  BY <1>5, <2>1, <2>2, <2>3
<1>7. Taken(s) \in SUBSET Procs(s)
  <2>1. \A k \in S : Extracted(k) => code[k].proc
    BY <1>2, <1>5 DEF InSection
  <2> QED  BY <2>1 DEF Taken, Procs
<1>8. IsFiniteSet(Procs(s))
  BY <1>3, Ranks
<1>9. Cardinality(Taken(s)) = Cardinality(Procs(s))
  BY <1>4, <1>5, <1>6
<1>10. Taken(s) = Procs(s)
  BY <1>7, <1>8, <1>9, FS_Subset
<1>11. i \in Procs(s) /\ i \notin Taken(s)
  BY <1>2 DEF Procs, Taken
<1> QED  BY <1>10, <1>11

(* Type correctness, with the bound of the counters.                       *)
THEOREM TypeCorrect == Spec => []TypeOK
BY InvAlways, TypeOfInv, PTL

(* No function is extracted twice, for any number of functions.            *)
THEOREM EachNameOnceAlways == Spec => []EachNameOnce
<1>1. Inv => EachNameOnce
  BY DEF Inv, FunctionsInv
<1> QED  BY <1>1, InvAlways, PTL

(* Every C++ function is extracted, though names are passed over.          *)
THEOREM NothingLostAlways == Spec => []NothingLost
BY InvAlways, NothingLostOfInv, PTL

(* A C++ function's body is its own unless a passed-over function with a   *)
(* record comes before it in its section.                                  *)
THEOREM BodiesAreOwnAlways == Spec => []BodiesAreOwn
<1>1. Inv => BodiesAreOwn
  BY DEF Inv, FunctionsInv
<1> QED  BY <1>1, InvAlways, PTL

(* A C++ function's line is its own if it and the functions before it in   *)
(* its section have one line record at offset 0 each, and never where      *)
(* offsets are absolute and it is not the first.                           *)
THEOREM LinesAreOwnAlways == Spec => []LinesAreOwn
<1>1. Inv => LinesAreOwn
  BY DEF Inv, FunctionsInv
<1> QED  BY <1>1, InvAlways, PTL
=============================================================================
