-------------------------- MODULE ReportEntryProofs ---------------------------
(***************************************************************************)
(* One entry of the report, proved for any number of definitions: each is  *)
(* printed once, and rightly grouped, although == is no equivalence, and a *)
(* difference is shown.                                                    *)
(***************************************************************************)
EXTENDS ReportEntry, BodiesProofs

LEMMA LeastNumber ==
  ASSUME NEW T, T \subseteq Nat, T # {}
  PROVE  \E i \in T : \A j \in T : i <= j
<1>1. PICK i \in T : \A j \in T : ~(<<j, i>> \in OpToRel(<, Nat))
  BY WFMin, NatLessThanWellFounded
<1>2. \A j \in T : ~(j < i)
  BY <1>1 DEF OpToRel
<1> QED  BY <1>2

Entries == [first : DOMAIN items, same : SUBSET DOMAIN items]

TypesOK ==
  /\ Len(items) \in Nat /\ DOMAIN items = 1 .. Len(items)
  /\ groups \in Seq(Entries)
  /\ printed \subseteq DOMAIN items

(* The inductive invariant: what has been printed is what the groups hold, *)
(* no item twice; and no item still to be printed equals the first of a    *)
(* group, since then it would have been printed under it.                  *)
PrintedInv ==
  /\ TypesOK
  /\ \A i \in DOMAIN items : i \in printed <=> \E g \in DOMAIN groups : i \in Members(groups[g])
  /\ \A g, n \in DOMAIN groups :
       g # n => Members(groups[g]) \cap Members(groups[n]) = {}
  /\ \A g \in DOMAIN groups : \A i \in DOMAIN items \ printed :
       ~SameItem(items[groups[g].first], items[i])
  /\ at = "done" => printed = DOMAIN items

LEMMA PrintedInit == Init => PrintedInv /\ GroupsAreRight
<1> SUFFICES ASSUME Init PROVE PrintedInv /\ GroupsAreRight
  OBVIOUS
<1>1. Len(items) \in Nat /\ DOMAIN items = 1 .. Len(items)
  BY DEF Init
<1>2. groups = << >> /\ DOMAIN groups = {} /\ printed = {} /\ at # "done"
  BY DEF Init
<1> QED  BY <1>1, <1>2 DEF PrintedInv, TypesOK, GroupsAreRight

(* What PrintGroup prints: the first item not yet printed and those like it. *)
LEMMA GroupPrinted ==
  ASSUME PrintedInv, PrintGroup
  PROVE  \E i \in DOMAIN items \ printed :
           LET like == {j \in DOMAIN items \ printed : j > i /\ SameItem(items[i], items[j])}
           IN /\ \A j \in DOMAIN items \ printed : i <= j
              /\ groups' = Append(groups, [first |-> i, same |-> like])
              /\ printed' = printed \cup {i} \cup like
<1> DEFINE left == DOMAIN items \ printed
           i == CHOOSE j \in left : \A n \in left : j <= n
           like == {j \in left : j > i /\ SameItem(items[i], items[j])}
<1>1. left \subseteq Nat /\ left # {}
  <2>1. printed \subseteq DOMAIN items /\ printed # DOMAIN items
    BY DEF PrintGroup, PrintedInv, TypesOK
  <2>2. DOMAIN items \subseteq Nat
    <3>1. DOMAIN items = 1 .. Len(items) /\ Len(items) \in Nat
      BY DEF PrintedInv, TypesOK
    <3> QED  BY <3>1
  <2>3. left # {}
    BY <2>1
  <2> QED  BY <2>2, <2>3
<1>2. i \in left /\ \A n \in left : i <= n
  <2> HIDE DEF left
  <2> QED  BY <1>1, LeastNumber
<1>3. groups' = Append(groups, [first |-> i, same |-> like])
      /\ printed' = printed \cup {i} \cup like
  BY DEF PrintGroup
<1> QED  BY <1>2, <1>3

LEMMA PrintedStep ==
  PrintedInv /\ GroupsAreRight /\ [Next]_vars => PrintedInv' /\ GroupsAreRight'
<1> SUFFICES ASSUME PrintedInv, GroupsAreRight, [Next]_vars
             PROVE  PrintedInv' /\ GroupsAreRight'
  OBVIOUS
<1>1. CASE PrintGroup
  <2>1. PICK i \in DOMAIN items \ printed :
          LET like == {j \in DOMAIN items \ printed : j > i /\ SameItem(items[i], items[j])}
          IN /\ \A j \in DOMAIN items \ printed : i <= j
             /\ groups' = Append(groups, [first |-> i, same |-> like])
             /\ printed' = printed \cup {i} \cup like
    BY <1>1, GroupPrinted
  <2> DEFINE like == {j \in DOMAIN items \ printed : j > i /\ SameItem(items[i], items[j])}
             new == [first |-> i, same |-> like]
             last == Len(groups) + 1
  <2>2. items' = items /\ at' = at /\ at # "done"
    BY <1>1 DEF PrintGroup
  <2>3. new \in Entries /\ Members(new) = {i} \cup like
    BY DEF Entries, Members
  <2>4. /\ Members(new) \subseteq DOMAIN items \ printed
        /\ printed' = printed \cup Members(new)
    BY <2>1, <2>3
  <2>5. /\ \A j \in like : SameItem(items[i], items[j])
        /\ \A j \in DOMAIN items \ printed' : ~SameItem(items[i], items[j])
    <3>1. \A j \in DOMAIN items \ printed' : j \in DOMAIN items \ printed /\ j # i /\ j \notin like
      BY <2>1
    <3>2. \A j \in DOMAIN items \ printed : j # i => j > i
      BY <2>1 DEF PrintedInv, TypesOK
    <3> QED  BY <3>1, <3>2
  <2>6. new.first = i /\ new.same = like
    OBVIOUS
  <2> HIDE DEF new, like
  <2>7. /\ groups \in Seq(Entries) /\ Len(groups) \in Nat
        /\ groups' = Append(groups, new) /\ groups' \in Seq(Entries)
        /\ DOMAIN groups = 1 .. Len(groups)
        /\ DOMAIN groups' = DOMAIN groups \cup {last} /\ last \notin DOMAIN groups
        /\ groups'[last] = new
        /\ \A g \in DOMAIN groups : groups'[g] = groups[g]
    BY <2>1, <2>3 DEF new, like, PrintedInv, TypesOK
  <2>8. TypesOK'
    BY <2>2, <2>4, <2>7 DEF PrintedInv, TypesOK, Entries
  <2>9. \A j \in DOMAIN items :
          j \in printed' <=> \E g \in DOMAIN groups' : j \in Members(groups'[g])
    BY <2>4, <2>7 DEF PrintedInv
  <2>10. \A g \in DOMAIN groups : Members(groups[g]) \cap Members(new) = {}
    BY <2>4 DEF PrintedInv
  <2>11. \A g, n \in DOMAIN groups' :
           g # n => Members(groups'[g]) \cap Members(groups'[n]) = {}
    BY <2>7, <2>10 DEF PrintedInv
  <2>12. \A g \in DOMAIN groups' : \A j \in DOMAIN items \ printed' :
           ~SameItem(items[groups'[g].first], items[j])
    BY <2>4, <2>5, <2>6, <2>7 DEF PrintedInv
  <2>13. PrintedInv'
    <3> HIDE DEF last
    <3> QED  BY <2>2, <2>8, <2>9, <2>11, <2>12 DEF PrintedInv, Members, SameItem
  <2>14. GroupsAreRight'
    <3>1. \A g \in DOMAIN groups' :
            /\ \A j \in groups'[g].same : SameItem(items[groups'[g].first], items[j])
            /\ \A n \in 1 .. g - 1 : ~SameItem(items[groups'[n].first], items[groups'[g].first])
      <4> SUFFICES ASSUME NEW g \in DOMAIN groups'
                   PROVE  /\ \A j \in groups'[g].same : SameItem(items[groups'[g].first], items[j])
                          /\ \A n \in 1 .. g - 1 :
                               ~SameItem(items[groups'[n].first], items[groups'[g].first])
        OBVIOUS
      <4>1. CASE g \in DOMAIN groups
        <5>1. \A n \in 1 .. g - 1 : n \in DOMAIN groups
          BY <4>1, <2>7
        <5> QED  BY <4>1, <5>1, <2>7 DEF GroupsAreRight
      <4>2. CASE g = last
        <5>1. \A n \in 1 .. g - 1 : n \in DOMAIN groups
          BY <4>2, <2>7
        <5>2. i \in DOMAIN items \ printed
          OBVIOUS
        <5>3. \A n \in DOMAIN groups : ~SameItem(items[groups[n].first], items[i])
          BY <5>2 DEF PrintedInv
        <5> QED  BY <4>2, <5>1, <5>3, <2>5, <2>6, <2>7
      <4> QED  BY <4>1, <4>2, <2>7
    <3> HIDE DEF last
    <3> QED  BY <2>2, <3>1 DEF GroupsAreRight, SameItem
  <2> QED  BY <2>13, <2>14
<1>2. CASE Printed
  BY <1>2 DEF Printed, PrintedInv, TypesOK, Entries, GroupsAreRight, SameItem
<1>3. CASE UNCHANGED <<items, printed, groups>> /\ at' # "done"
  BY <1>3 DEF PrintedInv, TypesOK, Entries, GroupsAreRight, SameItem
<1>4. CASE UNCHANGED vars
  BY <1>4 DEF vars, PrintedInv, TypesOK, Entries, GroupsAreRight, SameItem
<1> QED  BY <1>1, <1>2, <1>3, <1>4 DEF Next, Finished, FindMismatch, NoBodyDiffers

LEMMA PrintedInvariant == Spec => [](PrintedInv /\ GroupsAreRight)
BY PrintedInit, PrintedStep, PTL DEF Spec

(* In the end every definition has been printed exactly once               *)
(* (OdrCop.h:199-215), however many there are.                             *)
THEOREM EveryItemPrintedOnceAlways == Spec => []EveryItemPrintedOnce
<1>1. PrintedInv => EveryItemPrintedOnce
  <2> SUFFICES ASSUME PrintedInv, at = "done", NEW i \in DOMAIN items
               PROVE  \E g \in DOMAIN groups :
                        /\ i \in Members(groups[g])
                        /\ \A n \in DOMAIN groups \ {g} : i \notin Members(groups[n])
    BY DEF EveryItemPrintedOnce
  <2>1. PICK g \in DOMAIN groups : i \in Members(groups[g])
    BY DEF PrintedInv
  <2> QED  BY <2>1 DEF PrintedInv
<1> QED  BY <1>1, PrintedInvariant, PTL

(* "same as above" is always true, and no two definitions printed in full  *)
(* are equal (OdrCop.h:209).                                               *)
THEOREM GroupsAreRightAlways == Spec => []GroupsAreRight
BY PrintedInvariant, PTL

-----------------------------------------------------------------------------
(* The index. While it is looked for, no body has departed from the first  *)
(* one's; an entry is printed only if an item differs from the first, and  *)
(* the first group it prints is that of the first item.                    *)
Differs(i) == ~SameItem(items[i], items[1])
BodyAgrees(i) == NoMismatch(items[1].body, items[i].body)

IndexInv ==
  /\ \A i \in DOMAIN items : items[i].body \in Body
  /\ at \in {"scan", "print", "done", "skipped"} /\ 2 <= Len(items) /\ m \in Nat /\ 2 <= m
  /\ at # "skipped" => \E i \in 2 .. Len(items) : Differs(i)
  /\ at = "scan" => mismatch = -1 /\ groups = << >> /\ printed = {}
                    /\ m <= Len(items) + 1 /\ \A i \in 2 .. m - 1 : BodyAgrees(i)
  /\ at \in {"print", "done"} => (mismatch = -1 <=> \A i \in DOMAIN items : BodyAgrees(i))
  /\ groups # << >> => groups[1].first = 1

LEMMA IndexInit == Init => IndexInv
<1> SUFFICES ASSUME Init PROVE IndexInv
  OBVIOUS
<1>1. PICK n \in 2 .. MaxItems : items \in [1 .. n -> FuncItem]
  BY DEF Init
<1>2. Len(items) = n /\ DOMAIN items = 1 .. n /\ n \in Nat /\ 2 <= n
  BY <1>1, EntryBoundsAssumption DEF EntryBoundsAssumption
<1>3. \A f \in FuncItem : f.body \in Body
  BY EntryBoundsAssumption DEF FuncItem, Body, EntryBoundsAssumption
<1>4. \A i \in DOMAIN items : items[i].body \in Body
  BY <1>1, <1>2, <1>3
<1>5. at = "scan" \/ at = "skipped"
  BY DEF Init
<1>6. at # "skipped" => \E i \in 2 .. Len(items) : Differs(i)
  BY DEF Init, Differs
<1> QED  BY <1>2, <1>4, <1>5, <1>6 DEF Init, IndexInv

LEMMA IndexStep == PrintedInv /\ IndexInv /\ [Next]_vars => IndexInv'
<1> SUFFICES ASSUME PrintedInv, IndexInv, [Next]_vars PROVE IndexInv'
  OBVIOUS
<1>0. Len(items) \in Nat /\ DOMAIN items = 1 .. Len(items) /\ 2 <= Len(items)
  BY DEF PrintedInv, TypesOK, IndexInv
<1>1. items' = items
  BY DEF Next, FindMismatch, NoBodyDiffers, PrintGroup, Printed, Finished, vars
<1>2. /\ \A i \in DOMAIN items : items[i].body \in Body
      /\ \A i \in DOMAIN items : Differs(i)' <=> Differs(i)
      /\ \A i \in DOMAIN items : BodyAgrees(i)' <=> BodyAgrees(i)
  BY <1>1 DEF IndexInv, Differs, BodyAgrees
<1>3. BodyAgrees(1)
  BY NoMismatchSymmetric DEF BodyAgrees
<1>4. CASE FindMismatch
  <2>1. at = "scan" /\ m \in 2 .. Len(items) /\ 1 \in DOMAIN items /\ m \in DOMAIN items
    BY <1>0, <1>4 DEF FindMismatch, IndexInv
  <2>2. mismatch' = -1 <=> BodyAgrees(m)
    BY <1>2, <1>4, <2>1, MismatchIndexDecides DEF FindMismatch, BodyAgrees
  <2>3. CASE mismatch' # -1
    <3>1. at' = "print" /\ m' = m /\ groups' = groups /\ groups = << >>
      BY <1>4, <2>1, <2>3 DEF FindMismatch, IndexInv
    <3>2. ~\A i \in DOMAIN items : BodyAgrees(i)
      BY <2>1, <2>2, <2>3
    <3> QED  BY <1>0, <1>1, <1>2, <2>1, <2>3, <3>1, <3>2 DEF IndexInv, Differs, BodyAgrees
  <2>4. CASE mismatch' = -1
    <3>1. at' = "scan" /\ m' = m + 1 /\ groups' = groups /\ groups = << >>
          /\ printed' = printed /\ printed = {}
      BY <1>4, <2>1, <2>4 DEF FindMismatch, IndexInv
    <3>2. \A i \in 2 .. m : BodyAgrees(i)
      BY <2>1, <2>2, <2>4 DEF IndexInv
    <3> QED  BY <1>0, <1>1, <1>2, <2>1, <2>4, <3>1, <3>2 DEF IndexInv, Differs, BodyAgrees
  <2> QED  BY <2>3, <2>4
<1>5. CASE NoBodyDiffers
  <2>1. at = "scan" /\ m > Len(items) /\ at' = "print" /\ UNCHANGED <<items, mismatch, m, groups>>
    BY <1>5 DEF NoBodyDiffers
  <2>2. \A i \in DOMAIN items : BodyAgrees(i)
    BY <1>0, <1>3, <2>1 DEF IndexInv
  <2> QED  BY <1>0, <1>1, <1>2, <2>1, <2>2 DEF IndexInv, Differs, BodyAgrees
<1>6. CASE PrintGroup
  <2>1. PICK i \in DOMAIN items \ printed :
          LET like == {j \in DOMAIN items \ printed : j > i /\ SameItem(items[i], items[j])}
          IN /\ \A j \in DOMAIN items \ printed : i <= j
             /\ groups' = Append(groups, [first |-> i, same |-> like])
             /\ printed' = printed \cup {i} \cup like
    BY <1>6, GroupPrinted
  <2> DEFINE new == [first |-> i, same |-> {j \in DOMAIN items \ printed :
                                            j > i /\ SameItem(items[i], items[j])}]
  <2>2. new \in Entries /\ new.first = i
    BY DEF Entries
  <2>3. groups' = Append(groups, new) /\ at = "print" /\ at' = at /\ UNCHANGED <<mismatch, m>>
    BY <1>6, <2>1 DEF PrintGroup
  <2> HIDE DEF new
  <2>4. groups \in Seq(Entries)
    BY DEF PrintedInv, TypesOK
  <2>5. CASE groups = << >>
    <3>1. DOMAIN groups = {}
      BY <2>5
    <3>2. printed = {}
      BY <3>1 DEF PrintedInv, TypesOK
    <3>3. i = 1
      BY <1>0, <2>1, <3>2
    <3>4. groups'[1] = new
      BY <2>2, <2>3, <2>5
    <3> QED  BY <1>0, <1>1, <1>2, <2>2, <2>3, <3>3, <3>4 DEF IndexInv, Differs, BodyAgrees
  <2>6. CASE groups # << >>
    <3>1. groups'[1] = groups[1]
      BY <2>2, <2>3, <2>4, <2>6
    <3> QED  BY <1>0, <1>1, <1>2, <2>3, <2>6, <3>1 DEF IndexInv, Differs, BodyAgrees
  <2> QED  BY <2>5, <2>6
<1>7. CASE Printed
  BY <1>0, <1>1, <1>2, <1>7 DEF Printed, IndexInv, Differs, BodyAgrees
<1>8. CASE UNCHANGED vars
  BY <1>1, <1>2, <1>8 DEF vars, IndexInv, Differs, BodyAgrees
<1> QED  BY <1>4, <1>5, <1>6, <1>7, <1>8 DEF Next, Finished

(* An entry is never reported for nothing (OdrCop.h:181-197): at least two *)
(* definitions are printed in full, although == is no equivalence; and no  *)
(* index is shown only if no body departs from the first one's.            *)
THEOREM ReportShowsADifferenceAlways == Spec => []ReportShowsADifference
<1>1. PrintedInv /\ GroupsAreRight /\ IndexInv => ReportShowsADifference
  <2> SUFFICES ASSUME PrintedInv, GroupsAreRight, IndexInv, at = "done"
               PROVE  /\ Len(groups) >= 2
                      /\ mismatch = -1 <=> \A i \in DOMAIN items :
                                             NoMismatch(items[1].body, items[i].body)
    BY DEF ReportShowsADifference
  <2>1. groups \in Seq(Entries) /\ Len(groups) \in Nat /\ DOMAIN groups = 1 .. Len(groups)
        /\ DOMAIN items = 1 .. Len(items) /\ Len(items) \in Nat /\ 2 <= Len(items)
    BY DEF PrintedInv, TypesOK, IndexInv
  <2>2. PICK i \in 2 .. Len(items) : ~SameItem(items[i], items[1])
    BY DEF IndexInv, Differs
  <2>3. PICK g \in DOMAIN groups : i \in Members(groups[g])
    BY <2>1, <2>2 DEF PrintedInv
  <2>4. CASE Len(groups) < 2
    <3>1. g = 1 /\ groups # << >>
      BY <2>1, <2>3, <2>4
    <3>2. groups[1].first = 1
      BY <3>1 DEF IndexInv
    <3>3. SameItem(items[1], items[i])
      BY <2>2, <2>3, <3>1, <3>2 DEF Members, GroupsAreRight
    <3>4. SameItem(items[i], items[1])
      BY <3>3, NoMismatchSymmetric DEF SameItem
    <3> QED  BY <2>2, <3>4
  <2>5. Len(groups) >= 2
    BY <2>1, <2>4
  <2> QED  BY <2>5 DEF IndexInv, BodyAgrees
<1> QED  BY <1>1, PrintedInvariant, IndexInit, IndexStep, PTL DEF Spec
=============================================================================
