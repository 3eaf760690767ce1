----------------------------- MODULE ReportEntry ------------------------------
(***************************************************************************)
(* One turn of ReportMapViolations' loop (OdrCop.h:177-216) for a key of   *)
(* funcMap: find an index at which to show the bodies, then print every    *)
(* item once, each followed by the items equal to it.                      *)
(***************************************************************************)
EXTENDS Bodies

CONSTANTS
  Rests,     \* a FuncInfo but for its body: name, types, relocations
  MaxItems,  \* bound: definitions under the key
  MaxLen     \* bound: length of a body

ASSUME EntryBoundsAssumption == MaxItems \in Nat /\ MaxLen \in Nat

FuncItem == [rest : Rests, static : BOOLEAN, body : UNION {[1 .. n -> Bytes] : n \in 1 .. MaxLen}]

(* FuncInfo::operator==, see OdrInfo *)
SameItem(a, b) ==
  \/ a.static \/ b.static
  \/ a.rest = b.rest /\ NoMismatch(a.body, b.body)

VARIABLES
  items,     \* the vector under the key
  at,        \* "scan", "print", "done" or "skipped"
  mismatch,  \* the index passed to printMismatch
  m,         \* the item compared with the first to find it
  printed,   \* which items have been printed
  groups     \* what was printed: each item printed in full with the items
             \* printed as "same as above" under it

vars == <<items, at, mismatch, m, printed, groups>>

Init ==
  /\ items \in UNION {[1 .. n -> FuncItem] : n \in 2 .. MaxItems}
  /\ at = IF \A i \in 2 .. Len(items) : SameItem(items[i], items[1])
          THEN "skipped" ELSE "scan"
  /\ mismatch = -1
  /\ m = 2
  /\ printed = {}
  /\ groups = << >>

(* Mutation: the loop goes on after a mismatch. *)
MutantNoBreak ==
  /\ at = "scan" /\ m <= Len(items)
  /\ mismatch' = MismatchIndex(items[1].body, items[m].body)
  /\ m' = m + 1
  /\ UNCHANGED <<items, at, printed, groups>>

(* mismatch is assigned on every turn, so the last one's -1 remains when   *)
(* no body differs from the first's.                                       *)
FindMismatch ==
  /\ at = "scan" /\ m <= Len(items)
  /\ mismatch' = MismatchIndex(items[1].body, items[m].body)
  /\ IF mismatch' # -1 THEN at' = "print" /\ UNCHANGED m
                       ELSE at' = at /\ m' = m + 1
  /\ UNCHANGED <<items, printed, groups>>

NoBodyDiffers ==
  /\ at = "scan" /\ m > Len(items)
  /\ at' = "print"
  /\ UNCHANGED <<items, mismatch, m, printed, groups>>

(* Mutations: !printed[j] is not tested; items[j] is compared with the     *)
(* first item of all.                                                      *)
MutantPrintsAgain ==
  /\ at = "print" /\ printed # DOMAIN items
  /\ LET i == CHOOSE j \in DOMAIN items \ printed :
                \A n \in DOMAIN items \ printed : j <= n
         like == {j \in DOMAIN items : j > i /\ SameItem(items[i], items[j])}
     IN /\ groups' = Append(groups, [first |-> i, same |-> like])
        /\ printed' = printed \cup {i} \cup like
  /\ UNCHANGED <<items, at, mismatch, m>>
MutantComparesFirst ==
  /\ at = "print" /\ printed # DOMAIN items
  /\ LET i == CHOOSE j \in DOMAIN items \ printed :
                \A n \in DOMAIN items \ printed : j <= n
         like == {j \in DOMAIN items \ printed : j > i /\ SameItem(items[1], items[j])}
     IN /\ groups' = Append(groups, [first |-> i, same |-> like])
        /\ printed' = printed \cup {i} \cup like
  /\ UNCHANGED <<items, at, mismatch, m>>

(* The first item not yet printed, with all the later ones it equals.      *)
PrintGroup ==
  /\ at = "print" /\ printed # DOMAIN items
  /\ LET i == CHOOSE j \in DOMAIN items \ printed :
                \A n \in DOMAIN items \ printed : j <= n
         like == {j \in DOMAIN items \ printed : j > i /\ SameItem(items[i], items[j])}
     IN /\ groups' = Append(groups, [first |-> i, same |-> like])
        /\ printed' = printed \cup {i} \cup like
  /\ UNCHANGED <<items, at, mismatch, m>>

Printed ==
  /\ at = "print" /\ printed = DOMAIN items
  /\ at' = "done"
  /\ UNCHANGED <<items, mismatch, m, printed, groups>>

Finished == at \in {"done", "skipped"} /\ UNCHANGED vars

Next == FindMismatch \/ NoBodyDiffers \/ PrintGroup \/ Printed \/ Finished

Spec == Init /\ [][Next]_vars

-----------------------------------------------------------------------------
Members(group) == {group.first} \cup group.same

(* In the end every definition of the entity has been printed exactly      *)
(* once, in full or as the same as one above it (OdrCop.h:199-215).        *)
EveryItemPrintedOnce ==
  at = "done" =>
    \A i \in DOMAIN items : \E g \in DOMAIN groups :
      /\ i \in Members(groups[g])
      /\ \A n \in DOMAIN groups \ {g} : i \notin Members(groups[n])

(* "same as above" is true of the item above it, and two items printed in  *)
(* full are not equal, although == is no equivalence.                      *)
GroupsAreRight ==
  \A g \in DOMAIN groups :
    /\ \A j \in groups[g].same : SameItem(items[groups[g].first], items[j])
    /\ \A n \in 1 .. g - 1 : ~SameItem(items[groups[n].first], items[groups[g].first])

(* An entry is never reported for nothing: two definitions at least are    *)
(* printed in full, and "the first few bytes" are shown instead of a       *)
(* mismatch only when no body departs from the first one's.                *)
ReportShowsADifference ==
  at = "done" =>
    /\ Len(groups) >= 2
    /\ mismatch = -1 <=> \A i \in DOMAIN items : NoMismatch(items[1].body, items[i].body)
=============================================================================
