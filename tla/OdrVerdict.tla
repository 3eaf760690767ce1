------------------------------ MODULE OdrVerdict ------------------------------
(***************************************************************************)
(* What OdrCop promises about types, with no maps and no order: it learns  *)
(* a set of definitions, closes it, and then judges each kind of type once *)
(* and for all: an entity of the kind is flagged exactly when two of the   *)
(* definitions learned for it differ and its linkage is not internal.      *)
(* Seeing a definition twice, or in another order, changes nothing.        *)
(***************************************************************************)
CONSTANTS
  TypeKinds,   \* the kinds of types that are judged
  Entity,      \* what is defined: here, map keys
  Look         \* what a definition of an entity looks like

VARIABLES
  known,       \* the definitions learned
  closed,      \* no more definitions will be learned
  judged,      \* the kinds already judged
  flagged      \* the entities found to violate the rule, <<kind, entity>>

vars == <<known, closed, judged, flagged>>

Definition == [kind : TypeKinds, entity : Entity, internal : BOOLEAN, look : Look]

Init == known = {} /\ closed = FALSE /\ judged = {} /\ flagged = {}

(* Definitions come one at a time. *)
Learn ==
  /\ ~closed
  /\ \E d \in known' \ known : d \in Definition /\ known' = known \cup {d}
  /\ UNCHANGED <<closed, judged, flagged>>

Close ==
  /\ ~closed
  /\ closed' = TRUE
  /\ UNCHANGED <<known, judged, flagged>>

Differ(d, e) ==
  /\ d.kind = e.kind /\ d.entity = e.entity
  /\ ~d.internal /\ ~e.internal
  /\ d.look # e.look

Odd(kind) == {<<kind, d.entity>> :
                d \in {x \in known : x.kind = kind /\ \E e \in known : Differ(x, e)}}

Judge(kind) ==
  /\ closed
  /\ kind \notin judged
  /\ judged' = judged \cup {kind}
  /\ flagged' = flagged \cup Odd(kind)
  /\ UNCHANGED <<known, closed>>

Next ==
  \/ Learn
  \/ Close
  \/ \E kind \in TypeKinds : Judge(kind)

Spec == Init /\ [][Next]_vars
=============================================================================
