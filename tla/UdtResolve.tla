------------------------------ MODULE UdtResolve ------------------------------
(***************************************************************************)
(* UdtInfo's constructor and resolveNestedUdt: reading one class of a .pdb *)
(* reads the classes of its anonymous-namespace members, static members    *)
(* and bases, and theirs, each within the constructor of the one before,   *)
(* on the call stack. A type may be given as its definition or as a        *)
(* forward declaration; for a member the definition is then searched.      *)
(***************************************************************************)
EXTENDS Naturals, Sequences, FiniteSets, SequencesExt

CONSTANTS
  Udts,      \* the classes of the .pdb
  MaxParts,  \* bound: members, static members and bases of a class
  MaxDepth   \* constructors that fit on the call stack

ASSUME BoundsAssumption ==
  /\ IsFiniteSet(Udts) /\ MaxParts \in Nat
  /\ MaxDepth \in Nat /\ Cardinality(Udts) < MaxDepth

(* A part: a type named by value. found says whether DIA, asked for the    *)
(* children of the forward declaration's lexical parent, has the           *)
(* definition.                                                             *)
Parts == [as : {"member", "static", "base"}, type : Udts,
          forwarder : BOOLEAN, found : BOOLEAN]

VARIABLES
  anonymous,  \* classes of an anonymous namespace
  parts,      \* the parts of each definition, in the order they are read
  stack,      \* the constructors under way: [type, complete, left]
  infos,      \* finished constructors: [type, complete]
  overflow    \* the stack is exhausted: the program dies

vars == <<anonymous, parts, stack, infos, overflow>>

(* A class is complete before it is a member or a base of another: the     *)
(* order of Udts is that of the definitions. Static members come as they   *)
(* like.                                                                   *)
DefinedInOrder ==
  \E order \in [Udts -> 1 .. Cardinality(Udts)] :
    \A u \in Udts : \A i \in DOMAIN parts[u] :
      parts[u][i].as # "static" => order[parts[u][i].type] < order[u]

Frame(u, complete) ==
  [type |-> u, complete |-> complete, left |-> IF complete THEN parts[u] ELSE << >>]

Init ==
  /\ anonymous \in SUBSET Udts
  /\ parts \in [Udts -> BoundedSeq(Parts, MaxParts)]
  /\ DefinedInOrder
  /\ \E u \in Udts : stack = <<Frame(u, TRUE)>>
  /\ infos = {} /\ overflow = FALSE

Running == stack # << >> /\ ~overflow
Top == Last(stack)
Part == Head(Top.left)
Rest == [stack EXCEPT ![Len(stack)].left = Tail(@)]

Construct(u, complete) ==
  IF Len(stack) < MaxDepth
  THEN /\ stack' = Append(Rest, Frame(u, complete))
       /\ UNCHANGED overflow
  ELSE overflow' = TRUE /\ UNCHANGED stack

(* Mutation: every class is followed, not only the anonymous ones. *)
MutantFollowsAll ==
  /\ Running /\ Top.left # << >>
  /\ Part.as # "base"
  /\ Part.forwarder => Part.found
  /\ Construct(Part.type, TRUE)
  /\ UNCHANGED <<anonymous, parts, infos>>

(* MemberInfoBase::resolveNestedUdt: the defining symbol, if there is one. *)
ResolveMember ==
  /\ Running /\ Top.left # << >>
  /\ Part.as # "base" /\ Part.type \in anonymous
  /\ Part.forwarder => Part.found
  /\ Construct(Part.type, TRUE)
  /\ UNCHANGED <<anonymous, parts, infos>>

(* BaseInfo::resolveNestedUdt: the symbol as it is. *)
ResolveBase ==
  /\ Running /\ Top.left # << >>
  /\ Part.as = "base" /\ Part.type \in anonymous
  /\ Construct(Part.type, ~Part.forwarder)
  /\ UNCHANGED <<anonymous, parts, infos>>

(* Mutation: the loop ends at the first member without a nested class. *)
MutantStopsReading ==
  /\ Running /\ Top.left # << >>
  /\ \/ Part.type \notin anonymous
     \/ Part.as # "base" /\ Part.forwarder /\ ~Part.found
  /\ stack' = [stack EXCEPT ![Len(stack)].left = << >>]
  /\ UNCHANGED <<anonymous, parts, infos, overflow>>

(* Mutation: the next part is not looked at. *)
MutantLooksAgain ==
  /\ Running /\ Top.left # << >>
  /\ \/ Part.type \notin anonymous
     \/ Part.as # "base" /\ Part.forwarder /\ ~Part.found
  /\ UNCHANGED vars

(* nullptr *)
NoNested ==
  /\ Running /\ Top.left # << >>
  /\ \/ Part.type \notin anonymous
     \/ Part.as # "base" /\ Part.forwarder /\ ~Part.found
  /\ stack' = Rest
  /\ UNCHANGED <<anonymous, parts, infos, overflow>>

Return ==
  /\ Running /\ Top.left = << >>
  /\ stack' = Front(stack)
  /\ infos' = infos \cup {[type |-> Top.type, complete |-> Top.complete]}
  /\ UNCHANGED <<anonymous, parts, overflow>>

Finished == ~Running /\ UNCHANGED vars

Next == ResolveMember \/ ResolveBase \/ NoNested \/ Return \/ Finished

Spec == Init /\ [][Next]_vars

(* One thread and no calls that wait. *)
FairSpec == Spec /\ WF_vars(Next)

-----------------------------------------------------------------------------
(* u's constructor calls v's. *)
Calls(u, v) ==
  \E i \in DOMAIN parts[u] :
    LET part == parts[u][i]
    IN /\ part.type = v /\ v \in anonymous
       /\ part.forwarder => part.as # "base" /\ part.found

(* The classes u's constructor comes to: the least set closed under Calls. *)
Reached(u) ==
  LET closed == {s \in SUBSET Udts :
                   /\ \A v \in Udts : Calls(u, v) => v \in s
                   /\ \A v \in s, w \in Udts : Calls(v, w) => w \in s}
  IN {v \in Udts : \A s \in closed : v \in s}

(* The constructors end, and the stack suffices, unless a class comes to   *)
(* itself, which takes a static member of an anonymous class's own type    *)
(* whose definition DIA gives (UdtInfo.h:83-89): then, and only then, the  *)
(* program dies.                                                           *)
DiesOnlyInACycle ==
  /\ overflow => \E u \in Udts : u \in Reached(u)
  /\ Running \/ overflow \/ \A info \in infos : info.complete => info.type \notin Reached(info.type)

(* Every anonymous class that is reached is read from its definition, once *)
(* the constructor ends, though a base of it may in addition be read from  *)
(* a forward declaration, as a class without members (UdtInfo.h:493-505).  *)
EveryReachedClassIsRead ==
  Running \/ overflow \/
    \A info \in infos : info.complete =>
      \A v \in Reached(info.type) : [type |-> v, complete |-> TRUE] \in infos

(* Reading ends, with the class read or with the stack exhausted: no part  *)
(* is read twice, whatever DIA answers (UdtInfo.h:111-116).                *)
ConstructionEnds == <>(~Running)
=============================================================================
