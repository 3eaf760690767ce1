----------------------------- MODULE MismatchScan -----------------------------
(***************************************************************************)
(* The loop of FuncInfo::MismatchIndex, one action per branch: two         *)
(* counters walk two bodies; a NOP that meets another byte is passed over. *)
(***************************************************************************)
EXTENDS Bodies

CONSTANT MaxLen  \* bound: length of a body

ASSUME MaxLenAssumption == MaxLen \in Nat

VARIABLES
  body, other,               \* the two bodies
  thisCounter, thatCounter,  \* bytes passed in each
  result                     \* what the function returns, or Running

Running == -2

vars == <<body, other, thisCounter, thatCounter, result>>

ShortBody == UNION {[1 .. n -> Bytes] : n \in 1 .. MaxLen}

Init ==
  /\ body \in ShortBody /\ other \in ShortBody
  /\ thisCounter = 0 /\ thatCounter = 0
  /\ result = Running

This == body[thisCounter + 1]
That == other[thatCounter + 1]

InLoop ==
  /\ result = Running
  /\ thisCounter < Len(body) /\ thatCounter < Len(other)
  /\ UNCHANGED <<body, other>>

(* Mutation: thatCounter is incremented by the loop as well. *)
MutantCountsTwice ==
  /\ InLoop
  /\ This = That
  /\ thisCounter' = thisCounter + 1 /\ thatCounter' = thatCounter + 2
  /\ UNCHANGED result

Match ==
  /\ InLoop
  /\ This = That
  /\ thisCounter' = thisCounter + 1 /\ thatCounter' = thatCounter + 1
  /\ UNCHANGED result

(* Mutations: a byte of the other body is passed over with the NOP; none   *)
(* is.                                                                     *)
MutantSkipsBoth ==
  /\ InLoop
  /\ This # That /\ This = NOP
  /\ thisCounter' = thisCounter + 1 /\ thatCounter' = thatCounter + 1
  /\ UNCHANGED result
MutantStaysAtNop ==
  /\ InLoop
  /\ This # That /\ This = NOP
  /\ UNCHANGED <<thisCounter, thatCounter, result>>

SkipThisNop ==
  /\ InLoop
  /\ This # That /\ This = NOP
  /\ thisCounter' = thisCounter + 1
  /\ UNCHANGED <<thatCounter, result>>

SkipThatNop ==
  /\ InLoop
  /\ This # That /\ This # NOP /\ That = NOP
  /\ thatCounter' = thatCounter + 1
  /\ UNCHANGED <<thisCounter, result>>

(* Mutations: a NOP of the other body is a mismatch; the sum is not halved. *)
MutantIgnoresThatNop ==
  /\ InLoop
  /\ This # That /\ This # NOP
  /\ result' = (thisCounter + thatCounter) \div 2
  /\ UNCHANGED <<thisCounter, thatCounter>>
MutantReturnsSum ==
  /\ InLoop
  /\ This # That /\ This # NOP /\ That # NOP
  /\ result' = thisCounter + thatCounter
  /\ UNCHANGED <<thisCounter, thatCounter>>

ReturnIndex ==
  /\ InLoop
  /\ This # That /\ This # NOP /\ That # NOP
  /\ result' = (thisCounter + thatCounter) \div 2
  /\ UNCHANGED <<thisCounter, thatCounter>>

ReturnNone ==
  /\ result = Running
  /\ thisCounter >= Len(body) \/ thatCounter >= Len(other)
  /\ result' = -1
  /\ UNCHANGED <<body, other, thisCounter, thatCounter>>

Returned == result # Running /\ UNCHANGED vars

Next == Match \/ SkipThisNop \/ SkipThatNop \/ ReturnIndex \/ ReturnNone \/ Returned

Spec == Init /\ [][Next]_vars
FairSpec == Spec /\ WF_vars(Next)

-----------------------------------------------------------------------------
TypeOK ==
  /\ body \in Body /\ other \in Body
  /\ thisCounter \in 0 .. Len(body) /\ thatCounter \in 0 .. Len(other)
  /\ result \in Nat \cup {-1, Running}

(* The loop passes over NOPs and nothing else: at any time the code it has *)
(* passed in one body is the code it has passed in the other               *)
(* (FunctionExtractor.h:501-510).                                          *)
PassedCodeAgrees ==
  Stripped(SubSeq(body, 1, thisCounter)) = Stripped(SubSeq(other, 1, thatCounter))

(* The value returned: -1 exactly when neither body's code departs from    *)
(* the other's. So the greedy choice of which NOP to pass over is never    *)
(* wrong, and the function is symmetric, as operator== must be.            *)
DecidesNoMismatch ==
  result # Running =>
    /\ result = -1 <=> NoMismatch(body, other)
    /\ result = MismatchIndex(body, other)

HasNop(b) == \E i \in DOMAIN b : b[i] = NOP

(* Without NOPs the index is the first place where the bodies differ, and  *)
(* lies in both of them: what PrintMismatch (FunctionExtractor.h:484)      *)
(* relies on for the two bodies that were compared.                        *)
IndexIsFirstDifference ==
  result >= 0 /\ ~HasNop(body) /\ ~HasNop(other) =>
    /\ result < Len(body) /\ result < Len(other)
    /\ body[result + 1] # other[result + 1]
    /\ SubSeq(body, 1, result) = SubSeq(other, 1, result)

(* The loop ends: every turn passes a byte of one of the bodies.           *)
ScanEnds == <>(result # Running)
=============================================================================
