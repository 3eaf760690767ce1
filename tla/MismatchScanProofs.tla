-------------------------- MODULE MismatchScanProofs --------------------------
(***************************************************************************)
(* MismatchIndex's loop, proved for bodies of any length: its counters     *)
(* stay in the bodies, it passes the same code in both, what it returns is *)
(* MismatchIndex, and without NOPs that is the first difference.           *)
(***************************************************************************)
EXTENDS MismatchScan, BodiesProofs

LEMMA HalfOfSum ==
  ASSUME NEW a \in Nat, NEW b \in Nat
  PROVE  (a + b) \div 2 \in Nat /\ (a + a) \div 2 = a
OBVIOUS

LEMMA TypeInit == Init => TypeOK
<1> SUFFICES ASSUME Init PROVE TypeOK
  OBVIOUS
<1>1. body \in Body /\ other \in Body
  BY MaxLenAssumption DEF Init, ShortBody, Body, MaxLenAssumption
<1>2. Len(body) \in Nat /\ Len(other) \in Nat
  BY <1>1 DEF Body
<1> QED  BY <1>1, <1>2 DEF Init, TypeOK

LEMMA TypeStep == TypeOK /\ [Next]_vars => TypeOK'
<1> SUFFICES ASSUME TypeOK, [Next]_vars PROVE TypeOK'
  OBVIOUS
<1>0. Len(body) \in Nat /\ Len(other) \in Nat
  BY DEF TypeOK, Body
<1>1. CASE Match
  BY <1>0, <1>1 DEF TypeOK, Match, InLoop
<1>2. CASE SkipThisNop
  BY <1>0, <1>2 DEF TypeOK, SkipThisNop, InLoop
<1>3. CASE SkipThatNop
  BY <1>0, <1>3 DEF TypeOK, SkipThatNop, InLoop
<1>4. CASE ReturnIndex
  <2>1. (thisCounter + thatCounter) \div 2 \in Nat
    BY <1>0, HalfOfSum DEF TypeOK
  <2> QED  BY <1>4, <2>1 DEF TypeOK, ReturnIndex, InLoop
<1>5. CASE ReturnNone
  BY <1>5 DEF TypeOK, ReturnNone
<1>6. CASE UNCHANGED vars
  BY <1>6 DEF TypeOK, vars
<1> QED  BY <1>1, <1>2, <1>3, <1>4, <1>5, <1>6 DEF Next, Returned

(* The counters never leave the bodies (FunctionExtractor.h:497-515), so   *)
(* that neither is read beyond its end.                                    *)
THEOREM TypeCorrect == Spec => []TypeOK
BY TypeInit, TypeStep, PTL DEF Spec

-----------------------------------------------------------------------------
Agree(n) == \A k \in 1 .. n : body[k] = other[k]

(* Without NOPs the two counters are one, and what they have passed is the *)
(* same in both bodies; an index returned is where that ends.              *)
FirstInv ==
  ~HasNop(body) /\ ~HasNop(other) =>
    /\ thisCounter = thatCounter
    /\ Agree(thisCounter)
    /\ result >= 0 => /\ result < Len(body) /\ result < Len(other)
                      /\ body[result + 1] # other[result + 1]
                      /\ Agree(result)

LEMMA FirstInit == Init => FirstInv
BY DEF Init, FirstInv, Agree, Running

LEMMA FirstStep == TypeOK /\ FirstInv /\ [Next]_vars => FirstInv'
<1> SUFFICES ASSUME TypeOK, FirstInv, [Next]_vars, ~HasNop(body)', ~HasNop(other)'
             PROVE  /\ (thisCounter = thatCounter)' /\ Agree(thisCounter)'
                    /\ (result >= 0 =>
                          /\ result < Len(body) /\ result < Len(other)
                          /\ body[result + 1] # other[result + 1]
                          /\ Agree(result))'
  BY DEF FirstInv
<1>0. Len(body) \in Nat /\ Len(other) \in Nat
      /\ DOMAIN body = 1 .. Len(body) /\ DOMAIN other = 1 .. Len(other)
  BY DEF TypeOK, Body
<1>a. body' = body /\ other' = other
  BY DEF Next, Match, SkipThisNop, SkipThatNop, ReturnIndex, ReturnNone, Returned, InLoop, vars
<1>b. ~HasNop(body) /\ ~HasNop(other)
  BY <1>a DEF HasNop
<1>c. thisCounter = thatCounter /\ Agree(thisCounter)
  BY <1>b DEF FirstInv
<1>d. thisCounter \in Nat /\ thatCounter \in Nat
  BY <1>0 DEF TypeOK
<1>e. InLoop => This # NOP /\ That # NOP
  BY <1>0, <1>b, <1>d DEF InLoop, This, That, HasNop
<1>1. CASE Match
  <2>1. Agree(thisCounter + 1)
    BY <1>1, <1>c, <1>d DEF Agree, Match, This, That
  <2> QED  BY <1>1, <1>a, <1>c, <2>1 DEF Match, InLoop, Agree, Running
<1>2. CASE SkipThisNop
  BY <1>2, <1>e DEF SkipThisNop
<1>3. CASE SkipThatNop
  BY <1>3, <1>e DEF SkipThatNop
<1>4. CASE ReturnIndex
  <2>1. result' = thisCounter
    BY <1>4, <1>c, <1>d, HalfOfSum DEF ReturnIndex
  <2>2. /\ thisCounter < Len(body) /\ thisCounter < Len(other)
        /\ body[thisCounter + 1] # other[thisCounter + 1]
    BY <1>4, <1>c DEF ReturnIndex, InLoop, This, That
  <2> QED  BY <1>4, <1>a, <1>c, <2>1, <2>2 DEF ReturnIndex, Agree
<1>5. CASE ReturnNone
  BY <1>5, <1>a, <1>c DEF ReturnNone, Agree
<1>6. CASE UNCHANGED vars
  BY <1>6, <1>b DEF FirstInv, vars, Agree
<1> QED  BY <1>1, <1>2, <1>3, <1>4, <1>5, <1>6 DEF Next, Returned

(* Without NOPs, the index MismatchIndex returns is the first place where  *)
(* the bodies differ, and lies in both (FunctionExtractor.h:484, 512), for *)
(* bodies of any length.                                                   *)
THEOREM IndexIsFirstDifferenceAlways == Spec => []IndexIsFirstDifference
<1>1. TypeOK /\ FirstInv => IndexIsFirstDifference
  <2> SUFFICES ASSUME TypeOK, FirstInv, result >= 0, ~HasNop(body), ~HasNop(other)
               PROVE  /\ result < Len(body) /\ result < Len(other)
                      /\ body[result + 1] # other[result + 1]
                      /\ SubSeq(body, 1, result) = SubSeq(other, 1, result)
    BY DEF IndexIsFirstDifference
  <2>1. result \in Nat
    BY DEF TypeOK, Running
  <2>2. SubSeq(body, 1, result) = [k \in 1 .. result |-> body[k]]
        /\ SubSeq(other, 1, result) = [k \in 1 .. result |-> other[k]]
    BY <2>1 DEF TypeOK, Body
  <2> QED  BY <2>1, <2>2 DEF FirstInv, Agree
<1> QED  BY <1>1, TypeInit, TypeStep, FirstInit, FirstStep, PTL DEF Spec

-----------------------------------------------------------------------------
(* What has been passed is the same code, the value of MismatchIndex is    *)
(* what the loop returns from here, and a value returned is that value.    *)
Place == <<thisCounter, thatCounter>>

CodeInv ==
  /\ Kept(body)[thisCounter] = Kept(other)[thatCounter]
  /\ result = Running => From(body, other)[Place] = MismatchIndex(body, other)
  /\ result # Running => result = MismatchIndex(body, other)

LEMMA CodeInit == Init => CodeInv
<1> SUFFICES ASSUME Init PROVE CodeInv
  OBVIOUS
<1>1. body \in Body /\ other \in Body
  BY TypeInit DEF TypeOK
<1>2. Kept(body)[0] = << >> /\ Kept(other)[0] = << >>
  BY <1>1, KeptIs
<1> QED  BY <1>2 DEF Init, CodeInv, Place, MismatchIndex

LEMMA CodeStep == TypeOK /\ CodeInv /\ [Next]_vars => CodeInv'
<1> SUFFICES ASSUME TypeOK, CodeInv, [Next]_vars PROVE CodeInv'
  OBVIOUS
<1> DEFINE K == Kept(body)
           L == Kept(other)
           F == From(body, other)
           i == thisCounter
           j == thatCounter
<1>1. body \in Body /\ other \in Body /\ i \in 0 .. Len(body) /\ j \in 0 .. Len(other)
      /\ Len(body) \in Nat /\ Len(other) \in Nat
  BY DEF TypeOK, Body
<1>2. body' = body /\ other' = other
  BY DEF Next, Match, SkipThisNop, SkipThatNop, ReturnIndex, ReturnNone, Returned, InLoop, vars
<1>3. InLoop =>
        /\ result = Running /\ i < Len(body) /\ j < Len(other)
        /\ K[i + 1] = IF This = NOP THEN K[i] ELSE Append(K[i], This)
        /\ L[j + 1] = IF That = NOP THEN L[j] ELSE Append(L[j], That)
  <2> SUFFICES ASSUME InLoop
               PROVE  /\ K[i + 1] = IF This = NOP THEN K[i] ELSE Append(K[i], This)
                      /\ L[j + 1] = IF That = NOP THEN L[j] ELSE Append(L[j], That)
    BY DEF InLoop
  <2> QED  BY <1>1, KeptNext DEF InLoop, This, That
<1>4. F[<<i, j>>] = OneTurn(body, other, F, <<i, j>>)
  <2>1. <<i, j>> \in Places(body, other)
    BY <1>1 DEF Places
  <2> QED  BY <1>1, <2>1, FromIs
<1>5. F[<<i, j>>] =
        IF i = Len(body) \/ j = Len(other) THEN -1
        ELSE IF This = That THEN F[<<i + 1, j + 1>>]
        ELSE IF This = NOP  THEN F[<<i + 1, j>>]
        ELSE IF That = NOP  THEN F[<<i, j + 1>>]
        ELSE (i + j) \div 2
  BY <1>4 DEF OneTurn, This, That
<1>6. K[i] = L[j] /\ (result = Running => F[<<i, j>>] = MismatchIndex(body, other))
      /\ (result # Running => result = MismatchIndex(body, other))
  BY DEF CodeInv, Place
<1> SUFFICES /\ K[i'] = L[j']
             /\ result' = Running => F[<<i', j'>>] = MismatchIndex(body, other)
             /\ result' # Running => result' = MismatchIndex(body, other)
  BY <1>2 DEF CodeInv, Place
<1> HIDE DEF K, L, F
<1>7. CASE Match
  BY <1>1, <1>3, <1>5, <1>6, <1>7 DEF Match
<1>8. CASE SkipThisNop
  BY <1>1, <1>3, <1>5, <1>6, <1>8 DEF SkipThisNop
<1>9. CASE SkipThatNop
  BY <1>1, <1>3, <1>5, <1>6, <1>9 DEF SkipThatNop
<1>10. CASE ReturnIndex
  <2>1. (i + j) \div 2 \in Nat
    BY <1>1, HalfOfSum
  <2> QED  BY <1>1, <1>3, <1>5, <1>6, <1>10, <2>1 DEF ReturnIndex, Running
<1>11. CASE ReturnNone
  BY <1>1, <1>5, <1>6, <1>11 DEF ReturnNone, Running
<1>12. CASE UNCHANGED vars
  BY <1>6, <1>12 DEF vars
<1> QED  BY <1>7, <1>8, <1>9, <1>10, <1>11, <1>12 DEF Next, Returned

LEMMA CodeInvariant == Spec => [](TypeOK /\ CodeInv)
BY TypeInit, TypeStep, CodeInit, CodeStep, PTL DEF Spec

(* At any time the code the loop has passed in one body is the code it has *)
(* passed in the other (FunctionExtractor.h:501-510), however many NOPs    *)
(* stand in either.                                                        *)
THEOREM PassedCodeAgreesAlways == Spec => []PassedCodeAgrees
<1>1. TypeOK /\ CodeInv => PassedCodeAgrees
  BY KeptOfFirst DEF TypeOK, CodeInv, PassedCodeAgrees
<1> QED  BY <1>1, CodeInvariant, PTL

(* The loop returns MismatchIndex, and -1 exactly when neither body's code *)
(* departs from the other's: which NOP it passes over first never matters, *)
(* for bodies of any length.                                               *)
THEOREM DecidesNoMismatchAlways == Spec => []DecidesNoMismatch
<1>1. TypeOK /\ CodeInv => DecidesNoMismatch
  BY MismatchIndexDecides DEF TypeOK, CodeInv, DecidesNoMismatch
<1> QED  BY <1>1, CodeInvariant, PTL
=============================================================================
