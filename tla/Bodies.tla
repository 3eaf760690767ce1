-------------------------------- MODULE Bodies --------------------------------
(***************************************************************************)
(* Function bodies and FuncInfo::MismatchIndex, which compares two of them *)
(* and passes over NOPs (FunctionExtractor.h:491-516).                     *)
(***************************************************************************)
EXTENDS Integers, Sequences

CONSTANTS
  Bytes,  \* the bytes of function bodies
  NOP     \* 0x90

ASSUME NopAssumption == NOP \in Bytes

Body == Seq(Bytes)

(* The loop of MismatchIndex entered with counters i and j, at <<i, j>>:    *)
(* -1, or half the sum of the two counters.                                *)
From(a, b) ==
  LET from[c \in (0 .. Len(a)) \X (0 .. Len(b))] ==
        LET i == c[1]
            j == c[2]
        IN IF i = Len(a) \/ j = Len(b) THEN -1
           ELSE IF a[i + 1] = b[j + 1] THEN from[<<i + 1, j + 1>>]
           ELSE IF a[i + 1] = NOP      THEN from[<<i + 1, j>>]
           ELSE IF b[j + 1] = NOP      THEN from[<<i, j + 1>>]
           ELSE (i + j) \div 2
  IN from

MismatchIndex(a, b) == From(a, b)[<<0, 0>>]

-----------------------------------------------------------------------------
(* What it decides. It is -1 exactly when the code of the shorter body,    *)
(* NOPs aside, is where the code of the longer one begins; module          *)
(* MismatchScan checks this of the loop, and BodiesProofs proves it.       *)

(* The code in the first n bytes of a body, at n.                          *)
Kept(b) ==
  LET kept[n \in 0 .. Len(b)] ==
        IF n = 0 THEN << >>
        ELSE IF b[n] = NOP THEN kept[n - 1]
        ELSE Append(kept[n - 1], b[n])
  IN kept

Stripped(b) == Kept(b)[Len(b)]

NoMismatch(a, b) ==
  LET s == Stripped(a)
      t == Stripped(b)
  IN \A i \in DOMAIN s \cap DOMAIN t : s[i] = t[i]
=============================================================================
