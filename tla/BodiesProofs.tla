----------------------------- MODULE BodiesProofs -----------------------------
(***************************************************************************)
(* What MismatchIndex computes, for bodies of any length.                  *)
(***************************************************************************)
EXTENDS Bodies, NaturalsInduction, WellFoundedInduction, TLAPS

-----------------------------------------------------------------------------
(* Induction and recursion over the natural numbers, with sets and         *)
(* functions where the library's theorems have operators.                  *)

LEMMA Induction ==
  ASSUME NEW S, 0 \in S, \A n \in Nat : n \in S => n + 1 \in S
  PROVE  Nat \subseteq S
<1> SUFFICES ASSUME ~(Nat \subseteq S) PROVE FALSE
  OBVIOUS
<1> DEFINE T == Nat \ S
<1>1. T # {} /\ T \subseteq Nat
  OBVIOUS
<1>2. PICK x \in T : \A y \in T : ~(<<y, x>> \in OpToRel(<, Nat))
  BY <1>1, WFMin, NatLessThanWellFounded
<1>3. \A y \in T : ~(y < x)
  BY <1>2 DEF OpToRel
<1> QED  BY <1>3

(* What a recursive definition has up to N: v first, then step after step. *)
StepsUpTo(N, V) == [(1 .. N) \X V -> V]
Unfolds(N, V, v, step) ==
  \E g \in [0 .. N -> V] : g[0] = v /\ \A n \in 1 .. N : g[n] = step[<<n, g[n - 1]>>]

LEMMA Recursion ==
  ASSUME NEW N \in Nat, NEW V, NEW v \in V, NEW step \in StepsUpTo(N, V)
  PROVE  Unfolds(N, V, v, step)
<1> DEFINE Good(k, g) == g[0] = v /\ \A n \in 1 .. k : g[n] = step[<<n, g[n - 1]>>]
           S == {k \in Nat : k <= N => \E g \in [0 .. k -> V] : Good(k, g)}
<1>1. 0 \in S
  <2>1. [n \in 0 .. 0 |-> v] \in [0 .. 0 -> V] /\ Good(0, [n \in 0 .. 0 |-> v])
    OBVIOUS
  <2> QED  BY <2>1
<1>2. ASSUME NEW k \in Nat, k \in S PROVE k + 1 \in S
  <2> SUFFICES ASSUME k + 1 <= N PROVE \E g \in [0 .. k + 1 -> V] : Good(k + 1, g)
    OBVIOUS
  <2>1. PICK g \in [0 .. k -> V] : Good(k, g)
    BY <1>2
  <2> DEFINE w == step[<<k + 1, g[k]>>]
             h == [n \in 0 .. k + 1 |-> IF n = k + 1 THEN w ELSE g[n]]
  <2>2. w \in V
    BY DEF StepsUpTo
  <2>3. h \in [0 .. k + 1 -> V]
    BY <2>2
  <2>4. h[0] = g[0] /\ h[k + 1] = w /\ \A n \in 1 .. k : h[n] = g[n] /\ h[n - 1] = g[n - 1]
    OBVIOUS
  <2>5. h[k + 1 - 1] = g[k]
    OBVIOUS
  <2>6. \A n \in 1 .. k + 1 : h[n] = step[<<n, h[n - 1]>>]
    <3> SUFFICES ASSUME NEW n \in 1 .. k + 1 PROVE h[n] = step[<<n, h[n - 1]>>]
      OBVIOUS
    <3> HIDE DEF h
    <3>1. CASE n = k + 1
      BY <2>4, <2>5, <3>1
    <3>2. CASE n \in 1 .. k
      BY <2>1, <2>4, <3>2
    <3> QED  BY <3>1, <3>2
  <2> QED  BY <2>1, <2>3, <2>4, <2>6
<1> HIDE DEF S
<1>3. N \in S
  BY <1>1, <1>2, Induction
<1> QED  BY <1>3 DEF S, Unfolds

-----------------------------------------------------------------------------
(* The code in the first bytes of a body.                                  *)

LEMMA KeptIs ==
  ASSUME NEW b \in Body
  PROVE  /\ Kept(b) \in [0 .. Len(b) -> Seq(Bytes)]
         /\ Kept(b)[0] = << >>
         /\ \A n \in 1 .. Len(b) :
              Kept(b)[n] = IF b[n] = NOP THEN Kept(b)[n - 1]
                                         ELSE Append(Kept(b)[n - 1], b[n])
<1> DEFINE N == Len(b)
           Is(f) == f = [n \in 0 .. N |->
                           IF n = 0 THEN << >>
                           ELSE IF b[n] = NOP THEN f[n - 1]
                           ELSE Append(f[n - 1], b[n])]
           step == [p \in (1 .. N) \X Seq(Bytes) |->
                      IF b[p[1]] = NOP THEN p[2] ELSE Append(p[2], b[p[1]])]
           V == Seq(Bytes)
           v == << >>
<1>1. N \in Nat /\ v \in V /\ \A n \in 1 .. N : b[n] \in Bytes
  BY DEF Body
<1>2. step \in StepsUpTo(N, V)
  BY <1>1 DEF StepsUpTo
<1>3. PICK g \in [0 .. N -> V] : g[0] = v /\ \A n \in 1 .. N : g[n] = step[<<n, g[n - 1]>>]
  <2> HIDE DEF N, V, v, step
  <2>1. Unfolds(N, V, v, step)
    BY <1>1, <1>2, Recursion
  <2> QED  BY <2>1 DEF Unfolds
<1>4. ASSUME NEW n \in 1 .. N
      PROVE  g[n] = IF b[n] = NOP THEN g[n - 1] ELSE Append(g[n - 1], b[n])
  <2>1. g[n - 1] \in V
    <3> HIDE DEF N, V
    <3> QED  BY <1>1
  <2>2. <<n, g[n - 1]>> \in (1 .. N) \X V
    BY <2>1
  <2> QED  BY <1>3, <2>2
<1>5. Is(g)
  <2> HIDE DEF step
  <2>1. \A n \in 0 .. N : n = 0 \/ n \in 1 .. N
    BY <1>1
  <2> QED  BY <1>3, <1>4, <2>1
<1>6. Is(Kept(b))
  <2> HIDE DEF Is
  <2>1. Is(CHOOSE f : Is(f))
    BY <1>5
  <2> QED  BY <2>1 DEF Kept, Is
<1> DEFINE K == Kept(b)
<1>7. /\ K = [n \in 0 .. N |-> K[n]]
      /\ K[0] = << >>
      /\ \A n \in 1 .. N : K[n] = IF b[n] = NOP THEN K[n - 1] ELSE Append(K[n - 1], b[n])
  <2> HIDE DEF N
  <2>1. Is(K)
    BY <1>6
  <2> HIDE DEF K
  <2>2. 0 \in 0 .. N /\ \A n \in 1 .. N : n \in 0 .. N /\ n # 0
    BY <1>1
  <2> QED  BY <2>1, <2>2
<1>8. \A n \in 0 .. N : K[n] \in Seq(Bytes)
  <2> DEFINE S == {n \in Nat : n <= N => K[n] \in Seq(Bytes)}
  <2> HIDE DEF K
  <2>1. 0 \in S
    BY <1>1, <1>7
  <2>2. ASSUME NEW n \in Nat, n \in S PROVE n + 1 \in S
    <3> SUFFICES ASSUME n + 1 <= N PROVE K[n + 1] \in Seq(Bytes)
      OBVIOUS
    <3>1. K[n + 1] = IF b[n + 1] = NOP THEN K[n] ELSE Append(K[n], b[n + 1])
      BY <1>7
    <3>2. K[n] \in Seq(Bytes) /\ b[n + 1] \in Bytes
      BY <1>1, <2>2
    <3> QED  BY <3>1, <3>2
  <2> HIDE DEF S
  <2>3. Nat \subseteq S
    BY <2>1, <2>2, Induction
  <2> QED  BY <1>1, <2>3 DEF S
<1> QED  BY <1>7, <1>8

LEMMA KeptNext ==
  ASSUME NEW b \in Body, NEW n \in Nat, n < Len(b)
  PROVE  Kept(b)[n + 1] = IF b[n + 1] = NOP THEN Kept(b)[n] ELSE Append(Kept(b)[n], b[n + 1])
<1>1. n + 1 \in 1 .. Len(b) /\ n + 1 - 1 = n
  BY DEF Body
<1> QED  BY <1>1, KeptIs

(* The code of a body begins with the code of its first bytes.             *)
LEMMA KeptBegins ==
  ASSUME NEW b \in Body, NEW m \in 0 .. Len(b), NEW n \in 0 .. Len(b), m <= n
  PROVE  /\ Len(Kept(b)[m]) <= Len(Kept(b)[n])
         /\ \A k \in 1 .. Len(Kept(b)[m]) : Kept(b)[n][k] = Kept(b)[m][k]
<1> DEFINE N == Len(b)
           K == Kept(b)
           Begins(j) == Len(K[m]) <= Len(K[j]) /\ \A k \in 1 .. Len(K[m]) : K[j][k] = K[m][k]
           S == {j \in Nat : m <= j /\ j <= N => Begins(j)}
<1>1. N \in Nat /\ \A j \in 1 .. N : b[j] \in Bytes
  BY DEF Body
<1>2. K \in [0 .. N -> Seq(Bytes)]
  BY KeptIs
<1>3. \A j \in 1 .. N : K[j] = IF b[j] = NOP THEN K[j - 1] ELSE Append(K[j - 1], b[j])
  BY KeptIs
<1> HIDE DEF N, K
<1>4. 0 \in S
  <2>1. 0 <= N /\ m <= 0 => m = 0
    BY <1>1 DEF N
  <2>2. Len(K[m]) \in Nat
    BY <1>2 DEF N
  <2> QED  BY <2>1, <2>2
<1>5. ASSUME NEW j \in Nat, j \in S PROVE j + 1 \in S
  <2> SUFFICES ASSUME m <= j + 1, j + 1 <= N PROVE Begins(j + 1)
    OBVIOUS
  <2>0. K[m] \in Seq(Bytes) /\ m \in Nat
    BY <1>2 DEF N
  <2>1. CASE m = j + 1
    BY <2>0, <2>1
  <2>2. CASE m <= j
    <3>1. K[j] \in Seq(Bytes) /\ b[j + 1] \in Bytes
      BY <1>1, <1>2
    <3>2. Begins(j)
      BY <1>1, <1>5, <2>2
    <3>3. K[j + 1] = IF b[j + 1] = NOP THEN K[j] ELSE Append(K[j], b[j + 1])
      BY <1>1, <1>3
    <3> QED  BY <2>0, <3>1, <3>2, <3>3
  <2> QED  BY <2>0, <2>1, <2>2
<1> HIDE DEF S
<1>6. Nat \subseteq S
  BY <1>4, <1>5, Induction
<1> QED  BY <1>1, <1>6 DEF S, K, N

(* It depends on these bytes only.                                         *)
LEMMA KeptOfFirst ==
  ASSUME NEW b \in Body, NEW n \in 0 .. Len(b)
  PROVE  Stripped(SubSeq(b, 1, n)) = Kept(b)[n]
<1> DEFINE a == SubSeq(b, 1, n)
           S == {j \in Nat : j <= n => Kept(a)[j] = Kept(b)[j]}
<1>1. Len(b) \in Nat /\ n \in Nat
  BY DEF Body
<1>2. a \in Body /\ Len(a) = n /\ \A j \in 1 .. n : a[j] = b[j]
  BY <1>1 DEF Body
<1>3. Kept(a)[0] = << >>
      /\ \A j \in 1 .. n :
           Kept(a)[j] = IF a[j] = NOP THEN Kept(a)[j - 1] ELSE Append(Kept(a)[j - 1], a[j])
  <2> HIDE DEF a
  <2> QED  BY <1>2, KeptIs
<1>4. Kept(b)[0] = << >>
      /\ \A j \in 1 .. Len(b) :
           Kept(b)[j] = IF b[j] = NOP THEN Kept(b)[j - 1] ELSE Append(Kept(b)[j - 1], b[j])
  BY KeptIs
<1> HIDE DEF a
<1>5. 0 \in S
  BY <1>3, <1>4
<1>6. ASSUME NEW j \in Nat, j \in S PROVE j + 1 \in S
  <2> SUFFICES ASSUME j + 1 <= n PROVE Kept(a)[j + 1] = Kept(b)[j + 1]
    OBVIOUS
  <2>1. j + 1 \in 1 .. n /\ j + 1 \in 1 .. Len(b) /\ j + 1 - 1 = j
    BY <1>1
  <2> QED  BY <1>1, <1>2, <1>3, <1>4, <1>6, <2>1
<1> HIDE DEF S
<1>7. Nat \subseteq S
  BY <1>5, <1>6, Induction
<1> QED  BY <1>1, <1>2, <1>7 DEF S, a, Stripped

LEMMA StrippedType ==
  ASSUME NEW b \in Body
  PROVE  Stripped(b) \in Seq(Bytes)
BY KeptIs DEF Stripped, Body

-----------------------------------------------------------------------------
(* The loop, entered anywhere.                                             *)

Places(a, b) == (0 .. Len(a)) \X (0 .. Len(b))

(* What the loop entered at c returns, if f says what it does further on.  *)
OneTurn(a, b, f, c) ==
  IF c[1] = Len(a) \/ c[2] = Len(b) THEN -1
  ELSE IF a[c[1] + 1] = b[c[2] + 1] THEN f[<<c[1] + 1, c[2] + 1>>]
  ELSE IF a[c[1] + 1] = NOP         THEN f[<<c[1] + 1, c[2]>>]
  ELSE IF b[c[2] + 1] = NOP         THEN f[<<c[1], c[2] + 1>>]
  ELSE (c[1] + c[2]) \div 2

LEMMA FromIs ==
  ASSUME NEW a \in Body, NEW b \in Body
  PROVE  \A c \in Places(a, b) : From(a, b)[c] = OneTurn(a, b, From(a, b), c)
<1> DEFINE P == Places(a, b)
           Rest(c) == (Len(a) - c[1]) + (Len(b) - c[2])
           Is(f) == f = [c \in P |-> OneTurn(a, b, f, c)]
           Good(k, f) == \A c \in P : Rest(c) <= k => f[c] = OneTurn(a, b, f, c)
           S == {k \in Nat : \E f : f = [c \in P |-> f[c]] /\ Good(k, f)}
<1>1. Len(a) \in Nat /\ Len(b) \in Nat
  BY DEF Body
<1>2. ASSUME NEW c \in P, NEW f, NEW g,
             \A d \in P : Rest(d) < Rest(c) => f[d] = g[d]
      PROVE  OneTurn(a, b, f, c) = OneTurn(a, b, g, c)
  <2>1. PICK i \in 0 .. Len(a), j \in 0 .. Len(b) : c = <<i, j>>
    BY DEF Places
  <2>2. i # Len(a) /\ j # Len(b) =>
          \A d \in {<<i + 1, j + 1>>, <<i + 1, j>>, <<i, j + 1>>} : d \in P /\ Rest(d) < Rest(c)
    BY <1>1, <2>1 DEF Places
  <2>3. i # Len(a) /\ j # Len(b) =>
          \A d \in {<<i + 1, j + 1>>, <<i + 1, j>>, <<i, j + 1>>} : f[d] = g[d]
    <3> HIDE DEF P, Rest
    <3> QED  BY <1>2, <2>2
  <2> QED  BY <2>1, <2>3 DEF OneTurn
<1>3. \A c \in P : Rest(c) \in Nat
  BY <1>1 DEF Places
<1> HIDE DEF P, Rest
<1>4. 0 \in S
  <2> DEFINE h == [c \in P |-> -1]
  <2>1. ASSUME NEW c \in P, Rest(c) <= 0 PROVE h[c] = OneTurn(a, b, h, c)
    <3>1. c[1] = Len(a) /\ c[2] = Len(b)
      BY <1>1, <2>1 DEF P, Rest, Places
    <3> QED  BY <3>1 DEF OneTurn
  <2>2. h = [c \in P |-> h[c]]
    OBVIOUS
  <2> HIDE DEF h
  <2> QED  BY <2>1, <2>2
<1>5. ASSUME NEW k \in Nat, k \in S PROVE k + 1 \in S
  <2>1. PICK f : f = [c \in P |-> f[c]] /\ Good(k, f)
    BY <1>5
  <2> DEFINE h == [c \in P |-> OneTurn(a, b, f, c)]
  <2>2. ASSUME NEW c \in P, Rest(c) <= k PROVE h[c] = f[c]
    BY <2>1, <2>2
  <2>3. ASSUME NEW c \in P, Rest(c) <= k + 1 PROVE h[c] = OneTurn(a, b, h, c)
    <3>1. \A d \in P : Rest(d) < Rest(c) => f[d] = h[d]
      <4> HIDE DEF h
      <4> QED  BY <1>3, <2>2, <2>3
    <3>2. OneTurn(a, b, f, c) = OneTurn(a, b, h, c)
      <4> HIDE DEF h
      <4> QED  BY <1>2, <3>1
    <3>3. h[c] = OneTurn(a, b, f, c)
      OBVIOUS
    <3> QED  BY <3>2, <3>3
  <2>4. h = [c \in P |-> h[c]]
    OBVIOUS
  <2> HIDE DEF h
  <2> QED  BY <2>3, <2>4
<1>6. Nat \subseteq S
  <2> HIDE DEF S
  <2> QED  BY <1>4, <1>5, Induction
<1>7. \E f : Is(f)
  <2>1. Len(a) + Len(b) \in S
    BY <1>1, <1>6
  <2>2. PICK f : f = [c \in P |-> f[c]] /\ Good(Len(a) + Len(b), f)
    BY <2>1
  <2>3. \A c \in P : Rest(c) <= Len(a) + Len(b)
    BY <1>1 DEF P, Rest, Places
  <2>4. \A c \in P : f[c] = OneTurn(a, b, f, c)
    BY <2>2, <2>3
  <2>5. Is(f)
    BY <2>2, <2>4
  <2> QED  BY <2>5
<1>8. Is(From(a, b))
  <2>1. Is(CHOOSE f : Is(f))
    <3> HIDE DEF Is
    <3> QED  BY <1>7
  <2> QED  BY <2>1 DEF From, P, Places, OneTurn
<1> DEFINE F == From(a, b)
<1>9. Is(F)
  BY <1>8
<1> HIDE DEF F
<1> QED  BY <1>9 DEF F, P

(* Induction over the places of the loop, backwards.                       *)
LEMMA Backwards ==
  ASSUME NEW a \in Body, NEW b \in Body, NEW S,
         \A c \in Places(a, b) :
           (\A d \in Places(a, b) : d[1] + d[2] > c[1] + c[2] => d \in S) => c \in S
  PROVE  Places(a, b) \subseteq S
<1> DEFINE P == Places(a, b)
           top == Len(a) + Len(b)
           T == {k \in Nat : \A c \in P : top - (c[1] + c[2]) < k => c \in S}
<1>1. top \in Nat /\ \A c \in P : c[1] + c[2] \in Nat /\ c[1] + c[2] <= top
  BY DEF Body, Places
<1> HIDE DEF P, top
<1>2. 0 \in T
  BY <1>1
<1>3. ASSUME NEW k \in Nat, k \in T PROVE k + 1 \in T
  <2> SUFFICES ASSUME NEW c \in P, top - (c[1] + c[2]) < k + 1 PROVE c \in S
    OBVIOUS
  <2>1. \A d \in P : d[1] + d[2] > c[1] + c[2] => d \in S
    BY <1>1, <1>3
  <2> QED  BY <2>1 DEF P
<1>4. Nat \subseteq T
  <2> HIDE DEF T
  <2> QED  BY <1>2, <1>3, Induction
<1>5. top + 1 \in T
  BY <1>1, <1>4
<1> QED  BY <1>1, <1>5 DEF P

LEMMA FromType ==
  ASSUME NEW a \in Body, NEW b \in Body
  PROVE  \A c \in Places(a, b) : From(a, b)[c] \in Nat \cup {-1}
<1> DEFINE S == {c \in Places(a, b) : From(a, b)[c] \in Nat \cup {-1}}
<1>0. Places(a, b) \subseteq S => \A c \in Places(a, b) : From(a, b)[c] \in Nat \cup {-1}
  OBVIOUS
<1> HIDE DEF S
<1> SUFFICES ASSUME NEW c \in Places(a, b),
                    \A d \in Places(a, b) : d[1] + d[2] > c[1] + c[2] => d \in S
             PROVE  c \in S
  BY <1>0, Backwards
<1>1. PICK i \in 0 .. Len(a), j \in 0 .. Len(b) : c = <<i, j>>
  BY DEF Places
<1>2. Len(a) \in Nat /\ Len(b) \in Nat
  BY DEF Body
<1>3. i # Len(a) /\ j # Len(b) =>
        \A d \in {<<i + 1, j + 1>>, <<i + 1, j>>, <<i, j + 1>>} :
          d \in Places(a, b) /\ d[1] + d[2] > c[1] + c[2]
  BY <1>1, <1>2 DEF Places
<1>4. i # Len(a) /\ j # Len(b) =>
        \A d \in {<<i + 1, j + 1>>, <<i + 1, j>>, <<i, j + 1>>} : d \in S
  BY <1>3
<1>5. From(a, b)[c] = OneTurn(a, b, From(a, b), c)
  BY FromIs
<1>6. (i + j) \div 2 \in Nat
  BY <1>2
<1> QED  BY <1>1, <1>4, <1>5, <1>6 DEF S, OneTurn

(* Where the loop has passed the same code in both bodies, what it will    *)
(* return says whether the rest agrees.                                    *)
LEMMA FromDecides ==
  ASSUME NEW a \in Body, NEW b \in Body
  PROVE  \A c \in Places(a, b) :
           Kept(a)[c[1]] = Kept(b)[c[2]] => (From(a, b)[c] = -1 <=> NoMismatch(a, b))
<1> DEFINE Decides(c) ==
             Kept(a)[c[1]] = Kept(b)[c[2]] => (From(a, b)[c] = -1 <=> NoMismatch(a, b))
           S == {c \in Places(a, b) : Decides(c)}
<1> HIDE DEF S
<1> SUFFICES ASSUME NEW c \in Places(a, b),
                    \A d \in Places(a, b) : d[1] + d[2] > c[1] + c[2] => d \in S,
                    Kept(a)[c[1]] = Kept(b)[c[2]]
             PROVE  From(a, b)[c] = -1 <=> NoMismatch(a, b)
  BY Backwards DEF S
<1>1. PICK i \in 0 .. Len(a), j \in 0 .. Len(b) : c = <<i, j>>
  BY DEF Places
<1>2. Len(a) \in Nat /\ Len(b) \in Nat /\ i \in Nat /\ j \in Nat
  BY DEF Body
<1> DEFINE K == Kept(a)
           L == Kept(b)
           F == From(a, b)
           s == Stripped(a)
           t == Stripped(b)
<1>3. /\ \A n \in 1 .. Len(a) : K[n] = IF a[n] = NOP THEN K[n - 1] ELSE Append(K[n - 1], a[n])
      /\ \A n \in 1 .. Len(b) : L[n] = IF b[n] = NOP THEN L[n - 1] ELSE Append(L[n - 1], b[n])
      /\ K \in [0 .. Len(a) -> Seq(Bytes)] /\ L \in [0 .. Len(b) -> Seq(Bytes)]
  BY KeptIs
<1>4. s \in Seq(Bytes) /\ t \in Seq(Bytes)
  BY StrippedType
<1>5. /\ \A n \in 0 .. Len(a) : /\ Len(K[n]) <= Len(s)
                               /\ \A k \in 1 .. Len(K[n]) : s[k] = K[n][k]
      /\ \A n \in 0 .. Len(b) : /\ Len(L[n]) <= Len(t)
                               /\ \A k \in 1 .. Len(L[n]) : t[k] = L[n][k]
  BY <1>2, KeptBegins DEF Stripped
<1>6. F[c] = OneTurn(a, b, F, c)
  BY FromIs
<1>7. K[i] = L[j]
  BY <1>1
<1>8. \A d \in S : d \in Places(a, b) /\ Decides(d)
  BY DEF S
<1>9. NoMismatch(a, b) <=> \A k \in DOMAIN s \cap DOMAIN t : s[k] = t[k]
  BY DEF NoMismatch
<1> HIDE DEF K, L, F, s, t
<1>10. ASSUME NEW d \in Places(a, b), d[1] + d[2] > i + j, K[d[1]] = L[d[2]]
       PROVE  F[d] = -1 <=> NoMismatch(a, b)
  BY <1>1, <1>8, <1>10 DEF K, L, F
<1>11. CASE i = Len(a)
  <2>1. F[c] = -1
    BY <1>1, <1>6, <1>11 DEF OneTurn
  <2>2. K[i] = s
    BY <1>11 DEF K, s, Stripped
  <2>3. Len(s) <= Len(t) /\ \A k \in 1 .. Len(s) : t[k] = s[k]
    BY <1>5, <1>7, <2>2
  <2> QED  BY <1>4, <1>9, <2>1, <2>3 DEF F
<1>12. CASE j = Len(b)
  <2>1. F[c] = -1
    BY <1>1, <1>6, <1>12 DEF OneTurn
  <2>2. L[j] = t
    BY <1>12 DEF L, t, Stripped
  <2>3. Len(t) <= Len(s) /\ \A k \in 1 .. Len(t) : s[k] = t[k]
    BY <1>5, <1>7, <2>2
  <2> QED  BY <1>4, <1>9, <2>1, <2>3 DEF F
<1>13. CASE i # Len(a) /\ j # Len(b)
  <2>1. /\ K[i + 1] = IF a[i + 1] = NOP THEN K[i] ELSE Append(K[i], a[i + 1])
        /\ L[j + 1] = IF b[j + 1] = NOP THEN L[j] ELSE Append(L[j], b[j + 1])
    <3>1. i + 1 \in 1 .. Len(a) /\ j + 1 \in 1 .. Len(b) /\ i + 1 - 1 = i /\ j + 1 - 1 = j
      BY <1>2, <1>13
    <3> QED  BY <1>3, <3>1
  <2>2. CASE a[i + 1] = b[j + 1]
    <3>1. <<i + 1, j + 1>> \in Places(a, b)
      BY <1>2, <1>13 DEF Places
    <3>2. F[<<i + 1, j + 1>>] = -1 <=> NoMismatch(a, b)
      BY <1>2, <1>7, <1>10, <2>1, <2>2, <3>1
    <3> QED  BY <1>1, <1>6, <1>13, <2>2, <3>2 DEF OneTurn, F
  <2>3. CASE a[i + 1] # b[j + 1] /\ a[i + 1] = NOP
    <3>1. <<i + 1, j>> \in Places(a, b)
      BY <1>2, <1>13 DEF Places
    <3>2. F[<<i + 1, j>>] = -1 <=> NoMismatch(a, b)
      BY <1>2, <1>7, <1>10, <2>1, <2>3, <3>1
    <3> QED  BY <1>1, <1>6, <1>13, <2>3, <3>2 DEF OneTurn, F
  <2>4. CASE a[i + 1] # b[j + 1] /\ a[i + 1] # NOP /\ b[j + 1] = NOP
    <3>1. <<i, j + 1>> \in Places(a, b)
      BY <1>2, <1>13 DEF Places
    <3>2. F[<<i, j + 1>>] = -1 <=> NoMismatch(a, b)
      BY <1>2, <1>7, <1>10, <2>1, <2>4, <3>1
    <3> QED  BY <1>1, <1>6, <1>13, <2>4, <3>2 DEF OneTurn, F
  <2>5. CASE a[i + 1] # b[j + 1] /\ a[i + 1] # NOP /\ b[j + 1] # NOP
    <3>1. F[c] = (i + j) \div 2
      BY <1>1, <1>6, <1>13, <2>5 DEF OneTurn
    <3>2. (i + j) \div 2 \in Nat
      BY <1>2
    <3> DEFINE k == Len(K[i]) + 1
    <3>3. K[i] \in Seq(Bytes) /\ a[i + 1] \in Bytes /\ b[j + 1] \in Bytes
      <4>1. i + 1 \in 1 .. Len(a) /\ j + 1 \in 1 .. Len(b)
        BY <1>2, <1>13
      <4> QED  BY <1>3, <4>1 DEF Body
    <3>4. /\ Len(K[i + 1]) = k /\ K[i + 1][k] = a[i + 1]
          /\ Len(L[j + 1]) = k /\ L[j + 1][k] = b[j + 1]
          /\ k \in Nat \ {0}
      BY <1>7, <2>1, <2>5, <3>3
    <3> HIDE DEF k
    <3>5. i + 1 \in 0 .. Len(a) /\ j + 1 \in 0 .. Len(b)
      BY <1>2, <1>13
    <3>6. k <= Len(s) /\ s[k] = a[i + 1] /\ k <= Len(t) /\ t[k] = b[j + 1]
      BY <1>5, <3>4, <3>5
    <3>7. ~NoMismatch(a, b)
      BY <1>4, <1>9, <2>5, <3>4, <3>6
    <3> QED  BY <3>1, <3>2, <3>7 DEF F
  <2> QED  BY <2>2, <2>3, <2>4, <2>5
<1> QED  BY <1>11, <1>12, <1>13 DEF F

-----------------------------------------------------------------------------
(* What MismatchIndex returns (FunctionExtractor.h:491-516): an index, or  *)
(* -1 exactly when neither body's code departs from the other's, where the *)
(* code is the body without its NOPs. Which of two runs of NOPs is passed  *)
(* over first makes no difference to this.                                 *)
THEOREM MismatchIndexDecides ==
  ASSUME NEW a \in Body, NEW b \in Body
  PROVE  /\ MismatchIndex(a, b) \in Nat \cup {-1}
         /\ MismatchIndex(a, b) = -1 <=> NoMismatch(a, b)
<1>1. <<0, 0>> \in Places(a, b)
  BY DEF Places, Body
<1>2. Kept(a)[0] = Kept(b)[0]
  BY KeptIs
<1> DEFINE c == <<0, 0>>
<1>3. Kept(a)[c[1]] = Kept(b)[c[2]]
  BY <1>2
<1>4. From(a, b)[c] \in Nat \cup {-1} /\ (From(a, b)[c] = -1 <=> NoMismatch(a, b))
  <2> HIDE DEF c
  <2> QED  BY <1>1, <1>3, FromType, FromDecides DEF c
<1> QED  BY <1>4 DEF MismatchIndex

(* The comparison does not depend on which body is which, and a body has   *)
(* no mismatch with itself.                                                *)
LEMMA NoMismatchSymmetric ==
  ASSUME NEW a, NEW b
  PROVE  NoMismatch(a, a) /\ (NoMismatch(a, b) <=> NoMismatch(b, a))
BY DEF NoMismatch

(* Between bodies whose code has one length it is equality of the code.    *)
LEMMA SameLengthSameCode ==
  ASSUME NEW a \in Body, NEW b \in Body, Len(Stripped(a)) = Len(Stripped(b))
  PROVE  NoMismatch(a, b) <=> Stripped(a) = Stripped(b)
<1>1. Stripped(a) \in Seq(Bytes) /\ Stripped(b) \in Seq(Bytes)
  BY StrippedType
<1> QED  BY <1>1 DEF NoMismatch
=============================================================================
