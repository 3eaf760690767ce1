------------------------------- MODULE UdtProofs -------------------------------
(***************************************************************************)
(* UdtInfo: what comparing the definitions of a class decides, proved for  *)
(* any number of translation units and any declarations; and the reading   *)
(* of nested classes, proved for any number of classes and parts and any   *)
(* call stack with room for more constructors than there are classes.      *)
(***************************************************************************)
EXTENDS UdtCompare, UdtResolve, FiniteSetTheorems, WellFoundedInduction, NaturalsInduction, TLAPS

-----------------------------------------------------------------------------
(* Functions in another order.                                             *)

LEMMA BijectionIs ==
  ASSUME NEW S, NEW T, NEW o \in Bijection(S, T)
  PROVE  /\ o \in [S -> T] /\ DOMAIN o = S
         /\ \A t \in T : \E i \in S : o[i] = t
         /\ \A i, j \in S : o[i] = o[j] => i = j
BY DEF Bijection, Injection, Surjection, IsInjective

LEMMA IsBijection ==
  ASSUME NEW S, NEW T, NEW o \in [S -> T],
         \A t \in T : \E i \in S : o[i] = t,
         \A i, j \in S : o[i] = o[j] => i = j
  PROVE  o \in Bijection(S, T)
BY DEF Bijection, Injection, Surjection, IsInjective

LEMMA ArrangedAre ==
  ASSUME NEW l, NEW I, NEW s \in Arranged(l, I)
  PROVE  /\ DOMAIN s = 1 .. Cardinality(I)
         /\ \E o \in Bijection(1 .. Cardinality(I), I) :
              s = [k \in 1 .. Cardinality(I) |-> l[o[k]]]
<1>1. PICK o \in Bijection(1 .. Cardinality(I), I) : s = [k \in DOMAIN o |-> l[o[k]]]
  BY DEF Arranged
<1>2. DOMAIN o = 1 .. Cardinality(I)
  BY BijectionIs
<1> QED  BY <1>1, <1>2

LEMMA IsArranged ==
  ASSUME NEW l, NEW I, NEW o \in Bijection(1 .. Cardinality(I), I)
  PROVE  [k \in 1 .. Cardinality(I) |-> l[o[k]]] \in Arranged(l, I)
<1>1. DOMAIN o = 1 .. Cardinality(I)
  BY BijectionIs
<1> QED  BY <1>1 DEF Arranged

(* Two lists that can be put in one order have the same orders.            *)
LEMMA ArrangedMeet ==
  ASSUME NEW l, NEW I, NEW m, NEW J, NEW s \in Arranged(l, I), s \in Arranged(m, J)
  PROVE  Arranged(l, I) \subseteq Arranged(m, J)
<1> DEFINE D == 1 .. Cardinality(I)
<1>1. DOMAIN s = D /\ 1 .. Cardinality(J) = D
  BY ArrangedAre
<1>2. PICK p \in Bijection(D, I) : s = [k \in D |-> l[p[k]]]
  BY ArrangedAre
<1>3. PICK p2 \in Bijection(D, J) : s = [k \in D |-> m[p2[k]]]
  <2>1. \E o \in Bijection(1 .. Cardinality(J), J) :
          s = [k \in 1 .. Cardinality(J) |-> m[o[k]]]
    BY ArrangedAre
  <2> QED  BY <1>1, <2>1
<1> SUFFICES ASSUME NEW r \in Arranged(l, I) PROVE r \in Arranged(m, J)
  OBVIOUS
<1>4. PICK q \in Bijection(D, I) : r = [k \in D |-> l[q[k]]]
  BY ArrangedAre
<1> HIDE DEF D
<1>5. /\ p \in [D -> I] /\ (\A i \in I : \E k \in D : p[k] = i)
      /\ (\A j, k \in D : p[j] = p[k] => j = k)
      /\ p2 \in [D -> J] /\ (\A i \in J : \E k \in D : p2[k] = i)
      /\ (\A j, k \in D : p2[j] = p2[k] => j = k)
      /\ q \in [D -> I] /\ (\A i \in I : \E k \in D : q[k] = i)
      /\ (\A j, k \in D : q[j] = q[k] => j = k)
  BY BijectionIs
<1> DEFINE b == [k \in D |-> CHOOSE j \in D : p[j] = q[k]]
           o == [k \in D |-> p2[b[k]]]
<1>6. \A k \in D : b[k] \in D /\ p[b[k]] = q[k]
  BY <1>5
<1> HIDE DEF b
<1>7. o \in [D -> J] /\ \A k \in D : o[k] = p2[b[k]]
  BY <1>5, <1>6
<1> HIDE DEF o
<1>8. \A j, k \in D : o[j] = o[k] => j = k
  <2> SUFFICES ASSUME NEW j \in D, NEW k \in D, o[j] = o[k] PROVE j = k
    OBVIOUS
  <2>1. b[j] = b[k]
    BY <1>5, <1>6, <1>7
  <2>2. q[j] = q[k]
    BY <1>6, <2>1
  <2> QED  BY <1>5, <2>2
<1>9. \A i \in J : \E k \in D : o[k] = i
  <2> SUFFICES ASSUME NEW i \in J PROVE \E k \in D : o[k] = i
    OBVIOUS
  <2>1. PICK j \in D : p2[j] = i
    BY <1>5
  <2>2. PICK k \in D : q[k] = p[j]
    BY <1>5
  <2>3. b[k] = j
    BY <1>5, <1>6, <2>2
  <2> QED  BY <1>7, <2>1, <2>3
<1>10. o \in Bijection(D, J)
  BY <1>7, <1>8, <1>9, IsBijection
<1>11. \A k \in D : l[q[k]] = m[o[k]]
  <2> SUFFICES ASSUME NEW k \in D PROVE l[q[k]] = m[o[k]]
    OBVIOUS
  <2>1. b[k] \in D /\ l[p[b[k]]] = m[p2[b[k]]]
    BY <1>2, <1>3, <1>6
  <2> QED  BY <1>6, <1>7, <2>1
<1>12. r = [k \in D |-> m[o[k]]]
  BY <1>4, <1>11
<1>13. [k \in D |-> m[o[k]]] \in Arranged(m, J)
  BY <1>1, <1>10, IsArranged
<1> QED  BY <1>12, <1>13

InOrder(s) == \A i, j \in DOMAIN s : i < j => s[i].name <= s[j].name

LEMMA Interval ==
  ASSUME NEW j \in Nat
  PROVE  IsFiniteSet(1 .. j) /\ Cardinality(1 .. j) = j
<1>1. IsFiniteSet(1 .. j) /\ Cardinality(1 .. j) = IF 1 > j THEN 0 ELSE j - 1 + 1
  BY FS_Interval
<1> QED  BY <1>1

(* Of two orders by name, of which the second is an arrangement of the     *)
(* first, the first has no smaller name where they first differ: it would  *)
(* have more of the names up to that one.                                  *)
LEMMA NoSmallerName ==
  ASSUME NEW n \in Nat, NEW D, D = 1 .. n,
         NEW s, NEW t, DOMAIN s = D, DOMAIN t = D,
         \A k \in D : s[k].name \in Nat /\ t[k].name \in Nat,
         InOrder(s), InOrder(t),
         NEW f \in [D -> D],
         \A j, k \in D : f[j] = f[k] => j = k,
         \A k \in D : t[f[k]] = s[k],
         NEW i \in D
  PROVE  ~(s[i].name < t[i].name)
<1> SUFFICES ASSUME s[i].name < t[i].name PROVE FALSE
  OBVIOUS
<1>1. \A k \in 1 .. i : s[k].name <= s[i].name
  <2> SUFFICES ASSUME NEW k \in 1 .. i PROVE s[k].name <= s[i].name
    OBVIOUS
  <2>1. k \in DOMAIN s /\ i \in DOMAIN s /\ s[i].name \in Nat
    OBVIOUS
  <2>2. k < i => s[k].name <= s[i].name
    BY <2>1 DEF InOrder
  <2> QED  BY <2>1, <2>2
<1>2. \A k \in 1 .. n : k >= i => s[i].name < t[k].name
  <2> SUFFICES ASSUME NEW k \in 1 .. n, k >= i PROVE s[i].name < t[k].name
    OBVIOUS
  <2>1. /\ k \in DOMAIN t /\ i \in DOMAIN t
        /\ s[i].name \in Nat /\ t[i].name \in Nat /\ t[k].name \in Nat
    OBVIOUS
  <2>2. i < k => t[i].name <= t[k].name
    BY <2>1 DEF InOrder
  <2>3. t[i].name <= t[k].name
    BY <2>1, <2>2
  <2> DEFINE x == s[i].name
             y == t[i].name
             z == t[k].name
  <2>4. x \in Nat /\ y \in Nat /\ z \in Nat /\ x < y /\ y <= z
    BY <2>1, <2>3
  <2> HIDE DEF x, y, z
  <2>5. x < z
    BY <2>4
  <2> QED  BY <2>5 DEF x, z
<1>3. \A k \in 1 .. i : f[k] \in 1 .. (i - 1)
  <2> SUFFICES ASSUME NEW k \in 1 .. i PROVE f[k] \in 1 .. (i - 1)
    OBVIOUS
  <2>1. k \in D /\ f[k] \in D
    OBVIOUS
  <2>2. t[f[k]].name <= s[i].name
    BY <1>1, <2>1
  <2>3. ~(f[k] >= i)
    <3> SUFFICES ASSUME f[k] >= i PROVE FALSE
      OBVIOUS
    <3> DEFINE x == s[i].name
               y == t[f[k]].name
    <3>1. x \in Nat /\ y \in Nat /\ x < y /\ y <= x
      BY <1>2, <2>1, <2>2
    <3> HIDE DEF x, y
    <3> QED  BY <3>1
  <2> DEFINE v == f[k]
  <2>4. v \in 1 .. n /\ ~(v >= i)
    BY <2>1, <2>3
  <2> HIDE DEF v
  <2>5. v \in 1 .. (i - 1)
    BY <2>4
  <2> QED  BY <2>5 DEF v
<1> DEFINE g == [k \in 1 .. i |-> f[k]]
<1>4. g \in [1 .. i -> 1 .. (i - 1)] /\ \A j, k \in 1 .. i : g[j] = g[k] => j = k
  <2>1. \A k \in 1 .. i : g[k] = f[k] /\ k \in 1 .. n
    OBVIOUS
  <2>2. g \in [1 .. i -> 1 .. (i - 1)]
    BY <1>3
  <2> HIDE DEF g
  <2> QED  BY <2>1, <2>2
<1>5. /\ IsFiniteSet(1 .. i) /\ Cardinality(1 .. i) = i
      /\ IsFiniteSet(1 .. (i - 1)) /\ Cardinality(1 .. (i - 1)) = i - 1
  <2> DEFINE j == i - 1
  <2>1. i \in Nat /\ j \in Nat
    OBVIOUS
  <2> HIDE DEF j
  <2>2. /\ IsFiniteSet(1 .. i) /\ Cardinality(1 .. i) = i
        /\ IsFiniteSet(1 .. j) /\ Cardinality(1 .. j) = j
    BY <2>1, Interval
  <2> QED  BY <2>2 DEF j
<1> HIDE DEF g
<1>6. Cardinality(1 .. (i - 1)) < Cardinality(1 .. i)
  BY <1>5
<1> DEFINE S == 1 .. i
           T == 1 .. (i - 1)
<1>7. /\ IsFiniteSet(S) /\ IsFiniteSet(T) /\ Cardinality(T) < Cardinality(S)
      /\ g \in [S -> T] /\ \A j, k \in S : g[j] = g[k] => j = k
  BY <1>4, <1>5, <1>6
<1> HIDE DEF S, T
<1>8. \E x, y \in S : x # y /\ g[x] = g[y]
  BY <1>7, FS_PigeonHole
<1> QED  BY <1>7, <1>8

(* Sorted by names, methods of which those of one name are alike have one  *)
(* order.                                                                  *)
LEMMA SortedIsUnique ==
  ASSUME NEW l, NEW I, Cardinality(I) \in Nat,
         \A i \in I : l[i].name \in Nat,
         \A i, j \in I : l[i].name = l[j].name => l[i] = l[j],
         NEW s \in Arranged(l, I), NEW t \in Arranged(l, I), InOrder(s), InOrder(t)
  PROVE  s = t
<1> DEFINE n == Cardinality(I)
           D == 1 .. n
<1>1. PICK p \in Bijection(D, I) : s = [k \in D |-> l[p[k]]]
  BY ArrangedAre
<1>2. PICK q \in Bijection(D, I) : t = [k \in D |-> l[q[k]]]
  BY ArrangedAre
<1>3. n \in Nat /\ D = 1 .. n
  OBVIOUS
<1> HIDE DEF n, D
<1>4. /\ p \in [D -> I] /\ (\A i \in I : \E k \in D : p[k] = i)
      /\ (\A j, k \in D : p[j] = p[k] => j = k)
      /\ q \in [D -> I] /\ (\A i \in I : \E k \in D : q[k] = i)
      /\ (\A j, k \in D : q[j] = q[k] => j = k)
  BY BijectionIs
<1> DEFINE f == [k \in D |-> CHOOSE j \in D : q[j] = p[k]]
           g == [k \in D |-> CHOOSE j \in D : p[j] = q[k]]
<1>5. /\ f \in [D -> D] /\ (\A k \in D : q[f[k]] = p[k])
      /\ g \in [D -> D] /\ (\A k \in D : p[g[k]] = q[k])
  <2>1. \A k \in D : f[k] \in D /\ q[f[k]] = p[k]
    BY <1>4
  <2>2. \A k \in D : g[k] \in D /\ p[g[k]] = q[k]
    BY <1>4
  <2> QED  BY <2>1, <2>2
<1> HIDE DEF f, g
<1>6. /\ \A j, k \in D : f[j] = f[k] => j = k
      /\ \A j, k \in D : g[j] = g[k] => j = k
  BY <1>4, <1>5
<1>7. /\ \A k \in D : t[f[k]] = s[k] /\ s[g[k]] = t[k]
      /\ \A k \in D : s[k].name \in Nat /\ t[k].name \in Nat
      /\ DOMAIN s = D /\ DOMAIN t = D
  <2>1. DOMAIN s = D /\ DOMAIN t = D
    BY <1>1, <1>2
  <2>2. ASSUME NEW k \in D PROVE t[f[k]] = s[k] /\ s[g[k]] = t[k]
    BY <1>1, <1>2, <1>5
  <2>3. ASSUME NEW k \in D PROVE s[k].name \in Nat /\ t[k].name \in Nat
    <3>1. p[k] \in I /\ q[k] \in I /\ s[k] = l[p[k]] /\ t[k] = l[q[k]]
      BY <1>1, <1>2, <1>4
    <3> QED  BY <3>1
  <2> QED  BY <2>1, <2>2, <2>3
<1>8. \A i \in D : s[i].name = t[i].name
  <2> SUFFICES ASSUME NEW i \in D PROVE s[i].name = t[i].name
    OBVIOUS
  <2>1. /\ DOMAIN s = D /\ DOMAIN t = D
        /\ \A k \in D : s[k].name \in Nat /\ t[k].name \in Nat
    BY <1>7
  <2>2. /\ f \in [D -> D] /\ \A j, k \in D : f[j] = f[k] => j = k
        /\ \A k \in D : t[f[k]] = s[k]
    BY <1>5, <1>6, <1>7
  <2>3. /\ g \in [D -> D] /\ \A j, k \in D : g[j] = g[k] => j = k
        /\ \A k \in D : s[g[k]] = t[k]
    BY <1>5, <1>6, <1>7
  <2>4. ~(s[i].name < t[i].name)
    BY <1>3, <2>1, <2>2, NoSmallerName
  <2>5. ~(t[i].name < s[i].name)
    BY <1>3, <2>1, <2>3, NoSmallerName
  <2> QED  BY <1>7, <2>4, <2>5
<1>9. \A i \in D : s[i] = t[i]
  <2> SUFFICES ASSUME NEW i \in D PROVE s[i] = t[i]
    OBVIOUS
  <2>1. p[i] \in I /\ q[i] \in I /\ s[i] = l[p[i]] /\ t[i] = l[q[i]]
    BY <1>1, <1>2, <1>4
  <2> QED  BY <1>8, <2>1
<1>10. s = [i \in D |-> s[i]] /\ t = [i \in D |-> t[i]]
  BY <1>1, <1>2
<1> QED  BY <1>9, <1>10

-----------------------------------------------------------------------------
(* What the info that is compared tells of a declaration.                  *)

KnownWrap(w) ==
  [op |-> IF w.op = "&&" THEN "&" ELSE w.op, n |-> IF w.op = "[]" THEN w.n ELSE 0]

LEMMA SuffixTells ==
  ASSUME NEW w, NEW v, Suffix(w) = Suffix(v)
  PROVE  KnownWrap(w) = KnownWrap(v)
<1>1. CASE w.op = "[]" /\ v.op = "[]"
  <2>1. <<"[", w.n>> = <<"[", v.n>>
    BY <1>1 DEF Suffix
  <2> QED  BY <1>1, <2>1 DEF KnownWrap
<1>2. ASSUME NEW x, NEW y, x.op = "[]", y.op # "[]" PROVE Suffix(x) # Suffix(y)
  <2>1. Suffix(x) = <<"[", x.n>> /\ Len(Suffix(x)) = 2
    BY <1>2 DEF Suffix
  <2>2. Suffix(y) = <<"&">> \/ Suffix(y) = <<y.op>>
    BY <1>2 DEF Suffix
  <2>3. Len(Suffix(y)) = 1
    BY <2>2
  <2> QED  BY <2>1, <2>3
<1>3. CASE w.op # "[]" /\ v.op # "[]"
  <2> DEFINE Op(x) == IF x.op \in {"&", "&&"} THEN "&" ELSE x.op
  <2>1. Suffix(w) = <<Op(w)>> /\ Suffix(v) = <<Op(v)>>
    BY <1>3 DEF Suffix
  <2>2. KnownWrap(w) = [op |-> Op(w), n |-> 0] /\ KnownWrap(v) = [op |-> Op(v), n |-> 0]
    BY <1>3 DEF KnownWrap
  <2> HIDE DEF Op
  <2>3. Op(w) = Op(v)
    <3>1. <<Op(w)>> = <<Op(v)>>
      BY <2>1
    <3>2. <<Op(w)>>[1] = Op(w) /\ <<Op(v)>>[1] = Op(v)
      OBVIOUS
    <3> QED  BY <3>1, <3>2
  <2> QED  BY <2>2, <2>3
<1> QED  BY <1>1, <1>2, <1>3

LEMMA TypeNameTells ==
  ASSUME NEW x, NEW y, TypeName(x) = TypeName(y)
  PROVE  Known(x) = Known(y)
<1> DEFINE Names(z) == [i \in DOMAIN Shown(z.wraps) |-> Suffix(Shown(z.wraps)[i])]
           Kept(z) == [i \in DOMAIN Shown(z.wraps) |-> KnownWrap(Shown(z.wraps)[i])]
<1>1. CASE Unnamed(x) /\ Unnamed(y)
  BY <1>1 DEF Known
<1>2. ASSUME NEW a, NEW b, Unnamed(a), ~Unnamed(b) PROVE TypeName(a) # TypeName(b)
  <2>1. TypeName(a) = <<"<unnamed">> /\ TypeName(b) = <<b.kind, Names(b)>>
    BY <1>2 DEF TypeName
  <2> HIDE DEF Names
  <2>2. Len(TypeName(a)) = 1 /\ Len(TypeName(b)) = 2
    BY <2>1
  <2> QED  BY <2>2
<1>3. CASE ~Unnamed(x) /\ ~Unnamed(y)
  <2>1. <<x.kind, Names(x)>> = <<y.kind, Names(y)>>
    BY <1>3 DEF TypeName
  <2>2. x.kind = y.kind /\ Names(x) = Names(y)
    <3> HIDE DEF Names
    <3> QED  BY <2>1
  <2>3. DOMAIN Shown(x.wraps) = DOMAIN Shown(y.wraps)
    BY <2>2
  <2>4. ASSUME NEW i \in DOMAIN Shown(x.wraps)
        PROVE  KnownWrap(Shown(x.wraps)[i]) = KnownWrap(Shown(y.wraps)[i])
    <3>1. Names(x)[i] = Suffix(Shown(x.wraps)[i]) /\ Names(y)[i] = Suffix(Shown(y.wraps)[i])
      BY <2>3
    <3> QED  BY <2>2, <3>1, SuffixTells
  <2>5. Kept(x) = Kept(y)
    BY <2>3, <2>4
  <2>6. ASSUME NEW z, ~Unnamed(z) PROVE Known(z) = [kind |-> z.kind, wraps |-> Kept(z)]
    BY <2>6 DEF Known, KnownWrap
  <2> HIDE DEF Kept
  <2> QED  BY <1>3, <2>2, <2>5, <2>6
<1> QED  BY <1>1, <1>2, <1>3

LEMMA InfoTells ==
  ASSUME NEW a, NEW b, NEW s, NEW t, NEW c, NEW d, NEW l, NEW k,
         UdtInfo(a, s, c) = UdtInfo(b, t, d),
         s = t => Arranged(l, Methods(l)) = Arranged(k, Methods(k)),
         c = d => Ctors(l) = Ctors(k)
  PROVE  KnownOf(a, l) = KnownOf(b, k)
<1> DEFINE Ms(u) == [i \in DOMAIN u.members |-> KnownMember(u.members[i])]
           Ss(u) == [i \in DOMAIN u.statics |-> KnownMember(u.statics[i])]
<1>1. /\ a.kind = b.kind /\ a.bases = b.bases
      /\ GetMembers(a) = GetMembers(b) /\ <<s, c>> = <<t, d>>
  BY DEF UdtInfo
<1>2. s = t /\ c = d
  BY <1>1
<1>3. /\ [i \in DOMAIN a.members |-> InstanceMember(a, i)]
           = [i \in DOMAIN b.members |-> InstanceMember(b, i)]
      /\ [i \in DOMAIN a.statics |-> StaticMember(a.statics[i])]
           = [i \in DOMAIN b.statics |-> StaticMember(b.statics[i])]
  BY <1>1 DEF GetMembers
<1>4. Ms(a) = Ms(b)
  <2>1. DOMAIN a.members = DOMAIN b.members
    BY <1>3
  <2>2. ASSUME NEW i \in DOMAIN a.members
        PROVE  KnownMember(a.members[i]) = KnownMember(b.members[i])
    <3>1. InstanceMember(a, i) = InstanceMember(b, i)
      BY <1>3, <2>1
    <3>2. /\ a.members[i].name = b.members[i].name /\ a.members[i].attr = b.members[i].attr
          /\ TypeName(a.members[i].type) = TypeName(b.members[i].type)
      BY <3>1 DEF InstanceMember
    <3>3. Known(a.members[i].type) = Known(b.members[i].type)
      BY <3>2, TypeNameTells
    <3> QED  BY <3>2, <3>3 DEF KnownMember
  <2> QED  BY <2>1, <2>2
<1>5. Ss(a) = Ss(b)
  <2>1. DOMAIN a.statics = DOMAIN b.statics
    BY <1>3
  <2>2. ASSUME NEW i \in DOMAIN a.statics
        PROVE  KnownMember(a.statics[i]) = KnownMember(b.statics[i])
    <3>1. StaticMember(a.statics[i]) = StaticMember(b.statics[i])
      BY <1>3, <2>1
    <3>2. /\ a.statics[i].name = b.statics[i].name /\ a.statics[i].attr = b.statics[i].attr
          /\ TypeName(a.statics[i].type) = TypeName(b.statics[i].type)
      BY <3>1 DEF StaticMember
    <3>3. Known(a.statics[i].type) = Known(b.statics[i].type)
      BY <3>2, TypeNameTells
    <3> QED  BY <3>2, <3>3 DEF KnownMember
  <2> QED  BY <2>1, <2>2
<1>6. ASSUME NEW u, NEW m
      PROVE  KnownOf(u, m) = [kind |-> u.kind, bases |-> u.bases, members |-> Ms(u),
                              statics |-> Ss(u), methods |-> Arranged(m, Methods(m)),
                              ctors |-> Ctors(m)]
  BY DEF KnownOf
<1> HIDE DEF Ms, Ss
<1> QED  BY <1>1, <1>2, <1>4, <1>5, <1>6

-----------------------------------------------------------------------------
(* What has been loaded, and what is reported of it.                       *)

ClassEntry(tu, methods) ==
  [key |-> <<"class">>, tu |-> tu, info |-> UdtInfo(decl[tu], methods, Ctors(listed[tu]))]
UnnamedEntry(tu, t) ==
  [key |-> BuildUdtKey(t), tu |-> tu, info |-> UdtInfo(t, << >>, << >>)]
Loaded(tu) == \E entry \in udtMap : entry.tu = tu
Differ(e, f) == e.key = f.key /\ e.info # f.info

DeclInv ==
  /\ decl \in [TUs -> Declarations]
  /\ \A tu \in TUs : listed[tu] \in Listings(decl[tu].functions)

(* Every entry is one that a unit's declaration has, and a unit loaded has *)
(* left all of its.                                                        *)
MapInv ==
  /\ \A e \in udtMap : \E tu \in TUs :
       \/ \E s \in SortedCopies(listed[tu]) : e = ClassEntry(tu, s)
       \/ \E t \in UnnamedOf(tu) : e = UnnamedEntry(tu, t)
  /\ \A tu \in TUs : Loaded(tu) =>
       /\ \E s \in SortedCopies(listed[tu]) : ClassEntry(tu, s) \in udtMap
       /\ \A t \in UnnamedOf(tu) : UnnamedEntry(tu, t) \in udtMap

StageInv ==
  \/ stage = "load" /\ report = {}
  \/ /\ stage = "done" /\ \A tu \in TUs : Loaded(tu)
     /\ \A k : k \in report <=> \E e, f \in udtMap : e.key = k /\ Differ(e, f)

CompareInv == DeclInv /\ MapInv /\ StageInv

LEMMA CompareInvInit == CompareInit => CompareInv
<1> SUFFICES ASSUME CompareInit PROVE CompareInv
  OBVIOUS
<1>1. DeclInv
  <2>1. decl \in [TUs -> Classes] /\ \A tu \in TUs : listed[tu] \in Listings(decl[tu].functions)
    BY DEF CompareInit
  <2> QED  BY <2>1, ClassesAssumption DEF DeclInv, ClassesAssumption
<1>2. MapInv /\ StageInv
  BY DEF CompareInit, MapInv, StageInv, Loaded
<1> QED  BY <1>1, <1>2 DEF CompareInv

(* While the declarations stay, so do the entries they have.               *)
LEMMA DeclStays ==
  ASSUME UNCHANGED <<decl, listed>>
  PROVE  /\ DeclInv => DeclInv'
         /\ \A tu : UnnamedOf(tu)' = UnnamedOf(tu)
         /\ \A tu, s : ClassEntry(tu, s)' = ClassEntry(tu, s)
         /\ \A tu, t : UnnamedEntry(tu, t)' = UnnamedEntry(tu, t)
<1>1. decl' = decl /\ listed' = listed
  OBVIOUS
<1>2. DeclInv => DeclInv'
  BY <1>1 DEF DeclInv
<1>3. \A tu : UnnamedOf(tu)' = UnnamedOf(tu)
  BY <1>1 DEF UnnamedOf
<1>4. \A tu, s : ClassEntry(tu, s)' = ClassEntry(tu, s)
  BY <1>1 DEF ClassEntry
<1>5. \A tu, t : UnnamedEntry(tu, t)' = UnnamedEntry(tu, t)
  BY DEF UnnamedEntry
<1> QED  BY <1>2, <1>3, <1>4, <1>5

LEMMA LoadStep ==
  ASSUME CompareInv, NEW u \in TUs, Load(u)
  PROVE  CompareInv'
<1>1. stage = "load" /\ ~Loaded(u) /\ UNCHANGED <<decl, listed, stage, report>>
  BY DEF Load, Loaded
<1>2. PICK sorted \in SortedCopies(listed[u]) :
        udtMap' = udtMap \cup {ClassEntry(u, sorted)} \cup {UnnamedEntry(u, t) : t \in UnnamedOf(u)}
  BY DEF Load, ClassEntry, UnnamedEntry
<1>3. /\ UNCHANGED <<decl, listed>> /\ DeclInv'
      /\ \A tu : UnnamedOf(tu)' = UnnamedOf(tu)
      /\ \A tu, s : ClassEntry(tu, s)' = ClassEntry(tu, s)
      /\ \A tu, t : UnnamedEntry(tu, t)' = UnnamedEntry(tu, t)
  BY <1>1, DeclStays DEF CompareInv
<1>4. (\A s : ClassEntry(u, s).tu = u) /\ \A t : UnnamedEntry(u, t).tu = u
  BY DEF ClassEntry, UnnamedEntry
<1>5. ASSUME NEW e \in udtMap'
      PROVE  \E tu \in TUs :
               \/ \E s \in SortedCopies(listed[tu]) : e = ClassEntry(tu, s)
               \/ \E t \in UnnamedOf(tu) : e = UnnamedEntry(tu, t)
  <2>1. CASE e \in udtMap
    BY <2>1 DEF CompareInv, MapInv
  <2>2. CASE e = ClassEntry(u, sorted)
    BY <2>2
  <2>3. CASE e \in {UnnamedEntry(u, t) : t \in UnnamedOf(u)}
    BY <2>3
  <2> QED  BY <1>2, <1>5, <2>1, <2>2, <2>3
<1>6. ASSUME NEW tu \in TUs, \E e \in udtMap' : e.tu = tu
      PROVE  /\ \E s \in SortedCopies(listed[tu]) : ClassEntry(tu, s) \in udtMap'
             /\ \A t \in UnnamedOf(tu) : UnnamedEntry(tu, t) \in udtMap'
  <2>1. CASE tu = u
    BY <1>2, <2>1
  <2>2. CASE tu # u
    <3>1. Loaded(tu)
      BY <1>2, <1>4, <1>6, <2>2 DEF Loaded
    <3>2. /\ \E s \in SortedCopies(listed[tu]) : ClassEntry(tu, s) \in udtMap
          /\ \A t \in UnnamedOf(tu) : UnnamedEntry(tu, t) \in udtMap
      BY <3>1 DEF CompareInv, MapInv
    <3> QED  BY <1>2, <3>2
  <2> QED  BY <2>1, <2>2
<1>7. MapInv'
  BY <1>3, <1>5, <1>6 DEF MapInv, Loaded
<1>8. StageInv'
  BY <1>1 DEF CompareInv, StageInv
<1> QED  BY <1>3, <1>7, <1>8 DEF CompareInv

LEMMA ReportStep == CompareInv /\ ReportMapViolations => CompareInv'
<1> SUFFICES ASSUME CompareInv, ReportMapViolations PROVE CompareInv'
  OBVIOUS
<1>1. /\ stage' = "done" /\ UNCHANGED <<decl, listed>> /\ UNCHANGED udtMap
      /\ \A tu \in TUs : Loaded(tu)
      /\ report' = {entry.key : entry \in
                      {e \in udtMap : \E f \in udtMap : e.key = f.key /\ e.info # f.info}}
  BY DEF ReportMapViolations, Loaded
<1>2. /\ DeclInv'
      /\ \A tu : UnnamedOf(tu)' = UnnamedOf(tu)
      /\ \A tu, s : ClassEntry(tu, s)' = ClassEntry(tu, s)
      /\ \A tu, t : UnnamedEntry(tu, t)' = UnnamedEntry(tu, t)
  BY <1>1, DeclStays DEF CompareInv
<1>3. MapInv'
  BY <1>1, <1>2 DEF CompareInv, MapInv, Loaded
<1>4. StageInv'
  <2>1. \A k : k \in report' <=> \E e, f \in udtMap : e.key = k /\ Differ(e, f)
    BY <1>1 DEF Differ
  <2>2. \A tu \in TUs : Loaded(tu)'
    BY <1>1 DEF Loaded
  <2> QED  BY <1>1, <2>1, <2>2 DEF StageInv, Differ
<1> QED  BY <1>2, <1>3, <1>4 DEF CompareInv

LEMMA CompareInvStep == CompareInv /\ [CompareNext]_compareVars => CompareInv'
<1> SUFFICES ASSUME CompareInv, [CompareNext]_compareVars PROVE CompareInv'
  OBVIOUS
<1>1. CASE \E tu \in TUs : Load(tu)
  BY <1>1, LoadStep
<1>2. CASE ReportMapViolations
  BY <1>2, ReportStep
<1>3. CASE UNCHANGED compareVars
  <2>1. UNCHANGED <<decl, listed, udtMap, stage, report>> /\ UNCHANGED <<decl, listed>>
    BY <1>3 DEF compareVars
  <2>2. /\ DeclInv'
        /\ \A tu : UnnamedOf(tu)' = UnnamedOf(tu)
        /\ \A tu, s : ClassEntry(tu, s)' = ClassEntry(tu, s)
        /\ \A tu, t : UnnamedEntry(tu, t)' = UnnamedEntry(tu, t)
    BY <2>1, DeclStays DEF CompareInv
  <2>3. MapInv'
    BY <2>1, <2>2 DEF CompareInv, MapInv, Loaded
  <2>4. StageInv'
    BY <2>1 DEF CompareInv, StageInv, Loaded, Differ
  <2> QED  BY <2>2, <2>3, <2>4 DEF CompareInv
<1> QED  BY <1>1, <1>2, <1>3 DEF CompareNext, Compared

LEMMA CompareInvAlways == CompareSpec => []CompareInv
BY CompareInvInit, CompareInvStep, PTL DEF CompareSpec

-----------------------------------------------------------------------------

(* The functions listed are some of those declared, and finitely many.     *)
LEMMA ListedAre ==
  ASSUME DeclInv, NEW tu \in TUs
  PROVE  /\ Cardinality(Methods(listed[tu])) \in Nat
         /\ \A i \in Methods(listed[tu]) : listed[tu][i].name \in Nat
<1> DEFINE l == listed[tu]
           functions == decl[tu].functions
<1>1. functions \in Seq(Functions) /\ l \in Listings(functions)
  <2>1. decl[tu] \in Declarations /\ l \in Listings(functions)
    BY DEF DeclInv
  <2> QED  BY <2>1 DEF Declarations
<1> HIDE DEF l, functions
<1>2. PICK I \in SUBSET DOMAIN functions : l \in Arranged(functions, I)
  BY <1>1 DEF Listings
<1>3. PICK o \in Bijection(1 .. Cardinality(I), I) :
        l = [k \in 1 .. Cardinality(I) |-> functions[o[k]]]
  BY <1>2, ArrangedAre
<1>4. Cardinality(I) \in Nat
  <2>1. DOMAIN functions = 1 .. Len(functions) /\ Len(functions) \in Nat
    BY <1>1
  <2>2. IsFiniteSet(DOMAIN functions)
    BY <2>1, Interval
  <2>3. IsFiniteSet(I)
    BY <2>2, FS_Subset
  <2> QED  BY <2>3, FS_CardinalityType
<1>5. DOMAIN l = 1 .. Cardinality(I) /\ Methods(l) \subseteq DOMAIN l
  BY <1>3 DEF Methods
<1>6. IsFiniteSet(DOMAIN l)
  BY <1>4, <1>5, Interval
<1>7. IsFiniteSet(Methods(l))
  BY <1>5, <1>6, FS_Subset
<1>8. Cardinality(Methods(l)) \in Nat
  BY <1>7, FS_CardinalityType
<1>9. ASSUME NEW i \in Methods(l) PROVE l[i].name \in Nat
  <2>1. i \in 1 .. Cardinality(I) /\ l[i] = functions[o[i]]
    BY <1>3, <1>5
  <2>2. o[i] \in DOMAIN functions
    <3>1. o \in [1 .. Cardinality(I) -> I]
      BY BijectionIs
    <3> QED  BY <1>2, <2>1, <3>1
  <2>3. functions[o[i]] \in Functions
    BY <1>1, <2>2
  <2> QED  BY <2>1, <2>3 DEF Functions
<1> QED  BY <1>8, <1>9 DEF l

LEMMA SortedAre ==
  ASSUME NEW l, NEW s \in SortedCopies(l)
  PROVE  s \in Arranged(l, Methods(l)) /\ InOrder(s)
BY DEF SortedCopies, InOrder

(* Of two entries of one key only those of the class can differ when all   *)
(* units have one declaration and list the same methods, and they do so    *)
(* exactly when the constructors listed differ.                            *)
THEOREM SameIsNotReportedAlways == CompareSpec => []SameIsNotReported
<1>1. CompareInv => SameIsNotReported
  <2> DEFINE same == \A tu, other \in TUs : Ctors(listed[tu]) = Ctors(listed[other])
  <2> SUFFICES ASSUME CompareInv, OneDeclaration
               PROVE  IF same THEN report = {} ELSE stage = "done" => report = {<<"class">>}
    BY DEF SameIsNotReported
  <2>1. ASSUME NEW e \in udtMap, NEW f \in udtMap, e.key = f.key
        PROVE  e.info = f.info \/ (e.key = <<"class">> /\ ~same)
    <3>1. PICK tu \in TUs : \/ \E s \in SortedCopies(listed[tu]) : e = ClassEntry(tu, s)
                            \/ \E t \in UnnamedOf(tu) : e = UnnamedEntry(tu, t)
      BY DEF CompareInv, MapInv
    <3>2. PICK other \in TUs : \/ \E s \in SortedCopies(listed[other]) : f = ClassEntry(other, s)
                               \/ \E t \in UnnamedOf(other) : f = UnnamedEntry(other, t)
      BY DEF CompareInv, MapInv
    <3>3. decl[tu] = decl[other] /\ UnnamedOf(tu) = UnnamedOf(other) /\ DeclInv
      BY DEF UnnamedOf, CompareInv, OneDeclaration
    <3>4. \A x, y, s, t : ClassEntry(x, s).key # UnnamedEntry(y, t).key
      BY DEF ClassEntry, UnnamedEntry, BuildUdtKey
    <3>5. CASE \E s \in SortedCopies(listed[tu]) : \E t \in SortedCopies(listed[other]) :
                 e = ClassEntry(tu, s) /\ f = ClassEntry(other, t)
      <4>1. PICK s \in SortedCopies(listed[tu]), t \in SortedCopies(listed[other]) :
              e = ClassEntry(tu, s) /\ f = ClassEntry(other, t)
        BY <3>5
      <4> DEFINE l == listed[tu]
      <4>2. /\ s \in Arranged(l, Methods(l)) /\ t \in Arranged(l, Methods(l))
            /\ InOrder(s) /\ InOrder(t)
        <5>1. Arranged(l, Methods(l)) = Arranged(listed[other], Methods(listed[other]))
          BY DEF OneDeclaration
        <5> QED  BY <5>1, SortedAre
      <4>3. /\ Cardinality(Methods(l)) \in Nat /\ \A i \in Methods(l) : l[i].name \in Nat
            /\ \A i, j \in Methods(l) : l[i].name = l[j].name => l[i] = l[j]
        BY <3>3, ListedAre DEF OneDeclaration, NamesTell
      <4> HIDE DEF l
      <4>4. s = t
        BY <4>2, <4>3, SortedIsUnique
      <4>5. same => Ctors(listed[tu]) = Ctors(listed[other])
        OBVIOUS
      <4>6. e.key = <<"class">>
        BY <4>1 DEF ClassEntry
      <4> HIDE DEF same
      <4>7. same => e.info = f.info
        BY <3>3, <4>1, <4>4, <4>5 DEF ClassEntry
      <4> QED  BY <4>6, <4>7
    <3>6. CASE \E t, u \in UnnamedOf(tu) : e = UnnamedEntry(tu, t) /\ f = UnnamedEntry(other, u)
      <4>1. PICK t \in UnnamedOf(tu), u \in UnnamedOf(tu) :
              e = UnnamedEntry(tu, t) /\ f = UnnamedEntry(other, u)
        BY <3>6
      <4>2. BuildUdtKey(t) = BuildUdtKey(u)
        BY <2>1, <4>1 DEF UnnamedEntry
      <4>3. t = u
        BY <4>2 DEF OneDeclaration, KeysTell
      <4> QED  BY <4>1, <4>3 DEF UnnamedEntry
    <3> QED  BY <2>1, <3>1, <3>2, <3>3, <3>4, <3>5, <3>6
  <2>2. \A k \in report : k = <<"class">> /\ ~same
    <3> HIDE DEF same
    <3> QED  BY <2>1 DEF CompareInv, StageInv, Differ
  <2>3. ASSUME ~same, stage = "done" PROVE <<"class">> \in report
    <3>1. PICK tu \in TUs, other \in TUs : Ctors(listed[tu]) # Ctors(listed[other])
      BY <2>3
    <3>2. /\ Loaded(tu) /\ Loaded(other)
          /\ \A k : k \in report <=> \E e, f \in udtMap : e.key = k /\ Differ(e, f)
      BY <2>3 DEF CompareInv, StageInv
    <3>3. /\ \E s \in SortedCopies(listed[tu]) : ClassEntry(tu, s) \in udtMap
          /\ \E s \in SortedCopies(listed[other]) : ClassEntry(other, s) \in udtMap
      BY <3>2 DEF CompareInv, MapInv
    <3>4. PICK s \in SortedCopies(listed[tu]), t \in SortedCopies(listed[other]) :
            ClassEntry(tu, s) \in udtMap /\ ClassEntry(other, t) \in udtMap
      BY <3>3
    <3>5. UdtInfo(decl[tu], s, Ctors(listed[tu])) # UdtInfo(decl[other], t, Ctors(listed[other]))
      BY <3>1 DEF UdtInfo
    <3>6. Differ(ClassEntry(tu, s), ClassEntry(other, t)) /\ ClassEntry(tu, s).key = <<"class">>
      BY <3>5 DEF Differ, ClassEntry
    <3> QED  BY <3>2, <3>4, <3>6
  <2> HIDE DEF same
  <2> QED  BY <2>2, <2>3
<1> QED  BY <1>1, CompareInvAlways, PTL

(* The entries of two declarations that differ in what is known differ.    *)
THEOREM DifferencesAreReportedAlways == CompareSpec => []DifferencesAreReported
<1>1. CompareInv => DifferencesAreReported
  <2> SUFFICES ASSUME CompareInv, stage = "done", NEW tu \in TUs, NEW other \in TUs
               PROVE  /\ KnownOf(decl[tu], listed[tu]) # KnownOf(decl[other], listed[other])
                           => <<"class">> \in report
                      /\ \A t \in UnnamedOf(tu), u \in UnnamedOf(other) :
                           KnownOf(t, << >>) # KnownOf(u, << >>) /\ BuildUdtKey(t) = BuildUdtKey(u)
                             => BuildUdtKey(t) \in report
    BY DEF DifferencesAreReported
  <2>1. /\ Loaded(tu) /\ Loaded(other)
        /\ \A k : k \in report <=> \E e, f \in udtMap : e.key = k /\ Differ(e, f)
    BY DEF CompareInv, StageInv
  <2>2. /\ \E s \in SortedCopies(listed[tu]) : ClassEntry(tu, s) \in udtMap
        /\ \E s \in SortedCopies(listed[other]) : ClassEntry(other, s) \in udtMap
        /\ \A t \in UnnamedOf(tu) : UnnamedEntry(tu, t) \in udtMap
        /\ \A t \in UnnamedOf(other) : UnnamedEntry(other, t) \in udtMap
    BY <2>1 DEF CompareInv, MapInv
  <2>3. ASSUME KnownOf(decl[tu], listed[tu]) # KnownOf(decl[other], listed[other])
        PROVE  <<"class">> \in report
    <3>1. PICK s \in SortedCopies(listed[tu]) : ClassEntry(tu, s) \in udtMap
      BY <2>2
    <3>2. PICK t \in SortedCopies(listed[other]) : ClassEntry(other, t) \in udtMap
      BY <2>2
    <3> DEFINE l == listed[tu]
               k == listed[other]
    <3>3. s \in Arranged(l, Methods(l)) /\ t \in Arranged(k, Methods(k))
      BY SortedAre
    <3>4. s = t => Arranged(l, Methods(l)) = Arranged(k, Methods(k))
      <4> SUFFICES ASSUME s = t PROVE Arranged(l, Methods(l)) = Arranged(k, Methods(k))
        OBVIOUS
      <4> HIDE DEF l, k
      <4>1. Arranged(l, Methods(l)) \subseteq Arranged(k, Methods(k))
        BY <3>3, ArrangedMeet
      <4>2. Arranged(k, Methods(k)) \subseteq Arranged(l, Methods(l))
        BY <3>3, ArrangedMeet
      <4> QED  BY <4>1, <4>2
    <3>5. UdtInfo(decl[tu], s, Ctors(l)) # UdtInfo(decl[other], t, Ctors(k))
      BY <2>3, <3>4, InfoTells
    <3>6. Differ(ClassEntry(tu, s), ClassEntry(other, t)) /\ ClassEntry(tu, s).key = <<"class">>
      BY <3>5 DEF Differ, ClassEntry
    <3> QED  BY <2>1, <3>1, <3>2, <3>6
  <2>4. ASSUME NEW t \in UnnamedOf(tu), NEW u \in UnnamedOf(other),
               KnownOf(t, << >>) # KnownOf(u, << >>), BuildUdtKey(t) = BuildUdtKey(u)
        PROVE  BuildUdtKey(t) \in report
    <3>1. UdtInfo(t, << >>, << >>) # UdtInfo(u, << >>, << >>)
      BY <2>4, InfoTells
    <3>2. /\ Differ(UnnamedEntry(tu, t), UnnamedEntry(other, u))
          /\ UnnamedEntry(tu, t).key = BuildUdtKey(t)
      BY <2>4, <3>1 DEF Differ, UnnamedEntry
    <3> QED  BY <2>1, <2>2, <3>2
  <2> QED  BY <2>3, <2>4
<1> QED  BY <1>1, CompareInvAlways, PTL

-----------------------------------------------------------------------------
(* The reading of nested classes.                                          *)

(* Does a part make the constructor call that of the definition of v? *)
Calling(part, v) ==
  /\ part.type = v /\ v \in anonymous
  /\ part.forwarder => part.as # "base" /\ part.found

Read == {u \in Udts : [type |-> u, complete |-> TRUE] \in infos}

Frames == [type : Udts, complete : BOOLEAN, left : Seq(Parts)]

TypesOK ==
  /\ anonymous \subseteq Udts
  /\ parts \in [Udts -> Seq(Parts)]
  /\ stack \in Seq(Frames)
  /\ infos \subseteq [type : Udts, complete : BOOLEAN]
  /\ overflow \in BOOLEAN

LEMMA BoundedIsSeq ==
  ASSUME NEW S, NEW n \in Nat, NEW s \in BoundedSeq(S, n)
  PROVE  s \in Seq(S)
BY DEF BoundedSeq, SeqOf

LEMMA TypesInit == Init => TypesOK
<1> SUFFICES ASSUME Init PROVE TypesOK
  OBVIOUS
<1>1. parts \in [Udts -> Seq(Parts)]
  <2>1. \A u \in Udts : parts[u] \in BoundedSeq(Parts, MaxParts)
    BY DEF Init
  <2>2. \A u \in Udts : parts[u] \in Seq(Parts)
    BY <2>1, BoundedIsSeq, BoundsAssumption DEF BoundsAssumption
  <2> QED  BY <2>2 DEF Init
<1>2. PICK u \in Udts : stack = <<Frame(u, TRUE)>>
  BY DEF Init
<1>3. Frame(u, TRUE) \in Frames
  BY <1>1 DEF Frame, Frames
<1>4. stack \in Seq(Frames)
  <2>1. \A f \in Frames : <<f>> \in Seq(Frames)
    OBVIOUS
  <2> QED  BY <1>2, <1>3, <2>1
<1>5. anonymous \subseteq Udts /\ infos = {} /\ overflow = FALSE
  BY DEF Init
<1> QED  BY <1>1, <1>4, <1>5 DEF TypesOK

(* What a step finds on top of the stack. *)
LEMMA TopFacts ==
  ASSUME TypesOK, Running
  PROVE  /\ Len(stack) \in Nat \ {0} /\ DOMAIN stack = 1 .. Len(stack)
         /\ \A k \in 1 .. Len(stack) : stack[k] \in Frames
         /\ Top = stack[Len(stack)] /\ Top \in Frames
         /\ Top.left # << >> =>
              /\ Part \in Parts /\ Tail(Top.left) \in Seq(Parts)
              /\ \A i \in DOMAIN Top.left :
                   i = 1 \/ (i - 1 \in DOMAIN Tail(Top.left) /\ Tail(Top.left)[i - 1] = Top.left[i])
              /\ Top.left[1] = Part
              /\ Rest \in Seq(Frames) /\ Len(Rest) = Len(stack) /\ DOMAIN Rest = DOMAIN stack
              /\ \A k \in 1 .. Len(stack) - 1 : Rest[k] = stack[k]
              /\ Rest[Len(stack)].left = Tail(Top.left)
              /\ \A k \in 1 .. Len(stack) :
                   Rest[k].type = stack[k].type /\ Rest[k].complete = stack[k].complete
<1>1. Len(stack) \in Nat \ {0} /\ DOMAIN stack = 1 .. Len(stack)
      /\ \A k \in 1 .. Len(stack) : stack[k] \in Frames
  BY DEF TypesOK, Running
<1>2. Top = stack[Len(stack)] /\ Top \in Frames
  BY <1>1 DEF Top, Last
<1>3. Top.left \in Seq(Parts)
  BY <1>2 DEF Frames
<1>4. ASSUME Top.left # << >>
      PROVE  /\ Part \in Parts /\ Tail(Top.left) \in Seq(Parts)
             /\ \A i \in DOMAIN Top.left :
                  i = 1 \/ (i - 1 \in DOMAIN Tail(Top.left) /\ Tail(Top.left)[i - 1] = Top.left[i])
             /\ Top.left[1] = Part
  BY <1>3, <1>4 DEF Part
<1>5. ASSUME Top.left # << >>
      PROVE  /\ Rest \in Seq(Frames) /\ Len(Rest) = Len(stack) /\ DOMAIN Rest = DOMAIN stack
             /\ \A k \in 1 .. Len(stack) - 1 : Rest[k] = stack[k]
             /\ Rest[Len(stack)].left = Tail(Top.left)
             /\ \A k \in 1 .. Len(stack) :
                  Rest[k].type = stack[k].type /\ Rest[k].complete = stack[k].complete
  <2> DEFINE new == [stack[Len(stack)] EXCEPT !.left = Tail(@)]
  <2>1. new \in Frames /\ new.left = Tail(Top.left)
        /\ new.type = Top.type /\ new.complete = Top.complete
    BY <1>2, <1>4, <1>5 DEF Frames
  <2>2. Rest = [stack EXCEPT ![Len(stack)] = new]
    BY DEF Rest
  <2> HIDE DEF new
  <2> QED  BY <1>1, <1>2, <2>1, <2>2 DEF TypesOK
<1> QED  BY <1>1, <1>2, <1>4, <1>5

LEMMA FrameType ==
  ASSUME TypesOK, NEW u \in Udts, NEW c \in BOOLEAN
  PROVE  /\ Frame(u, c) \in Frames
         /\ Frame(u, c).type = u /\ Frame(u, c).complete = c
         /\ Frame(u, TRUE).left = parts[u] /\ Frame(u, FALSE).left = << >>
BY DEF TypesOK, Frame, Frames

(* After a constructor has called another. *)
LEMMA Constructed ==
  ASSUME TypesOK, Running, Top.left # << >>, NEW u \in Udts, NEW c \in BOOLEAN,
         Construct(u, c)
  PROVE  \/ overflow' /\ stack' = stack /\ Len(stack) >= MaxDepth
         \/ /\ overflow' = overflow
            /\ stack' \in Seq(Frames)
            /\ Len(stack') = Len(stack) + 1
            /\ DOMAIN stack' = 1 .. Len(stack) + 1
            /\ \A k \in 1 .. Len(stack) : stack'[k] = Rest[k]
            /\ stack'[Len(stack) + 1] = Frame(u, c)
<1>1. CASE Len(stack) < MaxDepth
  <2> DEFINE rest == Rest  frame == Frame(u, c)
  <2>1. stack' = Append(rest, frame) /\ overflow' = overflow
    BY <1>1 DEF Construct
  <2>2. rest \in Seq(Frames) /\ Len(rest) = Len(stack) /\ Len(stack) \in Nat
    BY TopFacts
  <2>3. frame \in Frames
    BY FrameType
  <2> HIDE DEF rest, frame
  <2>4. /\ stack' \in Seq(Frames) /\ Len(stack') = Len(stack) + 1
        /\ DOMAIN stack' = 1 .. Len(stack) + 1
        /\ \A k \in 1 .. Len(stack) : stack'[k] = rest[k]
        /\ stack'[Len(stack) + 1] = frame
    BY <2>1, <2>2, <2>3
  <2> QED  BY <2>1, <2>4 DEF rest, frame
<1>2. CASE ~(Len(stack) < MaxDepth)
  <2>1. Len(stack) \in Nat /\ MaxDepth \in Nat
    BY TopFacts, BoundsAssumption DEF BoundsAssumption
  <2>2. overflow' /\ stack' = stack
    BY <1>2 DEF Construct
  <2>3. Len(stack) >= MaxDepth
    BY <1>2, <2>1
  <2> QED  BY <2>2, <2>3, Zenon
<1> QED  BY <1>1, <1>2

LEMMA TypesStep == TypesOK /\ [Next]_vars => TypesOK'
<1> SUFFICES ASSUME TypesOK, [Next]_vars PROVE TypesOK'
  OBVIOUS
<1>1. CASE ResolveMember \/ ResolveBase
  <2>1. /\ Running /\ Top.left # << >>
        /\ \E c \in BOOLEAN : Construct(Part.type, c)
        /\ UNCHANGED <<anonymous, parts, infos>>
    <3>1. Running /\ Top.left # << >>
      BY <1>1 DEF ResolveMember, ResolveBase
    <3>2. Part.forwarder \in BOOLEAN
      BY <3>1, TopFacts DEF Parts
    <3> QED  BY <1>1, <3>1, <3>2 DEF ResolveMember, ResolveBase
  <2>2. Part.type \in Udts
    BY <2>1, TopFacts DEF Parts
  <2>3. stack' \in Seq(Frames) /\ overflow' \in BOOLEAN
    BY <2>1, <2>2, Constructed DEF TypesOK
  <2> QED  BY <2>1, <2>3 DEF TypesOK
<1>2. CASE NoNested
  <2>1. Rest \in Seq(Frames)
    BY <1>2, TopFacts DEF NoNested
  <2> QED  BY <1>2, <2>1 DEF NoNested, TypesOK
<1>3. CASE Return
  <2>1. Front(stack) \in Seq(Frames)
    BY <1>3, TopFacts DEF Return, Front, TypesOK
  <2>2. [type |-> Top.type, complete |-> Top.complete] \in [type : Udts, complete : BOOLEAN]
    BY <1>3, TopFacts DEF Return, Frames
  <2> QED  BY <1>3, <2>1, <2>2 DEF Return, TypesOK
<1>4. CASE UNCHANGED vars
  BY <1>4 DEF vars, TypesOK
<1> QED  BY <1>1, <1>2, <1>3, <1>4 DEF Next, Finished

LEMMA TypesAlways == Spec => []TypesOK
<1> QED  BY TypesInit, TypesStep, PTL DEF Spec

-----------------------------------------------------------------------------
(* What is called from the constructor at depth d has been read, is still  *)
(* to be looked at, or is under way right above it.                        *)
SeenTo(d, v) ==
  \/ v \in Read
  \/ \E i \in DOMAIN stack[d].left : Calling(stack[d].left[i], v)
  \/ d < Len(stack) /\ stack[d + 1].complete /\ stack[d + 1].type = v

FramesInv ==
  /\ \A d \in DOMAIN stack :
       /\ stack[d].complete => \A v \in Udts : Calls(stack[d].type, v) => SeenTo(d, v)
       /\ ~stack[d].complete => stack[d].left = << >>
  /\ \A u \in Read, v \in Udts : Calls(u, v) => v \in Read

ClosedInv == TypesOK /\ FramesInv

LEMMA CallsPart ==
  \A u, v : Calls(u, v) <=> \E i \in DOMAIN parts[u] : Calling(parts[u][i], v)
BY DEF Calls, Calling

LEMMA SameParts ==
  ASSUME UNCHANGED <<anonymous, parts>>
  PROVE  /\ \A u, v : Calls(u, v)' <=> Calls(u, v)
         /\ \A part, v : Calling(part, v)' <=> Calling(part, v)
BY DEF Calls, Calling

LEMMA ClosedInit == Init => ClosedInv
<1> SUFFICES ASSUME Init PROVE FramesInv
  BY TypesInit DEF ClosedInv
<1>1. PICK u \in Udts : stack = <<Frame(u, TRUE)>>
  BY DEF Init
<1>2. TypesOK /\ Read = {}
  BY TypesInit DEF Init, Read
<1>3. /\ DOMAIN stack = {1} /\ stack[1].complete
      /\ stack[1].type = u /\ stack[1].left = parts[u]
  <2>1. \A f : DOMAIN <<f>> = {1} /\ <<f>>[1] = f
    OBVIOUS
  <2>2. DOMAIN stack = {1} /\ stack[1] = Frame(u, TRUE)
    BY <1>1, <2>1
  <2> QED  BY <1>2, <2>2, FrameType
<1>4. \A v \in Udts : Calls(u, v) => SeenTo(1, v)
  BY <1>3, CallsPart DEF SeenTo
<1> QED  BY <1>2, <1>3, <1>4 DEF FramesInv

(* A constructor that calls the next: the part on top is looked at.        *)
LEMMA ClosedConstruct ==
  ASSUME ClosedInv, Running, Top.left # << >>, NEW u \in Udts, NEW c \in BOOLEAN,
         Construct(u, c), UNCHANGED <<anonymous, parts, infos>>,
         \A v \in Udts : Calling(Part, v) => v = u /\ c
  PROVE  FramesInv'
<1>1. TypesOK /\ FramesInv
  BY DEF ClosedInv
<1>2. Read' = Read
  BY DEF Read
<1>3. CASE stack' = stack
  BY <1>1, <1>2, <1>3, SameParts DEF FramesInv, SeenTo
<1>4. CASE /\ Len(stack') = Len(stack) + 1
           /\ DOMAIN stack' = 1 .. Len(stack) + 1
           /\ \A k \in 1 .. Len(stack) : stack'[k] = Rest[k]
           /\ stack'[Len(stack) + 1] = Frame(u, c)
  <2>n. PICK n \in Nat \ {0} : n = Len(stack)
    BY <1>1, TopFacts
  <2>1. n = Len(stack) /\ DOMAIN stack = 1 .. n
    BY <1>1, <2>n, TopFacts
  <2>2. \A k \in 1 .. n - 1 : stack'[k] = stack[k]
    BY <1>1, <1>4, <2>1, TopFacts
  <2>3. /\ stack'[n].type = stack[n].type /\ stack'[n].complete = stack[n].complete
        /\ stack'[n].left = Tail(stack[n].left)
    BY <1>1, <1>4, <2>1, TopFacts
  <2>4. Top = stack[n] /\ stack[n].complete
    BY <1>1, <2>1, TopFacts DEF FramesInv
  <2>5. /\ stack'[n + 1].type = u
        /\ c = TRUE => stack'[n + 1].complete /\ stack'[n + 1].left = parts[u]
        /\ c = FALSE => ~stack'[n + 1].complete /\ stack'[n + 1].left = << >>
    <3>1. stack'[n + 1] = Frame(u, c)
      BY <1>4, <2>1
    <3>2. CASE c = TRUE
      BY <1>1, <3>1, <3>2, FrameType
    <3>3. CASE c = FALSE
      BY <1>1, <3>1, <3>3, FrameType
    <3> QED  BY <3>2, <3>3
  <2>6. ASSUME NEW v \in Udts, Calls(stack[n].type, v)
        PROVE  SeenTo(n, v)'
    <3>1. \/ v \in Read
          \/ \E i \in DOMAIN stack[n].left : Calling(stack[n].left[i], v)
      BY <1>1, <2>1, <2>4, <2>6 DEF FramesInv, SeenTo
    <3>2. CASE v \in Read
      BY <1>2, <3>2 DEF SeenTo
    <3>3. CASE Calling(Part, v)
      <4>1. v = u /\ c = TRUE
        BY <3>3
      <4>2. n < Len(stack') /\ stack'[n + 1].complete /\ stack'[n + 1].type = v
        <5>1. stack'[n + 1].complete
          BY <2>5, <4>1
        <5> QED  BY <1>4, <2>1, <2>5, <4>1, <5>1
      <4> QED  BY <4>2 DEF SeenTo
    <3>4. ASSUME NEW i \in DOMAIN stack[n].left, Calling(stack[n].left[i], v), ~Calling(Part, v)
          PROVE  SeenTo(n, v)'
      <4>1. i - 1 \in DOMAIN Tail(stack[n].left) /\ Tail(stack[n].left)[i - 1] = stack[n].left[i]
        BY <1>1, <2>1, <2>4, <3>4, TopFacts
      <4>2. Calling(stack'[n].left[i - 1], v)
        BY <2>3, <3>4, <4>1
      <4> QED  BY <2>3, <4>1, <4>2 DEF SeenTo, Calling
    <3> QED  BY <3>1, <3>2, <3>3, <3>4
  <2>7. ASSUME NEW d \in 1 .. n + 1, stack'[d].complete, NEW v \in Udts, Calls(stack'[d].type, v)
        PROVE  SeenTo(d, v)'
    <3>1. CASE d = n + 1
      <4>1. Calls(u, v) /\ stack'[d].left = parts[u]
        BY <2>5, <2>7, <3>1
      <4>2. PICK i \in DOMAIN stack'[d].left : Calling(stack'[d].left[i], v)
        BY <4>1, CallsPart
      <4> QED  BY <4>2 DEF SeenTo, Calling
    <3>2. CASE d = n
      BY <2>3, <2>6, <2>7, <3>2
    <3>3. CASE d < n
      <4>1. d \in 1 .. n - 1 /\ d + 1 \in 1 .. n
        BY <2>1, <3>3
      <4>2. stack'[d] = stack[d] /\ Calls(stack[d].type, v) /\ stack[d].complete
        BY <2>2, <2>7, <4>1
      <4>3. SeenTo(d, v)
        BY <1>1, <2>1, <4>1, <4>2 DEF FramesInv
      <4>4. stack'[d + 1].type = stack[d + 1].type /\ stack'[d + 1].complete = stack[d + 1].complete
        BY <1>1, <1>4, <2>1, <4>1, TopFacts
      <4> QED  BY <1>2, <1>4, <2>1, <3>3, <4>2, <4>3, <4>4 DEF SeenTo, Calling
    <3> QED  BY <2>1, <3>1, <3>2, <3>3
  <2>8. ASSUME NEW d \in 1 .. n + 1, ~stack'[d].complete
        PROVE  stack'[d].left = << >>
    <3>1. CASE d = n + 1
      BY <2>5, <2>8, <3>1
    <3>2. CASE d = n
      BY <2>3, <2>4, <2>8, <3>2
    <3>3. CASE d < n
      BY <1>1, <2>1, <2>2, <2>8, <3>3 DEF FramesInv
    <3> QED  BY <2>1, <3>1, <3>2, <3>3
  <2>9. \A w \in Read', v \in Udts : Calls(w, v)' => v \in Read'
    BY <1>1, <1>2, SameParts DEF FramesInv
  <2>10. \A d \in 1 .. n + 1 : stack'[d].complete =>
           \A v \in Udts : Calls(stack[d].type, v)' => SeenTo(d, v)'
    BY <2>7 DEF Calls
  <2>11. (DOMAIN stack)' = 1 .. n + 1
    BY <1>4, <2>1
  <2> QED  BY <2>8, <2>9, <2>10, <2>11 DEF FramesInv
<1> QED  BY <1>1, <1>3, <1>4, Constructed

(* What the two kinds of call have in common.                              *)
LEMMA Resolved ==
  ASSUME TypesOK, ResolveMember \/ ResolveBase
  PROVE  /\ Running /\ Top.left # << >> /\ UNCHANGED <<anonymous, parts, infos>>
         /\ \E c \in BOOLEAN :
              /\ Construct(Part.type, c)
              /\ \A v \in Udts : Calling(Part, v) => v = Part.type /\ c
              /\ c => Calling(Part, Part.type)
<1>1. Running /\ Top.left # << >> /\ UNCHANGED <<anonymous, parts, infos>>
  BY DEF ResolveMember, ResolveBase
<1>2. Part \in Parts
  BY <1>1, TopFacts
<1>3. CASE ResolveMember
  <2>1. Construct(Part.type, TRUE) /\ Calling(Part, Part.type)
    BY <1>3 DEF ResolveMember, Calling
  <2>2. \A v \in Udts : Calling(Part, v) => v = Part.type
    BY DEF Calling
  <2> QED  BY <1>1, <2>1, <2>2
<1>4. CASE ResolveBase /\ Part.forwarder
  <2>1. Construct(Part.type, FALSE)
    <3>1. ~Part.forwarder = FALSE
      BY <1>2, <1>4 DEF Parts
    <3> QED  BY <1>4, <3>1 DEF ResolveBase
  <2>2. \A v \in Udts : ~Calling(Part, v)
    BY <1>4 DEF Calling, ResolveBase
  <2> QED  BY <1>1, <2>1, <2>2
<1>5. CASE ResolveBase /\ ~Part.forwarder
  <2>1. Construct(Part.type, TRUE)
    <3>1. ~Part.forwarder = TRUE
      BY <1>2, <1>5 DEF Parts
    <3> QED  BY <1>5, <3>1 DEF ResolveBase
  <2>2. Calling(Part, Part.type)
    BY <1>5 DEF Calling, ResolveBase
  <2>3. \A v \in Udts : Calling(Part, v) => v = Part.type
    BY DEF Calling
  <2> QED  BY <1>1, <2>1, <2>2, <2>3
<1> QED  BY <1>3, <1>4, <1>5

LEMMA ClosedNoNested == ClosedInv /\ NoNested => FramesInv'
<1> SUFFICES ASSUME ClosedInv, NoNested PROVE FramesInv'
  OBVIOUS
<1>1. /\ TypesOK /\ FramesInv /\ Running /\ Top.left # << >> /\ stack' = Rest
      /\ UNCHANGED <<anonymous, parts, infos>>
  BY DEF ClosedInv, NoNested
<1>2. Read' = Read
  BY <1>1 DEF Read
<1>3. PICK n \in Nat \ {0} : n = Len(stack)
  BY <1>1, TopFacts
<1>4. /\ DOMAIN stack = 1 .. n /\ DOMAIN stack' = 1 .. n /\ Len(stack') = n
      /\ \A k \in 1 .. n - 1 : stack'[k] = stack[k]
      /\ stack'[n].left = Tail(stack[n].left) /\ Top = stack[n]
      /\ \A k \in 1 .. n : stack'[k].type = stack[k].type /\ stack'[k].complete = stack[k].complete
  BY <1>1, <1>3, TopFacts
<1>5. \A v \in Udts : ~Calling(Part, v)
  BY DEF NoNested, Calling
<1>6. ASSUME NEW d \in 1 .. n, stack[d].complete, NEW v \in Udts, Calls(stack[d].type, v)
      PROVE  SeenTo(d, v)'
  <2>1. SeenTo(d, v)
    BY <1>1, <1>4, <1>6 DEF FramesInv
  <2>2. CASE d < n
    <3>1. stack'[d] = stack[d] /\ d + 1 \in 1 .. n
      BY <1>4, <2>2
    <3> QED  BY <1>2, <1>3, <1>4, <2>1, <2>2, <3>1, <1>1 DEF SeenTo, Calling
  <2>3. ASSUME d = n, NEW i \in DOMAIN stack[n].left, Calling(stack[n].left[i], v)
        PROVE  SeenTo(d, v)'
    <3>1. i - 1 \in DOMAIN Tail(stack[n].left) /\ Tail(stack[n].left)[i - 1] = stack[n].left[i]
      BY <1>1, <1>4, <1>5, <2>3, TopFacts
    <3>2. Calling(stack'[d].left[i - 1], v) /\ i - 1 \in DOMAIN stack'[d].left
      BY <1>4, <2>3, <3>1
    <3> QED  BY <1>1, <3>2 DEF SeenTo, Calling
  <2>4. CASE v \in Read
    BY <1>2, <2>4 DEF SeenTo
  <2> QED  BY <1>3, <2>1, <2>2, <2>3, <2>4 DEF SeenTo
<1>7. \A d \in 1 .. n : stack'[d].complete =>
        \A v \in Udts : Calls(stack[d].type, v)' => SeenTo(d, v)'
  BY <1>1, <1>4, <1>6 DEF Calls
<1>8. \A d \in 1 .. n : ~stack'[d].complete => stack'[d].left = << >>
  <2>1. stack[n].complete
    BY <1>1, <1>4 DEF FramesInv
  <2> QED  BY <1>1, <1>4, <2>1 DEF FramesInv
<1>9. \A w \in Read', v \in Udts : Calls(w, v)' => v \in Read'
  BY <1>1, <1>2, SameParts DEF FramesInv
<1> QED  BY <1>4, <1>7, <1>8, <1>9 DEF FramesInv

LEMMA ClosedReturn == ClosedInv /\ Return => FramesInv'
<1> SUFFICES ASSUME ClosedInv, Return PROVE FramesInv'
  OBVIOUS
<1>1. /\ TypesOK /\ FramesInv /\ Running /\ Top.left = << >> /\ stack' = Front(stack)
      /\ infos' = infos \cup {[type |-> Top.type, complete |-> Top.complete]}
      /\ UNCHANGED <<anonymous, parts>>
  BY DEF ClosedInv, Return
<1>2. PICK n \in Nat \ {0} : n = Len(stack)
  BY <1>1, TopFacts
<1>3. /\ DOMAIN stack = 1 .. n /\ stack \in Seq(Frames) /\ Top = stack[n] /\ Top \in Frames
  BY <1>1, <1>2, TopFacts DEF TypesOK
<1>4. /\ DOMAIN stack' = 1 .. n - 1 /\ Len(stack') = n - 1
      /\ \A k \in 1 .. n - 1 : stack'[k] = stack[k]
  BY <1>1, <1>2, <1>3 DEF Front
<1>5. /\ Read \subseteq Read'
      /\ Top.complete => Read' = Read \cup {Top.type}
      /\ ~Top.complete => Read' = Read
  BY <1>1, <1>3 DEF Read, Frames
<1>6. Top.complete => \A v \in Udts : Calls(Top.type, v) => v \in Read
  BY <1>1, <1>2, <1>3 DEF FramesInv, SeenTo
<1>7. ASSUME NEW d \in 1 .. n - 1, stack[d].complete, NEW v \in Udts, Calls(stack[d].type, v)
      PROVE  SeenTo(d, v)'
  <2>1. SeenTo(d, v) /\ stack'[d] = stack[d]
    BY <1>1, <1>3, <1>4, <1>7 DEF FramesInv
  <2>2. CASE v \in Read
    BY <1>5, <2>2 DEF SeenTo
  <2>3. CASE \E i \in DOMAIN stack[d].left : Calling(stack[d].left[i], v)
    BY <1>1, <2>1, <2>3 DEF SeenTo, Calling
  <2>4. CASE stack[d + 1].complete /\ stack[d + 1].type = v
    <3>1. CASE d + 1 < n
      <4>1. stack'[d + 1] = stack[d + 1] /\ d < Len(stack')
        BY <1>4, <3>1
      <4> QED  BY <2>4, <4>1 DEF SeenTo
    <3>2. CASE d + 1 = n
      BY <1>3, <1>5, <2>4, <3>2 DEF SeenTo
    <3> QED  BY <3>1, <3>2
  <2> QED  BY <2>1, <2>2, <2>3, <2>4 DEF SeenTo
<1>8. \A d \in 1 .. n - 1 : stack'[d].complete =>
        \A v \in Udts : Calls(stack[d].type, v)' => SeenTo(d, v)'
  BY <1>1, <1>4, <1>7 DEF Calls
<1>9. \A d \in 1 .. n - 1 : ~stack'[d].complete => stack'[d].left = << >>
  BY <1>1, <1>3, <1>4 DEF FramesInv
<1>10. \A w \in Read', v \in Udts : Calls(w, v) => v \in Read'
  BY <1>1, <1>5, <1>6 DEF FramesInv
<1>11. \A w \in Read', v \in Udts : Calls(w, v)' => v \in Read'
  BY <1>1, <1>10 DEF Calls
<1> QED  BY <1>4, <1>8, <1>9, <1>11 DEF FramesInv

LEMMA ClosedStep == ClosedInv /\ [Next]_vars => ClosedInv'
<1> SUFFICES ASSUME ClosedInv, [Next]_vars PROVE FramesInv'
  BY TypesStep DEF ClosedInv
<1>1. CASE ResolveMember \/ ResolveBase
  <2>1. TypesOK
    BY DEF ClosedInv
  <2>2. Part.type \in Udts
    BY <1>1, <2>1, Resolved, TopFacts DEF Parts
  <2> QED  BY <1>1, <2>1, <2>2, Resolved, ClosedConstruct
<1>2. CASE NoNested
  BY <1>2, ClosedNoNested
<1>3. CASE Return
  BY <1>3, ClosedReturn
<1>4. CASE UNCHANGED vars
  BY <1>4 DEF ClosedInv, FramesInv, SeenTo, Calling, Calls, Read, vars
<1> QED  BY <1>1, <1>2, <1>3, <1>4 DEF Next, Finished

-----------------------------------------------------------------------------
(* Reached is the least of the closed sets.                                *)
Closed(s, u) ==
  /\ s \subseteq Udts
  /\ \A v \in Udts : Calls(u, v) => v \in s
  /\ \A v \in s, w \in Udts : Calls(v, w) => w \in s

LEMMA ReachedLeast ==
  ASSUME NEW u \in Udts, NEW s, Closed(s, u)
  PROVE  Reached(u) \subseteq s
BY DEF Reached, Closed

LEMMA ReachedOf ==
  ASSUME NEW u \in Udts, NEW v \in Udts, \A s \in SUBSET Udts : Closed(s, u) => v \in s
  PROVE  v \in Reached(u)
BY DEF Reached, Closed

LEMMA ReachedAreRead ==
  ASSUME ClosedInv, NEW u \in Read
  PROVE  Reached(u) \subseteq Read
<1>1. Closed(Read, u)
  BY DEF ClosedInv, FramesInv, Closed, Read
<1>2. u \in Udts
  BY DEF Read
<1> QED  BY <1>1, <1>2, ReachedLeast

(* Every anonymous class that the constructors come to is read from its    *)
(* definition, whatever order parts and classes come in.                   *)
THEOREM EveryReachedClassIsReadAlways == Spec => []EveryReachedClassIsRead
<1>1. ClosedInv => EveryReachedClassIsRead
  <2> SUFFICES ASSUME ClosedInv, NEW info \in infos, info.complete,
                      NEW v \in Reached(info.type)
               PROVE  [type |-> v, complete |-> TRUE] \in infos
    BY DEF EveryReachedClassIsRead
  <2>1. info.type \in Read
    <3>1. info \in [type : Udts, complete : BOOLEAN]
      BY DEF ClosedInv, TypesOK
    <3>2. info = [type |-> info.type, complete |-> TRUE]
      BY <3>1
    <3> QED  BY <3>1, <3>2 DEF Read
  <2> QED  BY <2>1, ReachedAreRead DEF Read
<1> QED  BY <1>1, ClosedInit, ClosedStep, PTL DEF Spec

-----------------------------------------------------------------------------
(* Only a constructor of a definition calls, what it calls is on top of it *)
(* and comes from one of its parts; and no class that was read comes to    *)
(* itself.                                                                 *)
PartsOf(d) ==
  \A i \in DOMAIN stack[d].left :
    \E j \in DOMAIN parts[stack[d].type] : parts[stack[d].type][j] = stack[d].left[i]

ChainInv ==
  /\ \A d \in DOMAIN stack : PartsOf(d)
  /\ \A d \in 1 .. Len(stack) - 1 :
       /\ stack[d].complete
       /\ stack[d + 1].complete => Calls(stack[d].type, stack[d + 1].type)
  /\ overflow => Len(stack) >= MaxDepth /\ stack[Len(stack)].complete

NoCycleRead == \A u \in Read : u \notin Reached(u)

CycleInv == ClosedInv /\ ChainInv /\ NoCycleRead

LEMMA SameReached ==
  UNCHANGED <<anonymous, parts>> => \A u : Reached(u)' = Reached(u)
BY DEF Reached, Calls

LEMMA CycleInit == Init => CycleInv
<1> SUFFICES ASSUME Init PROVE ChainInv /\ NoCycleRead
  BY ClosedInit DEF CycleInv
<1>1. PICK u \in Udts : stack = <<Frame(u, TRUE)>>
  BY DEF Init
<1>2. TypesOK /\ Read = {} /\ overflow = FALSE
  BY TypesInit DEF Init, Read
<1>3. /\ DOMAIN stack = {1} /\ Len(stack) = 1
      /\ stack[1].type = u /\ stack[1].left = parts[u]
  <2>1. \A f : DOMAIN <<f>> = {1} /\ Len(<<f>>) = 1 /\ <<f>>[1] = f
    OBVIOUS
  <2>2. DOMAIN stack = {1} /\ Len(stack) = 1 /\ stack[1] = Frame(u, TRUE)
    BY <1>1, <2>1
  <2> QED  BY <1>2, <2>2, FrameType
<1> QED  BY <1>2, <1>3 DEF ChainInv, PartsOf, NoCycleRead

LEMMA ChainResolve ==
  CycleInv /\ (ResolveMember \/ ResolveBase) => ChainInv' /\ NoCycleRead'
<1> SUFFICES ASSUME CycleInv, ResolveMember \/ ResolveBase
             PROVE  ChainInv' /\ NoCycleRead'
  OBVIOUS
<1>1. TypesOK /\ FramesInv /\ ChainInv /\ NoCycleRead
  BY DEF CycleInv, ClosedInv
<1>2. Running /\ Top.left # << >> /\ UNCHANGED <<anonymous, parts, infos>>
  BY <1>1, Resolved
<1>3. PICK c \in BOOLEAN :
        /\ Construct(Part.type, c)
        /\ c => Calling(Part, Part.type)
  BY <1>1, Resolved
<1>4. NoCycleRead'
  <2>1. Read' = Read
    BY <1>2 DEF Read
  <2> QED  BY <1>1, <1>2, <2>1, SameReached DEF NoCycleRead
<1>5. PICK u \in Udts : u = Part.type
  BY <1>1, <1>2, TopFacts DEF Parts
<1>6. PICK n \in Nat \ {0} : n = Len(stack)
  BY <1>1, <1>2, TopFacts
<1>7. /\ DOMAIN stack = 1 .. n /\ stack[n] = Top /\ Top.complete /\ ~overflow
      /\ Part = stack[n].left[1] /\ 1 \in DOMAIN stack[n].left
      /\ stack[n].type \in Udts
  <2>1. /\ DOMAIN stack = 1 .. n /\ stack[n] = Top /\ ~overflow /\ Top \in Frames
        /\ Part = stack[n].left[1]
    BY <1>1, <1>2, <1>6, TopFacts DEF Running
  <2>2. Top.complete
    BY <1>1, <1>2, <2>1 DEF FramesInv
  <2>3. 1 \in DOMAIN stack[n].left
    BY <1>2, <2>1 DEF Frames
  <2> QED  BY <2>1, <2>2, <2>3 DEF Frames
<1>8. c = TRUE => Calls(stack[n].type, u)
  <2>1. \E j \in DOMAIN parts[stack[n].type] : parts[stack[n].type][j] = Part
    BY <1>1, <1>7 DEF ChainInv, PartsOf
  <2> QED  BY <1>3, <1>5, <2>1, CallsPart
<1>9. CASE overflow' /\ stack' = stack /\ Len(stack) >= MaxDepth
  <2>1. ChainInv'
    BY <1>1, <1>2, <1>6, <1>7, <1>9 DEF ChainInv, PartsOf, Calls
  <2> QED  BY <1>4, <2>1
<1>10. CASE /\ overflow' = overflow
            /\ Len(stack') = Len(stack) + 1
            /\ DOMAIN stack' = 1 .. Len(stack) + 1
            /\ \A k \in 1 .. Len(stack) : stack'[k] = Rest[k]
            /\ stack'[Len(stack) + 1] = Frame(u, c)
  <2>1. /\ DOMAIN stack' = 1 .. n + 1 /\ Len(stack') = n + 1
        /\ \A k \in 1 .. n - 1 : stack'[k] = stack[k]
        /\ stack'[n].left = Tail(stack[n].left)
        /\ \A k \in 1 .. n : stack'[k].type = stack[k].type /\ stack'[k].complete = stack[k].complete
    BY <1>1, <1>2, <1>6, <1>7, <1>10, TopFacts
  <2>2. /\ stack'[n + 1].type = u
        /\ c = TRUE => stack'[n + 1].left = parts[u]
        /\ c = FALSE => ~stack'[n + 1].complete /\ stack'[n + 1].left = << >>
    <3>1. stack'[n + 1] = Frame(u, c)
      BY <1>6, <1>10
    <3>2. CASE c = TRUE
      BY <1>1, <3>1, <3>2, FrameType
    <3>3. CASE c = FALSE
      BY <1>1, <3>1, <3>3, FrameType
    <3> QED  BY <3>2, <3>3
  <2>3. ASSUME NEW d \in 1 .. n + 1, NEW i \in DOMAIN stack'[d].left
        PROVE  \E j \in DOMAIN parts[stack'[d].type] : parts[stack'[d].type][j] = stack'[d].left[i]
    <3>0. \A k \in 1 .. n : PartsOf(k)
      BY <1>1, <1>7 DEF ChainInv
    <3>1. CASE d < n
      <4>1. stack'[d] = stack[d] /\ d \in 1 .. n
        BY <2>1, <3>1
      <4> QED  BY <2>3, <3>0, <4>1 DEF PartsOf
    <3>2. CASE d = n
      <4>1. stack[n].left \in Seq(Parts) /\ stack[n].left # << >>
        BY <1>1, <1>2, <1>6, <1>7, TopFacts DEF Frames
      <4>2. \A s \in Seq(Parts) : s # << >> =>
              \A k \in DOMAIN Tail(s) : k + 1 \in DOMAIN s /\ Tail(s)[k] = s[k + 1]
        OBVIOUS
      <4>3. i \in DOMAIN Tail(stack[n].left) /\ stack'[d].left[i] = Tail(stack[n].left)[i]
        BY <2>1, <2>3, <3>2
      <4>4. i + 1 \in DOMAIN stack[n].left /\ stack'[d].left[i] = stack[n].left[i + 1]
        BY <4>1, <4>2, <4>3
      <4> QED  BY <2>1, <3>0, <3>2, <4>4 DEF PartsOf
    <3>3. CASE d = n + 1
      BY <2>2, <2>3, <3>3
    <3> QED  BY <3>1, <3>2, <3>3
  <2>4. ASSUME NEW d \in 1 .. n
        PROVE  /\ stack'[d].complete
               /\ stack'[d + 1].complete => Calls(stack'[d].type, stack'[d + 1].type)
    <3>1. CASE d < n
      <4>1. d \in 1 .. n - 1 /\ d + 1 \in 1 .. n
        BY <3>1
      <4> QED  BY <1>1, <1>6, <2>1, <4>1 DEF ChainInv
    <3>2. CASE d = n
      BY <1>7, <1>8, <2>1, <2>2, <3>2
    <3> QED  BY <3>1, <3>2
  <2>5. ~overflow'
    BY <1>7, <1>10
  <2>6. (\A d \in DOMAIN stack : PartsOf(d))'
    BY <1>2, <2>1, <2>3 DEF PartsOf
  <2>7. \A d \in 1 .. n : (stack[d].complete /\ (stack[d + 1].complete =>
                            Calls(stack[d].type, stack[d + 1].type)))'
    BY <1>2, <2>4 DEF Calls
  <2>8. ChainInv'
    BY <2>1, <2>5, <2>6, <2>7 DEF ChainInv
  <2> QED  BY <1>4, <2>8
<1> QED  BY <1>1, <1>2, <1>3, <1>4, <1>5, <1>9, <1>10, Constructed

LEMMA ChainNoNested == CycleInv /\ NoNested => ChainInv' /\ NoCycleRead'
<1> SUFFICES ASSUME CycleInv, NoNested PROVE ChainInv' /\ NoCycleRead'
  OBVIOUS
<1>1. /\ TypesOK /\ ChainInv /\ NoCycleRead /\ Running /\ Top.left # << >> /\ stack' = Rest
      /\ UNCHANGED <<anonymous, parts, infos, overflow>>
  BY DEF CycleInv, ClosedInv, NoNested
<1>2. NoCycleRead'
  <2>1. Read' = Read
    BY <1>1 DEF Read
  <2> QED  BY <1>1, <2>1, SameReached DEF NoCycleRead
<1>3. PICK n \in Nat \ {0} : n = Len(stack)
  BY <1>1, TopFacts
<1>4. /\ DOMAIN stack = 1 .. n /\ DOMAIN stack' = 1 .. n /\ Len(stack') = n
      /\ \A k \in 1 .. n - 1 : stack'[k] = stack[k]
      /\ stack'[n].left = Tail(stack[n].left) /\ Top = stack[n]
      /\ \A k \in 1 .. n : stack'[k].type = stack[k].type /\ stack'[k].complete = stack[k].complete
  BY <1>1, <1>3, TopFacts
<1>5. ~overflow'
  BY <1>1 DEF Running
<1>6. \A k \in 1 .. n : PartsOf(k)
  BY <1>1, <1>4 DEF ChainInv
<1>7. ASSUME NEW d \in 1 .. n, NEW i \in DOMAIN stack'[d].left
      PROVE  \E j \in DOMAIN parts[stack'[d].type] : parts[stack'[d].type][j] = stack'[d].left[i]
  <2>1. CASE d < n
    <3>1. stack'[d] = stack[d]
      BY <1>4, <2>1
    <3> QED  BY <1>6, <1>7, <3>1 DEF PartsOf
  <2>2. CASE d = n
    <3>1. stack[n].left \in Seq(Parts) /\ stack[n].left # << >>
      BY <1>1, <1>3, <1>4, TopFacts DEF Frames
    <3>2. \A s \in Seq(Parts) : s # << >> =>
            \A k \in DOMAIN Tail(s) : k + 1 \in DOMAIN s /\ Tail(s)[k] = s[k + 1]
      OBVIOUS
    <3>3. i \in DOMAIN Tail(stack[n].left) /\ stack'[d].left[i] = Tail(stack[n].left)[i]
      BY <1>4, <1>7, <2>2
    <3>4. i + 1 \in DOMAIN stack[n].left /\ stack'[d].left[i] = stack[n].left[i + 1]
      BY <3>1, <3>2, <3>3
    <3> QED  BY <1>4, <1>6, <2>2, <3>4 DEF PartsOf
  <2> QED  BY <2>1, <2>2
<1>8. (\A d \in DOMAIN stack : PartsOf(d))'
  BY <1>1, <1>4, <1>7 DEF PartsOf
<1>9. ASSUME NEW d \in 1 .. n - 1
      PROVE  /\ stack'[d].complete
             /\ stack'[d + 1].complete => Calls(stack'[d].type, stack'[d + 1].type)
  <2>1. d \in 1 .. n /\ d + 1 \in 1 .. n
    OBVIOUS
  <2> QED  BY <1>1, <1>3, <1>4, <2>1 DEF ChainInv
<1>10. \A d \in 1 .. n - 1 : (stack[d].complete /\ (stack[d + 1].complete =>
                               Calls(stack[d].type, stack[d + 1].type)))'
  BY <1>1, <1>9 DEF Calls
<1>11. ChainInv'
  BY <1>4, <1>5, <1>8, <1>10 DEF ChainInv
<1> QED  BY <1>2, <1>11

LEMMA ChainReturn == CycleInv /\ Return => ChainInv' /\ NoCycleRead'
<1> SUFFICES ASSUME CycleInv, Return PROVE ChainInv' /\ NoCycleRead'
  OBVIOUS
<1>1. /\ TypesOK /\ FramesInv /\ ChainInv /\ NoCycleRead /\ Running /\ Top.left = << >>
      /\ stack' = Front(stack)
      /\ infos' = infos \cup {[type |-> Top.type, complete |-> Top.complete]}
      /\ UNCHANGED <<anonymous, parts, overflow>>
  BY DEF CycleInv, ClosedInv, Return
<1>2. PICK n \in Nat \ {0} : n = Len(stack)
  BY <1>1, TopFacts
<1>3. /\ DOMAIN stack = 1 .. n /\ stack \in Seq(Frames) /\ Top = stack[n] /\ Top \in Frames
  BY <1>1, <1>2, TopFacts DEF TypesOK
<1>4. /\ DOMAIN stack' = 1 .. n - 1 /\ Len(stack') = n - 1
      /\ \A k \in 1 .. n - 1 : stack'[k] = stack[k]
  BY <1>1, <1>2, <1>3 DEF Front
<1>5. /\ Top.complete => Read' = Read \cup {Top.type}
      /\ ~Top.complete => Read' = Read
  BY <1>1, <1>3 DEF Read, Frames
<1>6. ASSUME Top.complete PROVE Reached(Top.type) \subseteq Read
  <2>1. \A v \in Udts : Calls(Top.type, v) => v \in Read
    BY <1>1, <1>2, <1>3, <1>6 DEF FramesInv, SeenTo
  <2>2. Closed(Read, Top.type)
    BY <1>1, <2>1 DEF Closed, FramesInv, Read
  <2>3. Top.type \in Udts
    BY <1>3 DEF Frames
  <2> QED  BY <2>2, <2>3, ReachedLeast
<1>7. \A u \in Read' : u \notin Reached(u)
  BY <1>1, <1>5, <1>6 DEF NoCycleRead
<1>8. NoCycleRead'
  BY <1>1, <1>7, SameReached DEF NoCycleRead
<1>9. ~overflow'
  BY <1>1 DEF Running
<1>10. ASSUME NEW d \in 1 .. n - 1
       PROVE  PartsOf(d)'
  <2>1. PartsOf(d) /\ stack'[d] = stack[d]
    BY <1>1, <1>3, <1>4 DEF ChainInv
  <2> QED  BY <1>1, <2>1 DEF PartsOf
<1>11. ASSUME NEW d \in 1 .. n - 2
       PROVE  /\ stack'[d].complete
              /\ stack'[d + 1].complete => Calls(stack'[d].type, stack'[d + 1].type)
  <2>1. d \in 1 .. n - 1 /\ d + 1 \in 1 .. n - 1
    OBVIOUS
  <2> QED  BY <1>1, <1>2, <1>4, <2>1 DEF ChainInv
<1>12. \A d \in 1 .. n - 2 : (stack[d].complete /\ (stack[d + 1].complete =>
                               Calls(stack[d].type, stack[d + 1].type)))'
  BY <1>1, <1>11 DEF Calls
<1>13. ChainInv'
  <2>1. n - 1 - 1 = n - 2
    OBVIOUS
  <2> QED  BY <1>4, <1>9, <1>10, <1>12, <2>1 DEF ChainInv
<1> QED  BY <1>8, <1>13

LEMMA CycleStep == CycleInv /\ [Next]_vars => CycleInv'
<1> SUFFICES ASSUME CycleInv, [Next]_vars PROVE ChainInv' /\ NoCycleRead'
  BY ClosedStep DEF CycleInv
<1>1. CASE UNCHANGED vars
  <2>1. Read' = Read /\ \A u : Reached(u)' = Reached(u)
    BY <1>1, SameReached DEF Read, vars
  <2>2. NoCycleRead'
    BY <2>1 DEF CycleInv, NoCycleRead
  <2>3. ChainInv /\ UNCHANGED <<anonymous, parts, stack, overflow>>
    BY <1>1 DEF CycleInv, vars
  <2>4. ChainInv'
    BY <2>3 DEF ChainInv, PartsOf, Calls
  <2> QED  BY <2>2, <2>4
<1> QED  BY <1>1, ChainResolve, ChainNoNested, ChainReturn DEF Next, Finished

LEMMA FrameTypes ==
  ASSUME TypesOK
  PROVE  /\ Len(stack) \in Nat /\ DOMAIN stack = 1 .. Len(stack)
         /\ \A k \in DOMAIN stack : stack[k].type \in Udts
<1>1. \A s \in Seq(Frames) :
        Len(s) \in Nat /\ DOMAIN s = 1 .. Len(s) /\ \A k \in DOMAIN s : s[k] \in Frames
  OBVIOUS
<1>2. stack \in Seq(Frames)
  BY DEF TypesOK
<1>3. \A f \in Frames : f.type \in Udts
  BY DEF Frames
<1> QED  BY <1>1, <1>2, <1>3

(* Along the stack, upwards, each class is reached by those below.         *)
LEMMA StackReached ==
  ASSUME CycleInv, NEW i \in DOMAIN stack, NEW j \in DOMAIN stack, i < j, stack[Len(stack)].complete
  PROVE  stack[j].type \in Reached(stack[i].type)
<1>1. TypesOK /\ ChainInv
  BY DEF CycleInv, ClosedInv
<1>2. /\ Len(stack) \in Nat /\ DOMAIN stack = 1 .. Len(stack)
      /\ \A k \in DOMAIN stack : stack[k].type \in Udts
  BY <1>1, FrameTypes
<1>3. \A k \in 1 .. Len(stack) : stack[k].complete
  <2> TAKE k \in 1 .. Len(stack)
  <2>1. CASE k = Len(stack)
    BY <2>1
  <2>2. CASE k \in 1 .. Len(stack) - 1
    BY <1>1, <2>2 DEF ChainInv
  <2>3. k = Len(stack) \/ k \in 1 .. Len(stack) - 1
    <3>1. Len(stack) \in Nat
      BY <1>2
    <3> QED  BY <3>1
  <2> QED  BY <2>1, <2>2, <2>3
<1>4. \A k \in 1 .. Len(stack) - 1 : Calls(stack[k].type, stack[k + 1].type)
  <2> TAKE k \in 1 .. Len(stack) - 1
  <2>1. k + 1 \in 1 .. Len(stack)
    BY <1>2
  <2> QED  BY <1>1, <1>3, <2>1 DEF ChainInv
<1>5. SUFFICES ASSUME NEW s \in SUBSET Udts, Closed(s, stack[i].type), stack[j].type \notin s
               PROVE  FALSE
  BY <1>2, ReachedOf
<1> DEFINE Out == {k \in Nat : i < k /\ k <= j /\ stack[k].type \notin s}
<1>6. PICK k \in Out : \A m \in Out : ~(m < k)
  <2>1. Out \in SUBSET Nat /\ j \in Out
    BY <1>2, <1>5
  <2>2. PICK m \in Out : \A o \in Out : ~(<<o, m>> \in OpToRel(<, Nat))
    <3> HIDE DEF Out
    <3> QED  BY <2>1, NatLessThanWellFounded, WFMin
  <2> QED  BY <2>1, <2>2 DEF OpToRel
<1>7. k - 1 \in 1 .. Len(stack) - 1 /\ (k - 1) + 1 = k /\ k \in 1 .. Len(stack)
  BY <1>2, <1>6
<1>8. Calls(stack[k - 1].type, stack[k].type) /\ stack[k].type \in Udts /\ stack[k].type \notin s
  BY <1>2, <1>4, <1>6, <1>7
<1>9. CASE k - 1 = i
  BY <1>5, <1>8, <1>9 DEF Closed
<1>10. CASE k - 1 # i
  <2>1. k - 1 \in Nat /\ i < k - 1 /\ k - 1 <= j /\ k - 1 < k
    BY <1>2, <1>6, <1>7, <1>10
  <2>2. stack[k - 1].type \in s
    BY <1>6, <2>1
  <2> QED  BY <1>5, <1>8, <2>2 DEF Closed
<1> QED  BY <1>9, <1>10

(* The call stack is exhausted only by a class that comes to itself, and   *)
(* no class that does is ever read to its end.                             *)
THEOREM DiesOnlyInACycleAlways == Spec => []DiesOnlyInACycle
<1>1. CycleInv => DiesOnlyInACycle
  <2> SUFFICES ASSUME CycleInv PROVE DiesOnlyInACycle
    OBVIOUS
  <2>1. TypesOK /\ ChainInv /\ NoCycleRead
    BY DEF CycleInv, ClosedInv
  <2>2. ASSUME overflow PROVE \E u \in Udts : u \in Reached(u)
    <3>1. PICK n \in Nat : n = Len(stack)
      BY <2>1, FrameTypes
    <3>2. DOMAIN stack = 1 .. n /\ n >= MaxDepth /\ stack[n].complete
          /\ \A k \in 1 .. n : stack[k].type \in Udts
      BY <2>1, <2>2, <3>1, FrameTypes DEF ChainInv
    <3> DEFINE f == [k \in 1 .. n |-> stack[k].type]
    <3>3. f \in [1 .. n -> Udts]
      BY <3>2
    <3>4. IsFiniteSet(1 .. n) /\ Cardinality(1 .. n) = n
      BY FS_Interval
    <3>5. Cardinality(Udts) \in Nat /\ IsFiniteSet(Udts)
      BY FS_CardinalityType, BoundsAssumption DEF BoundsAssumption
    <3>6. Cardinality(Udts) < Cardinality(1 .. n)
      BY <3>2, <3>4, <3>5, BoundsAssumption DEF BoundsAssumption
    <3>7. PICK i \in 1 .. n, j \in 1 .. n : i # j /\ f[i] = f[j]
      <4> HIDE DEF f
      <4>1. \E i, j \in 1 .. n : i # j /\ f[i] = f[j]
        BY <3>3, <3>4, <3>5, <3>6, FS_PigeonHole
      <4> QED  BY <4>1
    <3>8. stack[i].type = stack[j].type /\ stack[i].type \in Udts
      BY <3>2, <3>7
    <3>9. CASE i < j
      BY <3>1, <3>2, <3>8, <3>9, StackReached
    <3>10. CASE j < i
      BY <3>1, <3>2, <3>8, <3>10, StackReached
    <3> QED  BY <3>7, <3>9, <3>10
  <2>3. \A info \in infos : info.complete => info.type \notin Reached(info.type)
    <3> SUFFICES ASSUME NEW info \in infos, info.complete
                 PROVE  info.type \notin Reached(info.type)
      OBVIOUS
    <3>1. info \in [type : Udts, complete : BOOLEAN]
      BY <2>1 DEF TypesOK
    <3>2. info = [type |-> info.type, complete |-> TRUE]
      BY <3>1
    <3> QED  BY <2>1, <3>1, <3>2 DEF NoCycleRead, Read
  <2> QED  BY <2>2, <2>3 DEF DiesOnlyInACycle
<1>2. Init => CycleInv
  BY CycleInit
<1> QED  BY <1>1, <1>2, CycleStep, PTL DEF Spec
=============================================================================
