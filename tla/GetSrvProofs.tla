---------------------------- MODULE GetSrvProofs ----------------------------
(***************************************************************************)
(* Service location, proved for every answer and every order of the        *)
(* handlers: the client is told once, no address is lost or tried twice,   *)
(* and the attempts follow the priorities as long as the query is answered *)
(* once.                                                                   *)
(*                                                                         *)
(* The loops of the code are recursive functions over 0 .. n.  That such a *)
(* function exists, and what it keeps, is proved by induction for a subset *)
(* of Nat (Induction, Recursion).                                          *)
(***************************************************************************)
EXTENDS GetSrv, SequenceTheorems, FiniteSetTheorems, WellFoundedInduction, TLAPS

----------------------------------------------------------------------------
(* Induction.                                                              *)

\* A set of numbers has a least one.
LEMMA Least ==
  ASSUME NEW S, S \subseteq Nat, S # {}
  PROVE  Min(S) \in S /\ \A k \in S : Min(S) <= k
<1> DEFINE R == OpToRel(<, Nat)
<1>1. \A x, y \in Nat : y < x => <<y, x>> \in R
  BY DEF OpToRel
<1>2. IsWellFoundedOn(R, Nat)
  BY NatLessThanWellFounded
<1> HIDE DEF R
<1>3. PICK x \in S : \A y \in S : ~(<<y, x>> \in R)
  BY <1>2, WFMin
<1>4. ASSUME NEW y \in S PROVE x <= y
  <2>1. x \in Nat /\ y \in Nat
    OBVIOUS
  <2>2. ~(y < x)
    BY <1>1, <1>3, <2>1
  <2> QED
    BY <2>1, <2>2
<1> QED
  BY <1>3, <1>4 DEF Min

\* A set with 0 and the successor of each of its numbers up to n has all of these.
LEMMA Induction ==
  ASSUME NEW T, NEW n \in Nat, 0 \in T, \A k \in 1 .. n : k - 1 \in T => k \in T
  PROVE  0 .. n \subseteq T
<1> DEFINE S == (0 .. n) \ T
<1> SUFFICES ASSUME S # {} PROVE FALSE
  OBVIOUS
<1>1. S \subseteq Nat
  OBVIOUS
<1> HIDE DEF S
<1>2. Min(S) \in S /\ \A k \in S : Min(S) <= k
  BY <1>1, Least
<1> DEFINE m == Min(S)
<1> HIDE DEF m
<1>3. m \in 1 .. n /\ m \notin T /\ m - 1 \in 0 .. n
  BY <1>2 DEF m, S
<1>4. m - 1 \in T
  BY <1>2, <1>3 DEF m, S
<1> QED
  BY <1>3, <1>4

\* f begins with b, and h makes each of its values from the one before.
Follows(f, S, b, n, h) ==
  f \in [0 .. n -> S] /\ f[0] = b /\ \A k \in 1 .. n : f[k] = h[k][f[k - 1]]

\* A function defined by recursion over 0 .. n exists.
LEMMA Recursion ==
  ASSUME NEW S, NEW b \in S, NEW n \in Nat, NEW h \in [1 .. n -> [S -> S]]
  PROVE  \E f : Follows(f, S, b, n, h)
<1> DEFINE Good(m, f) == f \in [0 .. m -> S] /\ f[0] = b /\ \A k \in 1 .. m : f[k] = h[k][f[k - 1]]
<1> DEFINE T == {m \in 0 .. n : \E f : Good(m, f)}
<1>1. 0 \in T
  <2> DEFINE f == [k \in 0 .. 0 |-> b]
  <2>1. Good(0, f)
    OBVIOUS
  <2> HIDE DEF Good
  <2>2. 0 \in 0 .. n /\ \E e : Good(0, e)
    BY <2>1
  <2> QED
    BY <2>2
<1>2. ASSUME NEW k \in 1 .. n, k - 1 \in T PROVE k \in T
  <2>0. \E f : Good(k - 1, f)
    BY <1>2, Zenon
  <2>1. PICK f : Good(k - 1, f)
    BY <2>0
  <2> DEFINE g == [j \in 0 .. k |-> IF j = k THEN h[k][f[k - 1]] ELSE f[j]]
  <2>2. f[k - 1] \in S /\ h[k][f[k - 1]] \in S
    BY <2>1
  <2>3. g \in [0 .. k -> S] /\ g[0] = b
    BY <2>1, <2>2
  <2>4. ASSUME NEW j \in 1 .. k PROVE g[j] = h[j][g[j - 1]]
    <3>1. CASE j = k
      <4>1. k \in 0 .. k /\ k - 1 \in 0 .. k /\ k - 1 # k
        OBVIOUS
      <4>2. g[k] = h[k][f[k - 1]] /\ g[k - 1] = f[k - 1]
        BY <4>1
      <4> QED
        BY <3>1, <4>2
    <3>2. CASE j # k
      <4>1. j \in 1 .. k - 1 /\ j - 1 \in 0 .. k - 1
        BY <3>2
      <4> QED
        BY <2>1, <3>2, <4>1
    <3> QED
      BY <3>1, <3>2
  <2>5. Good(k, g)
    BY <2>3, <2>4
  <2> HIDE DEF Good
  <2>6. k \in 0 .. n /\ \E e : Good(k, e)
    BY <2>5
  <2> QED
    BY <2>6
<1> HIDE DEF T
<1>3. n \in T
  <2>1. 0 .. n \subseteq T
    BY <1>1, <1>2, Induction, Zenon
  <2> QED
    BY <2>1
<1> QED
  BY <1>3 DEF T, Follows

----------------------------------------------------------------------------
(* How often an address is in a list.                                      *)

\* Sets that a one-to-one map connects are of the same size.
LEMMA SameSize ==
  ASSUME NEW A, NEW B, IsFiniteSet(A), NEW f \in [A -> B],
         \A x, y \in A : f[x] = f[y] => x = y, \A z \in B : \E x \in A : f[x] = z
  PROVE  IsFiniteSet(B) /\ Cardinality(B) = Cardinality(A)
<1>1. f \in Bijection(A, B)
  BY Zenon DEF Bijection, Injection, Surjection, IsInjective
<1> QED
  BY <1>1, FS_Bijection DEF ExistsBijection

LEMMA PlacesFinite ==
  ASSUME NEW l \in Seq(Address), NEW a
  PROVE  /\ DOMAIN l = 1 .. Len(l) /\ Len(l) \in Nat
         /\ IsFiniteSet({k \in DOMAIN l : l[k] = a}) /\ Times(l, a) \in Nat
<1>1. DOMAIN l = 1 .. Len(l) /\ Len(l) \in Nat
  BY LenProperties
<1>2. IsFiniteSet(1 .. Len(l))
  BY <1>1, FS_Interval
<1>3. IsFiniteSet({k \in DOMAIN l : l[k] = a})
  BY <1>1, <1>2, FS_Subset
<1> QED
  BY <1>1, <1>3, FS_CardinalityType DEF Times

LEMMA TimesConcat ==
  ASSUME NEW s \in Seq(Address), NEW t \in Seq(Address), NEW a
  PROVE  Times(s \o t, a) = Times(s, a) + Times(t, a)
<1> DEFINE A == {k \in DOMAIN s : s[k] = a}
           B == {k \in DOMAIN t : t[k] = a}
           C == {k \in DOMAIN (s \o t) : (s \o t)[k] = a}
           D == C \ A
           f == [k \in B |-> k + Len(s)]
<1>1. /\ DOMAIN s = 1 .. Len(s) /\ Len(s) \in Nat /\ DOMAIN t = 1 .. Len(t) /\ Len(t) \in Nat
      /\ IsFiniteSet(A) /\ IsFiniteSet(B) /\ Cardinality(A) \in Nat /\ Cardinality(B) \in Nat
  BY PlacesFinite DEF Times
<1>2. /\ s \o t \in Seq(Address) /\ DOMAIN (s \o t) = 1 .. Len(s) + Len(t)
      /\ \A i \in 1 .. Len(s) + Len(t) : (s \o t)[i] = IF i <= Len(s) THEN s[i] ELSE t[i - Len(s)]
  BY ConcatProperties, LenProperties
<1>3. IsFiniteSet(C)
  BY <1>2, PlacesFinite
<1>4. A \subseteq C
  BY <1>1, <1>2
<1>5. \A k \in D : k \in 1 .. Len(s) + Len(t) /\ k > Len(s) /\ t[k - Len(s)] = a
  BY <1>1, <1>2
<1>6. \A k \in B : k + Len(s) \in D
  BY <1>1, <1>2
<1>7. f \in [B -> D] /\ \A x, y \in B : f[x] = f[y] => x = y
  BY <1>1, <1>6
<1>8. ASSUME NEW z \in D PROVE \E x \in B : f[x] = z
  <2>1. z - Len(s) \in B /\ (z - Len(s)) + Len(s) = z
    BY <1>1, <1>5
  <2> QED
    BY <2>1
<1> HIDE DEF f
<1>9. Cardinality(D) = Cardinality(B) /\ IsFiniteSet(D)
  BY <1>1, <1>7, <1>8, SameSize
<1>10. C = A \cup D /\ A \cap D = {}
  BY <1>4
<1>11. Cardinality(C) = Cardinality(A) + Cardinality(D)
  <2> HIDE DEF A, C, D
  <2>1. Cardinality(A \cup D) = Cardinality(A) + Cardinality(D) - Cardinality(A \cap D)
    BY <1>1, <1>9, FS_Union
  <2>2. Cardinality(A \cap D) = 0
    BY <1>10, FS_EmptySet, Zenon
  <2>3. Cardinality(C) = Cardinality(A) + Cardinality(D) - 0
    BY <1>10, <2>1, <2>2, Zenon
  <2>4. Cardinality(D) \in Nat
    BY <1>9, FS_CardinalityType
  <2> QED
    BY <1>1, <2>3, <2>4
<1> QED
  BY <1>9, <1>11 DEF Times

\* An order changes nothing.
LEMMA TimesArranged ==
  ASSUME NEW l \in Seq(Address), NEW o \in [DOMAIN l -> DOMAIN l], NEW a,
         \A i, j \in DOMAIN l : o[i] = o[j] => i = j
  PROVE  Arranged(l, o) \in Seq(Address) /\ DOMAIN Arranged(l, o) = DOMAIN l
         /\ Times(Arranged(l, o), a) = Times(l, a)
<1> DEFINE D == 1 .. Len(l)
           m == Arranged(l, o)
           A == {k \in DOMAIN m : m[k] = a}
           B == {k \in DOMAIN l : l[k] = a}
           f == [k \in A |-> o[k]]
<1>1. DOMAIN l = D /\ Len(l) \in Nat /\ l \in [D -> Address]
  BY LenProperties
<1>2. IsFiniteSet(D)
  BY <1>1, FS_Interval
<1>3. \A z \in D : \E x \in D : o[x] = z
  <2>1. o \in Injection(D, D)
    BY <1>1, Zenon DEF Injection, IsInjective
  <2>2. o \in Surjection(D, D)
    BY <1>2, <2>1, FS_Injection
  <2> QED
    BY <2>2, Zenon DEF Surjection
<1>4. m \in [1 .. Len(l) -> Address] /\ \A k \in D : m[k] = l[o[k]]
  BY <1>1 DEF Arranged
<1>5. m \in Seq(Address) /\ DOMAIN m = D
  BY <1>1, <1>4, SeqDef
<1> HIDE DEF m
<1>6. IsFiniteSet(A)
  <2>1. A \subseteq D
    BY <1>5
  <2> QED
    BY <1>2, <2>1, FS_Subset
<1>7. f \in [A -> B] /\ \A x, y \in A : f[x] = f[y] => x = y
  BY <1>1, <1>4, <1>5
<1>8. ASSUME NEW z \in B PROVE \E x \in A : f[x] = z
  <2>1. PICK x \in D : o[x] = z
    BY <1>1, <1>3
  <2>2. x \in A /\ f[x] = z
    BY <1>1, <1>4, <1>5, <2>1
  <2> QED
    BY <2>2
<1> HIDE DEF f, A, B
<1>9. Cardinality(B) = Cardinality(A)
  BY <1>6, <1>7, <1>8, SameSize
<1> QED
  BY <1>1, <1>5, <1>9 DEF Times, A, B, m

----------------------------------------------------------------------------
(* The list of addresses.                                                  *)

\* Parts of a list.
LEMMA Parts ==
  ASSUME NEW l \in Seq(Address), NEW k \in 0 .. Len(l)
  PROVE  /\ SubSeq(l, 1, k) \in Seq(Address) /\ SubSeq(l, k + 1, Len(l)) \in Seq(Address)
         /\ Len(SubSeq(l, 1, k)) = k /\ Len(SubSeq(l, k + 1, Len(l))) = Len(l) - k
         /\ \A i \in 1 .. k : SubSeq(l, 1, k)[i] = l[i]
         /\ \A i \in 1 .. Len(l) - k : SubSeq(l, k + 1, Len(l))[i] = l[k + i]
         /\ SubSeq(l, 1, k) \o SubSeq(l, k + 1, Len(l)) = l
<1>1. Len(l) \in Nat /\ \A i \in 1 .. Len(l) : l[i] \in Address
  BY LenProperties, ElementOfSeq
<1>2. /\ SubSeq(l, 1, k) \in Seq(Address) /\ Len(SubSeq(l, 1, k)) = IF 1 <= k THEN k - 1 + 1 ELSE 0
      /\ \A i \in 1 .. k - 1 + 1 : SubSeq(l, 1, k)[i] = l[1 + i - 1]
  BY <1>1, SubSeqProperties
<1>3. /\ SubSeq(l, k + 1, Len(l)) \in Seq(Address)
      /\ Len(SubSeq(l, k + 1, Len(l))) = IF k + 1 <= Len(l) THEN Len(l) - (k + 1) + 1 ELSE 0
      /\ \A i \in 1 .. Len(l) - (k + 1) + 1 : SubSeq(l, k + 1, Len(l))[i] = l[(k + 1) + i - 1]
  BY <1>1, SubSeqProperties
<1>4. SubSeq(l, 1, k) \o SubSeq(l, k + 1, Len(l)) = SubSeq(l, 1, Len(l))
  <2>1. 1 \in 1 .. Len(l) + 1 /\ k \in 1 - 1 .. Len(l) /\ Len(l) \in k .. Len(l)
    BY <1>1
  <2> QED
    BY <2>1, ConcatAdjacentSubSeq
<1>5. SubSeq(l, 1, Len(l)) = l
  BY SubSeqFull
<1> QED
  <2>1. \A i \in 1 .. k : SubSeq(l, 1, k)[i] = l[i]
    BY <1>1, <1>2
  <2>2. \A i \in 1 .. Len(l) - k : SubSeq(l, k + 1, Len(l))[i] = l[k + i]
    BY <1>1, <1>3
  <2>3. Len(SubSeq(l, 1, k)) = k /\ Len(SubSeq(l, k + 1, Len(l))) = Len(l) - k
    BY <1>1, <1>2, <1>3
  <2> QED
    BY <1>2, <1>3, <1>4, <1>5, <2>1, <2>2, <2>3

LEMMA Single ==
  ASSUME NEW a \in Address
  PROVE  <<a>> \in Seq(Address)
  OBVIOUS

\* An insertion adds the address, and keeps the order.
LEMMA InsertKeeps ==
  ASSUME NEW l \in Seq(Address), NEW a \in Address
  PROVE  /\ Insert(l, a) \in Seq(Address)
         /\ \A b : Times(Insert(l, a), b) = Times(l, b) + Times(<<a>>, b)
         /\ Ascending(l) => Ascending(Insert(l, a))
<1> DEFINE lower == {k \in DOMAIN l : l[k].priority >= a.priority}
           at == IF lower = {} THEN Len(l) + 1 ELSE Min(lower)
           x == SubSeq(l, 1, at - 1)
           y == SubSeq(l, at, Len(l))
<1>1. DOMAIN l = 1 .. Len(l) /\ Len(l) \in Nat /\ \A k \in 1 .. Len(l) : l[k] \in Address
  BY LenProperties, ElementOfSeq
<1>2. lower # {} => Min(lower) \in lower /\ \A k \in lower : Min(lower) <= k
  <2>1. lower \subseteq Nat
    BY <1>1
  <2> HIDE DEF lower
  <2> QED
    BY <2>1, Least
<1>3. \A k \in 1 .. Len(l) : l[k].priority \in Nat /\ a.priority \in Nat
  BY <1>1 DEF Address
<1>4. /\ at \in 1 .. Len(l) + 1
      /\ \A k \in 1 .. at - 1 : l[k].priority < a.priority
      /\ at <= Len(l) => l[at].priority >= a.priority
  <2>1. \A k \in 1 .. Len(l) : k \in lower <=> l[k].priority >= a.priority
    BY <1>1
  <2>2. lower \subseteq 1 .. Len(l)
    BY <1>1
  <2> HIDE DEF lower
  <2>3. CASE lower = {}
    BY <1>1, <1>3, <2>1, <2>3
  <2>4. CASE lower # {}
    <3>1. at \in lower /\ \A k \in lower : at <= k
      BY <1>2, <2>4
    <3> HIDE DEF at
    <3>2. \A k \in 1 .. at - 1 : k \in 1 .. Len(l) /\ k \notin lower
      BY <1>1, <2>2, <3>1
    <3> QED
      BY <1>1, <1>3, <2>1, <2>2, <3>1, <3>2
  <2> QED
    BY <2>3, <2>4
<1>5. Insert(l, a) = x \o <<a>> \o y
  BY <1>1, <1>4 DEF Insert, InsertAt
<1> HIDE DEF at
<1>6. /\ x \in Seq(Address) /\ y \in Seq(Address) /\ Len(x) = at - 1 /\ Len(y) = Len(l) - (at - 1)
      /\ \A i \in 1 .. at - 1 : x[i] = l[i]
      /\ \A i \in 1 .. Len(l) - (at - 1) : y[i] = l[at - 1 + i]
      /\ x \o y = l
  <2>1. at - 1 \in 0 .. Len(l) /\ (at - 1) + 1 = at
    BY <1>1, <1>4
  <2> QED
    <3>1. y = SubSeq(l, (at - 1) + 1, Len(l))
      BY <2>1
    <3> HIDE DEF y
    <3> QED
      BY <2>1, <3>1, Parts
<1> DEFINE u == x \o <<a>>
<1> HIDE DEF x, y
<1>7. <<a>> \in Seq(Address) /\ Len(<<a>>) = 1 /\ <<a>>[1] = a
  OBVIOUS
<1>8. u \in Seq(Address) /\ Len(u) = at /\ \A i \in 1 .. at : u[i] = IF i <= at - 1 THEN l[i] ELSE a
  BY <1>1, <1>4, <1>6, <1>7, ConcatProperties
<1>9. Insert(l, a) = u \o y
  BY <1>5
<1>10. \A b : Times(u, b) = Times(x, b) + Times(<<a>>, b)
  BY <1>6, <1>7, TimesConcat
<1> HIDE DEF u
<1>11. ASSUME NEW b PROVE Times(Insert(l, a), b) = Times(l, b) + Times(<<a>>, b)
  <2>1. Times(u \o y, b) = Times(u, b) + Times(y, b)
    BY <1>6, <1>8, TimesConcat
  <2>2. Times(x \o y, b) = Times(x, b) + Times(y, b)
    BY <1>6, TimesConcat
  <2>3. Times(x, b) \in Nat /\ Times(y, b) \in Nat /\ Times(<<a>>, b) \in Nat
    BY <1>6, <1>7, PlacesFinite
  <2>4. Times(l, b) = Times(x, b) + Times(y, b)
    BY <1>6, <2>2
  <2> QED
    BY <1>9, <1>10, <2>1, <2>3, <2>4
<1>12. ASSUME Ascending(l) PROVE Ascending(Insert(l, a))
  <2> DEFINE m == u \o y
  <2>1. /\ m \in Seq(Address) /\ Len(m) = Len(u) + Len(y)
        /\ \A i \in 1 .. Len(u) + Len(y) : m[i] = IF i <= Len(u) THEN u[i] ELSE y[i - Len(u)]
    BY <1>6, <1>8, ConcatProperties
  <2> HIDE DEF m
  <2>2. /\ DOMAIN m = 1 .. Len(l) + 1
        /\ \A i \in 1 .. Len(l) + 1 : m[i] = IF i < at THEN l[i] ELSE IF i = at THEN a ELSE l[i - 1]
    <3>1. Len(m) = Len(l) + 1 /\ DOMAIN m = 1 .. Len(l) + 1
      BY <1>1, <1>4, <1>6, <1>8, <2>1, LenProperties
    <3>2. ASSUME NEW i \in 1 .. Len(l) + 1, i > at PROVE y[i - at] = l[i - 1]
      <4>1. i - at \in 1 .. Len(l) - (at - 1) /\ (at - 1) + (i - at) = i - 1
        BY <1>1, <1>4, <3>2
      <4> QED
        BY <1>6, <4>1
    <3>3. ASSUME NEW i \in 1 .. Len(l) + 1
          PROVE  m[i] = IF i < at THEN l[i] ELSE IF i = at THEN a ELSE l[i - 1]
      <4>1. /\ Len(l) \in Nat /\ at \in Int /\ i \in Int
            /\ i \in 1 .. Len(u) + Len(y) /\ Len(u) = at
        BY <1>1, <1>4, <1>6, <1>8
      <4>2. m[i] = IF i <= at THEN u[i] ELSE y[i - at]
        BY <2>1, <4>1
      <4>3. CASE i < at
        <5>1. i \in 1 .. at /\ i <= at - 1
          BY <4>1, <4>3
        <5>2. u[i] = l[i]
          BY <1>8, <5>1
        <5> QED
          BY <4>1, <4>2, <4>3, <5>2
      <4>4. CASE i = at
        <5>1. i \in 1 .. at /\ ~(i <= at - 1)
          BY <4>1, <4>4
        <5>2. u[i] = a
          BY <1>8, <5>1
        <5> QED
          BY <4>1, <4>2, <4>4, <5>2
      <4>5. CASE i > at
        BY <3>2, <4>1, <4>2, <4>5
      <4> QED
        BY <4>1, <4>3, <4>4, <4>5
    <3> QED
      BY <3>1, <3>3
  <2>3. \A i, j \in 1 .. Len(l) : i <= j => l[i].priority <= l[j].priority
    BY <1>1, <1>3, <1>12 DEF Ascending
  <2>4. ASSUME NEW i \in 1 .. Len(l) + 1, NEW j \in 1 .. Len(l) + 1, i < j
        PROVE  m[i].priority <= m[j].priority
    <3>0. i \in Int /\ j \in Int /\ at \in Int /\ i < j
      BY <1>1, <1>4, <2>4
    <3>1. CASE j < at
      <4>1. m[i] = l[i] /\ m[j] = l[j]
        BY <2>2, <2>4, <3>0, <3>1
      <4>2. i \in 1 .. Len(l) /\ j \in 1 .. Len(l) /\ i <= j
        BY <1>1, <1>4, <2>4, <3>1
      <4> QED
        BY <2>3, <4>1, <4>2
    <3>2. CASE j = at
      <4>1. m[i] = l[i] /\ m[j] = a
        BY <2>2, <2>4, <3>0, <3>2
      <4>2. i \in 1 .. at - 1 /\ i \in 1 .. Len(l)
        BY <1>1, <1>4, <2>4, <3>2
      <4>3. l[i].priority < a.priority
        BY <1>4, <4>2
      <4>4. l[i].priority \in Nat /\ a.priority \in Nat
        BY <1>3, <4>2
      <4> QED
        BY <4>1, <4>3, <4>4
    <3>3. CASE j > at /\ i < at
      <4>1. m[i] = l[i] /\ m[j] = l[j - 1]
        BY <2>2, <2>4, <3>0, <3>3
      <4>2. i \in 1 .. Len(l) /\ j - 1 \in 1 .. Len(l) /\ i <= j - 1
        BY <1>1, <1>4, <2>4, <3>3
      <4> QED
        BY <2>3, <4>1, <4>2
    <3>4. CASE j > at /\ i = at
      <4>1. at \in 1 .. Len(l) /\ j - 1 \in 1 .. Len(l) /\ at <= j - 1
        BY <1>1, <1>4, <3>4
      <4>2. l[at].priority <= l[j - 1].priority
        BY <2>3, <4>1
      <4>3. at <= Len(l)
        BY <1>1, <4>1
      <4>4. a.priority <= l[at].priority
        BY <1>3, <1>4, <4>1, <4>3
      <4>5. m[i] = a /\ m[j] = l[j - 1]
        BY <2>2, <2>4, <3>0, <3>4
      <4>6. l[at].priority \in Nat /\ l[j - 1].priority \in Nat /\ a.priority \in Nat
        BY <1>3, <4>1
      <4> QED
        BY <4>2, <4>4, <4>5, <4>6
    <3>5. CASE i > at
      <4>1. m[i] = l[i - 1] /\ m[j] = l[j - 1]
        BY <2>2, <2>4, <3>0, <3>5
      <4>2. i - 1 \in 1 .. Len(l) /\ j - 1 \in 1 .. Len(l) /\ i - 1 <= j - 1
        BY <1>1, <1>4, <2>4, <3>5
      <4> QED
        BY <2>3, <4>1, <4>2
    <3>6. j < at \/ j = at \/ (j > at /\ i < at) \/ (j > at /\ i = at) \/ i > at
      BY <3>0
    <3> QED
      BY <3>1, <3>2, <3>3, <3>4, <3>5, <3>6
  <2>5. \A i, j \in 1 .. Len(l) + 1 : i < j => m[i].priority <= m[j].priority
    BY <2>4
  <2>6. DOMAIN m = 1 .. Len(l) + 1
    BY <2>2
  <2>7. Insert(l, a) = m
    BY <1>9 DEF m
  <2> QED
    BY <2>5, <2>6, <2>7 DEF Ascending
<1>13. Insert(l, a) \in Seq(Address)
  BY <1>6, <1>8, <1>9, ConcatProperties
<1> QED
  BY <1>11, <1>12, <1>13

\* The loop of insertions.
LEMMA InsertAllIs ==
  ASSUME NEW l \in Seq(Address), NEW addrs \in Seq(Address)
  PROVE  \E f : /\ f[0] = l /\ \A k \in 1 .. Len(addrs) : f[k] = Insert(f[k - 1], addrs[k])
                /\ InsertAll(l, addrs) = f[Len(addrs)]
<1> DEFINE n == Len(addrs)
           S == Seq(Address)
           h == [k \in 1 .. n |-> [s \in S |-> Insert(s, addrs[k])]]
           F == CHOOSE f : f = [k \in 0 .. n |-> IF k = 0 THEN l ELSE Insert(f[k - 1], addrs[k])]
<1>0. n \in Nat
  BY LenProperties
<1>1. \A k \in 1 .. n : addrs[k] \in Address
  BY ElementOfSeq
<1>2. \A k \in 1 .. n : \A s \in S : Insert(s, addrs[k]) \in S
  BY <1>1, InsertKeeps
<1>3. h \in [1 .. n -> [S -> S]]
  BY <1>2
<1>4. \A k \in 1 .. n : \A s \in S : h[k][s] = Insert(s, addrs[k])
  OBVIOUS
<1>5. PICK g : Follows(g, S, l, n, h)
  <2>1. l \in S
    OBVIOUS
  <2> HIDE DEF h, S, n
  <2> QED
    BY <1>0, <1>3, <2>1, Recursion, Zenon
<1> HIDE DEF h
<1>6. ASSUME NEW k \in 1 .. n PROVE g[k] = Insert(g[k - 1], addrs[k])
  <2>1. k - 1 \in 0 .. n
    BY <1>0
  <2>2. g[k - 1] \in S
    BY <1>5, <2>1 DEF Follows
  <2> QED
    BY <1>4, <1>5, <2>2 DEF Follows
<1>7. g = [k \in 0 .. n |-> IF k = 0 THEN l ELSE Insert(g[k - 1], addrs[k])]
  BY <1>0, <1>5, <1>6 DEF Follows
<1>8. F = [k \in 0 .. n |-> IF k = 0 THEN l ELSE Insert(F[k - 1], addrs[k])]
  BY <1>7, Zenon
<1>9. InsertAll(l, addrs) = F[n]
  BY Zenon DEF InsertAll
<1> HIDE DEF F
<1>10. F[0] = l /\ \A k \in 1 .. n : F[k] = Insert(F[k - 1], addrs[k])
  BY <1>0, <1>8
<1> QED
  BY <1>9, <1>10

\* It adds all of them, and keeps the order.
LEMMA InsertAllKeeps ==
  ASSUME NEW l \in Seq(Address), NEW addrs \in Seq(Address)
  PROVE  /\ InsertAll(l, addrs) \in Seq(Address)
         /\ \A b : Times(InsertAll(l, addrs), b) = Times(l, b) + Times(addrs, b)
         /\ Ascending(l) => Ascending(InsertAll(l, addrs))
<1> DEFINE n == Len(addrs)
<1>0. n \in Nat
  BY LenProperties
<1>1. \A k \in 1 .. n : addrs[k] \in Address
  BY ElementOfSeq
<1>2. PICK f : /\ f[0] = l /\ \A k \in 1 .. n : f[k] = Insert(f[k - 1], addrs[k])
               /\ InsertAll(l, addrs) = f[n]
  BY InsertAllIs
<1> DEFINE P(k) == /\ f[k] \in Seq(Address)
                   /\ \A b : Times(f[k], b) = Times(l, b) + Times(SubSeq(addrs, 1, k), b)
                   /\ Ascending(l) => Ascending(f[k])
           T == {k \in 0 .. n : P(k)}
<1>3. P(0)
  <2>1. SubSeq(addrs, 1, 0) = << >>
    BY SubSeqEmpty
  <2>2. \A b : Times(<< >>, b) = 0
    BY FS_EmptySet DEF Times
  <2>3. ASSUME NEW b PROVE Times(f[0], b) = Times(l, b) + Times(SubSeq(addrs, 1, 0), b)
    <3>1. Times(l, b) \in Nat /\ f[0] = l
      BY <1>2, PlacesFinite
    <3>2. Times(SubSeq(addrs, 1, 0), b) = 0
      BY <2>1, <2>2, Zenon
    <3> QED
      BY <3>1, <3>2
  <2> QED
    BY <1>2, <2>3
<1>4. ASSUME NEW k \in 1 .. n, P(k - 1) PROVE P(k)
  <2>1. addrs[k] \in Address /\ f[k - 1] \in Seq(Address) /\ f[k] = Insert(f[k - 1], addrs[k])
    <3>1. addrs[k] \in Address
      BY <1>1
    <3>2. f[k - 1] \in Seq(Address)
      BY <1>4
    <3>3. f[k] = Insert(f[k - 1], addrs[k])
      BY <1>2
    <3> QED
      BY <3>1, <3>2, <3>3
  <2>2. /\ f[k] \in Seq(Address)
        /\ \A b : Times(f[k], b) = Times(f[k - 1], b) + Times(<<addrs[k]>>, b)
        /\ Ascending(f[k - 1]) => Ascending(f[k])
    <3>1. /\ Insert(f[k - 1], addrs[k]) \in Seq(Address)
          /\ \A b : Times(Insert(f[k - 1], addrs[k]), b) = Times(f[k - 1], b) + Times(<<addrs[k]>>, b)
          /\ Ascending(f[k - 1]) => Ascending(Insert(f[k - 1], addrs[k]))
      BY <2>1, InsertKeeps, Zenon
    <3> QED
      BY <2>1, <3>1, Zenon
  <2>3. SubSeq(addrs, 1, k) = SubSeq(addrs, 1, k - 1) \o <<addrs[k]>>
    <3>1. 1 \in 1 .. Len(addrs) /\ k \in 1 .. Len(addrs)
      BY <1>0
    <3> QED
      BY <3>1, SubSeqRecursiveSecond
  <2>4. SubSeq(addrs, 1, k - 1) \in Seq(Address)
    <3>1. k - 1 \in 0 .. Len(addrs)
      BY <1>0
    <3> QED
      BY <3>1, Parts
  <2> DEFINE x == SubSeq(addrs, 1, k - 1)
             y == <<addrs[k]>>
  <2>5. y \in Seq(Address)
    BY <2>1, Single
  <2>6. ASSUME NEW b PROVE Times(f[k], b) = Times(l, b) + Times(SubSeq(addrs, 1, k), b)
    <3>1. Times(x \o y, b) = Times(x, b) + Times(y, b)
      <4> HIDE DEF x, y
      <4> QED
        BY <2>4, <2>5, TimesConcat DEF x
    <3>2. Times(x, b) \in Nat /\ Times(y, b) \in Nat /\ Times(l, b) \in Nat
      <4> HIDE DEF x, y
      <4> QED
        BY <2>4, <2>5, PlacesFinite DEF x
    <3>3. Times(f[k], b) = (Times(l, b) + Times(x, b)) + Times(y, b)
      BY <1>4, <2>2
    <3>4. Times(SubSeq(addrs, 1, k), b) = Times(x \o y, b)
      BY <2>3, Zenon
    <3> HIDE DEF x, y
    <3> QED
      BY <3>1, <3>2, <3>3, <3>4
  <2> QED
    BY <1>4, <2>2, <2>6
<1> HIDE DEF P
<1>5. 0 \in T
  BY <1>0, <1>3
<1>6. ASSUME NEW k \in 1 .. n, k - 1 \in T PROVE k \in T
  BY <1>4, <1>6
<1> HIDE DEF T, n
<1>7. n \in T
  <2>1. 0 .. n \subseteq T
    BY <1>0, <1>5, <1>6, Induction, Zenon
  <2> QED
    BY <1>0, <2>1
<1>8. P(n) /\ SubSeq(addrs, 1, n) = addrs
  BY <1>7, SubSeqFull DEF T, n
<1> QED
  BY <1>2, <1>8 DEF P

----------------------------------------------------------------------------
(* The records of a host give way to its addresses.                        *)

AnyAddr == UNION {ToSet(AddressesOf[h]) : h \in Hosts}

\* The addresses of a host.
OfHost(host, addrs) == {a \in Address : a.host = host /\ a.addr \in ToSet(addrs)}

Replacing == [srv : Seq(Service), ina : Seq(Address), added : Seq(Address)]

LEMMA ElementsConcat ==
  ASSUME NEW S, NEW s \in Seq(S), NEW t \in Seq(S)
  PROVE  /\ s \o t \in Seq(S) /\ ToSet(s \o t) = ToSet(s) \cup ToSet(t)
<1>1. Len(s) \in Nat /\ Len(t) \in Nat /\ DOMAIN s = 1 .. Len(s) /\ DOMAIN t = 1 .. Len(t)
  BY LenProperties
<1>2. /\ s \o t \in Seq(S) /\ DOMAIN (s \o t) = 1 .. Len(s) + Len(t)
      /\ \A i \in 1 .. Len(s) + Len(t) : (s \o t)[i] = IF i <= Len(s) THEN s[i] ELSE t[i - Len(s)]
  BY ConcatProperties, LenProperties
<1> DEFINE u == s \o t
<1> HIDE DEF u
<1>3. ASSUME NEW x \in ToSet(u) PROVE x \in ToSet(s) \cup ToSet(t)
  <2>1. PICK i \in 1 .. Len(s) + Len(t) : x = u[i]
    BY <1>2 DEF ToSet, u
  <2>2. CASE i <= Len(s)
    BY <1>1, <1>2, <2>1, <2>2 DEF ToSet, u
  <2>3. CASE i > Len(s)
    <3>1. i - Len(s) \in DOMAIN t /\ x = t[i - Len(s)]
      BY <1>1, <1>2, <2>1, <2>3 DEF u
    <3> QED
      BY <3>1 DEF ToSet
  <2> QED
    BY <1>1, <2>2, <2>3
<1>4. ASSUME NEW x \in ToSet(s) PROVE x \in ToSet(u)
  <2>1. PICK i \in 1 .. Len(s) : x = s[i]
    BY <1>1 DEF ToSet
  <2>2. i \in DOMAIN u /\ u[i] = x
    BY <1>1, <1>2, <2>1 DEF u
  <2> QED
    BY <2>2 DEF ToSet
<1>5. ASSUME NEW x \in ToSet(t) PROVE x \in ToSet(u)
  <2>1. PICK i \in 1 .. Len(t) : x = t[i]
    BY <1>1 DEF ToSet
  <2>2. i + Len(s) \in DOMAIN u /\ u[i + Len(s)] = x
    BY <1>1, <1>2, <2>1 DEF u
  <2> QED
    BY <2>2 DEF ToSet
<1> QED
  BY <1>2, <1>3, <1>4, <1>5 DEF u

LEMMA ElementsType ==
  ASSUME NEW S, NEW s \in Seq(S)
  PROVE  \A x \in ToSet(s) : x \in S
  BY ElementOfSeq, LenProperties DEF ToSet

LEMMA AddressesKeep ==
  ASSUME NEW r \in Service, NEW addrs \in Seq(AnyAddr)
  PROVE  Addresses(r, addrs) \in Seq(Address) /\ ToSet(Addresses(r, addrs)) \subseteq OfHost(r.host, addrs)
<1> DEFINE al == Addresses(r, addrs)
           a(i) == [priority |-> r.priority, weight |-> r.weight, host |-> r.host, addr |-> addrs[i]]
<1>1. DOMAIN addrs = 1 .. Len(addrs) /\ Len(addrs) \in Nat /\ \A i \in 1 .. Len(addrs) : addrs[i] \in AnyAddr
  BY LenProperties, ElementOfSeq
<1>2. r.priority \in Nat /\ r.weight \in Nat /\ r.host \in Names
  BY DEF Service
<1>3. \A i \in 1 .. Len(addrs) : a(i) \in Address /\ a(i).host = r.host /\ a(i).addr = addrs[i]
  BY <1>1, <1>2 DEF Address, AnyAddr
<1>4. DOMAIN al = 1 .. Len(addrs) /\ \A i \in 1 .. Len(addrs) : al[i] = a(i)
  BY <1>1 DEF Addresses
<1>5. al \in [1 .. Len(addrs) -> Address]
  BY <1>1, <1>3 DEF Addresses
<1> HIDE DEF al, a
<1>6. al \in Seq(Address)
  BY <1>1, <1>5, SeqDef
<1>7. ASSUME NEW x \in ToSet(al) PROVE x \in OfHost(r.host, addrs)
  <2>1. PICK i \in 1 .. Len(addrs) : x = al[i]
    BY <1>4 DEF ToSet
  <2>2. x \in Address /\ x.host = r.host /\ x.addr = addrs[i]
    BY <1>3, <1>4, <2>1
  <2>3. addrs[i] \in ToSet(addrs)
    BY <1>1 DEF ToSet
  <2> QED
    BY <2>2, <2>3 DEF OfHost
<1> QED
  BY <1>6, <1>7 DEF al

\* One record of the loop.
LEMMA ReplacedKeeps ==
  ASSUME NEW st \in Replacing, NEW r \in Service, NEW host, NEW addrs \in Seq(AnyAddr)
  PROVE  /\ Replaced(st, r, host, addrs) \in Replacing
         /\ \A b : Times(Replaced(st, r, host, addrs).added, b) + Times(st.ina, b) =
                     Times(st.added, b) + Times(Replaced(st, r, host, addrs).ina, b)
         /\ Ascending(st.ina) => Ascending(Replaced(st, r, host, addrs).ina)
         /\ ToSet(Replaced(st, r, host, addrs).srv) \subseteq ToSet(st.srv) \cup {r}
         /\ ToSet(Replaced(st, r, host, addrs).added) \subseteq ToSet(st.added) \cup OfHost(host, addrs)
<1> DEFINE re == Replaced(st, r, host, addrs)
           new == Addresses(r, addrs)
<1>1. /\ st.srv \in Seq(Service) /\ st.ina \in Seq(Address) /\ st.added \in Seq(Address)
      /\ st = [srv |-> st.srv, ina |-> st.ina, added |-> st.added]
  BY DEF Replacing
<1>2. \A b : Times(st.ina, b) \in Nat /\ Times(st.added, b) \in Nat
  BY <1>1, PlacesFinite
<1>3. CASE r.host # host
  <2>1. <<r>> \in Seq(Service) /\ ToSet(<<r>>) = {r}
    BY DEF ToSet
  <2>2. re = [srv |-> <<r>> \o st.srv, ina |-> st.ina, added |-> st.added]
    BY <1>1, <1>3 DEF Replaced
  <2>3. re.srv = <<r>> \o st.srv /\ re.ina = st.ina /\ re.added = st.added
    BY <2>2
  <2>4. <<r>> \o st.srv \in Seq(Service) /\ ToSet(<<r>> \o st.srv) = {r} \cup ToSet(st.srv)
    <3> DEFINE one == <<r>>
               rest == st.srv
    <3>1. one \in Seq(Service) /\ ToSet(one) = {r} /\ rest \in Seq(Service)
      BY <1>1, <2>1
    <3> HIDE DEF one, rest
    <3>2. one \o rest \in Seq(Service) /\ ToSet(one \o rest) = {r} \cup ToSet(rest)
      BY <3>1, ElementsConcat
    <3> QED
      BY <3>2 DEF one, rest
  <2>5. re \in Replacing
    BY <1>1, <2>2, <2>4 DEF Replacing
  <2> HIDE DEF re
  <2>6. ToSet(re.srv) \subseteq ToSet(st.srv) \cup {r}
    BY <2>3, <2>4, Zenon
  <2>7. \A b : Times(re.added, b) + Times(st.ina, b) = Times(st.added, b) + Times(re.ina, b)
    BY <2>3, Zenon
  <2> QED
    BY <2>3, <2>5, <2>6, <2>7, Zenon DEF re
<1>4. CASE r.host = host
  <2>1. new \in Seq(Address) /\ ToSet(new) \subseteq OfHost(host, addrs)
    BY <1>4, AddressesKeep
  <2>2. re = [srv |-> st.srv, ina |-> InsertAll(st.ina, new), added |-> st.added \o new]
    BY <1>1, <1>4 DEF Replaced
  <2> HIDE DEF new
  <2>3. re.srv = st.srv /\ re.ina = InsertAll(st.ina, new) /\ re.added = st.added \o new
    BY <2>2
  <2>4. /\ InsertAll(st.ina, new) \in Seq(Address)
        /\ \A b : Times(InsertAll(st.ina, new), b) = Times(st.ina, b) + Times(new, b)
        /\ Ascending(st.ina) => Ascending(InsertAll(st.ina, new))
    BY <1>1, <2>1, InsertAllKeeps, Zenon
  <2>5. st.added \o new \in Seq(Address) /\ ToSet(st.added \o new) = ToSet(st.added) \cup ToSet(new)
    BY <1>1, <2>1, ElementsConcat
  <2>6. re \in Replacing
    BY <1>1, <2>2, <2>4, <2>5 DEF Replacing
  <2> HIDE DEF re
  <2>7. ASSUME NEW b PROVE Times(re.added, b) + Times(st.ina, b) = Times(st.added, b) + Times(re.ina, b)
    <3>1. Times(re.added, b) = Times(st.added \o new, b) /\ Times(re.ina, b) = Times(InsertAll(st.ina, new), b)
      BY <2>3, Zenon
    <3>2. Times(st.added \o new, b) = Times(st.added, b) + Times(new, b)
      BY <1>1, <2>1, TimesConcat
    <3>3. Times(new, b) \in Nat
      BY <2>1, PlacesFinite
    <3> QED
      BY <1>2, <2>4, <3>1, <3>2, <3>3
  <2>8. ToSet(re.srv) = ToSet(st.srv) /\ ToSet(re.added) = ToSet(st.added \o new)
    BY <2>3, Zenon
  <2>9. Ascending(st.ina) => Ascending(re.ina)
    BY <2>3, <2>4, Zenon
  <2>10. ToSet(re.added) \subseteq ToSet(st.added) \cup OfHost(host, addrs)
    BY <2>1, <2>5, <2>8
  <2>11. ToSet(re.srv) \subseteq ToSet(st.srv) \cup {r}
    BY <2>8
  <2> QED
    BY <2>6, <2>7, <2>9, <2>10, <2>11, Zenon DEF re
<1> QED
  BY <1>3, <1>4, Zenon

\* The loop over the records.
LEMMA ExpandedIs ==
  ASSUME NEW host, NEW addrs \in Seq(AnyAddr), srv \in Seq(Service), ina \in Seq(Address), added \in Seq(Address)
  PROVE  \E f : /\ f[0] = [srv |-> << >>, ina |-> ina, added |-> added]
                /\ \A k \in 1 .. Len(srv) : f[k] = Replaced(f[k - 1], srv[k], host, addrs)
                /\ Expanded(host, addrs) = f[Len(srv)]
<1> DEFINE n == Len(srv)
           S == Replacing
           b == [srv |-> << >>, ina |-> ina, added |-> added]
           h == [k \in 1 .. n |-> [s \in S |-> Replaced(s, srv[k], host, addrs)]]
           F == CHOOSE f : f = [k \in 0 .. n |-> IF k = 0 THEN b ELSE Replaced(f[k - 1], srv[k], host, addrs)]
<1>0. n \in Nat
  BY LenProperties
<1>1. \A k \in 1 .. n : srv[k] \in Service
  BY ElementOfSeq
<1>2. \A k \in 1 .. n : \A s \in S : Replaced(s, srv[k], host, addrs) \in S
  BY <1>1, ReplacedKeeps, Zenon
<1>3. h \in [1 .. n -> [S -> S]]
  BY <1>2
<1>4. \A k \in 1 .. n : \A s \in S : h[k][s] = Replaced(s, srv[k], host, addrs)
  OBVIOUS
<1>5. PICK g : Follows(g, S, b, n, h)
  <2>1. b \in S
    <3>1. << >> \in Seq(Service)
      OBVIOUS
    <3> QED
      BY <3>1 DEF Replacing
  <2> HIDE DEF h, S, n, b
  <2> QED
    BY <1>0, <1>3, <2>1, Recursion, Zenon
<1> HIDE DEF h, b
<1>6. ASSUME NEW k \in 1 .. n PROVE g[k] = Replaced(g[k - 1], srv[k], host, addrs)
  <2>1. k - 1 \in 0 .. n
    BY <1>0
  <2>2. g[k - 1] \in S
    BY <1>5, <2>1 DEF Follows
  <2> QED
    BY <1>4, <1>5, <2>2 DEF Follows
<1>7. g = [k \in 0 .. n |-> IF k = 0 THEN b ELSE Replaced(g[k - 1], srv[k], host, addrs)]
  BY <1>0, <1>5, <1>6 DEF Follows
<1>8. F = [k \in 0 .. n |-> IF k = 0 THEN b ELSE Replaced(F[k - 1], srv[k], host, addrs)]
  BY <1>7, Zenon
<1>9. Expanded(host, addrs) = F[n]
  BY Zenon DEF Expanded, b
<1> HIDE DEF F
<1>10. F[0] = b
  <2>1. 0 \in 0 .. n
    BY <1>0
  <2> QED
    BY <1>8, <2>1, Zenon
<1>11. ASSUME NEW k \in 1 .. n PROVE F[k] = Replaced(F[k - 1], srv[k], host, addrs)
  <2>1. k \in 0 .. n /\ k # 0
    BY <1>0
  <2> QED
    BY <1>8, <2>1, Zenon
<1> QED
  BY <1>9, <1>10, <1>11 DEF b

LEMMA ExpandedKeeps ==
  ASSUME NEW host, NEW addrs \in Seq(AnyAddr), srv \in Seq(Service), ina \in Seq(Address), added \in Seq(Address)
  PROVE  /\ Expanded(host, addrs) \in Replacing
         /\ \A b : Times(Expanded(host, addrs).added, b) + Times(ina, b) =
                     Times(added, b) + Times(Expanded(host, addrs).ina, b)
         /\ Ascending(ina) => Ascending(Expanded(host, addrs).ina)
         /\ ToSet(Expanded(host, addrs).srv) \subseteq ToSet(srv)
         /\ ToSet(Expanded(host, addrs).added) \subseteq ToSet(added) \cup OfHost(host, addrs)
<1> DEFINE n == Len(srv)
<1>0. n \in Nat
  BY LenProperties
<1>1. \A k \in 1 .. n : srv[k] \in Service /\ srv[k] \in ToSet(srv)
  BY ElementOfSeq, LenProperties DEF ToSet
<1>2. PICK f : /\ f[0] = [srv |-> << >>, ina |-> ina, added |-> added]
               /\ \A k \in 1 .. n : f[k] = Replaced(f[k - 1], srv[k], host, addrs)
               /\ Expanded(host, addrs) = f[n]
  BY ExpandedIs
<1> DEFINE P(k) == /\ f[k] \in Replacing
                   /\ \A b : Times(f[k].added, b) + Times(ina, b) = Times(added, b) + Times(f[k].ina, b)
                   /\ Ascending(ina) => Ascending(f[k].ina)
                   /\ ToSet(f[k].srv) \subseteq ToSet(srv)
                   /\ ToSet(f[k].added) \subseteq ToSet(added) \cup OfHost(host, addrs)
           T == {k \in 0 .. n : P(k)}
<1>3. P(0)
  <2>1. f[0].srv = << >> /\ f[0].ina = ina /\ f[0].added = added
    BY <1>2
  <2>2. f[0] \in Replacing
    <3>1. << >> \in Seq(Service)
      OBVIOUS
    <3> QED
      BY <1>2, <3>1 DEF Replacing
  <2>3. ToSet(f[0].srv) = {}
    BY <2>1 DEF ToSet
  <2>4. \A b : Times(f[0].added, b) + Times(ina, b) = Times(added, b) + Times(f[0].ina, b)
    BY <2>1, Zenon
  <2> QED
    BY <2>1, <2>2, <2>3, <2>4, Zenon
<1>4. ASSUME NEW k \in 1 .. n, P(k - 1) PROVE P(k)
  <2> DEFINE st == f[k - 1]
             re == Replaced(st, srv[k], host, addrs)
  <2>1. f[k] = re
    BY <1>2
  <2>2. st \in Replacing /\ srv[k] \in Service /\ srv[k] \in ToSet(srv)
    BY <1>1, <1>4, Zenon
  <2> HIDE DEF st
  <2>3. /\ re \in Replacing
        /\ \A b : Times(re.added, b) + Times(st.ina, b) = Times(st.added, b) + Times(re.ina, b)
        /\ Ascending(st.ina) => Ascending(re.ina)
        /\ ToSet(re.srv) \subseteq ToSet(st.srv) \cup {srv[k]}
        /\ ToSet(re.added) \subseteq ToSet(st.added) \cup OfHost(host, addrs)
    BY <2>2, ReplacedKeeps, Zenon
  <2> HIDE DEF re
  <2>4. /\ \A b : Times(st.added, b) + Times(ina, b) = Times(added, b) + Times(st.ina, b)
        /\ Ascending(ina) => Ascending(st.ina)
        /\ ToSet(st.srv) \subseteq ToSet(srv)
        /\ ToSet(st.added) \subseteq ToSet(added) \cup OfHost(host, addrs)
    BY <1>4, Zenon DEF st
  <2>5. ASSUME NEW b PROVE Times(re.added, b) + Times(ina, b) = Times(added, b) + Times(re.ina, b)
    <3>1. st.ina \in Seq(Address) /\ st.added \in Seq(Address) /\ re.ina \in Seq(Address) /\ re.added \in Seq(Address)
      BY <2>2, <2>3 DEF Replacing
    <3>2. /\ Times(st.ina, b) \in Nat /\ Times(st.added, b) \in Nat /\ Times(re.ina, b) \in Nat
          /\ Times(re.added, b) \in Nat /\ Times(ina, b) \in Nat /\ Times(added, b) \in Nat
      BY <3>1, PlacesFinite
    <3>3. /\ Times(re.added, b) + Times(st.ina, b) = Times(st.added, b) + Times(re.ina, b)
          /\ Times(st.added, b) + Times(ina, b) = Times(added, b) + Times(st.ina, b)
      BY <2>3, <2>4, Zenon
    <3> DEFINE t1 == Times(re.added, b)
               t2 == Times(re.ina, b)
               t3 == Times(st.added, b)
               t4 == Times(st.ina, b)
               t5 == Times(added, b)
               t6 == Times(ina, b)
    <3>4. t1 \in Nat /\ t2 \in Nat /\ t3 \in Nat /\ t4 \in Nat /\ t5 \in Nat /\ t6 \in Nat
      BY <3>2, Zenon
    <3>5. t1 + t4 = t3 + t2 /\ t3 + t6 = t5 + t4
      BY <3>3, Zenon
    <3> HIDE DEF t1, t2, t3, t4, t5, t6
    <3>6. t1 + t6 = t5 + t2
      BY <3>4, <3>5
    <3> QED
      BY <3>6, Zenon DEF t1, t2, t5, t6
  <2>6. ToSet(re.srv) \subseteq ToSet(srv) /\ ToSet(re.added) \subseteq ToSet(added) \cup OfHost(host, addrs)
    BY <2>2, <2>3, <2>4
  <2> QED
    BY <2>1, <2>3, <2>4, <2>5, <2>6, Zenon
<1> HIDE DEF P
<1>5. 0 \in T
  BY <1>0, <1>3
<1>6. ASSUME NEW k \in 1 .. n, k - 1 \in T PROVE k \in T
  BY <1>4, <1>6
<1> HIDE DEF T, n
<1>7. n \in T
  <2>1. 0 .. n \subseteq T
    BY <1>0, <1>5, <1>6, Induction, Zenon
  <2> QED
    BY <1>0, <2>1
<1>8. P(n)
  BY <1>7 DEF T
<1> QED
  BY <1>2, <1>8, Zenon DEF P

----------------------------------------------------------------------------
(* The sort.                                                               *)

\* The first n picks of the sort: different addresses, in the order of their
\* priorities, none of which is behind one that is left.
Picks(l, n, o) ==
  /\ o \in Seq(DOMAIN l) /\ Len(o) = n
  /\ \A i, j \in 1 .. n : o[i] = o[j] => i = j
  /\ \A i, j \in 1 .. n : i < j => l[o[i]].priority <= l[o[j]].priority
  /\ \A i \in 1 .. n : \A k \in DOMAIN l : (\A j \in 1 .. n : o[j] # k) => l[o[i]].priority <= l[k].priority

Pick(l, s) == UNION {{Append(o, k) : k \in Chosen(l, DOMAIN l \ ToSet(o))} : o \in s}

LEMMA OrdersIs ==
  ASSUME NEW l \in Seq(Address)
  PROVE  \E f : /\ f[0] = {<< >>} /\ \A k \in 1 .. Len(l) : f[k] = Pick(l, f[k - 1])
                /\ Orders(l) = f[Len(l)]
<1> DEFINE n == Len(l)
           S == SUBSET Seq(DOMAIN l)
           b == {<< >>}
           h == [k \in 1 .. n |-> [s \in S |-> Pick(l, s)]]
           F == CHOOSE f : f = [k \in 0 .. n |-> IF k = 0 THEN {<< >>} ELSE
                  UNION {{Append(o, i) : i \in Chosen(l, DOMAIN l \ ToSet(o))} : o \in f[k - 1]}]
<1>0. n \in Nat
  BY LenProperties
<1>2. ASSUME NEW s \in S PROVE Pick(l, s) \in S
  <2>1. ASSUME NEW x \in Pick(l, s) PROVE x \in Seq(DOMAIN l)
    <3>1. PICK o \in s : x \in {Append(o, k) : k \in Chosen(l, DOMAIN l \ ToSet(o))}
      BY DEF Pick
    <3>2. PICK k \in Chosen(l, DOMAIN l \ ToSet(o)) : x = Append(o, k)
      BY <3>1
    <3>3. k \in DOMAIN l /\ o \in Seq(DOMAIN l)
      BY DEF Chosen, Group
    <3> QED
      BY <3>2, <3>3, AppendProperties
  <2> QED
    BY <2>1
<1>3. h \in [1 .. n -> [S -> S]]
  BY <1>2
<1>4. \A k \in 1 .. n : \A s \in S : h[k][s] = Pick(l, s)
  OBVIOUS
<1>5. PICK g : Follows(g, S, b, n, h)
  <2>1. b \in S
    OBVIOUS
  <2> HIDE DEF h, S, n, b
  <2> QED
    BY <1>0, <1>3, <2>1, Recursion, Zenon
<1> HIDE DEF h
<1>6. ASSUME NEW k \in 1 .. n PROVE g[k] = Pick(l, g[k - 1])
  <2>1. k - 1 \in 0 .. n
    BY <1>0
  <2>2. g[k - 1] \in S
    BY <1>5, <2>1 DEF Follows
  <2> HIDE DEF S
  <2> QED
    BY <1>4, <1>5, <2>2 DEF Follows
<1> HIDE DEF S
<1>7. g = [k \in 0 .. n |-> IF k = 0 THEN {<< >>} ELSE Pick(l, g[k - 1])]
  BY <1>0, <1>5, <1>6 DEF Follows
<1>8. F = [k \in 0 .. n |-> IF k = 0 THEN {<< >>} ELSE Pick(l, F[k - 1])]
  BY <1>7, Zenon DEF Pick
<1>9. Orders(l) = F[n]
  BY Zenon DEF Orders, Taken
<1> HIDE DEF F
<1>10. F[0] = {<< >>}
  <2>1. 0 \in 0 .. n
    BY <1>0
  <2> QED
    BY <1>8, <2>1, Zenon
<1>11. ASSUME NEW k \in 1 .. n PROVE F[k] = Pick(l, F[k - 1])
  <2>1. k \in 0 .. n /\ k # 0
    BY <1>0
  <2> QED
    BY <1>8, <2>1, Zenon
<1> QED
  BY <1>9, <1>10, <1>11

LEMMA PickKeeps ==
  ASSUME NEW l \in Seq(Address), Ascending(l), NEW n \in Nat, NEW o, Picks(l, n, o),
         NEW k \in Chosen(l, DOMAIN l \ ToSet(o))
  PROVE  Picks(l, n + 1, Append(o, k))
<1> DEFINE left == DOMAIN l \ ToSet(o)
           m == Append(o, k)
<1>1. DOMAIN l = 1 .. Len(l) /\ Len(l) \in Nat /\ \A i \in 1 .. Len(l) : l[i].priority \in Nat
  <2>1. DOMAIN l = 1 .. Len(l) /\ Len(l) \in Nat /\ \A i \in 1 .. Len(l) : l[i] \in Address
    BY LenProperties, ElementOfSeq
  <2> QED
    BY <2>1 DEF Address
<1>2. o \in Seq(DOMAIN l) /\ Len(o) = n /\ DOMAIN o = 1 .. n /\ \A i \in 1 .. n : o[i] \in DOMAIN l
  BY LenProperties, ElementOfSeq DEF Picks
<1>3. k \in left /\ l[k].priority = l[Min(left)].priority
  BY DEF Chosen, Group
<1>4. \A i \in DOMAIN l : i \in left <=> \A j \in 1 .. n : o[j] # i
  BY <1>2 DEF ToSet
<1>5. Min(left) \in left /\ \A i \in left : Min(left) <= i
  <2>1. left \subseteq Nat /\ left # {}
    BY <1>1, <1>3
  <2> HIDE DEF left
  <2> QED
    BY <2>1, Least
<1>6. left \subseteq DOMAIN l /\ k \in DOMAIN l
  BY <1>3
<1> HIDE DEF left
<1>7. ASSUME NEW i \in left PROVE l[k].priority <= l[i].priority
  <2>1. Min(left) \in 1 .. Len(l) /\ i \in 1 .. Len(l) /\ Min(left) <= i
    BY <1>1, <1>5, <1>6
  <2>2. l[Min(left)].priority <= l[i].priority
    <3>1. CASE Min(left) < i
      BY <1>1, <2>1, <3>1 DEF Ascending
    <3>2. CASE Min(left) = i
      BY <1>1, <2>1, <3>2
    <3> QED
      BY <1>1, <2>1, <3>1, <3>2
  <2> QED
    BY <1>3, <2>2
<1>8. /\ m \in Seq(DOMAIN l) /\ Len(m) = n + 1 /\ \A i \in 1 .. n : m[i] = o[i]
      /\ m[n + 1] = k
  BY <1>2, <1>6, AppendProperties
<1> HIDE DEF m
<1>9. /\ \A i, j \in 1 .. n : o[i] = o[j] => i = j
      /\ \A i, j \in 1 .. n : i < j => l[o[i]].priority <= l[o[j]].priority
      /\ \A i \in 1 .. n : \A x \in DOMAIN l : (\A j \in 1 .. n : o[j] # x) => l[o[i]].priority <= l[x].priority
  BY DEF Picks
<1>10. \A i \in 1 .. n + 1 : i \in 1 .. n \/ i = n + 1
  OBVIOUS
<1>11. ASSUME NEW i \in 1 .. n + 1, NEW j \in 1 .. n + 1, m[i] = m[j] PROVE i = j
  BY <1>3, <1>4, <1>6, <1>8, <1>9, <1>10, <1>11
<1>12. ASSUME NEW i \in 1 .. n + 1, NEW j \in 1 .. n + 1, i < j PROVE l[m[i]].priority <= l[m[j]].priority
  <2>1. i \in 1 .. n
    BY <1>12
  <2>2. CASE j \in 1 .. n
    BY <1>8, <1>9, <1>12, <2>1, <2>2
  <2>3. CASE j = n + 1
    <3>1. l[o[i]].priority <= l[k].priority
      BY <1>3, <1>4, <1>6, <1>9, <2>1
    <3> QED
      BY <1>8, <2>1, <2>3, <3>1
  <2> QED
    BY <1>10, <2>2, <2>3
<1>13. ASSUME NEW i \in 1 .. n + 1, NEW x \in DOMAIN l, \A j \in 1 .. n + 1 : m[j] # x
       PROVE  l[m[i]].priority <= l[x].priority
  <2>1. \A j \in 1 .. n : o[j] # x
    BY <1>8, <1>13
  <2>2. CASE i \in 1 .. n
    BY <1>8, <1>9, <2>1, <2>2
  <2>3. CASE i = n + 1
    BY <1>4, <1>7, <1>8, <2>1, <2>3
  <2> QED
    BY <1>10, <2>2, <2>3
<1> QED
  BY <1>8, <1>11, <1>12, <1>13 DEF Picks, m

\* The sort keeps the addresses, and their order.
LEMMA OrdersKeep ==
  ASSUME NEW l \in Seq(Address), Ascending(l), NEW o \in Orders(l)
  PROVE  /\ Arranged(l, o) \in Seq(Address) /\ Ascending(Arranged(l, o))
         /\ \A b : Times(Arranged(l, o), b) = Times(l, b)
<1> DEFINE n == Len(l)
<1>0. n \in Nat /\ DOMAIN l = 1 .. n
  BY LenProperties
<1>2. PICK f : /\ f[0] = {<< >>} /\ \A k \in 1 .. n : f[k] = Pick(l, f[k - 1])
               /\ Orders(l) = f[n]
  BY OrdersIs
<1> DEFINE P(k) == \A x \in f[k] : Picks(l, k, x)
           T == {k \in 0 .. n : P(k)}
<1>3. P(0)
  <2>1. << >> \in Seq(DOMAIN l) /\ Len(<< >>) = 0
    BY EmptySeq
  <2>2. Picks(l, 0, << >>)
    BY <2>1 DEF Picks
  <2> QED
    BY <1>2, <2>2
<1>4. ASSUME NEW k \in 1 .. n, P(k - 1) PROVE P(k)
  <2> SUFFICES ASSUME NEW x \in f[k] PROVE Picks(l, k, x)
    OBVIOUS
  <2>1. x \in Pick(l, f[k - 1])
    BY <1>2
  <2>2. PICK y \in f[k - 1] : x \in {Append(y, i) : i \in Chosen(l, DOMAIN l \ ToSet(y))}
    BY <2>1 DEF Pick
  <2>3. PICK i \in Chosen(l, DOMAIN l \ ToSet(y)) : x = Append(y, i)
    BY <2>2
  <2>4. Picks(l, k - 1, y) /\ k - 1 \in Nat
    BY <1>4
  <2>5. Picks(l, (k - 1) + 1, Append(y, i))
    BY <2>4, PickKeeps
  <2>6. (k - 1) + 1 = k
    OBVIOUS
  <2> QED
    BY <2>3, <2>5, <2>6
<1> HIDE DEF P
<1>5. 0 \in T
  BY <1>0, <1>3
<1>6. ASSUME NEW k \in 1 .. n, k - 1 \in T PROVE k \in T
  BY <1>4, <1>6
<1> HIDE DEF T, n
<1>7. n \in T
  <2>1. 0 .. n \subseteq T
    BY <1>0, <1>5, <1>6, Induction, Zenon
  <2> QED
    BY <1>0, <2>1
<1>8. Picks(l, n, o)
  BY <1>2, <1>7 DEF T, P
<1>9. o \in [DOMAIN l -> DOMAIN l] /\ \A i, j \in DOMAIN l : o[i] = o[j] => i = j
  BY <1>0, <1>8, LenProperties DEF Picks
<1>10. /\ Arranged(l, o) \in Seq(Address) /\ DOMAIN Arranged(l, o) = DOMAIN l
       /\ \A b : Times(Arranged(l, o), b) = Times(l, b)
  BY <1>9, TimesArranged
<1>11. \A i \in DOMAIN l : Arranged(l, o)[i] = l[o[i]]
  BY DEF Arranged
<1>12. Ascending(Arranged(l, o))
  BY <1>0, <1>8, <1>10, <1>11 DEF Ascending, Picks
<1> QED
  BY <1>10, <1>12

----------------------------------------------------------------------------
(* The records of a reply.                                                 *)

Waiting == [id : Nat, host : Hosts]
Records == [kind : Kinds, host : Hosts, priority : Nat, weight : Nat]
Seeing  == [srv : Seq(Service), lookups : Seq(Waiting), rc : {"not found", "unavailable"}, stop : BOOLEAN]

\* A lookup and a record with its id are of the same host, as far as its name is kept.
Matched(s, q) == \A x \in ToSet(s), y \in ToSet(q) : x.id = y.id => x.host = Kept[y.host]

\* An address of one of the hosts whose names are kept as the one it is for.
Belongs(a) == \E h \in Hosts : Kept[h] = a.host /\ a.addr \in ToSet(AddressesOf[h])

\* The next id is new.
Fresh(s, q) == \A x \in ToSet(s) \cup ToSet(q) : x.id <= Len(s)

LEMMA RecordKeeps ==
  ASSUME NEW st \in Seeing, NEW r \in Records, NEW failing
  PROVE  /\ Record(st, r, failing) \in Seeing
         /\ Matched(st.srv, st.lookups) /\ Fresh(st.srv, st.lookups) =>
              LET re == Record(st, r, failing) IN Matched(re.srv, re.lookups) /\ Fresh(re.srv, re.lookups)
<1> DEFINE s == st.srv
           q == st.lookups
           new == [id |-> Len(s) + 1, host |-> Kept[r.host], priority |-> r.priority, weight |-> r.weight]
           one == <<new>>
           look == [id |-> Len(s) + 1, host |-> r.host]
           re == Record(st, r, failing)
<1>0. s \in Seq(Service) /\ q \in Seq(Waiting)
  BY DEF Seeing
<1>1. /\ s \in Seq(Service) /\ q \in Seq(Waiting) /\ st.rc \in {"not found", "unavailable"} /\ st.stop \in BOOLEAN
      /\ st = [srv |-> s, lookups |-> q, rc |-> st.rc, stop |-> st.stop]
  BY DEF Seeing
<1>2. Len(s) \in Nat
  BY <1>1, LenProperties
<1>3. new \in Service /\ look \in Waiting
  BY <1>2 DEF Service, Waiting, Records, Names
<1>4. one \in Seq(Service) /\ ToSet(one) = {new} /\ Len(one) = 1
  BY <1>3 DEF ToSet
<1>5. \/ re = st
      \/ re = [srv |-> one \o s, lookups |-> q, rc |-> st.rc, stop |-> st.stop]
      \/ re = [srv |-> one \o s, lookups |-> Append(q, look), rc |-> st.rc, stop |-> st.stop]
  BY <1>1 DEF Record
<1>6. new.id = Len(s) + 1 /\ look.id = Len(s) + 1 /\ new.host = Kept[look.host]
  OBVIOUS
<1> HIDE DEF new, one, look
<1>7. one \o s \in Seq(Service) /\ ToSet(one \o s) = {new} \cup ToSet(s) /\ Len(one \o s) = Len(s) + 1
  <2> HIDE DEF s
  <2>1. one \o s \in Seq(Service) /\ ToSet(one \o s) = ToSet(one) \cup ToSet(s)
    BY <1>1, <1>4, ElementsConcat
  <2>2. Len(one \o s) = Len(one) + Len(s)
    BY <1>1, <1>4, ConcatProperties
  <2> QED
    BY <1>2, <1>4, <2>1, <2>2
<1>8. Append(q, look) \in Seq(Waiting) /\ ToSet(Append(q, look)) = ToSet(q) \cup {look}
  <2> HIDE DEF q
  <2>1. <<look>> \in Seq(Waiting) /\ ToSet(<<look>>) = {look}
    BY <1>3 DEF ToSet
  <2> DEFINE last == <<look>>
  <2>2. Append(q, look) = q \o last
    BY <1>1, <1>3, AppendIsConcat
  <2> HIDE DEF last
  <2>3. last \in Seq(Waiting) /\ ToSet(last) = {look}
    BY <2>1 DEF last
  <2>4. q \o last \in Seq(Waiting) /\ ToSet(q \o last) = ToSet(q) \cup ToSet(last)
    BY <1>0, <2>3, ElementsConcat
  <2>5. Append(q, look) \in Seq(Waiting)
    BY <2>2, <2>4
  <2>6. ToSet(Append(q, look)) = ToSet(q \o last)
    BY <2>2, Zenon
  <2> QED
    BY <2>3, <2>4, <2>5, <2>6
<1>9. re \in Seeing
  <2> DEFINE w == one \o s
             v == Append(q, look)
  <2>1. w \in Seq(Service) /\ v \in Seq(Waiting)
    BY <1>7, <1>8
  <2>2. \/ re = st
        \/ re = [srv |-> w, lookups |-> q, rc |-> st.rc, stop |-> st.stop]
        \/ re = [srv |-> w, lookups |-> v, rc |-> st.rc, stop |-> st.stop]
    BY <1>5
  <2> HIDE DEF re, w, v
  <2>3. CASE re = st
    BY <2>3
  <2>4. CASE re = [srv |-> w, lookups |-> q, rc |-> st.rc, stop |-> st.stop]
    BY <1>1, <2>1, <2>4 DEF Seeing
  <2>5. CASE re = [srv |-> w, lookups |-> v, rc |-> st.rc, stop |-> st.stop]
    BY <1>1, <2>1, <2>5 DEF Seeing
  <2> QED
    BY <2>2, <2>3, <2>4, <2>5
<1>10. ASSUME Matched(s, q), Fresh(s, q) PROVE Matched(re.srv, re.lookups) /\ Fresh(re.srv, re.lookups)
  <2>1. \A x \in ToSet(s) : x.id \in Nat
    <3>1. \A x \in ToSet(s) : x \in Service
      BY <1>0, ElementsType
    <3> QED
      BY <3>1 DEF Service
  <2>2. \A x \in ToSet(q) : x.id \in Nat
    <3>1. \A x \in ToSet(q) : x \in Waiting
      BY <1>0, ElementsType
    <3> QED
      BY <3>1 DEF Waiting
  <2>3. \A x \in ToSet(s) \cup ToSet(q) : x.id <= Len(s)
    BY <1>10 DEF Fresh
  <2>4. \A x \in ToSet(s), y \in ToSet(q) : x.id = y.id => x.host = Kept[y.host]
    BY <1>10 DEF Matched
  <2>5. CASE re = st
    BY <1>10, <2>5
  <2>6. CASE re = [srv |-> one \o s, lookups |-> q, rc |-> st.rc, stop |-> st.stop]
    <3>1. re.srv = one \o s /\ re.lookups = q
      BY <2>6
    <3> HIDE DEF s, q, re
    <3>2. ToSet(re.srv) = {new} \cup ToSet(s) /\ ToSet(re.lookups) = ToSet(q) /\ Len(re.srv) = Len(s) + 1
      BY <1>7, <3>1, Zenon
    <3> QED
      BY <1>2, <1>6, <2>1, <2>2, <2>3, <2>4, <3>2 DEF Matched, Fresh
  <2>7. CASE re = [srv |-> one \o s, lookups |-> Append(q, look), rc |-> st.rc, stop |-> st.stop]
    <3>1. re.srv = one \o s /\ re.lookups = Append(q, look)
      BY <2>7
    <3> HIDE DEF s, q, re
    <3>2. ToSet(re.srv) = {new} \cup ToSet(s) /\ ToSet(re.lookups) = ToSet(q) \cup {look} /\ Len(re.srv) = Len(s) + 1
      BY <1>7, <1>8, <3>1, Zenon
    <3> QED
      BY <1>2, <1>6, <2>1, <2>2, <2>3, <2>4, <3>2 DEF Matched, Fresh
  <2> QED
    BY <1>5, <2>5, <2>6, <2>7
<1> QED
  BY <1>9, <1>10

\* One record of a reply.
LEMMA SeenKeeps ==
  ASSUME NEW st \in Seeing, NEW r \in Records, NEW failing
  PROVE  /\ Seen(st, r, failing) \in Seeing
         /\ Matched(st.srv, st.lookups) /\ Fresh(st.srv, st.lookups) =>
              LET re == Seen(st, r, failing) IN Matched(re.srv, re.lookups) /\ Fresh(re.srv, re.lookups)
<1> DEFINE re == Seen(st, r, failing)
<1>1. /\ st.srv \in Seq(Service) /\ st.lookups \in Seq(Waiting) /\ st.rc \in {"not found", "unavailable"} /\ st.stop \in BOOLEAN
      /\ st = [srv |-> st.srv, lookups |-> st.lookups, rc |-> st.rc, stop |-> st.stop]
  BY DEF Seeing
<1>2. r.kind \in {"srv", "dot", "cut", "other"}
  BY DEF Records, Kinds
<1>3. \/ re = st \/ re = Record(st, r, failing)
      \/ \E rc \in {"not found", "unavailable"} : re = [srv |-> st.srv, lookups |-> st.lookups, rc |-> rc, stop |-> TRUE]
  <2>1. CASE st.stop \/ r.kind = "other"
    BY <1>1, <2>1 DEF Seen
  <2>2. CASE ~st.stop /\ r.kind = "srv"
    BY <1>1, <2>2 DEF Seen
  <2>3. CASE ~st.stop /\ r.kind = "dot"
    BY <1>1, <2>3 DEF Seen
  <2>4. CASE ~st.stop /\ r.kind = "cut"
    BY <1>1, <2>4 DEF Seen
  <2> QED
    BY <1>1, <1>2, <2>1, <2>2, <2>3, <2>4
<1> HIDE DEF re
<1>4. CASE re = st
  BY <1>4 DEF re
<1>5. CASE re = Record(st, r, failing)
  BY <1>5, RecordKeeps, Zenon DEF re
<1>6. CASE \E rc \in {"not found", "unavailable"} : re = [srv |-> st.srv, lookups |-> st.lookups, rc |-> rc, stop |-> TRUE]
  <2>1. re \in Seeing /\ re.srv = st.srv /\ re.lookups = st.lookups
    <3>1. PICK rc \in {"not found", "unavailable"} :
            re = [srv |-> st.srv, lookups |-> st.lookups, rc |-> rc, stop |-> TRUE]
      BY <1>6
    <3>2. re.srv = st.srv /\ re.lookups = st.lookups
      BY <3>1
    <3>3. re \in Seeing
      BY <1>1, <3>1 DEF Seeing
    <3> QED
      BY <3>2, <3>3
  <2> QED
    BY <2>1, Zenon DEF re
<1> QED
  BY <1>3, <1>4, <1>5, <1>6, Zenon

\* The loop over the records.
LEMMA WalkIs ==
  ASSUME NEW answer \in Seq(Records), NEW failing, srv \in Seq(Service), lookups \in Seq(Waiting)
  PROVE  \E f : /\ f[0] = [srv |-> srv, lookups |-> lookups, rc |-> "not found", stop |-> FALSE]
                /\ \A k \in 1 .. Len(answer) : f[k] = Seen(f[k - 1], answer[k], failing)
                /\ Absorbed(answer, failing) = f[Len(answer)]
<1> DEFINE n == Len(answer)
           S == Seeing
           b == [srv |-> srv, lookups |-> lookups, rc |-> "not found", stop |-> FALSE]
           h == [k \in 1 .. n |-> [s \in S |-> Seen(s, answer[k], failing)]]
           F == CHOOSE f : f = [k \in 0 .. n |-> IF k = 0 THEN b ELSE Seen(f[k - 1], answer[k], failing)]
<1>0. n \in Nat
  BY LenProperties
<1>1. \A k \in 1 .. n : answer[k] \in Records
  BY ElementOfSeq
<1>2. \A k \in 1 .. n : \A s \in S : Seen(s, answer[k], failing) \in S
  BY <1>1, SeenKeeps, Zenon
<1>3. h \in [1 .. n -> [S -> S]]
  BY <1>2
<1>4. \A k \in 1 .. n : \A s \in S : h[k][s] = Seen(s, answer[k], failing)
  OBVIOUS
<1>5. PICK g : Follows(g, S, b, n, h)
  <2>1. b \in S
    BY DEF Seeing
  <2> HIDE DEF h, S, n, b
  <2> QED
    BY <1>0, <1>3, <2>1, Recursion, Zenon
<1> HIDE DEF h, b
<1>6. ASSUME NEW k \in 1 .. n PROVE g[k] = Seen(g[k - 1], answer[k], failing)
  <2>1. k - 1 \in 0 .. n
    BY <1>0
  <2>2. g[k - 1] \in S
    BY <1>5, <2>1 DEF Follows
  <2> QED
    BY <1>4, <1>5, <2>2 DEF Follows
<1>7. g = [k \in 0 .. n |-> IF k = 0 THEN b ELSE Seen(g[k - 1], answer[k], failing)]
  BY <1>0, <1>5, <1>6 DEF Follows
<1>8. F = [k \in 0 .. n |-> IF k = 0 THEN b ELSE Seen(F[k - 1], answer[k], failing)]
  BY <1>7, Zenon
<1>9. Absorbed(answer, failing) = F[n]
  BY Zenon DEF Absorbed, Walk, b
<1> HIDE DEF F
<1>10. F[0] = b
  <2>1. 0 \in 0 .. n
    BY <1>0
  <2> QED
    BY <1>8, <2>1, Zenon
<1>11. ASSUME NEW k \in 1 .. n PROVE F[k] = Seen(F[k - 1], answer[k], failing)
  <2>1. k \in 0 .. n /\ k # 0
    BY <1>0
  <2> QED
    BY <1>8, <2>1, Zenon
<1> QED
  BY <1>9, <1>10, <1>11 DEF b

LEMMA AbsorbedKeeps ==
  ASSUME NEW answer \in Seq(Records), NEW failing, srv \in Seq(Service), lookups \in Seq(Waiting)
  PROVE  /\ Absorbed(answer, failing) \in Seeing
         /\ Matched(srv, lookups) /\ Fresh(srv, lookups) =>
              Matched(Absorbed(answer, failing).srv, Absorbed(answer, failing).lookups)
<1> DEFINE n == Len(answer)
           Fit(s, q) == Matched(s, q) /\ Fresh(s, q)
<1>0. n \in Nat
  BY LenProperties
<1>1. \A k \in 1 .. n : answer[k] \in Records
  BY ElementOfSeq
<1>2. PICK f : /\ f[0] = [srv |-> srv, lookups |-> lookups, rc |-> "not found", stop |-> FALSE]
               /\ \A k \in 1 .. n : f[k] = Seen(f[k - 1], answer[k], failing)
               /\ Absorbed(answer, failing) = f[n]
  BY WalkIs
<1> DEFINE P(k) == f[k] \in Seeing /\ (Fit(srv, lookups) => Fit(f[k].srv, f[k].lookups))
           T == {k \in 0 .. n : P(k)}
<1>3. P(0)
  <2>0. f[0] = [srv |-> srv, lookups |-> lookups, rc |-> "not found", stop |-> FALSE]
    BY <1>2, Zenon
  <2> DEFINE first == f[0]
  <2> HIDE DEF first
  <2>1. first = [srv |-> srv, lookups |-> lookups, rc |-> "not found", stop |-> FALSE]
    BY <2>0 DEF first
  <2>2. first.srv = srv /\ first.lookups = lookups
    BY <2>1
  <2>3. first \in Seeing
    BY <2>1 DEF Seeing
  <2> QED
    BY <2>2, <2>3, Zenon DEF first
<1>4. ASSUME NEW k \in 1 .. n, P(k - 1) PROVE P(k)
  <2> DEFINE st == f[k - 1]
  <2>1. f[k] = Seen(st, answer[k], failing) /\ answer[k] \in Records /\ st \in Seeing
    BY <1>1, <1>2, <1>4
  <2>2. Fit(srv, lookups) => Fit(st.srv, st.lookups)
    BY <1>4
  <2> HIDE DEF st
  <2>3. /\ Seen(st, answer[k], failing) \in Seeing
        /\ Fit(st.srv, st.lookups) => Fit(Seen(st, answer[k], failing).srv, Seen(st, answer[k], failing).lookups)
    BY <2>1, SeenKeeps, Zenon
  <2> QED
    BY <2>1, <2>2, <2>3, Zenon
<1> HIDE DEF P
<1>5. 0 \in T
  BY <1>0, <1>3
<1>6. ASSUME NEW k \in 1 .. n, k - 1 \in T PROVE k \in T
  BY <1>4, <1>6
<1> HIDE DEF T, n
<1>7. n \in T
  <2>1. 0 .. n \subseteq T
    BY <1>0, <1>5, <1>6, Induction, Zenon
  <2> QED
    BY <1>0, <2>1
<1>8. P(n)
  BY <1>7 DEF T
<1> QED
  BY <1>2, <1>8, Zenon DEF P

----------------------------------------------------------------------------
(* The inductive invariant.                                                *)

Typed == TypeOK /\ replies \in Nat

Told ==
  /\ Len(told) <= 1 /\ (told # << >> <=> ended \in {"told", "answered"})
  /\ service = "accept" => (ris = "freed" <=> ended \in {"told", "answered", "refused"})

\* A request that is not in the queue has nothing, unless it died there.
Phases ==
  /\ req = "ended" <=> ended # "no"
  /\ req \in {"new", "ended"} => srv = << >> /\ ina = << >>
  /\ req = "new" => replies = 0

\* Before a reply there is nothing to try.
Untouched ==
  replies = 0 => srv = << >> /\ ina = << >> /\ lookups = << >> /\ conns = << >> /\ tried = << >> /\ added = << >>

\* The addresses wait in the order of their priorities.
Sorted == Ascending(ina)

Counted ==
  /\ req = "queued" => \A a : Times(added, a) = Times(tried, a) + Times(ina, a)
  /\ told = <<"unavailable">> /\ ended = "told" => \A a : Times(added, a) = Times(tried, a)

\* After one reply the attempts begin when no record is left, and those that
\* wait come after those that were tried.
Once ==
  replies <= 1 =>
    /\ srv # << >> => tried = << >> /\ conns = << >>
    /\ Len(conns) <= 1
    /\ Ascending(tried \o ina)
    /\ Matched(srv, lookups)
    /\ ResolvedHost

IInv == Typed /\ Told /\ Phases /\ Untouched /\ Sorted /\ Counted /\ Once

----------------------------------------------------------------------------
(* The attempts.                                                           *)

LEMMA TimesEmpty == \A a : Times(<< >>, a) = 0
  BY FS_EmptySet DEF Times

\* Removing from a list.
LEMMA RemoveKeeps ==
  ASSUME NEW S, NEW s \in Seq(S), NEW i \in DOMAIN s
  PROVE  /\ RemoveAt(s, i) \in Seq(S) /\ Len(RemoveAt(s, i)) = Len(s) - 1
         /\ ToSet(RemoveAt(s, i)) \subseteq ToSet(s)
<1> DEFINE x == SubSeq(s, 1, i - 1)
           y == SubSeq(s, i + 1, Len(s))
<1>1. Len(s) \in Nat /\ DOMAIN s = 1 .. Len(s) /\ i \in 1 .. Len(s) /\ \A k \in 1 .. Len(s) : s[k] \in S
  BY LenProperties, ElementOfSeq
<1>2. x \in Seq(S) /\ Len(x) = i - 1 /\ \A k \in 1 .. i - 1 : x[k] = s[k]
  <2>1. 1 \in Int /\ i - 1 \in Int /\ \A k \in 1 .. i - 1 : s[k] \in S
    BY <1>1
  <2>2. /\ x \in Seq(S) /\ Len(x) = IF 1 <= i - 1 THEN (i - 1) - 1 + 1 ELSE 0
        /\ \A k \in 1 .. (i - 1) - 1 + 1 : x[k] = s[1 + k - 1]
    BY <2>1, SubSeqProperties
  <2> HIDE DEF x
  <2> QED
    BY <1>1, <2>2
<1>3. y \in Seq(S) /\ Len(y) = Len(s) - i /\ \A k \in 1 .. Len(s) - i : y[k] = s[i + k]
  <2>1. i + 1 \in Int /\ Len(s) \in Int /\ \A k \in i + 1 .. Len(s) : s[k] \in S
    BY <1>1
  <2>2. /\ y \in Seq(S) /\ Len(y) = IF i + 1 <= Len(s) THEN Len(s) - (i + 1) + 1 ELSE 0
        /\ \A k \in 1 .. Len(s) - (i + 1) + 1 : y[k] = s[(i + 1) + k - 1]
    BY <2>1, SubSeqProperties
  <2> HIDE DEF y
  <2>3. Len(y) = Len(s) - i
    BY <1>1, <2>2
  <2>4. ASSUME NEW k \in 1 .. Len(s) - i PROVE y[k] = s[i + k]
    <3>1. k \in 1 .. Len(s) - (i + 1) + 1 /\ (i + 1) + k - 1 = i + k
      BY <1>1
    <3> QED
      BY <2>2, <3>1
  <2> QED
    BY <2>2, <2>3, <2>4
<1>4. RemoveAt(s, i) = x \o y
  BY DEF RemoveAt
<1> HIDE DEF x, y
<1>5. x \o y \in Seq(S) /\ ToSet(x \o y) = ToSet(x) \cup ToSet(y) /\ Len(x \o y) = Len(x) + Len(y)
  BY <1>2, <1>3, ElementsConcat, ConcatProperties
<1>6. ToSet(x) \subseteq ToSet(s)
  <2>1. DOMAIN x = 1 .. i - 1 /\ \A k \in 1 .. i - 1 : k \in DOMAIN s
    BY <1>1, <1>2, LenProperties
  <2> QED
    BY <1>2, <2>1 DEF ToSet
<1>7. ToSet(y) \subseteq ToSet(s)
  <2>1. DOMAIN y = 1 .. Len(s) - i /\ \A k \in 1 .. Len(s) - i : i + k \in DOMAIN s
    BY <1>1, <1>3, LenProperties
  <2> QED
    BY <1>3, <2>1 DEF ToSet
<1>8. Len(x \o y) = Len(s) - 1
  BY <1>1, <1>2, <1>3, <1>5
<1> QED
  BY <1>4, <1>5, <1>6, <1>7, <1>8

LEMMA Associative == \A s, t, u \in Seq(Address) : (s \o t) \o u = s \o (t \o u)
  BY ConcatAssociative, SMTT(60)

\* try_next_server tries some of the addresses and keeps the others, in order.
LEMMA TryNextKeeps ==
  ASSUME NEW l \in Seq(Address), Ascending(l), NEW c, NEW records,
         tried \in Seq(Address), TryNext(l, c, records)
  PROVE  /\ tried' \in Seq(Address) /\ ina' \in Seq(Address) /\ Ascending(ina')
         /\ tried' \o ina' = tried \o l
         /\ \/ Tell("unavailable") /\ End("told") /\ conns' = c
            \/ UNCHANGED <<req, ris, told, ended>> /\ srv' = records /\ \E a \in Address : conns' = Append(c, a)
<1>1. Len(l) \in Nat /\ DOMAIN l = 1 .. Len(l) /\ \A i \in 1 .. Len(l) : l[i] \in Address
  BY LenProperties, ElementOfSeq
<1>2. PICK k \in 0 .. Len(l) :
        IF k = Len(l)
        THEN tried' = tried \o l /\ Tell("unavailable") /\ End("told") /\ conns' = c
        ELSE /\ tried' = tried \o SubSeq(l, 1, k + 1) /\ conns' = Append(c, l[k + 1])
             /\ ina' = SubSeq(l, k + 2, Len(l)) /\ srv' = records
             /\ UNCHANGED <<req, ris, told, ended>>
  BY DEF TryNext
<1>3. CASE k = Len(l)
  <2>1. tried' = tried \o l /\ Tell("unavailable") /\ End("told") /\ conns' = c
    BY <1>2, <1>3
  <2>2. ina' = << >>
    BY <2>1 DEF End
  <2>3. tried' \in Seq(Address)
    BY <2>1, ConcatProperties
  <2>4. tried' \o ina' = tried \o l
    BY <2>1, <2>2, <2>3, ConcatEmptySeq
  <2>5. Ascending(ina')
    BY <2>2 DEF Ascending
  <2> QED
    BY <2>1, <2>2, <2>3, <2>4, <2>5
<1>4. CASE k # Len(l)
  <2> DEFINE x == SubSeq(l, 1, k + 1)
             y == SubSeq(l, (k + 1) + 1, Len(l))
  <2>0. k + 1 \in 0 .. Len(l) /\ k + 1 \in 1 .. Len(l) /\ (k + 1) + 1 = k + 2
    <3>1. k \in 0 .. Len(l) /\ Len(l) \in Nat
      BY <1>1
    <3> QED
      BY <1>4, <3>1
  <2>1. /\ tried' = tried \o x /\ ina' = y /\ conns' = Append(c, l[k + 1]) /\ srv' = records
        /\ UNCHANGED <<req, ris, told, ended>>
    BY <1>2, <1>4, <2>0
  <2>2. /\ x \in Seq(Address) /\ y \in Seq(Address) /\ x \o y = l /\ Len(y) = Len(l) - (k + 1)
        /\ \A i \in 1 .. Len(l) - (k + 1) : y[i] = l[(k + 1) + i]
    BY <2>0, Parts
  <2> HIDE DEF x, y
  <2>3. tried' \in Seq(Address) /\ ina' \in Seq(Address)
    BY <2>1, <2>2, ConcatProperties
  <2>4. tried' \o ina' = tried \o l
    <3>1. (tried \o x) \o y = tried \o (x \o y)
      BY <2>2, Associative, Zenon
    <3>2. tried' = tried \o x /\ ina' = y /\ x \o y = l
      BY <2>1, <2>2
    <3> QED
      BY <3>1, <3>2, Zenon
  <2>5. Ascending(ina')
    <3>1. DOMAIN y = 1 .. Len(l) - (k + 1)
      BY <2>2, LenProperties
    <3>2. \A i \in 1 .. Len(l) - (k + 1) : (k + 1) + i \in 1 .. Len(l)
      BY <1>1, <2>0
    <3>3. ASSUME NEW i \in DOMAIN y, NEW j \in DOMAIN y, i < j PROVE y[i].priority <= y[j].priority
      <4>1. (k + 1) + i \in DOMAIN l /\ (k + 1) + j \in DOMAIN l /\ (k + 1) + i < (k + 1) + j
        BY <1>1, <3>1, <3>2, <3>3
      <4>2. l[(k + 1) + i].priority <= l[(k + 1) + j].priority
        BY <4>1 DEF Ascending
      <4> QED
        BY <2>2, <3>1, <4>2
    <3> QED
      BY <2>1, <3>3 DEF Ascending
  <2>6. \E a \in Address : conns' = Append(c, a)
    BY <1>1, <2>0, <2>1
  <2> QED
    BY <2>1, <2>3, <2>4, <2>5, <2>6
<1> QED
  BY <1>3, <1>4

LEMMA Types ==
  ASSUME IInv
  PROVE  /\ srv \in Seq(Service) /\ lookups \in Seq(Waiting) /\ replies \in Nat
         /\ ina \in Seq(Address) /\ conns \in Seq(Address) /\ added \in Seq(Address) /\ tried \in Seq(Address)
  BY DEF IInv, Typed, TypeOK, Waiting

\* Nothing was told as long as the request is in the queue.
LEMMA NotYet ==
  ASSUME IInv, req = "queued"
  PROVE  ended = "no" /\ told = << >> /\ (service = "accept" => ris # "freed")
  BY DEF IInv, Phases, Told

LEMMA OneTold ==
  ASSUME NEW S, NEW x \in S
  PROVE  Append(<< >>, x) = <<x>> /\ Len(<<x>>) <= 1 /\ <<x>> # << >> /\ <<x>> \in Seq(S)
  OBVIOUS

\* What the client is told when the request ends.
LEMMA TellKeeps ==
  ASSUME IInv, req = "queued", NEW code \in {"connected", "unavailable", "not found"},
         NEW why \in {"told", "answered"}, Tell(code), End(why), UNCHANGED <<service, arc4>>
  PROVE  /\ Told' /\ Phases' /\ told' = <<code>>
         /\ req' \in Stages /\ ris' \in {"none", "live", "freed"}
         /\ told' \in Seq({"connected", "unavailable", "not found"})
         /\ ended' \in {"no", "told", "answered", "expired", "cancelled", "refused"}
<1>1. told' = <<code>>
  <2>1. told' = Append(<< >>, code)
    BY NotYet DEF Tell
  <2> QED
    BY <2>1, OneTold, Zenon
<1>2. ris' = (IF service = "accept" THEN "freed" ELSE ris)
  BY DEF Tell
<1>3. ended' = why /\ req' = "ended" /\ srv' = << >> /\ ina' = << >>
  BY DEF End
<1>4. told' # << >> /\ told' \in Seq({"connected", "unavailable", "not found"})
  <2>1. <<code>> # << >> /\ <<code>> \in Seq({"connected", "unavailable", "not found"})
    BY OneTold
  <2> QED
    BY <1>1, <2>1, Zenon
<1>5. Told'
  <2>1. ended' \in {"told", "answered"} /\ ended' \in {"told", "answered", "refused"}
    BY <1>3
  <2>2. Len(told') <= 1
    BY <1>1, OneTold, Zenon
  <2>3. service' = "accept" => ris' = "freed"
    BY <1>2, Zenon
  <2> QED
    BY <1>4, <2>1, <2>2, <2>3, Zenon DEF Told
<1>6. Phases'
  BY <1>3 DEF Phases
<1>7. ris' \in {"none", "live", "freed"}
  BY <1>2 DEF IInv, Typed, TypeOK
<1> QED
  BY <1>1, <1>3, <1>4, <1>5, <1>6, <1>7 DEF Stages

\* An attempt to the next of the addresses l.
LEMMA TryNextSafe ==
  ASSUME IInv, req = "queued", NEW l \in Seq(Address), Ascending(l), NEW c \in Seq(Address),
         NEW records \in Seq(Service), TryNext(l, c, records),
         UNCHANGED <<service, arc4, replies>>, added' \in Seq(Address), lookups' \in Seq(Waiting), replies > 0,
         \A a : Times(added', a) = Times(tried, a) + Times(l, a),
         replies <= 1 => /\ c = << >> /\ records = << >> /\ Ascending(tried \o l)
                         /\ \A a \in ToSet(added') : Belongs(a)
  PROVE  IInv'
<1>0. tried \in Seq(Address) /\ replies \in Nat /\ replies' = replies /\ service' = service /\ arc4' = arc4
  BY Types
<1>1. /\ tried' \in Seq(Address) /\ ina' \in Seq(Address) /\ Ascending(ina')
      /\ tried' \o ina' = tried \o l
      /\ \/ Tell("unavailable") /\ End("told") /\ conns' = c
         \/ UNCHANGED <<req, ris, told, ended>> /\ srv' = records /\ \E a \in Address : conns' = Append(c, a)
  BY <1>0, TryNextKeeps
<1>2. ASSUME NEW a PROVE Times(added', a) = Times(tried', a) + Times(ina', a)
  <2>1. Times(tried' \o ina', a) = Times(tried', a) + Times(ina', a)
    <3> DEFINE t == tried'
               i == ina'
    <3>1. t \in Seq(Address) /\ i \in Seq(Address)
      BY <1>1
    <3> HIDE DEF t, i
    <3>2. Times(t \o i, a) = Times(t, a) + Times(i, a)
      BY <3>1, TimesConcat
    <3> QED
      BY <3>2 DEF t, i
  <2>2. Times(tried \o l, a) = Times(tried, a) + Times(l, a)
    BY <1>0, TimesConcat, Zenon
  <2>3. Times(tried' \o ina', a) = Times(tried \o l, a)
    BY <1>1, Zenon
  <2> QED
    BY <2>1, <2>2, <2>3, Zenon
<1>3. replies <= 1 => Ascending(tried' \o ina')
  BY <1>1, Zenon
<1>4. Sorted' /\ Untouched'
  BY <1>0, <1>1 DEF Sorted, Untouched
<1>5. ASSUME replies <= 1 PROVE ResolvedHost'
  BY <1>5 DEF ResolvedHost, Belongs
<1>6. service' \in {"connect", "accept"} /\ arc4' \in BOOLEAN /\ replies' \in Nat
  BY <1>0 DEF IInv, Typed, TypeOK
<1>7. ASSUME Tell("unavailable"), End("told"), conns' = c PROVE IInv'
  <2>1. /\ Told' /\ Phases' /\ told' = <<"unavailable">>
        /\ req' \in Stages /\ ris' \in {"none", "live", "freed"}
        /\ told' \in Seq({"connected", "unavailable", "not found"})
        /\ ended' \in {"no", "told", "answered", "expired", "cancelled", "refused"}
    BY <1>0, <1>7, TellKeeps
  <2>2. srv' = << >> /\ ina' = << >> /\ req' = "ended"
    BY <1>7 DEF End
  <2>3. Typed'
    <3>1. srv' \in Seq(Service)
      BY <2>2
    <3>2. conns' \in Seq(Address)
      BY <1>7
    <3> QED
      BY <1>1, <1>6, <2>1, <3>1, <3>2 DEF Typed, TypeOK, Waiting
  <2>4. Counted'
    <3>1. ASSUME NEW a PROVE Times(added', a) = Times(tried', a)
      <4>1. Times(ina', a) = 0
        BY <2>2, TimesEmpty
      <4>2. Times(tried', a) \in Nat
        BY <1>1, PlacesFinite
      <4> QED
        BY <1>2, <4>1, <4>2
    <3> QED
      BY <2>2, <3>1 DEF Counted
  <2>5. Once'
    <3>1. replies <= 1 => Len(conns') <= 1
      BY <1>7
    <3>2. Matched(srv', lookups')
      BY <2>2 DEF Matched, ToSet
    <3> QED
      BY <1>0, <1>3, <1>5, <2>2, <3>1, <3>2 DEF Once
  <2> QED
    BY <1>4, <2>1, <2>3, <2>4, <2>5 DEF IInv
<1>8. ASSUME UNCHANGED <<req, ris, told, ended>>, srv' = records, NEW x \in Address, conns' = Append(c, x) PROVE IInv'
  <2>1. conns' \in Seq(Address) /\ Len(conns') = Len(c) + 1
    BY <1>8, AppendProperties
  <2>2. Typed'
    <3>1. srv' \in Seq(Service)
      BY <1>8
    <3>2. /\ req' \in Stages /\ ris' \in {"none", "live", "freed"}
          /\ told' \in Seq({"connected", "unavailable", "not found"})
          /\ ended' \in {"no", "told", "answered", "expired", "cancelled", "refused"}
      BY <1>8 DEF IInv, Typed, TypeOK
    <3> QED
      BY <1>1, <1>6, <2>1, <3>1, <3>2 DEF Typed, TypeOK, Waiting
  <2>3. Told'
    BY <1>0, <1>8 DEF IInv, Told
  <2>4. Phases'
    BY <1>0, <1>8 DEF IInv, Phases
  <2>5. Counted'
    BY <1>2, <1>8, NotYet DEF Counted
  <2>6. Once'
    <3>1. ASSUME replies <= 1 PROVE Len(conns') <= 1 /\ srv' = << >>
      BY <1>8, <2>1, <3>1
    <3>2. ASSUME replies <= 1 PROVE Matched(srv', lookups')
      BY <3>1, <3>2 DEF Matched, ToSet
    <3> QED
      BY <1>0, <1>3, <1>5, <3>1, <3>2 DEF Once
  <2> QED
    BY <1>4, <2>2, <2>3, <2>4, <2>5, <2>6 DEF IInv
<1> QED
  BY <1>1, <1>7, <1>8

----------------------------------------------------------------------------
(* The handlers.                                                           *)

LEMMA AscendingPart ==
  ASSUME NEW s \in Seq(Address), NEW t \in Seq(Address), Ascending(s \o t)
  PROVE  Ascending(s)
<1> DEFINE u == s \o t
<1>1. /\ Len(s) \in Nat /\ Len(t) \in Nat /\ DOMAIN s = 1 .. Len(s)
      /\ DOMAIN u = 1 .. Len(s) + Len(t)
      /\ \A i \in 1 .. Len(s) + Len(t) : u[i] = IF i <= Len(s) THEN s[i] ELSE t[i - Len(s)]
  BY ConcatProperties, LenProperties
<1>2. \A i, j \in DOMAIN u : i < j => u[i].priority <= u[j].priority
  BY DEF Ascending
<1> HIDE DEF u
<1>3. \A i \in DOMAIN s : i \in DOMAIN u /\ u[i] = s[i]
  BY <1>1
<1> QED
  BY <1>2, <1>3 DEF Ascending

LEMMA NothingWaits == Ascending(<< >>) /\ (<< >> \o << >> = << >>) /\ ToSet(<< >>) = {} /\ Len(<< >>) = 0
  BY EmptySeq DEF Ascending, ToSet

LEMMA InitSafe == Init => IInv
<1> SUFFICES ASSUME Init PROVE IInv
  OBVIOUS
<1>1. /\ service \in {"connect", "accept"} /\ arc4 \in BOOLEAN /\ req = "new" /\ ris = "none" /\ replies = 0 /\ ended = "no"
      /\ srv = << >> /\ ina = << >> /\ lookups = << >> /\ conns = << >> /\ told = << >> /\ added = << >> /\ tried = << >>
  BY DEF Init
<1>2. Typed
  BY <1>1 DEF Typed, TypeOK, Stages
<1>3. Told /\ Phases /\ Untouched /\ Counted
  BY <1>1, NothingWaits DEF Told, Phases, Untouched, Counted
<1>4. Sorted
  BY <1>1, NothingWaits DEF Sorted
<1>5. Once
  <2>1. ResolvedHost /\ Matched(srv, lookups)
    BY <1>1, NothingWaits DEF ResolvedHost, Matched
  <2>2. Ascending(tried \o ina)
    BY <1>1, NothingWaits
  <2>3. Len(conns) <= 1
    BY <1>1
  <2> QED
    BY <1>1, <2>1, <2>2, <2>3 DEF Once
<1> QED
  BY <1>2, <1>3, <1>4, <1>5 DEF IInv

\* The request ends.
LEMMA EndOnce ==
  ASSUME IInv, srv' = << >>, ina' = << >>, UNCHANGED <<added, tried>>, replies' \in Nat, replies' >= replies,
         replies' <= 1 => Len(conns') <= 1
  PROVE  Once' /\ Sorted'
<1>1. Sorted'
  BY NothingWaits DEF Sorted
<1>2. tried \in Seq(Address) /\ ina \in Seq(Address) /\ replies \in Nat
  BY Types
<1>3. ASSUME replies' <= 1 PROVE Ascending(tried' \o ina') /\ ResolvedHost'
  <2>1. replies <= 1
    BY <1>2, <1>3
  <2>2. Ascending(tried \o ina) /\ ResolvedHost
    BY <2>1 DEF IInv, Once
  <2>3. Ascending(tried)
    BY <1>2, <2>2, AscendingPart
  <2>4. tried' \o ina' = tried
    BY <1>2, ConcatEmptySeq
  <2>5. Ascending(tried' \o ina')
    BY <2>3, <2>4, Zenon
  <2> QED
    BY <2>2, <2>5 DEF ResolvedHost
<1>4. Matched(srv', lookups')
  BY NothingWaits DEF Matched
<1> QED
  BY <1>1, <1>3, <1>4 DEF Once

LEMMA LeaveSafe ==
  ASSUME IInv, req # "ended", NEW why \in {"expired", "cancelled", "refused"}, End(why),
         UNCHANGED <<service, arc4, lookups, conns, told, replies, added, tried>>,
         ris' = IF why = "refused" /\ service = "accept" THEN "freed" ELSE ris
  PROVE  IInv'
<1>1. ended' = why /\ req' = "ended" /\ srv' = << >> /\ ina' = << >>
  BY DEF End
<1>2. ended = "no"
  BY DEF IInv, Phases
<1>3. Typed'
  <2>1. srv' \in Seq(Service) /\ ina' \in Seq(Address)
    BY <1>1
  <2>2. req' \in Stages /\ ended' \in {"no", "told", "answered", "expired", "cancelled", "refused"}
    BY <1>1 DEF Stages
  <2>3. ris' \in {"none", "live", "freed"}
    BY DEF IInv, Typed, TypeOK
  <2> QED
    BY <2>1, <2>2, <2>3 DEF IInv, Typed, TypeOK
<1>4. Told'
  <2>1. told = << >> /\ told' = << >> /\ service' = service /\ ended' \notin {"told", "answered"}
    BY <1>1, <1>2 DEF IInv, Told
  <2>2. Len(told') <= 1
    BY <2>1
  <2>3. service = "accept" => ris # "freed"
    BY <1>2 DEF IInv, Told
  <2>4. service' = "accept" => (ris' = "freed" <=> ended' \in {"told", "answered", "refused"})
    BY <1>1, <2>1, <2>3
  <2> QED
    BY <2>1, <2>2, <2>4 DEF Told
<1>8. Phases' /\ Untouched' /\ Counted'
  BY <1>1, <1>2 DEF IInv, Phases, Untouched, Counted
<1>5. replies \in Nat /\ replies' = replies /\ conns' = conns
  BY Types
<1>6. replies' <= 1 => Len(conns') <= 1
  BY <1>5 DEF IInv, Once
<1>7. Once' /\ Sorted'
  BY <1>1, <1>5, <1>6, EndOnce
<1> QED
  BY <1>3, <1>4, <1>7, <1>8 DEF IInv

LEMMA BeginSafe ==
  ASSUME IInv, Begin
  PROVE  IInv'
<1>1. req = "new" /\ ended = "no" /\ srv = << >> /\ ina = << >>
  BY DEF IInv, Phases, Begin
<1>2. CASE req' = "queued" /\ ris' = (IF service = "accept" THEN "live" ELSE ris) /\ UNCHANGED <<srv, ina, ended>>
  <2>1. UNCHANGED <<service, arc4, lookups, conns, told, replies, added, tried>>
    BY DEF Begin
  <2>2. Typed'
    BY <1>2, <2>1 DEF IInv, Typed, TypeOK, Stages
  <2>3. told = << >> /\ Told'
    BY <1>1, <1>2, <2>1 DEF IInv, Told
  <2>5. Phases' /\ Untouched' /\ Sorted' /\ Once'
    BY <1>1, <1>2, <2>1 DEF IInv, Phases, Untouched, Sorted, Once, ResolvedHost
  <2>6. Counted'
    <3>1. replies = 0 /\ added' = << >> /\ tried' = << >> /\ ina' = << >> /\ ended' = "no"
      BY <1>1, <1>2, <2>1 DEF IInv, Phases, Untouched
    <3>2. \A a : Times(added', a) = Times(tried', a) + Times(ina', a)
      BY <3>1, TimesEmpty
    <3> QED
      BY <3>1, <3>2 DEF Counted
  <2> QED
    BY <2>2, <2>3, <2>5, <2>6 DEF IInv
<1>3. CASE End("refused") /\ ris' = (IF service = "accept" THEN "freed" ELSE ris)
  <2>1. /\ req # "ended" /\ ris' = IF "refused" = "refused" /\ service = "accept" THEN "freed" ELSE ris
        /\ UNCHANGED <<service, arc4, lookups, conns, told, replies, added, tried>>
    BY <1>1, <1>3 DEF Begin
  <2> QED
    BY <1>3, <2>1, LeaveSafe
<1> QED
  BY <1>2, <1>3 DEF Begin

LEMMA QuietSafe ==
  ASSUME IInv, NEW why \in {"expired", "cancelled"}, Quiet(why)
  PROVE  IInv'
<1>1. /\ req # "ended" /\ End(why) /\ UNCHANGED <<service, arc4, lookups, conns, told, replies, added, tried>>
      /\ ris' = IF why = "refused" /\ service = "accept" THEN "freed" ELSE ris
  BY DEF Quiet, ways
<1> QED
  BY <1>1, LeaveSafe

\* A connection reported something that changes nothing else.
LEMMA DropSafe ==
  ASSUME IInv, NEW i \in DOMAIN conns, Reported(i),
         UNCHANGED <<service, arc4, req, srv, ina, lookups, ris, told, replies, added, tried, ended>>
  PROVE  IInv'
<1>1. conns \in Seq(Address) /\ Len(conns) \in Nat /\ DOMAIN conns = 1 .. Len(conns) /\ replies \in Nat
  BY Types, LenProperties
<1>2. conns' \in Seq(Address) /\ Len(conns') = Len(conns) - 1
  BY <1>1, RemoveKeeps DEF Reported
<1>3. Typed'
  BY <1>2 DEF IInv, Typed, TypeOK
<1>4. Told' /\ Phases' /\ Sorted' /\ Counted'
  BY DEF IInv, Told, Phases, Sorted, Counted
<1>5. conns # << >>
  BY <1>1
<1>6. Untouched'
  BY <1>5 DEF IInv, Untouched
<1>7. Once'
  <2>1. Len(conns) <= 1 => Len(conns') <= 1
    BY <1>1, <1>2
  <2> QED
    BY <1>5, <2>1 DEF IInv, Once, ResolvedHost
<1> QED
  BY <1>3, <1>4, <1>6, <1>7 DEF IInv

LEMMA ConnectedSafe ==
  ASSUME IInv, NEW i \in DOMAIN conns, Connected(i)
  PROVE  IInv'
<1>1. CASE req # "queued"
  BY <1>1, DropSafe DEF Connected
<1>2. CASE req = "queued"
  <2>1. /\ Tell("connected") /\ End("told") /\ conns' = RemoveAt(conns, i)
        /\ UNCHANGED <<service, arc4, lookups, replies, added, tried>>
    BY <1>2 DEF Connected, Reported
  <2>2. /\ Told' /\ Phases' /\ told' = <<"connected">>
        /\ req' \in Stages /\ ris' \in {"none", "live", "freed"}
        /\ told' \in Seq({"connected", "unavailable", "not found"})
        /\ ended' \in {"no", "told", "answered", "expired", "cancelled", "refused"}
    BY <1>2, <2>1, TellKeeps
  <2>3. req' = "ended" /\ srv' = << >> /\ ina' = << >>
    BY <2>1 DEF End
  <2>4. conns \in Seq(Address) /\ Len(conns) \in Nat /\ DOMAIN conns = 1 .. Len(conns) /\ replies \in Nat
    BY Types, LenProperties
  <2>5. conns' \in Seq(Address) /\ Len(conns') = Len(conns) - 1
    BY <2>1, <2>4, RemoveKeeps
  <2>6. Typed'
    <3>1. srv' \in Seq(Service) /\ ina' \in Seq(Address)
      BY <2>3
    <3> QED
      BY <2>1, <2>2, <2>5, <3>1 DEF IInv, Typed, TypeOK
  <2>7. replies' \in Nat /\ replies' >= replies /\ (replies' <= 1 => Len(conns') <= 1)
    <3>1. replies <= 1 => Len(conns) <= 1
      BY DEF IInv, Once
    <3> QED
      BY <2>1, <2>4, <2>5, <3>1
  <2>8. Once' /\ Sorted'
    BY <2>1, <2>3, <2>7, EndOnce
  <2>9. conns # << >>
    BY <2>4
  <2>10. Untouched'
    BY <2>1, <2>9 DEF IInv, Untouched
  <2>11. Counted'
    <3>1. told' # <<"unavailable">>
      BY <2>2
    <3> QED
      BY <2>3, <3>1 DEF Counted
  <2> QED
    BY <2>2, <2>6, <2>8, <2>10, <2>11 DEF IInv
<1> QED
  BY <1>1, <1>2

LEMMA FailedSafe ==
  ASSUME IInv, NEW i \in DOMAIN conns, Failed(i)
  PROVE  IInv'
<1>1. CASE req # "queued"
  BY <1>1, DropSafe DEF Failed
<1>2. CASE req = "queued"
  <2>1. TryNext(ina, RemoveAt(conns, i), srv) /\ UNCHANGED <<service, arc4, lookups, replies, added>>
    BY <1>2 DEF Failed
  <2> DEFINE c == RemoveAt(conns, i)
  <2>2. /\ conns \in Seq(Address) /\ Len(conns) \in Nat /\ DOMAIN conns = 1 .. Len(conns) /\ replies \in Nat
        /\ ina \in Seq(Address) /\ srv \in Seq(Service) /\ added \in Seq(Address) /\ lookups \in Seq(Waiting)
    BY Types, LenProperties
  <2>3. c \in Seq(Address) /\ Len(c) = Len(conns) - 1
    BY <2>2, RemoveKeeps
  <2>4. conns # << >>
    BY <2>2
  <2>5. replies > 0
    BY <2>2, <2>4 DEF IInv, Untouched
  <2>6. Ascending(ina) /\ \A a : Times(added', a) = Times(tried, a) + Times(ina, a)
    BY <1>2, <2>1 DEF IInv, Sorted, Counted
  <2> HIDE DEF c
  <2>7. ASSUME replies <= 1
        PROVE  /\ c = << >> /\ srv = << >> /\ Ascending(tried \o ina)
               /\ \A a \in ToSet(added') : Belongs(a)
    <3>1. Len(conns) <= 1 /\ srv = << >> /\ Ascending(tried \o ina) /\ ResolvedHost
      BY <2>4, <2>7 DEF IInv, Once
    <3>2. Len(c) = 0
      BY <2>2, <2>3, <3>1, LenProperties
    <3>3. c = << >>
      BY <2>3, <3>2, EmptySeq
    <3> QED
      BY <2>1, <3>1, <3>3 DEF ResolvedHost, Belongs
  <2>8. added' \in Seq(Address) /\ lookups' \in Seq(Waiting) /\ UNCHANGED <<service, arc4, replies>>
    BY <2>1, <2>2
  <2>9. TryNext(ina, c, srv)
    BY <2>1 DEF c
  <2> QED
    BY <1>2, <2>2, <2>3, <2>5, <2>6, <2>7, <2>8, <2>9, TryNextSafe
<1> QED
  BY <1>1, <1>2

LEMMA ClosedSafe ==
  ASSUME IInv, NEW i \in DOMAIN conns, Closed(i)
  PROVE  IInv'
  BY DropSafe DEF Closed, ways

LEMMA ReplySafe ==
  ASSUME IInv, NEW answer \in Answers, Reply(answer)
  PROVE  IInv'
<1>1. PICK failing \in SUBSET Hosts :
        /\ lookups' = Absorbed(answer, failing).lookups
        /\ IF Absorbed(answer, failing).srv = << >>
           THEN Tell(Absorbed(answer, failing).rc) /\ End("answered")
           ELSE srv' = Absorbed(answer, failing).srv /\ UNCHANGED <<req, ina, ris, told, ended>>
  BY DEF Reply
<1> DEFINE st == Absorbed(answer, failing)
<1>2. /\ req = "queued" /\ replies' = replies + 1
      /\ UNCHANGED <<service, arc4, conns, added, tried>>
  BY DEF Reply
<1>3. answer \in Seq(Records)
  BY GetSrvAssumption DEF Records
<1>4. /\ srv \in Seq(Service) /\ lookups \in Seq(Waiting) /\ replies \in Nat /\ conns \in Seq(Address)
      /\ ina \in Seq(Address)
  BY Types
<1>5. /\ st \in Seeing
      /\ Matched(srv, lookups) /\ Fresh(srv, lookups) => Matched(st.srv, st.lookups)
  BY <1>3, <1>4, AbsorbedKeeps, Zenon
<1> HIDE DEF st
<1>6. /\ st.srv \in Seq(Service) /\ st.lookups \in Seq(Waiting) /\ st.rc \in {"not found", "unavailable"}
  BY <1>5 DEF Seeing
<1>7. lookups' = st.lookups
  BY <1>1 DEF st
<1>8. replies' \in Nat /\ replies' >= replies /\ replies' # 0 /\ (replies' <= 1 => replies = 0)
  BY <1>2, <1>4
<1>9. replies = 0 => srv = << >> /\ ina = << >> /\ lookups = << >> /\ conns = << >> /\ tried = << >> /\ added = << >>
  BY DEF IInv, Untouched
<1>10. replies' <= 1 => Len(conns') <= 1
  <2>1. Len(<< >>) <= 1
    OBVIOUS
  <2> QED
    BY <1>2, <1>8, <1>9, <2>1, Zenon
<1>11. Untouched'
  BY <1>8 DEF Untouched
<1>12. CASE st.srv = << >>
  <2>1. Tell(st.rc) /\ End("answered")
    BY <1>1, <1>12 DEF st
  <2>2. st.rc \in {"connected", "unavailable", "not found"} /\ UNCHANGED <<service, arc4>>
    BY <1>2, <1>6
  <2>3. /\ Told' /\ Phases'
        /\ req' \in Stages /\ ris' \in {"none", "live", "freed"}
        /\ told' \in Seq({"connected", "unavailable", "not found"})
        /\ ended' \in {"no", "told", "answered", "expired", "cancelled", "refused"}
    BY <1>2, <2>1, <2>2, TellKeeps
  <2>4. req' = "ended" /\ ended' = "answered" /\ srv' = << >> /\ ina' = << >>
    BY <2>1 DEF End
  <2>5. Typed'
    <3>1. srv' \in Seq(Service) /\ ina' \in Seq(Address) /\ lookups' \in Seq(Waiting)
      <4>1. srv' \in Seq(Service) /\ ina' \in Seq(Address)
        BY <2>4
      <4>2. lookups' \in Seq(Waiting)
        BY <1>6, <1>7, Zenon
      <4> QED
        BY <4>1, <4>2
    <3>2. service' \in {"connect", "accept"} /\ arc4' \in BOOLEAN /\ {ina', conns', added', tried'} \subseteq Seq(Address)
      BY <1>2, <3>1 DEF IInv, Typed, TypeOK
    <3>3. TypeOK'
      BY <2>3, <3>1, <3>2, Zenon DEF TypeOK, Waiting
    <3> QED
      BY <1>8, <3>3 DEF Typed
  <2>6. Once' /\ Sorted'
    BY <1>2, <1>8, <1>10, <2>4, EndOnce
  <2>7. Counted'
    BY <2>4 DEF Counted
  <2> QED
    BY <1>11, <2>3, <2>5, <2>6, <2>7 DEF IInv
<1>13. CASE st.srv # << >>
  <2>1. srv' = st.srv /\ UNCHANGED <<req, ina, ris, told, ended>>
    BY <1>1, <1>13 DEF st
  <2>2. Typed'
    <3>1. srv' \in Seq(Service) /\ lookups' \in Seq(Waiting)
      BY <1>6, <1>7, <2>1
    <3> QED
      BY <1>2, <1>8, <2>1, <3>1 DEF IInv, Typed, TypeOK, Waiting
  <2>3. Told'
    BY <1>2, <2>1 DEF IInv, Told
  <2>4. Phases' /\ Sorted'
    BY <1>2, <2>1 DEF IInv, Phases, Sorted
  <2>5. Counted'
    BY <1>2, <2>1 DEF IInv, Counted
  <2>6. Once'
    <3> SUFFICES ASSUME replies' <= 1
                 PROVE  /\ tried' = << >> /\ conns' = << >> /\ Len(conns') <= 1
                        /\ Ascending(tried' \o ina') /\ Matched(srv', lookups') /\ ResolvedHost'
      BY DEF Once
    <3>1. srv = << >> /\ ina = << >> /\ lookups = << >> /\ conns = << >> /\ tried = << >> /\ added = << >>
      BY <1>8, <1>9
    <3>2. Matched(st.srv, st.lookups)
      <4>1. Matched(srv, lookups) /\ Fresh(srv, lookups)
        BY <3>1, NothingWaits DEF Matched, Fresh
      <4> QED
        BY <1>5, <4>1
    <3>3. Matched(srv', lookups')
      BY <1>7, <2>1, <3>2
    <3>4. tried' = << >> /\ ina' = << >> /\ conns' = << >> /\ added' = << >>
      BY <1>2, <2>1, <3>1
    <3>5. Ascending(tried' \o ina')
      BY <3>4, NothingWaits, Zenon
    <3>6. ResolvedHost'
      BY <3>4, NothingWaits DEF ResolvedHost
    <3> QED
      BY <1>10, <3>3, <3>4, <3>5, <3>6
  <2> QED
    BY <1>11, <2>2, <2>3, <2>4, <2>5, <2>6 DEF IInv
<1> QED
  BY <1>12, <1>13

\* The records of a host give way to addrs.
LEMMA ApplySafe ==
  ASSUME IInv, NEW host, NEW addrs \in Seq(AnyAddr), Apply(host, addrs), req = "queued", srv # << >>,
         UNCHANGED <<service, arc4, replies>>, lookups' \in Seq(Waiting), ToSet(lookups') \subseteq ToSet(lookups),
         replies <= 1 => \E h \in Hosts : Kept[h] = host /\ ToSet(addrs) \subseteq ToSet(AddressesOf[h])
  PROVE  IInv'
<1> DEFINE st == Expanded(host, addrs)
<1>1. /\ srv \in Seq(Service) /\ ina \in Seq(Address) /\ conns \in Seq(Address) /\ replies \in Nat
      /\ added \in Seq(Address) /\ tried \in Seq(Address)
  BY Types
<1>2. /\ st \in Replacing
      /\ \A a : Times(st.added, a) + Times(ina, a) = Times(added, a) + Times(st.ina, a)
      /\ Ascending(ina) => Ascending(st.ina)
      /\ ToSet(st.srv) \subseteq ToSet(srv)
      /\ ToSet(st.added) \subseteq ToSet(added) \cup OfHost(host, addrs)
  BY <1>1, ExpandedKeeps
<1>3. /\ added' = st.added
      /\ IF st.srv = << >>
         THEN \/ \E o \in Orders(st.ina) : TryNext(Arranged(st.ina, o), conns, << >>)
              \/ req' = "died" /\ UNCHANGED <<srv, ina, conns, ris, told, tried, ended>>
         ELSE srv' = st.srv /\ ina' = st.ina /\ UNCHANGED <<req, conns, ris, told, tried, ended>>
  BY DEF Apply
<1> HIDE DEF st
<1>4. st.srv \in Seq(Service) /\ st.ina \in Seq(Address) /\ st.added \in Seq(Address)
  BY <1>2 DEF Replacing
<1>5. Ascending(st.ina)
  BY <1>2 DEF IInv, Sorted
<1>6. ASSUME NEW a PROVE Times(added', a) = Times(tried, a) + Times(st.ina, a)
  <2> DEFINE t1 == Times(st.added, a)
             t2 == Times(st.ina, a)
             t3 == Times(added, a)
             t4 == Times(ina, a)
             t5 == Times(tried, a)
  <2>1. t1 \in Nat /\ t2 \in Nat /\ t3 \in Nat /\ t4 \in Nat /\ t5 \in Nat
    BY <1>1, <1>4, PlacesFinite
  <2>2. t1 + t4 = t3 + t2
    BY <1>2
  <2>3. t3 = t5 + t4
    BY DEF IInv, Counted
  <2> HIDE DEF t1, t2, t3, t4, t5
  <2>4. t1 = t5 + t2
    BY <2>1, <2>2, <2>3
  <2> QED
    BY <1>3, <2>4, Zenon DEF t1, t2, t5
<1>7. replies <= 1 => \A a \in ToSet(added') : Belongs(a)
  <2> SUFFICES ASSUME replies <= 1, NEW a \in ToSet(added') PROVE Belongs(a)
    OBVIOUS
  <2>1. \A b \in ToSet(added) : Belongs(b)
    BY DEF IInv, Once, ResolvedHost, Belongs
  <2>2. a \in ToSet(added) \/ a \in OfHost(host, addrs)
    BY <1>2, <1>3
  <2>3. ASSUME a \in OfHost(host, addrs) PROVE Belongs(a)
    BY <2>2, <2>3 DEF OfHost, Belongs
  <2> QED
    BY <2>1, <2>2, <2>3
<1>8. replies > 0
  BY <1>1 DEF IInv, Untouched
<1>9. replies <= 1 => tried = << >> /\ conns = << >>
  BY DEF IInv, Once
<1>10. CASE \E o \in Orders(st.ina) : TryNext(Arranged(st.ina, o), conns, << >>)
  <2>1. PICK o \in Orders(st.ina) : TryNext(Arranged(st.ina, o), conns, << >>)
    BY <1>10
  <2> DEFINE l == Arranged(st.ina, o)
  <2>2. l \in Seq(Address) /\ Ascending(l) /\ \A a : Times(l, a) = Times(st.ina, a)
    BY <1>4, <1>5, OrdersKeep
  <2>3. TryNext(l, conns, << >>)
    BY <2>1
  <2> HIDE DEF l
  <2>4. \A a : Times(added', a) = Times(tried, a) + Times(l, a)
    BY <1>6, <2>2
  <2>5. replies <= 1 => Ascending(tried \o l)
    <3>1. << >> \o l = l
      BY <2>2, ConcatEmptySeq
    <3> QED
      BY <1>9, <2>2, <3>1, Zenon
  <2> DEFINE none == << >>
  <2>6. none \in Seq(Service) /\ TryNext(l, conns, none) /\ added' \in Seq(Address)
    BY <1>3, <1>4, <2>3
  <2>7. replies <= 1 => conns = << >> /\ none = << >>
    BY <1>9
  <2> HIDE DEF none
  <2> QED
    BY <1>1, <1>7, <1>8, <2>2, <2>4, <2>5, <2>6, <2>7, TryNextSafe
<1>11. CASE st.srv # << >>
  <2>1. srv' = st.srv /\ ina' = st.ina /\ UNCHANGED <<req, conns, ris, told, tried, ended>>
    BY <1>3, <1>11
  <2>2. Typed'
    <3>1. srv' \in Seq(Service) /\ ina' \in Seq(Address) /\ added' \in Seq(Address)
      BY <1>3, <1>4, <2>1
    <3> QED
      BY <2>1, <3>1 DEF IInv, Typed, TypeOK, Waiting
  <2>3. Told'
    BY <2>1 DEF IInv, Told
  <2>4. Phases'
    BY <2>1 DEF IInv, Phases
  <2>5. Sorted' /\ Untouched'
    BY <1>5, <1>8, <2>1 DEF Sorted, Untouched
  <2>6. Counted'
    <3>1. \A a : Times(added', a) = Times(tried', a) + Times(ina', a)
      BY <1>6, <2>1, Zenon
    <3>2. ended' = "no"
      BY <2>1, NotYet
    <3> QED
      BY <3>1, <3>2 DEF Counted
  <2>7. Once'
    <3> SUFFICES ASSUME replies' <= 1
                 PROVE  /\ tried' = << >> /\ conns' = << >> /\ Len(conns') <= 1
                        /\ Ascending(tried' \o ina') /\ Matched(srv', lookups') /\ ResolvedHost'
      BY DEF Once
    <3>1. tried' = << >> /\ conns' = << >>
      BY <1>9, <2>1
    <3>2. Len(conns') <= 1
      BY <3>1
    <3>3. Ascending(tried' \o ina')
      <4>1. << >> \o st.ina = st.ina
        BY <1>4, ConcatEmptySeq
      <4> QED
        BY <1>5, <2>1, <3>1, <4>1, Zenon
    <3>4. Matched(srv, lookups)
      BY DEF IInv, Once
    <3>5. Matched(srv', lookups')
      BY <1>2, <2>1, <3>4 DEF Matched
    <3>6. ResolvedHost'
      BY <1>7 DEF ResolvedHost, Belongs
    <3> QED
      BY <3>1, <3>2, <3>3, <3>5, <3>6
  <2> QED
    BY <2>2, <2>3, <2>4, <2>5, <2>6, <2>7 DEF IInv
<1>12. CASE req' = "died" /\ UNCHANGED <<srv, ina, conns, ris, told, tried, ended>>
  <2>1. Typed'
    <3>1. added' \in Seq(Address) /\ req' \in Stages
      BY <1>3, <1>4, <1>12 DEF Stages
    <3> QED
      BY <1>12, <3>1 DEF IInv, Typed, TypeOK, Waiting
  <2>2. Told' /\ Sorted'
    BY <1>12 DEF IInv, Told, Sorted
  <2>3. ended' = "no"
    BY <1>12, NotYet
  <2>4. Phases' /\ Untouched' /\ Counted'
    BY <1>8, <1>12, <2>3 DEF Phases, Untouched, Counted
  <2>5. Once'
    <3> SUFFICES ASSUME replies <= 1
                 PROVE  /\ srv' # << >> => tried' = << >> /\ conns' = << >>
                        /\ Len(conns') <= 1 /\ Ascending(tried' \o ina')
                        /\ Matched(srv', lookups') /\ ResolvedHost'
      BY DEF Once
    <3>1. /\ srv # << >> => tried = << >> /\ conns = << >>
          /\ Len(conns) <= 1 /\ Ascending(tried \o ina) /\ Matched(srv, lookups)
      BY DEF IInv, Once
    <3>2. Matched(srv', lookups')
      BY <1>12, <3>1 DEF Matched
    <3>3. ResolvedHost'
      BY <1>7 DEF ResolvedHost, Belongs
    <3> QED
      BY <1>12, <3>1, <3>2, <3>3
  <2> QED
    BY <2>1, <2>2, <2>4, <2>5 DEF IInv
<1> QED
  BY <1>3, <1>10, <1>11, <1>12

\* Some of the addresses that the name server has for a host.
LEMMA SomeAddresses ==
  ASSUME NEW h \in Hosts, NEW n \in 0 .. Len(AddressesOf[h])
  PROVE  /\ SubSeq(AddressesOf[h], 1, n) \in Seq(AnyAddr)
         /\ ToSet(SubSeq(AddressesOf[h], 1, n)) \subseteq ToSet(AddressesOf[h])
<1> DEFINE l == AddressesOf[h]
           s == SubSeq(l, 1, n)
<1>1. l \in Seq(ToSet(l))
  BY GetSrvAssumption
<1>2. ToSet(l) \subseteq AnyAddr
  BY DEF AnyAddr
<1> HIDE DEF l
<1>3. Len(l) \in Nat /\ n \in 0 .. Len(l)
  BY <1>1, LenProperties DEF l
<1>4. n \in Nat /\ n <= Len(l)
  BY <1>3
<1>5. \A k \in 1 .. Len(l) : l[k] \in ToSet(l)
  BY <1>1, ElementOfSeq
<1>6. 1 \in Int /\ n \in Int /\ \A k \in 1 .. n : l[k] \in ToSet(l)
  BY <1>3, <1>4, <1>5
<1>7. s \in Seq(ToSet(l))
  BY <1>6, SubSeqProperties
<1> HIDE DEF s
<1>8. \A x \in ToSet(s) : x \in ToSet(l)
  <2> DEFINE S == ToSet(l)
  <2> HIDE DEF S
  <2>1. s \in Seq(S)
    BY <1>7 DEF S
  <2>2. \A x \in ToSet(s) : x \in S
    BY <2>1, ElementsType
  <2> QED
    BY <2>2 DEF S
<1>9. s \in Seq(AnyAddr)
  BY <1>2, <1>7, SeqMonotonic
<1> QED
  BY <1>8, <1>9 DEF l, s

LEMMA ResolvedSafe ==
  ASSUME IInv, NEW i \in DOMAIN lookups, NEW n \in 0 .. Len(AddressesOf[lookups[i].host]),
         req # "died", Resolved(i, SubSeq(AddressesOf[lookups[i].host], 1, n))
  PROVE  IInv'
<1> DEFINE q == lookups[i]
           addrs == SubSeq(AddressesOf[q.host], 1, n)
<1>1. /\ srv \in Seq(Service) /\ lookups \in Seq(Waiting) /\ replies \in Nat
  BY Types
<1>2. q \in Waiting /\ q \in ToSet(lookups)
  BY <1>1, ElementOfSeq, LenProperties DEF ToSet
<1>3. q.host \in Hosts
  BY <1>2 DEF Waiting
<1>4. addrs \in Seq(AnyAddr) /\ ToSet(addrs) \subseteq ToSet(AddressesOf[q.host])
  <2> HIDE DEF q
  <2> QED
    BY <1>3, SomeAddresses DEF q
<1>5. lookups' \in Seq(Waiting) /\ ToSet(lookups') \subseteq ToSet(lookups)
  BY <1>1, RemoveKeeps DEF Resolved
<1>6. UNCHANGED <<service, arc4, replies>>
  BY DEF Resolved
<1>7. lookups # << >>
  OBVIOUS
<1>8. replies # 0
  BY <1>7 DEF IInv, Untouched
<1>9. CASE Named(q) = {}
  <2>1. UNCHANGED <<req, srv, ina, conns, ris, told, tried, ended, added>>
    BY <1>9 DEF Resolved, Same
  <2>2. Typed'
    BY <1>5, <1>6, <2>1 DEF IInv, Typed, TypeOK, Waiting
  <2>3. Told' /\ Phases' /\ Sorted' /\ Counted'
    BY <1>6, <2>1 DEF IInv, Told, Phases, Sorted, Counted
  <2>4. Untouched'
    BY <1>6, <1>8 DEF Untouched
  <2>5. Once'
    <3> SUFFICES ASSUME replies <= 1
                 PROVE  /\ srv' # << >> => tried' = << >> /\ conns' = << >>
                        /\ Len(conns') <= 1 /\ Ascending(tried' \o ina')
                        /\ Matched(srv', lookups') /\ ResolvedHost'
      BY <1>6 DEF Once
    <3>1. /\ srv # << >> => tried = << >> /\ conns = << >>
          /\ Len(conns) <= 1 /\ Ascending(tried \o ina) /\ Matched(srv, lookups) /\ ResolvedHost
      BY DEF IInv, Once
    <3>2. Matched(srv', lookups')
      BY <1>5, <2>1, <3>1 DEF Matched
    <3> QED
      BY <2>1, <3>1, <3>2 DEF ResolvedHost
  <2> QED
    BY <2>2, <2>3, <2>4, <2>5 DEF IInv
<1>10. CASE Named(q) # {}
  <2> DEFINE k == Min(Named(q))
             host == srv[k].host
  <2>1. Apply(host, addrs)
    BY <1>10 DEF Resolved
  <2>2. k \in Named(q)
    <3>1. Named(q) \subseteq Nat
      BY <1>1, LenProperties DEF Named
    <3> DEFINE N == Named(q)
    <3> HIDE DEF N
    <3>2. N \subseteq Nat /\ N # {}
      BY <1>10, <3>1 DEF N
    <3>3. Min(N) \in N
      BY <3>2, Least
    <3> QED
      BY <3>3 DEF N
  <2> HIDE DEF k
  <2>3. k \in DOMAIN srv /\ srv[k].id = q.id /\ srv[k] \in ToSet(srv)
    BY <2>2 DEF Named, ToSet
  <2>4. srv # << >>
    BY <2>3
  <2>5. req = "queued"
    BY <2>4 DEF IInv, Phases, Typed, TypeOK, Stages
  <2>6. replies <= 1 => host = Kept[q.host]
    <3>1. replies <= 1 => Matched(srv, lookups)
      BY DEF IInv, Once
    <3> QED
      BY <1>2, <2>3, <3>1 DEF Matched
  <2>7. replies <= 1 => \E h \in Hosts : Kept[h] = host /\ ToSet(addrs) \subseteq ToSet(AddressesOf[h])
    BY <1>3, <1>4, <2>6
  <2> HIDE DEF host, addrs
  <2> QED
    BY <1>4, <1>5, <1>6, <2>1, <2>4, <2>5, <2>7, ApplySafe
<1> QED
  BY <1>9, <1>10

----------------------------------------------------------------------------
(* The theorems.                                                           *)

LEMMA StepSafe == IInv /\ [Next]_vars => IInv'
<1> SUFFICES ASSUME IInv, [Next]_vars PROVE IInv'
  OBVIOUS
<1>1. CASE Begin
  BY <1>1, BeginSafe
<1>2. CASE Cancel
  BY <1>2, QuietSafe DEF Cancel
<1>3. CASE Expire
  BY <1>3, QuietSafe DEF Expire
<1>4. CASE \E a \in Answers : Reply(a)
  BY <1>4, ReplySafe
<1>5. CASE Lookup
  BY <1>5, ResolvedSafe DEF Lookup
<1>6. CASE Attempt
  <2>1. PICK i \in DOMAIN conns : Connected(i) \/ Failed(i) \/ Closed(i)
    BY <1>6 DEF Attempt
  <2> QED
    BY <2>1, ConnectedSafe, FailedSafe, ClosedSafe
<1>7. CASE UNCHANGED vars
  <2>1. UNCHANGED <<service, arc4, req, srv, ina, lookups, conns, ris, told, replies, added, tried, ended>>
    BY <1>7 DEF vars, history
  <2>2. Typed'
    BY <2>1 DEF IInv, Typed, TypeOK
  <2>3. Told' /\ Phases' /\ Untouched' /\ Sorted'
    BY <2>1 DEF IInv, Told, Phases, Untouched, Sorted
  <2>4. Counted' /\ Once'
    BY <2>1 DEF IInv, Counted, Once, ResolvedHost
  <2> QED
    BY <2>2, <2>3, <2>4 DEF IInv
<1> QED
  BY <1>1, <1>2, <1>3, <1>4, <1>5, <1>6, <1>7 DEF Next

LEMMA Invariant == Spec => []IInv
  BY InitSafe, StepSafe, PTL DEF Spec

\* The client is told once, whatever handlers come in whatever order: a reply,
\* a lookup, an attempt, the end of the time, rascal_cancel.
THEOREM ClientIsToldOnce == Spec => []ToldOnce
<1>1. IInv => ToldOnce
  BY DEF IInv, Typed, Told, ToldOnce
<1> QED
  BY <1>1, Invariant, PTL

\* Each address is tried or waits, as often as it was resolved; none is lost
\* by insert, sort and try_next_server, and none is tried again.
THEOREM NoAddressIsSkipped == Spec => []NoneSkipped
<1>1. IInv => NoneSkipped
  BY DEF IInv, Counted, NoneSkipped
<1> QED
  BY <1>1, Invariant, PTL

\* As long as the query is answered once, the attempts go through the
\* priorities in order, one at a time, to addresses of the hosts they are for.
THEOREM AttemptsAreOrdered == Spec => []InPriority
<1>1. IInv => InPriority
  <2> SUFFICES ASSUME IInv, replies <= 1 PROVE Ascending(tried) /\ Len(conns) <= 1 /\ ResolvedHost
    BY DEF InPriority
  <2>1. Len(conns) <= 1 /\ ResolvedHost /\ Ascending(tried \o ina)
    BY DEF IInv, Once
  <2>2. Ascending(tried)
    BY <2>1, Types, AscendingPart
  <2> QED
    BY <2>1, <2>2
<1> QED
  BY <1>1, Invariant, PTL
=============================================================================
