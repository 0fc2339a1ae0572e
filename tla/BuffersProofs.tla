---------------------------- MODULE BuffersProofs ----------------------------
(***************************************************************************)
(* The buffers of a connection, proved for every size of an item and every *)
(* run of calls: their chains keep their shape, a stream buffer is the     *)
(* queue of bytes it promises to be, and a datagram buffer the queue of    *)
(* packets.  Behind them, the page cache for every size of page and every  *)
(* set of item sizes.                                                      *)
(*                                                                         *)
(* What a walk through a chain reads (Content) is a recursive function;    *)
(* everything about it goes back to ContentIs, which is proved by          *)
(* induction for a subset of Nat (Induction, Recursion).                   *)
(***************************************************************************)
EXTENDS Buffers, PageMan, SequenceTheorems, WellFoundedInduction, TLAPS

USE ChainAssumption, BufferAssumption

----------------------------------------------------------------------------
(* Induction.                                                              *)

\* A set of numbers has a least one.
LEMMA Least ==
  ASSUME NEW S, S \subseteq Nat, S # {}
  PROVE  Min(S) \in S /\ \A k \in S : Min(S) <= k
<1> DEFINE R == OpToRel(<, Nat)
<1>1. \A x, y \in Nat : y < x => <<y, x>> \in R
  BY DEF OpToRel
<1>2. IsWellFoundedOn(R, Nat)
  BY NatLessThanWellFounded
<1> HIDE DEF R
<1>3. PICK x \in S : \A y \in S : ~(<<y, x>> \in R)
  BY <1>2, WFMin
<1>4. ASSUME NEW y \in S PROVE x <= y
  <2>1. x \in Nat /\ y \in Nat
    OBVIOUS
  <2>2. ~(y < x)
    BY <1>1, <1>3, <2>1
  <2> QED
    BY <2>1, <2>2
<1> QED
  BY <1>3, <1>4 DEF Min

\* A set with 0 and the successor of each of its numbers up to n has all of these.
LEMMA Induction ==
  ASSUME NEW T, NEW n \in Nat, 0 \in T, \A k \in 1 .. n : k - 1 \in T => k \in T
  PROVE  0 .. n \subseteq T
<1> DEFINE S == (0 .. n) \ T
<1> SUFFICES ASSUME S # {} PROVE FALSE
  OBVIOUS
<1>1. S \subseteq Nat
  OBVIOUS
<1> HIDE DEF S
<1>2. Min(S) \in S /\ \A k \in S : Min(S) <= k
  BY <1>1, Least
<1> DEFINE m == Min(S)
<1> HIDE DEF m
<1>3. m \in 1 .. n /\ m \notin T /\ m - 1 \in 0 .. n
  BY <1>2 DEF m, S
<1>4. m - 1 \in T
  BY <1>2, <1>3 DEF m, S
<1> QED
  BY <1>3, <1>4

\* f begins with b, and h makes each of its values from the one before.
Follows(f, S, b, n, h) ==
  f \in [0 .. n -> S] /\ f[0] = b /\ \A k \in 1 .. n : f[k] = h[k][f[k - 1]]

\* A function defined by recursion over 0 .. n exists.
LEMMA Recursion ==
  ASSUME NEW S, NEW b \in S, NEW n \in Nat, NEW h \in [1 .. n -> [S -> S]]
  PROVE  \E f : Follows(f, S, b, n, h)
<1> DEFINE Good(m, f) == f \in [0 .. m -> S] /\ f[0] = b /\ \A k \in 1 .. m : f[k] = h[k][f[k - 1]]
<1> DEFINE T == {m \in 0 .. n : \E f : Good(m, f)}
<1>1. 0 \in T
  <2> DEFINE f == [k \in 0 .. 0 |-> b]
  <2>1. Good(0, f)
    OBVIOUS
  <2> HIDE DEF Good
  <2>2. 0 \in 0 .. n /\ \E e : Good(0, e)
    BY <2>1
  <2> QED
    BY <2>2
<1>2. ASSUME NEW k \in 1 .. n, k - 1 \in T PROVE k \in T
  <2>0. \E f : Good(k - 1, f)
    BY <1>2, Zenon
  <2>1. PICK f : Good(k - 1, f)
    BY <2>0
  <2> DEFINE g == [j \in 0 .. k |-> IF j = k THEN h[k][f[k - 1]] ELSE f[j]]
  <2>2. f[k - 1] \in S /\ h[k][f[k - 1]] \in S
    BY <2>1
  <2>3. g \in [0 .. k -> S] /\ g[0] = b
    BY <2>1, <2>2
  <2>4. ASSUME NEW j \in 1 .. k PROVE g[j] = h[j][g[j - 1]]
    <3>1. CASE j = k
      <4>1. k \in 0 .. k /\ k - 1 \in 0 .. k /\ k - 1 # k
        OBVIOUS
      <4>2. g[k] = h[k][f[k - 1]] /\ g[k - 1] = f[k - 1]
        BY <4>1
      <4> QED
        BY <3>1, <4>2
    <3>2. CASE j # k
      <4>1. j \in 1 .. k - 1 /\ j - 1 \in 0 .. k - 1
        BY <3>2
      <4> QED
        BY <2>1, <3>2, <4>1
    <3> QED
      BY <3>1, <3>2
  <2>5. Good(k, g)
    BY <2>3, <2>4
  <2> HIDE DEF Good
  <2>6. k \in 0 .. n /\ \E e : Good(k, e)
    BY <2>5
  <2> QED
    BY <2>6
<1> HIDE DEF T
<1>3. n \in T
  <2>1. 0 .. n \subseteq T
    BY <1>1, <1>2, Induction, Zenon
  <2> QED
    BY <2>1
<1> QED
  BY <1>3 DEF T, Follows

----------------------------------------------------------------------------
(* Sequences.                                                              *)

\* A sequence is cut in two.
LEMMA Parts ==
  ASSUME NEW S, NEW l \in Seq(S), NEW k \in 0 .. Len(l)
  PROVE  /\ SubSeq(l, 1, k) \in Seq(S) /\ SubSeq(l, k + 1, Len(l)) \in Seq(S)
         /\ Len(SubSeq(l, 1, k)) = k /\ Len(SubSeq(l, k + 1, Len(l))) = Len(l) - k
         /\ \A i \in 1 .. k : SubSeq(l, 1, k)[i] = l[i]
         /\ \A i \in 1 .. Len(l) - k : SubSeq(l, k + 1, Len(l))[i] = l[k + i]
         /\ SubSeq(l, 1, k) \o SubSeq(l, k + 1, Len(l)) = l
<1>1. Len(l) \in Nat /\ \A i \in 1 .. Len(l) : l[i] \in S
  BY LenProperties, ElementOfSeq
<1>2. /\ SubSeq(l, 1, k) \in Seq(S) /\ Len(SubSeq(l, 1, k)) = IF 1 <= k THEN k - 1 + 1 ELSE 0
      /\ \A i \in 1 .. k - 1 + 1 : SubSeq(l, 1, k)[i] = l[1 + i - 1]
  BY <1>1, SubSeqProperties
<1>3. /\ SubSeq(l, k + 1, Len(l)) \in Seq(S)
      /\ Len(SubSeq(l, k + 1, Len(l))) = IF k + 1 <= Len(l) THEN Len(l) - (k + 1) + 1 ELSE 0
      /\ \A i \in 1 .. Len(l) - (k + 1) + 1 : SubSeq(l, k + 1, Len(l))[i] = l[(k + 1) + i - 1]
  BY <1>1, SubSeqProperties
<1>4. SubSeq(l, 1, k) \o SubSeq(l, k + 1, Len(l)) = SubSeq(l, 1, Len(l))
  <2>1. 1 \in 1 .. Len(l) + 1 /\ k \in 1 - 1 .. Len(l) /\ Len(l) \in k .. Len(l)
    BY <1>1
  <2> QED
    BY <2>1, ConcatAdjacentSubSeq
<1>5. SubSeq(l, 1, Len(l)) = l
  BY SubSeqFull
<1> QED
  <2>1. \A i \in 1 .. k : SubSeq(l, 1, k)[i] = l[i]
    BY <1>1, <1>2
  <2>2. \A i \in 1 .. Len(l) - k : SubSeq(l, k + 1, Len(l))[i] = l[k + i]
    BY <1>1, <1>3
  <2>3. Len(SubSeq(l, 1, k)) = k /\ Len(SubSeq(l, k + 1, Len(l))) = Len(l) - k
    BY <1>1, <1>2, <1>3
  <2> QED
    BY <1>2, <1>3, <1>4, <1>5, <2>1, <2>2, <2>3

\* Without its first n elements.
Without(s, n) == SubSeq(s, n + 1, Len(s))

LEMMA WithoutIs ==
  ASSUME NEW S, NEW s \in Seq(S), NEW n \in Nat
  PROVE  /\ Without(s, n) \in Seq(S)
         /\ Len(Without(s, n)) = IF n <= Len(s) THEN Len(s) - n ELSE 0
         /\ \A i \in 1 .. Len(s) - n : Without(s, n)[i] = s[n + i]
<1>1. Len(s) \in Nat /\ \A i \in 1 .. Len(s) : s[i] \in S
  BY LenProperties, ElementOfSeq
<1>2. n + 1 \in Int /\ Len(s) \in Int /\ \A i \in n + 1 .. Len(s) : s[i] \in S
  BY <1>1
<1>3. /\ Without(s, n) \in Seq(S)
      /\ Len(Without(s, n)) = IF n + 1 <= Len(s) THEN Len(s) - (n + 1) + 1 ELSE 0
      /\ \A i \in 1 .. Len(s) - (n + 1) + 1 : Without(s, n)[i] = s[(n + 1) + i - 1]
  BY <1>2, SubSeqProperties DEF Without
<1> QED
  BY <1>1, <1>3

LEMMA WithoutNone ==
  ASSUME NEW S, NEW s \in Seq(S)
  PROVE  Without(s, 0) = s
<1>1. 0 + 1 = 1
  OBVIOUS
<1> QED
  BY <1>1, SubSeqFull DEF Without

LEMMA WithoutAll ==
  ASSUME NEW S, NEW s \in Seq(S), NEW n \in Nat, n >= Len(s)
  PROVE  Without(s, n) = << >>
<1>1. Len(s) \in Nat
  BY LenProperties
<1>2. n + 1 \in Int /\ Len(s) \in Int /\ Len(s) < n + 1
  BY <1>1
<1> QED
  BY <1>2, SubSeqEmpty DEF Without

\* What is cut off the end of the first part is cut off the second part.
LEMMA WithoutConcat ==
  ASSUME NEW S, NEW s \in Seq(S), NEW t \in Seq(S), NEW n \in Nat, NEW m \in Nat,
         n <= Len(s) => m = 0, n >= Len(s) => m = n - Len(s)
  PROVE  Without(s \o t, n) = Without(s, n) \o Without(t, m)
<1> DEFINE u == s \o t
           v == Without(s, n)
           w == Without(t, m)
           x == Without(u, n)
           y == v \o w
<1>1. Len(s) \in Nat /\ Len(t) \in Nat
  BY LenProperties
<1>2. u \in Seq(S) /\ Len(u) = Len(s) + Len(t)
  BY ConcatProperties
<1>3. \A i \in 1 .. Len(s) + Len(t) : u[i] = IF i <= Len(s) THEN s[i] ELSE t[i - Len(s)]
  BY ConcatProperties
<1> HIDE DEF u
<1>4. v \in Seq(S) /\ Len(v) = (IF n <= Len(s) THEN Len(s) - n ELSE 0)
  BY WithoutIs
<1>5. \A i \in 1 .. Len(s) - n : v[i] = s[n + i]
  BY WithoutIs
<1>6. w \in Seq(S) /\ Len(w) = (IF m <= Len(t) THEN Len(t) - m ELSE 0)
  BY WithoutIs
<1>7. \A i \in 1 .. Len(t) - m : w[i] = t[m + i]
  BY WithoutIs
<1>8. x \in Seq(S) /\ Len(x) = (IF n <= Len(u) THEN Len(u) - n ELSE 0)
  BY <1>2, WithoutIs
<1>9. \A i \in 1 .. Len(u) - n : x[i] = u[n + i]
  BY <1>2, WithoutIs
<1> HIDE DEF v, w, x
<1>10. y \in Seq(S) /\ Len(y) = Len(v) + Len(w)
  BY <1>4, <1>6, ConcatProperties
<1>11. \A i \in 1 .. Len(v) + Len(w) : y[i] = IF i <= Len(v) THEN v[i] ELSE w[i - Len(v)]
  BY <1>4, <1>6, ConcatProperties
<1> HIDE DEF y
<1>12. Len(v) = (IF n <= Len(s) THEN Len(s) - n ELSE 0)
  BY <1>4
<1>13. Len(w) = (IF m <= Len(t) THEN Len(t) - m ELSE 0)
  BY <1>6
<1>14. Len(u) = Len(s) + Len(t)
  BY <1>2
<1>15. Len(x) = (IF n <= Len(u) THEN Len(u) - n ELSE 0)
  BY <1>8
<1>16. Len(y) = Len(v) + Len(w)
  BY <1>10
<1>17. Len(x) = Len(y)
  <2>1. CASE n <= Len(s)
    BY <1>1, <1>12, <1>13, <1>14, <1>15, <1>16, <2>1
  <2>2. CASE ~(n <= Len(s))
    <3>1. Len(v) = 0 /\ m = n - Len(s)
      BY <1>12, <2>2
    <3> QED
      BY <1>1, <1>13, <1>14, <1>15, <1>16, <2>2, <3>1
  <2> QED
    BY <2>1, <2>2
<1>18. ASSUME NEW i \in 1 .. Len(x) PROVE x[i] = y[i]
  <2>1. i \in Nat /\ i \in 1 .. Len(u) - n /\ i \in 1 .. Len(v) + Len(w) /\ n + i \in 1 .. Len(s) + Len(t)
    BY <1>1, <1>2, <1>8, <1>10, <1>17
  <2>2. x[i] = IF n + i <= Len(s) THEN s[n + i] ELSE t[n + i - Len(s)]
    BY <1>3, <1>9, <2>1
  <2>3. CASE n + i <= Len(s)
    <3>1. i <= Len(v) /\ i \in 1 .. Len(s) - n
      BY <1>1, <1>4, <2>1, <2>3
    <3> QED
      BY <1>5, <1>11, <2>1, <2>2, <2>3, <3>1
  <2>4. CASE ~(n + i <= Len(s))
    <3>1. ~(i <= Len(v)) /\ i - Len(v) \in 1 .. Len(t) - m /\ m + (i - Len(v)) = n + i - Len(s)
      <4>1. CASE n <= Len(s)
        BY <1>1, <1>12, <1>13, <2>1, <2>4, <4>1
      <4>2. CASE ~(n <= Len(s))
        <5>1. Len(v) = 0 /\ m = n - Len(s)
          BY <1>12, <4>2
        <5>2. i \in Nat /\ i <= Len(w) /\ Len(w) = (IF m <= Len(t) THEN Len(t) - m ELSE 0) /\ 1 <= i
          BY <1>13, <1>1, <2>1, <5>1
        <5> QED
          BY <1>1, <4>2, <5>1, <5>2
      <4> QED
        BY <4>1, <4>2
    <3>2. y[i] = w[i - Len(v)]
      BY <1>11, <2>1, <3>1
    <3>3. w[i - Len(v)] = t[m + (i - Len(v))]
      BY <1>7, <3>1
    <3> QED
      BY <2>2, <2>4, <3>1, <3>2, <3>3
  <2> QED
    BY <2>3, <2>4
<1>19. x = y
  BY <1>8, <1>10, <1>17, <1>18, SeqEqual
<1> QED
  BY <1>19 DEF x, y, u, v, w

LEMMA WithoutFirst ==
  ASSUME NEW S, NEW s \in Seq(S), NEW t \in Seq(S), NEW n \in Nat, n <= Len(s)
  PROVE  Without(s \o t, n) = Without(s, n) \o t
<1> DEFINE m == 0
<1>1. m \in Nat /\ (n <= Len(s) => m = 0) /\ (n >= Len(s) => m = n - Len(s))
  BY LenProperties
<1> HIDE DEF m
<1>2. Without(s \o t, n) = Without(s, n) \o Without(t, m)
  BY <1>1, WithoutConcat
<1>3. Without(t, m) = t
  BY WithoutNone DEF m
<1> QED
  BY <1>2, <1>3, Zenon

LEMMA WithoutSecond ==
  ASSUME NEW S, NEW s \in Seq(S), NEW t \in Seq(S), NEW n \in Nat, n >= Len(s)
  PROVE  Without(s \o t, n) = Without(t, n - Len(s))
<1>1. Len(s) \in Nat
  BY LenProperties
<1> DEFINE m == n - Len(s)
<1>2. m \in Nat /\ (n <= Len(s) => m = 0) /\ (n >= Len(s) => m = n - Len(s))
  BY <1>1
<1> HIDE DEF m
<1>3. Without(s \o t, n) = Without(s, n) \o Without(t, m)
  BY <1>1, <1>2, WithoutConcat
<1>4. Without(s, n) = << >>
  BY <1>1, WithoutAll
<1>5. Without(t, m) \in Seq(S)
  BY <1>2, WithoutIs
<1>6. << >> \o Without(t, m) = Without(t, m)
  BY <1>5, ConcatEmptySeq
<1> QED
  BY <1>3, <1>4, <1>6, Zenon DEF m

\* Sequences of one element.
LEMMA OneIs ==
  ASSUME NEW S, NEW e \in S
  PROVE  <<e>> \in Seq(S) /\ Len(<<e>>) = 1 /\ <<e>>[1] = e
  OBVIOUS

LEMMA Associative == \A s, t, u \in Seq(Bytes) : (s \o t) \o u = s \o (t \o u)
  BY ConcatAssociative, SMTT(60)

----------------------------------------------------------------------------
(* The bytes of a chain.                                                   *)

Data  == UNION {[1 .. n -> Bytes] : n \in 0 .. ItemSize}
Solid == {item \in Items : item.dead <= Used(item)}

LEMMA DataIs ==
  ASSUME NEW d
  PROVE  d \in Data <=> d \in Seq(Bytes) /\ Len(d) <= ItemSize
<1>1. ASSUME d \in Data PROVE d \in Seq(Bytes) /\ Len(d) <= ItemSize
  <2>1. PICK n \in 0 .. ItemSize : d \in [1 .. n -> Bytes]
    BY <1>1 DEF Data
  <2> QED
    BY <2>1
<1>2. ASSUME d \in Seq(Bytes), Len(d) <= ItemSize PROVE d \in Data
  <2>1. Len(d) \in 0 .. ItemSize /\ d \in [1 .. Len(d) -> Bytes]
    BY <1>2, LenProperties
  <2> QED
    BY <2>1 DEF Data
<1> QED
  BY <1>1, <1>2

LEMMA SolidIs ==
  ASSUME NEW item \in Solid
  PROVE  /\ item.data \in Seq(Bytes) /\ Used(item) \in Nat /\ Used(item) <= ItemSize
         /\ item.dead \in Nat /\ item.dead <= Used(item)
         /\ item = [data |-> item.data, dead |-> item.dead]
<1>1. item \in [data : Data, dead : 0 .. ItemSize] /\ item.dead <= Used(item)
  BY DEF Solid, Items, Data
<1>2. item.data \in Data /\ item.dead \in 0 .. ItemSize /\ item = [data |-> item.data, dead |-> item.dead]
  BY <1>1
<1>3. item.data \in Seq(Bytes) /\ Len(item.data) <= ItemSize
  BY <1>2, DataIs
<1>4. Len(item.data) \in Nat
  BY <1>3, LenProperties
<1> QED
  BY <1>1, <1>2, <1>3, <1>4 DEF Used

LEMMA SolidMade ==
  ASSUME NEW d \in Seq(Bytes), NEW n \in Nat, n <= Len(d), Len(d) <= ItemSize
  PROVE  [data |-> d, dead |-> n] \in Solid
<1>1. d \in Data /\ n \in 0 .. ItemSize
  <2>1. Len(d) \in Nat
    BY LenProperties
  <2> QED
    BY <2>1, DataIs
<1> QED
  BY <1>1 DEF Solid, Items, Data, Used

LEMMA LiveIs ==
  ASSUME NEW item \in Solid
  PROVE  /\ Live(item) = Without(item.data, item.dead)
         /\ Live(item) \in Seq(Bytes)
         /\ Len(Live(item)) \in Nat
         /\ Len(Live(item)) = Used(item) - item.dead
<1>1. /\ item.data \in Seq(Bytes) /\ Used(item) \in Nat /\ Used(item) <= ItemSize
      /\ item.dead \in Nat /\ item.dead <= Used(item)
  BY SolidIs
<1>2. Live(item) = Without(item.data, item.dead)
  BY DEF Live, Without, Used
<1>3. /\ Without(item.data, item.dead) \in Seq(Bytes)
      /\ Len(Without(item.data, item.dead)) = IF item.dead <= Len(item.data) THEN Len(item.data) - item.dead ELSE 0
  BY <1>1, WithoutIs
<1> QED
  BY <1>1, <1>2, <1>3 DEF Used

\* g holds what is read of each of the first parts of c.
Walk(g, c) == /\ g \in [0 .. Len(c) -> Seq(Bytes)] /\ g[0] = << >>
              /\ \A k \in 1 .. Len(c) : g[k] = g[k - 1] \o Live(c[k])

LEMMA WalkExists ==
  ASSUME NEW c \in Seq(Solid)
  PROVE  \E g : Walk(g, c)
<1> DEFINE n == Len(c)
           S == Seq(Bytes)
           h == [k \in 1 .. n |-> [s \in S |-> s \o Live(c[k])]]
<1>1. n \in Nat /\ \A k \in 1 .. n : c[k] \in Solid
  BY LenProperties, ElementOfSeq
<1>2. \A k \in 1 .. n : \A s \in S : s \o Live(c[k]) \in S
  BY <1>1, LiveIs, ConcatProperties
<1>3. h \in [1 .. n -> [S -> S]]
  BY <1>2
<1>4. \A k \in 1 .. n : \A s \in S : h[k][s] = s \o Live(c[k])
  OBVIOUS
<1>5. << >> \in S
  OBVIOUS
<1>6. \E g : Follows(g, S, << >>, n, h)
  <2> HIDE DEF h, S, n
  <2> QED
    BY <1>1, <1>3, <1>5, Recursion, Zenon
<1>7. PICK g : Follows(g, S, << >>, n, h)
  BY <1>6
<1> HIDE DEF h
<1>8. ASSUME NEW k \in 1 .. n PROVE g[k] = g[k - 1] \o Live(c[k])
  <2>1. k - 1 \in 0 .. n
    BY <1>1
  <2>2. g[k - 1] \in S
    BY <1>7, <2>1 DEF Follows
  <2> QED
    BY <1>4, <1>7, <2>2 DEF Follows
<1>9. Walk(g, c)
  BY <1>7, <1>8 DEF Walk, Follows
<1> QED
  BY <1>9

LEMMA ContentIs ==
  ASSUME NEW c \in Seq(Solid), NEW g, Walk(g, c)
  PROVE  Content(c) = g[Len(c)]
<1> DEFINE n == Len(c)
           s == [k \in 1 .. n |-> Live(c[k])]
           F == CHOOSE f : f = [i \in 1 .. Len(s) |-> IF i = 1 THEN s[i] ELSE f[i - 1] \o s[i]]
           e == [i \in 1 .. n |-> g[i]]
<1>1. n \in Nat /\ \A k \in 1 .. n : c[k] \in Solid
  BY LenProperties, ElementOfSeq
<1>2. \A k \in 1 .. n : Live(c[k]) \in Seq(Bytes)
  BY <1>1, LiveIs
<1>3. s \in Seq(Seq(Bytes)) /\ Len(s) = n
  BY <1>1, <1>2
<1>4. CASE n = 0
  <2>1. s = << >>
    BY <1>3, <1>4, EmptySeq
  <2>2. Len(s) = 0
    BY <1>3, <1>4
  <2> HIDE DEF s
  <2>3. FlattenSeq(s) = s
    BY <2>2 DEF FlattenSeq
  <2> QED
    BY <1>4, <2>1, <2>3 DEF Content, Walk, s
<1>5. CASE n # 0
  <2>1. \A k \in 1 .. n : s[k] = Live(c[k])
    OBVIOUS
  <2>2. Content(c) = FlattenSeq(s)
    BY DEF Content
  <2> HIDE DEF s
  <2>3. FlattenSeq(s) = F[n]
    <3>1. FlattenSeq(s) = (IF Len(s) = 0 THEN s ELSE F[Len(s)])
      BY Zenon DEF FlattenSeq
    <3> HIDE DEF F
    <3> QED
      BY <1>3, <1>5, <3>1, Zenon
  <2>4. ASSUME NEW k \in 1 .. n PROVE e[k] = IF k = 1 THEN s[k] ELSE e[k - 1] \o s[k]
    <3>1. g[k] = g[k - 1] \o s[k]
      BY <2>1 DEF Walk
    <3>2. CASE k = 1
      <4>1. s[k] \in Seq(Bytes)
        BY <1>2, <2>1
      <4>2. << >> \o s[k] = s[k]
        BY <4>1, ConcatEmptySeq
      <4>3. g[k] = s[k]
        <5>1. g[0] = << >>
          BY DEF Walk
        <5>2. k - 1 = 0
          BY <3>2
        <5> QED
          BY <3>1, <4>2, <5>1, <5>2, Zenon
      <4>4. e[k] = g[k]
        OBVIOUS
      <4> HIDE DEF e
      <4> QED
        BY <3>2, <4>3, <4>4
    <3>3. CASE k # 1
      <4>1. k - 1 \in 1 .. n
        BY <1>1, <3>3
      <4> QED
        BY <3>1, <3>3, <4>1
    <3> QED
      BY <3>2, <3>3
  <2>5. e = [i \in 1 .. n |-> IF i = 1 THEN s[i] ELSE e[i - 1] \o s[i]]
    BY <2>4
  <2> HIDE DEF e
  <2>6. F = [i \in 1 .. n |-> IF i = 1 THEN s[i] ELSE F[i - 1] \o s[i]]
    BY <1>3, <2>5, Zenon
  <2> HIDE DEF F
  <2> DEFINE T == {0} \cup {k \in 1 .. n : F[k] = e[k]}
  <2>7. ASSUME NEW k \in 1 .. n, k - 1 \in T PROVE k \in T
    <3>1. F[k] = IF k = 1 THEN s[k] ELSE F[k - 1] \o s[k]
      BY <2>6, Zenon
    <3>2. e[k] = IF k = 1 THEN s[k] ELSE e[k - 1] \o s[k]
      BY <2>5, Zenon
    <3>3. CASE k = 1
      BY <3>1, <3>2, <3>3
    <3>4. CASE k # 1
      <4>1. F[k - 1] = e[k - 1]
        BY <1>1, <2>7, <3>4
      <4>2. F[k] = e[k]
        BY <3>1, <3>2, <3>4, <4>1, Zenon
      <4> QED
        BY <4>2
    <3> QED
      BY <3>3, <3>4
  <2>8. 0 \in T
    OBVIOUS
  <2>9. 0 .. n \subseteq T
    <3> HIDE DEF T, n
    <3> QED
      BY <1>1, <2>7, <2>8, Induction, Zenon
  <2>10. n \in 1 .. n /\ n \in 0 .. n
    BY <1>1, <1>5
  <2>11. F[n] = e[n]
    BY <1>5, <2>9, <2>10
  <2>12. e[n] = g[n]
    BY <2>10 DEF e
  <2> QED
    BY <2>2, <2>3, <2>11, <2>12
<1> QED
  BY <1>4, <1>5

LEMMA WalkPrefix ==
  ASSUME NEW c \in Seq(Solid), NEW g, Walk(g, c), NEW k \in 0 .. Len(c)
  PROVE  Content(SubSeq(c, 1, k)) = g[k]
<1> DEFINE d == SubSeq(c, 1, k)
           f == [j \in 0 .. k |-> g[j]]
<1>1. Len(c) \in Nat /\ k \in Nat /\ k <= Len(c)
  BY LenProperties
<1>2. d \in Seq(Solid) /\ Len(d) = k /\ \A i \in 1 .. k : d[i] = c[i]
  BY Parts
<1> HIDE DEF d
<1>3. f \in [0 .. k -> Seq(Bytes)] /\ f[0] = << >>
  BY <1>1 DEF Walk
<1>4. ASSUME NEW j \in 1 .. k PROVE f[j] = f[j - 1] \o Live(d[j])
  <2>1. j \in 1 .. Len(c) /\ j \in 0 .. k /\ j - 1 \in 0 .. k
    BY <1>1
  <2>2. g[j] = g[j - 1] \o Live(c[j])
    BY <2>1 DEF Walk
  <2> QED
    BY <1>2, <2>1, <2>2
<1>5. f[k] = g[k]
  BY <1>1
<1> HIDE DEF f
<1>6. Walk(f, d)
  BY <1>2, <1>3, <1>4 DEF Walk
<1>7. Content(d) = f[Len(d)]
  BY <1>2, <1>6, ContentIs
<1> QED
  BY <1>2, <1>5, <1>7 DEF d

LEMMA ContentType ==
  ASSUME NEW c \in Seq(Solid)
  PROVE  Content(c) \in Seq(Bytes) /\ Len(Content(c)) \in Nat
<1>1. PICK g : Walk(g, c)
  BY WalkExists
<1>2. Content(c) = g[Len(c)]
  BY <1>1, ContentIs
<1>3. Len(c) \in 0 .. Len(c)
  BY LenProperties
<1>4. Content(c) \in Seq(Bytes)
  BY <1>1, <1>2, <1>3 DEF Walk
<1> QED
  BY <1>4, LenProperties

\* One item more is read behind the others.
LEMMA ContentPrefix ==
  ASSUME NEW c \in Seq(Solid), NEW k \in 1 .. Len(c)
  PROVE  /\ Content(SubSeq(c, 1, k)) = Content(SubSeq(c, 1, k - 1)) \o Live(c[k])
         /\ Content(SubSeq(c, 1, k)) \in Seq(Bytes)
         /\ Content(SubSeq(c, 1, k - 1)) \in Seq(Bytes)
<1>1. PICK g : Walk(g, c)
  BY WalkExists
<1>2. k \in 0 .. Len(c) /\ k - 1 \in 0 .. Len(c)
  BY LenProperties
<1>3. Content(SubSeq(c, 1, k)) = g[k]
  BY <1>1, <1>2, WalkPrefix
<1>4. Content(SubSeq(c, 1, k - 1)) = g[k - 1]
  BY <1>1, <1>2, WalkPrefix
<1>5. g[k] = g[k - 1] \o Live(c[k]) /\ g[k] \in Seq(Bytes) /\ g[k - 1] \in Seq(Bytes)
  BY <1>1, <1>2 DEF Walk
<1> QED
  BY <1>3, <1>4, <1>5

LEMMA ContentNone ==
  ASSUME NEW c
  PROVE  Content(<< >>) = << >> /\ Content(SubSeq(c, 1, 0)) = << >>
<1>1. << >> \in Seq(Solid) /\ Len(<< >>) = 0
  OBVIOUS
<1>2. PICK g : Walk(g, << >>)
  BY <1>1, WalkExists
<1>3. Content(<< >>) = g[Len(<< >>)]
  BY <1>1, <1>2, ContentIs
<1>4. g[0] = << >>
  BY <1>2 DEF Walk
<1>5. SubSeq(c, 1, 0) = << >>
  BY SubSeqEmpty
<1> QED
  BY <1>1, <1>3, <1>4, <1>5

LEMMA ContentOne ==
  ASSUME NEW item \in Solid
  PROVE  Content(<<item>>) = Live(item)
<1> DEFINE c == <<item>>
<1>1. c \in Seq(Solid) /\ Len(c) = 1 /\ c[1] = item
  BY OneIs
<1> HIDE DEF c
<1>2. 1 \in 1 .. Len(c) /\ 1 - 1 = 0
  BY <1>1
<1>3. Content(SubSeq(c, 1, 1)) = Content(SubSeq(c, 1, 0)) \o Live(c[1])
  BY <1>1, <1>2, ContentPrefix
<1>4. SubSeq(c, 1, 1) = c
  BY <1>1, SubSeqFull
<1>5. Content(SubSeq(c, 1, 0)) = << >>
  BY ContentNone
<1>6. << >> \o Live(item) = Live(item)
  BY LiveIs, ConcatEmptySeq
<1>7. Content(c) = Live(item)
  BY <1>1, <1>3, <1>4, <1>5, <1>6, Zenon
<1> QED
  BY <1>7 DEF c

\* What is read of two chains in a row.
LEMMA ContentConcat ==
  ASSUME NEW c \in Seq(Solid), NEW d \in Seq(Solid)
  PROVE  c \o d \in Seq(Solid) /\ Content(c \o d) = Content(c) \o Content(d)
<1> DEFINE e == c \o d
           m == Len(c)
           n == Len(d)
<1>1. m \in Nat /\ n \in Nat
  BY LenProperties
<1>2. e \in Seq(Solid) /\ Len(e) = m + n
  BY ConcatProperties
<1>3. \A i \in 1 .. m + n : e[i] = IF i <= m THEN c[i] ELSE d[i - m]
  BY ConcatProperties
<1>4. SubSeq(e, 1, m) = c
  <2>1. m \in 0 .. Len(e)
    BY <1>1, <1>2
  <2> HIDE DEF e, m
  <2>2. /\ SubSeq(e, 1, m) \in Seq(Solid) /\ Len(SubSeq(e, 1, m)) = m
        /\ \A i \in 1 .. m : SubSeq(e, 1, m)[i] = e[i]
    BY <1>2, <2>1, Parts
  <2>3. \A i \in 1 .. m : e[i] = c[i]
    BY <1>1, <1>3
  <2> QED
    BY <2>2, <2>3, SeqEqual DEF m
<1> HIDE DEF e
<1> DEFINE Good(k) == Content(SubSeq(e, 1, m + k)) = Content(c) \o Content(SubSeq(d, 1, k))
           T == {k \in 0 .. n : Good(k)}
<1>5. Content(c) \in Seq(Bytes)
  BY ContentType
<1>6. 0 \in T
  <2>1. Content(SubSeq(d, 1, 0)) = << >>
    BY ContentNone
  <2>2. Content(c) \o << >> = Content(c)
    BY <1>5, ConcatEmptySeq
  <2>3. m + 0 = m /\ 0 \in 0 .. n
    BY <1>1
  <2>4. Good(0)
    BY <1>4, <2>1, <2>2, <2>3, Zenon
  <2> HIDE DEF Good
  <2> QED
    BY <2>3, <2>4
<1>7. ASSUME NEW k \in 1 .. n, k - 1 \in T PROVE k \in T
  <2>0. Good(k - 1)
    BY <1>7
  <2>1. m + k \in 1 .. Len(e) /\ m + (k - 1) = (m + k) - 1 /\ e[m + k] = d[k]
    <3>1. k \in Nat /\ k >= 1 /\ k <= n
      BY <1>1
    <3>2. m + k \in 1 .. m + n /\ ~(m + k <= m) /\ (m + k) - m = k
      BY <1>1, <3>1
    <3>3. e[m + k] = d[(m + k) - m]
      BY <1>3, <3>2
    <3> QED
      BY <1>1, <1>2, <3>1, <3>2, <3>3
  <2>2. Content(SubSeq(e, 1, m + k)) = Content(SubSeq(e, 1, m + (k - 1))) \o Live(d[k])
    BY <1>2, <2>1, ContentPrefix
  <2>3. /\ Content(SubSeq(d, 1, k)) = Content(SubSeq(d, 1, k - 1)) \o Live(d[k])
        /\ Content(SubSeq(d, 1, k - 1)) \in Seq(Bytes)
    BY ContentPrefix
  <2>4. Live(d[k]) \in Seq(Bytes)
    BY ElementOfSeq, LiveIs
  <2>5. (Content(c) \o Content(SubSeq(d, 1, k - 1))) \o Live(d[k])
          = Content(c) \o (Content(SubSeq(d, 1, k - 1)) \o Live(d[k]))
    BY <1>5, <2>3, <2>4, Associative, Zenon
  <2>6. Good(k)
    BY <2>0, <2>2, <2>3, <2>5, Zenon
  <2>7. k \in 0 .. n
    BY <1>1
  <2> HIDE DEF Good
  <2> QED
    BY <2>6, <2>7
<1>8. 0 .. n \subseteq T
  <2> HIDE DEF T, n
  <2> QED
    BY <1>1, <1>6, <1>7, Induction, Zenon
<1>9. Good(n)
  <2>1. n \in 0 .. n
    BY <1>1
  <2> HIDE DEF Good
  <2> QED
    BY <1>8, <2>1
<1>10. SubSeq(d, 1, n) = d
  BY SubSeqFull
<1>11. SubSeq(e, 1, m + n) = e
  BY <1>2, SubSeqFull
<1>12. Content(e) = Content(c) \o Content(d)
  BY <1>9, <1>10, <1>11, Zenon
<1> QED
  BY <1>2, <1>12 DEF e

----------------------------------------------------------------------------
(* Items that are filled.                                                  *)

LEMMA FreshIs ==
  /\ Fresh \in Solid /\ Fresh.data = << >> /\ Fresh.dead = 0 /\ Used(Fresh) = 0
  /\ Live(Fresh) = << >> /\ <<Fresh>> \in Seq(Solid) /\ Content(<<Fresh>>) = << >>
<1>1. << >> \in Seq(Bytes) /\ Len(<< >>) = 0 /\ 0 \in Nat /\ 0 <= Len(<< >>) /\ Len(<< >>) <= ItemSize
      /\ 0 >= Len(<< >>)
  OBVIOUS
<1>2. [data |-> << >>, dead |-> 0] \in Solid
  BY <1>1, SolidMade, Zenon
<1>3. Fresh \in Solid /\ Fresh.data = << >> /\ Fresh.dead = 0 /\ Used(Fresh) = 0
  BY <1>1, <1>2 DEF Fresh, Used
<1>4. Live(Fresh) = << >>
  <2>1. Live(Fresh) = Without(Fresh.data, Fresh.dead)
    BY <1>3, LiveIs
  <2>2. Without(<< >>, 0) = << >>
    BY <1>1, WithoutAll, Zenon
  <2> QED
    BY <1>3, <2>1, <2>2, Zenon
<1>5. <<Fresh>> \in Seq(Solid)
  BY <1>3, OneIs
<1>6. Content(<<Fresh>>) = << >>
  BY <1>3, <1>4, ContentOne
<1> QED
  BY <1>3, <1>4, <1>5, <1>6

LEMMA FilledIs ==
  ASSUME NEW item \in Solid, NEW src \in Seq(Bytes), Used(item) + Len(src) <= ItemSize
  PROVE  /\ Filled(item, src) \in Solid
         /\ Live(Filled(item, src)) = Live(item) \o src
         /\ Used(Filled(item, src)) = Used(item) + Len(src)
         /\ Filled(item, src).dead = item.dead
<1>1. /\ item.data \in Seq(Bytes) /\ Used(item) \in Nat /\ Used(item) <= ItemSize
      /\ item.dead \in Nat /\ item.dead <= Used(item)
      /\ item = [data |-> item.data, dead |-> item.dead]
  BY SolidIs
<1> DEFINE d == item.data \o src
           e == Filled(item, src)
<1>2. d \in Seq(Bytes) /\ Len(d) = Len(item.data) + Len(src) /\ Len(src) \in Nat
  BY <1>1, ConcatProperties, LenProperties
<1>3. e = [data |-> d, dead |-> item.dead]
  <2>1. item \in [data : Data, dead : 0 .. ItemSize]
    BY DEF Solid, Items, Data
  <2>2. e = [item EXCEPT !.data = d]
    BY DEF Filled
  <2> HIDE DEF d, e
  <2> QED
    BY <2>1, <2>2
<1> HIDE DEF d, e
<1>4. item.dead <= Len(d) /\ Len(d) <= ItemSize /\ Used(item) = Len(item.data)
  BY <1>1, <1>2 DEF Used
<1>5. e \in Solid
  BY <1>1, <1>2, <1>3, <1>4, SolidMade, Zenon
<1>6. e.data = d /\ e.dead = item.dead
  BY <1>3
<1>7. Used(e) = Used(item) + Len(src)
  BY <1>2, <1>4, <1>6 DEF Used
<1>8. Live(e) = Live(item) \o src
  <2>1. Live(e) = Without(d, item.dead)
    BY <1>5, <1>6, LiveIs
  <2>2. Live(item) = Without(item.data, item.dead)
    BY LiveIs
  <2>3. item.data \in Seq(Bytes) /\ item.dead \in Nat /\ item.dead <= Len(item.data)
    BY <1>1, <1>4
  <2>4. Without(item.data \o src, item.dead) = Without(item.data, item.dead) \o src
    BY <2>3, WithoutFirst, Zenon
  <2> QED
    BY <2>1, <2>2, <2>4, Zenon DEF d
<1> QED
  BY <1>5, <1>6, <1>7, <1>8 DEF e

\* Only the last item changes.
LEMMA TailReplaced ==
  ASSUME NEW c \in Seq(Solid), c # << >>, NEW item \in Solid
  PROVE  /\ [c EXCEPT ![Len(c)] = item] \in Seq(Solid)
         /\ Len([c EXCEPT ![Len(c)] = item]) = Len(c)
         /\ \A k \in 1 .. Len(c) : [c EXCEPT ![Len(c)] = item][k] = IF k = Len(c) THEN item ELSE c[k]
         /\ Content([c EXCEPT ![Len(c)] = item]) = Content(SubSeq(c, 1, Len(c) - 1)) \o Live(item)
<1> DEFINE n == Len(c)
           e == [c EXCEPT ![n] = item]
<1>1. n \in Nat /\ n > 0 /\ n \in 1 .. n
  BY EmptySeq
<1>2. e \in Seq(Solid) /\ Len(e) = n /\ \A k \in 1 .. n : e[k] = IF k = n THEN item ELSE c[k]
  BY <1>1, ExceptSeq
<1> HIDE DEF e
<1>3. n \in 1 .. Len(e) /\ n - 1 \in 0 .. n /\ n - 1 \in 0 .. Len(e) /\ e[n] = item
  BY <1>1, <1>2
<1>4. SubSeq(e, 1, n - 1) = SubSeq(c, 1, n - 1)
  <2>1. /\ SubSeq(e, 1, n - 1) \in Seq(Solid) /\ Len(SubSeq(e, 1, n - 1)) = n - 1
        /\ \A i \in 1 .. n - 1 : SubSeq(e, 1, n - 1)[i] = e[i]
    BY <1>2, <1>3, Parts
  <2>2. /\ SubSeq(c, 1, n - 1) \in Seq(Solid) /\ Len(SubSeq(c, 1, n - 1)) = n - 1
        /\ \A i \in 1 .. n - 1 : SubSeq(c, 1, n - 1)[i] = c[i]
    BY <1>3, Parts
  <2>3. \A i \in 1 .. n - 1 : e[i] = c[i]
    BY <1>1, <1>2
  <2> HIDE DEF n
  <2> QED
    BY <2>1, <2>2, <2>3, SeqEqual
<1>5. SubSeq(e, 1, n) = e
  BY <1>2, SubSeqFull
<1>6. Content(SubSeq(e, 1, n)) = Content(SubSeq(e, 1, n - 1)) \o Live(e[n])
  BY <1>2, <1>3, ContentPrefix
<1>7. Content(e) = Content(SubSeq(c, 1, n - 1)) \o Live(item)
  BY <1>3, <1>4, <1>5, <1>6, Zenon
<1> QED
  BY <1>2, <1>7 DEF e

LEMMA TailFilled ==
  ASSUME NEW c \in Seq(Solid), c # << >>, NEW src \in Seq(Bytes), Used(c[Len(c)]) + Len(src) <= ItemSize,
         NEW e, e = [c EXCEPT ![Len(c)] = Filled(@, src)]
  PROVE  /\ e \in Seq(Solid) /\ Len(e) = Len(c)
         /\ \A k \in 1 .. Len(c) : e[k] = IF k = Len(c) THEN Filled(c[k], src) ELSE c[k]
         /\ Content(e) = Content(c) \o src
<1> DEFINE n == Len(c)
           last == Filled(c[n], src)
<1>1. n \in Nat /\ n > 0 /\ n \in 1 .. n
  BY EmptySeq
<1>2. c[n] \in Solid
  BY <1>1, ElementOfSeq
<1>3. last \in Solid /\ Live(last) = Live(c[n]) \o src
  BY <1>2, FilledIs
<1>4. e = [c EXCEPT ![n] = last]
  OBVIOUS
<1>5. SubSeq(c, 1, n) = c
  BY SubSeqFull
<1>6. /\ Content(SubSeq(c, 1, n)) = Content(SubSeq(c, 1, n - 1)) \o Live(c[n])
      /\ Content(SubSeq(c, 1, n - 1)) \in Seq(Bytes)
  BY <1>1, ContentPrefix
<1> HIDE DEF last
<1>7. /\ e \in Seq(Solid) /\ Len(e) = n
      /\ \A k \in 1 .. n : e[k] = IF k = n THEN last ELSE c[k]
      /\ Content(e) = Content(SubSeq(c, 1, n - 1)) \o Live(last)
  <2> DEFINE f == [c EXCEPT ![Len(c)] = last]
  <2>1. /\ f \in Seq(Solid) /\ Len(f) = Len(c)
        /\ \A k \in 1 .. Len(c) : f[k] = IF k = Len(c) THEN last ELSE c[k]
        /\ Content(f) = Content(SubSeq(c, 1, Len(c) - 1)) \o Live(last)
    BY <1>3, TailReplaced, Zenon
  <2>2. e = f
    BY <1>4
  <2> HIDE DEF f
  <2> QED
    BY <2>1, <2>2, Zenon
<1>8. Live(c[n]) \in Seq(Bytes)
  BY <1>2, LiveIs
<1>9. Content(e) = Content(c) \o src
  <2>1. Content(c) \o src = (Content(SubSeq(c, 1, n - 1)) \o Live(c[n])) \o src
    BY <1>5, <1>6, Zenon
  <2>2. (Content(SubSeq(c, 1, n - 1)) \o Live(c[n])) \o src = Content(SubSeq(c, 1, n - 1)) \o (Live(c[n]) \o src)
    BY <1>6, <1>8, Associative, Zenon
  <2> QED
    BY <1>3, <1>7, <2>1, <2>2, Zenon
<1> QED
  BY <1>7, <1>9 DEF last

\* Multiples of the size of an item.
LEMMA Multiples ==
  ASSUME NEW j \in Nat, NEW k \in Nat, j <= k
  PROVE  /\ j * ItemSize \in Nat /\ j * ItemSize <= k * ItemSize
         /\ (j + 1) * ItemSize = j * ItemSize + ItemSize
  OBVIOUS

\* As many items as n bytes need.
LEMMA Needed ==
  ASSUME NEW n \in Nat, NEW q, q = (n + ItemSize - 1) \div ItemSize
  PROVE  /\ q \in Nat /\ n <= q * ItemSize /\ q * ItemSize < n + ItemSize
         /\ (n = 0 => q = 0)
  OBVIOUS

LEMMA MinOfTwo ==
  ASSUME NEW a \in Int, NEW b \in Int
  PROVE  Min({a, b}) = IF a <= b THEN a ELSE b
<1> DEFINE S == {a, b}
           x == IF a <= b THEN a ELSE b
<1>1. x \in S /\ \A y \in S : x <= y
  OBVIOUS
<1>2. \A z \in S : (\A y \in S : z <= y) => z = x
  OBVIOUS
<1> HIDE DEF S, x
<1>3. Min(S) = x
  BY <1>1, <1>2 DEF Min
<1> QED
  BY <1>3 DEF S, x

\* The first n bytes, and what follows them.
LEMMA UptoIs ==
  ASSUME NEW S, NEW s \in Seq(S), NEW n \in 0 .. Len(s)
  PROVE  /\ SubSeq(s, 1, n) \in Seq(S) /\ Len(SubSeq(s, 1, n)) = n
         /\ \A i \in 1 .. n : SubSeq(s, 1, n)[i] = s[i]
         /\ SubSeq(s, 1, n) \o Without(s, n) = s
  BY Parts DEF Without

\* The new items that append() makes for the bytes that do not fit into the tail.
NewItems(src) ==
  [k \in 1 .. (Len(src) + ItemSize - 1) \div ItemSize |->
     Filled(Fresh, SubSeq(src, (k - 1) * ItemSize + 1, Min({k * ItemSize, Len(src)})))]

LEMMA BlockIs ==
  ASSUME NEW src \in Seq(Bytes), NEW k \in 1 .. (Len(src) + ItemSize - 1) \div ItemSize
  PROVE  LET part == SubSeq(src, (k - 1) * ItemSize + 1, Min({k * ItemSize, Len(src)}))
             size == IF k * ItemSize <= Len(src) THEN ItemSize ELSE Len(src) - (k - 1) * ItemSize
             from == (k - 1) * ItemSize
             upto == IF k * ItemSize <= Len(src) THEN k * ItemSize ELSE Len(src)
         IN  /\ part \in Seq(Bytes) /\ Len(part) = size /\ size > 0 /\ size <= ItemSize
             /\ from \in 0 .. Len(src) /\ upto \in 0 .. Len(src)
             /\ SubSeq(src, 1, from) \o part = SubSeq(src, 1, upto)
             /\ k < (Len(src) + ItemSize - 1) \div ItemSize => size = ItemSize
<1> DEFINE q == (Len(src) + ItemSize - 1) \div ItemSize
           n == Len(src)
           from == (k - 1) * ItemSize
           to == k * ItemSize
           upto == IF to <= n THEN to ELSE n
           size == IF to <= n THEN ItemSize ELSE n - from
           part == SubSeq(src, from + 1, Min({to, n}))
           all == q * ItemSize
           before == (q - 1) * ItemSize
<1>1. n \in Nat /\ \A i \in 1 .. n : src[i] \in Bytes
  BY LenProperties, ElementOfSeq
<1>2. q \in Nat /\ n <= all /\ all < n + ItemSize
  BY <1>1, Needed
<1> HIDE DEF q
<1>3. k \in 1 .. q /\ k \in Nat /\ k - 1 \in Nat /\ k - 1 <= k /\ k <= q /\ (k - 1) + 1 = k /\ q - 1 \in Nat
  BY <1>2 DEF q
<1>4. from \in Nat /\ to = from + ItemSize /\ to \in Nat
  BY <1>3, Multiples
<1>5. to <= all /\ all \in Nat
  BY <1>2, <1>3, Multiples
<1>6. k < q => to <= before /\ all = before + ItemSize /\ before \in Nat
  <2> SUFFICES ASSUME k < q PROVE to <= before /\ all = before + ItemSize /\ before \in Nat
    OBVIOUS
  <2>1. k <= q - 1 /\ q - 1 <= q - 1 /\ (q - 1) + 1 = q
    BY <1>2, <1>3
  <2> QED
    BY <1>3, <2>1, Multiples
<1> HIDE DEF n, from, to, all, before
<1>7. from < n /\ ItemSize \in Nat /\ ItemSize > 0
  BY <1>1, <1>2, <1>4, <1>5
<1>8. k < q => to < n
  BY <1>1, <1>2, <1>4, <1>5, <1>6
<1>9. Min({to, n}) = upto
  BY <1>1, <1>4, MinOfTwo
<1>10. upto \in from .. n /\ upto \in Nat /\ size = upto - from /\ size > 0 /\ size <= ItemSize
  BY <1>1, <1>4, <1>7
<1>11. k < q => size = ItemSize
  BY <1>1, <1>4, <1>8
<1> HIDE DEF upto, size
<1>12. part = SubSeq(src, from + 1, upto)
  BY <1>9
<1> HIDE DEF part
<1>13. part \in Seq(Bytes) /\ Len(part) = size
  <2>1. from + 1 \in Int /\ upto \in Int /\ \A i \in from + 1 .. upto : src[i] \in Bytes
    BY <1>1, <1>4, <1>10
  <2>2. /\ SubSeq(src, from + 1, upto) \in Seq(Bytes)
        /\ Len(SubSeq(src, from + 1, upto)) = IF from + 1 <= upto THEN upto - (from + 1) + 1 ELSE 0
    BY <2>1, SubSeqProperties
  <2> QED
    BY <1>4, <1>10, <1>12, <2>2
<1>14. SubSeq(src, 1, from) \o part = SubSeq(src, 1, upto)
  <2>1. 1 \in 1 .. n + 1 /\ from \in 1 - 1 .. n /\ upto \in from .. n
    BY <1>1, <1>4, <1>7, <1>10
  <2>2. SubSeq(src, 1, from) \o SubSeq(src, from + 1, upto) = SubSeq(src, 1, upto)
    BY <2>1, ConcatAdjacentSubSeq DEF n
  <2> QED
    BY <1>12, <2>2
<1>15. from \in 0 .. n /\ upto \in 0 .. n
  BY <1>1, <1>4, <1>7, <1>10
<1> QED
  BY <1>10, <1>11, <1>13, <1>14, <1>15 DEF part, size, upto, from, to, n, q

LEMMA NewItemsAre ==
  ASSUME NEW src \in Seq(Bytes)
  PROVE  /\ NewItems(src) \in Seq(Solid)
         /\ \A k \in 1 .. Len(NewItems(src)) :
              /\ NewItems(src)[k].dead = 0 /\ Used(NewItems(src)[k]) > 0
              /\ Live(NewItems(src)[k]) # << >>
              /\ k < Len(NewItems(src)) => Used(NewItems(src)[k]) = ItemSize
         /\ Content(NewItems(src)) = src
         /\ src = << >> => NewItems(src) = << >>
<1> DEFINE n == Len(src)
           q == (n + ItemSize - 1) \div ItemSize
           Part(k) == SubSeq(src, (k - 1) * ItemSize + 1, Min({k * ItemSize, n}))
           Size(k) == IF k * ItemSize <= n THEN ItemSize ELSE n - (k - 1) * ItemSize
           Upto(k) == IF k * ItemSize <= n THEN k * ItemSize ELSE n
           c == NewItems(src)
<1>1. n \in Nat
  BY LenProperties
<1>2. q \in Nat /\ n <= q * ItemSize /\ (n = 0 => q = 0)
  BY <1>1, Needed
<1>3. c = [k \in 1 .. q |-> Filled(Fresh, Part(k))]
  BY DEF NewItems
<1>4. ASSUME NEW k \in 1 .. q
      PROVE  /\ Part(k) \in Seq(Bytes) /\ Len(Part(k)) = Size(k) /\ Size(k) > 0 /\ Size(k) <= ItemSize
             /\ (k - 1) * ItemSize \in 0 .. n /\ Upto(k) \in 0 .. n
             /\ SubSeq(src, 1, (k - 1) * ItemSize) \o Part(k) = SubSeq(src, 1, Upto(k))
             /\ (k < q => Size(k) = ItemSize)
  BY BlockIs
<1> HIDE DEF q
<1>5. \A k \in 1 .. q : k < q => Upto(k) = k * ItemSize
  <2> SUFFICES ASSUME NEW k \in 1 .. q, k < q PROVE Upto(k) = k * ItemSize
    OBVIOUS
  <2> DEFINE x == k * ItemSize
             y == (k - 1) * ItemSize
  <2>1. Size(k) = ItemSize
    BY <1>4
  <2>2. x = y + ItemSize /\ y \in Nat
    <3>1. k - 1 \in Nat /\ k - 1 <= k /\ k \in Nat /\ (k - 1) + 1 = k
      BY <1>2
    <3> QED
      BY <3>1, Multiples
  <2>3. (IF x <= n THEN ItemSize ELSE n - y) = ItemSize
    BY <2>1
  <2>4. Upto(k) = IF x <= n THEN x ELSE n
    OBVIOUS
  <2> HIDE DEF x, y, n, Upto
  <2>5. x <= n \/ n = x
    BY <1>1, <2>2, <2>3
  <2> QED
    BY <2>4, <2>5 DEF x
<1> HIDE DEF Part, Size
<1>6. ASSUME NEW k \in 1 .. q
      PROVE  /\ c[k] = Filled(Fresh, Part(k)) /\ c[k] \in Solid /\ Live(c[k]) = Part(k)
             /\ Used(c[k]) = Size(k) /\ c[k].dead = 0
  <2>1. c[k] = Filled(Fresh, Part(k))
    BY <1>3
  <2>2. Part(k) \in Seq(Bytes) /\ Used(Fresh) + Len(Part(k)) <= ItemSize
    BY <1>4, FreshIs, LenProperties
  <2>3. /\ Filled(Fresh, Part(k)) \in Solid /\ Live(Filled(Fresh, Part(k))) = Live(Fresh) \o Part(k)
        /\ Used(Filled(Fresh, Part(k))) = Used(Fresh) + Len(Part(k)) /\ Filled(Fresh, Part(k)).dead = Fresh.dead
    BY <2>2, FreshIs, FilledIs
  <2>4. Live(Fresh) \o Part(k) = Part(k)
    BY <2>2, FreshIs, ConcatEmptySeq
  <2>5. Used(Fresh) + Len(Part(k)) = Size(k)
    <3>1. Len(Part(k)) = Size(k) /\ Used(Fresh) = 0 /\ Len(Part(k)) \in Nat
      BY <1>4, FreshIs, LenProperties
    <3> QED
      BY <3>1
  <2>6. Fresh.dead = 0
    BY FreshIs
  <2> HIDE DEF c
  <2> QED
    BY <2>1, <2>3, <2>4, <2>5, <2>6, Zenon
<1>7. c \in Seq(Solid) /\ Len(c) = q
  <2>1. \A k \in 1 .. q : Filled(Fresh, Part(k)) \in Solid
    BY <1>6
  <2> HIDE DEF c
  <2> QED
    BY <1>2, <1>3, <2>1
<1> HIDE DEF c
<1>8. ASSUME NEW k \in 1 .. q PROVE Live(c[k]) # << >>
  <2>1. Live(c[k]) = Part(k) /\ Len(Part(k)) > 0 /\ Len(<< >>) = 0
    BY <1>4, <1>6
  <2> QED
    BY <2>1
<1> DEFINE Good(k) == Content(SubSeq(c, 1, k)) = SubSeq(src, 1, Upto(k))
           T == {k \in 0 .. q : Good(k)}
<1>9. 0 \in T
  <2>1. 0 * ItemSize = 0 /\ Upto(0) = 0 /\ 0 \in 0 .. q
    BY <1>1, <1>2
  <2>2. Content(SubSeq(c, 1, 0)) = << >> /\ SubSeq(src, 1, 0) = << >>
    BY ContentNone, SubSeqEmpty
  <2> HIDE DEF Upto
  <2>3. Good(0)
    BY <2>1, <2>2, Zenon
  <2> HIDE DEF Good
  <2> QED
    BY <2>1, <2>3
<1> HIDE DEF Upto
<1>10. ASSUME NEW k \in 1 .. q, k - 1 \in T PROVE k \in T
  <2>1. Good(k - 1)
    BY <1>10
  <2>2. k \in 1 .. Len(c)
    BY <1>7
  <2>3. Content(SubSeq(c, 1, k)) = Content(SubSeq(c, 1, k - 1)) \o Live(c[k])
    BY <1>7, <2>2, ContentPrefix
  <2>4. Upto(k - 1) = (k - 1) * ItemSize
    <3>1. CASE k = 1
      <4>1. (k - 1) * ItemSize = 0 /\ k - 1 = 0
        BY <3>1
      <4>2. 0 * ItemSize = 0
        OBVIOUS
      <4> QED
        BY <1>1, <4>1, <4>2 DEF Upto
    <3>2. CASE k # 1
      <4>1. k - 1 \in 1 .. q /\ k - 1 < q
        BY <1>2, <3>2
      <4> QED
        BY <1>5, <4>1
    <3> QED
      BY <3>1, <3>2
  <2>5. Live(c[k]) = Part(k)
    BY <1>6
  <2>6. SubSeq(src, 1, (k - 1) * ItemSize) \o Part(k) = SubSeq(src, 1, Upto(k))
    BY <1>4
  <2>7. Good(k)
    BY <2>1, <2>3, <2>4, <2>5, <2>6, Zenon
  <2>8. k \in 0 .. q
    BY <1>2
  <2> HIDE DEF Good
  <2> QED
    BY <2>7, <2>8
<1>11. 0 .. q \subseteq T
  <2> HIDE DEF T
  <2> QED
    BY <1>2, <1>9, <1>10, Induction, Zenon
<1>12. Good(q)
  <2>1. q \in 0 .. q
    BY <1>2
  <2> HIDE DEF Good
  <2> QED
    BY <1>11, <2>1
<1>13. Content(c) = src
  <2>1. SubSeq(c, 1, q) = c /\ SubSeq(src, 1, n) = src
    BY <1>7, SubSeqFull
  <2>2. Upto(q) = n
    <3> DEFINE x == q * ItemSize
    <3>1. Upto(q) = (IF x <= n THEN x ELSE n) /\ n <= x
      BY <1>2 DEF Upto
    <3>2. x \in Nat
      BY <1>2, Multiples
    <3> HIDE DEF x
    <3> QED
      BY <1>1, <3>1, <3>2
  <2> QED
    BY <1>12, <2>1, <2>2, Zenon
<1>14. ASSUME src = << >> PROVE c = << >>
  <2>1. n = 0
    BY <1>14
  <2>2. Len(c) = 0
    BY <1>2, <1>7, <2>1
  <2> QED
    BY <1>7, <2>2, EmptySeq
<1>15. ASSUME NEW k \in 1 .. Len(c)
       PROVE  /\ c[k].dead = 0 /\ Used(c[k]) > 0 /\ Live(c[k]) # << >>
              /\ k < Len(c) => Used(c[k]) = ItemSize
  <2>1. k \in 1 .. q /\ Len(c) = q
    BY <1>7
  <2> QED
    BY <1>4, <1>6, <1>8, <2>1
<1> QED
  BY <1>7, <1>13, <1>14, <1>15 DEF c

----------------------------------------------------------------------------
(* The shape of a chain, and what append() makes of it.                    *)

HeadOnly(c)  == \A k \in 1 .. Len(c) : k > 1 => c[k].dead = 0
FullItems(c) == \A k \in 1 .. Len(c) : k < Len(c) => Used(c[k]) = ItemSize
NoneSpent(c) == c = <<Fresh>> \/ \A k \in 1 .. Len(c) : Live(c[k]) # << >>
Chain(c)     == c \in Seq(Solid) /\ HeadOnly(c) /\ NoneSpent(c)

LEMMA FreshChain == Chain(<<Fresh>>) /\ FullItems(<<Fresh>>) /\ Chain(<< >>) /\ FullItems(<< >>)
<1>1. /\ <<Fresh>> \in Seq(Solid) /\ Len(<<Fresh>>) = 1
      /\ << >> \in Seq(Solid) /\ Len(<< >>) = 0
  BY FreshIs
<1>2. HeadOnly(<<Fresh>>) /\ FullItems(<<Fresh>>) /\ HeadOnly(<< >>) /\ FullItems(<< >>)
  <2> DEFINE c == <<Fresh>>
             d == << >>
  <2>1. Len(c) = 1 /\ Len(d) = 0
    BY <1>1
  <2> HIDE DEF c, d
  <2>2. HeadOnly(c) /\ FullItems(c) /\ HeadOnly(d) /\ FullItems(d)
    BY <2>1 DEF HeadOnly, FullItems
  <2> QED
    BY <2>2 DEF c, d
<1>3. NoneSpent(<<Fresh>>) /\ NoneSpent(<< >>)
  BY <1>1 DEF NoneSpent
<1> QED
  BY <1>1, <1>2, <1>3 DEF Chain

LEMMA NonEmptyKeeps ==
  ASSUME NEW c, Chain(c)
  PROVE  /\ Chain(NonEmpty(c)) /\ NonEmpty(c) # << >> /\ Content(NonEmpty(c)) = Content(c)
         /\ FullItems(c) => FullItems(NonEmpty(c))
<1>1. CASE c = << >>
  <2>1. NonEmpty(c) = <<Fresh>>
    BY <1>1 DEF NonEmpty
  <2>2. <<Fresh>> # << >>
    OBVIOUS
  <2> QED
    BY <1>1, <2>1, <2>2, FreshChain, FreshIs, ContentNone, Zenon
<1>2. CASE c # << >>
  BY <1>2 DEF NonEmpty
<1> QED
  BY <1>1, <1>2

LEMMA HeadAndRest ==
  ASSUME NEW c \in Seq(Solid), c # << >>
  PROVE  /\ c[1] \in Solid /\ Without(c, 1) \in Seq(Solid)
         /\ Content(c) = Live(c[1]) \o Content(Without(c, 1))
<1>1. Len(c) \in Nat /\ Len(c) > 0 /\ 1 \in 1 .. Len(c) /\ 1 \in 0 .. Len(c)
  BY EmptySeq
<1>2. c[1] \in Solid
  BY <1>1, ElementOfSeq
<1>3. /\ SubSeq(c, 1, 1) \in Seq(Solid) /\ Without(c, 1) \in Seq(Solid)
      /\ SubSeq(c, 1, 1) \o Without(c, 1) = c
  BY <1>1, Parts DEF Without
<1>4. Content(SubSeq(c, 1, 1)) = Content(SubSeq(c, 1, 0)) \o Live(c[1])
  <2>1. 1 - 1 = 0
    OBVIOUS
  <2> QED
    BY <1>1, <2>1, ContentPrefix
<1>5. Content(SubSeq(c, 1, 0)) = << >>
  BY ContentNone
<1>6. << >> \o Live(c[1]) = Live(c[1])
  BY <1>2, LiveIs, ConcatEmptySeq
<1>7. Content(SubSeq(c, 1, 1) \o Without(c, 1)) = Content(SubSeq(c, 1, 1)) \o Content(Without(c, 1))
  BY <1>3, ContentConcat
<1> QED
  BY <1>2, <1>3, <1>4, <1>5, <1>6, <1>7, Zenon

\* A chain without bytes has no item, or one that was never filled.
LEMMA EmptyIs ==
  ASSUME NEW c, Chain(c)
  PROVE  Content(c) = << >> <=> c = << >> \/ c = <<Fresh>>
<1>1. ASSUME c = << >> \/ c = <<Fresh>> PROVE Content(c) = << >>
  BY <1>1, ContentNone, FreshIs
<1>2. ASSUME c # << >>, c # <<Fresh>> PROVE Content(c) # << >>
  <2>1. c \in Seq(Solid)
    BY DEF Chain
  <2>2. 1 \in 1 .. Len(c)
    BY <1>2, <2>1, EmptySeq
  <2>3. Live(c[1]) # << >>
    BY <1>2, <2>2 DEF Chain, NoneSpent
  <2>4. /\ c[1] \in Solid /\ Without(c, 1) \in Seq(Solid)
        /\ Content(c) = Live(c[1]) \o Content(Without(c, 1))
    BY <1>2, <2>1, HeadAndRest
  <2>5. Live(c[1]) \in Seq(Bytes) /\ Content(Without(c, 1)) \in Seq(Bytes)
    BY <2>4, LiveIs, ContentType
  <2> QED
    BY <2>3, <2>4, <2>5, ConcatEqualIffEmpty
<1> QED
  BY <1>1, <1>2

\* append() of a stream puts the bytes behind the others, and fills every item
\* before it makes a new one.
LEMMA AppendBytesKeeps ==
  ASSUME NEW c, Chain(c), FullItems(c), NEW src \in Seq(Bytes)
  PROVE  /\ Chain(AppendBytes(c, src)) /\ FullItems(AppendBytes(c, src))
         /\ Content(AppendBytes(c, src)) = Content(c) \o src
<1> DEFINE d == NonEmpty(c)
           n == Len(d)
           room == ItemSize - Used(d[n])
           first == Min({room, Len(src)})
           part == SubSeq(src, 1, first)
           rest == Without(src, first)
           e == [d EXCEPT ![Len(d)] = Filled(@, part)]
           f == NewItems(rest)
           r == e \o f
<1>1. AppendBytes(c, src) = r
  BY DEF AppendBytes, NewItems, Without
<1>2. Chain(d) /\ FullItems(d) /\ d # << >> /\ Content(d) = Content(c)
  BY NonEmptyKeeps
<1> HIDE DEF d
<1>3. d \in Seq(Solid)
  BY <1>2 DEF Chain
<1>4. n \in Nat /\ n > 0 /\ n \in 1 .. n
  BY <1>2, <1>3, EmptySeq
<1>5. d[n] \in Solid /\ \A k \in 1 .. n : d[k] \in Solid
  BY <1>3, <1>4, ElementOfSeq
<1>6. Used(d[n]) \in Nat /\ Used(d[n]) <= ItemSize /\ room \in Nat /\ Len(src) \in Nat
  <2>1. Used(d[n]) \in Nat /\ Used(d[n]) <= ItemSize
    BY <1>5, SolidIs
  <2> QED
    BY <2>1, LenProperties
<1>7. first \in 0 .. Len(src) /\ first <= room /\ (first = room \/ first = Len(src)) /\ first \in Nat
  <2>1. first = IF room <= Len(src) THEN room ELSE Len(src)
    <3> HIDE DEF room
    <3> QED
      BY <1>6, MinOfTwo
  <2> HIDE DEF first
  <2> QED
    BY <1>6, <2>1
<1> HIDE DEF first
<1>8. part \in Seq(Bytes) /\ Len(part) = first /\ part \o rest = src
  BY <1>7, UptoIs
<1>9. rest \in Seq(Bytes) /\ (first = Len(src) => rest = << >>)
  BY <1>7, WithoutIs, WithoutAll
<1> HIDE DEF part, rest
<1>10. Used(d[n]) + Len(part) <= ItemSize
  BY <1>6, <1>7, <1>8
<1>11. /\ e \in Seq(Solid) /\ Len(e) = n
       /\ \A k \in 1 .. n : e[k] = IF k = n THEN Filled(d[k], part) ELSE d[k]
       /\ Content(e) = Content(d) \o part
  BY <1>2, <1>3, <1>8, <1>10, TailFilled
<1> HIDE DEF e
<1>12. /\ f \in Seq(Solid) /\ Content(f) = rest /\ (rest = << >> => f = << >>)
       /\ \A k \in 1 .. Len(f) : /\ f[k].dead = 0 /\ Live(f[k]) # << >>
                                 /\ k < Len(f) => Used(f[k]) = ItemSize
  BY <1>9, NewItemsAre
<1> HIDE DEF f
<1>13. r \in Seq(Solid) /\ Content(r) = Content(e) \o Content(f) /\ Len(r) = n + Len(f) /\ Len(f) \in Nat
       /\ \A k \in 1 .. n + Len(f) : r[k] = IF k <= n THEN e[k] ELSE f[k - n]
  <2>1. r \in Seq(Solid) /\ Content(r) = Content(e) \o Content(f)
    BY <1>11, <1>12, ContentConcat
  <2>2. Len(r) = Len(e) + Len(f) /\ \A k \in 1 .. Len(e) + Len(f) : r[k] = IF k <= Len(e) THEN e[k] ELSE f[k - Len(e)]
    BY <1>11, <1>12, ConcatProperties
  <2>3. Len(f) \in Nat /\ Len(e) = n
    BY <1>11, <1>12, LenProperties
  <2> HIDE DEF r
  <2> QED
    BY <2>1, <2>2, <2>3, Zenon
<1>14. Content(r) = Content(c) \o src
  <2>1. (Content(c) \o part) \o rest = Content(c) \o (part \o rest)
    <3>1. Content(c) \in Seq(Bytes)
      BY ContentType DEF Chain
    <3> QED
      BY <1>8, <1>9, <3>1, Associative, Zenon
  <2> QED
    BY <1>2, <1>8, <1>11, <1>12, <1>13, <2>1, Zenon
<1>15. /\ Filled(d[n], part) \in Solid /\ Live(Filled(d[n], part)) = Live(d[n]) \o part
       /\ Used(Filled(d[n], part)) = Used(d[n]) + Len(part)
       /\ Filled(d[n], part).dead = d[n].dead
  BY <1>5, <1>8, <1>10, FilledIs
<1> HIDE DEF r
<1>16. ASSUME NEW k \in 1 .. Len(r)
       PROVE  \/ k \in 1 .. n - 1 /\ r[k] = d[k]
              \/ k = n /\ r[k] = Filled(d[n], part)
              \/ k - n \in 1 .. Len(f) /\ r[k] = f[k - n]
  <2>1. k \in 1 .. n + Len(f) /\ k \in Nat
    BY <1>4, <1>13
  <2>2. r[k] = IF k <= n THEN e[k] ELSE f[k - n]
    BY <1>13, <2>1
  <2>3. CASE k <= n
    <3>1. k \in 1 .. n
      BY <1>4, <2>1, <2>3
    <3>2. r[k] = IF k = n THEN Filled(d[k], part) ELSE d[k]
      BY <1>11, <2>2, <2>3, <3>1
    <3> QED
      BY <1>4, <3>1, <3>2
  <2>4. CASE ~(k <= n)
    BY <1>4, <1>13, <2>1, <2>2, <2>4
  <2> QED
    BY <2>3, <2>4
<1>17. HeadOnly(r)
  <2> SUFFICES ASSUME NEW k \in 1 .. Len(r), k > 1 PROVE r[k].dead = 0
    BY DEF HeadOnly
  <2>1. CASE k \in 1 .. n - 1 /\ r[k] = d[k]
    BY <1>2, <1>4, <2>1 DEF Chain, HeadOnly
  <2>2. CASE k = n /\ r[k] = Filled(d[n], part)
    <3>1. d[n].dead = 0
      BY <1>2, <1>4, <2>2 DEF Chain, HeadOnly
    <3> QED
      BY <1>15, <2>2, <3>1
  <2>3. CASE k - n \in 1 .. Len(f) /\ r[k] = f[k - n]
    BY <1>12, <2>3
  <2> QED
    BY <1>16, <2>1, <2>2, <2>3
<1>18. FullItems(r)
  <2> SUFFICES ASSUME NEW k \in 1 .. Len(r), k < Len(r) PROVE Used(r[k]) = ItemSize
    BY DEF FullItems
  <2>1. CASE k \in 1 .. n - 1 /\ r[k] = d[k]
    <3>1. k \in 1 .. n /\ k < n
      BY <1>4, <2>1
    <3>2. Used(d[k]) = ItemSize
      BY <1>2, <3>1 DEF FullItems
    <3> QED
      BY <2>1, <3>2
  <2>2. CASE k = n /\ r[k] = Filled(d[n], part)
    <3>1. Len(f) > 0
      BY <1>4, <1>13, <2>2
    <3>2. f # << >>
      BY <3>1
    <3>3. first = room
      BY <1>7, <1>9, <1>12, <3>2
    <3>4. Used(d[n]) + Len(part) = ItemSize
      BY <1>6, <1>8, <3>3
    <3> QED
      BY <1>15, <2>2, <3>4
  <2>3. CASE k - n \in 1 .. Len(f) /\ r[k] = f[k - n]
    <3>1. k - n < Len(f)
      BY <1>4, <1>13
    <3> QED
      BY <1>12, <2>3, <3>1
  <2> QED
    BY <1>16, <2>1, <2>2, <2>3
<1>19. NoneSpent(r)
  <2>1. CASE d = <<Fresh>> /\ part = << >>
    <3>1. n = 1 /\ d[n] = Fresh /\ room = ItemSize
      BY <2>1, FreshIs
    <3>2. first = 0
      BY <1>8, <2>1
    <3>3. f = << >>
      <4>1. first # room
        BY <3>1, <3>2
      <4> QED
        BY <1>7, <1>9, <1>12, <4>1
    <3>4. Filled(Fresh, part) = Fresh
      <4>1. Fresh.data \o << >> = << >>
        BY FreshIs
      <4> QED
        BY <2>1, <4>1 DEF Filled, Fresh
    <3>5. Len(e) = 1 /\ e[1] = Fresh
      BY <1>11, <3>1, <3>4
    <3>6. e = <<Fresh>>
      BY <1>11, <3>5, SeqEqual, FreshIs
    <3>7. r = e
      BY <1>11, <3>3, ConcatEmptySeq DEF r
    <3> QED
      BY <3>6, <3>7 DEF NoneSpent
  <2>2. CASE ~(d = <<Fresh>> /\ part = << >>)
    <3> SUFFICES ASSUME NEW k \in 1 .. Len(r) PROVE Live(r[k]) # << >>
      BY DEF NoneSpent
    <3>1. CASE k \in 1 .. n - 1 /\ r[k] = d[k]
      <4>0. Len(<<Fresh>>) = 1
        OBVIOUS
      <4>1. d # <<Fresh>> /\ k \in 1 .. n
        <5>1. n # 1 /\ k \in 1 .. n
          <6>1. k \in 1 .. n - 1 /\ n \in Nat
            BY <1>4, <3>1
          <6> HIDE DEF n
          <6> QED
            BY <6>1
        <5> QED
          BY <4>0, <5>1
      <4> QED
        BY <1>2, <3>1, <4>1 DEF Chain, NoneSpent
    <3>2. CASE k = n /\ r[k] = Filled(d[n], part)
      <4>1. Live(d[n]) # << >> \/ part # << >>
        BY <1>2, <1>4, <2>2 DEF Chain, NoneSpent
      <4>2. Live(d[n]) \in Seq(Bytes)
        BY <1>5, LiveIs
      <4>3. Live(d[n]) \o part # << >>
        BY <1>8, <4>1, <4>2, ConcatEqualIffEmpty
      <4> QED
        BY <1>15, <3>2, <4>3
    <3>3. CASE k - n \in 1 .. Len(f) /\ r[k] = f[k - n]
      BY <1>12, <3>3
    <3> QED
      BY <1>16, <3>1, <3>2, <3>3
  <2> QED
    BY <2>1, <2>2
<1> QED
  BY <1>1, <1>13, <1>14, <1>17, <1>18, <1>19 DEF Chain

----------------------------------------------------------------------------
(* remove().                                                               *)

LEMMA WithoutTwice ==
  ASSUME NEW S, NEW s \in Seq(S), NEW m \in Nat, NEW n \in Nat
  PROVE  Without(Without(s, m), n) = Without(s, m + n)
<1> DEFINE t == Without(s, m)
           x == Without(t, n)
           y == Without(s, m + n)
<1>0. Len(s) \in Nat /\ m + n \in Nat
  BY LenProperties
<1>1. t \in Seq(S) /\ Len(t) = IF m <= Len(s) THEN Len(s) - m ELSE 0
  BY WithoutIs
<1>2. \A i \in 1 .. Len(s) - m : t[i] = s[m + i]
  BY WithoutIs
<1> HIDE DEF t
<1>3. x \in Seq(S) /\ Len(x) = IF n <= Len(t) THEN Len(t) - n ELSE 0
  BY <1>1, WithoutIs
<1>4. \A i \in 1 .. Len(t) - n : x[i] = t[n + i]
  BY <1>1, WithoutIs
<1>5. y \in Seq(S) /\ Len(y) = IF m + n <= Len(s) THEN Len(s) - (m + n) ELSE 0
  BY <1>0, WithoutIs
<1>6. \A i \in 1 .. Len(s) - (m + n) : y[i] = s[m + n + i]
  BY <1>0, WithoutIs
<1> HIDE DEF x, y
<1>7. Len(x) = Len(y)
  BY <1>0, <1>1, <1>3, <1>5
<1>8. ASSUME NEW i \in 1 .. Len(x) PROVE x[i] = y[i]
  <2>1. m + n <= Len(s) /\ i \in Nat /\ i >= 1 /\ i <= Len(s) - (m + n) /\ Len(t) = Len(s) - m
    BY <1>0, <1>1, <1>3
  <2>2. i \in 1 .. Len(t) - n /\ n + i \in 1 .. Len(s) - m /\ i \in 1 .. Len(s) - (m + n) /\ m + (n + i) = m + n + i
    BY <1>0, <2>1
  <2> QED
    BY <1>2, <1>4, <1>6, <2>2
<1> QED
  BY <1>3, <1>5, <1>7, <1>8, SeqEqual DEF x, y, t

LEMMA MaxOfTwo ==
  ASSUME NEW a \in Int, NEW b \in Int
  PROVE  Max({a, b}) = IF a >= b THEN a ELSE b
<1> DEFINE S == {a, b}
           x == IF a >= b THEN a ELSE b
<1>1. x \in S /\ \A y \in S : x >= y
  OBVIOUS
<1>2. \A z \in S : (\A y \in S : z >= y) => z = x
  OBVIOUS
<1> HIDE DEF S, x
<1>3. Max(S) = x
  BY <1>1, <1>2 DEF Max
<1> QED
  BY <1>3 DEF S, x

\* The bytes ahead of item k.
Ahead(c, k) == Len(Content(SubSeq(c, 1, k - 1)))

\* The chain when n bytes are marked as dead.
Marked(c, n) ==
  [k \in 1 .. Len(c) |-> [c[k] EXCEPT !.dead = @ + Min({Len(Live(c[k])), Max({0, n - Ahead(c, k)})})]]

LEMMA AheadIs ==
  ASSUME NEW c \in Seq(Solid), NEW k \in 1 .. Len(c)
  PROVE  /\ Ahead(c, k) \in Nat
         /\ Len(Content(SubSeq(c, 1, k))) = Ahead(c, k) + Len(Live(c[k]))
<1>1. /\ Content(SubSeq(c, 1, k)) = Content(SubSeq(c, 1, k - 1)) \o Live(c[k])
      /\ Content(SubSeq(c, 1, k - 1)) \in Seq(Bytes)
  BY ContentPrefix
<1>2. Live(c[k]) \in Seq(Bytes)
  BY ElementOfSeq, LiveIs
<1>3. Len(Content(SubSeq(c, 1, k - 1)) \o Live(c[k])) = Len(Content(SubSeq(c, 1, k - 1))) + Len(Live(c[k]))
  BY <1>1, <1>2, ConcatProperties
<1>4. Len(Content(SubSeq(c, 1, k - 1))) \in Nat
  BY <1>1, LenProperties
<1> QED
  BY <1>1, <1>3, <1>4, Zenon DEF Ahead

\* More bytes are ahead of a later item.
LEMMA AheadGrows ==
  ASSUME NEW c \in Seq(Solid), NEW j \in 1 .. Len(c), NEW k \in 1 .. Len(c), j < k
  PROVE  Ahead(c, j) + Len(Live(c[j])) <= Ahead(c, k)
<1> DEFINE x == SubSeq(c, 1, j)
           y == SubSeq(c, j + 1, k - 1)
           z == SubSeq(c, 1, k - 1)
<1>1. Len(c) \in Nat /\ \A i \in 1 .. Len(c) : c[i] \in Solid
  BY LenProperties, ElementOfSeq
<1>2. 1 \in 1 .. Len(c) + 1 /\ j \in 1 - 1 .. Len(c) /\ k - 1 \in j .. Len(c) /\ j \in 0 .. Len(c)
      /\ j + 1 \in Int /\ k - 1 \in Int /\ \A i \in j + 1 .. k - 1 : i \in 1 .. Len(c)
  BY <1>1
<1>3. x \o y = z
  BY <1>2, ConcatAdjacentSubSeq
<1>4. x \in Seq(Solid)
  BY <1>2, Parts
<1>5. y \in Seq(Solid)
  <2>1. \A i \in j + 1 .. k - 1 : c[i] \in Solid
    BY <1>1, <1>2
  <2> QED
    BY <1>2, <2>1, SubSeqProperties
<1> HIDE DEF x, y, z
<1>6. Content(z) = Content(x) \o Content(y)
  BY <1>3, <1>4, <1>5, ContentConcat
<1>7. Content(x) \in Seq(Bytes) /\ Content(y) \in Seq(Bytes) /\ Len(Content(x)) \in Nat /\ Len(Content(y)) \in Nat
  BY <1>4, <1>5, ContentType
<1>8. Len(Content(x) \o Content(y)) = Len(Content(x)) + Len(Content(y))
  BY <1>7, ConcatProperties
<1>9. Ahead(c, k) = Len(Content(z))
  BY DEF Ahead, z
<1>10. Len(Content(x)) = Ahead(c, j) + Len(Live(c[j]))
  BY AheadIs DEF x
<1>11. Len(Content(z)) = Len(Content(x)) + Len(Content(y))
  BY <1>6, <1>8, Zenon
<1>12. Len(Content(x)) <= Len(Content(z))
  BY <1>7, <1>11
<1> QED
  BY <1>9, <1>10, <1>12, Zenon

LEMMA MarkedIs ==
  ASSUME NEW c \in Seq(Solid), NEW n \in Nat, NEW k \in 1 .. Len(c)
  PROVE  /\ Marked(c, n)[k] \in Solid
         /\ Used(Marked(c, n)[k]) = Used(c[k])
         /\ n <= Ahead(c, k) => Marked(c, n)[k] = c[k]
         /\ n <= Ahead(c, k) => Live(Marked(c, n)[k]) = Without(Live(c[k]), 0)
         /\ n >= Ahead(c, k) => Live(Marked(c, n)[k]) = Without(Live(c[k]), n - Ahead(c, k))
         /\ Used(Marked(c, n)[k]) # Marked(c, n)[k].dead <=> Live(Marked(c, n)[k]) # << >>
<1> DEFINE item == c[k]
           p == Ahead(c, k)
           over == Max({0, n - p})
           len == Len(Live(item))
           m == Min({len, over})
           r == Marked(c, n)[k]
<1>1. item \in Solid
  BY ElementOfSeq
<1>2. p \in Nat
  BY AheadIs
<1>3. r = [item EXCEPT !.dead = @ + m]
  BY DEF Marked
<1> HIDE DEF item, p, r
<1>4. Live(item) \in Seq(Bytes) /\ len \in Nat /\ len = Used(item) - item.dead
      /\ Live(item) = Without(item.data, item.dead)
  BY <1>1, LiveIs
<1> HIDE DEF len
<1>5. /\ item.data \in Seq(Bytes) /\ Used(item) \in Nat /\ Used(item) <= ItemSize
      /\ item.dead \in Nat /\ item.dead <= Used(item)
  BY <1>1, SolidIs
<1>6. over = IF n >= p THEN n - p ELSE 0
  BY <1>2, MaxOfTwo
<1> HIDE DEF over
<1>7. over \in Nat
  BY <1>2, <1>6
<1>8. m = IF len <= over THEN len ELSE over
  BY <1>4, <1>7, MinOfTwo
<1> HIDE DEF m
<1>9. m \in Nat /\ m <= len /\ m <= over
  BY <1>4, <1>7, <1>8
<1> DEFINE d == item.dead + m
<1>10. d \in Nat /\ d <= Used(item)
  BY <1>4, <1>5, <1>9
<1>11. r = [data |-> item.data, dead |-> d]
  <2>1. item \in [data : Data, dead : 0 .. ItemSize]
    BY <1>1 DEF Solid, Items, Data
  <2> QED
    BY <1>3, <2>1
<1> HIDE DEF d
<1>12. r \in Solid /\ r.data = item.data /\ r.dead = d /\ Used(r) = Used(item)
  <2>1. r.data = item.data /\ r.dead = d
    BY <1>11
  <2>2. Used(r) = Used(item)
    BY <2>1 DEF Used
  <2>3. d <= Len(item.data) /\ Len(item.data) <= ItemSize
    BY <1>5, <1>10 DEF Used
  <2>4. r \in Solid
    BY <1>5, <1>10, <1>11, <2>3, SolidMade
  <2> QED
    BY <2>1, <2>2, <2>4
<1>13. Live(r) = Without(item.data, d) /\ Len(Live(r)) = Used(item) - d /\ Live(r) \in Seq(Bytes)
  BY <1>12, LiveIs
<1>14. Without(item.data, d) = Without(Live(item), m)
  <2>1. item.data \in Seq(Bytes) /\ item.dead \in Nat /\ m \in Nat
    BY <1>5, <1>9
  <2>2. Without(Without(item.data, item.dead), m) = Without(item.data, item.dead + m)
    <3>1. \A s \in Seq(Bytes) : \A a, b \in Nat : Without(Without(s, a), b) = Without(s, a + b)
      BY WithoutTwice
    <3> QED
      BY <2>1, <3>1, Zenon
  <2> QED
    BY <1>4, <2>2, Zenon DEF d
<1>15. Without(Live(item), m) = Without(Live(item), over)
  <2>1. CASE len <= over
    <3>1. m = len
      BY <1>8, <2>1
    <3>2. Without(Live(item), m) = << >>
      BY <1>4, <1>9, <3>1, WithoutAll DEF len
    <3>3. Without(Live(item), over) = << >>
      BY <1>4, <1>7, <2>1, WithoutAll DEF len
    <3> QED
      BY <3>2, <3>3
  <2>2. CASE ~(len <= over)
    BY <1>8, <2>2
  <2> QED
    BY <2>1, <2>2
<1>16. Live(r) = Without(Live(item), over)
  BY <1>13, <1>14, <1>15, Zenon
<1>17. ASSUME n <= p PROVE r = item
  <2>1. m = 0
    BY <1>2, <1>6, <1>9, <1>17
  <2>2. d = item.dead
    BY <1>5, <2>1 DEF d
  <2>3. item = [data |-> item.data, dead |-> item.dead]
    BY <1>1, SolidIs
  <2> QED
    BY <1>11, <2>2, <2>3, Zenon
<1>18. ASSUME n <= p PROVE over = 0
  BY <1>2, <1>6, <1>18
<1>19. ASSUME n >= p PROVE over = n - p
  BY <1>6, <1>19
<1>20. Used(r) # r.dead <=> Live(r) # << >>
  <2>1. Len(Live(r)) = Used(r) - r.dead /\ Used(r) \in Nat /\ r.dead \in Nat
    BY <1>10, <1>12, <1>13, SolidIs
  <2>2. Live(r) = << >> <=> Len(Live(r)) = 0
    BY <1>13, EmptySeq
  <2> QED
    BY <2>1, <2>2
<1> QED
  BY <1>12, <1>16, <1>17, <1>18, <1>19, <1>20, Zenon DEF item, p, r

LEMMA MarkedType ==
  ASSUME NEW c \in Seq(Solid), NEW n \in Nat
  PROVE  Marked(c, n) \in Seq(Solid) /\ Len(Marked(c, n)) = Len(c)
<1> DEFINE M == Marked(c, n)
<1>1. Len(c) \in Nat /\ \A k \in 1 .. Len(c) : M[k] \in Solid
  BY LenProperties, MarkedIs
<1>2. \E e : M = [k \in 1 .. Len(c) |-> e[k]]
  <2>1. M = [k \in 1 .. Len(c) |-> M[k]]
    BY Zenon DEF Marked
  <2> QED
    BY <2>1
<1> HIDE DEF M
<1>3. DOMAIN M = 1 .. Len(c) /\ M = [k \in 1 .. Len(c) |-> M[k]]
  BY <1>2
<1>4. M \in Seq(Solid) /\ Len(M) = Len(c)
  BY <1>1, <1>3
<1> QED
  BY <1>4 DEF M

\* The items of a chain that are dropped have no byte left.
LEMMA RemovedIs ==
  ASSUME NEW c \in Seq(Solid), NEW n \in Nat
  PROVE  \E a \in 0 .. Len(c) :
           /\ RemoveBytes(c, n) = Without(Marked(c, n), a)
           /\ \A k \in 1 .. a : Live(Marked(c, n)[k]) = << >>
           /\ a < Len(c) => Live(Marked(c, n)[a + 1]) # << >>
<1> DEFINE M == Marked(c, n)
           alive == {k \in 1 .. Len(c) : Used(M[k]) # M[k].dead}
<1>1. M \in Seq(Solid) /\ Len(M) = Len(c) /\ Len(c) \in Nat
  BY MarkedType, LenProperties
<1>2. RemoveBytes(c, n) = IF alive = {} THEN << >> ELSE SubSeq(M, Min(alive), Len(c))
  BY DEF RemoveBytes, Marked, Ahead
<1>3. \A k \in 1 .. Len(c) : k \in alive <=> Live(M[k]) # << >>
  BY MarkedIs
<1>4. alive \subseteq Nat /\ alive \subseteq 1 .. Len(c)
  BY <1>1
<1> HIDE DEF M, alive
<1>5. CASE alive = {}
  <2>1. RemoveBytes(c, n) = << >>
    BY <1>2, <1>5
  <2>2. Without(M, Len(c)) = << >>
    BY <1>1, WithoutAll
  <2>3. \A k \in 1 .. Len(c) : Live(M[k]) = << >>
    BY <1>3, <1>5
  <2>4. Len(c) \in 0 .. Len(c) /\ ~(Len(c) < Len(c))
    BY <1>1
  <2> QED
    BY <2>1, <2>2, <2>3, <2>4 DEF M
<1>6. CASE alive # {}
  <2> DEFINE b == Min(alive)
  <2>1. b \in alive /\ \A k \in alive : b <= k
    BY <1>4, <1>6, Least
  <2>2. RemoveBytes(c, n) = SubSeq(M, b, Len(M))
    BY <1>1, <1>2, <1>6
  <2> HIDE DEF b
  <2> DEFINE a == b - 1
  <2>3. b \in 1 .. Len(c) /\ a \in 0 .. Len(c) /\ a + 1 = b
    BY <1>1, <1>4, <2>1
  <2>4. RemoveBytes(c, n) = Without(M, a)
    BY <2>2, <2>3 DEF Without
  <2>5. \A k \in 1 .. a : Live(M[k]) = << >>
    <3> SUFFICES ASSUME NEW k \in 1 .. a PROVE Live(M[k]) = << >>
      OBVIOUS
    <3>1. k \in 1 .. Len(c) /\ ~(b <= k)
      BY <1>1, <2>3
    <3> QED
      BY <1>3, <2>1, <3>1
  <2>6. Live(M[a + 1]) # << >>
    BY <1>3, <2>1, <2>3
  <2> HIDE DEF a
  <2> QED
    BY <2>3, <2>4, <2>5, <2>6 DEF M
<1> QED
  BY <1>5, <1>6

LEMMA MarkedContent ==
  ASSUME NEW c \in Seq(Solid), NEW n \in Nat
  PROVE  Content(Marked(c, n)) = Without(Content(c), n)
<1> DEFINE M == Marked(c, n)
           q == Len(c)
           Good(k) == Content(SubSeq(M, 1, k)) = Without(Content(SubSeq(c, 1, k)), n)
           T == {k \in 0 .. q : Good(k)}
<1>1. M \in Seq(Solid) /\ Len(M) = q /\ q \in Nat
  BY MarkedType, LenProperties
<1>2. 0 \in T
  <2>1. Content(SubSeq(M, 1, 0)) = << >> /\ Content(SubSeq(c, 1, 0)) = << >>
    BY ContentNone
  <2>2. Without(<< >>, n) = << >>
    <3>1. << >> \in Seq(Bytes) /\ n >= Len(<< >>)
      OBVIOUS
    <3> QED
      BY <3>1, WithoutAll
  <2>3. Good(0)
    BY <2>1, <2>2, Zenon
  <2>4. 0 \in 0 .. q
    BY <1>1
  <2> HIDE DEF Good
  <2> QED
    BY <2>3, <2>4
<1>3. ASSUME NEW k \in 1 .. q, k - 1 \in T PROVE k \in T
  <2> DEFINE s == Content(SubSeq(c, 1, k - 1))
             t == Live(c[k])
             p == Ahead(c, k)
  <2>1. Good(k - 1) /\ k \in 0 .. q
    BY <1>1, <1>3
  <2>2. /\ Content(SubSeq(M, 1, k)) = Content(SubSeq(M, 1, k - 1)) \o Live(M[k])
        /\ Content(SubSeq(c, 1, k)) = s \o t
    <3>1. k \in 1 .. Len(M)
      BY <1>1
    <3> HIDE DEF M
    <3> QED
      BY <1>1, <3>1, ContentPrefix
  <2>3. s \in Seq(Bytes) /\ t \in Seq(Bytes)
    BY ContentPrefix, ElementOfSeq, LiveIs
  <2>4. p = Len(s) /\ p \in Nat
    BY AheadIs DEF Ahead
  <2>5. /\ n <= p => Live(M[k]) = Without(t, 0)
        /\ n >= p => Live(M[k]) = Without(t, n - p)
    BY MarkedIs
  <2> HIDE DEF M, s, t, p
  <2>6. Without(s \o t, n) = Without(s, n) \o Live(M[k])
    <3>1. CASE n <= p
      <4>1. Without(s \o t, n) = Without(s, n) \o t
        BY <2>3, <2>4, <3>1, WithoutFirst
      <4>2. Without(t, 0) = t
        BY <2>3, WithoutNone
      <4>3. Live(M[k]) = t
        BY <2>5, <3>1, <4>2
      <4> QED
        BY <4>1, <4>3, Zenon
    <3>2. CASE n >= p
      <4>1. Without(s \o t, n) = Without(t, n - Len(s)) /\ n - Len(s) \in Nat
        BY <2>3, <2>4, <3>2, WithoutSecond
      <4>2. Without(s, n) = << >>
        BY <2>3, <2>4, <3>2, WithoutAll
      <4>3. Live(M[k]) = Without(t, n - Len(s))
        BY <2>4, <2>5, <3>2
      <4>4. Without(t, n - Len(s)) \in Seq(Bytes)
        BY <2>3, <4>1, WithoutIs
      <4>5. << >> \o Without(t, n - Len(s)) = Without(t, n - Len(s))
        BY <4>4, ConcatEmptySeq
      <4> QED
        BY <4>1, <4>2, <4>3, <4>5, Zenon
    <3> QED
      BY <2>4, <3>1, <3>2
  <2>7. Good(k)
    BY <2>1, <2>2, <2>6, Zenon DEF s
  <2> HIDE DEF Good
  <2> QED
    BY <2>1, <2>7
<1> HIDE DEF M
<1>4. 0 .. q \subseteq T
  <2> HIDE DEF T, q
  <2> QED
    BY <1>1, <1>2, <1>3, Induction, Zenon
<1>5. Good(q)
  <2>1. q \in 0 .. q
    BY <1>1
  <2> HIDE DEF Good
  <2> QED
    BY <1>4, <2>1
<1>6. SubSeq(M, 1, q) = M /\ SubSeq(c, 1, q) = c
  BY <1>1, SubSeqFull
<1> QED
  BY <1>5, <1>6, Zenon DEF M

\* Items without a byte at the head do not count.
LEMMA ContentBehind ==
  ASSUME NEW c \in Seq(Solid), NEW a \in 0 .. Len(c), \A k \in 1 .. a : Live(c[k]) = << >>
  PROVE  Without(c, a) \in Seq(Solid) /\ Content(Without(c, a)) = Content(c)
<1> DEFINE T == {k \in 0 .. a : Content(SubSeq(c, 1, k)) = << >>}
<1>1. Len(c) \in Nat /\ a \in Nat
  BY LenProperties
<1>2. 0 \in T
  BY <1>1, ContentNone
<1>3. ASSUME NEW k \in 1 .. a, k - 1 \in T PROVE k \in T
  <2>1. k \in 1 .. Len(c) /\ k \in 0 .. a
    BY <1>1
  <2>2. Content(SubSeq(c, 1, k)) = Content(SubSeq(c, 1, k - 1)) \o Live(c[k])
    BY <2>1, ContentPrefix
  <2>3. << >> \o << >> = << >>
    OBVIOUS
  <2>4. Content(SubSeq(c, 1, k)) = << >>
    BY <1>3, <2>2, <2>3
  <2> QED
    BY <2>1, <2>4
<1> HIDE DEF T
<1>4. a \in T
  <2>1. 0 .. a \subseteq T
    BY <1>1, <1>2, <1>3, Induction, Zenon
  <2> QED
    BY <1>1, <2>1
<1>5. /\ SubSeq(c, 1, a) \in Seq(Solid) /\ Without(c, a) \in Seq(Solid)
      /\ SubSeq(c, 1, a) \o Without(c, a) = c
  BY Parts DEF Without
<1>6. Content(SubSeq(c, 1, a) \o Without(c, a)) = Content(SubSeq(c, 1, a)) \o Content(Without(c, a))
  BY <1>5, ContentConcat
<1>7. << >> \o Content(Without(c, a)) = Content(Without(c, a))
  BY <1>5, ContentType, ConcatEmptySeq
<1>8. Content(SubSeq(c, 1, a)) = << >>
  BY <1>4 DEF T
<1> QED
  BY <1>5, <1>6, <1>7, <1>8, Zenon

\* remove() takes the first n bytes, and keeps the shape.
LEMMA RemoveBytesKeeps ==
  ASSUME NEW c, Chain(c), NEW n \in Nat
  PROVE  /\ Chain(RemoveBytes(c, n))
         /\ FullItems(c) => FullItems(RemoveBytes(c, n))
         /\ Content(RemoveBytes(c, n)) = Without(Content(c), n)
<1> DEFINE M == Marked(c, n)
           r == RemoveBytes(c, n)
           q == Len(c)
<1>1. c \in Seq(Solid) /\ q \in Nat
  BY LenProperties DEF Chain
<1>2. M \in Seq(Solid) /\ Len(M) = q
  BY <1>1, MarkedType
<1>3. PICK a \in 0 .. q : /\ r = Without(M, a)
                          /\ \A k \in 1 .. a : Live(M[k]) = << >>
                          /\ a < q => Live(M[a + 1]) # << >>
  BY <1>1, RemovedIs, Zenon
<1>4. \A k \in 1 .. q : /\ M[k] \in Solid /\ Used(M[k]) = Used(c[k])
                        /\ (n <= Ahead(c, k) => M[k] = c[k])
                        /\ (n >= Ahead(c, k) => Live(M[k]) = Without(Live(c[k]), n - Ahead(c, k)))
  BY <1>1, MarkedIs
<1>5. Content(M) = Without(Content(c), n)
  BY <1>1, MarkedContent
<1> HIDE DEF M, r
<1>6. r \in Seq(Solid) /\ Content(r) = Without(Content(c), n)
  <2>1. a \in 0 .. Len(M)
    BY <1>2
  <2> QED
    BY <1>2, <1>3, <1>5, <2>1, ContentBehind
<1>7. a \in Nat /\ a <= q /\ Len(r) = q - a /\ \A i \in 1 .. q - a : r[i] = M[a + i]
  <2>1. a \in Nat /\ a <= q
    BY <1>1
  <2>2. Len(r) = (IF a <= Len(M) THEN Len(M) - a ELSE 0) /\ \A i \in 1 .. Len(M) - a : r[i] = M[a + i]
    BY <1>2, <1>3, <2>1, WithoutIs
  <2> QED
    BY <1>2, <2>1, <2>2
\* Behind the first item that keeps a byte nothing is touched.
<1>8. ASSUME NEW k \in 1 .. q, k > a + 1 PROVE M[k] = c[k] /\ Live(c[k]) # << >> /\ c[k].dead = 0
  <2> DEFINE j == a + 1
             p == Ahead(c, j)
             x == Live(c[j])
  <2>1. j \in 1 .. q /\ j < k /\ a < q /\ k > 1 /\ q # 1
    BY <1>1, <1>7, <1>8
  <2>2. p \in Nat /\ x \in Seq(Bytes) /\ Len(x) \in Nat
    BY <1>1, <2>1, AheadIs, ElementOfSeq, LiveIs
  <2>3. p + Len(x) <= Ahead(c, k)
    BY <1>1, <2>1, AheadGrows
  <2>4. Live(M[j]) # << >>
    BY <1>3, <2>1
  <2>5. n >= p => Live(M[j]) = Without(x, n - p)
    BY <1>4, <2>1
  <2>6. Ahead(c, k) \in Nat
    BY <1>1, AheadIs
  <2> HIDE DEF p, x, j
  <2>7. n <= p + Len(x)
    <3> SUFFICES ASSUME n > p + Len(x) PROVE FALSE
      BY <2>2
    <3>1. n >= p /\ n - p \in Nat /\ n - p >= Len(x)
      BY <2>2
    <3>2. Without(x, n - p) = << >>
      BY <2>2, <3>1, WithoutAll
    <3> QED
      BY <2>4, <2>5, <3>1, <3>2
  <2>8. n <= Ahead(c, k)
    BY <2>2, <2>3, <2>6, <2>7
  <2>9. Len(<<Fresh>>) = 1
    OBVIOUS
  <2>10. Live(c[k]) # << >>
    BY <2>1, <2>9 DEF Chain, NoneSpent
  <2>11. c[k].dead = 0
    BY <2>1 DEF Chain, HeadOnly
  <2> QED
    BY <1>4, <2>8, <2>10, <2>11
<1>9. ASSUME NEW i \in 1 .. Len(r)
      PROVE  /\ i \in Nat /\ a + i \in 1 .. q /\ r[i] = M[a + i] /\ (i > 1 => a + i > a + 1)
             /\ (i < Len(r) => a + i < q)
  BY <1>1, <1>7
<1>10. HeadOnly(r)
  <2> SUFFICES ASSUME NEW i \in 1 .. Len(r), i > 1 PROVE r[i].dead = 0
    BY DEF HeadOnly
  <2>1. a + i \in 1 .. q /\ r[i] = M[a + i] /\ a + i > a + 1
    BY <1>9
  <2> QED
    BY <1>8, <2>1
<1>11. NoneSpent(r)
  <2> SUFFICES ASSUME NEW i \in 1 .. Len(r) PROVE Live(r[i]) # << >>
    BY DEF NoneSpent
  <2>1. i \in Nat /\ a + i \in 1 .. q /\ r[i] = M[a + i] /\ (i > 1 => a + i > a + 1)
    BY <1>9
  <2>2. CASE i = 1
    <3>1. a < q /\ a + i = a + 1
      BY <1>1, <1>7, <2>1, <2>2
    <3> QED
      BY <1>3, <2>1, <3>1
  <2>3. CASE i # 1
    <3>1. a + i > a + 1
      BY <2>1, <2>3
    <3> QED
      BY <1>8, <2>1, <3>1
  <2> QED
    BY <2>2, <2>3
<1>12. ASSUME FullItems(c) PROVE FullItems(r)
  <2> SUFFICES ASSUME NEW i \in 1 .. Len(r), i < Len(r) PROVE Used(r[i]) = ItemSize
    BY DEF FullItems
  <2>1. a + i \in 1 .. q /\ r[i] = M[a + i] /\ a + i < q
    BY <1>9
  <2>2. Used(c[a + i]) = ItemSize
    BY <1>12, <2>1 DEF FullItems
  <2> QED
    BY <1>4, <2>1, <2>2
<1> QED
  BY <1>6, <1>10, <1>11, <1>12 DEF Chain, r

----------------------------------------------------------------------------
(* A chain as a queue of packets.                                          *)

View(c) == IF Content(c) = << >> THEN << >> ELSE [k \in 1 .. Len(c) |-> Live(c[k])]

LEMMA ViewIs ==
  ASSUME NEW c \in Seq(Solid), Chain(c), \A k \in 1 .. Len(c) : Live(c[k]) # << >>
  PROVE  /\ View(c) \in Seq(Seq(Bytes)) /\ Len(View(c)) = Len(c)
         /\ \A k \in 1 .. Len(c) : View(c)[k] = Live(c[k])
<1> DEFINE v == [k \in 1 .. Len(c) |-> Live(c[k])]
<1>1. Len(c) \in Nat /\ \A k \in 1 .. Len(c) : Live(c[k]) \in Seq(Bytes)
  BY LenProperties, ElementOfSeq, LiveIs
<1>2. v \in Seq(Seq(Bytes)) /\ Len(v) = Len(c) /\ \A k \in 1 .. Len(c) : v[k] = Live(c[k])
  BY <1>1
<1>3. View(c) = IF Content(c) = << >> THEN << >> ELSE v
  BY DEF View
<1> HIDE DEF v
<1>4. View(c) = v
  <2>1. CASE Content(c) = << >>
    <3>1. c # <<Fresh>>
      <4> SUFFICES ASSUME c = <<Fresh>> PROVE FALSE
        OBVIOUS
      <4>1. 1 \in 1 .. Len(c) /\ c[1] = Fresh
        OBVIOUS
      <4> QED
        BY <4>1, FreshIs
    <3>2. c = << >>
      BY <2>1, <3>1, EmptyIs
    <3>3. Len(v) = 0
      BY <1>2, <3>2
    <3>4. v = << >>
      BY <1>2, <3>3, EmptySeq
    <3> QED
      BY <1>3, <2>1, <3>4
  <2>2. CASE Content(c) # << >>
    BY <1>3, <2>2
  <2> QED
    BY <2>1, <2>2
<1> QED
  BY <1>2, <1>4

\* append() of a datagram buffer makes one packet of what fits into an item.
LEMMA AppendPacketKeeps ==
  ASSUME NEW c, Chain(c), NEW src \in Seq(Bytes)
  PROVE  /\ Chain(AppendPacket(c, src))
         /\ View(AppendPacket(c, src)) =
              IF src = << >> THEN View(c)
              ELSE Append(View(c), SubSeq(src, 1, IF ItemSize < Len(src) THEN ItemSize ELSE Len(src)))
<1> DEFINE d == NonEmpty(c)
           e == IF Used(d[Len(d)]) # 0 THEN d \o <<Fresh>> ELSE d
           size == Min({ItemSize, Len(src)})
           part == SubSeq(src, 1, size)
           r == [e EXCEPT ![Len(e)] = Filled(@, part)]
           item == Filled(Fresh, part)
<1>1. AppendPacket(c, src) = IF src = << >> THEN d ELSE r
  BY DEF AppendPacket
<1>2. Chain(d) /\ d # << >> /\ Content(d) = Content(c)
  BY NonEmptyKeeps
<1>3. CASE src = << >>
  <2>1. AppendPacket(c, src) = d
    BY <1>1, <1>3
  <2>2. CASE c = << >>
    <3>1. View(d) = << >> /\ View(c) = << >>
      BY <1>2, <2>2, ContentNone DEF View
    <3> QED
      BY <1>2, <1>3, <2>1, <3>1
  <2>3. CASE c # << >>
    <3>1. d = c
      BY <2>3 DEF NonEmpty
    <3> QED
      BY <1>2, <1>3, <2>1, <3>1
  <2> QED
    BY <2>2, <2>3
<1>4. CASE src # << >>
  <2>1. Len(src) \in Nat /\ Len(src) > 0
    BY <1>4, EmptySeq
  <2>2. size = (IF ItemSize < Len(src) THEN ItemSize ELSE Len(src)) /\ size \in 0 .. Len(src) /\ size > 0
        /\ size <= ItemSize
    <3>1. size = IF ItemSize <= Len(src) THEN ItemSize ELSE Len(src)
      BY <2>1, MinOfTwo
    <3> HIDE DEF size
    <3> QED
      BY <2>1, <3>1
  <2> HIDE DEF size
  <2>3. part \in Seq(Bytes) /\ Len(part) = size /\ part # << >>
    <3>1. part \in Seq(Bytes) /\ Len(part) = size
      BY <2>2, UptoIs
    <3> HIDE DEF part
    <3> QED
      BY <2>2, <3>1
  <2> HIDE DEF part
  <2>4. item \in Solid /\ Live(item) = part /\ item.dead = 0
    <3>1. Used(Fresh) + Len(part) <= ItemSize /\ Fresh \in Solid
      <4>1. Used(Fresh) = 0 /\ Fresh \in Solid
        BY FreshIs
      <4> QED
        BY <2>2, <2>3, <4>1
    <3>2. item \in Solid /\ Live(item) = Live(Fresh) \o part /\ item.dead = Fresh.dead
      BY <2>3, <3>1, FilledIs
    <3>3. << >> \o part = part
      BY <2>3, ConcatEmptySeq
    <3> HIDE DEF item
    <3> QED
      BY <3>2, <3>3, FreshIs, Zenon
  <2> DEFINE b == IF c = << >> \/ c = <<Fresh>> THEN << >> ELSE c
  <2>5. /\ b \in Seq(Solid) /\ HeadOnly(b) /\ (\A k \in 1 .. Len(b) : Live(b[k]) # << >>)
        /\ View(b) = View(c)
    <3>1. CASE c = << >> \/ c = <<Fresh>>
      <4>1. View(c) = << >> /\ View(<< >>) = << >>
        BY <3>1, FreshIs, ContentNone DEF View
      <4>2. b = << >>
        BY <3>1
      <4> HIDE DEF b
      <4> QED
        BY <4>1, <4>2 DEF HeadOnly
    <3>2. CASE ~(c = << >> \/ c = <<Fresh>>)
      BY <3>2 DEF Chain, NoneSpent
    <3> QED
      BY <3>1, <3>2
  <2>6. r = b \o <<item>>
    <3>1. d \in Seq(Solid) /\ Len(d) \in Nat /\ Len(d) > 0 /\ Len(d) \in 1 .. Len(d)
      BY <1>2, EmptySeq DEF Chain
    <3>2. d[Len(d)] \in Solid
      BY <3>1, ElementOfSeq
    <3>3. CASE c = << >> \/ c = <<Fresh>>
      <4>1. d = <<Fresh>>
        BY <3>3 DEF NonEmpty
      <4>2. e = <<Fresh>>
        <5>1. d[Len(d)] = Fresh
          BY <4>1
        <5> HIDE DEF d
        <5> QED
          BY <4>1, <5>1, FreshIs
      <4> HIDE DEF e
      <4>3. r = [<<Fresh>> EXCEPT ![1] = item]
        BY <4>2
      <4> HIDE DEF r, item
      <4>4. r = <<item>>
        BY <4>3
      <4>5. << >> \o <<item>> = <<item>>
        BY <2>4, OneIs, ConcatEmptySeq
      <4> QED
        BY <3>3, <4>4, <4>5
    <3>4. CASE ~(c = << >> \/ c = <<Fresh>>)
      <4>1. d = c /\ b = c
        BY <3>4 DEF NonEmpty
      <4>2. Live(d[Len(d)]) # << >>
        BY <3>1, <3>4, <4>1 DEF Chain, NoneSpent
      <4>3. Used(d[Len(d)]) # 0
        <5> DEFINE it == d[Len(d)]
        <5>1. it \in Solid
          BY <3>2
        <5> HIDE DEF it
        <5>2. /\ Len(Live(it)) = Used(it) - it.dead /\ Len(Live(it)) \in Nat /\ Live(it) \in Seq(Bytes)
              /\ it.dead \in Nat
          BY <5>1, LiveIs, SolidIs
        <5>3. Live(it) # << >>
          BY <4>2 DEF it
        <5>4. Len(Live(it)) # 0
          BY <5>2, <5>3, EmptySeq
        <5>5. Used(it) # 0
          BY <5>1, <5>2, <5>4, SolidIs
        <5> QED
          BY <5>5 DEF it
      <4>4. e = d \o <<Fresh>>
        BY <4>3
      <4> HIDE DEF d, e
      <4>5. <<Fresh>> \in Seq(Solid) /\ Len(<<Fresh>>) = 1 /\ <<Fresh>>[1] = Fresh
        BY FreshIs, OneIs
      <4>6. e \in Seq(Solid) /\ Len(e) = Len(d) + 1
        BY <3>1, <4>4, <4>5, ConcatProperties
      <4>7. \A k \in 1 .. Len(d) + 1 : e[k] = IF k <= Len(d) THEN d[k] ELSE <<Fresh>>[k - Len(d)]
        BY <3>1, <4>4, <4>5, ConcatProperties
      <4>8. e[Len(d) + 1] = Fresh
        BY <3>1, <4>5, <4>7
      <4>9. r = [e EXCEPT ![Len(d) + 1] = item]
        BY <4>6, <4>8
      <4> HIDE DEF r, item
      <4> DEFINE f == b \o <<item>>
      <4>10. <<item>> \in Seq(Solid) /\ Len(<<item>>) = 1 /\ <<item>>[1] = item
        BY <2>4, OneIs
      <4>11. /\ f \in Seq(Solid) /\ Len(f) = Len(d) + 1
             /\ \A k \in 1 .. Len(d) + 1 : f[k] = IF k <= Len(d) THEN d[k] ELSE <<item>>[k - Len(d)]
        BY <3>1, <4>1, <4>10, ConcatProperties
      <4>12. /\ r \in Seq(Solid) /\ Len(r) = Len(d) + 1
             /\ \A k \in 1 .. Len(d) + 1 : r[k] = IF k = Len(d) + 1 THEN item ELSE e[k]
        <5>1. Len(d) + 1 \in 1 .. Len(e)
          BY <3>1, <4>6
        <5> QED
          BY <2>4, <4>6, <4>9, <5>1, ExceptSeq
      <4> HIDE DEF f
      <4>13. ASSUME NEW k \in 1 .. Len(d) + 1 PROVE r[k] = f[k]
        <5>1. CASE k = Len(d) + 1
          <6>1. ~(k <= Len(d)) /\ k - Len(d) = 1
            BY <3>1, <5>1
          <6> QED
            BY <4>10, <4>11, <4>12, <5>1, <6>1
        <5>2. CASE k # Len(d) + 1
          <6>1. k <= Len(d)
            BY <3>1, <5>2
          <6> QED
            BY <4>7, <4>11, <4>12, <5>2, <6>1
        <5> QED
          BY <5>1, <5>2
      <4> QED
        BY <4>11, <4>12, <4>13, SeqEqual DEF f
    <3> QED
      BY <3>3, <3>4
  <2> HIDE DEF b, r, item
  <2>7. <<item>> \in Seq(Solid) /\ Len(<<item>>) = 1 /\ <<item>>[1] = item
    BY <2>4, OneIs
  <2>8. Len(b) \in Nat
    BY <2>5, LenProperties
  <2>9. r \in Seq(Solid) /\ Len(r) = Len(b) + 1
    BY <2>5, <2>6, <2>7, ConcatProperties
  <2>10. \A k \in 1 .. Len(b) + 1 : r[k] = IF k <= Len(b) THEN b[k] ELSE item
    <3>1. \A k \in 1 .. Len(b) + 1 : r[k] = IF k <= Len(b) THEN b[k] ELSE <<item>>[k - Len(b)]
      BY <2>5, <2>6, <2>7, ConcatProperties
    <3>2. ASSUME NEW k \in 1 .. Len(b) + 1 PROVE r[k] = IF k <= Len(b) THEN b[k] ELSE item
      <4>1. CASE k <= Len(b)
        BY <3>1, <4>1
      <4>2. CASE ~(k <= Len(b))
        <5>1. k - Len(b) = 1
          BY <2>8, <4>2
        <5> QED
          BY <2>7, <3>1, <4>2, <5>1
      <4> QED
        BY <4>1, <4>2
    <3> QED
      BY <3>2
  <2>11. \A k \in 1 .. Len(r) : Live(r[k]) # << >>
    BY <2>3, <2>4, <2>5, <2>8, <2>9, <2>10
  <2>12. HeadOnly(r)
    <3> SUFFICES ASSUME NEW k \in 1 .. Len(r), k > 1 PROVE r[k].dead = 0
      BY DEF HeadOnly
    <3> QED
      BY <2>4, <2>5, <2>8, <2>9, <2>10 DEF HeadOnly
  <2>13. Chain(r)
    BY <2>9, <2>11, <2>12 DEF Chain, NoneSpent
  <2>14. Chain(b)
    BY <2>5 DEF Chain, NoneSpent
  <2>15. /\ View(b) \in Seq(Seq(Bytes)) /\ Len(View(b)) = Len(b)
         /\ \A k \in 1 .. Len(b) : View(b)[k] = Live(b[k])
    BY <2>5, <2>14, ViewIs
  <2>16. /\ View(r) \in Seq(Seq(Bytes)) /\ Len(View(r)) = Len(r)
         /\ \A k \in 1 .. Len(r) : View(r)[k] = Live(r[k])
    BY <2>9, <2>11, <2>13, ViewIs
  <2> DEFINE w == Append(View(b), part)
  <2>17. /\ w \in Seq(Seq(Bytes)) /\ Len(w) = Len(b) + 1
         /\ (\A k \in 1 .. Len(b) : w[k] = View(b)[k]) /\ w[Len(b) + 1] = part
    BY <2>3, <2>15, AppendProperties
  <2> HIDE DEF w
  <2>18. ASSUME NEW k \in 1 .. Len(b) + 1 PROVE View(r)[k] = w[k]
    <3>1. View(r)[k] = Live(r[k])
      BY <2>9, <2>16
    <3>2. CASE k <= Len(b)
      <4>1. k \in 1 .. Len(b)
        BY <2>8, <3>2
      <4> QED
        BY <2>10, <2>15, <2>17, <3>1, <3>2, <4>1
    <3>3. CASE ~(k <= Len(b))
      <4>1. k = Len(b) + 1
        BY <2>8, <3>3
      <4> QED
        BY <2>4, <2>10, <2>17, <3>1, <3>3, <4>1
    <3> QED
      BY <3>2, <3>3
  <2>19. View(r) = w
    BY <2>9, <2>16, <2>17, <2>18, SeqEqual
  <2>20. AppendPacket(c, src) = r
    BY <1>1, <1>4
  <2>21. part = SubSeq(src, 1, IF ItemSize < Len(src) THEN ItemSize ELSE Len(src))
    BY <2>2 DEF part
  <2> QED
    BY <1>4, <2>5, <2>13, <2>19, <2>20, <2>21 DEF w
<1> QED
  BY <1>3, <1>4

\* Of the packets only the one at the head is read.
LEMMA PeekPacketIs ==
  ASSUME NEW c, Chain(c), NEW n \in Nat
  PROVE  /\ View(c) = << >> => PeekPacket(c, n) = << >>
         /\ View(c) # << >> =>
              PeekPacket(c, n) = SubSeq(Head(View(c)), 1, IF n < Len(Head(View(c))) THEN n ELSE Len(Head(View(c))))
<1>1. c \in Seq(Solid)
  BY DEF Chain
<1>2. PeekPacket(c, n) = IF c = << >> THEN << >> ELSE PeekBytes(<<c[1]>>, n)
  BY DEF PeekPacket
<1>3. ASSUME c # << >>
      PROVE  PeekBytes(<<c[1]>>, n) = SubSeq(Live(c[1]), 1, IF n < Len(Live(c[1])) THEN n ELSE Len(Live(c[1])))
  <2>1. c[1] \in Solid
    BY <1>1, <1>3, HeadAndRest
  <2>2. Content(<<c[1]>>) = Live(c[1]) /\ Len(Live(c[1])) \in Nat
    BY <2>1, ContentOne, LiveIs
  <2>3. Min({n, Len(Live(c[1]))}) = IF n <= Len(Live(c[1])) THEN n ELSE Len(Live(c[1]))
    BY <2>2, MinOfTwo
  <2>4. (IF n <= Len(Live(c[1])) THEN n ELSE Len(Live(c[1]))) = (IF n < Len(Live(c[1])) THEN n ELSE Len(Live(c[1])))
    BY <2>2
  <2> QED
    BY <2>2, <2>3, <2>4, Zenon DEF PeekBytes
<1>4. CASE c = << >>
  BY <1>2, <1>4, ContentNone DEF View
<1>5. CASE c = <<Fresh>>
  <2>1. Content(c) = << >> /\ c[1] = Fresh /\ c # << >>
    BY <1>5, FreshIs
  <2>2. View(c) = << >>
    BY <2>1 DEF View
  <2>3. Live(c[1]) = << >> /\ Len(<< >>) = 0 /\ ~(n < 0)
    BY <2>1, FreshIs
  <2>4. SubSeq(<< >>, 1, 0) = << >>
    BY SubSeqEmpty
  <2>5. PeekPacket(c, n) = << >>
    BY <1>2, <1>3, <2>1, <2>3, <2>4
  <2> QED
    BY <2>2, <2>5
<1>6. CASE c # << >> /\ c # <<Fresh>>
  <2>1. \A k \in 1 .. Len(c) : Live(c[k]) # << >>
    BY <1>6 DEF Chain, NoneSpent
  <2>2. /\ View(c) \in Seq(Seq(Bytes)) /\ Len(View(c)) = Len(c)
        /\ \A k \in 1 .. Len(c) : View(c)[k] = Live(c[k])
    BY <1>1, <2>1, ViewIs
  <2>3. Len(c) \in Nat /\ Len(c) > 0 /\ 1 \in 1 .. Len(c)
    BY <1>1, <1>6, EmptySeq
  <2>4. View(c) # << >> /\ Head(View(c)) = Live(c[1])
    BY <2>2, <2>3
  <2> QED
    BY <1>2, <1>3, <1>6, <2>4
<1> QED
  BY <1>4, <1>5, <1>6

\* What remove() leaves of the packets, when it takes no more than one.
LEMMA RemovePacketIs ==
  ASSUME NEW c, Chain(c), View(c) # << >>, NEW n \in Nat, n <= Len(Head(View(c)))
  PROVE  View(RemoveBytes(c, n)) = IF n = Len(Head(View(c))) THEN Tail(View(c))
                                   ELSE <<Without(Head(View(c)), n)>> \o Tail(View(c))
<1> DEFINE M == Marked(c, n)
           r == RemoveBytes(c, n)
           q == Len(c)
           v == View(c)
           first == Live(c[1])
<1>1. c \in Seq(Solid) /\ q \in Nat
  BY LenProperties DEF Chain
<1>2. c # << >> /\ c # <<Fresh>>
  BY FreshIs, ContentNone DEF View
<1>3. \A k \in 1 .. q : Live(c[k]) # << >>
  BY <1>2 DEF Chain, NoneSpent
<1>4. v \in Seq(Seq(Bytes)) /\ Len(v) = q /\ \A k \in 1 .. q : v[k] = Live(c[k])
  BY <1>1, <1>3, ViewIs
<1>5. q > 0 /\ 1 \in 1 .. q
  BY <1>1, <1>2, EmptySeq
<1>6. Head(v) = first /\ n <= Len(first)
  <2>1. v # << >> /\ Head(v) = v[1]
    BY <1>4
  <2> HIDE DEF v
  <2> QED
    BY <1>4, <1>5, <2>1 DEF v
<1>7. first \in Seq(Bytes) /\ Len(first) \in Nat
  BY <1>1, <1>5, ElementOfSeq, LiveIs
<1>8. M \in Seq(Solid) /\ Len(M) = q
  BY <1>1, MarkedType
<1>9. PICK a \in 0 .. q : /\ r = Without(M, a)
                          /\ \A k \in 1 .. a : Live(M[k]) = << >>
                          /\ a < q => Live(M[a + 1]) # << >>
  BY <1>1, RemovedIs, Zenon
<1>10. Ahead(c, 1) = 0
  <2>1. Len(<< >>) = 0 /\ 1 - 1 = 0
    OBVIOUS
  <2> QED
    BY <2>1, ContentNone DEF Ahead
<1>11. Live(M[1]) = Without(first, n)
  <2>1. n >= Ahead(c, 1) => Live(M[1]) = Without(first, n - Ahead(c, 1))
    BY <1>1, <1>5, MarkedIs
  <2> HIDE DEF M, first
  <2> QED
    BY <1>10, <2>1
<1>12. ASSUME NEW k \in 2 .. q PROVE M[k] = c[k]
  <2>1. k \in 1 .. q /\ 1 < k
    BY <1>1
  <2>2. Ahead(c, 1) + Len(first) <= Ahead(c, k)
    BY <1>1, <1>5, <2>1, AheadGrows
  <2>3. Ahead(c, k) \in Nat /\ (n <= Ahead(c, k) => M[k] = c[k])
    BY <1>1, <2>1, AheadIs, MarkedIs
  <2> HIDE DEF M, first
  <2> QED
    BY <1>6, <1>7, <1>10, <2>2, <2>3
<1>13. Chain(r)
  BY RemoveBytesKeeps
<1>14. Tail(v) \in Seq(Seq(Bytes)) /\ Len(Tail(v)) = q - 1 /\ \A k \in 1 .. q - 1 : Tail(v)[k] = Live(c[k + 1])
  <2>1. v # << >>
    BY <1>4, <1>5
  <2>2. Tail(v) \in Seq(Seq(Bytes)) /\ Len(Tail(v)) = Len(v) - 1 /\ \A i \in 1 .. Len(Tail(v)) : Tail(v)[i] = v[i + 1]
    BY <1>4, <2>1, HeadTailProperties
  <2>3. \A k \in 1 .. q - 1 : k + 1 \in 1 .. q
    BY <1>1
  <2> HIDE DEF v
  <2> QED
    BY <1>4, <2>2, <2>3
<1> HIDE DEF M, r, v, first
<1>15. a \in Nat /\ a <= q /\ r \in Seq(Solid) /\ Len(r) = q - a /\ \A i \in 1 .. q - a : r[i] = M[a + i]
  <2>1. a \in Nat /\ a <= q
    BY <1>1
  <2>2. /\ Without(M, a) \in Seq(Solid) /\ Len(Without(M, a)) = (IF a <= Len(M) THEN Len(M) - a ELSE 0)
        /\ \A i \in 1 .. Len(M) - a : Without(M, a)[i] = M[a + i]
    BY <1>8, <2>1, WithoutIs
  <2> QED
    BY <1>8, <1>9, <2>1, <2>2
<1>16. ASSUME a >= 2 PROVE FALSE
  <2>1. 2 \in 2 .. q /\ 2 \in 1 .. a /\ 2 \in 1 .. q
    BY <1>1, <1>15, <1>16
  <2> QED
    BY <1>3, <1>9, <1>12, <2>1
<1>17. CASE n = Len(first)
  <2>1. Live(M[1]) = << >>
    BY <1>7, <1>11, <1>17, WithoutAll
  <2>2. a = 1
    <3>1. a # 0
      <4> SUFFICES ASSUME a = 0 PROVE FALSE
        OBVIOUS
      <4>1. a < q /\ a + 1 = 1
        BY <1>5
      <4> QED
        BY <1>9, <2>1, <4>1
    <3> QED
      BY <1>15, <1>16, <3>1
  <2>3. ASSUME NEW i \in 1 .. q - 1 PROVE r[i] = c[i + 1] /\ Live(c[i + 1]) # << >>
    <3>1. i + 1 \in 2 .. q /\ i + 1 \in 1 .. q /\ 1 + i = i + 1
      BY <1>1
    <3>2. r[i] = M[1 + i]
      BY <1>15, <2>2
    <3> QED
      BY <1>3, <1>12, <3>1, <3>2
  <2>4. Len(r) = q - 1 /\ \A i \in 1 .. Len(r) : Live(r[i]) # << >>
    BY <1>15, <2>2, <2>3
  <2>5. View(r) \in Seq(Seq(Bytes)) /\ Len(View(r)) = Len(r) /\ \A i \in 1 .. Len(r) : View(r)[i] = Live(r[i])
    BY <1>13, <1>15, <2>4, ViewIs
  <2>6. View(r) = Tail(v)
    <3>1. \A i \in 1 .. Len(View(r)) : View(r)[i] = Tail(v)[i]
      BY <1>14, <2>3, <2>4, <2>5
    <3> QED
      BY <1>14, <2>4, <2>5, <3>1, SeqEqual
  <2> QED
    BY <1>6, <1>17, <2>6 DEF r, v
<1>18. CASE n # Len(first)
  <2> DEFINE x == Without(first, n)
             w == <<x>> \o Tail(v)
  <2>1. x \in Seq(Bytes) /\ x # << >>
    <3>1. x \in Seq(Bytes) /\ Len(x) = (IF n <= Len(first) THEN Len(first) - n ELSE 0)
      BY <1>7, WithoutIs
    <3> HIDE DEF x
    <3>2. Len(x) # 0
      BY <1>6, <1>7, <1>18, <3>1
    <3> QED
      BY <3>1, <3>2, EmptySeq
  <2> HIDE DEF x
  <2>2. Live(M[1]) = x
    BY <1>11 DEF x
  <2>3. a = 0
    <3>1. a # 1
      <4> SUFFICES ASSUME a = 1 PROVE FALSE
        OBVIOUS
      <4>1. 1 \in 1 .. a
        OBVIOUS
      <4> QED
        BY <1>9, <2>1, <2>2, <4>1
    <3> QED
      BY <1>15, <1>16, <3>1
  <2>4. Len(r) = q /\ \A i \in 1 .. q : r[i] = M[i]
    <3>1. \A i \in 1 .. q : 0 + i = i
      BY <1>1
    <3> QED
      BY <1>1, <1>15, <2>3, <3>1
  <2>5. ASSUME NEW i \in 1 .. q PROVE Live(r[i]) = (IF i = 1 THEN x ELSE Live(c[i])) /\ Live(r[i]) # << >>
    <3>1. CASE i = 1
      BY <2>1, <2>2, <2>4, <3>1
    <3>2. CASE i # 1
      <4>1. i \in 2 .. q
        BY <1>1, <3>2
      <4> QED
        BY <1>3, <1>12, <2>4, <3>2, <4>1
    <3> QED
      BY <3>1, <3>2
  <2>6. View(r) \in Seq(Seq(Bytes)) /\ Len(View(r)) = q /\ \A i \in 1 .. q : View(r)[i] = Live(r[i])
    <3>1. \A i \in 1 .. Len(r) : Live(r[i]) # << >>
      BY <2>4, <2>5
    <3>2. View(r) \in Seq(Seq(Bytes)) /\ Len(View(r)) = Len(r) /\ \A i \in 1 .. Len(r) : View(r)[i] = Live(r[i])
      BY <1>13, <1>15, <3>1, ViewIs
    <3> QED
      BY <2>4, <3>2
  <2>7. <<x>> \in Seq(Seq(Bytes)) /\ Len(<<x>>) = 1 /\ <<x>>[1] = x
    BY <2>1, OneIs
  <2>8. /\ w \in Seq(Seq(Bytes)) /\ Len(w) = 1 + (q - 1)
        /\ \A i \in 1 .. 1 + (q - 1) : w[i] = IF i <= 1 THEN <<x>>[i] ELSE Tail(v)[i - 1]
    BY <1>14, <2>7, ConcatProperties
  <2> HIDE DEF w
  <2>9. ASSUME NEW i \in 1 .. q PROVE View(r)[i] = w[i]
    <3>1. i \in 1 .. 1 + (q - 1) /\ i \in Nat
      BY <1>1
    <3>2. CASE i = 1
      BY <2>5, <2>6, <2>7, <2>8, <3>1, <3>2
    <3>3. CASE i # 1
      <4>1. ~(i <= 1) /\ i - 1 \in 1 .. q - 1 /\ (i - 1) + 1 = i
        BY <1>1, <3>1, <3>3
      <4>2. w[i] = Tail(v)[i - 1]
        BY <2>8, <3>1, <4>1
      <4>3. Tail(v)[i - 1] = Live(c[i])
        BY <1>14, <4>1
      <4> QED
        BY <2>5, <2>6, <3>3, <4>2, <4>3
    <3> QED
      BY <3>2, <3>3
  <2>10. View(r) = w
    <3>1. Len(w) = q
      BY <1>1, <2>8
    <3> QED
      BY <2>6, <2>8, <2>9, <3>1, SeqEqual
  <2> QED
    BY <1>6, <1>18, <2>10 DEF r, v, w, x
<1> QED
  BY <1>17, <1>18

----------------------------------------------------------------------------
(* Lines.                                                                  *)

LEMMA Greatest ==
  ASSUME NEW n \in Nat, NEW S, S \subseteq 1 .. n, S # {}
  PROVE  Max(S) \in S /\ \A k \in S : k <= Max(S)
<1> DEFINE D == {n - k : k \in S}
<1>1. D \subseteq Nat /\ D # {}
  <2>1. \A k \in S : n - k \in Nat
    OBVIOUS
  <2>2. PICK k : k \in S
    OBVIOUS
  <2>3. n - k \in D
    BY <2>2
  <2> QED
    BY <2>1, <2>3
<1> HIDE DEF D
<1>2. Min(D) \in D /\ \A k \in D : Min(D) <= k
  BY <1>1, Least
<1> DEFINE m == Min(D)
<1> HIDE DEF m
<1>3. m \in D /\ \A k \in D : m <= k
  BY <1>2 DEF m
<1>4. PICK x \in S : m = n - x
  BY <1>3 DEF D
<1>5. \A y \in S : n - y \in D
  BY DEF D
<1>6. \A y \in S : x >= y
  <2> SUFFICES ASSUME NEW y \in S PROVE x >= y
    OBVIOUS
  <2>1. x \in Int /\ y \in Int /\ n - x <= n - y
    BY <1>3, <1>4, <1>5
  <2> QED
    BY <2>1
<1>7. Max(S) \in S /\ \A y \in S : Max(S) >= y
  BY <1>6 DEF Max
<1> QED
  BY <1>7

\* Stripping takes the CR and LF characters off the end, and no other.
LEMMA StrippedIs ==
  ASSUME NEW s \in Seq(Bytes)
  PROVE  \E t \in 0 .. Len(s) :
           /\ Stripped(s) = SubSeq(s, 1, t)
           /\ \A j \in t + 1 .. Len(s) : s[j] \in {CR, LF}
           /\ t > 0 => s[t] \notin {CR, LF}
<1> DEFINE kept == {k \in 1 .. Len(s) : s[k] \notin {CR, LF}}
           t == IF kept = {} THEN 0 ELSE Max(kept)
<1>1. Len(s) \in Nat
  BY LenProperties
<1>2. Stripped(s) = SubSeq(s, 1, t)
  BY DEF Stripped
<1>3. \A k \in 1 .. Len(s) : k \in kept <=> s[k] \notin {CR, LF}
  OBVIOUS
<1>4. kept \subseteq 1 .. Len(s)
  OBVIOUS
<1> HIDE DEF kept
<1>5. CASE kept = {}
  <2>1. t = 0
    BY <1>5
  <2>2. \A j \in 0 + 1 .. Len(s) : s[j] \in {CR, LF}
    BY <1>3, <1>5
  <2>3. 0 \in 0 .. Len(s) /\ ~(0 > 0)
    BY <1>1
  <2> QED
    BY <1>2, <2>1, <2>2, <2>3
<1>6. CASE kept # {}
  <2>1. t \in kept /\ \A k \in kept : k <= t
    BY <1>1, <1>4, <1>6, Greatest
  <2> HIDE DEF t
  <2>2. t \in 1 .. Len(s) /\ t \in 0 .. Len(s) /\ s[t] \notin {CR, LF}
    BY <1>1, <1>3, <1>4, <2>1
  <2>3. ASSUME NEW j \in t + 1 .. Len(s) PROVE s[j] \in {CR, LF}
    <3>1. j \in 1 .. Len(s) /\ ~(j <= t)
      BY <1>1, <2>2
    <3> QED
      BY <1>3, <2>1, <3>1
  <2> QED
    BY <1>2, <2>2, <2>3
<1> QED
  BY <1>5, <1>6

LEMMA UptoTwice ==
  ASSUME NEW S, NEW s \in Seq(S), NEW m \in 0 .. Len(s), NEW k \in 0 .. m
  PROVE  SubSeq(SubSeq(s, 1, m), 1, k) = SubSeq(s, 1, k)
<1> DEFINE u == SubSeq(s, 1, m)
           x == SubSeq(u, 1, k)
           y == SubSeq(s, 1, k)
<1>1. Len(s) \in Nat /\ k \in 0 .. Len(s) /\ m \in Nat /\ k \in Nat
  BY LenProperties
<1>2. u \in Seq(S) /\ Len(u) = m /\ \A i \in 1 .. m : u[i] = s[i]
  BY UptoIs
<1> HIDE DEF u
<1>3. x \in Seq(S) /\ Len(x) = k /\ \A i \in 1 .. k : x[i] = u[i]
  BY <1>2, UptoIs
<1>4. y \in Seq(S) /\ Len(y) = k /\ \A i \in 1 .. k : y[i] = s[i]
  BY <1>1, UptoIs
<1> HIDE DEF x, y
<1>5. ASSUME NEW i \in 1 .. k PROVE x[i] = y[i]
  <2>1. i \in 1 .. m
    BY <1>1
  <2> QED
    BY <1>2, <1>3, <1>4, <2>1
<1>6. x = y
  BY <1>3, <1>4, <1>5, SeqEqual
<1> QED
  BY <1>6 DEF x, y, u

\* gets() leaves r bytes in the caller's buffer, a part from the beginning of the
\* text of the line, which has m, and all of it if there is room.
Reads(c, n, flags, m, r) ==
  LET queue == Content(c)
      line  == SubSeq(queue, 1, LineSize(c))
  IN  /\ r <= m /\ (r = 0 \/ r < n) /\ (m < n => r = m)
      /\ LineText(c, n, flags) = SubSeq(SubSeq(queue, 1, m), 1, r)
      /\ \E t \in 0 .. Len(line) :
           /\ SubSeq(queue, 1, m) = SubSeq(line, 1, t)
           /\ IF "untrimmed" \in flags THEN t = Len(line)
              ELSE /\ \A j \in t + 1 .. Len(line) : line[j] \in {CR, LF}
                   /\ t > 0 => line[t] \notin {CR, LF}

LEMMA LineTextIs ==
  ASSUME NEW c \in Seq(Solid), Lines(c) # {}, NEW n \in Nat, NEW flags
  PROVE  /\ LineSize(c) \in Lines(c) /\ \A j \in Lines(c) : LineSize(c) <= j
         /\ \E m, r \in 0 .. Len(Content(c)) : Reads(c, n, flags, m, r)
<1> DEFINE queue == Content(c)
           k == LineSize(c)
           line == SubSeq(queue, 1, k)
           some == Min({n, k})
           copied == SubSeq(queue, 1, some)
           text == IF "untrimmed" \in flags THEN copied ELSE Stripped(copied)
<1>1. queue \in Seq(Bytes) /\ Len(queue) \in Nat
  BY ContentType
<1>2. k \in Lines(c) /\ \A j \in Lines(c) : k <= j
  <2>1. Lines(c) \subseteq Nat
    BY <1>1 DEF Lines
  <2> QED
    BY <2>1, Least DEF LineSize
<1>3. k \in 1 .. Len(queue) /\ k \in 0 .. Len(queue) /\ k \in Nat
  <2>1. k \in 1 .. Len(queue)
    BY <1>2 DEF Lines
  <2> HIDE DEF k, queue
  <2> QED
    BY <1>1, <2>1
<1>4. LineText(c, n, flags) = IF Len(text) = n /\ n > 0 THEN SubSeq(text, 1, n - 1) ELSE text
  BY DEF LineText
<1> HIDE DEF queue, k
<1>5. some = (IF n <= k THEN n ELSE k) /\ some \in 0 .. Len(queue) /\ some <= k /\ some <= n /\ some \in Nat
  <2>1. some = IF n <= k THEN n ELSE k
    BY <1>3, MinOfTwo
  <2> HIDE DEF some
  <2> QED
    BY <1>1, <1>3, <2>1
<1> HIDE DEF some
<1>6. line \in Seq(Bytes) /\ Len(line) = k /\ \A i \in 1 .. k : line[i] = queue[i]
  BY <1>1, <1>3, UptoIs
<1>7. copied \in Seq(Bytes) /\ Len(copied) = some /\ \A i \in 1 .. some : copied[i] = queue[i]
  BY <1>1, <1>5, UptoIs
\* The text as a beginning of the queue, with the length of the whole text.
<1>8. \E t, m \in 0 .. k :
        /\ text = SubSeq(queue, 1, t) /\ t <= some /\ t <= m /\ (m < n => t = m)
        /\ IF "untrimmed" \in flags THEN m = k
           ELSE /\ \A j \in m + 1 .. k : line[j] \in {CR, LF}
                /\ m > 0 => line[m] \notin {CR, LF}
  <2>1. CASE "untrimmed" \in flags
    <3>1. text = SubSeq(queue, 1, some)
      BY <2>1
    <3>2. some \in 0 .. k /\ k \in 0 .. k /\ (k < n => some = k)
      BY <1>3, <1>5
    <3> HIDE DEF text, line
    <3> QED
      BY <1>5, <2>1, <3>1, <3>2
  <2>2. CASE "untrimmed" \notin flags
    <3> HIDE DEF line, copied
    <3>1. text = Stripped(copied)
      BY <2>2
    <3>2. PICK t \in 0 .. some : /\ Stripped(copied) = SubSeq(copied, 1, t)
                                 /\ \A j \in t + 1 .. some : copied[j] \in {CR, LF}
                                 /\ t > 0 => copied[t] \notin {CR, LF}
      BY <1>7, StrippedIs
    <3>3. PICK m \in 0 .. k : /\ Stripped(line) = SubSeq(line, 1, m)
                              /\ \A j \in m + 1 .. k : line[j] \in {CR, LF}
                              /\ m > 0 => line[m] \notin {CR, LF}
      BY <1>6, StrippedIs
    <3>4. t \in Nat /\ m \in Nat /\ t <= some /\ m <= k
      BY <1>3, <1>5
    <3>5. SubSeq(copied, 1, t) = SubSeq(queue, 1, t)
      BY <1>1, <1>5, UptoTwice DEF copied
    <3>6. t <= m
      <4> SUFFICES ASSUME t > m PROVE FALSE
        BY <3>4
      <4>1. t \in 1 .. some /\ t > 0 /\ t \in 1 .. k /\ t \in m + 1 .. k
        BY <1>3, <1>5, <3>4
      <4>2. copied[t] = line[t]
        BY <1>6, <1>7, <4>1
      <4> QED
        BY <3>2, <3>3, <4>1, <4>2
    <3>7. ASSUME m < n PROVE t = m
      <4> SUFFICES ASSUME t < m PROVE FALSE
        BY <3>4, <3>6
      <4>1. m \in 1 .. some /\ m > 0 /\ m \in 1 .. k /\ m \in t + 1 .. some
        BY <1>3, <1>5, <3>4, <3>7
      <4>2. copied[m] = line[m]
        BY <1>6, <1>7, <4>1
      <4> QED
        BY <3>2, <3>3, <4>1, <4>2
    <3>8. t \in 0 .. k
      BY <1>3, <1>5, <3>4
    <3> HIDE DEF text
    <3>9. text = SubSeq(queue, 1, t)
      BY <3>1, <3>2, <3>5
    <3> QED
      BY <2>2, <3>3, <3>4, <3>6, <3>7, <3>8, <3>9
  <2> QED
    BY <2>1, <2>2
<1>9. PICK t, m \in 0 .. k :
        /\ text = SubSeq(queue, 1, t) /\ t <= some /\ t <= m /\ (m < n => t = m)
        /\ IF "untrimmed" \in flags THEN m = k
           ELSE /\ \A j \in m + 1 .. k : line[j] \in {CR, LF}
                /\ m > 0 => line[m] \notin {CR, LF}
  BY <1>8
<1> DEFINE r == IF t = n /\ n > 0 THEN n - 1 ELSE t
<1> HIDE DEF text
<1>10. t \in Nat /\ m \in Nat /\ m <= k /\ t \in 0 .. Len(queue) /\ m \in 0 .. Len(queue)
  BY <1>1, <1>3
<1>11. Len(text) = t
  BY <1>1, <1>9, <1>10, UptoIs
<1>12. /\ r \in Nat /\ r <= m /\ r <= t /\ (r = 0 \/ r < n) /\ (m < n => r = m)
       /\ r \in 0 .. Len(queue) /\ r \in 0 .. m /\ r \in 0 .. t
  <2>1. t \in Nat /\ m \in Nat /\ t <= n /\ t <= m /\ (m < n => t = m) /\ Len(queue) \in Nat /\ m <= Len(queue)
    <3>1. t <= some /\ t <= m /\ (m < n => t = m)
      BY <1>9
    <3>2. m <= Len(queue)
      BY <1>10
    <3> QED
      BY <1>1, <1>5, <1>10, <3>1, <3>2
  <2>2. r = IF t = n /\ n > 0 THEN n - 1 ELSE t
    OBVIOUS
  <2> HIDE DEF r
  <2> QED
    BY <2>1, <2>2
<1>13. LineText(c, n, flags) = SubSeq(text, 1, r)
  <2>1. text = SubSeq(text, 1, t)
    <3>1. text \in Seq(Bytes)
      BY <1>1, <1>9, <1>10, UptoIs
    <3> QED
      BY <1>11, <3>1, SubSeqFull
  <2>2. CASE t = n /\ n > 0
    BY <1>4, <1>11, <2>2
  <2>3. CASE ~(t = n /\ n > 0)
    BY <1>4, <1>11, <2>1, <2>3
  <2> QED
    BY <2>2, <2>3
<1> HIDE DEF r
<1>14. SubSeq(text, 1, r) = SubSeq(queue, 1, r)
  BY <1>1, <1>9, <1>10, <1>12, UptoTwice
<1>15. SubSeq(SubSeq(queue, 1, m), 1, r) = SubSeq(queue, 1, r)
  BY <1>1, <1>10, <1>12, UptoTwice
<1>16. SubSeq(line, 1, m) = SubSeq(queue, 1, m)
  BY <1>1, <1>3, UptoTwice
<1> HIDE DEF line
<1>17. \E i \in 0 .. Len(line) :
         /\ SubSeq(queue, 1, m) = SubSeq(line, 1, i)
         /\ IF "untrimmed" \in flags THEN i = Len(line)
            ELSE /\ \A j \in i + 1 .. Len(line) : line[j] \in {CR, LF}
                 /\ i > 0 => line[i] \notin {CR, LF}
  BY <1>6, <1>9, <1>16
<1>18. LineText(c, n, flags) = SubSeq(SubSeq(queue, 1, m), 1, r)
  BY <1>13, <1>14, <1>15
<1>19. Reads(c, n, flags, m, r)
  BY <1>12, <1>17, <1>18 DEF Reads, queue, k, line
<1> QED
  BY <1>2, <1>10, <1>12, <1>19 DEF queue, k

----------------------------------------------------------------------------
(* The buffers.                                                            *)

Kinds == {"none", "append", "data", "line", "no data", "size"}

IInv == /\ kind \in {"stream", "packet"} /\ answer[1] \in Kinds
        /\ Chain(chain)
        /\ kind = "stream" => FullItems(chain)

LEMMA BlocksType == \A src \in Blocks : src \in Seq(Bytes)
<1> SUFFICES ASSUME NEW src \in Blocks PROVE src \in Seq(Bytes)
  OBVIOUS
<1>1. PICK n \in Sizes : src \in [1 .. n -> Bytes]
  BY DEF Blocks
<1>2. n \in Nat
  BY DEF Sizes
<1> QED
  BY <1>1, <1>2

\* What a call reads.
LEMMA PeekedIs ==
  ASSUME Chain(chain), NEW n \in Nat
  PROVE  /\ Len(Peeked(n)) \in Nat
         /\ kind = "stream" =>
              /\ Peeked(n) = SubSeq(Content(chain), 1, IF n < Len(Content(chain)) THEN n ELSE Len(Content(chain)))
              /\ Len(Peeked(n)) = IF n < Len(Content(chain)) THEN n ELSE Len(Content(chain))
         /\ kind # "stream" =>
              /\ View(chain) = << >> => Peeked(n) = << >>
              /\ View(chain) # << >> =>
                   /\ Peeked(n) = SubSeq(Head(View(chain)), 1,
                                         IF n < Len(Head(View(chain))) THEN n ELSE Len(Head(View(chain))))
                   /\ Len(Peeked(n)) = IF n < Len(Head(View(chain))) THEN n ELSE Len(Head(View(chain)))
                   /\ Head(View(chain)) \in Seq(Bytes)
<1>1. chain \in Seq(Solid)
  BY DEF Chain
<1>2. CASE kind = "stream"
  <2> DEFINE q == Content(chain)
             m == IF n < Len(q) THEN n ELSE Len(q)
  <2>1. q \in Seq(Bytes) /\ Len(q) \in Nat
    BY <1>1, ContentType
  <2>2. Peeked(n) = SubSeq(q, 1, Min({n, Len(q)}))
    BY <1>2 DEF Peeked, PeekBytes
  <2> HIDE DEF q
  <2>3. Min({n, Len(q)}) = m
    <3>1. Min({n, Len(q)}) = IF n <= Len(q) THEN n ELSE Len(q)
      BY <2>1, MinOfTwo
    <3> QED
      BY <2>1, <3>1
  <2>4. m \in 0 .. Len(q) /\ m \in Nat
    BY <2>1
  <2> HIDE DEF m
  <2>5. Len(SubSeq(q, 1, m)) = m
    BY <2>1, <2>4, UptoIs
  <2> QED
    BY <1>2, <2>2, <2>3, <2>4, <2>5, Zenon DEF q, m
<1>3. CASE kind # "stream"
  <2>1. Peeked(n) = PeekPacket(chain, n)
    BY <1>3 DEF Peeked
  <2>2. CASE View(chain) = << >>
    <3>1. Peeked(n) = << >>
      BY <2>1, <2>2, PeekPacketIs
    <3>2. Len(<< >>) = 0
      OBVIOUS
    <3> QED
      BY <1>3, <2>2, <3>1, <3>2
  <2>3. CASE View(chain) # << >>
    <3> DEFINE h == Head(View(chain))
               m == IF n < Len(h) THEN n ELSE Len(h)
    <3>1. Peeked(n) = SubSeq(h, 1, m)
      BY <2>1, <2>3, PeekPacketIs
    <3>2. h \in Seq(Bytes)
      <4>1. View(chain) \in Seq(Seq(Bytes))
        <5>1. Content(chain) # << >>
          BY <2>3 DEF View
        <5>2. \A k \in 1 .. Len(chain) : Live(chain[k]) # << >>
          BY <5>1, EmptyIs DEF Chain, NoneSpent
        <5> QED
          BY <1>1, <5>2, ViewIs
      <4> QED
        BY <2>3, <4>1, HeadTailProperties
    <3>3. Len(h) \in Nat
      BY <3>2, LenProperties
    <3> HIDE DEF h
    <3>4. m \in 0 .. Len(h) /\ m \in Nat
      BY <3>3
    <3> HIDE DEF m
    <3>5. Len(SubSeq(h, 1, m)) = m
      BY <3>2, <3>4, UptoIs
    <3> QED
      BY <1>3, <2>3, <3>1, <3>2, <3>4, <3>5, Zenon DEF h, m
  <2> QED
    BY <2>2, <2>3
<1> QED
  BY <1>2, <1>3

LEMMA InvInit == Init => IInv
<1> SUFFICES ASSUME Init PROVE IInv
  OBVIOUS
<1>1. kind \in {"stream", "packet"} /\ chain = << >> /\ answer = <<"none">>
  BY DEF Init
<1>2. answer[1] = "none"
  BY <1>1
<1> QED
  BY <1>1, <1>2, FreshChain DEF IInv, Kinds

\* remove() within the invariant.
LEMMA RemoveStep ==
  ASSUME IInv, NEW n \in Nat, chain' = RemoveBytes(chain, n), UNCHANGED kind, answer'[1] \in Kinds
  PROVE  IInv'
<1>1. Chain(RemoveBytes(chain, n)) /\ (FullItems(chain) => FullItems(RemoveBytes(chain, n)))
  BY RemoveBytesKeeps DEF IInv
<1>2. Chain(chain)' /\ (kind' = "stream" => FullItems(chain)')
  <2>1. Chain(chain') /\ (kind' = "stream" => FullItems(chain'))
    BY <1>1 DEF IInv
  <2> QED
    BY <2>1
<1> QED
  BY <1>2 DEF IInv

LEMMA InvStep == IInv /\ [Next]_vars => IInv'
<1> SUFFICES ASSUME IInv, [Next]_vars PROVE IInv'
  OBVIOUS
<1>1. ASSUME NEW src \in Blocks, Write(src) PROVE IInv'
  <2>1. src \in Seq(Bytes) /\ kind' = kind /\ answer'[1] = "append"
    BY <1>1, BlocksType DEF Write
  <2>2. CASE kind = "stream"
    <3>1. chain' = AppendBytes(chain, src)
      BY <1>1, <2>2 DEF Write
    <3>2. Chain(AppendBytes(chain, src)) /\ FullItems(AppendBytes(chain, src))
      BY <2>1, <2>2, AppendBytesKeeps DEF IInv
    <3>3. Chain(chain)' /\ FullItems(chain)'
      BY <3>1, <3>2
    <3> QED
      BY <2>1, <3>3 DEF IInv, Kinds
  <2>3. CASE kind # "stream"
    <3>1. chain' = AppendPacket(chain, src)
      BY <1>1, <2>3 DEF Write
    <3>2. Chain(AppendPacket(chain, src))
      BY <2>1, AppendPacketKeeps DEF IInv
    <3>3. Chain(chain)'
      BY <3>1, <3>2
    <3> QED
      BY <2>1, <2>3, <3>3 DEF IInv, Kinds
  <2> QED
    BY <2>2, <2>3
<1>2. ASSUME UNCHANGED <<kind, chain>>, answer'[1] \in Kinds PROVE IInv'
  BY <1>2 DEF IInv, Chain, FullItems, HeadOnly, NoneSpent
<1>3. \A n \in Sizes : n \in Nat /\ Len(Peeked(n)) \in Nat
  <2>1. \A n \in Sizes : n \in Nat
    BY DEF Sizes
  <2> QED
    BY <2>1, PeekedIs DEF IInv
<1>4. ASSUME NEW n \in Sizes, Peek(n) PROVE IInv'
  <2>1. UNCHANGED <<kind, chain>> /\ answer'[1] = "data"
    BY <1>4 DEF Peek
  <2> QED
    BY <1>2, <2>1 DEF Kinds
<1>5. ASSUME NEW n \in Sizes, Extract(n) PROVE IInv'
  <2>1. chain' = RemoveBytes(chain, Len(Peeked(n))) /\ kind' = kind /\ answer'[1] = "data"
    BY <1>5 DEF Extract
  <2> QED
    BY <1>3, <2>1, RemoveStep DEF Kinds
<1>6. ASSUME NEW n \in Sizes, Depart(n) PROVE IInv'
  <2>1. chain' = RemoveBytes(chain, Len(Peeked(n))) /\ kind' = kind /\ answer' = answer
    BY <1>6 DEF Depart
  <2> QED
    BY <1>3, <2>1, RemoveStep DEF IInv
<1>7. ASSUME NEW n \in Sizes, NEW flags \in Flags, Gets(n, flags) PROVE IInv'
  <2>1. kind' = kind
    BY <1>7 DEF Gets
  <2>2. CASE answer' = <<"no data">> /\ UNCHANGED chain
    BY <1>2, <2>1, <2>2 DEF Kinds
  <2>3. CASE answer' = <<"size", LineSize(chain)>> /\ UNCHANGED chain
    BY <1>2, <2>1, <2>3 DEF Kinds
  <2>4. CASE /\ Lines(chain) # {} /\ answer' = <<"line", n, flags, LineText(chain, n, flags)>>
             /\ chain' = IF "peek" \in flags THEN chain ELSE RemoveBytes(chain, LineSize(chain))
    <3>1. answer'[1] = "line"
      BY <2>4
    <3>2. CASE "peek" \in flags
      BY <1>2, <2>1, <2>4, <3>1, <3>2 DEF Kinds
    <3>3. CASE "peek" \notin flags
      <4>1. LineSize(chain) \in Lines(chain) /\ chain \in Seq(Solid)
        BY <1>3, <2>4, LineTextIs DEF IInv, Chain
      <4>2. LineSize(chain) \in Nat
        BY <4>1, ContentType DEF Lines
      <4> QED
        BY <2>1, <2>4, <3>1, <3>3, <4>2, RemoveStep DEF Kinds
    <3> QED
      BY <3>2, <3>3
  <2> QED
    BY <1>7, <2>2, <2>3, <2>4 DEF Gets
<1>8. CASE UNCHANGED vars
  BY <1>2, <1>8 DEF vars, IInv
<1> QED
  BY <1>1, <1>4, <1>5, <1>6, <1>7, <1>8 DEF Next

LEMMA Invariant == Spec => []IInv
  BY InvInit, InvStep, PTL DEF Spec

\* The chain of a buffer keeps its shape, whatever is written, read and removed:
\* items after the head are whole, those of a stream before the tail are full,
\* and an item without bytes is the only one (datachain.cc:26-131).
THEOREM BuffersTyped == Spec => []TypeOK
<1>1. IInv => TypeOK
  <2> SUFFICES ASSUME IInv PROVE TypeOK
    OBVIOUS
  <2>1. ASSUME NEW k \in 1 .. Len(chain)
        PROVE  /\ chain[k] \in Items /\ chain[k].dead =< Used(chain[k])
               /\ k > 1 => chain[k].dead = 0
               /\ kind = "stream" /\ k < Len(chain) => Used(chain[k]) = ItemSize
               /\ Live(chain[k]) = << >> => Len(chain) = 1
    <3>1. chain[k] \in Solid
      BY ElementOfSeq DEF IInv, Chain
    <3>2. chain[k] \in Items /\ chain[k].dead =< Used(chain[k])
      BY <3>1 DEF Solid
    <3>3. k > 1 => chain[k].dead = 0
      BY DEF IInv, Chain, HeadOnly
    <3>4. kind = "stream" /\ k < Len(chain) => Used(chain[k]) = ItemSize
      BY DEF IInv, FullItems
    <3>5. Live(chain[k]) = << >> => Len(chain) = 1
      <4>1. Len(<<Fresh>>) = 1
        OBVIOUS
      <4> QED
        BY <4>1 DEF IInv, Chain, NoneSpent
    <3> QED
      BY <3>2, <3>3, <3>4, <3>5
  <2>2. kind \in {"stream", "packet"} /\ answer[1] \in {"none", "append", "data", "line", "no data", "size"}
    BY DEF IInv, Kinds
  <2> QED
    BY <2>1, <2>2 DEF TypeOK
<1> QED
  BY <1>1, Invariant, PTL

----------------------------------------------------------------------------
(* What the buffers promise.                                               *)

LEMMA SameCalls == /\ Q!Blocks = Blocks /\ Q!Sizes = Sizes /\ Q!Flags = Flags
                   /\ P!Blocks = Blocks /\ P!Sizes = Sizes
BY DEF Blocks, Sizes, Flags, Q!Blocks, Q!Sizes, Q!Flags, P!Blocks, P!Sizes

\* A step of a stream buffer is a step of the queue of its bytes.
LEMMA StreamStep == IInv /\ kind = "stream" /\ Next => Q!Next
<1> SUFFICES ASSUME IInv, kind = "stream", Next PROVE Q!Next
  OBVIOUS
<1> DEFINE q == Content(chain)
<1>1. Chain(chain) /\ FullItems(chain) /\ chain \in Seq(Solid)
  BY DEF IInv, Chain
<1>2. q \in Seq(Bytes) /\ Len(q) \in Nat
  BY <1>1, ContentType
<1>3. kind' = "stream"
  BY DEF Next, Write, Peek, Extract, Depart, Gets
<1>4. Said("stream") = answer /\ Said("stream")' = answer'
  BY <1>3 DEF Said
<1>5. (IF kind = "stream" THEN Content(chain) ELSE << >>) = q
  OBVIOUS
<1>6. (IF kind = "stream" THEN Content(chain) ELSE << >>)' = Content(chain')
  BY <1>3
<1> HIDE DEF q
<1>7. \A n \in Sizes : n \in Nat /\ Len(Peeked(n)) \in Nat
  <2>1. \A n \in Sizes : n \in Nat
    BY DEF Sizes
  <2> QED
    BY <1>1, <2>1, PeekedIs
\* What is read, and what is left of the bytes.
<1>8. ASSUME NEW n \in Sizes PROVE Peeked(n) = Q!Upto(n)
  <2>1. Peeked(n) = SubSeq(q, 1, IF n < Len(q) THEN n ELSE Len(q))
    BY <1>1, <1>7, PeekedIs DEF q
  <2> QED
    BY <1>5, <2>1 DEF Q!Upto
<1>9. ASSUME NEW n \in Sizes, chain' = RemoveBytes(chain, Len(Peeked(n)))
      PROVE  (IF kind = "stream" THEN Content(chain) ELSE << >>)' = Q!Past(n)
  <2>1. n \in Nat /\ Len(Peeked(n)) \in Nat
    BY <1>7
  <2>2. Content(chain') = Without(q, Len(Peeked(n)))
    BY <1>1, <1>9, <2>1, RemoveBytesKeeps DEF q
  <2>3. Len(Peeked(n)) = IF n < Len(q) THEN n ELSE Len(q)
    BY <1>1, <2>1, PeekedIs DEF q
  <2>4. Without(q, Len(Peeked(n))) = Without(q, n)
    <3>1. CASE n < Len(q)
      BY <2>3, <3>1
    <3>2. CASE ~(n < Len(q))
      <4>1. Len(Peeked(n)) = Len(q) /\ n >= Len(q) /\ Len(q) >= Len(q)
        BY <1>2, <2>1, <2>3, <3>2
      <4>2. Without(q, Len(q)) = << >> /\ Without(q, n) = << >>
        BY <1>2, <2>1, <4>1, WithoutAll
      <4> QED
        BY <4>1, <4>2
    <3> QED
      BY <3>1, <3>2
  <2> QED
    BY <1>5, <1>6, <2>2, <2>4 DEF Without, Q!Past
<1>10. ASSUME NEW src \in Blocks, Write(src) PROVE Q!Write(src)
  <2>1. src \in Seq(Bytes)
    BY BlocksType
  <2>2. chain' = AppendBytes(chain, src) /\ answer' = <<"append", src>>
    BY <1>10 DEF Write
  <2>3. Content(chain') = q \o src
    BY <1>1, <2>1, <2>2, AppendBytesKeeps DEF q
  <2> QED
    BY <1>4, <1>5, <1>6, <2>2, <2>3 DEF Q!Write
<1>11. ASSUME NEW n \in Sizes, Peek(n) PROVE Q!Peek(n)
  <2>1. answer' = <<"data", n, Q!Upto(n)>> /\ chain' = chain
    BY <1>8, <1>11 DEF Peek
  <2>2. Content(chain') = q
    BY <2>1 DEF q
  <2> QED
    BY <1>4, <1>5, <1>6, <2>1, <2>2 DEF Q!Peek
<1>12. ASSUME NEW n \in Sizes, Extract(n) PROVE Q!Extract(n)
  <2>1. answer' = <<"data", n, Q!Upto(n)>> /\ chain' = RemoveBytes(chain, Len(Peeked(n)))
    BY <1>8, <1>12 DEF Extract
  <2>2. (IF kind = "stream" THEN Content(chain) ELSE << >>)' = Q!Past(n)
    BY <1>9, <2>1
  <2> QED
    BY <1>4, <2>1, <2>2 DEF Q!Extract
<1>13. ASSUME NEW n \in Sizes, Depart(n) PROVE Q!Discard(n)
  <2>1. answer' = answer /\ chain' = RemoveBytes(chain, Len(Peeked(n)))
    BY <1>13 DEF Depart
  <2>2. (IF kind = "stream" THEN Content(chain) ELSE << >>)' = Q!Past(n)
    BY <1>9, <2>1
  <2> QED
    BY <1>4, <2>1, <2>2 DEF Q!Discard
<1>14. Q!LineEnds = Lines(chain)
  BY <1>5 DEF Q!LineEnds, Lines, q
<1>15. ASSUME NEW n \in Sizes, NEW flags \in Flags, Gets(n, flags)
       PROVE  Q!NoLine \/ Q!Measure \/ Q!Gets(n, flags)
  <2>1. CASE Lines(chain) = {} /\ answer' = <<"no data">> /\ UNCHANGED chain
    <3>1. Content(chain') = q
      BY <2>1 DEF q
    <3>2. Q!NoLine
      BY <1>4, <1>5, <1>6, <1>14, <2>1, <3>1 DEF Q!NoLine
    <3> QED
      BY <3>2
  <2>2. ASSUME Lines(chain) # {}
        PROVE  LineSize(chain) \in Q!LineEnds /\ Q!IsEnd(LineSize(chain)) /\ LineSize(chain) \in Nat
    <3>1. LineSize(chain) \in Lines(chain) /\ \A j \in Lines(chain) : LineSize(chain) <= j
      BY <1>1, <1>7, <2>2, LineTextIs
    <3>2. LineSize(chain) \in Nat
      BY <1>2, <3>1 DEF Lines, q
    <3> QED
      BY <1>14, <3>1, <3>2 DEF Q!IsEnd
  <2>3. CASE Lines(chain) # {} /\ answer' = <<"size", LineSize(chain)>> /\ UNCHANGED chain
    <3>1. Content(chain') = q
      BY <2>3 DEF q
    <3>2. Q!Measure
      BY <1>4, <1>5, <1>6, <2>2, <2>3, <3>1 DEF Q!Measure
    <3> QED
      BY <3>2
  <2>4. CASE /\ Lines(chain) # {} /\ answer' = <<"line", n, flags, LineText(chain, n, flags)>>
             /\ chain' = IF "peek" \in flags THEN chain ELSE RemoveBytes(chain, LineSize(chain))
    <3> DEFINE k == LineSize(chain)
               line == SubSeq(q, 1, k)
    <3>1. k \in Q!LineEnds /\ Q!IsEnd(k) /\ k \in Nat
      BY <2>2, <2>4
    <3>a. PICK m, r \in 0 .. Len(Content(chain)) : Reads(chain, n, flags, m, r)
      BY <1>1, <1>7, <2>4, LineTextIs
    <3>2. /\ m \in 0 .. Len(q) /\ r \in 0 .. Len(q)
          /\ r <= m /\ (r = 0 \/ r < n) /\ (m < n => r = m)
          /\ LineText(chain, n, flags) = SubSeq(SubSeq(q, 1, m), 1, r)
          /\ \E t \in 0 .. Len(line) :
               /\ SubSeq(q, 1, m) = SubSeq(line, 1, t)
               /\ IF "untrimmed" \in flags THEN t = Len(line)
                  ELSE /\ \A j \in t + 1 .. Len(line) : line[j] \in {CR, LF}
                       /\ t > 0 => line[t] \notin {CR, LF}
      BY <3>a DEF Reads, q
    <3>3. Content(chain') = IF "peek" \in flags THEN q ELSE Without(q, k)
      <4>1. CASE "peek" \in flags
        BY <2>4, <4>1 DEF q
      <4>2. CASE "peek" \notin flags
        <5>1. Content(RemoveBytes(chain, k)) = Without(q, k)
          BY <1>1, <3>1, RemoveBytesKeeps DEF q
        <5> QED
          BY <2>4, <4>2, <5>1
      <4> QED
        BY <4>1, <4>2
    <3>4. Q!IsText(line, SubSeq(q, 1, m), flags)
      BY <3>2 DEF Q!IsText
    <3>5. (IF kind = "stream" THEN Content(chain) ELSE << >>)'
            = IF "peek" \in flags THEN q ELSE Q!Past(k)
      BY <1>5, <1>6, <3>3 DEF Without, Q!Past
    <3>6. Said("stream")' = <<"line", n, flags, SubSeq(SubSeq(q, 1, m), 1, r)>>
      BY <1>4, <2>4, <3>2
    <3>7. Q!Gets(n, flags)
      BY <1>5, <3>1, <3>2, <3>4, <3>5, <3>6 DEF Q!Gets
    <3> QED
      BY <3>7
  <2> QED
    BY <1>15, <2>1, <2>3, <2>4 DEF Gets
<1> QED
  BY <1>10, <1>11, <1>12, <1>13, <1>15, SameCalls DEF Next, Q!Next

\* A stream buffer is the queue of bytes that datachain.h:32-59 promises: for
\* every size of an item, every sequence of writes, reads and gets() takes the
\* bytes in the order they came, each once, and lines as whole lines.
THEOREM StreamIsByteQueue == Spec => IsByteQueue
<1>1. ASSUME Init PROVE Q!Init
  <2>1. Content(chain) = << >> /\ answer = <<"none">>
    BY <1>1, ContentNone DEF Init
  <2> QED
    BY <2>1 DEF Q!Init, Said
<1>2. ASSUME IInv, [Next]_vars PROVE [Q!Next]_Q!vars
  <2>1. CASE UNCHANGED vars
    BY <2>1 DEF vars, Q!vars, Said
  <2>2. CASE Next /\ kind = "stream"
    BY <1>2, <2>2, StreamStep
  <2>3. CASE Next /\ kind # "stream"
    <3>1. kind' = kind
      BY <2>3 DEF Next, Write, Peek, Extract, Depart, Gets
    <3> QED
      BY <2>3, <3>1 DEF Q!vars, Said
  <2> QED
    BY <1>2, <2>1, <2>2, <2>3
<1> QED
  BY <1>1, <1>2, Invariant, PTL DEF Spec, IsByteQueue, Q!Spec

----------------------------------------------------------------------------
\* The packets of a chain in the terms of PacketQueue.
Waiting == IF kind # "packet" \/ Content(chain) = << >> THEN << >>
           ELSE [k \in 1 .. Len(chain) |-> Live(chain[k])]

\* A step of a datagram buffer is a step of the queue of its packets.
LEMMA PacketStep == IInv /\ kind = "packet" /\ Next => P!Next
<1> SUFFICES ASSUME IInv, kind = "packet", Next PROVE P!Next
  OBVIOUS
<1> DEFINE v == View(chain)
<1>1. Chain(chain) /\ chain \in Seq(Solid) /\ kind # "stream"
  BY DEF IInv, Chain
<1>2. kind' = "packet"
  BY DEF Next, Write, Peek, Extract, Depart, Gets
<1>3. Said("packet") = answer /\ Said("packet")' = answer'
  BY <1>2 DEF Said
<1>4. Waiting = v
  BY DEF Waiting, View
<1>5. Waiting' = View(chain')
  BY <1>2 DEF Waiting, View
<1> HIDE DEF v
<1>6. \A n \in Sizes : n \in Nat /\ Len(Peeked(n)) \in Nat
  <2>1. \A n \in Sizes : n \in Nat
    BY DEF Sizes
  <2> QED
    BY <1>1, <2>1, PeekedIs
\* What is read, and what is left of the packets.
<1>7. ASSUME NEW n \in Sizes
      PROVE  Peeked(n) = IF Waiting = << >> THEN << >> ELSE P!First(Head(Waiting), n)
  <2>1. v = << >> => Peeked(n) = << >>
    BY <1>1, <1>6, PeekedIs DEF v
  <2>2. v # << >> => Peeked(n) = SubSeq(Head(v), 1, IF n < Len(Head(v)) THEN n ELSE Len(Head(v)))
    BY <1>1, <1>6, PeekedIs DEF v
  <2> QED
    BY <1>4, <2>1, <2>2 DEF P!First
<1>8. ASSUME NEW n \in Sizes, chain' = RemoveBytes(chain, Len(Peeked(n))) PROVE Waiting' = P!Less(n)
  <2>1. n \in Nat
    BY <1>6
  <2>2. CASE v = << >>
    <3>1. Content(chain) = << >>
      <4> SUFFICES ASSUME Content(chain) # << >> PROVE v # << >>
        BY <2>2
      <4>1. chain # << >> /\ chain # <<Fresh>>
        BY <1>1, EmptyIs
      <4>2. \A k \in 1 .. Len(chain) : Live(chain[k]) # << >>
        BY <1>1, <4>1 DEF Chain, NoneSpent
      <4>3. v \in Seq(Seq(Bytes)) /\ Len(v) = Len(chain)
        BY <1>1, <4>2, ViewIs DEF v
      <4>4. Len(chain) # 0
        BY <1>1, <4>1, EmptySeq
      <4> QED
        BY <4>3, <4>4, EmptySeq
    <3>2. Len(Peeked(n)) = 0
      <4>1. Peeked(n) = << >>
        BY <1>1, <2>1, <2>2, PeekedIs DEF v
      <4> QED
        BY <4>1
    <3>3. Content(chain') = Without(<< >>, 0)
      BY <1>1, <1>8, <3>1, <3>2, RemoveBytesKeeps
    <3>4. Without(<< >>, 0) = << >>
      <4>1. << >> \in Seq(Bytes)
        OBVIOUS
      <4> QED
        BY <4>1, WithoutNone
    <3>5. View(chain') = << >>
      BY <3>3, <3>4 DEF View
    <3> QED
      BY <1>4, <1>5, <2>2, <3>5 DEF P!Less, Waiting
  <2>3. CASE v # << >>
    <3> DEFINE h == Head(v)
               m == Len(Peeked(n))
    <3>1. h \in Seq(Bytes) /\ m = IF n < Len(h) THEN n ELSE Len(h)
      BY <1>1, <2>1, <2>3, PeekedIs DEF v
    <3>2. Len(h) \in Nat
      BY <3>1, LenProperties
    <3>3. m \in Nat
      BY <1>6
    <3> HIDE DEF h, m
    <3>4. m <= Len(h)
      BY <2>1, <3>1, <3>2
    <3>5. View(RemoveBytes(chain, m)) = IF m = Len(h) THEN Tail(v) ELSE <<Without(h, m)>> \o Tail(v)
      BY <1>1, <2>3, <3>3, <3>4, RemovePacketIs DEF v, h
    <3>6. View(chain') = IF m = Len(h) THEN Tail(v) ELSE <<Without(h, m)>> \o Tail(v)
      BY <1>8, <3>5 DEF m
    <3>7. P!Less(n) = IF n >= Len(h) THEN Tail(v) ELSE <<Without(h, n)>> \o Tail(v)
      BY <1>4, <2>3 DEF P!Less, Waiting, h, Without
    <3>8. CASE n < Len(h)
      <4>1. m = n /\ m # Len(h) /\ ~(n >= Len(h))
        BY <2>1, <3>1, <3>2, <3>8
      <4> QED
        BY <1>5, <3>6, <3>7, <4>1
    <3>9. CASE ~(n < Len(h))
      <4>1. m = Len(h) /\ n >= Len(h)
        BY <2>1, <3>1, <3>2, <3>9
      <4> QED
        BY <1>5, <3>6, <3>7, <4>1
    <3> QED
      BY <3>8, <3>9
  <2> QED
    BY <2>2, <2>3
<1>9. ASSUME NEW src \in Blocks, Write(src) PROVE P!Write(src)
  <2>1. src \in Seq(Bytes)
    BY BlocksType
  <2>2. chain' = AppendPacket(chain, src) /\ answer' = <<"append", src>>
    BY <1>1, <1>9 DEF Write
  <2>3. View(chain') = IF src = << >> THEN v
                       ELSE Append(v, SubSeq(src, 1, IF ItemSize < Len(src) THEN ItemSize ELSE Len(src)))
    BY <1>1, <2>1, <2>2, AppendPacketKeeps DEF v
  <2>4. Waiting' = IF src = << >> THEN Waiting ELSE Append(Waiting, P!First(src, ItemSize))
    BY <1>4, <1>5, <2>3 DEF P!First
  <2> QED
    BY <1>3, <2>2, <2>4 DEF P!Write, Waiting
<1>10. ASSUME NEW n \in Sizes, Peek(n) PROVE P!Peek(n)
  <2>1. answer' = <<"data", n, IF Waiting = << >> THEN << >> ELSE P!First(Head(Waiting), n)>>
    BY <1>7, <1>10 DEF Peek
  <2>2. Waiting' = Waiting
    BY <1>4, <1>5, <1>10 DEF Peek, v
  <2> QED
    BY <1>3, <2>1, <2>2 DEF P!Peek, Waiting
<1>11. ASSUME NEW n \in Sizes, Extract(n) PROVE P!Extract(n)
  <2>1. answer' = <<"data", n, IF Waiting = << >> THEN << >> ELSE P!First(Head(Waiting), n)>>
    BY <1>7, <1>11 DEF Extract
  <2>2. Waiting' = P!Less(n)
    BY <1>8, <1>11 DEF Extract
  <2> QED
    BY <1>3, <2>1, <2>2 DEF P!Extract, Waiting
<1>12. ASSUME NEW n \in Sizes, Depart(n) PROVE P!Depart(n)
  <2>1. Waiting' = P!Less(n) /\ answer' = answer
    BY <1>8, <1>12 DEF Depart
  <2> QED
    BY <1>3, <2>1 DEF P!Depart, Waiting
<1> QED
  BY <1>1, <1>9, <1>10, <1>11, <1>12, SameCalls DEF Next, Gets, P!Next

\* A datagram buffer is the queue of packets that datachain.h:62-67 promises:
\* for every size of an item, a read returns bytes of the oldest packet only,
\* and what it had no room for is returned by the next one (packetchain.cc:10-64).
THEOREM DatagramsAreAPacketQueue == Spec => IsPacketQueue
<1>1. ASSUME Init PROVE P!Init
  <2>1. Content(chain) = << >> /\ answer = <<"none">>
    BY <1>1, ContentNone DEF Init
  <2> QED
    BY <2>1 DEF P!Init, Said
<1>2. ASSUME IInv, [Next]_vars PROVE [P!Next]_P!vars
  <2>1. CASE UNCHANGED vars
    BY <2>1 DEF vars, P!vars, Said
  <2>2. CASE Next /\ kind = "packet"
    BY <1>2, <2>2, PacketStep
  <2>3. CASE Next /\ kind # "packet"
    <3>1. kind' = kind
      BY <2>3 DEF Next, Write, Peek, Extract, Depart, Gets
    <3> QED
      BY <2>3, <3>1 DEF P!vars, Said
  <2> QED
    BY <1>2, <2>1, <2>2, <2>3
<1> QED
  BY <1>1, <1>2, Invariant, PTL DEF Spec, IsPacketQueue, P!Spec

----------------------------------------------------------------------------
(* The page cache.                                                         *)

USE PageAssumption

\* The stack f of a page holds each index of F once, and no other.
Exact(f, F) ==
  /\ f \in Seq(Nat)
  /\ \A n \in 1 .. Len(f) : f[n] \in F
  /\ \A m, n \in 1 .. Len(f) : f[m] = f[n] => m = n
  /\ \A x \in F : \E m \in 1 .. Len(f) : f[m] = x

LEMMA AllFreeExact == Exact(AllFree, Indexes) /\ Len(AllFree) = PageSize /\ AllFree # << >>
<1>1. AllFree \in Seq(Nat) /\ Len(AllFree) = PageSize
  BY DEF AllFree
<1>2. \A x \in Indexes : x + 1 \in 1 .. Len(AllFree) /\ AllFree[x + 1] = x
  BY <1>1 DEF AllFree, Indexes
<1>3. \A n \in 1 .. Len(AllFree) : AllFree[n] = n - 1 /\ AllFree[n] \in Indexes
  BY <1>1 DEF AllFree, Indexes
<1>4. AllFree # << >>
  BY <1>1
<1>5. \A m, n \in 1 .. Len(AllFree) : AllFree[m] = AllFree[n] => m = n
  BY <1>1, <1>3
<1> HIDE DEF AllFree
<1> QED
  BY <1>1, <1>2, <1>3, <1>4, <1>5 DEF Exact

\* The top of the stack leaves it, and the set.
LEMMA PoppedExact ==
  ASSUME NEW f, NEW F, Exact(f, F), f # << >>
  PROVE  f[Len(f)] \in F /\ Exact(Popped(f), F \ {f[Len(f)]})
<1> DEFINE p == Popped(f)
           x == f[Len(f)]
<1>1. Len(f) \in Nat \ {0} /\ Len(f) \in 1 .. Len(f) /\ f \in Seq(Nat)
  BY DEF Exact
<1>2. /\ p \in Seq(Nat) /\ Len(p) = Len(f) - 1
      /\ \A n \in 1 .. Len(p) : n \in 1 .. Len(f) /\ n # Len(f) /\ p[n] = f[n]
  <2>1. \A n \in 1 .. Len(f) - 1 : f[n] \in Nat
    BY <1>1
  <2> DEFINE l == Len(f) - 1
  <2>2. l \in Nat /\ p = SubSeq(f, 1, l)
    BY <1>1 DEF Popped
  <2> HIDE DEF l, p, x
  <2>3. /\ p \in Seq(Nat) /\ Len(p) = (IF 1 <= l THEN l - 1 + 1 ELSE 0)
        /\ \A n \in 1 .. l - 1 + 1 : p[n] = f[1 + n - 1]
    BY <2>1, <2>2, SubSeqProperties DEF l
  <2>4. Len(p) = l
    BY <2>2, <2>3
  <2>5. \A n \in 1 .. l : p[n] = f[n] /\ n \in 1 .. Len(f) /\ n # Len(f)
    BY <1>1, <2>2, <2>3 DEF l
  <2> QED
    BY <2>3, <2>4, <2>5 DEF l
<1> HIDE DEF p
<1>3. x \in F
  BY <1>1 DEF Exact
<1>4. \A n \in 1 .. Len(p) : p[n] \in F \ {x}
  BY <1>1, <1>2 DEF Exact
<1>5. \A m, n \in 1 .. Len(p) : p[m] = p[n] => m = n
  BY <1>1, <1>2 DEF Exact
<1>6. ASSUME NEW y \in F \ {x} PROVE \E m \in 1 .. Len(p) : p[m] = y
  <2>1. y \in F /\ y # x
    OBVIOUS
  <2>2. PICK m \in 1 .. Len(f) : f[m] = y
    BY <2>1 DEF Exact
  <2>3. m # Len(f)
    BY <2>1, <2>2
  <2>4. m \in 1 .. Len(p) /\ p[m] = f[m]
    BY <1>1, <1>2, <2>3
  <2> QED
    BY <2>2, <2>4
<1> HIDE DEF x
<1> QED
  BY <1>2, <1>3, <1>4, <1>5, <1>6 DEF Exact, p, x

\* An index that was not free is pushed.
LEMMA PushedExact ==
  ASSUME NEW f, NEW F, Exact(f, F), NEW x \in Nat, x \notin F
  PROVE  Exact(Append(f, x), F \cup {x})
<1> DEFINE p == Append(f, x)
<1>1. p \in Seq(Nat) /\ Len(f) \in Nat /\ Len(p) = Len(f) + 1 /\ p[Len(f) + 1] = x
      /\ \A n \in 1 .. Len(f) : p[n] = f[n]
  BY DEF Exact
<1>2. \A n \in 1 .. Len(p) : p[n] \in F \cup {x}
  BY <1>1 DEF Exact
<1>3. \A m, n \in 1 .. Len(p) : p[m] = p[n] => m = n
  BY <1>1 DEF Exact
<1>4. ASSUME NEW y \in F \cup {x} PROVE \E m \in 1 .. Len(p) : p[m] = y
  BY <1>1 DEF Exact
<1> QED
  BY <1>1, <1>2, <1>3, <1>4 DEF Exact

\* The inductive invariant: PageOwned with the types it leaves out.
Page == [itemsize : ItemSizes, free : Seq(Nat)]

PageInv ==
  /\ pages \in Seq(Page)
  /\ \A item \in held : /\ item = <<item[1], item[2], item[3]>>
                        /\ item[1] \in 1 .. Len(pages) /\ item[2] \in Indexes
                        /\ item[3] = pages[item[1]].itemsize
  /\ \A k \in 1 .. Len(pages) : Exact(pages[k].free, Indexes \ Out(k))

LEMMA PageInvOwned == PageInv => PageOwned
<1> SUFFICES ASSUME PageInv PROVE PageOwned
  OBVIOUS
<1>1. \A a, b \in held : a[1] = b[1] /\ a[2] = b[2] => a = b
  BY DEF PageInv
<1>2. \A k \in 1 .. Len(pages) : Exact(pages[k].free, Indexes \ Out(k))
  BY DEF PageInv
<1> QED
  BY <1>1, <1>2 DEF PageInv, PageOwned, Exact

LEMMA PageInitial == PageInit => PageInv
BY DEF PageInit, PageInv

\* The stack of page k is replaced.
LEMMA StackReplaced ==
  ASSUME pages \in Seq(Page), NEW k \in 1 .. Len(pages), NEW f \in Seq(Nat),
         pages' = [pages EXCEPT ![k].free = f]
  PROVE  /\ pages' \in Seq(Page) /\ Len(pages') = Len(pages)
         /\ pages'[k].free = f
         /\ \A j \in 1 .. Len(pages) : pages'[j].itemsize = pages[j].itemsize
         /\ \A j \in 1 .. Len(pages) : j # k => pages'[j] = pages[j]
<1> DEFINE page == [pages[k] EXCEPT !.free = f]
<1>1. pages[k] \in Page
  BY ElementOfSeq
<1>2. page \in Page /\ page.free = f /\ page.itemsize = pages[k].itemsize
  BY <1>1 DEF Page
<1>3. pages' = [pages EXCEPT ![k] = page]
  OBVIOUS
<1> HIDE DEF page
<1> DEFINE new == [pages EXCEPT ![k] = page]
<1>4. /\ new \in Seq(Page) /\ Len(new) = Len(pages)
      /\ \A j \in 1 .. Len(pages) : new[j] = IF j = k THEN page ELSE pages[j]
  BY <1>2, ExceptSeq
<1> HIDE DEF new
<1>5. pages' = new
  BY <1>3 DEF new
<1> QED
  BY <1>2, <1>4, <1>5

\* An item is taken from a page that has one.
LEMMA AllocStep ==
  ASSUME PageInv, NEW k \in 1 .. Len(pages), NEW size \in ItemSizes, Alloc(k, size)
  PROVE  PageInv'
<1>1. CASE size # pages[k].itemsize
  <2>1. UNCHANGED <<pages, held>>
    BY <1>1 DEF Alloc
  <2> QED
    BY <2>1 DEF PageInv, Out
<1>2. CASE size = pages[k].itemsize
  <2> DEFINE f == pages[k].free
             x == f[Len(f)]
  <2>1. f # << >> /\ Exact(f, Indexes \ Out(k))
    BY DEF Alloc, Roomy, PageInv
  <2>2. x \in Indexes \ Out(k) /\ Exact(Popped(f), (Indexes \ Out(k)) \ {x})
    BY <2>1, PoppedExact
  <2>3. pages' = [pages EXCEPT ![k].free = Popped(f)] /\ held' = held \cup {<<k, x, size>>}
    BY <1>2 DEF Alloc
  <2>4. Popped(f) \in Seq(Nat) /\ pages \in Seq(Page)
    BY <2>2 DEF Exact, PageInv
  <2>5. /\ pages' \in Seq(Page) /\ Len(pages') = Len(pages)
        /\ pages'[k].free = Popped(f)
        /\ \A j \in 1 .. Len(pages) : pages'[j].itemsize = pages[j].itemsize
        /\ \A j \in 1 .. Len(pages) : j # k => pages'[j] = pages[j]
    BY <2>3, <2>4, StackReplaced
  <2>6. \A item \in held' : /\ item = <<item[1], item[2], item[3]>>
                            /\ item[1] \in 1 .. Len(pages') /\ item[2] \in Indexes
                            /\ item[3] = pages'[item[1]].itemsize
    BY <1>2, <2>2, <2>3, <2>5 DEF PageInv
  <2> HIDE DEF x
  <2>7. Out(k)' = Out(k) \cup {x} /\ \A j \in 1 .. Len(pages) : j # k => Out(j)' = Out(j)
    <3> DEFINE item == <<k, x, size>>
    <3>1. item[1] = k /\ item[2] = x
      OBVIOUS
    <3> HIDE DEF item
    <3>2. held' = held \cup {item}
      BY <2>3 DEF item
    <3> QED
      BY <2>2, <3>1, <3>2 DEF Out
  <2>8. ASSUME NEW j \in 1 .. Len(pages') PROVE Exact(pages'[j].free, Indexes \ Out(j)')
    <3>1. CASE j = k
      <4>1. Indexes \ Out(k)' = (Indexes \ Out(k)) \ {x}
        BY <2>7
      <4> QED
        BY <3>1, <4>1, <2>2, <2>5
    <3>2. CASE j # k
      BY <3>2, <2>5, <2>7 DEF PageInv
    <3> QED
      BY <3>1, <3>2
  <2> HIDE DEF f
  <2> QED
    BY <2>5, <2>6, <2>8 DEF PageInv, Indexes
<1> QED
  BY <1>1, <1>2

\* A new page gives its last item.
LEMMA ExtendStep ==
  ASSUME PageInv, NEW size \in ItemSizes, Extend(size) PROVE PageInv'
<1>1. CASE UNCHANGED <<pages, held>>
  BY <1>1 DEF PageInv, Out
<1>2. CASE ~UNCHANGED <<pages, held>>
  <2>c. PICK c \in Nat : c = Len(pages) + 1
    BY DEF PageInv
  <2> DEFINE x == AllFree[PageSize]
             page == [itemsize |-> size, free |-> Popped(AllFree)]
  <2>1. x \in Indexes /\ Exact(Popped(AllFree), Indexes \ {x})
    BY AllFreeExact, PoppedExact
  <2>2. pages' = Append(pages, page) /\ held' = held \cup {<<c, x, size>>}
    BY <1>2, <2>c DEF Extend
  <2>3. page \in Page
    BY <2>1 DEF Page, Exact
  <2>4. /\ pages' \in Seq(Page) /\ Len(pages') = c /\ c \in Nat
        /\ pages'[c] = page /\ \A j \in 1 .. Len(pages) : pages'[j] = pages[j]
    BY <2>c, <2>2, <2>3 DEF PageInv
  <2>5. Out(c) = {}
    BY <2>c, <2>4 DEF PageInv, Out
  <2> HIDE DEF x, page
  <2>6. Out(c)' = {x} /\ \A j \in 1 .. Len(pages) : Out(j)' = Out(j)
    <3> DEFINE item == <<c, x, size>>
    <3>1. item[1] = c /\ item[2] = x
      OBVIOUS
    <3> HIDE DEF item
    <3>2. held' = held \cup {item}
      BY <2>2 DEF item
    <3>3. c \notin 1 .. Len(pages)
      BY <2>c DEF PageInv
    <3> QED
      BY <2>1, <2>5, <3>1, <3>2, <3>3 DEF Out
  <2>7. \A item \in held' : /\ item = <<item[1], item[2], item[3]>>
                            /\ item[1] \in 1 .. Len(pages') /\ item[2] \in Indexes
                            /\ item[3] = pages'[item[1]].itemsize
    BY <2>1, <2>2, <2>4 DEF PageInv, page
  <2>8. ASSUME NEW j \in 1 .. Len(pages') PROVE Exact(pages'[j].free, Indexes \ Out(j)')
    <3>1. CASE j = c
      BY <3>1, <2>1, <2>4, <2>6 DEF page
    <3>2. CASE j # c
      <4>1. j \in 1 .. Len(pages)
        BY <3>2, <2>c, <2>4
      <4> QED
        BY <4>1, <2>4, <2>6 DEF PageInv
    <3> QED
      BY <3>1, <3>2
  <2> QED
    BY <2>4, <2>7, <2>8 DEF PageInv, Indexes
<1> QED
  BY <1>1, <1>2

\* An item comes back to its page.
LEMMA PmfreeStep ==
  ASSUME PageInv, NEW item \in held, Pmfree(item) PROVE PageInv'
<1> DEFINE k == item[1]
           x == item[2]
           f == pages[k].free
<1>1. /\ k \in 1 .. Len(pages) /\ x \in Indexes /\ x \in Nat /\ x \in Out(k)
      /\ Exact(f, Indexes \ Out(k))
  <2>1. k \in 1 .. Len(pages) /\ x \in Indexes
    BY DEF PageInv
  <2>2. x \in Out(k)
    BY <2>1 DEF Out
  <2>3. x \in Nat
    BY <2>1 DEF Indexes
  <2>4. Exact(f, Indexes \ Out(k))
    BY <2>1 DEF PageInv
  <2> QED
    BY <2>1, <2>2, <2>3, <2>4
<1> HIDE DEF x, k, f
<1>2. Exact(Append(f, x), (Indexes \ Out(k)) \cup {x})
  BY <1>1, PushedExact
<1>3. pages' = [pages EXCEPT ![k].free = Append(f, x)] /\ held' = held \ {item}
  BY DEF Pmfree, k, x, f
<1>4. Append(f, x) \in Seq(Nat) /\ pages \in Seq(Page)
  BY <1>2 DEF Exact, PageInv
<1>5. /\ pages' \in Seq(Page) /\ Len(pages') = Len(pages)
      /\ pages'[k].free = Append(f, x)
      /\ \A j \in 1 .. Len(pages) : pages'[j].itemsize = pages[j].itemsize
      /\ \A j \in 1 .. Len(pages) : j # k => pages'[j] = pages[j]
  BY <1>1, <1>3, <1>4, StackReplaced
<1>6. \A i \in held' : /\ i = <<i[1], i[2], i[3]>>
                       /\ i[1] \in 1 .. Len(pages') /\ i[2] \in Indexes
                       /\ i[3] = pages'[i[1]].itemsize
  BY <1>3, <1>5 DEF PageInv
<1>7. \A i \in held : i[1] = k /\ i[2] = x => i = item
  BY DEF PageInv, k, x
<1>8. Out(k)' = Out(k) \ {x} /\ \A j \in 1 .. Len(pages) : j # k => Out(j)' = Out(j)
  BY <1>3, <1>7 DEF Out, k, x
<1>9. ASSUME NEW j \in 1 .. Len(pages') PROVE Exact(pages'[j].free, Indexes \ Out(j)')
  <2>1. CASE j = k
    <3>1. Indexes \ Out(k)' = (Indexes \ Out(k)) \cup {x}
      BY <1>1, <1>8
    <3> QED
      BY <2>1, <3>1, <1>2, <1>5
  <2>2. CASE j # k
    BY <2>2, <1>5, <1>8 DEF PageInv
  <2> QED
    BY <2>1, <2>2
<1> QED
  BY <1>5, <1>6, <1>9 DEF PageInv, Indexes

LEMMA PageStep == PageInv /\ [PageNext]_pageVars => PageInv'
<1> SUFFICES ASSUME PageInv, [PageNext]_pageVars PROVE PageInv'
  OBVIOUS
<1>1. CASE UNCHANGED pageVars
  BY <1>1 DEF pageVars, PageInv, Out
<1>2. CASE PageNext
  BY <1>2, AllocStep, ExtendStep, PmfreeStep DEF PageNext
<1> QED
  BY <1>1, <1>2

\* An item of the page cache has one owner, or is on the free stack of its
\* page once, and has the size its owner asked for, whatever sizes share the
\* cache and in whatever order items come back (memory.cc:29-64, 101-125).
THEOREM ItemsOwned == PageSpec => []PageOwned
<1>1. PageSpec => []PageInv
  BY PageInitial, PageStep, PTL DEF PageSpec
<1> QED
  BY <1>1, PageInvOwned, PTL
=============================================================================
