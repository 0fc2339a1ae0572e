---------------------------- MODULE PacketProofs ----------------------------
(***************************************************************************)
(* The packets of the resolver, addresses and moments: what is written is  *)
(* read as it was meant, for all texts, replies, addresses and times that  *)
(* the assumptions admit.                                                  *)
(*                                                                         *)
(* The loops over octets are recursive functions.  That each exists is     *)
(* shown from a measure that falls with every step (Solution); what it     *)
(* gives, by induction on that measure (Descent).  The octets of a name    *)
(* have a closed form (Named), and all that is read of a packet follows    *)
(* from what lies in it (Lies), also when the end of it did not come       *)
(* (Begins).                                                               *)
(***************************************************************************)
EXTENDS BuffersProofs, Samples, FiniteSetTheorems

----------------------------------------------------------------------------
(* Moments.                                                                *)

LEMMA MomentParts ==
  ASSUME NEW x \in Nat
  PROVE  /\ Moment(x).sec \in Nat /\ Moment(x).msec \in 0 .. 999
         /\ x = Moment(x).sec * 1000 + Moment(x).msec
         /\ Moment(x).sec <= x
<1>1. Moment(x).sec = x \div 1000 /\ Moment(x).msec = x % 1000
  BY Zenon DEF Moment
<1>2. x \div 1000 \in Nat /\ x % 1000 \in 0 .. 999 /\ x = (x \div 1000) * 1000 + (x % 1000) /\ x \div 1000 <= x
  OBVIOUS
<1> QED
  BY <1>1, <1>2

LEMMA Remains == ASSUME NEW W \in Nat, W > 0, NEW k \in 0 .. W - 1 PROVE k % W = k
OBVIOUS

LEMMA Borrowed ==
  ASSUME NEW W \in Nat, W > 0, NEW a \in 0 .. W, NEW b \in 0 .. W - 1
  PROVE  (((a + b) % W) - a) % W = b
<1>1. CASE a + b < W
  <2>1. (a + b) % W = a + b
    BY <1>1
  <2>2. ((a + b) % W) - a = b /\ b % W = b
    BY <2>1
  <2> QED
    BY <2>2
<1>2. CASE a + b >= W
  <2>1. (a + b) % W = a + b - W
    <3>1. a + b - W \in 0 .. W - 1
      BY <1>2
    <3> QED
      BY <3>1
  <2>2. ((a + b) % W) - a = b - W
    BY <2>1
  <2>3. (b - W) % W = b
    OBVIOUS
  <2> QED
    BY <2>2, <2>3
<1> QED
  BY <1>1, <1>2

LEMMA TimesKept ==
  ASSUME NEW x \in 0 .. Wrap - 1, NEW y \in 0 .. Wrap - 1
  PROVE  LET a == Moment(x)
             b == Moment(y)
         IN  /\ Minus(Plus(a, b), a) = b /\ Mseconds(b) = y
             /\ Before(a, b) <=> x < y
             /\ x >= y => Mseconds(Minus(a, b)) = x - y
<1> DEFINE a == Moment(x)
           b == Moment(y)
<1>0. Wrap \in Nat /\ Wrap > 0 /\ x \in Nat /\ y \in Nat /\ x <= Wrap - 1 /\ y <= Wrap - 1
  BY ValueAssumption
<1>1. a.sec \in Nat /\ a.msec \in 0 .. 999 /\ x = a.sec * 1000 + a.msec /\ a.sec <= x
  BY <1>0, MomentParts
<1>2. b.sec \in Nat /\ b.msec \in 0 .. 999 /\ y = b.sec * 1000 + b.msec /\ b.sec <= y
  BY <1>0, MomentParts
<1>3. b = [sec |-> b.sec, msec |-> b.msec]
  BY SMT DEF Moment
<1> HIDE DEF a, b
<1> DEFINE s == a.sec
           m == a.msec
           t == b.sec
           n == b.msec
<1>4. /\ s \in Nat /\ m \in 0 .. 999 /\ x = s * 1000 + m /\ s <= x
      /\ t \in Nat /\ n \in 0 .. 999 /\ y = t * 1000 + n /\ t <= y
  BY <1>1, <1>2
<1> HIDE DEF s, m, t, n
<1>5. Mseconds(b) = y
  <2>1. Mseconds(b) = (t * 1000 + n) % Wrap
    BY Zenon DEF Mseconds, t, n
  <2> QED
    BY <2>1, <1>4, <1>0, Remains
<1>6. Before(a, b) <=> x < y
  <2>1. Before(a, b) <=> s < t \/ (s = t /\ m < n)
    BY Zenon DEF Before, s, t, m, n
  <2> QED
    BY <2>1, <1>4
<1>7. Minus(Plus(a, b), a) = b
  <2> DEFINE p == Plus(a, b)
  <2>1. p.sec = (s + t + (m + n) \div 1000) % Wrap /\ p.msec = (m + n) % 1000
    BY Zenon DEF Plus, s, t, m, n
  <2> HIDE DEF p
  <2>2. t \in 0 .. Wrap - 1 /\ s \in 0 .. Wrap
    BY <1>4, <1>0
  <2>3. CASE m + n < 1000
    <3>1. (m + n) \div 1000 = 0 /\ (m + n) % 1000 = m + n
      BY <2>3, <1>4
    <3>2. p.sec = (s + t) % Wrap /\ p.msec = m + n /\ ~(p.msec < m)
      BY <2>1, <3>1, <1>4
    <3>3. Minus(p, a) = [sec |-> (p.sec - s) % Wrap, msec |-> p.msec - m]
      BY <3>2, Zenon DEF Minus, s, m
    <3>4. (p.sec - s) % Wrap = t
      BY <3>2, <1>0, <1>4, <2>2, Borrowed
    <3>5. p.msec - m = n
      BY <3>2, <1>4
    <3>6. Minus(p, a) = [sec |-> t, msec |-> n]
      BY <3>3, <3>4, <3>5, Zenon
    <3> QED
      BY <3>6, <1>3, Zenon DEF p, t, n
  <2>4. CASE m + n >= 1000
    <3>1. (m + n) \div 1000 = 1 /\ (m + n) % 1000 = m + n - 1000
      BY <2>4, <1>4
    <3>2. p.sec = (s + t + 1) % Wrap /\ p.msec = m + n - 1000 /\ p.msec < m
      BY <2>1, <3>1, <1>4
    <3>3. Minus(p, a) = [sec |-> (p.sec - s - 1) % Wrap, msec |-> p.msec + 1000 - m]
      BY <3>2, Zenon DEF Minus, s, m
    <3>4a. s + 1 \in 0 .. Wrap /\ s + t + 1 = (s + 1) + t
      BY <1>4, <1>0
    <3>4b. p.sec = ((s + 1) + t) % Wrap /\ p.sec - s - 1 = p.sec - (s + 1)
      BY <3>2, <3>4a, <1>0, <1>4
    <3>4. (p.sec - s - 1) % Wrap = t
      BY <3>4a, <3>4b, <1>0, <1>4, <2>2, Borrowed
    <3>5. p.msec + 1000 - m = n
      BY <3>2, <1>4
    <3>6. Minus(p, a) = [sec |-> t, msec |-> n]
      BY <3>3, <3>4, <3>5, Zenon
    <3> QED
      BY <3>6, <1>3, Zenon DEF p, t, n
  <2> QED
    BY <2>3, <2>4, <1>4
<1>8. ASSUME x >= y PROVE Mseconds(Minus(a, b)) = x - y
  <2> DEFINE d == Minus(a, b)
  <2>1. CASE m < n
    <3>1. d = [sec |-> (s - t - 1) % Wrap, msec |-> m + 1000 - n]
      BY <2>1, Zenon DEF Minus, s, t, m, n
    <3> HIDE DEF d
    <3>2. d.sec = (s - t - 1) % Wrap /\ d.msec = m + 1000 - n
      BY <3>1
    <3>3a. s <= Wrap - 1 /\ s \in Nat /\ t \in Nat
      BY <1>4, <1>0
    <3>3b. s - t - 1 >= 0
      BY <1>4, <1>8, <2>1
    <3>3. s - t - 1 \in 0 .. Wrap - 1
      BY <3>3a, <3>3b, <1>0
    <3>4. (s - t - 1) % Wrap = s - t - 1
      BY <3>3, <1>0, Remains
    <3>5. Mseconds(d) = (d.sec * 1000 + d.msec) % Wrap
      BY Zenon DEF Mseconds
    <3>6. d.sec * 1000 + d.msec = x - y
      BY <3>2, <3>4, <1>4
    <3>7. x - y \in 0 .. Wrap - 1
      BY <1>8, <1>4, <1>0
    <3> QED
      BY <3>5, <3>6, <3>7, <1>0, Remains DEF d
  <2>2. CASE ~(m < n)
    <3>1. d = [sec |-> (s - t) % Wrap, msec |-> m - n]
      BY <2>2, Zenon DEF Minus, s, t, m, n
    <3> HIDE DEF d
    <3>2. d.sec = (s - t) % Wrap /\ d.msec = m - n
      BY <3>1
    <3>3a. s <= Wrap - 1 /\ s \in Nat /\ t \in Nat
      BY <1>4, <1>0
    <3>3b. s - t >= 0
      BY <1>4, <1>8, <2>2
    <3>3. s - t \in 0 .. Wrap - 1
      BY <3>3a, <3>3b, <1>0
    <3>4. (s - t) % Wrap = s - t
      BY <3>3, <1>0, Remains
    <3>5. Mseconds(d) = (d.sec * 1000 + d.msec) % Wrap
      BY Zenon DEF Mseconds
    <3>6. d.sec * 1000 + d.msec = x - y
      BY <3>2, <3>4, <1>4
    <3>7. x - y \in 0 .. Wrap - 1
      BY <1>8, <1>4, <1>0
    <3> QED
      BY <3>5, <3>6, <3>7, <1>0, Remains DEF d
  <2> QED
    BY <2>1, <2>2
<1> QED
  BY <1>5, <1>6, <1>7, <1>8, Zenon DEF a, b

----------------------------------------------------------------------------
(* Addresses.                                                              *)

LEMMA NtoaIs ==
  ASSUME NEW a \in [Octets -> Byte]
  PROVE  /\ Ntoa(a) \in Seq(Int) /\ Len(Ntoa(a)) = 7
         /\ \A k \in Octets : Ntoa(a)[2 * k - 1] = a[k]
         /\ \A k \in 1 .. 3 : Ntoa(a)[2 * k] = Stop
<1>1. a[1] \in Byte /\ a[2] \in Byte /\ a[3] \in Byte /\ a[4] \in Byte
  BY DEF Octets
<1>2. a[1] \in Int /\ a[2] \in Int /\ a[3] \in Int /\ a[4] \in Int /\ Stop \in Int
  BY <1>1 DEF Byte, Stop
<1> DEFINE t == <<a[1], Stop, a[2], Stop, a[3], Stop, a[4]>>
<1>3. t \in Seq(Int) /\ Len(t) = 7
  BY <1>2
<1>4. t[1] = a[1] /\ t[3] = a[2] /\ t[5] = a[3] /\ t[7] = a[4] /\ t[2] = Stop /\ t[4] = Stop /\ t[6] = Stop
  OBVIOUS
<1>5. Ntoa(a) = t
  BY DEF Ntoa
<1> HIDE DEF t
<1>6. ASSUME NEW k \in Octets PROVE t[2 * k - 1] = a[k]
  <2>1. k = 1 \/ k = 2 \/ k = 3 \/ k = 4
    BY DEF Octets
  <2> QED
    BY <1>4, <2>1
<1>7. ASSUME NEW k \in 1 .. 3 PROVE t[2 * k] = Stop
  <2>1. k = 1 \/ k = 2 \/ k = 3
    OBVIOUS
  <2> QED
    BY <1>4, <2>1
<1> QED
  BY <1>3, <1>5, <1>6, <1>7

LEMMA Whole ==
  ASSUME NEW b \in Byte
  PROVE  b \in Int /\ b >= 0 /\ b % Wrap = b /\ b <= 255
<1>1. Wrap \in Nat /\ Wrap >= 65536
  BY ValueAssumption
<1> QED
  BY <1>1 DEF Byte

\* A mask is not the empty sequence.
LEMMA SomeMask ==
  ASSUME NEW m \in [Octets -> Byte]
  PROVE  m # << >>
<1>1. m \in Seq(Byte) /\ DOMAIN m = 1 .. 4
  BY SeqDef DEF Octets
<1>2. Len(m) = 4
  BY <1>1, LenProperties
<1> QED
  BY <1>2, EmptySeq

LEMMA OnlyFour ==
  ASSUME NEW T, T \subseteq Octets, \A k \in 1 .. 3 : k \notin T
  PROVE  Min(T \cup {4}) = 4
<1>1. T \cup {4} \subseteq Nat /\ T \cup {4} # {}
  BY DEF Octets
<1>2. Min(T \cup {4}) \in T \cup {4}
  BY <1>1, Least
<1>3. \A k \in T : k = 4
  BY DEF Octets
<1> QED
  BY <1>2, <1>3

\* What Aton does behind a whole address.
Behind4(a, left) ==
  LET With(mask) == IF mask = << >> THEN Refused ELSE [ok |-> TRUE, addr |-> a, mask |-> mask]
  IN  IF left = << >> THEN With(Prefix(32))
      ELSE IF left[1] # Slash THEN Refused
      ELSE IF Contains(Tail(left), Stop) THEN With(DottedMask(Tail(left)))
      ELSE IF Numbered(left, 2, 32) THEN With(Prefix(Value(left, 2)))
      ELSE Refused

LEMMA AtonIs ==
  ASSUME NEW a \in [Octets -> Byte], NEW left \in Seq(Int), left # << >> => left[1] # Stop
  PROVE  Aton(Ntoa(a) \o left) = Behind4(a, left)
<1> DEFINE t == Ntoa(a) \o left
<1>0. Len(left) \in Nat
  BY LenProperties
<1>a. Ntoa(a) \in Seq(Int) /\ Len(Ntoa(a)) = 7
  BY NtoaIs, Zenon
<1>b. /\ t \in Seq(Int) /\ Len(t) = Len(Ntoa(a)) + Len(left)
      /\ \A i \in 1 .. Len(Ntoa(a)) + Len(left) : t[i] = IF i <= Len(Ntoa(a)) THEN Ntoa(a)[i] ELSE left[i - Len(Ntoa(a))]
  BY <1>a, ConcatProperties, Zenon
<1>1. t \in Seq(Int) /\ Len(t) = 7 + Len(left)
  BY <1>a, <1>b, Zenon
<1>2. \A i \in 1 .. 7 + Len(left) : t[i] = IF i <= 7 THEN Ntoa(a)[i] ELSE left[i - 7]
  BY <1>a, <1>b, Zenon
<1>3. \A k \in Octets : t[2 * k - 1] = a[k]
  <2> TAKE k \in Octets
  <2>1. 2 * k - 1 \in 1 .. 7 + Len(left) /\ 2 * k - 1 <= 7
    BY <1>0 DEF Octets
  <2> QED
    BY <1>2, <2>1, NtoaIs
<1>4. \A k \in 1 .. 3 : t[2 * k] = Stop
  <2> TAKE k \in 1 .. 3
  <2>1. 2 * k \in 1 .. 7 + Len(left) /\ 2 * k <= 7
    BY <1>0
  <2> QED
    BY <1>2, <2>1, NtoaIs
<1>5. Len(t) >= 8 => t[8] # Stop
  <2> SUFFICES ASSUME Len(t) >= 8 PROVE t[8] # Stop
    OBVIOUS
  <2>1. 8 \in 1 .. 7 + Len(left) /\ ~(8 <= 7) /\ 8 - 7 = 1
    BY <1>0, <1>1
  <2>2. t[8] = left[1]
    BY <1>2, <2>1
  <2>3. left # << >>
    BY <2>1, EmptySeq
  <2> QED
    BY <2>2, <2>3
<1> DEFINE T == {k \in Octets : Len(t) < 2 * k \/ t[2 * k] # Stop}
           n == Min(T \cup {4})
<1>6. n = 4
  <2>1. ASSUME NEW k \in 1 .. 3 PROVE k \notin T
    <3>1. ~(Len(t) < 2 * k)
      BY <1>1, <1>0
    <3> QED
      BY <3>1, <1>4
  <2>2. T \subseteq Octets
    OBVIOUS
  <2> HIDE DEF T
  <2> QED
    BY <2>1, <2>2, OnlyFour
<1> DEFINE rest == Rest(t, IF Len(t) >= 2 * n /\ t[2 * n] = Stop THEN 2 * n + 1 ELSE 2 * n)
           addr == [k \in Octets |-> IF k <= n THEN Value(t, 2 * k - 1) ELSE 0]
<1> HIDE DEF n, t
<1>7. rest = left
  <2>1. 2 * n = 8
    BY <1>6
  <2>2. rest = SubSeq(t, 8, Len(t))
    BY <2>1, <1>5, Zenon DEF Rest
  <2>3. 8 = 7 + 1
    OBVIOUS
  <2>4. CASE left = << >>
    <3>1. Len(t) = 7 /\ 7 \in Int /\ 8 \in Int /\ 7 < 8
      BY <1>1, <2>4, EmptySeq
    <3> QED
      BY <3>1, <2>2, <2>4, SubSeqEmpty
  <2>5. CASE left # << >>
    <3>1. Len(left) \in Nat \ {0}
      BY <2>5, EmptySeq
    <3>2. 8 \in 7 + 1 .. 7 + Len(left) /\ 7 + Len(left) \in 7 + 1 .. 7 + Len(left)
      BY <3>1
    <3>3. SubSeq(t, 8, 7 + Len(left)) = SubSeq(left, 8 - 7, 7 + Len(left) - 7)
      <4>1. Len(Ntoa(a)) = 7 /\ Ntoa(a) \in Seq(Int)
        BY NtoaIs
      <4>2. \A q, r \in Len(Ntoa(a)) + 1 .. Len(Ntoa(a)) + Len(left) :
              SubSeq(Ntoa(a) \o left, q, r) = SubSeq(left, q - Len(Ntoa(a)), r - Len(Ntoa(a)))
        BY <4>1, SubSeqOfConcat2, Zenon
      <4>3. \A q, r \in 7 + 1 .. 7 + Len(left) : SubSeq(Ntoa(a) \o left, q, r) = SubSeq(left, q - 7, r - 7)
        BY <4>1, <4>2
      <4> DEFINE u == 7 + Len(left)
                 v == 8
      <4>4. v \in 7 + 1 .. 7 + Len(left) /\ u \in 7 + 1 .. 7 + Len(left)
        BY <3>2
      <4> HIDE DEF u, v
      <4>5. SubSeq(Ntoa(a) \o left, v, u) = SubSeq(left, v - 7, u - 7)
        BY <4>3, <4>4, Zenon
      <4>6. SubSeq(Ntoa(a) \o left, v, u) = SubSeq(t, 8, 7 + Len(left))
        BY DEF t, u, v
      <4>7. SubSeq(left, v - 7, u - 7) = SubSeq(left, 8 - 7, 7 + Len(left) - 7)
        BY DEF u, v
      <4> QED
        BY <4>5, <4>6, <4>7, Zenon
    <3>4. 8 - 7 = 1 /\ 7 + Len(left) - 7 = Len(left)
      BY <1>0
    <3>5. SubSeq(left, 1, Len(left)) = left
      BY SubSeqFull
    <3> QED
      BY <3>3, <3>4, <3>5, <2>2, <1>1
  <2> QED
    BY <2>4, <2>5
<1>8. addr = a
  <2>1. ASSUME NEW k \in Octets PROVE addr[k] = a[k]
    <3>1. k <= n
      BY <1>6 DEF Octets
    <3>2. addr[k] = t[2 * k - 1] % Wrap
      BY <3>1 DEF Value
    <3>3. a[k] \in Byte
      OBVIOUS
    <3> QED
      BY <3>2, <3>3, <1>3, Whole
  <2>2. addr = [k \in Octets |-> addr[k]] /\ a = [k \in Octets |-> a[k]]
    OBVIOUS
  <2> HIDE DEF addr
  <2> QED
    BY <2>1, <2>2
<1>9. ~\E k \in 1 .. n : ~Numbered(t, 2 * k - 1, 255)
  <2> SUFFICES ASSUME NEW k \in 1 .. n PROVE Numbered(t, 2 * k - 1, 255)
    OBVIOUS
  <2>1. k \in Octets
    BY <1>6 DEF Octets
  <2>2. 2 * k - 1 \in 1 .. Len(t)
    BY <1>6, <1>1, <1>0
  <2>3. a[k] \in Byte
    BY <2>1
  <2> QED
    BY <2>1, <2>2, <2>3, <1>3, Whole DEF Numbered
<1>10. Aton(t) = IF \E k \in 1 .. n : ~Numbered(t, 2 * k - 1, 255) THEN Refused
                 ELSE IF rest = << >> THEN IF n = 4 THEN (IF Prefix(32) = << >> THEN Refused ELSE [ok |-> TRUE, addr |-> addr, mask |-> Prefix(32)]) ELSE Refused
                 ELSE IF rest[1] # Slash THEN Refused
                 ELSE IF Contains(Tail(rest), Stop)
                      THEN IF DottedMask(Tail(rest)) = << >> THEN Refused ELSE [ok |-> TRUE, addr |-> addr, mask |-> DottedMask(Tail(rest))]
                 ELSE IF Numbered(rest, 2, 32)
                      THEN IF Prefix(Value(rest, 2)) = << >> THEN Refused ELSE [ok |-> TRUE, addr |-> addr, mask |-> Prefix(Value(rest, 2))]
                 ELSE Refused
  BY Zenon DEF Aton, n
<1> HIDE DEF rest, addr
<1> QED
  BY <1>6, <1>7, <1>8, <1>9, <1>10, Zenon DEF Behind4, t

LEMMA LeadingOnes ==
  ASSUME NEW c \in 0 .. 8
  PROVE  Leading[1 + c] \in Byte /\ Ones(Leading[1 + c]) = 1 .. c
<1> DEFINE o == Leading[1 + c]
<1>1. \/ (c = 0 /\ o = 0) \/ (c = 1 /\ o = 128) \/ (c = 2 /\ o = 192) \/ (c = 3 /\ o = 224) \/ (c = 4 /\ o = 240)
      \/ (c = 5 /\ o = 248) \/ (c = 6 /\ o = 252) \/ (c = 7 /\ o = 254) \/ (c = 8 /\ o = 255)
  <2>1. /\ Leading[1] = 0 /\ Leading[2] = 128 /\ Leading[3] = 192 /\ Leading[4] = 224 /\ Leading[5] = 240
        /\ Leading[6] = 248 /\ Leading[7] = 252 /\ Leading[8] = 254 /\ Leading[9] = 255
    BY DEF Leading
  <2> DEFINE l == 1 + c
  <2>2. \/ (c = 0 /\ l = 1) \/ (c = 1 /\ l = 2) \/ (c = 2 /\ l = 3) \/ (c = 3 /\ l = 4) \/ (c = 4 /\ l = 5)
        \/ (c = 5 /\ l = 6) \/ (c = 6 /\ l = 7) \/ (c = 7 /\ l = 8) \/ (c = 8 /\ l = 9)
    OBVIOUS
  <2>3. o = Leading[l]
    OBVIOUS
  <2> HIDE DEF l, o
  <2> QED
    BY <2>1, <2>2, <2>3
<1> HIDE DEF o
<1>2. ASSUME NEW b \in 1 .. 8 PROVE (o \div Weight[b]) % 2 = 1 <=> b <= c
  <2>1. \/ (b = 1 /\ Weight[b] = 128) \/ (b = 2 /\ Weight[b] = 64) \/ (b = 3 /\ Weight[b] = 32) \/ (b = 4 /\ Weight[b] = 16)
        \/ (b = 5 /\ Weight[b] = 8) \/ (b = 6 /\ Weight[b] = 4) \/ (b = 7 /\ Weight[b] = 2) \/ (b = 8 /\ Weight[b] = 1)
    <3>1. /\ Weight[1] = 128 /\ Weight[2] = 64 /\ Weight[3] = 32 /\ Weight[4] = 16
          /\ Weight[5] = 8 /\ Weight[6] = 4 /\ Weight[7] = 2 /\ Weight[8] = 1
      BY DEF Weight
    <3>2. b = 1 \/ b = 2 \/ b = 3 \/ b = 4 \/ b = 5 \/ b = 6 \/ b = 7 \/ b = 8
      OBVIOUS
    <3> QED
      BY <3>1, <3>2
  <2> DEFINE w == Weight[b]
  <2> HIDE DEF w
  <2>2. \/ (b = 1 /\ w = 128) \/ (b = 2 /\ w = 64) \/ (b = 3 /\ w = 32) \/ (b = 4 /\ w = 16)
        \/ (b = 5 /\ w = 8) \/ (b = 6 /\ w = 4) \/ (b = 7 /\ w = 2) \/ (b = 8 /\ w = 1)
    BY <2>1 DEF w
  <2>3. (o \div w) % 2 = 1 <=> b <= c
    <3>1. CASE b = 1
      BY <3>1, <1>1, <2>2
    <3>2. CASE b = 2
      BY <3>2, <1>1, <2>2
    <3>3. CASE b = 3
      BY <3>3, <1>1, <2>2
    <3>4. CASE b = 4
      BY <3>4, <1>1, <2>2
    <3>5. CASE b = 5
      BY <3>5, <1>1, <2>2
    <3>6. CASE b = 6
      BY <3>6, <1>1, <2>2
    <3>7. CASE b = 7
      BY <3>7, <1>1, <2>2
    <3>8. CASE b = 8
      BY <3>8, <1>1, <2>2
    <3> QED
      BY <3>1, <3>2, <3>3, <3>4, <3>5, <3>6, <3>7, <3>8
  <2> QED
    BY <2>3 DEF w
<1>3. Ones(o) = {b \in 1 .. 8 : b <= c}
  BY <1>2, Zenon DEF Ones
<1>4. {b \in 1 .. 8 : b <= c} = 1 .. c
  OBVIOUS
<1> QED
  BY <1>1, <1>3, <1>4 DEF o, Byte

\* The ones of octet k in a mask with n of them.
Share(n, k) == IF n < 8 * (k - 1) THEN 0 ELSE IF n > 8 * k THEN 8 ELSE n - 8 * (k - 1)

LEMMA PrefixIs ==
  ASSUME NEW n \in 0 .. 32
  PROVE  /\ Prefix(n) \in [Octets -> Byte]
         /\ \A k \in Octets : Ones(Prefix(n)[k]) = 1 .. Share(n, k)
<1>1. ASSUME NEW k \in Octets
      PROVE  Leading[1 + Max({0, Min({8, n - 8 * (k - 1)})})] = Leading[1 + Share(n, k)] /\ Share(n, k) \in 0 .. 8
  <2> DEFINE d == n - 8 * (k - 1)
             e == Min({8, d})
  <2>1. d \in Int
    BY DEF Octets
  <2>2. e = IF 8 <= d THEN 8 ELSE d
    BY <2>1, MinOfTwo
  <2>3. e \in Int
    BY <2>1, <2>2
  <2> DEFINE f == Max({0, e})
  <2> HIDE DEF e
  <2>4. f = IF 0 >= e THEN 0 ELSE e
    BY <2>3, MaxOfTwo
  <2> HIDE DEF f
  <2>5. f = Share(n, k)
    BY <2>2, <2>4, <2>1 DEF Share, Octets, f
  <2>6. Share(n, k) \in 0 .. 8
    BY DEF Share, Octets
  <2> QED
    BY <2>5, <2>6, Zenon DEF e, f
<1>2. \A k \in Octets : Prefix(n)[k] = Leading[1 + Share(n, k)]
  BY <1>1, Zenon DEF Prefix
<1>3. \A k \in Octets : Prefix(n)[k] \in Byte /\ Ones(Prefix(n)[k]) = 1 .. Share(n, k)
  BY <1>1, <1>2, LeadingOnes, Zenon
<1>4. Prefix(n) = [k \in Octets |-> Prefix(n)[k]]
  BY Zenon DEF Prefix
<1> QED
  BY <1>3, <1>4, Zenon

LEMMA MaskOnes ==
  ASSUME NEW n \in 0 .. 32
  PROVE  UNION {{8 * (k - 1) + b : b \in Ones(Prefix(n)[k])} : k \in Octets} = 1 .. n
<1> DEFINE U == UNION {{8 * (k - 1) + b : b \in Ones(Prefix(n)[k])} : k \in Octets}
<1>1. ASSUME NEW x PROVE x \in U <=> \E k \in Octets : \E b \in 1 .. Share(n, k) : x = 8 * (k - 1) + b
  <2>1. x \in U <=> \E k \in Octets : \E b \in Ones(Prefix(n)[k]) : x = 8 * (k - 1) + b
    OBVIOUS
  <2> HIDE DEF U
  <2> QED
    BY <2>1, PrefixIs
<1> HIDE DEF U
<1>2. ASSUME NEW x \in U PROVE x \in 1 .. n
  <2>1. PICK k \in Octets : \E b \in 1 .. Share(n, k) : x = 8 * (k - 1) + b
    BY <1>1
  <2>2. PICK b \in 1 .. Share(n, k) : x = 8 * (k - 1) + b
    BY <2>1
  <2>3. k \in 1 .. 4
    BY DEF Octets
  <2> QED
    BY <2>2, <2>3 DEF Share
<1>3. ASSUME NEW x \in 1 .. n PROVE x \in U
  <2> DEFINE k == 1 + (x - 1) \div 8
             b == x - 8 * (k - 1)
  <2>1. k \in 1 .. 4 /\ b \in 1 .. 8 /\ x = 8 * (k - 1) + b
    OBVIOUS
  <2> HIDE DEF k, b
  <2>2. b \in 1 .. Share(n, k)
    BY <2>1 DEF Share
  <2> QED
    BY <2>1, <2>2, <1>1 DEF Octets
<1> QED
  BY <1>2, <1>3 DEF U

LEMMA DottedIs ==
  ASSUME NEW m \in [Octets -> Byte]
  PROVE  DottedMask(Ntoa(m)) = m
<1> DEFINE t == Ntoa(m)
           T == {k \in Octets : Len(t) = 2 * k - 1}
           n == Min(T \cup {4})
<1>1. Len(t) = 7 /\ (\A k \in Octets : t[2 * k - 1] = m[k]) /\ (\A k \in 1 .. 3 : t[2 * k] = Stop)
  BY NtoaIs, Zenon
<1> HIDE DEF t
<1>2. n = 4
  <2>1. T \subseteq Octets
    OBVIOUS
  <2>2. \A k \in 1 .. 3 : k \notin T
    BY <1>1
  <2> HIDE DEF T
  <2> QED
    BY <2>1, <2>2, OnlyFour
<1>3. DottedMask(t) = IF /\ \A k \in 1 .. n : Numbered(t, 2 * k - 1, 255)
                         /\ \A k \in 1 .. n : Len(t) # 2 * k - 1 => Len(t) >= 2 * k /\ t[2 * k] = Stop
                      THEN [k \in Octets |-> IF k <= n THEN Value(t, 2 * k - 1) ELSE 255] ELSE << >>
  BY Zenon DEF DottedMask
<1> HIDE DEF n
<1>4. \A k \in 1 .. n : Numbered(t, 2 * k - 1, 255)
  <2> SUFFICES ASSUME NEW k \in 1 .. n PROVE Numbered(t, 2 * k - 1, 255)
    OBVIOUS
  <2>1. k \in Octets
    BY <1>2 DEF Octets
  <2>2. 2 * k - 1 \in 1 .. Len(t)
    BY <1>2, <1>1
  <2>3. m[k] \in Byte
    BY <2>1
  <2> QED
    BY <2>1, <2>2, <2>3, <1>1, Whole DEF Numbered
<1>5. \A k \in 1 .. n : Len(t) # 2 * k - 1 => Len(t) >= 2 * k /\ t[2 * k] = Stop
  <2> SUFFICES ASSUME NEW k \in 1 .. n, Len(t) # 2 * k - 1 PROVE Len(t) >= 2 * k /\ t[2 * k] = Stop
    OBVIOUS
  <2>1. k \in 1 .. 3
    BY <1>1, <1>2
  <2> QED
    BY <2>1, <1>1
<1>6. [k \in Octets |-> IF k <= n THEN Value(t, 2 * k - 1) ELSE 255] = m
  <2> DEFINE f == [k \in Octets |-> IF k <= n THEN Value(t, 2 * k - 1) ELSE 255]
  <2>1. ASSUME NEW k \in Octets PROVE f[k] = m[k]
    <3>1. k <= n
      BY <1>2 DEF Octets
    <3>2. f[k] = t[2 * k - 1] % Wrap
      BY <3>1 DEF Value
    <3>3. m[k] \in Byte
      OBVIOUS
    <3> QED
      BY <3>2, <3>3, <1>1, Whole
  <2>2. f = [k \in Octets |-> f[k]] /\ m = [k \in Octets |-> m[k]]
    OBVIOUS
  <2> HIDE DEF f
  <2>3. f = m
    BY <2>1, <2>2
  <2> QED
    BY <2>3 DEF f
<1> QED
  BY <1>3, <1>4, <1>5, <1>6, Zenon DEF t

\* r is what the text of address a with prefix n stands for.
Stands(a, n, r) ==
  /\ r.ok /\ r.addr = a
  /\ UNION {{8 * (k - 1) + b : b \in Ones(r.mask[k])} : k \in Octets} = 1 .. n
  /\ Aton(Ntoa(a)) = [ok |-> TRUE, addr |-> a, mask |-> Prefix(32)]
  /\ Aton(Ntoa(a) \o <<Slash>> \o Ntoa(Prefix(n))) = r

LEMMA AddressesRead ==
  ASSUME NEW a \in [Octets -> Byte], NEW n \in 0 .. 32
  PROVE  Stands(a, n, Aton(Ntoa(a) \o <<Slash, n>>))
<1>1. Prefix(n) \in [Octets -> Byte] /\ Prefix(32) \in [Octets -> Byte]
  <2>1. 32 \in 0 .. 32
    OBVIOUS
  <2> QED
    BY <2>1, PrefixIs
<1>2. Prefix(n) # << >> /\ Prefix(32) # << >>
  BY <1>1, SomeMask
<1>3. Aton(Ntoa(a) \o <<Slash, n>>) = [ok |-> TRUE, addr |-> a, mask |-> Prefix(n)]
  <2> DEFINE left == <<Slash, n>>
  <2>1. left \in Seq(Int) /\ left # << >> /\ left[1] = Slash /\ Len(left) = 2 /\ left[2] = n
    BY DEF Slash
  <2>2. Slash # Stop
    BY DEF Slash, Stop
  <2>3. Tail(left) = <<n>> /\ ~Contains(Tail(left), Stop)
    BY DEF Contains, Stop
  <2>4. n % Wrap = n
    BY ValueAssumption
  <2>5. Numbered(left, 2, 32) /\ Value(left, 2) = n
    BY <2>1, <2>4 DEF Numbered, Value
  <2> HIDE DEF left
  <2>6. Aton(Ntoa(a) \o left) = Behind4(a, left)
    BY <2>1, <2>2, AtonIs
  <2> QED
    BY <2>1, <2>2, <2>3, <2>5, <2>6, <1>2, Zenon DEF Behind4, left
<1>4. Aton(Ntoa(a)) = [ok |-> TRUE, addr |-> a, mask |-> Prefix(32)]
  <2>1. << >> \in Seq(Int)
    OBVIOUS
  <2>2. Ntoa(a) \o << >> = Ntoa(a)
    BY NtoaIs, ConcatEmptySeq
  <2>3. Aton(Ntoa(a) \o << >>) = Behind4(a, << >>)
    BY <2>1, AtonIs
  <2> QED
    BY <2>2, <2>3, <1>2, Zenon DEF Behind4
<1>5. Aton(Ntoa(a) \o <<Slash>> \o Ntoa(Prefix(n))) = [ok |-> TRUE, addr |-> a, mask |-> Prefix(n)]
  <2> DEFINE m == Ntoa(Prefix(n))
             left == <<Slash>> \o m
  <2>1. m \in Seq(Int) /\ Len(m) = 7 /\ m[2] = Stop /\ DottedMask(m) = Prefix(n)
    <3>1. m \in Seq(Int) /\ Len(m) = 7 /\ (\A k \in 1 .. 3 : m[2 * k] = Stop)
      BY <1>1, NtoaIs
    <3>2. m[2 * 1] = Stop /\ 2 * 1 = 2
      BY <3>1
    <3> QED
      BY <1>1, <3>1, <3>2, DottedIs
  <2> HIDE DEF m
  <2>2. <<Slash>> \in Seq(Int) /\ Len(<<Slash>>) = 1 /\ <<Slash>>[1] = Slash
    BY DEF Slash
  <2>3. /\ left \in Seq(Int) /\ Len(left) = 8
        /\ \A i \in 1 .. 8 : left[i] = IF i <= 1 THEN <<Slash>>[i] ELSE m[i - 1]
    <3>1. /\ left \in Seq(Int) /\ Len(left) = Len(<<Slash>>) + Len(m)
          /\ \A i \in 1 .. Len(<<Slash>>) + Len(m) : left[i] = IF i <= Len(<<Slash>>) THEN <<Slash>>[i] ELSE m[i - Len(<<Slash>>)]
      BY <2>1, <2>2, ConcatProperties, Zenon
    <3> HIDE DEF left
    <3> QED
      BY <3>1, <2>1, <2>2
  <2>4. left[1] = Slash /\ left # << >>
    BY <2>2, <2>3, EmptySeq
  <2>5. Tail(left) = m
    <3>1. Tail(left) \in Seq(Int) /\ Len(Tail(left)) = 7 /\ \A i \in 1 .. Len(Tail(left)) : Tail(left)[i] = left[i + 1]
      BY <2>3, <2>4, HeadTailProperties
    <3>2. \A i \in 1 .. 7 : Tail(left)[i] = m[i]
      <4> TAKE i \in 1 .. 7
      <4>1. i + 1 \in 1 .. 8 /\ ~(i + 1 <= 1) /\ (i + 1) - 1 = i
        OBVIOUS
      <4> HIDE DEF left
      <4> QED
        BY <4>1, <3>1, <2>3
    <3> QED
      BY <3>1, <3>2, <2>1, SeqEqual
  <2>6. Slash # Stop
    BY DEF Slash, Stop
  <2> HIDE DEF left
  <2>7. Aton(Ntoa(a) \o left) = Behind4(a, left)
    BY <2>3, <2>4, <2>6, AtonIs
  <2>8. Contains(m, Stop)
    BY <2>1 DEF Contains
  <2>9. Aton(Ntoa(a) \o left) = [ok |-> TRUE, addr |-> a, mask |-> Prefix(n)]
    BY <2>1, <2>4, <2>5, <2>7, <2>8, <1>2, Zenon DEF Behind4
  <2>10. Ntoa(a) \o <<Slash>> \o m = Ntoa(a) \o left
    <3>1. Ntoa(a) \in Seq(Int)
      BY NtoaIs
    <3> QED
      BY <3>1, <2>1, <2>2, ConcatAssociative DEF left
  <2> QED
    BY <2>9, <2>10, Zenon DEF m
<1>6. UNION {{8 * (k - 1) + b : b \in Ones(Prefix(n)[k])} : k \in Octets} = 1 .. n
  BY MaskOnes
<1> DEFINE r == Aton(Ntoa(a) \o <<Slash, n>>)
<1>7. r.ok /\ r.addr = a /\ r.mask = Prefix(n)
  BY <1>3
<1>8. Aton(Ntoa(a) \o <<Slash>> \o Ntoa(Prefix(n))) = r
  BY <1>3, <1>5
<1> QED
  BY <1>4, <1>6, <1>7, <1>8 DEF Stands

THEOREM ValuesAreKept == SampleSpec => []ValuesKept
<1>1. SampleInit => ValuesKept
  <2> SUFFICES ASSUME SampleInit PROVE AddressRead /\ TimeKept
    BY DEF ValuesKept
  <2>1. sample.what = "address" => sample \in [what : {"address"}, addr : Quads, prefix : 0 .. 32]
    BY DEF SampleInit
  <2>2. sample.what = "times" => sample \in [what : {"times"}, a : Times, b : Times]
    BY DEF SampleInit
  <2>3. AddressRead
    <3> SUFFICES ASSUME sample.what = "address" PROVE AddressRead
      BY DEF AddressRead
    <3>1. sample.addr \in [Octets -> Byte] /\ sample.prefix \in 0 .. 32
      BY <2>1, SampleAssumption
    <3>2. Stands(sample.addr, sample.prefix, Aton(Ntoa(sample.addr) \o <<Slash, sample.prefix>>))
      BY <3>1, AddressesRead
    <3> QED
      BY <3>2, Zenon DEF AddressRead, Stands
  <2>4. TimeKept
    <3> SUFFICES ASSUME sample.what = "times" PROVE TimeKept
      BY DEF TimeKept
    <3>1. sample.a \in 0 .. Wrap - 1 /\ sample.b \in 0 .. Wrap - 1
      BY <2>2, SampleAssumption
    <3> QED
      BY <3>1, TimesKept, Zenon DEF TimeKept
  <2> QED
    BY <2>3, <2>4
<1>2. ValuesKept /\ [FALSE]_sample => ValuesKept'
  BY DEF ValuesKept, AddressRead, TimeKept
<1> QED
  BY <1>1, <1>2, PTL DEF SampleSpec

----------------------------------------------------------------------------
(* Recursion along a measure.                                              *)

\* What passes from all smaller elements to an element holds of all.
LEMMA Descent ==
  ASSUME NEW S, NEW m \in [S -> Nat], NEW T,
         \A x \in S : (\A y \in S : m[y] < m[x] => y \in T) => x \in T
  PROVE  S \subseteq T
<1> SUFFICES ASSUME NEW w \in S, w \notin T PROVE FALSE
  OBVIOUS
<1> DEFINE B == {m[x] : x \in {y \in S : y \notin T}}
<1>1. B \subseteq Nat /\ B # {}
  OBVIOUS
<1>2. Min(B) \in B /\ \A k \in B : Min(B) <= k
  BY <1>1, Least
<1>3. PICK x \in S : x \notin T /\ Min(B) = m[x]
  BY <1>2
<1>4. ASSUME NEW y \in S, m[y] < m[x] PROVE y \in T
  <2> SUFFICES ASSUME y \notin T PROVE FALSE
    OBVIOUS
  <2>1. m[y] \in B
    OBVIOUS
  <2>2. m[x] <= m[y] /\ m[x] \in Nat /\ m[y] \in Nat
    BY <2>1, <1>2, <1>3
  <2> QED
    BY <2>2, <1>4
<1> QED
  BY <1>3, <1>4

\* h gives the value of a function at x from its values at smaller elements.
Local(S, V, m, h) ==
  \A x \in S : \A f, g \in [S -> V] : (\A y \in S : m[y] < m[x] => f[y] = g[y]) => h[x][f] = h[x][g]

Solves(f, S, V, h) == f \in [S -> V] /\ \A x \in S : f[x] = h[x][f]

\* The function that h describes exists.
LEMMA Solution ==
  ASSUME NEW S, NEW V, NEW v \in V, NEW M \in Nat, NEW m \in [S -> 0 .. M],
         NEW h \in [S -> [[S -> V] -> V]], Local(S, V, m, h)
  PROVE  \E f : Solves(f, S, V, h)
<1> DEFINE Good(n, f) == \A x \in S : m[x] < n => f[x] = h[x][f]
           T == {n \in 0 .. M + 1 : \E f \in [S -> V] : Good(n, f)}
<1>0. \A x \in S : m[x] \in 0 .. M
  OBVIOUS
<1>1. 0 \in T
  <2> DEFINE f == [x \in S |-> v]
  <2>1. f \in [S -> V]
    OBVIOUS
  <2>2. Good(0, f)
    BY <1>0
  <2> HIDE DEF f
  <2>3. 0 \in 0 .. M + 1
    OBVIOUS
  <2> QED
    BY <2>1, <2>2, <2>3
<1>2. ASSUME NEW k \in 1 .. M + 1, k - 1 \in T PROVE k \in T
  <2>1. PICK f \in [S -> V] : Good(k - 1, f)
    BY <1>2
  <2> DEFINE g == [x \in S |-> IF m[x] < k - 1 THEN f[x] ELSE h[x][f]]
  <2>2. \A x \in S : h[x][f] \in V
    OBVIOUS
  <2>3. g \in [S -> V]
    BY <2>2
  <2>4. \A x \in S : /\ m[x] < k - 1 => g[x] = f[x]
                     /\ ~(m[x] < k - 1) => g[x] = h[x][f]
    OBVIOUS
  <2> HIDE DEF g
  <2>5. ASSUME NEW x \in S, m[x] < k PROVE g[x] = h[x][g]
    <3>1. \A y \in S : m[y] < m[x] => f[y] = g[y]
      <4> SUFFICES ASSUME NEW y \in S, m[y] < m[x] PROVE f[y] = g[y]
        OBVIOUS
      <4>1. m[y] < k - 1
        BY <2>5, <1>0
      <4> QED
        BY <4>1, <2>4
    <3>2. h[x][f] = h[x][g]
      BY <3>1, <2>3, Zenon DEF Local
    <3>3. g[x] = h[x][f]
      <4>1. CASE m[x] < k - 1
        BY <4>1, <2>1, <2>4
      <4>2. CASE ~(m[x] < k - 1)
        BY <4>2, <2>4
      <4> QED
        BY <4>1, <4>2
    <3> QED
      BY <3>2, <3>3
  <2>6. Good(k, g)
    BY <2>5
  <2> HIDE DEF Good
  <2>7. k \in 0 .. M + 1
    OBVIOUS
  <2> QED
    BY <2>3, <2>6, <2>7
<1> HIDE DEF T, Good
<1>3. M + 1 \in T
  <2>1. 0 .. M + 1 \subseteq T
    <3>1. M + 1 \in Nat
      OBVIOUS
    <3> QED
      BY <1>1, <1>2, <3>1, Induction
  <2> QED
    BY <2>1
<1>4. PICK f \in [S -> V] : Good(M + 1, f)
  BY <1>3 DEF T
<1>5. \A x \in S : f[x] = h[x][f]
  BY <1>4, <1>0 DEF Good
<1> QED
  BY <1>5 DEF Solves

----------------------------------------------------------------------------
(* What skip_name() finds.                                                 *)

Past(p) ==
  LET past[k \in 1 .. Len(p) + 1] ==
        IF k = Len(p) + 1 THEN 0
        ELSE IF p[k] = 0 THEN k + 1
        ELSE IF p[k] \in 1 .. 63 THEN past[Min({k + p[k] + 1, Len(p) + 1})]
        ELSE IF k + 1 < Len(p) + 1 THEN k + 2 ELSE 0
  IN  past

LEMMA SkipIs == \A p, i : SkipName(p, i) = IF i = 0 THEN 0 ELSE Past(p)[i]
  BY Zenon DEF SkipName, Past

LEMMA Nearer ==
  ASSUME NEW k \in Nat, NEW l \in Nat, k <= l, NEW n \in 1 .. 63
  PROVE  /\ Min({k + n + 1, l + 1}) \in k + 1 .. l + 1
         /\ k + n + 1 <= l + 1 => Min({k + n + 1, l + 1}) = k + n + 1
         /\ k + n + 1 >= l + 1 => Min({k + n + 1, l + 1}) = l + 1
<1>1. k + n + 1 \in Int /\ l + 1 \in Int
  OBVIOUS
<1>2. Min({k + n + 1, l + 1}) = IF k + n + 1 <= l + 1 THEN k + n + 1 ELSE l + 1
  BY <1>1, MinOfTwo
<1> QED
  BY <1>2

\* The next label, or the end.
Onward(p, k) == Min({k + p[k] + 1, Len(p) + 1})

LEMMA OnwardIs ==
  ASSUME NEW p \in Seq(Byte), NEW k \in 1 .. Len(p), p[k] \in 1 .. 63
  PROVE  /\ Onward(p, k) \in k + 1 .. Len(p) + 1
         /\ k + p[k] + 1 <= Len(p) + 1 => Onward(p, k) = k + p[k] + 1
         /\ k + p[k] + 1 >= Len(p) + 1 => Onward(p, k) = Len(p) + 1
<1>1. Len(p) \in Nat
  BY LenProperties
<1>2. k \in Nat /\ k <= Len(p)
  BY <1>1
<1>3. \A n \in 1 .. 63 :
        /\ Min({k + n + 1, Len(p) + 1}) \in k + 1 .. Len(p) + 1
        /\ k + n + 1 <= Len(p) + 1 => Min({k + n + 1, Len(p) + 1}) = k + n + 1
        /\ k + n + 1 >= Len(p) + 1 => Min({k + n + 1, Len(p) + 1}) = Len(p) + 1
  BY <1>1, <1>2, Nearer
<1> QED
  BY <1>3, Zenon DEF Onward

\* Step k of the walk.
PastStep(p, f, k) ==
  IF k = Len(p) + 1 THEN 0
  ELSE IF p[k] = 0 THEN k + 1
  ELSE IF p[k] \in 1 .. 63 THEN f[Onward(p, k)]
  ELSE IF k + 1 < Len(p) + 1 THEN k + 2 ELSE 0

LEMMA PastStepIs ==
  ASSUME NEW p, NEW f, NEW k
  PROVE  /\ k = Len(p) + 1 => PastStep(p, f, k) = 0
         /\ k # Len(p) + 1 /\ p[k] = 0 => PastStep(p, f, k) = k + 1
         /\ k # Len(p) + 1 /\ p[k] \in 1 .. 63 => PastStep(p, f, k) = f[Onward(p, k)]
         /\ k # Len(p) + 1 /\ p[k] # 0 /\ p[k] \notin 1 .. 63 =>
              /\ k + 1 < Len(p) + 1 => PastStep(p, f, k) = k + 2
              /\ ~(k + 1 < Len(p) + 1) => PastStep(p, f, k) = 0
<1>1. 0 \notin 1 .. 63
  OBVIOUS
<1> QED
  BY <1>1 DEF PastStep

LEMMA PastIs ==
  ASSUME NEW p \in Seq(Byte)
  PROVE  \A k \in 1 .. Len(p) + 1 : Past(p)[k] \in 0 .. Len(p) + 1 /\ Past(p)[k] = PastStep(p, Past(p), k)
<1> DEFINE S == 1 .. Len(p) + 1
           V == 0 .. Len(p) + 1
           m == [k \in S |-> Len(p) + 1 - k]
           h == [k \in S |-> [f \in [S -> V] |-> PastStep(p, f, k)]]
<1>0. Len(p) \in Nat
  BY LenProperties
<1>1. m \in [S -> 0 .. Len(p)] /\ \A k \in S : m[k] = Len(p) + 1 - k
  BY <1>0
<1>2. ASSUME NEW k \in S, NEW f, \A j \in S : j > k => f[j] \in V
      PROVE  PastStep(p, f, k) \in V
  <2>0. k \in Nat /\ k <= Len(p) + 1
    BY <1>0
  <2>1. CASE k = Len(p) + 1
    BY <2>1, <1>0, PastStepIs
  <2>2. CASE k # Len(p) + 1 /\ p[k] \in 1 .. 63
    <3>1. Onward(p, k) \in k + 1 .. Len(p) + 1
      BY <2>2, OnwardIs
    <3>2. f[Onward(p, k)] \in V
      BY <3>1, <1>2, <1>0
    <3> QED
      BY <2>2, <3>2, PastStepIs
  <2>3. CASE k # Len(p) + 1 /\ p[k] \notin 1 .. 63
    <3>1. PastStep(p, f, k) = k + 1 \/ PastStep(p, f, k) = IF k + 1 < Len(p) + 1 THEN k + 2 ELSE 0
      BY <2>3, PastStepIs
    <3>a. k # Len(p) + 1
      BY <2>3
    <3>2. k \in Nat /\ k <= Len(p)
      BY <2>0, <3>a, <1>0
    <3> DEFINE e == PastStep(p, f, k)
    <3>3. e = k + 1 \/ e = IF k + 1 < Len(p) + 1 THEN k + 2 ELSE 0
      BY <3>1
    <3> HIDE DEF e
    <3>4. e \in V
      BY <3>2, <3>3, <1>0
    <3> QED
      BY <3>4 DEF e
  <2> QED
    BY <2>1, <2>2, <2>3, Zenon
<1>3. h \in [S -> [[S -> V] -> V]]
  <2>1. \A k \in S : \A f \in [S -> V] : PastStep(p, f, k) \in V
    BY <1>2
  <2> QED
    BY <2>1
<1>4. ASSUME NEW k \in S, NEW f \in [S -> V], NEW g \in [S -> V], \A j \in S : m[j] < m[k] => f[j] = g[j]
      PROVE  h[k][f] = h[k][g]
  <2>1. h[k][f] = PastStep(p, f, k) /\ h[k][g] = PastStep(p, g, k)
    OBVIOUS
  <2>2. CASE k # Len(p) + 1 /\ p[k] \in 1 .. 63
    <3>1. Onward(p, k) \in k + 1 .. Len(p) + 1
      BY <2>2, OnwardIs
    <3>2. f[Onward(p, k)] = g[Onward(p, k)]
      BY <3>1, <1>4, <1>1, <1>0
    <3> QED
      BY <2>2, <2>1, <3>2, PastStepIs
  <2>3. CASE k = Len(p) + 1 \/ p[k] \notin 1 .. 63
    BY <2>3, <2>1 DEF PastStep
  <2> QED
    BY <2>2, <2>3
<1>5. \E f : Solves(f, S, V, h)
  <2>1. 0 \in V
    BY <1>0
  <2> HIDE DEF S, V, m, h
  <2>2. Local(S, V, m, h)
    BY <1>4 DEF Local
  <2> QED
    BY <2>1, <2>2, <1>0, <1>1, <1>3, Solution
<1>6. PICK f \in [S -> V] : \A k \in S : f[k] = h[k][f]
  BY <1>5 DEF Solves
<1>7. f = [k \in S |-> PastStep(p, f, k)]
  BY <1>6
<1>8. Past(p) = CHOOSE past : past = [k \in S |-> PastStep(p, past, k)]
  BY Zenon DEF Past, PastStep, Onward
<1>9. Past(p) = [k \in S |-> PastStep(p, Past(p), k)]
  <2> HIDE DEF S
  <2> QED
    BY <1>7, <1>8, Zenon
<1>10. \A k \in S : Past(p)[k] = PastStep(p, Past(p), k)
  BY <1>9, Zenon
<1> DEFINE T == {k \in S : Past(p)[k] \in V}
<1>11. S \subseteq T
  <2>1. m \in [S -> Nat]
    BY <1>1
  <2>2. ASSUME NEW k \in S, \A j \in S : m[j] < m[k] => j \in T PROVE k \in T
    <3>1. \A j \in S : j > k => Past(p)[j] \in V
      BY <2>2, <1>1, <1>0
    <3>2. PastStep(p, Past(p), k) \in V
      BY <3>1, <1>2
    <3> QED
      BY <3>2, <1>10
  <2> HIDE DEF S, m, T
  <2> QED
    BY <2>1, <2>2, Descent
<1> QED
  BY <1>10, <1>11

\* What is skipped of e is skipped wherever e stands in a packet.
LEMMA SkipInside ==
  ASSUME NEW p \in Seq(Byte), NEW e \in Seq(Byte), NEW o \in Nat,
         o + Len(e) <= Len(p), \A j \in 1 .. Len(e) : p[o + j] = e[j]
  PROVE  \A k \in 1 .. Len(e) + 1 : Past(e)[k] # 0 => Past(p)[o + k] = o + Past(e)[k]
<1> DEFINE S == 1 .. Len(e) + 1
           m == [k \in S |-> Len(e) + 1 - k]
           T == {k \in S : Past(e)[k] # 0 => Past(p)[o + k] = o + Past(e)[k]}
<1>0. Len(p) \in Nat /\ Len(e) \in Nat
  BY LenProperties
<1>1. m \in [S -> Nat] /\ \A k \in S : m[k] = Len(e) + 1 - k
  BY <1>0
<1>2. ASSUME NEW k \in S, \A j \in S : m[j] < m[k] => j \in T PROVE k \in T
  <2> SUFFICES ASSUME Past(e)[k] # 0 PROVE Past(p)[o + k] = o + Past(e)[k]
    OBVIOUS
  <2>1. Past(e)[k] = PastStep(e, Past(e), k)
    BY PastIs
  <2>2. k # Len(e) + 1
    BY <2>1, PastStepIs
  <2>3. k \in Nat /\ k <= Len(e) /\ k >= 1
    BY <2>2, <1>0
  <2>4. o + k \in 1 .. Len(p) + 1 /\ o + k # Len(p) + 1 /\ o + k \in 1 .. Len(p)
    BY <2>3, <1>0
  <2>5. Past(p)[o + k] = PastStep(p, Past(p), o + k)
    BY <2>4, PastIs
  <2>6. k \in 1 .. Len(e) /\ p[o + k] = e[k]
    BY <2>3, <1>0
  <2>7. CASE e[k] = 0
    <3>1. Past(e)[k] = k + 1
      BY <2>1, <2>2, <2>7, PastStepIs
    <3>2. Past(p)[o + k] = o + k + 1
      BY <2>4, <2>5, <2>6, <2>7, PastStepIs
    <3> QED
      BY <3>1, <3>2, <2>3
  <2>8. CASE e[k] \in 1 .. 63
    <3> DEFINE n == Onward(e, k)
               q == Onward(p, o + k)
    <3>1. Past(e)[k] = Past(e)[n]
      BY <2>1, <2>2, <2>8, PastStepIs
    <3>2. /\ n \in k + 1 .. Len(e) + 1
          /\ k + e[k] + 1 <= Len(e) + 1 => n = k + e[k] + 1
          /\ k + e[k] + 1 >= Len(e) + 1 => n = Len(e) + 1
      BY <2>6, <2>8, OnwardIs
    <3>3. n # Len(e) + 1
      <4> SUFFICES ASSUME n = Len(e) + 1 PROVE FALSE
        OBVIOUS
      <4>1. n \in S
        BY <1>0
      <4>2. Past(e)[n] = PastStep(e, Past(e), n)
        BY <4>1, PastIs
      <4>3. Past(e)[n] = 0
        BY <4>2, PastStepIs
      <4> QED
        BY <4>3, <3>1
    <3>4. p[o + k] \in 1 .. 63
      BY <2>6, <2>8
    <3>5. o + k + p[o + k] + 1 <= Len(p) + 1 => q = o + k + p[o + k] + 1
      BY <3>4, <2>4, OnwardIs
    <3>6. Past(p)[o + k] = Past(p)[q]
      BY <2>4, <2>5, <3>4, PastStepIs
    <3> HIDE DEF n, q
    <3> DEFINE c == e[k]
    <3>7. c \in 1 .. 63 /\ p[o + k] = c
      BY <2>6, <2>8
    <3>8. /\ n \in k + 1 .. Len(e) + 1
          /\ k + c + 1 <= Len(e) + 1 => n = k + c + 1
          /\ k + c + 1 >= Len(e) + 1 => n = Len(e) + 1
          /\ o + k + c + 1 <= Len(p) + 1 => q = o + k + c + 1
      BY <3>2, <3>5, <3>7
    <3> HIDE DEF c
    <3>9. n = k + c + 1 /\ q = o + n /\ n \in S /\ n > k
      <4>0. c \in Nat /\ c >= 1
        BY <3>7
      <4>1. k + c + 1 < Len(e) + 1
        <5> SUFFICES ASSUME ~(k + c + 1 < Len(e) + 1) PROVE FALSE
          OBVIOUS
        <5>1. k + c + 1 >= Len(e) + 1
          BY <4>0, <2>3, <1>0
        <5> QED
          BY <5>1, <3>3, <3>8
      <4>2. n = k + c + 1
        BY <4>1, <3>8, <4>0, <2>3, <1>0
      <4>3. o + k + c + 1 <= Len(p) + 1
        BY <4>0, <4>1, <2>3, <1>0
      <4>4. q = o + k + c + 1
        BY <4>3, <3>8
      <4> QED
        BY <4>0, <4>1, <4>2, <4>4, <2>3, <1>0
    <3>10. n \in T
      <4>1. m[n] < m[k]
        BY <3>9, <1>1, <1>0
      <4> HIDE DEF m, T
      <4> QED
        BY <4>1, <3>9, <1>2
    <3>11. Past(e)[n] # 0 => Past(p)[o + n] = o + Past(e)[n]
      BY <3>10
    <3> QED
      BY <3>1, <3>6, <3>9, <3>11, Zenon
  <2>9. CASE e[k] # 0 /\ e[k] \notin 1 .. 63
    <3>1. /\ k + 1 < Len(e) + 1 => Past(e)[k] = k + 2
          /\ ~(k + 1 < Len(e) + 1) => Past(e)[k] = 0
      BY <2>1, <2>2, <2>9, Zenon DEF PastStep
    <3>a. p[o + k] # 0 /\ p[o + k] \notin 1 .. 63
      BY <2>6, <2>9, Zenon
    <3>2. o + k + 1 < Len(p) + 1 => Past(p)[o + k] = o + k + 2
      BY <2>4, <2>5, <3>a, Zenon DEF PastStep
    <3>3. k + 1 < Len(e) + 1 /\ Past(e)[k] = k + 2
      BY <3>1, <2>3, <1>0
    <3>4. o + k + 1 < Len(p) + 1
      BY <3>3, <2>3, <1>0
    <3> QED
      BY <3>2, <3>3, <3>4, <2>3
  <2> QED
    BY <2>7, <2>8, <2>9
<1> HIDE DEF S, m, T
<1>3. S \subseteq T
  BY <1>1, <1>2, Descent
<1> QED
  BY <1>3 DEF S, T

\* A name that can be skipped as a whole can be skipped anywhere.
LEMMA SkipsWhole ==
  ASSUME NEW p \in Seq(Byte), NEW e \in Seq(Byte), NEW o \in Nat, SkipName(e, 1) = Len(e) + 1,
         o + Len(e) <= Len(p), \A j \in 1 .. Len(e) : p[o + j] = e[j]
  PROVE  SkipName(p, o + 1) = o + Len(e) + 1
<1>1. Len(e) \in Nat
  BY LenProperties
<1>2. SkipName(e, 1) = Past(e)[1] /\ SkipName(p, o + 1) = Past(p)[o + 1]
  BY SkipIs
<1>3. Past(e)[1] # 0 /\ 1 \in 1 .. Len(e) + 1
  BY <1>1, <1>2
<1>4. Past(p)[o + 1] = o + Past(e)[1]
  BY <1>3, SkipInside
<1>5. Past(p)[o + 1] = o + (Len(e) + 1)
  BY <1>2, <1>4, Zenon
<1> QED
  BY <1>1, <1>2, <1>5

----------------------------------------------------------------------------
(* The octets of a name.                                                   *)

LEMMA LabelEndIs ==
  ASSUME NEW S, NEW text \in Seq(S), NEW i \in 1 .. Len(text)
  PROVE  /\ LabelEnd(text, i) \in i .. Len(text) + 1
         /\ LabelEnd(text, i) # Len(text) + 1 => text[LabelEnd(text, i)] = Dot
         /\ \A j \in i .. LabelEnd(text, i) - 1 : text[j] # Dot
<1> DEFINE B == {j \in i .. Len(text) : text[j] = Dot} \cup {Len(text) + 1}
           e == LabelEnd(text, i)
<1>0. Len(text) \in Nat
  BY LenProperties
<1>1. B \subseteq Nat /\ B # {}
  BY <1>0
<1>2. e = Min(B)
  BY Zenon DEF LabelEnd
<1>3. \A j : j \in B <=> (j \in i .. Len(text) /\ text[j] = Dot) \/ j = Len(text) + 1
  OBVIOUS
<1> HIDE DEF B, e
<1>4. e \in B /\ \A j \in B : e <= j
  BY <1>1, <1>2, Least
<1>5. e \in i .. Len(text) + 1
  BY <1>0, <1>3, <1>4
<1>6. e # Len(text) + 1 => text[e] = Dot
  BY <1>3, <1>4
<1>7. ASSUME NEW j \in i .. e - 1 PROVE text[j] # Dot
  <2> SUFFICES ASSUME text[j] = Dot PROVE FALSE
    OBVIOUS
  <2>0. j \in Int /\ e \in Int /\ j < e /\ e <= Len(text) + 1 /\ i <= j
    BY <1>5, <1>0
  <2>1. j \in i .. Len(text)
    BY <2>0, <1>0
  <2>2. j \in B
    BY <2>1, <1>3
  <2> QED
    BY <2>0, <2>2, <1>4
<1> QED
  BY <1>5, <1>6, <1>7 DEF e

\* A name that can be sent.
Fit(text) == IsName(text) /\ (text = << >> \/ Proper(text))

\* Where a label begins, and the end of the name, in the text and its octets.
Start(text, i) == \/ i = Extent(text)
                  \/ i \in 1 .. Extent(text) - 2 /\ (i = 1 \/ text[i - 1] = Dot)

LEMMA FitIs ==
  ASSUME NEW text, Fit(text)
  PROVE  /\ text \in Seq(1 .. 127) /\ Len(text) \in Nat /\ Extent(text) \in Nat
         /\ text = << >> => Extent(text) = 1 /\ Len(text) = 0
         /\ text # << >> =>
              /\ Len(text) >= 1 /\ Extent(text) >= 3
              /\ \/ Len(text) = Extent(text) - 2
                 \/ Len(text) = Extent(text) - 1 /\ text[Len(text)] = Dot
              /\ text[Extent(text) - 2] # Dot /\ text[1] # Dot
              /\ \A n \in 2 .. Len(text) : text[n] = Dot => text[n - 1] # Dot
         /\ Extent(text) <= 257
<1>1. text \in Seq(1 .. 127) /\ Len(text) < 256
  BY DEF Fit, IsName
<1>2. Len(text) \in Nat
  BY <1>1, LenProperties
<1>3. CASE text = << >>
  BY <1>1, <1>2, <1>3, EmptySeq DEF Extent
<1>4. CASE text # << >>
  <2>1. Len(text) >= 1
    BY <1>1, <1>2, <1>4, EmptySeq
  <2>2. text[1] # Dot /\ \A n \in 2 .. Len(text) : text[n] = Dot => text[n - 1] # Dot
    BY <1>4 DEF Fit, Proper
  <2>3. Last(text) = text[Len(text)]
    BY DEF Last
  <2>4. CASE text[Len(text)] = Dot
    <3>1. Bare(text) = SubSeq(text, 1, Len(text) - 1)
      BY <2>3, <2>4, <1>4 DEF Bare, Front
    <3>2. Len(text) - 1 \in 0 .. Len(text)
      BY <2>1, <1>2
    <3>a. Len(SubSeq(text, 1, Len(text) - 1)) = Len(text) - 1
      BY <3>2, <1>1, Parts
    <3>3. Len(Bare(text)) = Len(text) - 1
      BY <3>1, <3>a
    <3>4. Extent(text) = Len(text) + 1
      BY <3>3, <1>4, <1>2 DEF Extent
    <3>5. Len(text) # 1
      BY <2>2, <2>4
    <3>b. \A n \in Nat : n >= 1 /\ n # 1 => n \in 2 .. n
      OBVIOUS
    <3>6. Len(text) \in 2 .. Len(text)
      BY <3>5, <2>1, <1>2, <3>b, Zenon
    <3>7. text[Len(text) - 1] # Dot /\ Extent(text) - 2 = Len(text) - 1
      BY <3>6, <2>2, <2>4, <3>4, <1>2
    <3>8. Len(text) = Extent(text) - 1 /\ Extent(text) \in Nat /\ Extent(text) >= 3 /\ Extent(text) <= 257
      BY <3>4, <3>6, <1>1, <1>2
    <3>9. text[Extent(text) - 2] # Dot
      BY <3>7, Zenon
    <3> QED
      BY <3>8, <3>9, <2>1, <2>2, <2>4, <1>1, <1>2, <1>4, Zenon
  <2>5. CASE text[Len(text)] # Dot
    <3>1. Bare(text) = text
      BY <2>3, <2>5, <1>4 DEF Bare
    <3>2. Extent(text) = Len(text) + 2
      BY <3>1, <1>4, <1>2 DEF Extent
    <3>3. Len(text) = Extent(text) - 2 /\ Extent(text) \in Nat /\ Extent(text) >= 3 /\ Extent(text) <= 257
      BY <3>2, <2>1, <1>1, <1>2
    <3>4. text[Extent(text) - 2] # Dot
      BY <3>3, <2>5, Zenon
    <3> QED
      BY <3>3, <3>4, <2>1, <2>2, <1>1, <1>2, <1>4, Zenon
  <2> QED
    BY <2>4, <2>5
<1> QED
  BY <1>3, <1>4

\* The label that begins at i.
LEMMA LabelIs ==
  ASSUME NEW text, Fit(text), NEW i, Start(text, i), i # Extent(text)
  PROVE  /\ i \in 1 .. Extent(text) - 2 /\ i \in 1 .. Len(text) /\ LabelEnd(text, i) \in i + 1 .. Extent(text) - 1
         /\ LabelEnd(text, i) - i \in 1 .. 63
         /\ \A j \in i .. LabelEnd(text, i) - 1 : text[j] # Dot /\ text[j] \in 1 .. 127
         /\ LabelEnd(text, i) <= Extent(text) - 2 => text[LabelEnd(text, i)] = Dot
         /\ Start(text, LabelEnd(text, i) + 1)
<1> DEFINE X == Extent(text)
           L == Len(text)
           e == LabelEnd(text, i)
<1>1. text \in Seq(1 .. 127) /\ L \in Nat /\ X \in Nat
  BY FitIs
<1>2. i \in 1 .. X - 2 /\ (i = 1 \/ text[i - 1] = Dot)
  BY DEF Start
<1>3. text # << >>
  <2> SUFFICES ASSUME text = << >> PROVE FALSE
    OBVIOUS
  <2>1. X = 1
    BY FitIs
  <2> QED
    BY <2>1, <1>2
<1>4. /\ L >= 1 /\ X >= 3 /\ (L = X - 2 \/ (L = X - 1 /\ text[L] = Dot)) /\ text[X - 2] # Dot /\ text[1] # Dot
      /\ \A n \in 2 .. L : text[n] = Dot => text[n - 1] # Dot
  BY <1>3, FitIs
<1>5. i \in 1 .. L
  BY <1>1, <1>2, <1>4
<1>6. e \in i .. L + 1 /\ (e # L + 1 => text[e] = Dot) /\ \A j \in i .. e - 1 : text[j] # Dot
  BY <1>1, <1>5, LabelEndIs
<1>7. \A j \in 1 .. L - 63 : \E d \in j .. j + 63 : text[d] = Dot
  BY DEF Fit, IsName
<1> HIDE DEF X, L, e
<1>8. text[i] # Dot
  <2>1. CASE i = 1
    BY <2>1, <1>4
  <2>2. CASE i # 1
    <3>1. i \in 2 .. L /\ text[i - 1] = Dot
      BY <2>2, <1>2, <1>5, <1>1
    <3> QED
      BY <3>1, <1>4
  <2> QED
    BY <2>1, <2>2
<1>a. e \in Nat /\ i \in Nat /\ i >= 1 /\ i <= e /\ e <= L + 1
  BY <1>1, <1>5, <1>6
<1>9. e # i
  <2> SUFFICES ASSUME e = i PROVE FALSE
    OBVIOUS
  <2>1. e # L + 1
    BY <1>5, <1>1
  <2> QED
    BY <2>1, <1>6, <1>8
<1>10. e <= X - 1
  <2>1. CASE L = X - 2
    BY <2>1, <1>a, <1>1
  <2>2. CASE L = X - 1 /\ text[L] = Dot
    <3> SUFFICES ASSUME e = L + 1 PROVE FALSE
      BY <2>2, <1>a, <1>1
    <3>1. L \in i .. e - 1
      BY <1>5, <1>1
    <3> QED
      BY <3>1, <1>6, <2>2
  <2> QED
    BY <2>1, <2>2, <1>4
<1>11. e <= X - 2 => text[e] = Dot
  <2> SUFFICES ASSUME e <= X - 2 PROVE text[e] = Dot
    OBVIOUS
  <2>1. e # L + 1
    BY <1>4, <1>a, <1>1
  <2> QED
    BY <2>1, <1>6
<1>12. e - i <= 63
  <2>1. CASE i <= L - 63
    <3>1. PICK d \in i .. i + 63 : text[d] = Dot
      <4>1. i \in 1 .. L - 63
        BY <2>1, <1>a, <1>1
      <4> QED
        BY <4>1, <1>7
    <3> SUFFICES ASSUME e > i + 63 PROVE FALSE
      BY <1>a
    <3>2. d \in i .. e - 1
      BY <1>a
    <3> QED
      BY <3>1, <3>2, <1>6
  <2>2. CASE ~(i <= L - 63)
    BY <2>2, <1>a, <1>1
  <2> QED
    BY <2>1, <2>2
<1>13. Start(text, e + 1)
  <2>1. CASE e = X - 1
    <3>1. e + 1 = X
      BY <2>1, <1>1
    <3> QED
      BY <3>1 DEF Start, X
  <2>2. CASE e # X - 1
    <3>1. e <= X - 2
      BY <2>2, <1>10, <1>a, <1>1
    <3>2. text[e] = Dot
      BY <3>1, <1>11
    <3>3. e # X - 2
      BY <3>2, <1>4
    <3>4. e + 1 \in 1 .. X - 2 /\ (e + 1) - 1 = e
      BY <3>1, <3>3, <1>a, <1>1
    <3> QED
      BY <3>2, <3>4 DEF Start, X
  <2> QED
    BY <2>1, <2>2
<1>14. \A j \in i .. e - 1 : text[j] \in 1 .. 127
  <2> TAKE j \in i .. e - 1
  <2>1. j \in 1 .. L
    BY <1>a, <1>1
  <2> QED
    BY <2>1, <1>1, ElementOfSeq DEF L
<1>15. e \in i + 1 .. X - 1 /\ e - i \in 1 .. 63
  BY <1>9, <1>10, <1>12, <1>a, <1>1
<1> QED
  BY <1>2, <1>5, <1>6, <1>11, <1>13, <1>14, <1>15, Zenon DEF X, L, e

\* The octets of a name: each label behind its length, where the text has dots.
Named(text) ==
  [j \in 1 .. Extent(text) |->
     IF j = Extent(text) THEN 0
     ELSE IF j = 1 \/ text[j - 1] = Dot THEN LabelEnd(text, j) - j ELSE text[j - 1]]

LEMMA NamedIs ==
  ASSUME NEW text, Fit(text)
  PROVE  /\ Named(text) \in Seq(Byte) /\ Len(Named(text)) = Extent(text) /\ Named(text)[Extent(text)] = 0
         /\ \A j \in 1 .. Extent(text) - 1 : Named(text)[j] \in 1 .. 127
         /\ \A i : Start(text, i) /\ i # Extent(text) =>
              /\ Named(text)[i] = LabelEnd(text, i) - i
              /\ \A j \in i + 1 .. LabelEnd(text, i) : Named(text)[j] = text[j - 1]
<1> DEFINE X == Extent(text)
           L == Len(text)
           N == Named(text)
<1>1. text \in Seq(1 .. 127) /\ L \in Nat /\ X \in Nat /\ X >= 1
  BY FitIs
<1>2. N = [j \in 1 .. X |-> IF j = X THEN 0 ELSE IF j = 1 \/ text[j - 1] = Dot THEN LabelEnd(text, j) - j ELSE text[j - 1]]
  BY Zenon DEF Named
<1>3. N[X] = 0
  <2>1. X \in 1 .. X
    BY <1>1
  <2> HIDE DEF X, N
  <2> QED
    BY <2>1, <1>2
<1>4. ASSUME NEW i, Start(text, i), i # X
      PROVE  N[i] = LabelEnd(text, i) - i /\ i \in 1 .. X - 2 /\ LabelEnd(text, i) - i \in 1 .. 63
  <2>1. i \in 1 .. X - 2 /\ LabelEnd(text, i) - i \in 1 .. 63
    BY <1>4, LabelIs
  <2>2. i = 1 \/ text[i - 1] = Dot
    BY <1>4 DEF Start
  <2>3. i \in 1 .. X
    BY <2>1, <1>1
  <2>4. N[i] = LabelEnd(text, i) - i
    <3> HIDE DEF X, N
    <3> QED
      BY <2>2, <2>3, <1>2, <1>4, Zenon
  <2> QED
    BY <2>1, <2>4
<1>5. ASSUME NEW i, Start(text, i), i # X, NEW j \in i + 1 .. LabelEnd(text, i)
      PROVE  N[j] = text[j - 1] /\ text[j - 1] \in 1 .. 127
  <2>1. i \in 1 .. X - 2 /\ LabelEnd(text, i) \in i + 1 .. X - 1
    BY <1>5, LabelIs
  <2>2. \A q \in i .. LabelEnd(text, i) - 1 : text[q] # Dot /\ text[q] \in 1 .. 127
    BY <1>5, LabelIs, Zenon
  <2>3. j - 1 \in i .. LabelEnd(text, i) - 1 /\ j \in 1 .. X /\ j # X /\ j # 1
    BY <2>1, <1>1
  <2>4. text[j - 1] # Dot /\ text[j - 1] \in 1 .. 127
    BY <2>2, <2>3, Zenon
  <2>5. N[j] = text[j - 1]
    <3> HIDE DEF X, N
    <3> QED
      BY <2>3, <2>4, <1>2, Zenon
  <2> QED
    BY <2>4, <2>5
<1>6. ASSUME NEW j \in 1 .. X - 1 PROVE N[j] \in 1 .. 127
  <2>1. text # << >>
    <3> SUFFICES ASSUME text = << >> PROVE FALSE
      OBVIOUS
    <3>1. X = 1
      BY FitIs
    <3> QED
      BY <3>1, <1>1
  <2>2. X >= 3 /\ (L = X - 2 \/ L = X - 1) /\ text[X - 2] # Dot
    BY <2>1, FitIs
  <2>3. CASE j = 1 \/ text[j - 1] = Dot
    <3>1. j # X - 1
      <4> SUFFICES ASSUME j = X - 1 PROVE FALSE
        OBVIOUS
      <4>1. j # 1 /\ j - 1 = X - 2
        BY <2>2, <1>1
      <4> QED
        BY <4>1, <2>2, <2>3
    <3>2. j \in 1 .. X - 2 /\ j # X
      BY <3>1, <1>1
    <3>3. Start(text, j)
      BY <3>2, <2>3 DEF Start
    <3>4. N[j] = LabelEnd(text, j) - j /\ LabelEnd(text, j) - j \in 1 .. 63
      BY <3>2, <3>3, <1>4
    <3>5. \A z \in 1 .. 63 : z \in 1 .. 127
      OBVIOUS
    <3> QED
      BY <3>4, <3>5, Zenon
  <2>4. CASE ~(j = 1 \/ text[j - 1] = Dot)
    <3>1. j \in 1 .. X /\ j # X
      BY <1>1
    <3>2. N[j] = text[j - 1]
      <4> HIDE DEF X, N
      <4> QED
        BY <3>1, <2>4, <1>2, Zenon
    <3>3. j # 1
      BY <2>4
    <3>4. j - 1 \in 1 .. L
      BY <3>3, <2>2, <1>1
    <3>5. text[j - 1] \in 1 .. 127
      BY <3>4, <1>1, ElementOfSeq
    <3> QED
      BY <3>2, <3>5, Zenon
  <2> QED
    BY <2>3, <2>4
<1>7. N \in Seq(Byte) /\ Len(N) = X
  <2> DEFINE a(j) == IF j = X THEN 0 ELSE IF j = 1 \/ text[j - 1] = Dot THEN LabelEnd(text, j) - j ELSE text[j - 1]
  <2>1. \A j \in 1 .. X : N[j] \in Byte
    <3> TAKE j \in 1 .. X
    <3>1. CASE j = X
      BY <3>1, <1>3 DEF Byte
    <3>2. CASE j # X
      <4>1. j \in 1 .. X - 1
        BY <3>2, <1>1
      <4>2. N[j] \in 1 .. 127
        BY <4>1, <1>6
      <4>3. \A z \in 1 .. 127 : z \in Byte
        BY DEF Byte
      <4> QED
        BY <4>2, <4>3, Zenon
    <3> QED
      BY <3>1, <3>2
  <2>2. N \in [1 .. X -> Byte]
    <3> HIDE DEF N, X
    <3> QED
      BY <1>2, <2>1, Zenon
  <2> HIDE DEF N, X
  <2>3. N \in Seq(Byte)
    BY <2>2, <1>1, SeqDef
  <2>4. DOMAIN N = 1 .. X /\ DOMAIN N = 1 .. Len(N) /\ Len(N) \in Nat
    BY <2>2, <2>3, LenProperties
  <2>5. Len(N) = X
    BY <2>4, <1>1
  <2> QED
    BY <2>3, <2>5
<1> QED
  BY <1>3, <1>4, <1>5, <1>6, <1>7, Zenon DEF N, X

----------------------------------------------------------------------------
(* What put() writes.                                                      *)

From(text) ==
  LET from[i \in 1 .. Len(text) + 2] ==
        IF i > Len(text) THEN <<0>>
        ELSE LET e == LabelEnd(text, i) IN
             IF e = i THEN <<Bad>> ELSE <<(e - i) % 256>> \o SubSeq(text, i, e - 1) \o from[e + 1]
  IN  from

LEMMA PutIs ==
  \A text, room : PutName(text, room) = IF Last(From(text)[1]) = Bad \/ Len(From(text)[1]) > room THEN <<Bad>> ELSE From(text)[1]
  BY Zenon DEF PutName, From

\* What put() leaves: octets, or the mark of an error.
Written == 0 .. 256

\* Step i of the loop.
FromStep(text, f, i) ==
  IF i > Len(text) THEN <<0>>
  ELSE IF LabelEnd(text, i) = i THEN <<Bad>>
  ELSE <<(LabelEnd(text, i) - i) % 256>> \o SubSeq(text, i, LabelEnd(text, i) - 1) \o f[LabelEnd(text, i) + 1]

LEMMA FromStepIs ==
  ASSUME NEW text \in Seq(1 .. 127), NEW i \in 1 .. Len(text), NEW f,
         LabelEnd(text, i) # i, f[LabelEnd(text, i) + 1] \in Seq(Written)
  PROVE  /\ FromStep(text, f, i) \in Seq(Written)
         /\ Len(FromStep(text, f, i)) = LabelEnd(text, i) - i + 1 + Len(f[LabelEnd(text, i) + 1])
         /\ FromStep(text, f, i)[1] = (LabelEnd(text, i) - i) % 256
         /\ \A j \in 2 .. LabelEnd(text, i) - i + 1 : FromStep(text, f, i)[j] = text[i + j - 2]
         /\ \A j \in 1 .. Len(f[LabelEnd(text, i) + 1]) :
              FromStep(text, f, i)[LabelEnd(text, i) - i + 1 + j] = f[LabelEnd(text, i) + 1][j]
<1> DEFINE e == LabelEnd(text, i)
           a == <<(e - i) % 256>>
           b == SubSeq(text, i, e - 1)
           c == f[e + 1]
           L == Len(text)
           V == Seq(Written)
<1>1. L \in Nat
  BY LenProperties
<1>2. e \in i .. L + 1
  BY LabelEndIs
<1> HIDE DEF e, L
<1>3. e \in Nat /\ i \in Nat /\ i >= 1 /\ i < e /\ e <= L + 1 /\ i <= L
  BY <1>1, <1>2 DEF e, L
<1>4. a \in V /\ Len(a) = 1 /\ a[1] = (e - i) % 256
  <2>1. e - i \in Nat
    BY <1>3
  <2>2. \A n \in Nat : n % 256 \in Written
    BY DEF Written
  <2>3. (e - i) % 256 \in Written
    BY <2>1, <2>2
  <2> QED
    BY <2>3
<1>5. b \in V /\ Len(b) = e - i /\ \A j \in 1 .. e - i : b[j] = text[i + j - 1]
  <2>1. \A j \in i .. e - 1 : text[j] \in Written
    <3> TAKE j \in i .. e - 1
    <3>1. j \in 1 .. Len(text)
      BY <1>3 DEF L
    <3>2. text[j] \in 1 .. 127
      BY <3>1, ElementOfSeq
    <3>3. \A z \in 1 .. 127 : z \in Written
      BY DEF Written
    <3> QED
      BY <3>2, <3>3, Zenon
  <2>2. i \in Int /\ e - 1 \in Int
    BY <1>3
  <2>3. /\ b \in V /\ Len(b) = IF i <= e - 1 THEN e - 1 - i + 1 ELSE 0
        /\ \A j \in 1 .. e - 1 - i + 1 : b[j] = text[i + j - 1]
    BY <2>1, <2>2, SubSeqProperties
  <2> HIDE DEF b, V
  <2>4. Len(b) = e - i /\ e - 1 - i + 1 = e - i
    BY <2>3, <1>3
  <2> QED
    BY <2>3, <2>4, Zenon
<1>6. c \in V /\ Len(c) \in Nat
  BY LenProperties DEF e
<1>7. FromStep(text, f, i) = (a \o b) \o c
  <2>1. ~(i > L)
    BY <1>1, <1>3
  <2> QED
    BY <2>1 DEF FromStep, e, L
<1> HIDE DEF a, b, c, V
<1>8. /\ a \o b \in V /\ Len(a \o b) = Len(a) + Len(b)
      /\ \A j \in 1 .. Len(a) + Len(b) : (a \o b)[j] = IF j <= Len(a) THEN a[j] ELSE b[j - Len(a)]
  BY <1>4, <1>5, ConcatProperties, ZenonT(60) DEF V
<1>9. Len(a \o b) = e - i + 1 /\ \A j \in 1 .. e - i + 1 : (a \o b)[j] = IF j <= 1 THEN a[j] ELSE b[j - 1]
  BY <1>8, <1>4, <1>5, <1>3
<1> DEFINE d == a \o b
<1> HIDE DEF d
<1>b. d \in V
  BY <1>8 DEF d
<1>10. /\ d \o c \in V /\ Len(d \o c) = Len(d) + Len(c)
       /\ \A j \in 1 .. Len(d) + Len(c) : (d \o c)[j] = IF j <= Len(d) THEN d[j] ELSE c[j - Len(d)]
  BY <1>6, <1>b, ConcatProperties, Zenon DEF V
<1>11. Len(d) = e - i + 1 /\ e - i + 1 \in Nat /\ e - i + 1 >= 2
  BY <1>9, <1>3 DEF d
<1>12. (d \o c)[1] = (e - i) % 256
  <2>1. 1 \in 1 .. Len(d) + Len(c) /\ 1 <= Len(d) /\ 1 \in 1 .. e - i + 1
    BY <1>6, <1>11
  <2>2. (d \o c)[1] = d[1]
    BY <1>10, <2>1
  <2>3. d[1] = a[1]
    BY <1>9, <2>1 DEF d
  <2> QED
    BY <2>2, <2>3, <1>4
<1>13. ASSUME NEW j \in 2 .. e - i + 1 PROVE (d \o c)[j] = text[i + j - 2]
  <2>1. j \in 1 .. Len(d) + Len(c) /\ j <= Len(d) /\ j \in 1 .. e - i + 1 /\ ~(j <= 1)
    BY <1>6, <1>11
  <2>2. (d \o c)[j] = d[j]
    BY <1>10, <2>1
  <2>3. d[j] = b[j - 1]
    BY <1>9, <2>1 DEF d
  <2>4. j - 1 \in 1 .. e - i /\ i + (j - 1) - 1 = i + j - 2
    BY <1>3
  <2>5. b[j - 1] = text[i + (j - 1) - 1]
    BY <2>4, <1>5
  <2> QED
    BY <2>2, <2>3, <2>4, <2>5, Zenon
<1>14. ASSUME NEW j \in 1 .. Len(c) PROVE (d \o c)[e - i + 1 + j] = c[j]
  <2> DEFINE q == e - i + 1 + j
  <2>1. q \in 1 .. Len(d) + Len(c) /\ ~(q <= Len(d)) /\ q - Len(d) = j
    BY <1>6, <1>11, <1>3
  <2> HIDE DEF q
  <2>2. (d \o c)[q] = c[q - Len(d)]
    BY <1>10, <2>1, Zenon
  <2>3. (d \o c)[q] = c[j]
    BY <2>1, <2>2
  <2> QED
    BY <2>3 DEF q
<1>15. Len(d \o c) = e - i + 1 + Len(c)
  BY <1>10, <1>11
<1>16. FromStep(text, f, i) = d \o c
  BY <1>7 DEF d
<1> QED
  BY <1>10, <1>12, <1>13, <1>14, <1>15, <1>16, Zenon DEF c, e, V

\* w is the label from i to e and then v.
Joined(text, i, e, v, w) ==
  /\ Len(w) = e - i + 1 + Len(v)
  /\ w[1] = (e - i) % 256
  /\ \A j \in 2 .. e - i + 1 : w[j] = text[i + j - 2]
  /\ \A j \in 1 .. Len(v) : w[e - i + 1 + j] = v[j]

LEMMA FromJoined ==
  ASSUME NEW text \in Seq(1 .. 127), NEW i \in 1 .. Len(text), NEW f,
         LabelEnd(text, i) # i, f[LabelEnd(text, i) + 1] \in Seq(Written)
  PROVE  Joined(text, i, LabelEnd(text, i), f[LabelEnd(text, i) + 1], FromStep(text, f, i))
BY FromStepIs DEF Joined

LEMMA FromIs ==
  ASSUME NEW text \in Seq(1 .. 127)
  PROVE  \A i \in 1 .. Len(text) + 2 : From(text)[i] \in Seq(Written) /\ From(text)[i] = FromStep(text, From(text), i)
<1> DEFINE L == Len(text)
           S == 1 .. Len(text) + 2
           V == Seq(Written)
           m == [i \in S |-> Len(text) + 2 - i]
           h == [i \in S |-> [f \in [S -> V] |-> FromStep(text, f, i)]]
<1>0. L \in Nat
  BY LenProperties
<1>1. m \in [S -> 0 .. L + 2] /\ \A i \in S : m[i] = L + 2 - i
  BY <1>0
<1>a. <<0>> \in V /\ <<Bad>> \in V
  BY DEF Written, Bad
<1>2. ASSUME NEW i \in S, NEW f, \A j \in S : j > i => f[j] \in V
      PROVE  FromStep(text, f, i) \in V
  <2>1. CASE i > L
    BY <2>1, <1>a DEF FromStep
  <2>2. CASE ~(i > L) /\ LabelEnd(text, i) = i
    BY <2>2, <1>a DEF FromStep
  <2>3. CASE ~(i > L) /\ LabelEnd(text, i) # i
    <3>1. i \in 1 .. L
      BY <2>3, <1>0
    <3>2. LabelEnd(text, i) \in i .. L + 1
      BY <3>1, LabelEndIs
    <3>3. LabelEnd(text, i) + 1 \in S /\ LabelEnd(text, i) + 1 > i
      BY <3>1, <3>2, <1>0
    <3>4. f[LabelEnd(text, i) + 1] \in V
      BY <3>3, <1>2
    <3> QED
      BY <2>3, <3>1, <3>4, FromStepIs
  <2> QED
    BY <2>1, <2>2, <2>3
<1>3. h \in [S -> [[S -> V] -> V]]
  <2>1. \A i \in S : \A f \in [S -> V] : FromStep(text, f, i) \in V
    BY <1>2
  <2> QED
    BY <2>1
<1>4. ASSUME NEW i \in S, NEW f \in [S -> V], NEW g \in [S -> V], \A j \in S : m[j] < m[i] => f[j] = g[j]
      PROVE  h[i][f] = h[i][g]
  <2>1. h[i][f] = FromStep(text, f, i) /\ h[i][g] = FromStep(text, g, i)
    OBVIOUS
  <2>2. CASE ~(i > L)
    <3>1. i \in 1 .. L
      BY <2>2, <1>0
    <3>2. LabelEnd(text, i) \in i .. L + 1
      BY <3>1, LabelEndIs
    <3>3. LabelEnd(text, i) + 1 \in S /\ m[LabelEnd(text, i) + 1] < m[i]
      BY <3>1, <3>2, <1>0, <1>1
    <3>4. f[LabelEnd(text, i) + 1] = g[LabelEnd(text, i) + 1]
      BY <3>3, <1>4
    <3> QED
      BY <2>1, <3>4 DEF FromStep
  <2>3. CASE i > L
    BY <2>3, <2>1 DEF FromStep
  <2> QED
    BY <2>2, <2>3
<1>5. \E f : Solves(f, S, V, h)
  <2> DEFINE M == L + 2
  <2>1. M \in Nat /\ m \in [S -> 0 .. M]
    BY <1>0, <1>1
  <2> HIDE DEF S, V, m, h, M
  <2>2. Local(S, V, m, h)
    BY <1>4 DEF Local
  <2> QED
    BY <2>1, <2>2, <1>a, <1>3, Solution
<1>6. PICK f \in [S -> V] : \A i \in S : f[i] = h[i][f]
  BY <1>5 DEF Solves
<1>7. f = [i \in S |-> FromStep(text, f, i)]
  BY <1>6
<1>8. From(text) = CHOOSE from : from = [i \in S |-> FromStep(text, from, i)]
  BY Zenon DEF From, FromStep
<1>9. From(text) = [i \in S |-> FromStep(text, From(text), i)]
  <2> HIDE DEF S
  <2> QED
    BY <1>7, <1>8, Zenon
<1>10. \A i \in S : From(text)[i] = FromStep(text, From(text), i)
  BY <1>9, Zenon
<1> DEFINE T == {i \in S : From(text)[i] \in V}
<1>11. S \subseteq T
  <2>1. m \in [S -> Nat]
    BY <1>1
  <2>2. ASSUME NEW i \in S, \A j \in S : m[j] < m[i] => j \in T PROVE i \in T
    <3>1. \A j \in S : j > i => From(text)[j] \in V
      BY <2>2, <1>1, <1>0
    <3>2. FromStep(text, From(text), i) \in V
      BY <3>1, <1>2
    <3> QED
      BY <3>2, <1>10
  <2> HIDE DEF S, m, T
  <2> QED
    BY <2>1, <2>2, Descent
<1> QED
  BY <1>10, <1>11

\* A name that can be sent is written as it should be.
LEMMA FromNamed ==
  ASSUME NEW text, Fit(text)
  PROVE  From(text)[1] = Named(text)
<1> DEFINE X == Extent(text)
           L == Len(text)
           N == Named(text)
           F == From(text)
           S == {i \in 1 .. L + 2 : Start(text, i)}
           m == [i \in S |-> L + 2 - i]
           Good(i) == Len(F[i]) = X + 1 - i /\ \A j \in 1 .. X + 1 - i : F[i][j] = N[i + j - 1]
           T == {i \in S : Good(i)}
<1>1. /\ text \in Seq(1 .. 127) /\ L \in Nat /\ X \in Nat /\ X >= 1
      /\ text = << >> => X = 1 /\ L = 0
      /\ text # << >> => X >= 3 /\ (L = X - 2 \/ L = X - 1)
  BY FitIs
<1>2. N \in Seq(Byte) /\ Len(N) = X /\ N[X] = 0
  BY NamedIs
<1>a. X \in 1 .. L + 2 /\ X > L
  BY <1>1
<1>3. m \in [S -> Nat] /\ \A i \in S : m[i] = L + 2 - i
  <2>1. \A i \in S : L + 2 - i \in Nat
    BY <1>1
  <2> QED
    BY <2>1
<1>4. \A i \in 1 .. L + 2 : F[i] \in Seq(Written) /\ F[i] = FromStep(text, F, i)
  BY <1>1, FromIs
<1>5. ASSUME NEW i \in S, \A j \in S : m[j] < m[i] => j \in T PROVE i \in T
  <2>0. i \in 1 .. L + 2 /\ Start(text, i)
    OBVIOUS
  <2>1. CASE i = X
    <3>1. F[i] = <<0>>
      BY <2>1, <1>a, <1>4 DEF FromStep
    <3>2. Len(F[i]) = 1 /\ F[i][1] = 0
      BY <3>1
    <3>3. X + 1 - i = 1 /\ \A j \in 1 .. 1 : i + j - 1 = X /\ j = 1
      BY <2>1, <1>1
    <3> HIDE DEF F, N, X
    <3>4. Good(i)
      BY <3>2, <3>3, <1>2
    <3> QED
      BY <3>4
  <2>2. CASE i # X
    <3> DEFINE e == LabelEnd(text, i)
    <3>1. i \in 1 .. X - 2 /\ i \in 1 .. L /\ e \in i + 1 .. X - 1 /\ e - i \in 1 .. 63 /\ Start(text, e + 1)
      BY <2>0, <2>2, LabelIs
    <3>2. N[i] = e - i /\ \A j \in i + 1 .. e : N[j] = text[j - 1]
      BY <2>0, <2>2, NamedIs
    <3>3. e + 1 \in S /\ e # i
      BY <3>1, <1>1, <1>a
    <3>4. m[e + 1] < m[i]
      BY <3>1, <3>3, <1>3, <1>1
    <3>5. e + 1 \in T
      <4> HIDE DEF T, S, m
      <4> QED
        BY <3>3, <3>4, <1>5
    <3>6. Good(e + 1)
      BY <3>5
    <3>7. e + 1 \in 1 .. L + 2 /\ ~(i > L)
      BY <3>3, <3>1, <1>1
    <3>8. F[e + 1] \in Seq(Written) /\ F[i] = FromStep(text, F, i)
      BY <3>7, <2>0, <1>4
    <3>9. Joined(text, i, LabelEnd(text, i), F[LabelEnd(text, i) + 1], FromStep(text, F, i))
      <4>1. LabelEnd(text, i) # i /\ i \in 1 .. Len(text)
        BY <3>1, <3>3
      <4>2. F[LabelEnd(text, i) + 1] \in Seq(Written)
        BY <3>8
      <4> HIDE DEF F
      <4> QED
        BY <4>1, <4>2, <1>1, FromJoined
    <3> DEFINE w == F[i]
               v == F[e + 1]
    <3> HIDE DEF F, N, X, L
    <3>10. Joined(text, i, e, v, w)
      BY <3>8, <3>9, Zenon
    <3> HIDE DEF e
    <3>11. Len(v) = X + 1 - (e + 1) /\ \A j \in 1 .. X + 1 - (e + 1) : v[j] = N[(e + 1) + j - 1]
      BY <3>6
    <3> HIDE DEF v, w
    <3>b. e \in Nat /\ i \in Nat /\ X \in Nat /\ i < e /\ e < X /\ i >= 1
      BY <3>1, <1>1
    <3>12. Len(w) = X + 1 - i
      BY <3>10, <3>11, <3>b DEF Joined
    <3>13. ASSUME NEW j \in 1 .. X + 1 - i PROVE w[j] = N[i + j - 1]
      <4>1. CASE j = 1
        <5>1. (e - i) % 256 = e - i
          BY <3>1
        <5>2. i + j - 1 = i
          BY <4>1, <3>b
        <5> QED
          BY <4>1, <5>1, <5>2, <3>2, <3>10 DEF Joined
      <4>2. CASE j # 1 /\ j <= e - i + 1
        <5>1. j \in 2 .. e - i + 1 /\ i + j - 1 \in i + 1 .. e
          BY <4>2, <3>b
        <5>2. w[j] = text[i + j - 2]
          BY <5>1, <3>10 DEF Joined
        <5>3. N[i + j - 1] = text[(i + j - 1) - 1]
          BY <5>1, <3>2
        <5>4. (i + j - 1) - 1 = i + j - 2
          BY <3>b
        <5> QED
          BY <5>2, <5>3, <5>4
      <4>3. CASE j > e - i + 1
        <5> DEFINE q == j - (e - i + 1)
        <5>1. q \in 1 .. Len(v) /\ q \in 1 .. X + 1 - (e + 1) /\ e - i + 1 + q = j /\ (e + 1) + q - 1 = i + j - 1
          BY <4>3, <3>b, <3>11
        <5> HIDE DEF q
        <5>2. w[e - i + 1 + q] = v[q] /\ v[q] = N[(e + 1) + q - 1]
          BY <5>1, <3>10, <3>11 DEF Joined
        <5> QED
          BY <5>1, <5>2
      <4> QED
        BY <4>1, <4>2, <4>3, <3>b
    <3>14. Good(i)
      BY <3>12, <3>13 DEF w
    <3> QED
      BY <3>14
  <2> QED
    BY <2>1, <2>2
<1>6. S \subseteq T
  <2> HIDE DEF S, T, m
  <2> QED
    BY <1>3, <1>5, Descent
<1>7. 1 \in S
  <2>1. CASE X = 1
    BY <2>1, <1>a DEF Start
  <2>2. CASE X # 1
    <3>1. 1 \in 1 .. X - 2 /\ 1 \in 1 .. L + 2
      BY <2>2, <1>1
    <3> QED
      BY <3>1 DEF Start
  <2> QED
    BY <2>1, <2>2
<1>8. Good(1)
  <2>1. 1 \in T
    <3> HIDE DEF S, T
    <3> QED
      BY <1>6, <1>7
  <2> QED
    BY <2>1
<1> HIDE DEF X
<1>9. 1 \in 1 .. L + 2 /\ X + 1 - 1 = X
  BY <1>1
<1> DEFINE w == F[1]
<1>10. w \in Seq(Written)
  BY <1>4, <1>9
<1>11. Len(w) = X /\ \A j \in 1 .. X : w[j] = N[j]
  <2> HIDE DEF F, N
  <2>1. \A j \in 1 .. X : 1 + j - 1 = j
    BY <1>1
  <2> QED
    BY <2>1, <1>8, <1>9
<1>12. N \in Seq(Written)
  <2>1. Byte \subseteq Written
    BY DEF Byte, Written
  <2> HIDE DEF N
  <2> QED
    BY <2>1, <1>2, SeqMonotonic
<1> HIDE DEF w, N
<1>13. w = N
  <2>1. Len(w) = Len(N) /\ \A j \in 1 .. Len(w) : w[j] = N[j]
    BY <1>11, <1>2
  <2> QED
    BY <2>1, <1>10, <1>12, SeqEqual
<1> QED
  BY <1>13 DEF w, N

\* There is an empty label behind i.
Improper(text, i) == text[i] = Dot \/ \E n \in i + 1 .. Len(text) : text[n] = Dot /\ text[n - 1] = Dot

LEMMA FromImproper ==
  ASSUME NEW text \in Seq(1 .. 127)
  PROVE  \A i \in 1 .. Len(text) : Improper(text, i) => From(text)[i] # << >> /\ Last(From(text)[i]) = Bad
<1> DEFINE L == Len(text)
           F == From(text)
           S == 1 .. L
           m == [i \in S |-> L - i]
           T == {i \in S : Improper(text, i) => F[i] # << >> /\ Last(F[i]) = Bad}
<1>1. L \in Nat
  BY LenProperties
<1>2. m \in [S -> Nat] /\ \A i \in S : m[i] = L - i
  BY <1>1
<1>3. \A i \in 1 .. L + 2 : F[i] \in Seq(Written) /\ F[i] = FromStep(text, F, i)
  BY FromIs
<1>4. ASSUME NEW i \in S, \A j \in S : m[j] < m[i] => j \in T PROVE i \in T
  <2> SUFFICES ASSUME Improper(text, i) PROVE F[i] # << >> /\ Last(F[i]) = Bad
    OBVIOUS
  <2> DEFINE e == LabelEnd(text, i)
  <2>1. /\ e \in i .. L + 1 /\ (e # L + 1 => text[e] = Dot)
        /\ \A j \in i .. e - 1 : text[j] # Dot
    BY LabelEndIs
  <2>2. i \in 1 .. L + 2 /\ ~(i > L) /\ i \in Nat /\ e \in Nat /\ i <= e
    BY <1>1, <2>1
  <2>3. F[i] = FromStep(text, F, i)
    BY <2>2, <1>3
  <2>4. CASE e = i
    <3>1. F[i] = <<Bad>>
      BY <2>2, <2>3, <2>4 DEF FromStep
    <3> QED
      BY <3>1 DEF Last
  <2>5. CASE e # i
    <3>1. text[i] # Dot
      <4>1. i \in i .. e - 1
        BY <2>5, <2>2
      <4> QED
        BY <4>1, <2>1
    <3>2. PICK n \in i + 1 .. L : text[n] = Dot /\ text[n - 1] = Dot
      BY <3>1 DEF Improper
    <3>3. e <= n - 1
      <4> SUFFICES ASSUME e > n - 1 PROVE FALSE
        BY <2>2
      <4>1. n - 1 \in i .. e - 1
        BY <2>2
      <4> QED
        BY <4>1, <3>2, <2>1
    <3>4. e + 1 \in S /\ e + 1 <= n /\ e + 1 \in 1 .. L + 2
      BY <3>3, <2>2, <1>1
    <3>5. Improper(text, e + 1)
      <4>1. CASE e + 1 = n
        BY <4>1, <3>2 DEF Improper
      <4>2. CASE e + 1 # n
        <5>1. n \in (e + 1) + 1 .. Len(text)
          BY <4>2, <3>4, <2>2, <1>1
        <5> QED
          BY <5>1, <3>2 DEF Improper
      <4> QED
        BY <4>1, <4>2
    <3>6. e + 1 \in T
      <4>1. m[e + 1] < m[i]
        BY <3>4, <2>2, <2>5, <1>2, <1>1
      <4> HIDE DEF T, S, m
      <4> QED
        BY <4>1, <3>4, <1>4
    <3>7. F[e + 1] # << >> /\ Last(F[e + 1]) = Bad
      BY <3>5, <3>6
    <3>8. F[e + 1] \in Seq(Written)
      BY <3>4, <1>3
    <3>9. /\ Len(FromStep(text, F, i)) = e - i + 1 + Len(F[e + 1])
          /\ \A j \in 1 .. Len(F[e + 1]) : FromStep(text, F, i)[e - i + 1 + j] = F[e + 1][j]
      BY <2>5, <3>8, FromStepIs
    <3> DEFINE w == F[i]
               v == F[e + 1]
    <3>10. w \in Seq(Written) /\ v \in Seq(Written)
      BY <2>2, <3>8, <1>3
    <3> HIDE DEF F, e
    <3>11. Len(w) = e - i + 1 + Len(v) /\ \A j \in 1 .. Len(v) : w[e - i + 1 + j] = v[j]
      BY <2>3, <3>9, Zenon
    <3>12. v # << >> /\ Last(v) = Bad
      BY <3>7
    <3> HIDE DEF v, w
    <3>13. Len(v) \in Nat \ {0}
      BY <3>10, <3>12, EmptySeq
    <3>14. w[e - i + 1 + Len(v)] = v[Len(v)]
      <4>1. Len(v) \in 1 .. Len(v)
        BY <3>13
      <4> QED
        BY <4>1, <3>11
    <3>15. w[Len(w)] = v[Len(v)] /\ Len(w) # 0
      BY <3>14, <3>11, <3>13, <2>2
    <3>16. w # << >> /\ Last(w) = Bad
      BY <3>12, <3>15, EmptySeq DEF Last
    <3> QED
      BY <3>16 DEF w
  <2> QED
    BY <2>4, <2>5
<1>5. S \subseteq T
  <2> HIDE DEF S, T, m
  <2> QED
    BY <1>2, <1>4, Descent
<1> QED
  BY <1>5

----------------------------------------------------------------------------
(* What get() reads.                                                       *)

\* Where the loop ends, what it takes for a label, and where it fails.
Ends(p, k)               == k = Len(p) + 1 \/ p[k] = 0
Literal(p, k)            == p[k] \in 1 .. 191
Stuck(p, jumps, k, room) == k + 1 = Len(p) + 1 \/ room = 0 \/ jumps = 0 \/ Target(p, k) >= Len(p)
At(jumps, k, room)       == <<jumps, k, room>>

\* What is copied of a label, and where the loop goes on: behind a label that is
\* cut, behind a whole one, through a pointer.
Copied(p, k, room)         == SubSeq(p, k + 1, k + Held(p, k, room))
Spent(p, jumps, k, room)   == At(jumps, k + Held(p, k, room) + 1, 0)
Further(p, jumps, k, room) == At(jumps, k + Held(p, k, room) + 1, room - Held(p, k, room) - 1)
Across(p, jumps, k, room)  == At(jumps - 1, Target(p, k) + 1, room)

\* What is read at k, and behind it.
ReadStep(p, f, jumps, k, room) ==
  IF Ends(p, k) THEN << >>
  ELSE IF Literal(p, k) THEN
    Copied(p, k, room)
      \o IF Held(p, k, room) = room THEN f[Spent(p, jumps, k, room)]
         ELSE <<Dot>> \o f[Further(p, jumps, k, room)]
  ELSE IF Stuck(p, jumps, k, room) THEN <<Bad>>
  ELSE f[Across(p, jumps, k, room)]

\* The loop, from any octet on.
Reading(p, size) ==
  CHOOSE next : next =
    [at \in (0 .. MaxJumps) \X (1 .. Len(p) + 1) \X (0 .. size) |-> ReadStep(p, next, at[1], at[2], at[3])]

LEMMA NameLoopIs ==
  ASSUME NEW p, NEW i, NEW size
  PROVE  NameLoop(p, i, size) = IF i = 0 THEN <<Bad>> ELSE Reading(p, size)[At(MaxJumps, i, size)]
  BY Zenon DEF NameLoop, Reading, ReadStep, Ends, Literal, Stuck, At, Copied, Spent, Further, Across

LEMMA MinOfThree ==
  ASSUME NEW a \in Nat, NEW b \in Nat, NEW c \in Nat
  PROVE  /\ Min({a, b, c}) \in {a, b, c} /\ Min({a, b, c}) <= a /\ Min({a, b, c}) <= b /\ Min({a, b, c}) <= c
<1>1. {a, b, c} \subseteq Nat /\ {a, b, c} # {}
  OBVIOUS
<1>2. Min({a, b, c}) \in {a, b, c} /\ \A k \in {a, b, c} : Min({a, b, c}) <= k
  BY <1>1, Least
<1> QED
  BY <1>2

LEMMA HeldIs ==
  ASSUME NEW p \in Seq(Byte), NEW k \in 1 .. Len(p), p[k] \in 1 .. 191, NEW room \in Nat
  PROVE  /\ Held(p, k, room) \in Nat /\ Held(p, k, room) <= room /\ Held(p, k, room) <= p[k]
         /\ k + Held(p, k, room) <= Len(p)
         /\ Held(p, k, room) = p[k] \/ Held(p, k, room) = Len(p) - k \/ Held(p, k, room) = room
<1>1. Len(p) \in Nat
  BY LenProperties
<1>2. Len(p) - k \in Nat /\ k \in Nat
  BY <1>1
<1>3. p[k] \in Nat
  <2>1. \A n \in 1 .. 191 : n \in Nat
    OBVIOUS
  <2> QED
    BY <2>1, Zenon
<1> DEFINE a == p[k]
           b == Len(p) - k
           h == Held(p, k, room)
<1>4. h = Min({a, b, room})
  BY <1>2 DEF Held
<1>5. a \in Nat /\ b \in Nat
  BY <1>2, <1>3
<1> HIDE DEF a, h
<1>6. h \in {a, b, room} /\ h <= a /\ h <= b /\ h <= room
  BY <1>4, <1>5, MinOfThree
<1> QED
  BY <1>6, <1>5, <1>2 DEF a, h

\* Where a pointer leads is in the packet, or it is refused.
LEMMA TargetIs ==
  ASSUME NEW p \in Seq(Byte), NEW k \in 1 .. Len(p), k + 1 # Len(p) + 1, ~(Target(p, k) >= Len(p))
  PROVE  Target(p, k) + 1 \in 1 .. Len(p)
<1>1. Len(p) \in Nat
  BY LenProperties
<1>2. k + 1 \in 1 .. Len(p)
  BY <1>1
<1>3. p[k] \in Byte /\ p[k + 1] \in Byte
  BY <1>2, ElementOfSeq
<1> DEFINE a == p[k]
           b == p[k + 1]
<1>4. Target(p, k) = (a * 256 + b) % 16384
  BY DEF Target, Short
<1>a. a \in Byte /\ b \in Byte
  BY <1>3
<1> HIDE DEF a, b
<1>5. Target(p, k) \in Nat
  BY <1>4, <1>a DEF Byte
<1> DEFINE t == Target(p, k)
<1>6. t \in Nat /\ ~(t >= Len(p))
  BY <1>5
<1> HIDE DEF t
<1>7. t + 1 \in 1 .. Len(p)
  BY <1>1, <1>6
<1> QED
  BY <1>7 DEF t

\* What is read next: behind this place, or through a pointer less.
Beyond(p, size, jumps, k) ==
  {at \in (0 .. MaxJumps) \X (1 .. Len(p) + 1) \X (0 .. size) : at[1] < jumps \/ (at[1] = jumps /\ at[2] > k)}

LEMMA BeyondIs ==
  ASSUME NEW p, NEW size, NEW jumps, NEW k, NEW j \in 0 .. MaxJumps, NEW l \in 1 .. Len(p) + 1, NEW r \in 0 .. size,
         j < jumps \/ (j = jumps /\ l > k)
  PROVE  At(j, l, r) \in Beyond(p, size, jumps, k)
  BY DEF Beyond, At

\* The ways on from k.
LEMMA Ways ==
  ASSUME NEW p \in Seq(Byte), NEW size \in Nat,
         NEW jumps \in 0 .. MaxJumps, NEW k \in 1 .. Len(p), NEW room \in 0 .. size
  PROVE  /\ p[k] \in 1 .. 191 =>
              /\ Held(p, k, room) = room => Spent(p, jumps, k, room) \in Beyond(p, size, jumps, k)
              /\ Held(p, k, room) # room =>
                   Further(p, jumps, k, room) \in Beyond(p, size, jumps, k)
         /\ ~(k + 1 = Len(p) + 1 \/ room = 0 \/ jumps = 0 \/ Target(p, k) >= Len(p)) =>
              Across(p, jumps, k, room) \in Beyond(p, size, jumps, k)
<1>1. Len(p) \in Nat /\ MaxJumps \in Nat
  BY LenProperties, PacketAssumption
<1>2. ASSUME p[k] \in 1 .. 191
      PROVE  /\ Held(p, k, room) = room => Spent(p, jumps, k, room) \in Beyond(p, size, jumps, k)
             /\ Held(p, k, room) # room =>
                  Further(p, jumps, k, room) \in Beyond(p, size, jumps, k)
  <2> DEFINE h == Held(p, k, room)
  <2>a. room \in Nat
    OBVIOUS
  <2>1. h \in Nat /\ h <= room /\ k + h <= Len(p)
    BY <1>2, <2>a, HeldIs
  <2> HIDE DEF h
  <2>2. k + h + 1 \in 1 .. Len(p) + 1 /\ k + h + 1 > k /\ 0 \in 0 .. size
    BY <1>1, <2>1
  <2>3. At(jumps, k + h + 1, 0) \in Beyond(p, size, jumps, k)
    BY <2>2, BeyondIs
  <2>4. h # room => room - h - 1 \in 0 .. size
    BY <2>1
  <2>5. h # room => At(jumps, k + h + 1, room - h - 1) \in Beyond(p, size, jumps, k)
    BY <2>2, <2>4, BeyondIs
  <2> QED
    BY <2>3, <2>5, Zenon DEF h, Spent, Further
<1>3. ASSUME ~(k + 1 = Len(p) + 1 \/ room = 0 \/ jumps = 0 \/ Target(p, k) >= Len(p))
      PROVE  Across(p, jumps, k, room) \in Beyond(p, size, jumps, k)
  <2> DEFINE t == Target(p, k)
  <2>1. t + 1 \in 1 .. Len(p)
    BY <1>3, TargetIs
  <2> HIDE DEF t
  <2>2. t + 1 \in 1 .. Len(p) + 1 /\ jumps - 1 \in 0 .. MaxJumps /\ jumps - 1 < jumps
    BY <1>1, <1>3, <2>1
  <2>3. At(jumps - 1, t + 1, room) \in Beyond(p, size, jumps, k)
    BY <2>2, BeyondIs
  <2> QED
    BY <2>3, Zenon DEF t, Across
<1> QED
  BY <1>2, <1>3

LEMMA Narrow == 1 .. 127 \subseteq Byte /\ Byte \subseteq Written /\ Dot \in Written /\ Bad \in Written
  BY DEF Byte, Written, Dot, Bad

\* What is copied of a label.
LEMMA PieceIs ==
  ASSUME NEW p \in Seq(Byte), NEW k \in 1 .. Len(p), p[k] \in 1 .. 191, NEW room \in Nat
  PROVE  /\ Copied(p, k, room) \in Seq(Written)
         /\ Len(Copied(p, k, room)) = Held(p, k, room)
         /\ \A j \in 1 .. Held(p, k, room) : Copied(p, k, room)[j] = p[k + j]
<1> DEFINE h == Held(p, k, room)
           s == Copied(p, k, room)
<1>1. Len(p) \in Nat /\ h \in Nat /\ k + h <= Len(p)
  BY LenProperties, HeldIs
<1> HIDE DEF h
<1>2. \A j \in k + 1 .. k + h : p[j] \in Written
  <2> TAKE j \in k + 1 .. k + h
  <2>1. j \in 1 .. Len(p)
    BY <1>1
  <2>2. p[j] \in Byte
    BY <2>1, ElementOfSeq
  <2> QED
    BY <2>2, Narrow, Zenon
<1> DEFINE m == k + 1
           n == k + h
<1>3. m \in Int /\ n \in Int
  BY <1>1
<1>a. \A j \in m .. n : p[j] \in Written
  BY <1>2
<1>b. s = SubSeq(p, m, n)
  BY DEF h, Copied
<1> HIDE DEF m, n, s
<1>c. /\ s \in Seq(Written) /\ Len(s) = IF m <= n THEN n - m + 1 ELSE 0
      /\ \A j \in 1 .. n - m + 1 : s[j] = p[m + j - 1]
  BY <1>3, <1>a, <1>b, SubSeqProperties
<1>d. n - m + 1 = h /\ (m <= n <=> h >= 1)
  BY <1>1 DEF m, n
<1>4. s \in Seq(Written) /\ Len(s) = h /\ \A j \in 1 .. h : s[j] = p[m + j - 1]
  BY <1>1, <1>c, <1>d
<1>6. \A j \in 1 .. h : s[j] = p[k + j]
  <2> TAKE j \in 1 .. h
  <2>1. m + j - 1 = k + j
    BY <1>1 DEF m
  <2> QED
    BY <2>1, <1>4
<1> QED
  BY <1>4, <1>6, Zenon DEF s, h, m, n

\* What a step reads.
LEMMA StepEnd ==
  ASSUME NEW p, NEW f, NEW jumps, NEW k, NEW room, Ends(p, k)
  PROVE  ReadStep(p, f, jumps, k, room) = << >>
  BY Zenon DEF ReadStep

LEMMA StepCut ==
  ASSUME NEW p, NEW f, NEW jumps, NEW k, NEW room, ~Ends(p, k), Literal(p, k), Held(p, k, room) = room
  PROVE  ReadStep(p, f, jumps, k, room) =
           Copied(p, k, room) \o f[Spent(p, jumps, k, room)]
  BY Zenon DEF ReadStep

LEMMA StepOn ==
  ASSUME NEW p, NEW f, NEW jumps, NEW k, NEW room, ~Ends(p, k), Literal(p, k), Held(p, k, room) # room
  PROVE  ReadStep(p, f, jumps, k, room) =
           Copied(p, k, room)
             \o (<<Dot>> \o f[Further(p, jumps, k, room)])
  BY Zenon DEF ReadStep

LEMMA StepStuck ==
  ASSUME NEW p, NEW f, NEW jumps, NEW k, NEW room, ~Ends(p, k), ~Literal(p, k), Stuck(p, jumps, k, room)
  PROVE  ReadStep(p, f, jumps, k, room) = <<Bad>>
  BY Zenon DEF ReadStep

LEMMA StepJump ==
  ASSUME NEW p, NEW f, NEW jumps, NEW k, NEW room, ~Ends(p, k), ~Literal(p, k), ~Stuck(p, jumps, k, room)
  PROVE  ReadStep(p, f, jumps, k, room) = f[Across(p, jumps, k, room)]
  BY Zenon DEF ReadStep

LEMMA StepTyped ==
  ASSUME NEW p \in Seq(Byte), NEW size \in Nat, NEW f,
         NEW jumps \in 0 .. MaxJumps, NEW k \in 1 .. Len(p) + 1, NEW room \in 0 .. size,
         \A at \in Beyond(p, size, jumps, k) : f[at] \in Seq(Written)
  PROVE  ReadStep(p, f, jumps, k, room) \in Seq(Written)
<1> DEFINE V == Seq(Written)
           h == Held(p, k, room)
<1>0. Len(p) \in Nat
  BY LenProperties
<1>a. << >> \in V /\ <<Bad>> \in V /\ <<Dot>> \in V
  BY Narrow
<1>1. CASE Ends(p, k)
  BY <1>1, <1>a, StepEnd, Zenon
<1>2. CASE ~Ends(p, k) /\ Literal(p, k)
  <2>1. k \in 1 .. Len(p) /\ room \in Nat /\ p[k] \in 1 .. 191
    BY <1>0, <1>2 DEF Ends, Literal
  <2> DEFINE s == Copied(p, k, room)
             u == f[Spent(p, jumps, k, room)]
             w == f[Further(p, jumps, k, room)]
             d == <<Dot>>
  <2>2. s \in V
    BY <1>2, <2>1, PieceIs
  <2>3. h = room => u \in V
    BY <1>2, <2>1, Ways
  <2>4. h # room => w \in V
    BY <1>2, <2>1, Ways
  <2>a. h = room => ReadStep(p, f, jumps, k, room) = s \o u
    BY <1>2, StepCut
  <2>b. h # room => ReadStep(p, f, jumps, k, room) = s \o (d \o w)
    BY <1>2, StepOn
  <2>5. /\ h = room => ReadStep(p, f, jumps, k, room) = s \o u
        /\ h # room => ReadStep(p, f, jumps, k, room) = s \o (d \o w)
    BY <2>a, <2>b
  <2>6. d \in V
    BY <1>a
  <2> HIDE DEF s, u, w, d, h, V
  <2>7. CASE h = room
    BY <2>2, <2>3, <2>5, <2>7, ConcatProperties DEF V
  <2>8. CASE h # room
    <3>1. d \o w \in V
      BY <2>4, <2>6, <2>8, ConcatProperties DEF V
    <3> DEFINE x == d \o w
    <3> HIDE DEF x
    <3>2. x \in V
      BY <3>1 DEF x
    <3>3. s \o x \in V
      BY <2>2, <3>2, ConcatProperties DEF V
    <3> QED
      BY <2>5, <2>8, <3>3 DEF V, x
  <2> QED
    BY <2>7, <2>8
<1>3. CASE ~Ends(p, k) /\ ~Literal(p, k)
  <2>1. k \in 1 .. Len(p)
    BY <1>0, <1>3 DEF Ends
  <2>2. CASE Stuck(p, jumps, k, room)
    BY <1>3, <2>2, <1>a, StepStuck, Zenon
  <2>3. CASE ~Stuck(p, jumps, k, room)
    <3>1. Across(p, jumps, k, room) \in Beyond(p, size, jumps, k)
      BY <2>1, <2>3, Ways DEF Stuck
    <3>2. ReadStep(p, f, jumps, k, room) = f[Across(p, jumps, k, room)]
      BY <1>3, <2>3, StepJump
    <3>3. f[Across(p, jumps, k, room)] \in V
      BY <3>1
    <3> QED
      BY <3>2, <3>3
  <2> QED
    BY <2>2, <2>3
<1> QED
  BY <1>1, <1>2, <1>3, Zenon

LEMMA StepSame ==
  ASSUME NEW p \in Seq(Byte), NEW size \in Nat, NEW f, NEW g,
         NEW jumps \in 0 .. MaxJumps, NEW k \in 1 .. Len(p) + 1, NEW room \in 0 .. size,
         \A at \in Beyond(p, size, jumps, k) : f[at] = g[at]
  PROVE  ReadStep(p, f, jumps, k, room) = ReadStep(p, g, jumps, k, room)
<1>0. Len(p) \in Nat
  BY LenProperties
<1>1. CASE Ends(p, k)
  BY <1>1, StepEnd, Zenon
<1>2. CASE ~Ends(p, k) /\ Literal(p, k)
  <2>1. k \in 1 .. Len(p) /\ p[k] \in 1 .. 191
    BY <1>0, <1>2 DEF Ends, Literal
  <2>2. CASE Held(p, k, room) = room
    <3>1. Spent(p, jumps, k, room) \in Beyond(p, size, jumps, k)
      BY <2>1, <2>2, Ways
    <3>2. f[Spent(p, jumps, k, room)] = g[Spent(p, jumps, k, room)]
      BY <3>1
    <3>3. ReadStep(p, f, jumps, k, room) = Copied(p, k, room) \o f[Spent(p, jumps, k, room)]
      BY <1>2, <2>2, StepCut
    <3>4. ReadStep(p, g, jumps, k, room) = Copied(p, k, room) \o g[Spent(p, jumps, k, room)]
      BY <1>2, <2>2, StepCut
    <3> QED
      BY <3>2, <3>3, <3>4, Zenon
  <2>3. CASE Held(p, k, room) # room
    <3>1. Further(p, jumps, k, room) \in Beyond(p, size, jumps, k)
      BY <2>1, <2>3, Ways
    <3>2. f[Further(p, jumps, k, room)] = g[Further(p, jumps, k, room)]
      BY <3>1
    <3>3. ReadStep(p, f, jumps, k, room) = Copied(p, k, room) \o (<<Dot>> \o f[Further(p, jumps, k, room)])
      BY <1>2, <2>3, StepOn
    <3>4. ReadStep(p, g, jumps, k, room) = Copied(p, k, room) \o (<<Dot>> \o g[Further(p, jumps, k, room)])
      BY <1>2, <2>3, StepOn
    <3> QED
      BY <3>2, <3>3, <3>4, Zenon
  <2> QED
    BY <2>2, <2>3
<1>3. CASE ~Ends(p, k) /\ ~Literal(p, k)
  <2>1. k \in 1 .. Len(p)
    BY <1>0, <1>3 DEF Ends
  <2>2. CASE Stuck(p, jumps, k, room)
    BY <1>3, <2>2, StepStuck, Zenon
  <2>3. CASE ~Stuck(p, jumps, k, room)
    <3>1. Across(p, jumps, k, room) \in Beyond(p, size, jumps, k)
      BY <2>1, <2>3, Ways DEF Stuck
    <3>2. f[Across(p, jumps, k, room)] = g[Across(p, jumps, k, room)]
      BY <3>1
    <3>3. ReadStep(p, f, jumps, k, room) = f[Across(p, jumps, k, room)]
      BY <1>3, <2>3, StepJump
    <3>4. ReadStep(p, g, jumps, k, room) = g[Across(p, jumps, k, room)]
      BY <1>3, <2>3, StepJump
    <3> QED
      BY <3>2, <3>3, <3>4, Zenon
  <2> QED
    BY <2>2, <2>3
<1> QED
  BY <1>1, <1>2, <1>3, Zenon

\* Any packet can be read: the loop goes on behind, or through a pointer less.
LEMMA ReadingIs ==
  ASSUME NEW p \in Seq(Byte), NEW size \in Nat,
         NEW jumps \in 0 .. MaxJumps, NEW k \in 1 .. Len(p) + 1, NEW room \in 0 .. size
  PROVE  /\ Reading(p, size)[At(jumps, k, room)] \in Seq(Written)
         /\ Reading(p, size)[At(jumps, k, room)] = ReadStep(p, Reading(p, size), jumps, k, room)
<1> DEFINE J == 0 .. MaxJumps
           K == 1 .. Len(p) + 1
           R == 0 .. size
           S == J \X K \X R
           V == Seq(Written)
           z == Len(p) + 2
           m == [at \in S |-> at[1] * z + (Len(p) + 1 - at[2])]
           h == [at \in S |-> [f \in [S -> V] |-> ReadStep(p, f, at[1], at[2], at[3])]]
           N == Reading(p, size)
<1>0. Len(p) \in Nat /\ MaxJumps \in Nat /\ z \in Nat /\ z = Len(p) + 2
  BY LenProperties, PacketAssumption
<1>1. \A at \in S : at[1] \in J /\ at[2] \in K /\ at[3] \in R /\ at = At(at[1], at[2], at[3])
  BY DEF At
<1>2. \A a \in J, b \in K, c \in R : At(a, b, c) \in S /\ At(a, b, c)[1] = a /\ At(a, b, c)[2] = b /\ At(a, b, c)[3] = c
  BY DEF At
<1>3. \A at \in S : m[at] = at[1] * z + (Len(p) + 1 - at[2])
  OBVIOUS
<1> HIDE DEF z, m
<1>4. \A a \in J : a * z \in Nat /\ a * z <= MaxJumps * z /\ MaxJumps * z \in Nat
  <2> TAKE a \in J
  <2>1. a \in Nat /\ a <= MaxJumps
    BY <1>0
  <2>2. a * z \in Nat /\ MaxJumps * z \in Nat
    BY <1>0, <2>1
  <2>3. a * z <= MaxJumps * z
    BY <1>0, <2>1
  <2> QED
    BY <2>2, <2>3
<1>5. \A a, b \in J : a < b => a * z + z <= b * z
  <2> SUFFICES ASSUME NEW a \in J, NEW b \in J, a < b PROVE a * z + z <= b * z
    OBVIOUS
  <2>1. a \in Nat /\ b \in Nat /\ a + 1 <= b /\ a + 1 \in Nat
    BY <1>0
  <2>2. (a + 1) * z <= b * z
    BY <1>0, <2>1
  <2>3. (a + 1) * z = a * z + z
    BY <1>0, <2>1
  <2> QED
    BY <2>2, <2>3
<1> DEFINE M == MaxJumps * z + z
<1>6. M \in Nat /\ m \in [S -> 0 .. M]
  <2>1. M \in Nat
    BY <1>0, <1>4
  <2>2. ASSUME NEW at \in S PROVE m[at] \in 0 .. M
    <3> DEFINE a == at[1] * z
               b == at[2]
    <3>1. a \in Nat /\ a <= MaxJumps * z /\ MaxJumps * z \in Nat
      BY <1>1, <1>4
    <3>2. b \in 1 .. Len(p) + 1 /\ m[at] = a + (Len(p) + 1 - b)
      BY <1>1, <1>3
    <3> HIDE DEF a, b
    <3>3. a + (Len(p) + 1 - b) \in 0 .. M
      BY <1>0, <3>1, <3>2
    <3> QED
      BY <3>2, <3>3
  <2>3. m \in [S -> Nat]
    <3>1. \A at \in S : m[at] \in Nat
      BY <2>1, <2>2
    <3>2. DOMAIN m = S /\ m = [at \in S |-> m[at]]
      BY DEF m
    <3> HIDE DEF S
    <3> QED
      BY <3>1, <3>2
  <2> HIDE DEF S, M
  <2> QED
    BY <2>1, <2>2, <2>3
<1>7. ASSUME NEW at \in S, NEW b \in Beyond(p, size, at[1], at[2]) PROVE b \in S /\ m[b] < m[at]
  <2>1. b \in S /\ (b[1] < at[1] \/ (b[1] = at[1] /\ b[2] > at[2]))
    BY <1>7 DEF Beyond
  <2>2. m[b] = b[1] * z + (Len(p) + 1 - b[2]) /\ m[at] = at[1] * z + (Len(p) + 1 - at[2])
    BY <2>1, <1>3
  <2> DEFINE a1 == at[1]
             a2 == at[2]
             b1 == b[1]
             b2 == b[2]
  <2>3. a1 \in J /\ b1 \in J /\ a2 \in K /\ b2 \in K /\ (b1 < a1 \/ (b1 = a1 /\ b2 > a2))
    BY <2>1, <1>1
  <2>4. m[b] = b1 * z + (Len(p) + 1 - b2) /\ m[at] = a1 * z + (Len(p) + 1 - a2)
    BY <2>2
  <2> HIDE DEF a1, a2, b1, b2
  <2>5. a1 * z \in Nat /\ b1 * z \in Nat
    BY <2>3, <1>4
  <2>6. b1 < a1 => b1 * z + z <= a1 * z
    BY <2>3, <1>5
  <2> DEFINE A == a1 * z
             B == b1 * z
  <2>a. /\ A \in Nat /\ B \in Nat /\ (b1 < a1 => B + z <= A) /\ (b1 = a1 => B = A)
        /\ m[b] = B + (Len(p) + 1 - b2) /\ m[at] = A + (Len(p) + 1 - a2)
    BY <2>4, <2>5, <2>6
  <2> HIDE DEF A, B
  <2>7. m[b] < m[at]
    BY <2>3, <2>a, <1>0
  <2> QED
    BY <2>1, <2>7
<1>8. h \in [S -> [[S -> V] -> V]]
  <2>1. ASSUME NEW at \in S, NEW f \in [S -> V] PROVE ReadStep(p, f, at[1], at[2], at[3]) \in V
    <3>1. \A b \in Beyond(p, size, at[1], at[2]) : f[b] \in V
      BY <1>7
    <3>2. at[1] \in J /\ at[2] \in K /\ at[3] \in R
      BY <1>1
    <3> QED
      BY <3>1, <3>2, StepTyped
  <2> HIDE DEF S, V
  <2> QED
    BY <2>1
<1>9. Local(S, V, m, h)
  <2>1. ASSUME NEW at \in S, NEW f \in [S -> V], NEW g \in [S -> V], \A b \in S : m[b] < m[at] => f[b] = g[b]
        PROVE  h[at][f] = h[at][g]
    <3>1. \A b \in Beyond(p, size, at[1], at[2]) : f[b] = g[b]
      BY <2>1, <1>7
    <3>2. at[1] \in J /\ at[2] \in K /\ at[3] \in R
      BY <1>1
    <3> DEFINE a == at[1]
               b == at[2]
               c == at[3]
    <3>a. a \in 0 .. MaxJumps /\ b \in 1 .. Len(p) + 1 /\ c \in 0 .. size /\ \A d \in Beyond(p, size, a, b) : f[d] = g[d]
      BY <3>1, <3>2
    <3> HIDE DEF a, b, c, h, S, V
    <3>b. ReadStep(p, f, a, b, c) = ReadStep(p, g, a, b, c)
      BY <3>a, StepSame
    <3>3. ReadStep(p, f, at[1], at[2], at[3]) = ReadStep(p, g, at[1], at[2], at[3])
      BY <3>b DEF a, b, c
    <3>4. h[at][f] = ReadStep(p, f, at[1], at[2], at[3]) /\ h[at][g] = ReadStep(p, g, at[1], at[2], at[3])
      BY DEF h
    <3> QED
      BY <3>3, <3>4
  <2> HIDE DEF S, V, h
  <2> QED
    BY <2>1 DEF Local
<1>10. << >> \in V
  OBVIOUS
<1>11. PICK f \in [S -> V] : \A at \in S : f[at] = h[at][f]
  <2>1. \E f : Solves(f, S, V, h)
    <3> HIDE DEF S, V, h, M
    <3> QED
      BY <1>6, <1>8, <1>9, <1>10, Solution
  <2> HIDE DEF S, V, h
  <2> QED
    BY <2>1 DEF Solves
<1>12. f = [at \in S |-> ReadStep(p, f, at[1], at[2], at[3])]
  <2> HIDE DEF S, V
  <2> QED
    BY <1>11
<1>13. N = CHOOSE g : g = [at \in S |-> ReadStep(p, g, at[1], at[2], at[3])]
  BY Zenon DEF Reading
<1>14. N = [at \in S |-> ReadStep(p, N, at[1], at[2], at[3])]
  <2> HIDE DEF S, N
  <2> QED
    BY <1>12, <1>13, Zenon
<1>15. \A at \in S : N[at] = ReadStep(p, N, at[1], at[2], at[3])
  <2> HIDE DEF S, N
  <2> QED
    BY <1>14, Zenon
<1> DEFINE T == {at \in S : N[at] \in V}
<1>16. S \subseteq T
  <2>1. ASSUME NEW at \in S, \A b \in S : m[b] < m[at] => b \in T PROVE at \in T
    <3>1. \A b \in Beyond(p, size, at[1], at[2]) : N[b] \in V
      BY <2>1, <1>7
    <3>2. at[1] \in J /\ at[2] \in K /\ at[3] \in R
      BY <1>1
    <3>3. ReadStep(p, N, at[1], at[2], at[3]) \in V
      BY <3>1, <3>2, StepTyped
    <3> QED
      BY <3>3, <1>15
  <2>2. m \in [S -> Nat]
    <3> HIDE DEF S
    <3> QED
      BY <1>6
  <2> HIDE DEF S, T
  <2> QED
    BY <2>1, <2>2, Descent
<1> DEFINE at == At(jumps, k, room)
<1>17. at \in S /\ at[1] = jumps /\ at[2] = k /\ at[3] = room
  BY <1>2
<1> HIDE DEF at, S, N
<1>18. N[at] \in V /\ N[at] = ReadStep(p, N, at[1], at[2], at[3])
  BY <1>15, <1>16, <1>17
<1>19. N[at] = ReadStep(p, N, jumps, k, room)
  BY <1>17, <1>18, Zenon
<1> QED
  BY <1>18, <1>19 DEF at, N

\* w stands in p behind the first o octets.
Lies(p, o, w) == o + Len(w) <= Len(p) /\ \A j \in 1 .. Len(w) : p[o + j] = w[j]

LEMMA NamedThere ==
  ASSUME NEW text, Fit(text), NEW p \in Seq(Byte), NEW o \in Nat, Lies(p, o, Named(text)), NEW i \in 1 .. Extent(text)
  PROVE  /\ o + i \in 1 .. Len(p) /\ p[o + i] = Named(text)[i] /\ o + i # Len(p) + 1
         /\ i = Extent(text) => Ends(p, o + i)
         /\ i # Extent(text) => ~Ends(p, o + i) /\ Literal(p, o + i) /\ p[o + i] \in 1 .. 191
<1> DEFINE X == Extent(text)
           N == Named(text)
           c == p[o + i]
<1>1. X \in Nat /\ Len(p) \in Nat /\ i \in Nat /\ i <= X /\ i >= 1
  BY FitIs, LenProperties
<1>2. Len(N) = X /\ N[X] = 0 /\ \A j \in 1 .. X - 1 : N[j] \in 1 .. 127
  BY NamedIs
<1>3. o + X <= Len(p) /\ c = N[i]
  BY <1>2, <1>1 DEF Lies
<1> HIDE DEF X, N, c
<1>4. o + i \in 1 .. Len(p) /\ o + i # Len(p) + 1
  BY <1>1, <1>3
<1>5. CASE i = X
  <2>1. c = 0
    BY <1>2, <1>3, <1>5
  <2> QED
    BY <2>1, <1>3, <1>4, <1>5 DEF Ends, X, N, c
<1>6. CASE i # X
  <2>1. i \in 1 .. X - 1
    BY <1>1, <1>6
  <2>2. c \in 1 .. 127
    BY <2>1, <1>2, <1>3
  <2>3. c # 0 /\ c \in 1 .. 191
    BY <2>2
  <2>4. ~Ends(p, o + i) /\ Literal(p, o + i)
    BY <2>3, <1>4 DEF Ends, Literal, c
  <2> QED
    BY <2>3, <2>4, <1>3, <1>4, <1>6 DEF X, N, c
<1> QED
  BY <1>5, <1>6

\* Without room nothing is read, from any octet of a name.
LEMMA NoRoom ==
  ASSUME NEW text, Fit(text), NEW p \in Seq(Byte), NEW size \in Nat, NEW o \in Nat, Lies(p, o, Named(text)),
         NEW jumps \in 0 .. MaxJumps
  PROVE  \A i \in 1 .. Extent(text) : Reading(p, size)[At(jumps, o + i, 0)] = << >>
<1> DEFINE X == Extent(text)
           f == Reading(p, size)
           S == 1 .. X
           m == [i \in S |-> X - i]
           T == {i \in S : f[At(jumps, o + i, 0)] = << >>}
<1>1. X \in Nat /\ Len(p) \in Nat
  BY FitIs, LenProperties
<1>2. m \in [S -> Nat] /\ \A i \in S : m[i] = X - i
  BY <1>1
<1>3. ASSUME NEW i \in S, \A j \in S : m[j] < m[i] => j \in T PROVE i \in T
  <2> DEFINE k == o + i
  <2>1. /\ k \in 1 .. Len(p)
        /\ i = X => Ends(p, k)
        /\ i # X => ~Ends(p, k) /\ Literal(p, k) /\ p[k] \in 1 .. 191
    BY NamedThere
  <2>2. k \in 1 .. Len(p) + 1 /\ 0 \in 0 .. size
    BY <2>1, <1>1
  <2>3. f[At(jumps, k, 0)] = ReadStep(p, f, jumps, k, 0)
    <3> HIDE DEF k
    <3> QED
      BY <2>2, ReadingIs
  <2>4. CASE i = X
    BY <2>1, <2>3, <2>4, StepEnd
  <2>5. CASE i # X
    <3>1. Held(p, k, 0) \in Nat /\ Held(p, k, 0) <= 0
      <4> HIDE DEF k
      <4>1. 0 \in Nat
        OBVIOUS
      <4> QED
        BY <2>1, <2>5, <4>1, HeldIs
    <3>2. Held(p, k, 0) = 0
      BY <3>1
    <3>3. f[At(jumps, k, 0)] = Copied(p, k, 0) \o f[Spent(p, jumps, k, 0)]
      <4> HIDE DEF k
      <4> QED
        BY <2>1, <2>3, <2>5, <3>2, StepCut
    <3>4. Copied(p, k, 0) \in Seq(Written) /\ Len(Copied(p, k, 0)) = 0
      <4> HIDE DEF k
      <4>1. 0 \in Nat
        OBVIOUS
      <4> QED
        BY <2>1, <2>5, <4>1, <3>2, PieceIs
    <3>5. Copied(p, k, 0) = << >>
      BY <3>4, EmptySeq
    <3>6. i + 1 \in S /\ m[i + 1] < m[i] /\ k + 0 + 1 = o + (i + 1)
      BY <1>1, <1>2, <2>5
    <3>7. i + 1 \in T
      <4> HIDE DEF S, T, m
      <4> QED
        BY <3>6, <1>3
    <3>8. f[Spent(p, jumps, k, 0)] = << >>
      BY <3>2, <3>6, <3>7 DEF Spent
    <3>9. f[At(jumps, k, 0)] = << >> \o << >>
      <4> HIDE DEF f, k
      <4> QED
        BY <3>3, <3>5, <3>8
    <3>10. << >> \o << >> = << >>
      OBVIOUS
    <3> QED
      BY <3>9, <3>10
  <2> QED
    BY <2>4, <2>5
<1>4. S \subseteq T
  <2> HIDE DEF S, T, m
  <2> QED
    BY <1>2, <1>3, Descent
<1> QED
  BY <1>4

Shorter(a, b) == IF a <= b THEN a ELSE b

\* The characters that are read of a name, which has a dot at its end.
LineAt(text, j) == IF j = Extent(text) - 1 THEN Dot ELSE text[j]

\* w is what is read from character i on if there is so much room.
Shows(text, i, room, w) ==
  /\ w \in Seq(Written) /\ Len(w) = Shorter(room, Extent(text) - i)
  /\ \A q \in 1 .. Len(w) : w[q] = LineAt(text, i + q - 1)

LEMMA DotBetween ==
  ASSUME NEW a \in Seq(Written), NEW v \in Seq(Written)
  PROVE  /\ a \o (<<Dot>> \o v) \in Seq(Written) /\ Len(a \o (<<Dot>> \o v)) = Len(a) + 1 + Len(v)
         /\ \A q \in 1 .. Len(a) : (a \o (<<Dot>> \o v))[q] = a[q]
         /\ (a \o (<<Dot>> \o v))[Len(a) + 1] = Dot
         /\ \A q \in 1 .. Len(v) : (a \o (<<Dot>> \o v))[Len(a) + 1 + q] = v[q]
<1> DEFINE d == <<Dot>>
           b == d \o v
           w == a \o b
           V == Seq(Written)
<1>1. d \in V /\ Len(d) = 1 /\ d[1] = Dot
  BY Narrow
<1>2. Len(a) \in Nat /\ Len(v) \in Nat
  BY LenProperties
<1> HIDE DEF d
<1>a. v \in V
  OBVIOUS
<1> HIDE DEF V
<1>b. /\ b \in V /\ Len(b) = Len(d) + Len(v)
      /\ \A q \in 1 .. Len(d) + Len(v) : b[q] = IF q <= Len(d) THEN d[q] ELSE v[q - Len(d)]
  BY <1>1, <1>a, ConcatProperties, Zenon DEF V
<1> HIDE DEF b
<1>3. /\ b \in V /\ Len(b) = 1 + Len(v)
      /\ \A q \in 1 .. 1 + Len(v) : b[q] = IF q <= 1 THEN d[q] ELSE v[q - 1]
  BY <1>1, <1>2, <1>b
<1> USE DEF V
<1>4. /\ w \in V /\ Len(w) = Len(a) + Len(b)
      /\ \A q \in 1 .. Len(a) + Len(b) : w[q] = IF q <= Len(a) THEN a[q] ELSE b[q - Len(a)]
  BY <1>3, ConcatProperties
<1> HIDE DEF w
<1>5. \A q \in 1 .. Len(a) : w[q] = a[q]
  BY <1>2, <1>3, <1>4
<1>6. w[Len(a) + 1] = Dot
  <2>1. w[Len(a) + 1] = b[1]
    <3>1. Len(a) + 1 \in 1 .. Len(a) + Len(b) /\ ~(Len(a) + 1 <= Len(a)) /\ Len(a) + 1 - Len(a) = 1
      BY <1>2, <1>3
    <3> QED
      BY <3>1, <1>4
  <2>2. b[1] = d[1]
    BY <1>2, <1>3
  <2> QED
    BY <2>1, <2>2, <1>1
<1>7. ASSUME NEW q \in 1 .. Len(v) PROVE w[Len(a) + 1 + q] = v[q]
  <2> DEFINE r == Len(a) + 1 + q
  <2>1. r \in 1 .. Len(a) + Len(b) /\ ~(r <= Len(a)) /\ r - Len(a) = q + 1
    BY <1>2, <1>3
  <2> HIDE DEF r
  <2>2. w[r] = b[r - Len(a)]
    BY <1>4, <2>1
  <2>3. q + 1 \in 1 .. 1 + Len(v) /\ ~(q + 1 <= 1) /\ q + 1 - 1 = q
    BY <1>2
  <2>4. b[q + 1] = v[q + 1 - 1]
    BY <1>3, <2>3
  <2> QED
    BY <2>1, <2>2, <2>3, <2>4 DEF r
<1> QED
  BY <1>2, <1>3, <1>4, <1>5, <1>6, <1>7 DEF w, b, d

\* A name is read as it was written, from any of its labels on.
LEMMA LineRead ==
  ASSUME NEW text, Fit(text), NEW p \in Seq(Byte), NEW size \in Nat, NEW o \in Nat, Lies(p, o, Named(text)),
         NEW jumps \in 0 .. MaxJumps
  PROVE  \A i \in 1 .. Extent(text) : Start(text, i) =>
           \A room \in 0 .. size : Shows(text, i, room, Reading(p, size)[At(jumps, o + i, room)])
<1> DEFINE X == Extent(text)
           f == Reading(p, size)
           N == Named(text)
           S == {i \in 1 .. X : Start(text, i)}
           m == [i \in S |-> X - i]
           T == {i \in S : \A room \in 0 .. size : Shows(text, i, room, f[At(jumps, o + i, room)])}
<1>1. X \in Nat /\ Len(p) \in Nat /\ X >= 1
  BY FitIs, LenProperties
<1>2. m \in [S -> Nat] /\ \A i \in S : m[i] = X - i
  BY <1>1
<1>a. o + X <= Len(p)
  BY NamedIs DEF Lies
<1>3. ASSUME NEW i \in S, \A j \in S : m[j] < m[i] => j \in T, NEW room \in 0 .. size
      PROVE  Shows(text, i, room, f[At(jumps, o + i, room)])
  <2> DEFINE k == o + i
             w == f[At(jumps, k, room)]
  <2>0. i \in 1 .. X /\ Start(text, i) /\ room \in Nat /\ i \in Nat
    BY <1>1
  <2>1. /\ k \in 1 .. Len(p) /\ p[k] = N[i]
        /\ i = X => Ends(p, k)
        /\ i # X => ~Ends(p, k) /\ Literal(p, k) /\ p[k] \in 1 .. 191
    BY <2>0, NamedThere
  <2>2. k \in 1 .. Len(p) + 1
    BY <2>1, <1>1
  <2>3. w = ReadStep(p, f, jumps, k, room) /\ w \in Seq(Written)
    <3> HIDE DEF k
    <3> QED
      BY <2>2, ReadingIs
  <2>4. CASE i = X
    <3>1. w = << >>
      <4> HIDE DEF k, f
      <4> QED
        BY <2>1, <2>3, <2>4, StepEnd
    <3> HIDE DEF w
    <3>2. Len(w) = 0 /\ Shorter(room, X - i) = 0
      BY <3>1, <2>0, <2>4, <1>1 DEF Shorter
    <3>3. Shows(text, i, room, w)
      BY <2>3, <3>2 DEF Shows
    <3> QED
      BY <3>3 DEF w
  <2>5. CASE i # X
    <3> DEFINE e == LabelEnd(text, i)
               h == Held(p, k, room)
               c == Copied(p, k, room)
    <3>1. /\ i \in 1 .. X - 2 /\ e \in i + 1 .. X - 1 /\ e - i \in 1 .. 63
          /\ e <= X - 2 => text[e] = Dot
          /\ Start(text, e + 1)
      BY <2>0, <2>5, LabelIs
    <3>2. N[i] = e - i /\ \A j \in i + 1 .. e : N[j] = text[j - 1]
      BY <2>0, <2>5, NamedIs
    <3>3. /\ h \in Nat /\ h <= room /\ h <= p[k] /\ (h = p[k] \/ h = Len(p) - k \/ h = room)
      <4> HIDE DEF k
      <4> QED
        BY <2>0, <2>1, <2>5, HeldIs
    <3>4. c \in Seq(Written) /\ Len(c) = h /\ \A j \in 1 .. h : c[j] = p[k + j]
      <4> HIDE DEF k
      <4> QED
        BY <2>0, <2>1, <2>5, PieceIs
    <3> HIDE DEF e, h, c, N
    <3>5. e \in Nat /\ e <= X - 1 /\ i < e /\ i >= 1 /\ h <= e - i /\ (h = e - i \/ h = room)
      BY <3>1, <3>2, <3>3, <2>0, <2>1, <1>1, <1>a
    <3>6. \A j \in 1 .. h : c[j] = LineAt(text, i + j - 1)
      <4> TAKE j \in 1 .. h
      <4> DEFINE g == i + j
      <4>1. g \in 1 .. X /\ g \in i + 1 .. e /\ k + j = o + g /\ i + j - 1 = g - 1 /\ g - 1 # X - 1
        BY <3>5, <1>1, <2>0, <3>3
      <4> HIDE DEF g, k
      <4>2. p[o + g] = N[g]
        BY <4>1, NamedThere DEF N
      <4>3. N[g] = text[g - 1]
        BY <4>1, <3>2
      <4>4. LineAt(text, g - 1) = text[g - 1]
        BY <4>1 DEF LineAt
      <4>5. c[j] = p[o + g]
        BY <4>1, <3>4
      <4> QED
        BY <4>1, <4>2, <4>3, <4>4, <4>5
    <3>7. CASE h = room
      <4>1. w = c \o f[Spent(p, jumps, k, room)]
        <5> HIDE DEF k, f
        <5> QED
          BY <2>1, <2>3, <2>5, <3>7, StepCut DEF h, c
      <4> DEFINE g == i + h + 1
      <4>2. g \in 1 .. X /\ k + h + 1 = o + g
        BY <3>5, <3>3, <1>1, <2>0
      <4> HIDE DEF g
      <4>3. f[At(jumps, o + g, 0)] = << >>
        BY <4>2, NoRoom
      <4>4. f[Spent(p, jumps, k, room)] = << >>
        BY <4>2, <4>3 DEF Spent, h
      <4>5. w = c
        <5> HIDE DEF w, f
        <5>1. w = c \o << >>
          BY <4>1, <4>4
        <5>2. c \o << >> = c
          BY <3>4
        <5> QED
          BY <5>1, <5>2
      <4>6. Shorter(room, X - i) = h
        BY <3>5, <3>7, <2>0, <1>1 DEF Shorter
      <4> HIDE DEF w
      <4>7. Shows(text, i, room, w)
        BY <4>5, <4>6, <3>4, <3>6 DEF Shows
      <4> QED
        BY <4>7 DEF w
    <3>8. CASE h # room
      <4> DEFINE v == f[Further(p, jumps, k, room)]
                 r == room - h - 1
                 g == e + 1
      <4>1. w = c \o (<<Dot>> \o v)
        <5> HIDE DEF k, f
        <5> QED
          BY <2>1, <2>3, <2>5, <3>8, StepOn DEF h, c
      <4>2. h = e - i /\ g \in 1 .. X /\ k + h + 1 = o + g /\ r \in 0 .. size /\ r \in Nat
        BY <3>5, <3>3, <3>8, <1>1, <2>0
      <4>3. g \in S /\ m[g] < m[i]
        BY <4>2, <3>1, <3>5, <1>2, <1>1, <2>0
      <4>4. g \in T
        <5> HIDE DEF S, T, m, g
        <5> QED
          BY <4>3, <1>3
      <4>5. Shows(text, g, r, f[At(jumps, o + g, r)])
        <5> HIDE DEF f, g, r
        <5> QED
          BY <4>4, <4>2 DEF T
      <4>6. v = f[At(jumps, o + g, r)]
        BY <4>2 DEF Further, h
      <4>7. /\ v \in Seq(Written) /\ Len(v) = Shorter(r, X - g)
            /\ \A q \in 1 .. Len(v) : v[q] = LineAt(text, g + q - 1)
        <5> HIDE DEF f, g, r, v
        <5> QED
          BY <4>5, <4>6 DEF Shows
      <4> HIDE DEF v, w
      <4>8. /\ Len(w) = Len(c) + 1 + Len(v)
            /\ \A q \in 1 .. Len(c) : w[q] = c[q]
            /\ w[Len(c) + 1] = Dot
            /\ \A q \in 1 .. Len(v) : w[Len(c) + 1 + q] = v[q]
        BY <4>1, <4>7, <3>4, DotBetween
      <4>9. Len(w) = Shorter(room, X - i) /\ Len(v) \in Nat
        <5>1. Len(v) = IF r <= X - g THEN r ELSE X - g
          BY <4>7 DEF Shorter
        <5>2. Len(w) = h + 1 + Len(v)
          BY <4>8, <3>4
        <5>3. h = e - i /\ e \in Nat /\ i \in Nat /\ room \in Nat /\ X \in Nat /\ i < e /\ e <= X - 1 /\ h <= room /\ h # room
          BY <4>2, <3>3, <3>5, <3>8, <2>0, <1>1
        <5> HIDE DEF X, r, g
        <5>4. r = room - h - 1 /\ g = e + 1
          BY DEF r, g
        <5>5. Len(w) = IF room <= X - i THEN room ELSE X - i
          BY <5>1, <5>2, <5>3, <5>4
        <5>6. Len(v) \in Nat
          BY <5>1, <5>3, <5>4
        <5> QED
          BY <5>5, <5>6 DEF Shorter
      <4>10. LineAt(text, e) = Dot
        BY <3>1, <3>5, <1>1 DEF LineAt
      <4>11. ASSUME NEW q \in 1 .. Len(w) PROVE w[q] = LineAt(text, i + q - 1)
        <5>0. q \in Nat /\ q >= 1 /\ q <= h + 1 + Len(v)
          BY <4>8, <4>9, <3>4, <3>3
        <5>1. CASE q <= h
          <6>1. q \in 1 .. h /\ q \in 1 .. Len(c)
            BY <5>0, <5>1, <3>3, <3>4
          <6> QED
            BY <6>1, <4>8, <3>6
        <5>2. CASE q = h + 1
          <6>1. i + q - 1 = e /\ q = Len(c) + 1
            <7>1. h = e - i /\ e \in Nat /\ i \in Nat
              BY <4>2, <3>3, <3>5, <2>0
            <7>2. Len(c) = h
              BY <3>4
            <7> HIDE DEF h, e, c
            <7> QED
              BY <5>2, <7>1, <7>2
          <6> QED
            BY <6>1, <4>8, <4>10
        <5>3. CASE q > h + 1
          <6> DEFINE z == q - (h + 1)
          <6>1. z \in 1 .. Len(v) /\ Len(c) + 1 + z = q /\ g + z - 1 = i + q - 1
            BY <5>0, <5>3, <4>2, <4>9, <3>3, <3>4, <3>5, <2>0
          <6> HIDE DEF z, g
          <6>2. w[Len(c) + 1 + z] = v[z] /\ v[z] = LineAt(text, g + z - 1)
            BY <6>1, <4>7, <4>8
          <6> QED
            BY <6>1, <6>2
        <5> QED
          BY <5>0, <5>1, <5>2, <5>3, <3>3
      <4>12. Shows(text, i, room, w)
        BY <4>9, <4>11, <2>3 DEF Shows, w
      <4> QED
        BY <4>12 DEF w
    <3> QED
      BY <3>7, <3>8
  <2> QED
    BY <2>4, <2>5
<1>4. S \subseteq T
  <2>1. ASSUME NEW i \in S, \A j \in S : m[j] < m[i] => j \in T PROVE i \in T
    BY <2>1, <1>3
  <2> HIDE DEF S, T, m
  <2> QED
    BY <1>2, <2>1, Descent
<1> QED
  BY <1>4

----------------------------------------------------------------------------
(* What stands in a packet.                                                *)

LEMMA Both ==
  ASSUME NEW V, NEW a \in Seq(V), NEW b \in Seq(V)
  PROVE  /\ a \o b \in Seq(V) /\ Len(a \o b) = Len(a) + Len(b)
         /\ \A q \in 1 .. Len(a) : (a \o b)[q] = a[q]
         /\ \A q \in 1 .. Len(b) : (a \o b)[Len(a) + q] = b[q]
<1> DEFINE w == a \o b
<1>1. Len(a) \in Nat /\ Len(b) \in Nat
  BY LenProperties
<1>2. /\ w \in Seq(V) /\ Len(w) = Len(a) + Len(b)
      /\ \A q \in 1 .. Len(a) + Len(b) : w[q] = IF q <= Len(a) THEN a[q] ELSE b[q - Len(a)]
  BY ConcatProperties, Zenon
<1> HIDE DEF w
<1>3. \A q \in 1 .. Len(a) : w[q] = a[q]
  BY <1>1, <1>2
<1>4. ASSUME NEW q \in 1 .. Len(b) PROVE w[Len(a) + q] = b[q]
  <2> DEFINE r == Len(a) + q
  <2>1. r \in 1 .. Len(a) + Len(b) /\ ~(r <= Len(a)) /\ r - Len(a) = q
    BY <1>1
  <2> HIDE DEF r
  <2>2. w[r] = b[r - Len(a)]
    BY <1>2, <2>1
  <2> QED
    BY <2>1, <2>2 DEF r
<1> QED
  BY <1>2, <1>3, <1>4 DEF w

LEMMA LiesBoth ==
  ASSUME NEW V, NEW p, Len(p) \in Nat, NEW o \in Nat, NEW a \in Seq(V), NEW b \in Seq(V), Lies(p, o, a \o b)
  PROVE  Lies(p, o, a) /\ Lies(p, o + Len(a), b)
<1> DEFINE w == a \o b
<1>1. Len(a) \in Nat /\ Len(b) \in Nat
  BY LenProperties
<1>2. /\ Len(w) = Len(a) + Len(b)
      /\ \A q \in 1 .. Len(a) : w[q] = a[q]
      /\ \A q \in 1 .. Len(b) : w[Len(a) + q] = b[q]
  BY Both
<1>3. o + Len(w) <= Len(p) /\ \A j \in 1 .. Len(w) : p[o + j] = w[j]
  BY DEF Lies
<1> HIDE DEF w
<1>4. Lies(p, o, a)
  BY <1>1, <1>2, <1>3 DEF Lies
<1>5. ASSUME NEW j \in 1 .. Len(b) PROVE p[o + Len(a) + j] = b[j]
  <2> DEFINE r == Len(a) + j
  <2>1. r \in 1 .. Len(w) /\ o + r = o + Len(a) + j
    BY <1>1, <1>2
  <2> HIDE DEF r
  <2>2. p[o + r] = w[r]
    BY <2>1, <1>3
  <2>3. w[r] = b[j]
    BY <1>2 DEF r
  <2> QED
    BY <2>1, <2>2, <2>3
<1>6. Lies(p, o + Len(a), b)
  BY <1>1, <1>2, <1>3, <1>5 DEF Lies
<1> QED
  BY <1>4, <1>6

LEMMA InNumber ==
  ASSUME NEW z \in Int, z >= 0, z <= 65535
  PROVE  z \in Number
<1> SUFFICES ASSUME ~(z \in Number) PROVE FALSE
  OBVIOUS
<1>1. z < 0 \/ z > 65535
  BY DEF Number
<1> QED
  BY <1>1

LEMMA Halves ==
  ASSUME NEW n \in Number
  PROVE  /\ n \div 256 \in Byte /\ n % 256 \in Byte
         /\ (n \div 256) * 256 + (n % 256) = n
<1>1. n \in Int /\ n >= 0 /\ n <= 65535
  BY DEF Number
<1>2. n \div 256 \in Int /\ n \div 256 >= 0 /\ n \div 256 <= 255
  BY <1>1
<1>3. n % 256 \in Int /\ n % 256 >= 0 /\ n % 256 <= 255
  BY <1>1
<1>4. (n \div 256) * 256 + (n % 256) = n
  <2>1. \A x \in Nat : (x \div 256) * 256 + (x % 256) = x
    OBVIOUS
  <2>2. n \in Nat
    BY <1>1
  <2> QED
    BY <2>1, <2>2
<1>5. n \div 256 \in Byte
  BY <1>2 DEF Byte
<1>6. n % 256 \in Byte
  BY <1>3 DEF Byte
<1> QED
  BY <1>4, <1>5, <1>6

LEMMA ShortIs ==
  ASSUME NEW n \in Number
  PROVE  PutShort(n) \in Seq(Byte) /\ Len(PutShort(n)) = 2
<1>1. n \div 256 \in Byte /\ n % 256 \in Byte
  BY Halves
<1> QED
  BY <1>1 DEF PutShort

LEMMA LiesShort ==
  ASSUME NEW n \in Number, NEW p, NEW o \in Nat, Lies(p, o, PutShort(n))
  PROVE  Short(p, o + 1) = n
<1> DEFINE w == PutShort(n)
<1>1. Len(w) = 2 /\ w[1] = n \div 256 /\ w[2] = n % 256
  BY DEF PutShort
<1> HIDE DEF w
<1>2. \A j \in 1 .. 2 : p[o + j] = w[j]
  BY <1>1 DEF Lies, w
<1>3. p[o + 1] = n \div 256 /\ p[o + 2] = n % 256
  <2>1. p[o + 1] = w[1]
    BY <1>2
  <2>2. p[o + 2] = w[2]
    BY <1>2
  <2> QED
    BY <1>1, <2>1, <2>2
<1>4. o + 1 + 1 = o + 2
  OBVIOUS
<1> DEFINE x == n \div 256
           y == n % 256
<1>a. p[o + 1] = x /\ p[o + 1 + 1] = y
  BY <1>3, <1>4
<1> HIDE DEF x, y
<1>b. Short(p, o + 1) = x * 256 + y
  BY <1>a DEF Short
<1>5. Short(p, o + 1) = (n \div 256) * 256 + (n % 256)
  BY <1>b DEF x, y
<1> QED
  BY <1>5, Halves, Zenon

\* The flags share a short.
LEMMA FlagsApart ==
  ASSUME NEW v, \A f \in DOMAIN Unit : v[f] \in 0 .. Count[f] - 1
  PROVE  Together(v) \in Number /\ \A f \in DOMAIN Unit : Flag(Together(v), f) = v[f]
<1> DEFINE a == v.qr
           b == v.opcode
           c == v.aa
           d == v.tc
           e == v.rd
           g == v.ra
           h == v.z
           k == v.rcode
           t == Together(v)
<1>1. DOMAIN Unit = {"qr", "opcode", "aa", "tc", "rd", "ra", "z", "rcode"}
  BY DEF Unit
<1>2. /\ Unit.qr = 32768 /\ Unit.opcode = 2048 /\ Unit.aa = 1024 /\ Unit.tc = 512
      /\ Unit.rd = 256 /\ Unit.ra = 128 /\ Unit.z = 16 /\ Unit.rcode = 1
  BY DEF Unit
<1>3. /\ Count.qr = 2 /\ Count.opcode = 16 /\ Count.aa = 2 /\ Count.tc = 2
      /\ Count.rd = 2 /\ Count.ra = 2 /\ Count.z = 8 /\ Count.rcode = 16
  BY DEF Count
<1>4. /\ a \in 0 .. 1 /\ b \in 0 .. 15 /\ c \in 0 .. 1 /\ d \in 0 .. 1
      /\ e \in 0 .. 1 /\ g \in 0 .. 1 /\ h \in 0 .. 7 /\ k \in 0 .. 15
  BY <1>1, <1>3
<1>5. t = a * 32768 + b * 2048 + c * 1024 + d * 512 + e * 256 + g * 128 + h * 16 + k * 1
  BY <1>2 DEF Together
<1> HIDE DEF a, b, c, d, e, g, h, k, t
<1>a. /\ a \in Int /\ b \in Int /\ c \in Int /\ d \in Int /\ e \in Int /\ g \in Int /\ h \in Int /\ k \in Int
      /\ a >= 0 /\ a <= 1 /\ b >= 0 /\ b <= 15 /\ c >= 0 /\ c <= 1 /\ d >= 0 /\ d <= 1
      /\ e >= 0 /\ e <= 1 /\ g >= 0 /\ g <= 1 /\ h >= 0 /\ h <= 7 /\ k >= 0 /\ k <= 15
  BY <1>4
<1>b. t \in Int /\ t >= 0 /\ t <= 65535
  BY <1>a, <1>5
<1>6. t \in Number
  BY <1>b, InNumber
<1>c. (t \div 32768) % 2 = a /\ (t \div 2048) % 16 = b
  BY <1>a, <1>5
<1>d. (t \div 1024) % 2 = c /\ (t \div 512) % 2 = d
  BY <1>a, <1>5
<1>e. (t \div 256) % 2 = e /\ (t \div 128) % 2 = g
  BY <1>a, <1>5
<1>f. (t \div 16) % 8 = h /\ (t \div 1) % 16 = k
  BY <1>a, <1>5
<1>7. /\ (t \div 32768) % 2 = a /\ (t \div 2048) % 16 = b /\ (t \div 1024) % 2 = c /\ (t \div 512) % 2 = d
      /\ (t \div 256) % 2 = e /\ (t \div 128) % 2 = g /\ (t \div 16) % 8 = h /\ (t \div 1) % 16 = k
  BY <1>c, <1>d, <1>e, <1>f
<1>8. /\ Flag(t, "qr") = a /\ Flag(t, "opcode") = b /\ Flag(t, "aa") = c /\ Flag(t, "tc") = d
      /\ Flag(t, "rd") = e /\ Flag(t, "ra") = g /\ Flag(t, "z") = h /\ Flag(t, "rcode") = k
  BY <1>2, <1>3, <1>7 DEF Flag
<1> QED
  BY <1>1, <1>6, <1>8 DEF t, a, b, c, d, e, g, h, k

\* c is a, and b behind it.
LEMMA LiesGrown ==
  ASSUME NEW V, NEW a \in Seq(V), NEW b \in Seq(V), NEW c, c = a \o b,
         NEW p, Len(p) \in Nat, NEW o \in Nat, Lies(p, o, c)
  PROVE  Lies(p, o, a) /\ Lies(p, o + Len(a), b)
<1>1. Lies(p, o, a \o b)
  BY Zenon
<1> QED
  BY <1>1, LiesBoth

\* A header that can be sent.
Headed(h) ==
  /\ h = [id |-> h.id, flags |-> h.flags, qd |-> h.qd, an |-> h.an, ns |-> h.ns, ar |-> h.ar]
  /\ h.id \in Number /\ h.qd \in Number /\ h.an \in Number /\ h.ns \in Number /\ h.ar \in Number
  /\ h.flags \in [DOMAIN Unit -> Nat] /\ \A f \in DOMAIN Unit : h.flags[f] \in 0 .. Count[f] - 1

\* The octets of a header are read as they were written.
LEMMA HeaderIs ==
  ASSUME NEW h, Headed(h)
  PROVE  /\ Dump(h) \in Seq(Byte) /\ Len(Dump(h)) = 12
         /\ \A p : Len(p) \in Nat /\ Lies(p, 0, Dump(h)) => Parse(p) = h
<1> DEFINE t == Together(h.flags)
           a1 == PutShort(h.id)
           a2 == PutShort(t)
           a3 == PutShort(h.qd)
           a4 == PutShort(h.an)
           a5 == PutShort(h.ns)
           a6 == PutShort(h.ar)
<1>1. t \in Number /\ \A f \in DOMAIN Unit : Flag(t, f) = h.flags[f]
  BY FlagsApart DEF Headed
<1>2. /\ a1 \in Seq(Byte) /\ Len(a1) = 2 /\ a2 \in Seq(Byte) /\ Len(a2) = 2 /\ a3 \in Seq(Byte) /\ Len(a3) = 2
      /\ a4 \in Seq(Byte) /\ Len(a4) = 2 /\ a5 \in Seq(Byte) /\ Len(a5) = 2 /\ a6 \in Seq(Byte) /\ Len(a6) = 2
  <2> HIDE DEF t
  <2> QED
    BY <1>1, ShortIs DEF Headed
<1>3. Dump(h) = ((((a1 \o a2) \o a3) \o a4) \o a5) \o a6
  BY Zenon DEF Dump
<1> HIDE DEF a1, a2, a3, a4, a5, a6, t
<1>f. PICK b2 : b2 = a1 \o a2
  OBVIOUS
<1>4. b2 \in Seq(Byte) /\ Len(b2) = 4
  <2>a. a1 \in Seq(Byte) /\ a2 \in Seq(Byte)
    BY <1>2, Zenon
  <2>1. a1 \o a2 \in Seq(Byte) /\ Len(a1 \o a2) = Len(a1) + Len(a2)
    BY <2>a, Both
  <2>2. b2 \in Seq(Byte) /\ Len(b2) = Len(a1) + Len(a2)
    BY <2>1, <1>f, Zenon
  <2> QED
    BY <2>2, <1>2
<1>e. PICK b3 : b3 = b2 \o a3
  OBVIOUS
<1>5. b3 \in Seq(Byte) /\ Len(b3) = 6
  <2>a. b2 \in Seq(Byte) /\ a3 \in Seq(Byte)
    BY <1>2, <1>4, Zenon
  <2>1. b2 \o a3 \in Seq(Byte) /\ Len(b2 \o a3) = Len(b2) + Len(a3)
    BY <2>a, Both
  <2>2. b3 \in Seq(Byte) /\ Len(b3) = Len(b2) + Len(a3)
    BY <2>1, <1>e, Zenon
  <2> QED
    BY <2>2, <1>2, <1>4
<1>d. PICK b4 : b4 = b3 \o a4
  OBVIOUS
<1>6. b4 \in Seq(Byte) /\ Len(b4) = 8
  <2>a. b3 \in Seq(Byte) /\ a4 \in Seq(Byte)
    BY <1>2, <1>5, Zenon
  <2>1. b3 \o a4 \in Seq(Byte) /\ Len(b3 \o a4) = Len(b3) + Len(a4)
    BY <2>a, Both
  <2>2. b4 \in Seq(Byte) /\ Len(b4) = Len(b3) + Len(a4)
    BY <2>1, <1>d, Zenon
  <2> QED
    BY <2>2, <1>2, <1>5
<1>c. PICK b5 : b5 = b4 \o a5
  OBVIOUS
<1>7. b5 \in Seq(Byte) /\ Len(b5) = 10
  <2>a. b4 \in Seq(Byte) /\ a5 \in Seq(Byte)
    BY <1>2, <1>6, Zenon
  <2>1. b4 \o a5 \in Seq(Byte) /\ Len(b4 \o a5) = Len(b4) + Len(a5)
    BY <2>a, Both
  <2>2. b5 \in Seq(Byte) /\ Len(b5) = Len(b4) + Len(a5)
    BY <2>1, <1>c, Zenon
  <2> QED
    BY <2>2, <1>2, <1>6
<1>b. PICK b6 : b6 = b5 \o a6
  OBVIOUS
<1>8. b6 \in Seq(Byte) /\ Len(b6) = 12
  <2>a. b5 \in Seq(Byte) /\ a6 \in Seq(Byte)
    BY <1>2, <1>7, Zenon
  <2>1. b5 \o a6 \in Seq(Byte) /\ Len(b5 \o a6) = Len(b5) + Len(a6)
    BY <2>a, Both
  <2>2. b6 \in Seq(Byte) /\ Len(b6) = Len(b5) + Len(a6)
    BY <2>1, <1>b, Zenon
  <2> QED
    BY <2>2, <1>2, <1>7
<1>a. Dump(h) = b6
  BY <1>3, <1>b, <1>c, <1>d, <1>e, <1>f, Zenon
<1>9. ASSUME NEW p, Len(p) \in Nat, Lies(p, 0, Dump(h)) PROVE Parse(p) = h
  <2>1. Lies(p, 0, b5) /\ Lies(p, 0 + 10, a6)
    BY <1>2, <1>7, <1>9, <1>a, <1>b, LiesGrown
  <2>2. Lies(p, 0, b4) /\ Lies(p, 0 + 8, a5)
    BY <1>2, <1>6, <1>9, <2>1, <1>c, LiesGrown
  <2>3. Lies(p, 0, b3) /\ Lies(p, 0 + 6, a4)
    BY <1>2, <1>5, <1>9, <2>2, <1>d, LiesGrown
  <2>4. Lies(p, 0, b2) /\ Lies(p, 0 + 4, a3)
    BY <1>2, <1>4, <1>9, <2>3, <1>e, LiesGrown
  <2>5. Lies(p, 0, a1) /\ Lies(p, 0 + 2, a2)
    BY <1>2, <1>9, <2>4, <1>f, LiesGrown
  <2>6. Short(p, 1) = h.id /\ Short(p, 3) = t
    <3>1. Short(p, 0 + 1) = h.id
      BY <2>5, LiesShort DEF Headed, a1
    <3>2. Short(p, 0 + 2 + 1) = t
      BY <2>5, <1>1, LiesShort DEF a2
    <3> QED
      BY <3>1, <3>2
  <2>7. Short(p, 5) = h.qd /\ Short(p, 7) = h.an
    <3>1. Short(p, 0 + 4 + 1) = h.qd
      BY <2>4, LiesShort DEF Headed, a3
    <3>2. Short(p, 0 + 6 + 1) = h.an
      BY <2>3, LiesShort DEF Headed, a4
    <3> QED
      BY <3>1, <3>2
  <2>8. Short(p, 9) = h.ns /\ Short(p, 11) = h.ar
    <3>1. Short(p, 0 + 8 + 1) = h.ns
      BY <2>2, LiesShort DEF Headed, a5
    <3>2. Short(p, 0 + 10 + 1) = h.ar
      BY <2>1, LiesShort DEF Headed, a6
    <3> QED
      BY <3>1, <3>2
  <2> DEFINE g == [f \in DOMAIN Unit |-> Flag(Short(p, 3), f)]
  <2>9. g = h.flags
    <3>1. \A f \in DOMAIN Unit : g[f] = h.flags[f]
      BY <2>6, <1>1
    <3> QED
      BY <3>1 DEF Headed
  <2>10. Parse(p) = [id |-> Short(p, 1), flags |-> g, qd |-> Short(p, 5), an |-> Short(p, 7), ns |-> Short(p, 9), ar |-> Short(p, 11)]
    BY Zenon DEF Parse
  <2> HIDE DEF g
  <2>11. Parse(p) = [id |-> h.id, flags |-> h.flags, qd |-> h.qd, an |-> h.an, ns |-> h.ns, ar |-> h.ar]
    BY <2>6, <2>7, <2>8, <2>9, <2>10
  <2> QED
    BY <2>11, Zenon DEF Headed
<1> QED
  BY <1>8, <1>9, <1>a

LEMMA StartOne == ASSUME NEW text, Fit(text) PROVE 1 \in 1 .. Extent(text) /\ Start(text, 1)
<1>1. Extent(text) \in Nat /\ (Extent(text) = 1 \/ Extent(text) >= 3)
  BY FitIs
<1> QED
  BY <1>1 DEF Start

----------------------------------------------------------------------------
(* A name, written and read.                                               *)

LEMMA PutFits ==
  ASSUME NEW text, Fit(text), NEW room \in Int
  PROVE  /\ Extent(text) <= room => PutName(text, room) = Named(text)
         /\ ~(Extent(text) <= room) => PutName(text, room) = <<Bad>>
<1> DEFINE w == From(text)[1]
           N == Named(text)
<1>1. w = N
  BY FromNamed
<1>2. Len(N) = Extent(text) /\ N[Extent(text)] = 0 /\ Extent(text) \in Nat
  BY NamedIs, FitIs
<1>3. PutName(text, room) = IF Last(w) = Bad \/ Len(w) > room THEN <<Bad>> ELSE w
  BY PutIs, Zenon
<1> HIDE DEF w, N
<1>4. Last(N) # Bad
  BY <1>2 DEF Last, Bad
<1>5. ~(Extent(text) <= room) <=> Len(N) > room
  BY <1>2
<1>6. Extent(text) <= room => PutName(text, room) = N
  BY <1>1, <1>3, <1>4, <1>5
<1>7. ~(Extent(text) <= room) => PutName(text, room) = <<Bad>>
  BY <1>1, <1>3, <1>4, <1>5
<1> QED
  BY <1>6, <1>7 DEF N

LEMMA PutFails ==
  ASSUME NEW text \in Seq(1 .. 127), text # << >>, ~Proper(text), NEW room
  PROVE  PutName(text, room) = <<Bad>>
<1>1. Len(text) \in Nat /\ Len(text) # 0
  BY LenProperties, EmptySeq
<1>2. 1 \in 1 .. Len(text)
  BY <1>1
<1>3. Improper(text, 1)
  <2>1. text[1] = Dot \/ \E n \in 2 .. Len(text) : text[n] = Dot /\ text[n - 1] = Dot
    BY DEF Proper
  <2>2. 1 + 1 = 2
    OBVIOUS
  <2> QED
    BY <2>1, <2>2 DEF Improper
<1>4. Last(From(text)[1]) = Bad
  BY <1>2, <1>3, FromImproper
<1> QED
  BY <1>4, PutIs, Zenon

\* A name is skipped as a whole.
LEMMA NameSkipped ==
  ASSUME NEW text, Fit(text), NEW p \in Seq(Byte), NEW o \in Nat, Lies(p, o, Named(text))
  PROVE  SkipName(p, o + 1) = o + Extent(text) + 1
<1> DEFINE X == Extent(text)
           N == Named(text)
           S == {i \in 1 .. X : Start(text, i)}
           m == [i \in S |-> X - i]
           T == {i \in S : Past(p)[o + i] = o + X + 1}
<1>1. X \in Nat /\ Len(p) \in Nat /\ X >= 1
  BY FitIs, LenProperties
<1>2. m \in [S -> Nat] /\ \A i \in S : m[i] = X - i
  BY <1>1
<1>3. o + X <= Len(p)
  BY NamedIs DEF Lies
<1>4. ASSUME NEW i \in S, \A j \in S : m[j] < m[i] => j \in T PROVE Past(p)[o + i] = o + X + 1
  <2> DEFINE k == o + i
  <2>1. k \in 1 .. Len(p) /\ p[k] = N[i] /\ k # Len(p) + 1 /\ k \in 1 .. Len(p) + 1
    BY NamedThere, <1>1
  <2> HIDE DEF k
  <2>2. Past(p)[k] = PastStep(p, Past(p), k)
    BY <2>1, PastIs
  <2>3. CASE i = X
    <3>1. p[k] = 0
      BY <2>1, <2>3, NamedIs
    <3>2. Past(p)[k] = k + 1
      BY <3>1, <2>1, <2>2, PastStepIs
    <3> QED
      BY <3>2, <2>3 DEF k
  <2>4. CASE i # X
    <3> DEFINE e == LabelEnd(text, i)
    <3>1. /\ i \in 1 .. X - 2 /\ e \in i + 1 .. X - 1 /\ e - i \in 1 .. 63 /\ Start(text, e + 1)
      BY <2>4, LabelIs
    <3>2. p[k] = e - i
      BY <2>1, <2>4, NamedIs
    <3> HIDE DEF e
    <3>3. p[k] \in 1 .. 63
      BY <3>1, <3>2
    <3>4. Past(p)[k] = Past(p)[Onward(p, k)]
      BY <2>1, <2>2, <3>3, PastStepIs
    <3>5. k + p[k] + 1 <= Len(p) + 1 => Onward(p, k) = k + p[k] + 1
      BY <2>1, <3>3, OnwardIs
    <3>6. e + 1 \in S /\ m[e + 1] < m[i] /\ k + (e - i) + 1 = o + (e + 1) /\ k + (e - i) + 1 <= Len(p) + 1
      BY <3>1, <1>1, <1>2, <1>3 DEF k
    <3>7. Onward(p, k) = o + (e + 1)
      BY <3>2, <3>5, <3>6
    <3>8. e + 1 \in T
      <4> HIDE DEF S, T, m
      <4> QED
        BY <3>6, <1>4
    <3>9. Past(p)[o + (e + 1)] = o + X + 1
      BY <3>8
    <3> QED
      BY <3>4, <3>7, <3>9 DEF k
  <2> QED
    BY <2>3, <2>4
<1>5. S \subseteq T
  <2>1. ASSUME NEW i \in S, \A j \in S : m[j] < m[i] => j \in T PROVE i \in T
    BY <2>1, <1>4
  <2> HIDE DEF S, T, m
  <2> QED
    BY <1>2, <2>1, Descent
<1>6. 1 \in S
  BY <1>1, StartOne
<1>7. Past(p)[o + 1] = o + X + 1
  BY <1>5, <1>6
<1> QED
  BY <1>7, SkipIs

\* A name as get() should give it: no dot at its ends, or two in a row.
Tidy(name) ==
  /\ name \in Seq(1 .. 127) /\ Len(name) >= 1 /\ name[1] # Dot /\ name[Len(name)] # Dot
  /\ \A n \in 2 .. Len(name) : name[n] = Dot => name[n - 1] # Dot

\* What the loop leaves of a name: as much as there is room for, with a dot.
Left(name, size, all) ==
  /\ all \in Seq(Written) /\ Len(all) = Shorter(size, Len(name) + 1)
  /\ \A q \in 1 .. Len(all) : all[q] = IF q = Len(name) + 1 THEN Dot ELSE name[q]

LEMMA SamePrefix ==
  ASSUME NEW V, NEW s \in Seq(V), NEW t \in Seq(V), NEW n \in Nat, n <= Len(s), n <= Len(t),
         \A q \in 1 .. n : s[q] = t[q]
  PROVE  SubSeq(s, 1, n) = SubSeq(t, 1, n)
<1> DEFINE a == SubSeq(s, 1, n)
           b == SubSeq(t, 1, n)
<1>1. Len(s) \in Nat /\ Len(t) \in Nat
  BY LenProperties
<1>2. n \in 0 .. Len(s) /\ n \in 0 .. Len(t)
  BY <1>1
<1>3. a \in Seq(V) /\ Len(a) = n /\ \A q \in 1 .. n : a[q] = s[q]
  BY <1>2, Parts
<1>4. b \in Seq(V) /\ Len(b) = n /\ \A q \in 1 .. n : b[q] = t[q]
  BY <1>2, Parts
<1> HIDE DEF a, b
<1>5. a = b
  BY <1>3, <1>4, SeqEqual
<1> QED
  BY <1>5 DEF a, b

\* The end of get(): what the buffer has room for, without the dot.
LEMMA NameShown ==
  ASSUME NEW name, Tidy(name), NEW size \in Nat \ {0}, NEW p, NEW i, Left(name, size, NameLoop(p, i, size))
  PROVE  GetName(p, i, size) = Shown(name, size)
<1> DEFINE all == NameLoop(p, i, size)
           kept == {k \in 1 .. Len(all) : all[k] # Dot}
           K == Max(kept)
           text == SubSeq(all, 1, K)
           b == Len(name)
           R == Shorter(b, size - 1)
<1>1. /\ name \in Seq(1 .. 127) /\ b \in Nat /\ b >= 1 /\ name[1] # Dot /\ name[b] # Dot
      /\ \A n \in 2 .. b : name[n] = Dot => name[n - 1] # Dot
  BY LenProperties DEF Tidy
<1>2. /\ all \in Seq(Written) /\ Len(all) = Shorter(size, b + 1)
      /\ \A q \in 1 .. Len(all) : all[q] = IF q = b + 1 THEN Dot ELSE name[q]
  BY DEF Left
<1>3. GetName(p, i, size) =
        IF all # << >> /\ Last(all) = Bad THEN <<Bad>>
        ELSE IF Len(SubSeq(all, 1, IF kept = {} THEN 0 ELSE K)) = size
             THEN Front(SubSeq(all, 1, IF kept = {} THEN 0 ELSE K)) ELSE SubSeq(all, 1, IF kept = {} THEN 0 ELSE K)
  BY Zenon DEF GetName
<1>4. Shown(name, size) = SubSeq(name, 1, R)
  <2>1. Min({b, size - 1}) = R
    <3>1. b \in Int /\ size - 1 \in Int
      BY <1>1
    <3> QED
      BY <3>1, MinOfTwo DEF Shorter
  <2> QED
    BY <2>1, Zenon DEF Shown
<1> HIDE DEF all, b
<1>5. Len(all) \in Nat /\ Len(all) >= 1 /\ Len(all) <= size /\ Len(all) <= b + 1
  BY <1>1, <1>2 DEF Shorter
<1>6. 1 \in kept
  <2>1. 1 \in 1 .. Len(all) /\ 1 # b + 1
    BY <1>1, <1>5
  <2>2. all[1] = name[1]
    BY <1>2, <2>1
  <2> QED
    BY <2>1, <2>2, <1>1
<1>7. K \in kept /\ \A k \in kept : k <= K
  <2>1. kept \subseteq 1 .. Len(all) /\ kept # {}
    BY <1>6
  <2> HIDE DEF kept
  <2> QED
    BY <2>1, <1>5, Greatest
<1>8. K \in 1 .. Len(all) /\ all[K] # Dot /\ \A k \in 1 .. Len(all) : all[k] # Dot => k <= K
  BY <1>7
<1>9. kept # {}
  BY <1>6
<1> HIDE DEF kept, K
<1>10. Last(all) # Bad
  <2> DEFINE l == Len(all)
  <2>1. l \in 1 .. Len(all)
    BY <1>5
  <2>2. all[l] = IF l = b + 1 THEN Dot ELSE name[l]
    BY <1>2, <2>1
  <2>3. CASE l = b + 1
    BY <2>2, <2>3 DEF Last, Dot, Bad
  <2>4. CASE l # b + 1
    <3>1. l \in 1 .. Len(name)
      BY <2>1, <2>4, <1>1, <1>5 DEF b
    <3>2. name[l] \in 1 .. 127
      BY <3>1, <1>1, ElementOfSeq
    <3>3. \A z \in 1 .. 127 : z # Bad
      BY DEF Bad
    <3> QED
      BY <2>2, <2>4, <3>2, <3>3, Zenon DEF Last
  <2> QED
    BY <2>3, <2>4
<1>11. GetName(p, i, size) = IF Len(text) = size THEN Front(text) ELSE text
  BY <1>3, <1>9, <1>10, Zenon
<1>12. K \in Nat /\ K >= 1 /\ K <= Len(all) /\ (K = R \/ (K = size /\ R = size - 1))
  <2>1. K \in Nat /\ K >= 1 /\ K <= Len(all)
    BY <1>5, <1>8
  <2>2. CASE b + 1 <= size
    <3>1. Len(all) = b + 1 /\ R = b /\ b \in 1 .. Len(all) /\ b # b + 1 /\ b + 1 \in 1 .. Len(all)
      BY <2>2, <1>1, <1>2 DEF Shorter
    <3>2. all[b] = name[b] /\ all[b + 1] = Dot
      BY <3>1, <1>2
    <3>3. b <= K /\ K # b + 1
      BY <3>1, <3>2, <1>1, <1>8
    <3> QED
      BY <2>1, <3>1, <3>3, <1>1
  <2>3. CASE ~(b + 1 <= size)
    <3>1. Len(all) = size /\ R = size - 1 /\ size <= b
      BY <2>3, <1>1, <1>2 DEF Shorter
    <3>2. CASE all[size] # Dot
      <4>1. size \in 1 .. Len(all)
        BY <3>1
      <4>2. size <= K
        BY <4>1, <3>2, <1>8
      <4> QED
        BY <2>1, <3>1, <4>2
    <3>3. CASE all[size] = Dot
      <4>1. size \in 1 .. Len(all) /\ size # b + 1
        BY <3>1, <1>1
      <4>2. name[size] = Dot
        BY <4>1, <3>3, <1>2
      <4>3. size # 1
        BY <4>2, <1>1
      <4>4. size \in 2 .. b /\ size - 1 \in 1 .. Len(all) /\ size - 1 # b + 1
        BY <4>3, <3>1, <1>1
      <4>5. name[size - 1] # Dot
        BY <4>2, <4>4, <1>1
      <4>6. all[size - 1] = name[size - 1]
        BY <4>4, <1>2
      <4>7. size - 1 <= K /\ K # size
        BY <4>4, <4>5, <4>6, <3>3, <1>8
      <4> QED
        BY <2>1, <3>1, <4>7
    <3> QED
      BY <3>2, <3>3
  <2> QED
    BY <2>2, <2>3
<1>13. R \in Nat /\ R < size /\ R <= b /\ R <= Len(all)
  BY <1>1, <1>2 DEF Shorter
<1>14. SubSeq(all, 1, R) = SubSeq(name, 1, R)
  <2>1. name \in Seq(Written)
    <3>1. 1 .. 127 \subseteq Written
      BY Narrow
    <3> QED
      BY <3>1, <1>1, SeqMonotonic
  <2>2. \A q \in 1 .. R : all[q] = name[q]
    <3> TAKE q \in 1 .. R
    <3>1. q \in 1 .. Len(all) /\ q # b + 1
      BY <1>13, <1>1, <1>5
    <3> QED
      BY <3>1, <1>2
  <2> HIDE DEF R
  <2> QED
    BY <2>1, <2>2, <1>2, <1>13, SamePrefix DEF b
<1> HIDE DEF R
<1>15. K \in 0 .. Len(all)
  BY <1>12, <1>5
<1>16. text \in Seq(Written) /\ Len(text) = K /\ \A q \in 1 .. K : text[q] = all[q]
  BY <1>15, <1>2, Parts
<1>17. CASE K = R
  <2>1. Len(text) # size
    BY <1>16, <1>17, <1>13
  <2> QED
    BY <2>1, <1>4, <1>11, <1>14, <1>17
<1>18. CASE K = size /\ R = size - 1
  <2>1. GetName(p, i, size) = Front(text)
    BY <1>11, <1>16, <1>18
  <2>2. Front(text) = SubSeq(text, 1, R)
    BY <1>16, <1>18 DEF Front
  <2>3. \A q \in 1 .. R : text[q] = all[q]
    BY <1>16, <1>18, <1>13
  <2>4. R <= Len(text)
    BY <1>16, <1>18, <1>13
  <2> HIDE DEF text
  <2>5. SubSeq(text, 1, R) = SubSeq(all, 1, R)
    BY <2>3, <2>4, <1>2, <1>13, <1>16, SamePrefix
  <2> QED
    BY <2>1, <2>2, <2>5, <1>4, <1>14, Zenon
<1> QED
  BY <1>12, <1>17, <1>18

LEMMA BareIs ==
  ASSUME NEW text, Fit(text), text # << >>
  PROVE  /\ Tidy(Bare(text)) /\ Len(Bare(text)) = Extent(text) - 2
         /\ \A j \in 1 .. Extent(text) - 2 : Bare(text)[j] = text[j]
<1> DEFINE X == Extent(text)
           L == Len(text)
           bare == Bare(text)
<1>1. /\ text \in Seq(1 .. 127) /\ L \in Nat /\ X \in Nat /\ L >= 1 /\ X >= 3
      /\ (L = X - 2 \/ (L = X - 1 /\ text[L] = Dot))
      /\ text[X - 2] # Dot /\ text[1] # Dot
      /\ \A n \in 2 .. L : text[n] = Dot => text[n - 1] # Dot
  BY FitIs
<1>2. bare = SubSeq(text, 1, X - 2)
  <2>1. Last(text) = text[L]
    BY DEF Last
  <2>2. CASE text[L] = Dot
    <3>1. bare = SubSeq(text, 1, L - 1)
      BY <2>1, <2>2 DEF Bare, Front
    <3>2. L # X - 2
      <4> SUFFICES ASSUME L = X - 2 PROVE FALSE
        OBVIOUS
      <4> HIDE DEF L, X
      <4> QED
        BY <1>1, <2>2
    <3>3. L - 1 = X - 2
      BY <1>1, <3>2
    <3> QED
      BY <3>1, <3>3
  <2>3. CASE text[L] # Dot
    <3>1. bare = text
      BY <2>1, <2>3 DEF Bare
    <3>2. L = X - 2
      BY <1>1, <2>3
    <3>3. SubSeq(text, 1, L) = text
      <4>1. L \in 0 .. L
        BY <1>1
      <4>2. SubSeq(text, 1, L) \in Seq(1 .. 127) /\ Len(SubSeq(text, 1, L)) = L /\ \A i \in 1 .. L : SubSeq(text, 1, L)[i] = text[i]
        <5>1. text \in Seq(1 .. 127)
          BY <1>1, Zenon
        <5>2. PICK k : k = L
          OBVIOUS
        <5>3. k \in 0 .. Len(text)
          BY <4>1, <5>2, Zenon
        <5>4. SubSeq(text, 1, k) \in Seq(1 .. 127) /\ Len(SubSeq(text, 1, k)) = k /\ \A i \in 1 .. k : SubSeq(text, 1, k)[i] = text[i]
          BY <5>1, <5>3, Parts
        <5> QED
          BY <5>2, <5>4, Zenon
      <4> QED
        BY <4>2, <1>1, SeqEqual
    <3> QED
      BY <3>1, <3>2, <3>3
  <2> QED
    BY <2>2, <2>3
<1>3. X - 2 \in 0 .. L
  BY <1>1
<1> HIDE DEF X, L, bare
<1>4. bare \in Seq(1 .. 127) /\ Len(bare) = X - 2 /\ \A i \in 1 .. X - 2 : bare[i] = text[i]
  <2>1. PICK k : k = X - 2
    OBVIOUS
  <2>2. k \in 0 .. Len(text) /\ text \in Seq(1 .. 127)
    BY <1>1, <1>3, <2>1, Zenon DEF L
  <2>3. SubSeq(text, 1, k) \in Seq(1 .. 127) /\ Len(SubSeq(text, 1, k)) = k /\ \A i \in 1 .. k : SubSeq(text, 1, k)[i] = text[i]
    BY <2>2, Parts
  <2> QED
    BY <1>2, <2>1, <2>3, Zenon
<1>5. Len(bare) >= 1 /\ bare[1] # Dot /\ bare[Len(bare)] # Dot
  <2>1. 1 \in 1 .. X - 2 /\ X - 2 \in 1 .. X - 2
    BY <1>1
  <2> QED
    BY <2>1, <1>1, <1>4
<1>6. ASSUME NEW n \in 2 .. Len(bare), bare[n] = Dot PROVE bare[n - 1] # Dot
  <2>1. n \in 1 .. X - 2 /\ n - 1 \in 1 .. X - 2 /\ n \in 2 .. L
    BY <1>1, <1>4
  <2>2. text[n] = Dot
    BY <2>1, <1>4, <1>6
  <2>3. text[n - 1] # Dot
    BY <2>1, <2>2, <1>1
  <2> QED
    BY <2>1, <2>3, <1>4
<1> QED
  BY <1>4, <1>5, <1>6 DEF Tidy, X, bare

\* A name that stands in a packet is read as it was meant.
LEMMA NameGot ==
  ASSUME NEW text, Fit(text), NEW p \in Seq(Byte), NEW o \in Nat, Lies(p, o, Named(text)), NEW size \in Nat \ {0}
  PROVE  GetName(p, o + 1, size) = Shown(Bare(text), size)
<1> DEFINE X == Extent(text)
           all == NameLoop(p, o + 1, size)
<1>1. MaxJumps \in 0 .. MaxJumps /\ size \in 0 .. size /\ size \in Nat
  BY PacketAssumption
<1>2. 1 \in 1 .. X /\ Start(text, 1)
  BY StartOne
<1>3. Shows(text, 1, size, Reading(p, size)[At(MaxJumps, o + 1, size)])
  BY <1>1, <1>2, LineRead
<1>4. o + 1 # 0
  OBVIOUS
<1>5. all = Reading(p, size)[At(MaxJumps, o + 1, size)]
  BY <1>4, NameLoopIs
<1> HIDE DEF all
<1>6. /\ all \in Seq(Written) /\ Len(all) = Shorter(size, X - 1)
      /\ \A q \in 1 .. Len(all) : all[q] = LineAt(text, 1 + q - 1)
  BY <1>3, <1>5, Zenon DEF Shows
<1>7. CASE text = << >>
  <2>1. X = 1
    BY <1>7, FitIs
  <2>2. Len(all) = 0
    BY <2>1, <1>1, <1>6 DEF Shorter
  <2>3. all = << >>
    BY <2>2, <1>6, EmptySeq
  <2>4. GetName(p, o + 1, size) = << >>
    <3>1. {k \in 1 .. Len(all) : all[k] # Dot} = {}
      BY <2>2
    <3>2. SubSeq(all, 1, 0) = << >>
      BY <2>3
    <3>3. Len(<< >>) # size
      BY <1>1
    <3> QED
      BY <2>3, <3>1, <3>2, <3>3, Zenon DEF GetName, all
  <2>5. Shown(Bare(text), size) = << >>
    <3>1. Bare(text) = << >>
      BY <1>7 DEF Bare
    <3>2. Min({0, size - 1}) = 0
      <4>1. size - 1 \in Int /\ 0 \in Int /\ 0 <= size - 1
        BY <1>1
      <4> QED
        BY <4>1, MinOfTwo
    <3>3. Shown(<< >>, size) = SubSeq(<< >>, 1, 0)
      BY <3>2 DEF Shown
    <3> QED
      BY <3>1, <3>3
  <2> QED
    BY <2>4, <2>5
<1>8. CASE text # << >>
  <2> DEFINE bare == Bare(text)
  <2>1. Tidy(bare) /\ Len(bare) = X - 2 /\ \A j \in 1 .. X - 2 : bare[j] = text[j]
    BY <1>8, BareIs
  <2>2. X \in Nat /\ X >= 3
    BY <1>8, FitIs
  <2> HIDE DEF bare
  <2>3. Len(bare) + 1 = X - 1
    BY <2>1, <2>2
  <2>4. ASSUME NEW q \in 1 .. Len(all) PROVE all[q] = IF q = Len(bare) + 1 THEN Dot ELSE bare[q]
    <3>1. 1 + q - 1 = q
      BY <1>6
    <3>2. all[q] = LineAt(text, q)
      BY <3>1, <1>6
    <3>3. CASE q = X - 1
      BY <2>3, <3>2, <3>3 DEF LineAt
    <3>4. CASE q # X - 1
      <4>1. q \in 1 .. X - 2
        BY <3>4, <1>1, <1>6, <2>2 DEF Shorter
      <4> QED
        BY <4>1, <2>1, <2>3, <3>2, <3>4 DEF LineAt
    <3> QED
      BY <3>3, <3>4
  <2>5. Left(bare, size, all)
    BY <1>6, <2>3, <2>4 DEF Left
  <2>6. GetName(p, o + 1, size) = Shown(bare, size)
    BY <2>1, <2>5, NameShown DEF all
  <2> QED
    BY <2>6 DEF bare
<1> QED
  BY <1>7, <1>8

----------------------------------------------------------------------------
(* Queries.                                                                *)

LEMMA AskingIs == ASSUME NEW id \in Number PROVE Headed(Asking(id))
<1> DEFINE v == [NoFlags EXCEPT !.rd = 1]
<1>1. v = [f \in DOMAIN Unit |-> IF f = "rd" THEN 1 ELSE 0]
  BY DEF NoFlags, Unit
<1>2. /\ "rd" \in DOMAIN Unit /\ Count["rd"] = 2 /\ \A f \in DOMAIN Unit : Count[f] \in Nat /\ Count[f] >= 1
  BY DEF Unit, Count
<1>3. Asking(id) = [id |-> id, flags |-> v, qd |-> 1, an |-> 0, ns |-> 0, ar |-> 0]
  BY DEF Asking
<1> HIDE DEF v
<1>4. v \in [DOMAIN Unit -> Nat] /\ \A f \in DOMAIN Unit : v[f] \in 0 .. Count[f] - 1
  BY <1>1, <1>2
<1>5. 1 \in Number /\ 0 \in Number
  BY DEF Number
<1>6. /\ Asking(id).id = id /\ Asking(id).flags = v /\ Asking(id).qd = 1 /\ Asking(id).an = 0
      /\ Asking(id).ns = 0 /\ Asking(id).ar = 0
  BY <1>3
<1> QED
  BY <1>3, <1>4, <1>5, <1>6, Zenon DEF Headed

\* What stands in a concatenation of four.
Row(a, b, c, d) == a \o b \o c \o d

\* q is four pieces.
Lined(V, a, b, c, d, q) ==
  /\ q \in Seq(V) /\ Len(q) = Len(a) + Len(b) + Len(c) + Len(d)
  /\ Lies(q, 0, a) /\ Lies(q, Len(a), b) /\ Lies(q, Len(a) + Len(b), c)
  /\ Lies(q, Len(a) + Len(b) + Len(c), d)

LEMMA FourParts ==
  ASSUME NEW V, NEW a \in Seq(V), NEW b \in Seq(V), NEW c \in Seq(V), NEW d \in Seq(V)
  PROVE  Lined(V, a, b, c, d, Row(a, b, c, d))
<1>0. PICK q : q = Row(a, b, c, d)
  OBVIOUS
<1>1. PICK x : x = a \o b
  OBVIOUS
<1>2. x \in Seq(V) /\ Len(x) = Len(a) + Len(b)
  <2>1. a \o b \in Seq(V) /\ Len(a \o b) = Len(a) + Len(b)
    BY Both
  <2> QED
    BY <1>1, <2>1, Zenon
<1>3. PICK y : y = x \o c
  OBVIOUS
<1>4. y \in Seq(V) /\ Len(y) = Len(x) + Len(c)
  <2>1. x \o c \in Seq(V) /\ Len(x \o c) = Len(x) + Len(c)
    BY <1>2, Both
  <2> QED
    BY <1>3, <2>1, Zenon
<1>5. q = y \o d
  BY <1>0, <1>1, <1>3, Zenon DEF Row
<1>6. q \in Seq(V) /\ Len(q) = Len(y) + Len(d)
  <2>1. y \o d \in Seq(V) /\ Len(y \o d) = Len(y) + Len(d)
    BY <1>4, Both
  <2> QED
    BY <1>5, <2>1, Zenon
<1>7. Len(q) \in Nat /\ Len(a) \in Nat /\ Len(b) \in Nat /\ Len(c) \in Nat /\ Len(d) \in Nat /\ 0 \in Nat
  BY <1>6, LenProperties
<1>8. Lies(q, 0, q)
  BY <1>7 DEF Lies
<1>9. Lies(q, 0, y) /\ Lies(q, 0 + Len(y), d)
  BY <1>4, <1>5, <1>7, <1>8, LiesGrown
<1>10. Lies(q, 0, x) /\ Lies(q, 0 + Len(x), c)
  BY <1>2, <1>3, <1>7, <1>9, LiesGrown
<1>11. Lies(q, 0, a) /\ Lies(q, 0 + Len(a), b)
  BY <1>1, <1>7, <1>10, LiesGrown
<1>12. /\ 0 + Len(a) = Len(a) /\ 0 + Len(x) = Len(a) + Len(b) /\ 0 + Len(y) = Len(a) + Len(b) + Len(c)
       /\ Len(q) = Len(a) + Len(b) + Len(c) + Len(d)
  BY <1>2, <1>4, <1>6, <1>7
<1> QED
  BY <1>0, <1>6, <1>9, <1>10, <1>11, <1>12, Zenon DEF Lined

LEMMA ClassNumber == ClassIn \in Number
<1>1. 1 \in Number
  BY InNumber
<1> QED
  BY <1>1, Zenon DEF ClassIn

\* A request that fits: what stands in it.
LEMMA QueryIs ==
  ASSUME NEW text, Fit(text), NEW id \in Number, NEW type \in Number, NEW room \in Nat
  PROVE  LET q == Query(id, text, type, room) IN
         /\ ~(16 + Extent(text) <= room) => q = <<Bad>>
         /\ 16 + Extent(text) <= room =>
              /\ q \in Seq(Byte) /\ Len(q) = 16 + Extent(text)
              /\ Lies(q, 0, Dump(Asking(id))) /\ Lies(q, 12, Named(text))
              /\ Lies(q, 12 + Extent(text), PutShort(type)) /\ Lies(q, 14 + Extent(text), PutShort(ClassIn))
<1> DEFINE q == Query(id, text, type, room)
           name == PutName(text, room - 12)
           d == Dump(Asking(id))
           n == Named(text)
           s == PutShort(type)
           c == PutShort(ClassIn)
           X == Extent(text)
<1>1. q = IF name = <<Bad>> \/ 12 + Len(name) + 4 > room THEN <<Bad>> ELSE d \o name \o s \o c
  BY Zenon DEF Query, HeaderSize
<1>2. X \in Nat
  BY FitIs
<1>3. n \in Seq(Byte) /\ Len(n) = X
  BY NamedIs
<1>4. d \in Seq(Byte) /\ Len(d) = 12
  BY AskingIs, HeaderIs
<1>5. ClassIn \in Number
  BY ClassNumber
<1>6. s \in Seq(Byte) /\ Len(s) = 2 /\ c \in Seq(Byte) /\ Len(c) = 2
  BY <1>5, ShortIs
<1>7. room - 12 \in Int
  OBVIOUS
<1>8. /\ X <= room - 12 => name = n
      /\ ~(X <= room - 12) => name = <<Bad>>
  BY <1>7, PutFits
<1>9. n # <<Bad>>
  <2>1. SUFFICES ASSUME n = <<Bad>> PROVE FALSE
    OBVIOUS
  <2>2. Len(n) = 1 /\ n[1] = 256
    BY <2>1 DEF Bad
  <2>3. n[1] \in Byte
    BY <1>3, <2>2, ElementOfSeq
  <2> QED
    BY <2>2, <2>3 DEF Byte
<1> HIDE DEF q, name, d, n, s, c, X
<1>10. ASSUME ~(16 + X <= room)
       PROVE  q = <<Bad>>
  <2>1. CASE X <= room - 12
    <3>1. 12 + Len(name) + 4 > room
      BY <1>2, <1>3, <1>8, <1>10, <2>1
    <3> QED
      BY <1>1, <3>1, Zenon
  <2>2. CASE ~(X <= room - 12)
    BY <1>1, <1>8, <2>2, Zenon
  <2> QED
    BY <2>1, <2>2
<1>11. ASSUME 16 + X <= room
       PROVE  /\ q \in Seq(Byte) /\ Len(q) = 16 + X
              /\ Lies(q, 0, d) /\ Lies(q, 12, n) /\ Lies(q, 12 + X, s) /\ Lies(q, 14 + X, c)
  <2>1. X <= room - 12 /\ ~(12 + X + 4 > room)
    BY <1>2, <1>11
  <2>2. q = Row(d, n, s, c)
    BY <1>1, <1>3, <1>8, <1>9, <2>1, Zenon DEF Row
  <2>3. /\ q \in Seq(Byte) /\ Len(q) = Len(d) + Len(n) + Len(s) + Len(c)
        /\ Lies(q, 0, d) /\ Lies(q, Len(d), n) /\ Lies(q, Len(d) + Len(n), s)
        /\ Lies(q, Len(d) + Len(n) + Len(s), c)
    <3>1. Lined(Byte, d, n, s, c, Row(d, n, s, c))
      BY <1>3, <1>4, <1>6, FourParts
    <3> QED
      BY <2>2, <3>1, Zenon DEF Lined
  <2>4. 12 + X + 2 + 2 = 16 + X /\ 12 + X + 2 = 14 + X
    BY <1>2
  <2> QED
    BY <1>3, <1>4, <1>6, <2>3, <2>4, Zenon
<1> QED
  BY <1>10, <1>11 DEF q, d, n, s, c, X

\* Every request that can be made is read as it was meant.
LEMMA QueryGot ==
  ASSUME NEW text, IsName(text), NEW id \in Number, NEW type \in Number, NEW room \in Nat
  PROVE  LET q == Query(id, text, type, room) IN
         /\ (q = <<Bad>>) <=> ((text # << >> /\ ~Proper(text)) \/ (HeaderSize + Extent(text) + 4 > room))
         /\ q # <<Bad>> =>
              /\ Len(q) =< room /\ Parse(q) = Asking(id)
              /\ GetName(q, HeaderSize + 1, NameSize) = Shown(Bare(text), NameSize)
              /\ SkipName(q, HeaderSize + 1) = Len(q) - 3
              /\ Short(q, Len(q) - 3) = type /\ Short(q, Len(q) - 1) = ClassIn
<1> DEFINE q == Query(id, text, type, room)
           X == Extent(text)
<1>1. CASE text # << >> /\ ~Proper(text)
  <2>1. text \in Seq(1 .. 127)
    BY DEF IsName
  <2>2. PutName(text, room - HeaderSize) = <<Bad>>
    BY <1>1, <2>1, PutFails
  <2>3. q = <<Bad>>
    BY <2>2, Zenon DEF Query
  <2> QED
    BY <1>1, <2>3
<1>2. CASE ~(text # << >> /\ ~Proper(text))
  <2>1. Fit(text)
    BY <1>2 DEF Fit
  <2>2. X \in Nat
    BY <2>1, FitIs
  <2>3. /\ ~(16 + X <= room) => q = <<Bad>>
        /\ 16 + X <= room =>
             /\ q \in Seq(Byte) /\ Len(q) = 16 + X
             /\ Lies(q, 0, Dump(Asking(id))) /\ Lies(q, 12, Named(text))
             /\ Lies(q, 12 + X, PutShort(type)) /\ Lies(q, 14 + X, PutShort(ClassIn))
    BY <2>1, QueryIs
  <2> HIDE DEF X, q
  <2>4. (HeaderSize + X + 4 > room) <=> ~(16 + X <= room)
    BY <2>2 DEF HeaderSize
  <2>5. CASE ~(16 + X <= room)
    BY <1>2, <2>3, <2>4, <2>5 DEF q, X
  <2>6. CASE 16 + X <= room
    <3>1. /\ q \in Seq(Byte) /\ Len(q) = 16 + X
          /\ Lies(q, 0, Dump(Asking(id))) /\ Lies(q, 12, Named(text))
          /\ Lies(q, 12 + X, PutShort(type)) /\ Lies(q, 14 + X, PutShort(ClassIn))
      BY <2>3, <2>6
    <3>2. /\ Len(q) \in Nat /\ 12 \in Nat /\ 12 + X \in Nat /\ 14 + X \in Nat /\ 12 + X + 1 = Len(q) - 3
          /\ 14 + X + 1 = Len(q) - 1
      BY <2>2, <3>1
    <3>3. q # <<Bad>>
      <4>1. Len(<<Bad>>) = 1
        OBVIOUS
      <4>2. Len(q) # 1
        BY <2>2, <3>1
      <4> QED
        BY <4>1, <4>2, Zenon
    <3>4. Parse(q) = Asking(id)
      BY <3>1, <3>2, AskingIs, HeaderIs
    <3>5. NameSize \in Nat \ {0}
      BY PacketAssumption
    <3>6. GetName(q, 12 + 1, NameSize) = Shown(Bare(text), NameSize)
      BY <2>1, <3>1, <3>2, <3>5, NameGot
    <3>7. SkipName(q, 12 + 1) = Len(q) - 3
      BY <2>1, <3>1, <3>2, NameSkipped DEF X
    <3>8. Short(q, 12 + X + 1) = type
      BY <3>1, <3>2, LiesShort
    <3>9. ClassIn \in Number
      BY ClassNumber
    <3>10. Short(q, 14 + X + 1) = ClassIn
      BY <3>1, <3>2, <3>9, LiesShort
    <3>11. Len(q) <= room
      BY <2>6, <3>1
    <3>12. ~(HeaderSize + X + 4 > room)
      BY <2>4, <2>6
    <3>13. /\ GetName(q, HeaderSize + 1, NameSize) = Shown(Bare(text), NameSize)
           /\ SkipName(q, HeaderSize + 1) = Len(q) - 3
      BY <3>6, <3>7, Zenon DEF HeaderSize
    <3>14. Short(q, Len(q) - 3) = type /\ Short(q, Len(q) - 1) = ClassIn
      BY <3>2, <3>8, <3>10, Zenon
    <3> QED
      BY <1>2, <3>3, <3>4, <3>11, <3>12, <3>13, <3>14, Zenon DEF q, X
  <2> QED
    BY <2>5, <2>6
<1> QED
  BY <1>1, <1>2

\* Every request that can be sent carries its header, its name, its type and its
\* class, and those that cannot be are refused (header.cc:24-64, 100-172).
THEOREM QueriesAreRead == SampleSpec => []QueryRead
<1>1. SampleInit => QueryRead
  <2> SUFFICES ASSUME SampleInit, sample.what = "text" PROVE QueryRead
    BY DEF QueryRead
  <2>1. sample \in [what : {"text"}, of : Texts, id : Shorts, type : Shorts, room : Rooms]
    BY DEF SampleInit
  <2>2. sample.of \in Texts /\ sample.id \in Shorts /\ sample.type \in Shorts /\ sample.room \in Rooms
    BY <2>1
  <2>3. IsName(sample.of) /\ sample.id \in Number /\ sample.type \in Number /\ sample.room \in Nat
    BY <2>2, SampleAssumption, Zenon
  <2>4. PICK text, id, type, room : text = sample.of /\ id = sample.id /\ type = sample.type /\ room = sample.room
    OBVIOUS
  <2>5. IsName(text) /\ id \in Number /\ type \in Number /\ room \in Nat
    BY <2>3, <2>4, Zenon
  <2> DEFINE q == Query(id, text, type, room)
  <2>6. /\ (q = <<Bad>>) <=> ((text # << >> /\ ~Proper(text)) \/ (HeaderSize + Extent(text) + 4 > room))
        /\ q # <<Bad>> =>
             /\ Len(q) =< room /\ Parse(q) = Asking(id)
             /\ GetName(q, HeaderSize + 1, NameSize) = Shown(Bare(text), NameSize)
             /\ SkipName(q, HeaderSize + 1) = Len(q) - 3
             /\ Short(q, Len(q) - 3) = type /\ Short(q, Len(q) - 1) = ClassIn
    BY <2>5, QueryGot
  <2> QED
    BY <2>4, <2>6, Zenon DEF QueryRead
<1>2. QueryRead /\ [FALSE]_sample => QueryRead'
  BY DEF QueryRead
<1> QED
  BY <1>1, <1>2, PTL DEF SampleSpec

----------------------------------------------------------------------------
(* What is cut.                                                            *)

\* A packet that ends inside of e: nothing is found behind what is left of e.
LEMMA SkipCut ==
  ASSUME NEW p \in Seq(Byte), NEW e \in Seq(Byte), NEW o \in Nat,
         o <= Len(p), Len(p) <= o + Len(e), \A j \in 1 .. Len(p) - o : p[o + j] = e[j]
  PROVE  \A k \in 1 .. Len(p) - o + 1 : Past(e)[k] > Len(p) - o + 1 => Past(p)[o + k] = 0
<1> DEFINE l == Len(p) - o
           S == 1 .. l + 1
           m == [k \in S |-> l + 1 - k]
           T == {k \in S : Past(e)[k] > l + 1 => Past(p)[o + k] = 0}
<1>0. Len(p) \in Nat /\ Len(e) \in Nat /\ l \in Nat /\ l <= Len(e) /\ Len(p) = o + l
  BY LenProperties
<1>a. \A j \in 1 .. l : p[o + j] = e[j]
  OBVIOUS
<1> HIDE DEF l
<1>1. m \in [S -> Nat] /\ \A k \in S : m[k] = l + 1 - k
  BY <1>0
<1>2. ASSUME NEW k \in S, \A j \in S : m[j] < m[k] => j \in T PROVE k \in T
  <2> SUFFICES ASSUME Past(e)[k] > l + 1 PROVE Past(p)[o + k] = 0
    OBVIOUS
  <2>0. o + k \in 1 .. Len(p) + 1 /\ k \in 1 .. Len(e) + 1
    BY <1>0
  <2>1. Past(e)[k] = PastStep(e, Past(e), k)
    BY <2>0, PastIs
  <2>2. Past(p)[o + k] = PastStep(p, Past(p), o + k)
    BY <2>0, PastIs
  <2>3. CASE k = l + 1
    <3>1. o + k = Len(p) + 1
      BY <1>0, <2>3
    <3> QED
      BY <2>2, <3>1, PastStepIs
  <2>4. CASE k # l + 1
    <3>1. k \in Nat /\ k <= l /\ k >= 1
      BY <1>0, <2>4
    <3>2. /\ k \in 1 .. Len(e) /\ k # Len(e) + 1 /\ p[o + k] = e[k]
          /\ o + k \in 1 .. Len(p) /\ o + k # Len(p) + 1
      BY <3>1, <1>0, <1>a
    <3>3. CASE e[k] = 0
      <4>1. Past(e)[k] = k + 1
        BY <2>1, <3>2, <3>3, PastStepIs
      <4> QED
        BY <4>1, <3>1, <1>0
    <3>4. CASE e[k] \in 1 .. 63
      <4> DEFINE n == Onward(e, k)
                 q == Onward(p, o + k)
                 c == e[k]
      <4>1. Past(e)[k] = Past(e)[n]
        BY <2>1, <3>2, <3>4, PastStepIs
      <4>2. k + c + 1 <= Len(e) + 1 => n = k + c + 1
        BY <3>2, <3>4, OnwardIs
      <4>3. p[o + k] \in 1 .. 63
        BY <3>2, <3>4
      <4>4. Past(p)[o + k] = Past(p)[q]
        <5>0. \A x \in 1 .. 63 : x # 0
          OBVIOUS
        <5>1. p[o + k] # 0
          BY <4>3, <5>0, Zenon
        <5>2. o + k # Len(p) + 1
          BY <3>2
        <5> HIDE DEF m, T, S
        <5> QED
          BY <2>2, <5>1, <5>2, <4>3, Zenon DEF PastStep
      <4>5. /\ o + k + p[o + k] + 1 <= Len(p) + 1 => q = o + k + p[o + k] + 1
            /\ o + k + p[o + k] + 1 >= Len(p) + 1 => q = Len(p) + 1
        BY <3>2, <4>3, OnwardIs
      <4>6. c \in 1 .. 63 /\ p[o + k] = c
        BY <3>2, <3>4
      <4> HIDE DEF n, q, c
      <4>7. /\ o + k + c + 1 <= Len(p) + 1 => q = o + k + c + 1
            /\ o + k + c + 1 >= Len(p) + 1 => q = Len(p) + 1
        BY <4>5, <4>6
      <4>8. CASE o + k + c + 1 >= Len(p) + 1
        <5>1. Len(p) + 1 \in 1 .. Len(p) + 1
          BY <1>0
        <5>2. Past(p)[Len(p) + 1] = PastStep(p, Past(p), Len(p) + 1)
          BY <5>1, PastIs
        <5>3. Past(p)[Len(p) + 1] = 0
          BY <5>2, PastStepIs
        <5> QED
          BY <4>4, <4>7, <4>8, <5>3, Zenon
      <4>9. CASE ~(o + k + c + 1 >= Len(p) + 1)
        <5>1. c \in Nat /\ c >= 1
          BY <4>6
        <5>2. o + k + c + 1 <= Len(p) + 1 /\ k + c + 1 <= Len(e) + 1 /\ k + c + 1 <= l + 1
          BY <5>1, <4>9, <1>0, <3>1
        <5>3. n = k + c + 1 /\ q = o + k + c + 1
          BY <5>2, <4>2, <4>7
        <5>4. n \in S /\ q = o + n /\ n > k
          BY <5>1, <5>2, <5>3, <1>0, <3>1
        <5>5. m[n] < m[k]
          BY <5>4, <1>1, <1>0
        <5>6. n \in T
          <6> HIDE DEF m, T
          <6> QED
            BY <5>4, <5>5, <1>2
        <5>7. Past(e)[n] > l + 1
          BY <4>1
        <5>8. Past(p)[o + n] = 0
          BY <5>6, <5>7
        <5> QED
          BY <4>4, <5>4, <5>8, Zenon
      <4> QED
        BY <4>8, <4>9
    <3>5. CASE e[k] # 0 /\ e[k] \notin 1 .. 63
      <4>1. /\ k + 1 < Len(e) + 1 => Past(e)[k] = k + 2
            /\ ~(k + 1 < Len(e) + 1) => Past(e)[k] = 0
        BY <2>1, <3>2, <3>5, Zenon DEF PastStep
      <4>2. p[o + k] # 0 /\ p[o + k] \notin 1 .. 63
        BY <3>2, <3>5, Zenon
      <4>3. ~(o + k + 1 < Len(p) + 1) => Past(p)[o + k] = 0
        BY <2>2, <3>2, <4>2, Zenon DEF PastStep
      <4>4. Past(e)[k] = k + 2
        BY <4>1, <1>0
      <4>5. ~(o + k + 1 < Len(p) + 1)
        BY <4>4, <3>1, <1>0
      <4> QED
        BY <4>3, <4>5
    <3> QED
      BY <3>3, <3>4, <3>5
  <2> QED
    BY <2>3, <2>4
<1> HIDE DEF S, m, T
<1>3. S \subseteq T
  BY <1>1, <1>2, Descent
<1> QED
  BY <1>3 DEF S, T, l

\* A name that is cut is not skipped.
LEMMA SkipsNone ==
  ASSUME NEW p \in Seq(Byte), NEW e \in Seq(Byte), NEW o \in Nat, SkipName(e, 1) = Len(e) + 1,
         o <= Len(p), Len(p) < o + Len(e), \A j \in 1 .. Len(p) - o : p[o + j] = e[j]
  PROVE  SkipName(p, o + 1) = 0
<1>1. Len(e) \in Nat /\ Len(p) \in Nat
  BY LenProperties
<1>2. SkipName(e, 1) = Past(e)[1] /\ SkipName(p, o + 1) = Past(p)[o + 1]
  BY SkipIs
<1>3. Past(e)[1] > Len(p) - o + 1 /\ 1 \in 1 .. Len(p) - o + 1 /\ Len(p) <= o + Len(e)
  BY <1>1, <1>2
<1>4. Past(p)[o + 1] = 0
  BY <1>3, SkipCut
<1> QED
  BY <1>2, <1>4, Zenon

----------------------------------------------------------------------------
(* Sequences in a row.                                                     *)

\* The first k of them.
Flat(G, k) == FlattenSeq([j \in 1 .. k |-> G[j]])

\* g holds what is in the first parts of G.
Strung(g, V, n, G) ==
  /\ \A k \in 1 .. n : G[k] \in Seq(V)
  /\ g \in [0 .. n -> Seq(V)] /\ g[0] = << >> /\ \A k \in 1 .. n : g[k] = g[k - 1] \o G[k]

LEMMA FlatWalk ==
  ASSUME NEW V, NEW n \in Nat, NEW G, NEW g, Strung(g, V, n, G)
  PROVE  \A k \in 0 .. n : Flat(G, k) = g[k]
<1> SUFFICES ASSUME NEW k \in 0 .. n PROVE Flat(G, k) = g[k]
  OBVIOUS
<1> DEFINE s == [j \in 1 .. k |-> G[j]]
           F == CHOOSE f : f = [i \in 1 .. Len(s) |-> IF i = 1 THEN s[i] ELSE f[i - 1] \o s[i]]
           e == [i \in 1 .. k |-> g[i]]
<1>0. /\ \A i \in 1 .. n : G[i] \in Seq(V)
      /\ g[0] = << >> /\ \A i \in 1 .. n : g[i] = g[i - 1] \o G[i]
  BY DEF Strung
<1>1. k \in Nat /\ k <= n
  OBVIOUS
<1>2. s \in Seq(Seq(V)) /\ Len(s) = k /\ \A j \in 1 .. k : s[j] = G[j] /\ s[j] \in Seq(V)
  BY <1>0, <1>1
<1>3. Flat(G, k) = FlattenSeq(s)
  BY DEF Flat
<1>4. CASE k = 0
  <2>1. s = << >>
    BY <1>2, <1>4, EmptySeq
  <2>2. Len(s) = 0
    BY <1>2, <1>4
  <2> HIDE DEF s
  <2>3. FlattenSeq(s) = s
    BY <2>2 DEF FlattenSeq
  <2> QED
    BY <1>0, <1>3, <1>4, <2>1, <2>3
<1>5. CASE k # 0
  <2> HIDE DEF s
  <2>1. FlattenSeq(s) = F[k]
    <3>1. FlattenSeq(s) = (IF Len(s) = 0 THEN s ELSE F[Len(s)])
      BY Zenon DEF FlattenSeq
    <3> HIDE DEF F
    <3> QED
      BY <1>2, <1>5, <3>1, Zenon
  <2>2. ASSUME NEW i \in 1 .. k PROVE e[i] = IF i = 1 THEN s[i] ELSE e[i - 1] \o s[i]
    <3>0. i \in 1 .. n
      BY <1>1
    <3>1. i \in 1 .. n /\ g[i] = g[i - 1] \o s[i] /\ s[i] \in Seq(V)
      BY <3>0, <1>0, <1>2, Zenon
    <3>2. CASE i = 1
      <4>1. << >> \o s[i] = s[i]
        BY <3>1, ConcatEmptySeq
      <4>2. i - 1 = 0
        BY <3>2
      <4>3. g[i] = s[i]
        BY <1>0, <3>1, <4>1, <4>2, Zenon
      <4>4. e[i] = g[i]
        OBVIOUS
      <4> HIDE DEF e
      <4> QED
        BY <3>2, <4>3, <4>4
    <3>3. CASE i # 1
      <4>1. i - 1 \in 1 .. k
        BY <1>1, <3>3
      <4> QED
        BY <3>1, <3>3, <4>1
    <3> QED
      BY <3>2, <3>3
  <2>3. e = [i \in 1 .. k |-> IF i = 1 THEN s[i] ELSE e[i - 1] \o s[i]]
    BY <2>2
  <2> HIDE DEF e
  <2>4. F = [i \in 1 .. k |-> IF i = 1 THEN s[i] ELSE F[i - 1] \o s[i]]
    BY <1>2, <2>3, Zenon
  <2> HIDE DEF F
  <2> DEFINE T == {0} \cup {i \in 1 .. k : F[i] = e[i]}
  <2>5. ASSUME NEW i \in 1 .. k, i - 1 \in T PROVE i \in T
    <3>1. F[i] = IF i = 1 THEN s[i] ELSE F[i - 1] \o s[i]
      BY <2>4, Zenon
    <3>2. e[i] = IF i = 1 THEN s[i] ELSE e[i - 1] \o s[i]
      BY <2>3, Zenon
    <3>3. CASE i = 1
      BY <3>1, <3>2, <3>3
    <3>4. CASE i # 1
      <4>1. F[i - 1] = e[i - 1]
        BY <1>1, <2>5, <3>4
      <4>2. F[i] = e[i]
        BY <3>1, <3>2, <3>4, <4>1, Zenon
      <4> QED
        BY <4>2
    <3> QED
      BY <3>3, <3>4
  <2>6. 0 \in T
    OBVIOUS
  <2>7. 0 .. k \subseteq T
    <3> HIDE DEF T
    <3> QED
      BY <1>1, <2>5, <2>6, Induction, Zenon
  <2>8. k \in 1 .. k /\ k \in 0 .. k
    BY <1>1, <1>5
  <2>9. F[k] = e[k]
    BY <1>5, <2>7, <2>8
  <2>10. e[k] = g[k]
    BY <2>8 DEF e
  <2> QED
    BY <1>3, <2>1, <2>9, <2>10
<1> QED
  BY <1>4, <1>5

\* One more of them.
LEMMA FlatIs ==
  ASSUME NEW V, NEW n \in Nat, NEW G, \A k \in 1 .. n : G[k] \in Seq(V)
  PROVE  /\ Flat(G, 0) = << >>
         /\ \A k \in 0 .. n : Flat(G, k) \in Seq(V)
         /\ \A k \in 1 .. n : Flat(G, k) = Flat(G, k - 1) \o G[k]
<1> DEFINE S == Seq(V)
           h == [k \in 1 .. n |-> [s \in S |-> s \o G[k]]]
<1>1. \A k \in 1 .. n : \A s \in S : s \o G[k] \in S
  BY ConcatProperties
<1>2. h \in [1 .. n -> [S -> S]]
  BY <1>1
<1>3. \A k \in 1 .. n : \A s \in S : h[k][s] = s \o G[k]
  OBVIOUS
<1>4. << >> \in S
  OBVIOUS
<1>5. \E g : Follows(g, S, << >>, n, h)
  <2> HIDE DEF h, S
  <2> QED
    BY <1>2, <1>4, Recursion, Zenon
<1>6. PICK g : Follows(g, S, << >>, n, h)
  BY <1>5
<1> HIDE DEF h
<1>7. ASSUME NEW k \in 1 .. n PROVE g[k] = g[k - 1] \o G[k]
  <2>1. k - 1 \in 0 .. n
    OBVIOUS
  <2>2. g[k - 1] \in S
    BY <1>6, <2>1 DEF Follows
  <2> QED
    BY <1>3, <1>6, <2>2 DEF Follows
<1>8. g \in [0 .. n -> Seq(V)] /\ g[0] = << >>
  BY <1>6 DEF Follows
<1>9. \A k \in 0 .. n : Flat(G, k) = g[k]
  <2>1. Strung(g, V, n, G)
    BY <1>7, <1>8, Zenon DEF Strung
  <2> QED
    BY <2>1, FlatWalk
<1>10. /\ 0 \in 0 .. n /\ \A k \in 0 .. n : g[k] \in Seq(V)
       /\ \A k \in 1 .. n : k \in 0 .. n /\ k - 1 \in 0 .. n
  BY <1>8
<1> QED
  BY <1>7, <1>8, <1>9, <1>10, Zenon

\* What stands in a piece of a packet stands in the packet.
LEMMA LiesIn ==
  ASSUME NEW u, Len(u) \in Nat, NEW w, Len(w) \in Nat, NEW v, Len(v) \in Nat, NEW o \in Nat, NEW k \in Nat,
         Lies(u, o, w), Lies(w, k, v)
  PROVE  Lies(u, o + k, v)
<1>1. o + Len(w) <= Len(u) /\ k + Len(v) <= Len(w)
  BY DEF Lies
<1>2. o + k + Len(v) <= Len(u)
  BY <1>1
<1>3. ASSUME NEW j \in 1 .. Len(v) PROVE u[o + k + j] = v[j]
  <2>1. k + j \in 1 .. Len(w) /\ o + (k + j) = o + k + j
    BY <1>1
  <2>2. u[o + (k + j)] = w[k + j]
    BY <2>1, Zenon DEF Lies
  <2>3. w[k + j] = v[j]
    BY Zenon DEF Lies
  <2> QED
    BY <2>1, <2>2, <2>3, Zenon
<1> QED
  BY <1>2, <1>3, Zenon DEF Lies

\* What stands in a concatenation.
Pair(V, a, b, c) == c \in Seq(V) /\ Len(c) = Len(a) + Len(b) /\ Lies(c, 0, a) /\ Lies(c, Len(a), b)

LEMMA TwoParts ==
  ASSUME NEW V, NEW a \in Seq(V), NEW b \in Seq(V)
  PROVE  Pair(V, a, b, a \o b)
<1>0. PICK c : c = a \o b
  OBVIOUS
<1>1. c \in Seq(V) /\ Len(c) = Len(a) + Len(b)
  <2>1. a \o b \in Seq(V) /\ Len(a \o b) = Len(a) + Len(b)
    BY Both
  <2> QED
    BY <1>0, <2>1, Zenon
<1>2. Len(c) \in Nat /\ Len(a) \in Nat /\ Len(b) \in Nat /\ 0 \in Nat
  BY <1>1, LenProperties
<1>3. Lies(c, 0, c)
  BY <1>2 DEF Lies
<1>4. Lies(c, 0, a) /\ Lies(c, 0 + Len(a), b)
  BY <1>0, <1>2, <1>3, LiesGrown
<1>5. 0 + Len(a) = Len(a)
  BY <1>2
<1> QED
  BY <1>0, <1>1, <1>4, <1>5, Zenon DEF Pair

----------------------------------------------------------------------------
(* Answers.                                                                *)

\* An answer that can be sent.
Sendable(a) == a \in Answer /\ Len(a.body) \in Number

\* The fields of an answer that stands behind the first o octets of u.
Fields(u, o, a) ==
  /\ Lies(u, o, a.name) /\ Lies(u, o + Len(a.name), PutShort(a.type))
  /\ Lies(u, o + Len(a.name) + 2, PutShort(a.class))
  /\ Lies(u, o + Len(a.name) + 8, PutShort(Len(a.body)))
  /\ Lies(u, o + Len(a.name) + 10, a.body)

LEMMA SendableIs ==
  ASSUME NEW a, Sendable(a)
  PROVE  /\ a.name \in Seq(Byte) /\ SkipName(a.name, 1) = Len(a.name) + 1
         /\ a.type \in Number /\ a.class \in Number /\ a.ttl \in Seq(Byte) /\ Len(a.ttl) = 4
         /\ a.body \in Seq(Byte) /\ Len(a.body) \in Number /\ Len(a.body) \in Nat /\ Len(a.name) \in Nat
<1>1. /\ a.name \in Encodings /\ a.type \in Number /\ a.class \in Number /\ a.ttl \in [1 .. 4 -> Byte]
      /\ a.body \in Seq(Byte) /\ Len(a.body) \in Number
  BY DEF Sendable, Answer
<1>2. a.name \in Seq(Byte) /\ SkipName(a.name, 1) = Len(a.name) + 1
  BY <1>1, SampleAssumption, Zenon
<1>3. a.ttl \in Seq(Byte) /\ Len(a.ttl) = 4
  <2>1. \A f \in [1 .. 4 -> Byte] : f \in Seq(Byte) /\ Len(f) = 4
    <3> SUFFICES ASSUME NEW f \in [1 .. 4 -> Byte] PROVE f \in Seq(Byte) /\ Len(f) = 4
      OBVIOUS
    <3>1. DOMAIN f = 1 .. 4 /\ 4 \in Nat
      OBVIOUS
    <3>2. f \in Seq(Byte)
      BY <3>1, SeqDef
    <3> QED
      BY <3>1, <3>2, LenProperties
  <2> QED
    BY <1>1, <2>1, Zenon
<1>4. Len(a.body) \in Nat /\ Len(a.name) \in Nat
  BY <1>1, <1>2, LenProperties
<1> QED
  BY <1>1, <1>2, <1>3, <1>4

LEMMA WireIs ==
  ASSUME NEW a, Sendable(a)
  PROVE  Wire(a) \in Seq(Byte) /\ Len(Wire(a)) = Len(a.name) + 10 + Len(a.body) /\ Fields(Wire(a), 0, a)
<1> DEFINE n == a.name
           t == PutShort(a.type)
           c == PutShort(a.class)
           e == a.ttl
           l == PutShort(Len(a.body))
           b == a.body
<1>1. /\ n \in Seq(Byte) /\ e \in Seq(Byte) /\ Len(e) = 4 /\ b \in Seq(Byte)
      /\ Len(b) \in Nat /\ Len(n) \in Nat
  BY SendableIs
<1>2. t \in Seq(Byte) /\ Len(t) = 2 /\ c \in Seq(Byte) /\ Len(c) = 2 /\ l \in Seq(Byte) /\ Len(l) = 2
  <2>1. a.type \in Number /\ a.class \in Number /\ Len(a.body) \in Number
    BY SendableIs
  <2> QED
    BY <2>1, ShortIs
<1>3. Wire(a) = Row(n, t, c, e) \o l \o b
  BY Zenon DEF Wire, Row
<1> HIDE DEF n, t, c, e, l, b
<1>4. PICK x : x = Row(n, t, c, e)
  OBVIOUS
<1>5. Lined(Byte, n, t, c, e, x)
  <2>1. Lined(Byte, n, t, c, e, Row(n, t, c, e))
    BY <1>1, <1>2, FourParts
  <2> QED
    BY <1>4, <2>1, Zenon
<1>6. x \in Seq(Byte) /\ Lies(x, 0, n) /\ Lies(x, Len(n), t) /\ Lies(x, Len(n) + 2, c)
  BY <1>2, <1>5, Zenon DEF Lined
<1>7. Len(x) = Len(n) + 8
  <2>1. Len(x) = Len(n) + Len(t) + Len(c) + Len(e)
    BY <1>5, Zenon DEF Lined
  <2> QED
    BY <2>1, <1>1, <1>2
<1>8. PICK y : y = x \o l
  OBVIOUS
<1>9. y \in Seq(Byte) /\ Len(y) = Len(x) + Len(l) /\ Lies(y, 0, x) /\ Lies(y, Len(x), l)
  <2>1. Pair(Byte, x, l, x \o l)
    BY <1>2, <1>6, TwoParts
  <2> QED
    BY <1>8, <2>1, Zenon DEF Pair
<1>10. PICK w : w = y \o b
  OBVIOUS
<1>11. w \in Seq(Byte) /\ Len(w) = Len(y) + Len(b) /\ Lies(w, 0, y) /\ Lies(w, Len(y), b)
  <2>1. Pair(Byte, y, b, y \o b)
    BY <1>1, <1>9, TwoParts
  <2> QED
    BY <1>10, <2>1, Zenon DEF Pair
<1>12. Len(y) = Len(n) + 10 /\ Len(w) = Len(n) + 10 + Len(b)
  BY <1>1, <1>2, <1>7, <1>9, <1>11
<1>13. /\ Len(x) \in Nat /\ Len(y) \in Nat /\ Len(w) \in Nat /\ 0 \in Nat /\ Len(n) + 2 \in Nat
       /\ Len(t) \in Nat /\ Len(c) \in Nat /\ Len(l) \in Nat
       /\ 0 + 0 = 0 /\ 0 + Len(n) = Len(n) /\ 0 + (Len(n) + 2) = 0 + Len(n) + 2 /\ 0 + Len(x) = 0 + Len(n) + 8
       /\ Len(y) = 0 + Len(n) + 10
  BY <1>1, <1>2, <1>7, <1>12
<1>14. Lies(w, 0 + 0, x) /\ Lies(w, 0 + Len(x), l)
  BY <1>9, <1>11, <1>13, LiesIn
<1>15. Lies(w, 0, x)
  BY <1>13, <1>14, Zenon
<1>16. Lies(w, 0 + 0, n) /\ Lies(w, 0 + Len(n), t) /\ Lies(w, 0 + (Len(n) + 2), c)
  BY <1>1, <1>6, <1>13, <1>15, LiesIn
<1>17. Fields(w, 0, a)
  BY <1>11, <1>13, <1>14, <1>16, Zenon DEF Fields, n, t, c, l, b
<1>18. Wire(a) = w
  BY <1>3, <1>4, <1>8, <1>10, Zenon
<1> QED
  BY <1>11, <1>12, <1>17, <1>18, Zenon DEF n, b

\* p is what came of u, or all of it.
Begins(p, u) == Len(p) <= Len(u) /\ \A j \in 1 .. Len(p) : p[j] = u[j]

LEMMA LiesCut ==
  ASSUME NEW u, Len(u) \in Nat, NEW p, Len(p) \in Nat, Begins(p, u), NEW w, Len(w) \in Nat, NEW o \in Nat,
         Lies(u, o, w), o + Len(w) <= Len(p)
  PROVE  Lies(p, o, w)
<1>1. ASSUME NEW j \in 1 .. Len(w) PROVE p[o + j] = w[j]
  <2>1. o + j \in 1 .. Len(p)
    OBVIOUS
  <2> QED
    BY <2>1, Zenon DEF Begins, Lies
<1> QED
  BY <1>1, Zenon DEF Lies

\* What is read of an answer, and what the code makes of its fixed part.
Read(a, o)  == [type |-> a.type, class |-> a.class, length |-> Len(a.body), body |-> o + Len(a.name) + 11]
Fixed(p, j) == [type |-> Short(p, j), class |-> Short(p, j + 2), length |-> Short(p, j + 8), body |-> j + 10]

LEMMA RecordNone ==
  ASSUME NEW p, NEW i, SkipName(p, i) = 0 \/ SkipName(p, i) + 9 > Len(p)
  PROVE  Record(p, i) = NoRecord
  BY Zenon DEF Record

LEMMA RecordFixed ==
  ASSUME NEW p, NEW i, NEW j, j = SkipName(p, i), ~(j = 0 \/ j + 9 > Len(p))
  PROVE  /\ Fixed(p, j).body + Fixed(p, j).length - 1 > Len(p) => Record(p, i) = NoRecord
         /\ ~(Fixed(p, j).body + Fixed(p, j).length - 1 > Len(p)) => Record(p, i) = Fixed(p, j)
  BY Zenon DEF Record, Fixed

\* An answer that came is read as it was meant, and one that did not is none.
LEMMA RecordIs ==
  ASSUME NEW u \in Seq(Byte), NEW p \in Seq(Byte), Begins(p, u), NEW a, Sendable(a),
         NEW o \in Nat, o <= Len(p), Lies(u, o, Wire(a))
  PROVE  /\ o + Len(Wire(a)) <= Len(p) => Record(p, o + 1) = Read(a, o)
         /\ ~(o + Len(Wire(a)) <= Len(p)) => Record(p, o + 1) = NoRecord
<1> DEFINE n == Len(a.name)
           l == Len(a.body)
           j == o + n + 1
           L == Len(p)
<1>1. /\ a.name \in Seq(Byte) /\ SkipName(a.name, 1) = n + 1 /\ a.type \in Number /\ a.class \in Number
      /\ l \in Number /\ l \in Nat /\ n \in Nat /\ a.body \in Seq(Byte)
  BY SendableIs
<1>2. Len(u) \in Nat /\ L \in Nat
  BY LenProperties
<1>3. Wire(a) \in Seq(Byte) /\ Len(Wire(a)) = n + 10 + l /\ Fields(Wire(a), 0, a)
  BY WireIs
<1>w. Len(Wire(a)) = n + 10 + l /\ n \in Nat /\ l \in Nat /\ L \in Nat
  BY <1>1, <1>2, <1>3
<1>4. /\ Lies(u, o + 0, a.name) /\ Lies(u, o + n, PutShort(a.type)) /\ Lies(u, o + (n + 2), PutShort(a.class))
      /\ Lies(u, o + (n + 8), PutShort(l))
  <2>1. /\ Lies(Wire(a), 0, a.name) /\ Lies(Wire(a), n, PutShort(a.type)) /\ Lies(Wire(a), n + 2, PutShort(a.class))
        /\ Lies(Wire(a), n + 8, PutShort(l))
    <3>1. 0 + n = n
      BY <1>1
    <3> QED
      BY <1>3, <3>1, Zenon DEF Fields
  <2>2. Len(Wire(a)) \in Nat /\ n + 2 \in Nat /\ n + 8 \in Nat /\ 0 \in Nat
    <3> HIDE DEF n, l
    <3> QED
      BY <1>1, <1>3
  <2>3. Len(PutShort(a.type)) \in Nat /\ Len(PutShort(a.class)) \in Nat /\ Len(PutShort(l)) \in Nat
    <3>1. Len(PutShort(a.type)) = 2 /\ Len(PutShort(a.class)) = 2 /\ Len(PutShort(l)) = 2
      BY <1>1, ShortIs
    <3> QED
      BY <3>1
  <2> QED
    BY <1>1, <1>2, <2>1, <2>2, <2>3, LiesIn
<1>5. CASE L < o + n
  <2>1. \A k \in 1 .. L - o : p[o + k] = a.name[k]
    <3> SUFFICES ASSUME NEW k \in 1 .. L - o PROVE p[o + k] = a.name[k]
      OBVIOUS
    <3>1. o + k \in 1 .. L /\ k \in 1 .. n /\ o + 0 = o
      BY <1>1, <1>2, <1>5
    <3>2. p[o + k] = u[o + k]
      BY <3>1, Zenon DEF Begins
    <3>3. Lies(u, o, a.name)
      BY <1>4, <3>1, Zenon
    <3>4. u[o + k] = a.name[k]
      BY <3>1, <3>3, Zenon DEF Lies
    <3> QED
      BY <3>2, <3>4, Zenon
  <2>2. SkipName(p, o + 1) = 0
    BY <1>1, <1>5, <2>1, SkipsNone
  <2>3. Record(p, o + 1) = NoRecord
    BY <2>2, RecordNone
  <2>4. ~(o + Len(Wire(a)) <= L)
    <3> HIDE DEF n, l, L
    <3> QED
      BY <1>w, <1>5
  <2> QED
    BY <2>3, <2>4
<1>6. CASE ~(L < o + n)
  <2>0. o + n <= L /\ o + 0 = o
    BY <1>1, <1>2, <1>6
  <2>1. Lies(p, o, a.name)
    <3>1. Lies(u, o, a.name)
      BY <1>4, <2>0, Zenon
    <3> QED
      BY <1>1, <1>2, <2>0, <3>1, LiesCut
  <2>2. SkipName(p, o + 1) = j
    <3>1. \A k \in 1 .. Len(a.name) : p[o + k] = a.name[k]
      BY <2>1, Zenon DEF Lies
    <3> QED
      BY <1>1, <2>0, <3>1, SkipsWhole
  <2>3. CASE j + 9 > L
    <3>1. Record(p, o + 1) = NoRecord
      BY <2>2, <2>3, RecordNone
    <3>2. ~(o + Len(Wire(a)) <= L)
      <4>1. o + n + 1 + 9 > L
        BY <2>3
      <4> HIDE DEF n, l, L
      <4> QED
        BY <1>w, <4>1
    <3> QED
      BY <3>1, <3>2
  <2>4. CASE ~(j + 9 > L)
    <3>1. ~(j = 0 \/ j + 9 > L) /\ j = SkipName(p, o + 1)
      BY <1>1, <2>2, <2>4
    <3>2. /\ Fixed(p, j).body + Fixed(p, j).length - 1 > L => Record(p, o + 1) = NoRecord
          /\ ~(Fixed(p, j).body + Fixed(p, j).length - 1 > L) => Record(p, o + 1) = Fixed(p, j)
      BY <3>1, RecordFixed, Zenon
    <3>3. /\ o + n + 2 <= L /\ o + (n + 2) + 2 <= L /\ o + (n + 8) + 2 <= L
          /\ o + n \in Nat /\ o + (n + 2) \in Nat /\ o + (n + 8) \in Nat
      BY <1>1, <1>2, <2>4
    <3>4. /\ Lies(p, o + n, PutShort(a.type)) /\ Lies(p, o + (n + 2), PutShort(a.class))
          /\ Lies(p, o + (n + 8), PutShort(l))
      <4>1. Len(PutShort(a.type)) = 2 /\ Len(PutShort(a.class)) = 2 /\ Len(PutShort(l)) = 2 /\ 2 \in Nat
        BY <1>1, ShortIs
      <4> HIDE DEF n, l
      <4>2. Lies(p, o + n, PutShort(a.type))
        BY <1>2, <1>4, <3>3, <4>1, LiesCut
      <4>3. Lies(p, o + (n + 2), PutShort(a.class))
        BY <1>2, <1>4, <3>3, <4>1, LiesCut
      <4>4. Lies(p, o + (n + 8), PutShort(l))
        BY <1>2, <1>4, <3>3, <4>1, LiesCut
      <4> QED
        BY <4>2, <4>3, <4>4
    <3>5. /\ Short(p, o + n + 1) = a.type /\ Short(p, o + (n + 2) + 1) = a.class
          /\ Short(p, o + (n + 8) + 1) = l
      BY <1>1, <3>3, <3>4, LiesShort
    <3>6. o + n + 1 = j /\ o + (n + 2) + 1 = j + 2 /\ o + (n + 8) + 1 = j + 8 /\ j + 10 = o + n + 11
      <4> HIDE DEF n
      <4> QED
        BY <1>w
    <3>7. Fixed(p, j) = Read(a, o)
      BY <3>5, <3>6, Zenon DEF Fixed, Read
    <3>8. Read(a, o).body = o + n + 11 /\ Read(a, o).length = l
      BY DEF Read
    <3> HIDE DEF j, n, l, L
    <3>9. /\ Read(a, o).body + Read(a, o).length - 1 = o + n + 11 + l - 1
      BY <3>8, Zenon
    <3>10. (Read(a, o).body + Read(a, o).length - 1 > L) <=> ~(o + Len(Wire(a)) <= L)
      <4> PICK z : z = Read(a, o).body + Read(a, o).length - 1
        OBVIOUS
      <4>1. z = o + n + 11 + l - 1
        BY <3>9
      <4>2. (z > L) <=> ~(o + Len(Wire(a)) <= L)
        BY <1>w, <4>1
      <4> QED
        BY <4>2
    <3> QED
      BY <3>2, <3>7, <3>10, Zenon DEF L
  <2> QED
    BY <2>3, <2>4
<1> QED
  BY <1>5, <1>6

----------------------------------------------------------------------------
(* Replies.                                                                *)

LEMMA ReplyIs ==
  ASSUME NEW r \in Replies
  PROVE  /\ Headed(Head0(r)) /\ r.type \in Number /\ IsName(r.asked) /\ Len(r.as) \in Nat
         /\ \A n \in 1 .. Len(r.as) : Sendable(r.as[n])
<1>1. /\ r.id \in Number /\ r.flags \in [DOMAIN Unit -> Nat]
      /\ \A f \in DOMAIN Unit : r.flags[f] \in 0 .. Count[f] - 1
      /\ r.asked \in Texts /\ r.type \in Number
      /\ r.as \in Seq(Answer) /\ Len(r.as) \in Number
      /\ \A n \in 1 .. Len(r.as) : Len(r.as[n].body) \in Number
  BY SampleAssumption, Zenon
<1>2. IsName(r.asked)
  BY <1>1, SampleAssumption, Zenon
<1>3. 1 \in Number /\ 0 \in Number
  BY InNumber
<1>4. /\ Head0(r).id = r.id /\ Head0(r).flags = r.flags /\ Head0(r).qd = 1 /\ Head0(r).an = Len(r.as)
      /\ Head0(r).ns = 0 /\ Head0(r).ar = 0
  BY DEF Head0
<1>5. Headed(Head0(r))
  <2>1. Head0(r) = [id |-> r.id, flags |-> r.flags, qd |-> 1, an |-> Len(r.as), ns |-> 0, ar |-> 0]
    BY DEF Head0
  <2>2. Head0(r) = [id |-> Head0(r).id, flags |-> Head0(r).flags, qd |-> Head0(r).qd, an |-> Head0(r).an,
                    ns |-> Head0(r).ns, ar |-> Head0(r).ar]
    BY <1>4, <2>1, Zenon
  <2> QED
    BY <1>1, <1>3, <1>4, <2>2, Zenon DEF Headed
<1>6. Len(r.as) \in Nat
  BY <1>1, LenProperties
<1>7. ASSUME NEW n \in 1 .. Len(r.as) PROVE Sendable(r.as[n])
  <2>1. r.as[n] \in Answer
    BY <1>1, ElementOfSeq
  <2> QED
    BY <1>1, <2>1 DEF Sendable
<1> QED
  BY <1>1, <1>2, <1>5, <1>6, <1>7

LEMMA EncodedIs ==
  ASSUME NEW text, Fit(text)
  PROVE  Encoded(text) = Named(text)
<1>1. Len(text) \in Nat /\ Extent(text) \in Nat /\ Extent(text) <= Len(text) + 2
  BY FitIs
<1>2. Len(text) + 2 \in Int
  BY <1>1
<1>3. PutName(text, Len(text) + 2) = Named(text)
  BY <1>1, <1>2, PutFits
<1> QED
  BY <1>3, Zenon DEF Encoded

\* The question of a reply, and its answers.
Asks(r)   == Row(Dump(Head0(r)), Encoded(r.asked), PutShort(r.type), PutShort(ClassIn))
Pieces(r) == [k \in 1 .. Len(r.as) |-> Wire(r.as[k])]

\* A reply to a question for a name.
Replied(r) == r \in Replies /\ Proper(r.asked)

LEMMA AsksIs ==
  ASSUME NEW r, Replied(r)
  PROVE  /\ Fit(r.asked) /\ r.asked # << >> /\ Extent(r.asked) \in Nat
         /\ Lined(Byte, Dump(Head0(r)), Named(r.asked), PutShort(r.type), PutShort(ClassIn), Asks(r))
         /\ Asks(r) \in Seq(Byte) /\ Len(Asks(r)) = Extent(r.asked) + 16
         /\ Lies(Asks(r), 0, Dump(Head0(r))) /\ Lies(Asks(r), 12, Named(r.asked))
<1>1. r \in Replies /\ Proper(r.asked)
  BY DEF Replied
<1>2. Headed(Head0(r)) /\ r.type \in Number /\ IsName(r.asked)
  BY <1>1, ReplyIs
<1>3. Fit(r.asked) /\ r.asked # << >>
  BY <1>1, <1>2 DEF Fit, Proper
<1>4. PICK t : t = r.asked
  OBVIOUS
<1>5. Fit(t)
  BY <1>3, <1>4, Zenon
<1>6. Extent(t) \in Nat /\ Named(t) \in Seq(Byte) /\ Len(Named(t)) = Extent(t) /\ Encoded(t) = Named(t)
  BY <1>5, FitIs, NamedIs, EncodedIs
<1> DEFINE d == Dump(Head0(r))
           n == Named(t)
           s == PutShort(r.type)
           c == PutShort(ClassIn)
<1>7. d \in Seq(Byte) /\ Len(d) = 12
  BY <1>2, HeaderIs
<1>8. s \in Seq(Byte) /\ Len(s) = 2
  BY <1>2, ShortIs
<1>9. c \in Seq(Byte) /\ Len(c) = 2
  BY ClassNumber, ShortIs
<1>10. Asks(r) = Row(d, n, s, c)
  BY <1>4, <1>6, Zenon DEF Asks
<1>11. n \in Seq(Byte) /\ Len(n) = Extent(t)
  BY <1>6
<1> HIDE DEF d, n, s, c
<1>12. Lined(Byte, d, n, s, c, Row(d, n, s, c))
  BY <1>7, <1>8, <1>9, <1>11, FourParts
<1>13. Lined(Byte, d, n, s, c, Asks(r))
  BY <1>10, <1>12, Zenon
<1>14. /\ Asks(r) \in Seq(Byte) /\ Len(Asks(r)) = Len(d) + Len(n) + Len(s) + Len(c)
       /\ Lies(Asks(r), 0, d) /\ Lies(Asks(r), Len(d), n)
  BY <1>13, Zenon DEF Lined
<1>15. Len(Asks(r)) = Extent(t) + 16
  BY <1>6, <1>7, <1>8, <1>9, <1>11, <1>14
<1>16. Lies(Asks(r), 12, n)
  BY <1>7, <1>14, Zenon
<1> QED
  BY <1>3, <1>4, <1>6, <1>13, <1>14, <1>15, <1>16, Zenon DEF d, n, s, c

LEMMA UntilFlat ==
  ASSUME NEW r, Replied(r), NEW n \in 0 .. Len(r.as)
  PROVE  Until(r, n) = Asks(r) \o Flat(Pieces(r), n)
<1>1. Len(r.as) \in Nat
  BY ReplyIs DEF Replied
<1>2. [k \in 1 .. n |-> Wire(r.as[k])] = [k \in 1 .. n |-> Pieces(r)[k]]
  <2>1. \A k \in 1 .. n : k \in 1 .. Len(r.as)
    BY <1>1
  <2>2. \A k \in 1 .. Len(r.as) : Pieces(r)[k] = Wire(r.as[k])
    BY DEF Pieces
  <2> QED
    BY <2>1, <2>2, Zenon
<1>3. FlattenSeq([k \in 1 .. n |-> Wire(r.as[k])]) = Flat(Pieces(r), n)
  BY <1>2, Zenon DEF Flat
<1> QED
  BY <1>3, Zenon DEF Until, Asks, Row

\* Each answer stands behind those before it.
LEMMA UntilIs ==
  ASSUME NEW r, Replied(r)
  PROVE  /\ Len(r.as) \in Nat
         /\ Until(r, 0) = Asks(r)
         /\ \A n \in 0 .. Len(r.as) : Until(r, n) \in Seq(Byte)
         /\ \A n \in 1 .. Len(r.as) : Pair(Byte, Until(r, n - 1), Wire(r.as[n]), Until(r, n))
<1> DEFINE m == Len(r.as)
           G == Pieces(r)
<1>1. m \in Nat /\ \A n \in 1 .. m : Sendable(r.as[n])
  BY ReplyIs DEF Replied
<1>2. \A n \in 1 .. m : G[n] = Wire(r.as[n])
  BY DEF Pieces
<1>3. \A n \in 1 .. m : G[n] \in Seq(Byte)
  <2>1. \A n \in 1 .. m : Wire(r.as[n]) \in Seq(Byte)
    BY <1>1, WireIs
  <2> QED
    BY <1>2, <2>1, Zenon
<1> HIDE DEF G
<1>4. /\ Flat(G, 0) = << >>
      /\ \A k \in 0 .. m : Flat(G, k) \in Seq(Byte)
      /\ \A k \in 1 .. m : Flat(G, k) = Flat(G, k - 1) \o G[k]
  <2> HIDE DEF m
  <2> QED
    BY <1>1, <1>3, FlatIs
<1>5. \A n \in 0 .. m : Until(r, n) = Asks(r) \o Flat(G, n)
  BY UntilFlat DEF G
<1>6. Asks(r) \in Seq(Byte)
  BY AsksIs
<1> HIDE DEF m
<1>7. 0 \in 0 .. m /\ \A n \in 1 .. m : n \in 0 .. m /\ n - 1 \in 0 .. m
  BY <1>1
<1>8. Until(r, 0) = Asks(r)
  <2>1. Asks(r) \o << >> = Asks(r)
    BY <1>6, ConcatEmptySeq
  <2> QED
    BY <1>4, <1>5, <1>7, <2>1, Zenon
<1>9. \A n \in 0 .. m : Until(r, n) \in Seq(Byte)
  <2>1. \A n \in 0 .. m : Asks(r) \o Flat(G, n) \in Seq(Byte)
    BY <1>4, <1>6, Both
  <2> QED
    BY <1>5, <2>1, Zenon
<1>10. ASSUME NEW n \in 1 .. m PROVE Pair(Byte, Until(r, n - 1), Wire(r.as[n]), Until(r, n))
  <2>1. PICK f : f = Flat(G, n - 1)
    OBVIOUS
  <2>2. f \in Seq(Byte) /\ G[n] \in Seq(Byte) /\ Flat(G, n) = f \o G[n]
    BY <1>3, <1>4, <1>7, <2>1, Zenon
  <2>3. Asks(r) \o (f \o G[n]) = (Asks(r) \o f) \o G[n]
    <3>1. PICK a, g : a = Asks(r) /\ g = G[n]
      OBVIOUS
    <3>2. a \in Seq(Byte) /\ f \in Seq(Byte) /\ g \in Seq(Byte)
      BY <1>6, <2>2, <3>1, Zenon
    <3>3. (a \o f) \o g = a \o (f \o g)
      BY <3>2, ConcatAssociative
    <3> QED
      BY <3>1, <3>3, Zenon
  <2>4. Until(r, n) = Until(r, n - 1) \o G[n]
    BY <1>5, <1>7, <2>1, <2>2, <2>3, Zenon
  <2>5. Pair(Byte, Until(r, n - 1), G[n], Until(r, n - 1) \o G[n])
    BY <1>7, <1>9, <2>2, TwoParts
  <2> QED
    BY <1>2, <2>4, <2>5, Zenon DEF G
<1> QED
  BY <1>1, <1>8, <1>9, <1>10 DEF m

\* Every answer stands in the whole reply, behind those before it.
LEMMA UntilLies ==
  ASSUME NEW r, Replied(r)
  PROVE  LET m == Len(r.as) IN
         /\ \A n \in 0 .. m : Lies(Until(r, m), 0, Until(r, n))
         /\ \A n \in 1 .. m : Lies(Until(r, m), Len(Until(r, n - 1)), Wire(r.as[n]))
<1> DEFINE m == Len(r.as)
           u == Until(r, m)
           T == {k \in 0 .. m : Lies(u, 0, Until(r, m - k))}
<1>1. /\ m \in Nat /\ \A n \in 0 .. m : Until(r, n) \in Seq(Byte)
      /\ \A n \in 1 .. m : Pair(Byte, Until(r, n - 1), Wire(r.as[n]), Until(r, n))
  BY UntilIs
<1>2. \A n \in 1 .. m : Wire(r.as[n]) \in Seq(Byte)
  BY ReplyIs, WireIs DEF Replied
<1> HIDE DEF m, u
<1>3. m \in 0 .. m /\ 0 \in 0 .. m
  BY <1>1
<1>4. u \in Seq(Byte) /\ Len(u) \in Nat /\ 0 \in Nat
  <2>1. u \in Seq(Byte)
    BY <1>1, <1>3, Zenon DEF u
  <2> QED
    BY <2>1, LenProperties
<1>5. \A n \in 0 .. m : Len(Until(r, n)) \in Nat
  BY <1>1, LenProperties
<1>6. \A n \in 1 .. m : n \in 0 .. m /\ n - 1 \in 0 .. m /\ Len(Wire(r.as[n])) \in Nat
  BY <1>1, <1>2, LenProperties
<1>7. ASSUME NEW n \in 1 .. m, Lies(u, 0, Until(r, n))
      PROVE  Lies(u, 0, Until(r, n - 1)) /\ Lies(u, Len(Until(r, n - 1)), Wire(r.as[n]))
  <2>1. PICK a, b, c : a = Until(r, n - 1) /\ b = Wire(r.as[n]) /\ c = Until(r, n)
    OBVIOUS
  <2>2. Len(a) \in Nat /\ Len(b) \in Nat /\ Len(c) \in Nat
    BY <1>5, <1>6, <2>1, Zenon
  <2>3. Lies(c, 0, a) /\ Lies(c, Len(a), b) /\ Lies(u, 0, c)
    <3>1. Pair(Byte, a, b, c)
      BY <1>1, <2>1, Zenon
    <3> QED
      BY <1>7, <2>1, <3>1, Zenon DEF Pair
  <2>4. Lies(u, 0 + 0, a) /\ Lies(u, 0 + Len(a), b)
    BY <1>4, <2>2, <2>3, LiesIn
  <2>5. 0 + 0 = 0 /\ 0 + Len(a) = Len(a)
    BY <2>2
  <2> QED
    BY <2>1, <2>4, <2>5, Zenon
<1>8. 0 \in T
  <2>1. Lies(u, 0, u)
    BY <1>4 DEF Lies
  <2>2. m - 0 = m
    BY <1>1
  <2> QED
    BY <1>3, <2>1, <2>2 DEF u
<1>9. ASSUME NEW k \in 1 .. m, k - 1 \in T PROVE k \in T
  <2>1. m - k + 1 \in 1 .. m /\ m - k + 1 - 1 = m - k /\ m - (k - 1) = m - k + 1 /\ k \in 0 .. m
    BY <1>1
  <2>2. Lies(u, 0, Until(r, m - k + 1))
    BY <1>9, <2>1
  <2>3. Lies(u, 0, Until(r, m - k))
    <3>0. PICK n : n = m - k + 1
      OBVIOUS
    <3>1. n \in 1 .. m /\ Lies(u, 0, Until(r, n))
      BY <2>1, <2>2, <3>0, Zenon
    <3>2. Lies(u, 0, Until(r, n - 1))
      BY <1>7, <3>1
    <3>3. n - 1 = m - k
      BY <1>1, <3>0
    <3> QED
      BY <3>2, <3>3
  <2> QED
    BY <2>1, <2>3
<1>10. 0 .. m \subseteq T
  <2> HIDE DEF T
  <2> QED
    BY <1>1, <1>8, <1>9, Induction
<1>11. ASSUME NEW n \in 0 .. m PROVE Lies(u, 0, Until(r, n))
  <2>1. m - n \in 0 .. m /\ m - (m - n) = n
    BY <1>1
  <2> QED
    BY <1>10, <2>1
<1>12. \A n \in 1 .. m : Lies(u, Len(Until(r, n - 1)), Wire(r.as[n]))
  BY <1>6, <1>7, <1>11
<1> QED
  BY <1>11, <1>12 DEF m, u

LEMMA UntilGrows ==
  ASSUME NEW r, Replied(r)
  PROVE  LET m == Len(r.as) IN
         /\ \A n \in 0 .. m : Len(Until(r, n)) \in Nat
         /\ \A n \in 1 .. m : Len(Until(r, n)) = Len(Until(r, n - 1)) + Len(Wire(r.as[n]))
         /\ \A i, j \in 0 .. m : i <= j => Len(Until(r, i)) <= Len(Until(r, j))
<1> DEFINE m == Len(r.as)
           T == {j \in 0 .. m : \A i \in 0 .. m : i <= j => Len(Until(r, i)) <= Len(Until(r, j))}
<1>1. /\ m \in Nat /\ \A n \in 0 .. m : Until(r, n) \in Seq(Byte)
      /\ \A n \in 1 .. m : Pair(Byte, Until(r, n - 1), Wire(r.as[n]), Until(r, n))
  BY UntilIs
<1>2. \A n \in 1 .. m : Wire(r.as[n]) \in Seq(Byte)
  BY ReplyIs, WireIs DEF Replied
<1> HIDE DEF m
<1>3. \A n \in 0 .. m : Len(Until(r, n)) \in Nat
  BY <1>1, LenProperties
<1>4. \A n \in 1 .. m : Len(Until(r, n)) = Len(Until(r, n - 1)) + Len(Wire(r.as[n]))
  BY <1>1, Zenon DEF Pair
<1>5. \A n \in 1 .. m : Len(Wire(r.as[n])) \in Nat
  BY <1>2, LenProperties
<1>6. 0 \in T
  BY <1>1, <1>3
<1>7. ASSUME NEW k \in 1 .. m, k - 1 \in T PROVE k \in T
  <2>1. k \in 0 .. m /\ k - 1 \in 0 .. m
    BY <1>1
  <2>2. Len(Until(r, k - 1)) <= Len(Until(r, k))
    BY <1>3, <1>4, <1>5, <2>1
  <2>3. ASSUME NEW i \in 0 .. m, i <= k PROVE Len(Until(r, i)) <= Len(Until(r, k))
    <3>1. CASE i = k
      BY <1>3, <3>1
    <3>2. CASE i # k
      <4>1. i <= k - 1
        BY <2>3, <3>2
      <4>2. Len(Until(r, i)) <= Len(Until(r, k - 1))
        BY <1>7, <4>1
      <4> QED
        BY <1>3, <2>1, <2>2, <4>2
    <3> QED
      BY <3>1, <3>2
  <2> QED
    BY <2>1, <2>3
<1>8. 0 .. m \subseteq T
  <2> HIDE DEF T
  <2> QED
    BY <1>1, <1>6, <1>7, Induction
<1> QED
  BY <1>3, <1>4, <1>8 DEF m

\* What came is the beginning of the reply.
LEMMA CameIs ==
  ASSUME NEW r, Replied(r), NEW s, s.of = r, s.cut \in Nat
  PROVE  /\ Came(s) \in Seq(Byte) /\ Begins(Came(s), Until(r, Len(r.as)))
         /\ s.cut = 0 => Came(s) = Until(r, Len(r.as))
<1> DEFINE u == Until(r, Len(r.as))
           k == Len(u) - s.cut
<1>1. u \in Seq(Byte)
  <2>1. Len(r.as) \in 0 .. Len(r.as)
    BY UntilIs
  <2> QED
    BY <2>1, UntilIs
<1>2. Came(s) = SubSeq(u, 1, k)
  BY Zenon DEF Came
<1> HIDE DEF u
<1>3. Len(u) \in Nat
  BY <1>1, LenProperties
<1>4. CASE k < 1
  <2>1. SubSeq(u, 1, k) = << >>
    BY <1>1, <1>3, <1>4, SubSeqProperties
  <2>2. SubSeq(u, 1, k) \in Seq(Byte) /\ Len(SubSeq(u, 1, k)) = 0
    BY <2>1
  <2>3. s.cut = 0 => u = << >>
    <3> SUFFICES ASSUME s.cut = 0 PROVE u = << >>
      OBVIOUS
    <3>1. Len(u) = 0
      BY <1>3, <1>4
    <3> QED
      BY <1>1, <3>1, EmptySeq
  <2>4. Begins(SubSeq(u, 1, k), u)
    BY <2>2, <1>3 DEF Begins
  <2> QED
    BY <1>2, <2>1, <2>2, <2>3, <2>4 DEF u
<1>5. CASE ~(k < 1)
  <2>1. k \in 0 .. Len(u)
    BY <1>3, <1>5
  <2>2. /\ SubSeq(u, 1, k) \in Seq(Byte) /\ Len(SubSeq(u, 1, k)) = k
        /\ \A i \in 1 .. k : SubSeq(u, 1, k)[i] = u[i]
    BY <1>1, <2>1, Parts
  <2>3. Begins(SubSeq(u, 1, k), u)
    BY <2>1, <2>2, <1>3 DEF Begins
  <2>4. s.cut = 0 => SubSeq(u, 1, k) = u
    <3> SUFFICES ASSUME s.cut = 0 PROVE SubSeq(u, 1, k) = u
      OBVIOUS
    <3>1. k = Len(u)
      BY <1>3
    <3> QED
      BY <1>1, <2>2, <3>1, SeqEqual
  <2> QED
    BY <1>2, <2>2, <2>3, <2>4 DEF u
<1> QED
  BY <1>4, <1>5

LEMMA Highest ==
  ASSUME NEW n \in Nat, NEW S, S \subseteq 0 .. n, S # {}
  PROVE  Max(S) \in S /\ \A k \in S : k <= Max(S)
<1> DEFINE D == {n - k : k \in S}
<1>1. D \subseteq Nat /\ D # {}
  <2>1. \A k \in S : n - k \in Nat
    OBVIOUS
  <2>2. PICK k : k \in S
    OBVIOUS
  <2>3. n - k \in D
    BY <2>2
  <2> QED
    BY <2>1, <2>3
<1> HIDE DEF D
<1>2. Min(D) \in D /\ \A k \in D : Min(D) <= k
  BY <1>1, Least
<1> DEFINE m == Min(D)
<1> HIDE DEF m
<1>3. m \in D /\ \A k \in D : m <= k
  BY <1>2 DEF m
<1>4. PICK x \in S : m = n - x
  BY <1>3 DEF D
<1>5. \A k \in S : k <= x
  <2> SUFFICES ASSUME NEW k \in S PROVE k <= x
    OBVIOUS
  <2>1. m <= n - k
    BY <1>3 DEF D
  <2>2. k \in 0 .. n /\ x \in 0 .. n
    OBVIOUS
  <2> QED
    BY <1>4, <2>1, <2>2
<1>6. \E y \in S : \A k \in S : y >= k
  BY <1>5
<1> QED
  BY <1>6 DEF Max

\* How many answers came as a whole.
CameWhole(r, p) == Max({0} \cup {n \in 1 .. Len(r.as) : Len(Until(r, n)) =< Len(p)})

LEMMA CameWholeIs ==
  ASSUME NEW r, Replied(r), NEW p, Len(p) \in Nat
  PROVE  /\ CameWhole(r, p) \in 0 .. Len(r.as)
         /\ Len(Until(r, 0)) <= Len(p) => \A n \in 0 .. Len(r.as) : Len(Until(r, n)) <= Len(p) <=> n <= CameWhole(r, p)
         /\ ~(Len(Until(r, 0)) <= Len(p)) => CameWhole(r, p) = 0
<1> DEFINE m == Len(r.as)
           S == {0} \cup {n \in 1 .. m : Len(Until(r, n)) <= Len(p)}
           w == Max(S)
<1>1. /\ m \in Nat /\ \A n \in 0 .. m : Len(Until(r, n)) \in Nat
      /\ \A i, j \in 0 .. m : i <= j => Len(Until(r, i)) <= Len(Until(r, j))
  BY UntilIs, UntilGrows
<1>2. CameWhole(r, p) = w
  BY DEF CameWhole
<1> HIDE DEF m
<1>3. S \subseteq 0 .. m /\ S # {}
  BY <1>1
<1>4. w \in S /\ \A k \in S : k <= w
  <2> HIDE DEF S
  <2> QED
    BY <1>1, <1>3, Highest
<1> HIDE DEF w
<1>5. w \in 0 .. m
  BY <1>3, <1>4
<1>6. ASSUME Len(Until(r, 0)) <= Len(p), NEW n \in 0 .. m
      PROVE  Len(Until(r, n)) <= Len(p) <=> n <= w
  <2>1. ASSUME Len(Until(r, n)) <= Len(p) PROVE n <= w
    <3>1. n \in S
      BY <1>1, <2>1
    <3> QED
      BY <1>4, <3>1
  <2>2. ASSUME n <= w PROVE Len(Until(r, n)) <= Len(p)
    <3>1. Len(Until(r, w)) <= Len(p)
      BY <1>4, <1>6
    <3>2. Len(Until(r, n)) <= Len(Until(r, w))
      BY <1>1, <1>5, <2>2
    <3>3. Len(Until(r, n)) \in Nat /\ Len(Until(r, w)) \in Nat
      BY <1>1, <1>5
    <3> QED
      BY <3>1, <3>2, <3>3
  <2> QED
    BY <2>1, <2>2
<1>7. ASSUME ~(Len(Until(r, 0)) <= Len(p)) PROVE w = 0
  <2> SUFFICES ASSUME w # 0 PROVE FALSE
    OBVIOUS
  <2>1. w \in 1 .. m /\ Len(Until(r, w)) <= Len(p)
    BY <1>4
  <2>2. 0 \in 0 .. m /\ w \in 0 .. m /\ 0 <= w
    BY <1>1, <2>1
  <2>3. Len(Until(r, 0)) <= Len(Until(r, w)) /\ Len(Until(r, w)) \in Nat /\ Len(Until(r, 0)) \in Nat
    BY <1>1, <2>2
  <2> QED
    BY <1>7, <2>1, <2>3
<1> QED
  BY <1>2, <1>5, <1>6, <1>7 DEF m

----------------------------------------------------------------------------
(* What skip_echo() finds.                                                 *)

\* Behind a question that is there, or nowhere.
EchoEnd(p, i) == IF i = 0 \/ i + 3 > Len(p) THEN 0 ELSE i + 4

LEMMA EchoOne ==
  ASSUME NEW p
  PROVE  SkipEcho(p, 1) = EchoEnd(p, SkipName(p, HeaderSize + 1))
<1> DEFINE e == [k \in 0 .. 1 |-> IF k = 0 THEN HeaderSize + 1 ELSE EchoEnd(p, SkipName(p, HeaderSize + 1))]
           F == CHOOSE f : f = [k \in 0 .. 1 |-> IF k = 0 THEN HeaderSize + 1 ELSE EchoEnd(p, SkipName(p, f[k - 1]))]
<1>1. SkipEcho(p, 1) = F[1]
  BY Zenon DEF SkipEcho, EchoEnd
<1>2. e = [k \in 0 .. 1 |-> IF k = 0 THEN HeaderSize + 1 ELSE EchoEnd(p, SkipName(p, e[k - 1]))]
  <2>1. e[0] = HeaderSize + 1 /\ \A k \in 0 .. 1 : k # 0 => k - 1 = 0
    OBVIOUS
  <2>2. \A k \in 0 .. 1 : k # 0 => EchoEnd(p, SkipName(p, e[k - 1])) = EchoEnd(p, SkipName(p, HeaderSize + 1))
    <3> HIDE DEF e
    <3> QED
      BY <2>1, Zenon
  <2>3. \A k \in 0 .. 1 : e[k] = IF k = 0 THEN HeaderSize + 1 ELSE EchoEnd(p, SkipName(p, e[k - 1]))
    BY <2>2
  <2> QED
    BY <2>3
<1>3. e[1] = EchoEnd(p, SkipName(p, HeaderSize + 1))
  OBVIOUS
<1> HIDE DEF e
<1>4. F = [k \in 0 .. 1 |-> IF k = 0 THEN HeaderSize + 1 ELSE EchoEnd(p, SkipName(p, F[k - 1]))]
  BY <1>2, Zenon
<1> HIDE DEF F
<1>5. F[0] = HeaderSize + 1 /\ F[1] = EchoEnd(p, SkipName(p, F[1 - 1])) /\ 1 - 1 = 0
  <2>1. 0 \in 0 .. 1 /\ 1 \in 0 .. 1 /\ 1 # 0 /\ 1 - 1 = 0
    OBVIOUS
  <2> QED
    BY <1>4, <2>1, Zenon
<1> QED
  BY <1>1, <1>5, Zenon

\* The header and the question of a reply that came, or the beginning of it.
LEMMA FrontIs ==
  ASSUME NEW r, Replied(r), NEW p \in Seq(Byte), Begins(p, Until(r, Len(r.as))), 12 <= Len(p)
  PROVE  /\ Parse(p) = Head0(r)
         /\ Len(Until(r, 0)) <= Len(p) => SkipEcho(p, 1) = Len(Until(r, 0)) + 1
         /\ ~(Len(Until(r, 0)) <= Len(p)) => SkipEcho(p, 1) = 0
<1> DEFINE m == Len(r.as)
           u == Until(r, m)
           d == Dump(Head0(r))
           n == Named(r.asked)
           X == Extent(r.asked)
           L == Len(p)
<1>1. /\ Fit(r.asked) /\ X \in Nat /\ Asks(r) \in Seq(Byte) /\ Len(Asks(r)) = X + 16
      /\ Lies(Asks(r), 0, d) /\ Lies(Asks(r), 12, n)
  BY AsksIs
<1>2. m \in Nat /\ Until(r, 0) = Asks(r) /\ u \in Seq(Byte)
  <2>1. /\ m \in Nat /\ Until(r, 0) = Asks(r) /\ \A k \in 0 .. m : Until(r, k) \in Seq(Byte)
    BY UntilIs
  <2>2. m \in 0 .. m
    BY <2>1
  <2> QED
    BY <2>1, <2>2, Zenon
<1>3. d \in Seq(Byte) /\ Len(d) = 12 /\ \A q : Len(q) \in Nat /\ Lies(q, 0, d) => Parse(q) = Head0(r)
  <2>1. Headed(Head0(r))
    BY ReplyIs DEF Replied
  <2> QED
    BY <2>1, HeaderIs
<1>4. n \in Seq(Byte) /\ Len(n) = X
  BY <1>1, NamedIs
<1>5. Lies(u, 0, Asks(r))
  <2>1. \A k \in 0 .. m : Lies(u, 0, Until(r, k))
    BY UntilLies
  <2>2. 0 \in 0 .. m
    BY <1>2
  <2> QED
    BY <1>2, <2>1, <2>2, Zenon
<1>6. SkipName(n, 1) = Len(n) + 1
  <2>1. Lies(n, 0, n) /\ 0 \in Nat
    BY <1>4 DEF Lies
  <2>2. SkipName(n, 0 + 1) = 0 + X + 1
    BY <1>1, <1>4, <2>1, NameSkipped
  <2>3. 0 + 1 = 1 /\ 0 + X + 1 = X + 1
    BY <1>1
  <2> QED
    BY <1>4, <2>2, <2>3, Zenon
<1> HIDE DEF u, d, n, X, m
<1>7. Len(u) \in Nat /\ L \in Nat /\ Len(Asks(r)) \in Nat /\ Len(d) \in Nat /\ Len(n) \in Nat /\ 0 \in Nat /\ 12 \in Nat
  BY <1>1, <1>2, <1>3, <1>4, LenProperties
<1>8. Begins(p, u)
  BY Zenon DEF u, m
<1>9. Lies(u, 0, d) /\ Lies(u, 12, n)
  <2>1. Lies(u, 0 + 0, d) /\ Lies(u, 0 + 12, n)
    BY <1>1, <1>5, <1>7, LiesIn
  <2>2. 0 + 0 = 0 /\ 0 + 12 = 12
    OBVIOUS
  <2> QED
    BY <2>1, <2>2, Zenon
<1>10. Parse(p) = Head0(r)
  <2>1. 0 + Len(d) <= L
    BY <1>3
  <2>2. Lies(p, 0, d)
    BY <1>7, <1>8, <1>9, <2>1, LiesCut
  <2> QED
    BY <1>3, <1>7, <2>2
<1>11. SkipEcho(p, 1) = EchoEnd(p, SkipName(p, 13))
  <2>1. HeaderSize + 1 = 13
    BY DEF HeaderSize
  <2> QED
    BY <2>1, EchoOne, Zenon
<1>12. CASE L < 12 + X
  <2>1. ASSUME NEW k \in 1 .. L - 12 PROVE p[12 + k] = n[k]
    <3>1. 12 + k \in 1 .. L /\ k \in 1 .. Len(n)
      BY <1>1, <1>4, <1>7, <1>12
    <3>2. p[12 + k] = u[12 + k]
      BY <1>8, <3>1, Zenon DEF Begins
    <3>3. u[12 + k] = n[k]
      BY <1>9, <3>1, Zenon DEF Lies
    <3> QED
      BY <3>2, <3>3, Zenon
  <2>2. SkipName(p, 12 + 1) = 0
    BY <1>4, <1>6, <1>7, <1>12, <2>1, SkipsNone
  <2>3. SkipEcho(p, 1) = 0
    <3>1. 12 + 1 = 13
      OBVIOUS
    <3> QED
      BY <1>11, <2>2, <3>1, Zenon DEF EchoEnd
  <2>4. ~(Len(Until(r, 0)) <= L)
    BY <1>1, <1>2, <1>7, <1>12
  <2> QED
    BY <1>10, <2>3, <2>4
<1>13. CASE ~(L < 12 + X)
  <2>1. 12 + Len(n) <= L
    BY <1>1, <1>4, <1>7, <1>13
  <2>2. Lies(p, 12, n)
    BY <1>7, <1>8, <1>9, <2>1, LiesCut
  <2>3. SkipName(p, 12 + 1) = 12 + X + 1
    BY <1>1, <1>7, <2>2, NameSkipped DEF n, X
  <2>4. SkipEcho(p, 1) = EchoEnd(p, 12 + X + 1)
    <3>1. 12 + 1 = 13
      OBVIOUS
    <3> QED
      BY <1>11, <2>3, <3>1, Zenon
  <2>5. /\ 12 + X + 1 # 0
        /\ (12 + X + 1 + 3 > L) <=> ~(Len(Until(r, 0)) <= L)
        /\ 12 + X + 1 + 4 = Len(Until(r, 0)) + 1
    BY <1>1, <1>2, <1>7
  <2> QED
    BY <1>10, <2>4, <2>5, Zenon DEF EchoEnd
<1> QED
  BY <1>12, <1>13

----------------------------------------------------------------------------
(* The steps through the answers.                                          *)

\* Where the answers are looked for, of addresses and of names.
AddrAt(p) ==
  LET at[n \in 1 .. Parse(p).an + 1] ==
        IF n = 1 THEN SkipEcho(p, Parse(p).qd)
        ELSE LET r == Record(p, at[n - 1]) IN IF r = NoRecord THEN 0 ELSE r.body + r.length
  IN  at

HostAt(p) ==
  LET at[n \in 1 .. Parse(p).an + 1] ==
        IF n = 1 THEN SkipEcho(p, Parse(p).qd)
        ELSE LET r == Record(p, at[n - 1]) IN IF r = NoRecord THEN 0 ELSE at[n - 1] + r.length
  IN  at

\* Those that are there, one after the other from the first.
SeenAt(p, at) ==
  LET all == [n \in 1 .. Parse(p).an |-> Record(p, at[n])]
      bad == {n \in 1 .. Parse(p).an : all[n] = NoRecord}
  IN  IF Parse(p).flags.rcode # 0 THEN << >>
      ELSE SubSeq(all, 1, IF bad = {} THEN Parse(p).an ELSE Min(bad) - 1)

\* The addresses that they hold.
FoundIn(p, seen) ==
  FlattenSeq([n \in 1 .. Len(seen) |->
    IF IsAddr(seen[n]) THEN <<SubSeq(p, seen[n].body, seen[n].body + 3)>> ELSE << >>])

LEMMA GetAddrsIs ==
  ASSUME NEW p
  PROVE  GetAddrs(p) = SubSeq(FoundIn(p, SeenAt(p, AddrAt(p))), 1, Min({Len(FoundIn(p, SeenAt(p, AddrAt(p)))), MaxFound}))
  BY Zenon DEF GetAddrs, Records, SeenAt, AddrAt, FoundIn

\* What is left of the names, and how many are counted.
NamesOf(p, seen) == [n \in 1 .. Len(seen) |-> IF IsHost(seen[n]) THEN GetName(p, seen[n].body, NameSize) ELSE << >>]

HostsIn(p, seen) ==
  LET bad  == {n \in 1 .. Len(seen) : NamesOf(p, seen)[n] = <<Bad>>}
      good == {n \in 1 .. Len(seen) : IsHost(seen[n]) /\ \A b \in bad : n < b}
  IN  [count |-> Min({Cardinality(good), MaxFound}), hostv |-> NamesOf(p, seen)]

LEMMA GetHostsIs ==
  ASSUME NEW p
  PROVE  GetHosts(p) = HostsIn(p, SeenAt(p, HostAt(p)))
  BY Zenon DEF GetHosts, Records, SeenAt, HostAt, NamesOf, HostsIn

\* Where answer n is looked for.
Spot(r, p, n) == IF Len(Until(r, 0)) <= Len(p) /\ n <= CameWhole(r, p) + 1 THEN Len(Until(r, n - 1)) + 1 ELSE 0

LEMMA ReadIs ==
  ASSUME NEW a, Sendable(a), NEW o \in Nat
  PROVE  /\ Read(a, o) # NoRecord
         /\ Read(a, o).body + Read(a, o).length = o + Len(Wire(a)) + 1
<1>1. Len(a.name) \in Nat /\ Len(a.body) \in Nat
  BY SendableIs
<1>2. Len(Wire(a)) = Len(a.name) + 10 + Len(a.body)
  BY WireIs
<1>3. Read(a, o).body = o + Len(a.name) + 11 /\ Read(a, o).length = Len(a.body)
  BY DEF Read
<1>4. Read(a, o).body # 0
  BY <1>1, <1>3
<1>5. NoRecord.body = 0
  BY DEF NoRecord
<1>6. Read(a, o) # NoRecord
  BY <1>4, <1>5
<1>7. Read(a, o).body + Read(a, o).length = o + Len(a.name) + 11 + Len(a.body)
  BY <1>3, Zenon
<1>8. o + Len(a.name) + 11 + Len(a.body) = o + Len(Wire(a)) + 1
  <2>1. PICK n, l, k : n = Len(a.name) /\ l = Len(a.body) /\ k = Len(Wire(a))
    OBVIOUS
  <2>2. n \in Nat /\ l \in Nat /\ k = n + 10 + l
    BY <1>1, <1>2, <2>1, Zenon
  <2>3. o + n + 11 + l = o + k + 1
    BY <2>2
  <2> QED
    BY <2>1, <2>3, Zenon
<1> QED
  BY <1>6, <1>7, <1>8, Zenon

LEMMA NowhereIs == \A p : Record(p, 0) = NoRecord
<1>1. \A p : SkipName(p, 0) = 0
  BY Zenon DEF SkipName
<1> QED
  BY <1>1, RecordNone

\* What is found at the place of an answer.
LEMMA RecordAt ==
  ASSUME NEW r, Replied(r), NEW p \in Seq(Byte), Begins(p, Until(r, Len(r.as))), NEW n \in 1 .. Len(r.as)
  PROVE  LET o == Len(Until(r, n - 1)) IN
         o <= Len(p) =>
           /\ Len(Until(r, n)) <= Len(p) => Record(p, o + 1) = Read(r.as[n], o)
           /\ ~(Len(Until(r, n)) <= Len(p)) => Record(p, o + 1) = NoRecord
<1> DEFINE m == Len(r.as)
           u == Until(r, m)
           o == Len(Until(r, n - 1))
           a == r.as[n]
<1>1. m \in Nat /\ Sendable(a)
  BY ReplyIs DEF Replied
<1>2. n - 1 \in 0 .. m /\ m \in 0 .. m
  BY <1>1
<1>3. u \in Seq(Byte)
  BY <1>2, UntilIs
<1>4. o \in Nat /\ Len(Until(r, n)) = o + Len(Wire(a))
  <2>1. /\ \A k \in 0 .. m : Len(Until(r, k)) \in Nat
        /\ \A k \in 1 .. m : Len(Until(r, k)) = Len(Until(r, k - 1)) + Len(Wire(r.as[k]))
    BY UntilGrows
  <2> HIDE DEF m
  <2> QED
    BY <1>2, <2>1, Zenon DEF m
<1>5. Lies(u, o, Wire(a))
  <2>1. \A k \in 1 .. m : Lies(u, Len(Until(r, k - 1)), Wire(r.as[k]))
    BY UntilLies
  <2> QED
    BY <2>1, Zenon
<1>6. Begins(p, u)
  OBVIOUS
<1> HIDE DEF u, o, a, m
<1>7. ASSUME o <= Len(p)
      PROVE  /\ o + Len(Wire(a)) <= Len(p) => Record(p, o + 1) = Read(a, o)
             /\ ~(o + Len(Wire(a)) <= Len(p)) => Record(p, o + 1) = NoRecord
  BY <1>1, <1>3, <1>4, <1>5, <1>6, <1>7, RecordIs
<1> QED
  BY <1>4, <1>7, Zenon DEF o, a

\* Where the next answer is looked for, behind one that is there.
NextAddr(p, i) == IF Record(p, i) = NoRecord THEN 0 ELSE Record(p, i).body + Record(p, i).length

LEMMA SpotNext ==
  ASSUME NEW r, Replied(r), NEW p \in Seq(Byte), Begins(p, Until(r, Len(r.as))), NEW n \in 1 .. Len(r.as)
  PROVE  Spot(r, p, n + 1) = NextAddr(p, Spot(r, p, n))
<1> DEFINE m == Len(r.as)
           w == CameWhole(r, p)
           o == Len(Until(r, n - 1))
           a == r.as[n]
<1>1. /\ m \in Nat /\ Sendable(a)
  BY ReplyIs DEF Replied
<1>2. Len(p) \in Nat
  BY LenProperties
<1>3. /\ w \in 0 .. m
      /\ Len(Until(r, 0)) <= Len(p) => \A k \in 0 .. m : Len(Until(r, k)) <= Len(p) <=> k <= w
  BY <1>2, CameWholeIs
<1>4. /\ \A k \in 0 .. m : Len(Until(r, k)) \in Nat
      /\ \A k \in 1 .. m : Len(Until(r, k)) = Len(Until(r, k - 1)) + Len(Wire(r.as[k]))
  BY UntilGrows
<1>5. o <= Len(p) =>
           /\ Len(Until(r, n)) <= Len(p) => Record(p, o + 1) = Read(r.as[n], o)
           /\ ~(Len(Until(r, n)) <= Len(p)) => Record(p, o + 1) = NoRecord
  BY RecordAt
<1> HIDE DEF m, w
<1>6. n \in 1 .. m /\ n \in 0 .. m /\ n - 1 \in 0 .. m /\ n + 1 - 1 = n
  BY <1>1 DEF m
<1>7. CASE Len(Until(r, 0)) <= Len(p) /\ n <= w + 1
  <2>1. Spot(r, p, n) = o + 1
    BY <1>7, Zenon DEF Spot, w
  <2>2. o <= Len(p)
    <3>1. n - 1 <= w
      BY <1>3, <1>6, <1>7
    <3> QED
      BY <1>3, <1>6, <1>7, <3>1, Zenon
  <2>3. CASE n <= w
    <3>1. Len(Until(r, n)) <= Len(p)
      BY <1>3, <1>6, <1>7, <2>3, Zenon
    <3>2. Record(p, o + 1) = Read(a, o)
      BY <1>5, <2>2, <3>1, Zenon
    <3>3. o \in Nat
      BY <1>4, <1>6, Zenon
    <3>4. Read(a, o) # NoRecord /\ Read(a, o).body + Read(a, o).length = o + Len(Wire(a)) + 1
      BY <1>1, <3>3, ReadIs
    <3>5. NextAddr(p, o + 1) = o + Len(Wire(a)) + 1
      BY <3>2, <3>4, Zenon DEF NextAddr
    <3>6. n + 1 <= w + 1
      BY <1>3, <1>6, <2>3
    <3>7. Spot(r, p, n + 1) = Len(Until(r, n)) + 1
      <4>1. PICK k : k = n + 1
        OBVIOUS
      <4>2. k <= w + 1 /\ k - 1 = n
        BY <1>6, <3>6, <4>1
      <4>3. Spot(r, p, k) = Len(Until(r, k - 1)) + 1
        BY <1>7, <4>2, Zenon DEF Spot, w
      <4> QED
        BY <4>1, <4>2, <4>3, Zenon
    <3>8. Len(Until(r, n)) = o + Len(Wire(a))
      BY <1>4, <1>6, Zenon
    <3> QED
      BY <1>6, <2>1, <3>5, <3>7, <3>8, Zenon
  <2>4. CASE ~(n <= w)
    <3>1. ~(Len(Until(r, n)) <= Len(p))
      BY <1>3, <1>6, <1>7, <2>4, Zenon
    <3>2. Record(p, o + 1) = NoRecord
      BY <1>5, <2>2, <3>1, Zenon
    <3>3. NextAddr(p, o + 1) = 0
      BY <3>2, Zenon DEF NextAddr
    <3>4. ~(n + 1 <= w + 1)
      BY <1>3, <1>6, <2>4
    <3>5. Spot(r, p, n + 1) = 0
      BY <3>4, Zenon DEF Spot, w
    <3> QED
      BY <2>1, <3>3, <3>5, Zenon
  <2> QED
    BY <2>3, <2>4
<1>8. CASE ~(Len(Until(r, 0)) <= Len(p) /\ n <= w + 1)
  <2>1. Spot(r, p, n) = 0
    BY <1>8, Zenon DEF Spot, w
  <2>2. ~(Len(Until(r, 0)) <= Len(p) /\ n + 1 <= w + 1)
    BY <1>3, <1>6, <1>8
  <2>3. Spot(r, p, n + 1) = 0
    BY <2>2, Zenon DEF Spot, w
  <2>4. NextAddr(p, 0) = 0
    BY NowhereIs, Zenon DEF NextAddr
  <2> QED
    BY <2>1, <2>3, <2>4, Zenon
<1> QED
  BY <1>7, <1>8

LEMMA SpotFirst ==
  ASSUME NEW r, Replied(r), NEW p \in Seq(Byte), Begins(p, Until(r, Len(r.as))), 12 <= Len(p)
  PROVE  Spot(r, p, 1) = SkipEcho(p, 1)
<1>1. /\ Len(Until(r, 0)) <= Len(p) => SkipEcho(p, 1) = Len(Until(r, 0)) + 1
      /\ ~(Len(Until(r, 0)) <= Len(p)) => SkipEcho(p, 1) = 0
  BY FrontIs
<1>2. 1 <= CameWhole(r, p) + 1 /\ 1 - 1 = 0
  <2>1. Len(p) \in Nat
    BY LenProperties
  <2>2. CameWhole(r, p) \in 0 .. Len(r.as) /\ Len(r.as) \in Nat
    BY <2>1, CameWholeIs, UntilIs
  <2> QED
    BY <2>2
<1> QED
  BY <1>1, <1>2, Zenon DEF Spot

\* The loop of get_addrs() over k answers behind q questions.
AddrFrom(p, k, q) == CHOOSE f : f = [n \in 1 .. k + 1 |-> IF n = 1 THEN SkipEcho(p, q) ELSE NextAddr(p, f[n - 1])]

\* get_addrs() looks for the answers where they are.
LEMMA AddrAtIs ==
  ASSUME NEW r, Replied(r), NEW p \in Seq(Byte), Begins(p, Until(r, Len(r.as))), 12 <= Len(p)
  PROVE  \A n \in 1 .. Len(r.as) : AddrAt(p)[n] = Spot(r, p, n)
<1> DEFINE m == Len(r.as)
           b == SkipEcho(p, 1)
           F == CHOOSE f : f = [n \in 1 .. m + 1 |-> IF n = 1 THEN b ELSE NextAddr(p, f[n - 1])]
           e == [n \in 1 .. m + 1 |-> Spot(r, p, n)]
<1>1. m \in Nat
  BY UntilIs
<1>2. Parse(p).an = m /\ Parse(p).qd = 1
  <2>1. Parse(p) = Head0(r)
    BY FrontIs
  <2> QED
    BY <2>1 DEF Head0
<1>3. AddrAt(p) = F
  <2>1. AddrAt(p) = AddrFrom(p, Parse(p).an, Parse(p).qd)
    BY Zenon DEF AddrAt, NextAddr, AddrFrom
  <2>2. AddrFrom(p, Parse(p).an, Parse(p).qd) = AddrFrom(p, m, 1)
    BY <1>2, Zenon
  <2>3. AddrFrom(p, m, 1) = F
    BY Zenon DEF AddrFrom
  <2> QED
    BY <2>1, <2>2, <2>3, Zenon
<1>4. ASSUME NEW n \in 1 .. m + 1 PROVE e[n] = IF n = 1 THEN b ELSE NextAddr(p, e[n - 1])
  <2>1. CASE n = 1
    <3>1. e[n] = Spot(r, p, n)
      OBVIOUS
    <3>2. Spot(r, p, 1) = b
      BY SpotFirst
    <3> HIDE DEF e
    <3> QED
      BY <2>1, <3>1, <3>2, Zenon
  <2>2. CASE n # 1
    <3>1. PICK k : k = n - 1
      OBVIOUS
    <3>2. k \in 1 .. m /\ k \in 1 .. m + 1 /\ n = k + 1
      BY <1>1, <2>2, <3>1
    <3>3. Spot(r, p, k + 1) = NextAddr(p, Spot(r, p, k))
      BY <3>2, SpotNext
    <3>4. e[n] = Spot(r, p, n) /\ e[k] = Spot(r, p, k)
      BY <3>2
    <3> HIDE DEF e
    <3> QED
      BY <2>2, <3>1, <3>2, <3>3, <3>4, Zenon
  <2> QED
    BY <2>1, <2>2
<1>5. e = [n \in 1 .. m + 1 |-> IF n = 1 THEN b ELSE NextAddr(p, e[n - 1])]
  BY <1>4
<1>6. \A n \in 1 .. m + 1 : e[n] = Spot(r, p, n)
  OBVIOUS
<1> HIDE DEF e, m, b
<1>7. F = [n \in 1 .. m + 1 |-> IF n = 1 THEN b ELSE NextAddr(p, F[n - 1])]
  BY <1>5, Zenon
<1> HIDE DEF F
<1> DEFINE T == {0} \cup {n \in 1 .. m + 1 : F[n] = e[n]}
<1>8. ASSUME NEW n \in 1 .. m + 1, n - 1 \in T PROVE n \in T
  <2>1. F[n] = IF n = 1 THEN b ELSE NextAddr(p, F[n - 1])
    BY <1>7, Zenon
  <2>2. e[n] = IF n = 1 THEN b ELSE NextAddr(p, e[n - 1])
    BY <1>5, Zenon
  <2>3. CASE n = 1
    BY <2>1, <2>2, <2>3
  <2>4. CASE n # 1
    <3>1. F[n - 1] = e[n - 1]
      BY <1>1, <1>8, <2>4
    <3>2. F[n] = e[n]
      BY <2>1, <2>2, <2>4, <3>1, Zenon
    <3> QED
      BY <3>2
  <2> QED
    BY <2>3, <2>4
<1>9. 0 .. m + 1 \subseteq T
  <2>1. 0 \in T /\ m + 1 \in Nat
    BY <1>1
  <2> HIDE DEF T
  <2> QED
    BY <1>8, <2>1, Induction
<1>10. ASSUME NEW n \in 1 .. m PROVE AddrAt(p)[n] = Spot(r, p, n)
  <2>1. n \in 1 .. m + 1 /\ n \in 0 .. m + 1 /\ n # 0
    BY <1>1
  <2>2. F[n] = e[n]
    BY <1>9, <2>1
  <2> QED
    BY <1>3, <1>6, <2>1, <2>2, Zenon
<1> QED
  BY <1>10 DEF m

\* What is seen of the answers are those that came.
LEMMA SeenIs ==
  ASSUME NEW r, Replied(r), NEW p \in Seq(Byte), Begins(p, Until(r, Len(r.as))), 12 <= Len(p),
         NEW at, \A n \in 1 .. Len(r.as) : at[n] = Spot(r, p, n)
  PROVE  SeenAt(p, at) = IF r.flags.rcode # 0 THEN << >>
                         ELSE [n \in 1 .. CameWhole(r, p) |-> Read(r.as[n], Len(Until(r, n - 1)))]
<1> DEFINE m == Len(r.as)
           w == CameWhole(r, p)
           all == [n \in 1 .. m |-> Record(p, at[n])]
           bad == {n \in 1 .. m : all[n] = NoRecord}
           got == [n \in 1 .. w |-> Read(r.as[n], Len(Until(r, n - 1)))]
<1>1. /\ m \in Nat /\ \A n \in 1 .. m : Sendable(r.as[n])
  BY ReplyIs DEF Replied
<1>2. Parse(p).an = m /\ Parse(p).flags = r.flags
  <2>1. Parse(p) = Head0(r)
    BY FrontIs
  <2> QED
    BY <2>1 DEF Head0
<1>3. Len(p) \in Nat
  BY LenProperties
<1>4. /\ w \in 0 .. m
      /\ Len(Until(r, 0)) <= Len(p) => \A k \in 0 .. m : Len(Until(r, k)) <= Len(p) <=> k <= w
      /\ ~(Len(Until(r, 0)) <= Len(p)) => w = 0
  BY <1>3, CameWholeIs
<1>5. \A k \in 0 .. m : Len(Until(r, k)) \in Nat
  BY UntilGrows
<1>6. \A n \in 1 .. m : at[n] = Spot(r, p, n)
  OBVIOUS
<1>7. SeenAt(p, at) = IF r.flags.rcode # 0 THEN << >> ELSE SubSeq(all, 1, IF bad = {} THEN m ELSE Min(bad) - 1)
  <2>1. SeenAt(p, at) = LET a == [n \in 1 .. Parse(p).an |-> Record(p, at[n])]
                            b == {n \in 1 .. Parse(p).an : a[n] = NoRecord}
                        IN  IF Parse(p).flags.rcode # 0 THEN << >>
                            ELSE SubSeq(a, 1, IF b = {} THEN Parse(p).an ELSE Min(b) - 1)
    BY Zenon DEF SeenAt
  <2> HIDE DEF m
  <2> QED
    BY <1>2, <2>1, Zenon
<1>8. \A n \in 1 .. m : all[n] = Record(p, Spot(r, p, n))
  BY <1>6
<1> HIDE DEF m, w
<1>9. ASSUME NEW n \in 1 .. m
      PROVE  /\ n <= w => all[n] = Read(r.as[n], Len(Until(r, n - 1))) /\ all[n] # NoRecord
             /\ n = w + 1 => all[n] = NoRecord
  <2> DEFINE o == Len(Until(r, n - 1))
  <2>1. o <= Len(p) =>
           /\ Len(Until(r, n)) <= Len(p) => Record(p, o + 1) = Read(r.as[n], o)
           /\ ~(Len(Until(r, n)) <= Len(p)) => Record(p, o + 1) = NoRecord
    BY RecordAt DEF m
  <2>2. n \in 0 .. m /\ n - 1 \in 0 .. m
    BY <1>1
  <2>3. CASE ~(Len(Until(r, 0)) <= Len(p))
    <3>1. Spot(r, p, n) = 0
      BY <2>3, Zenon DEF Spot
    <3>2. all[n] = NoRecord
      BY <1>8, <3>1, NowhereIs, Zenon
    <3>3. ~(n <= w)
      BY <1>4, <2>3
    <3> QED
      BY <3>2, <3>3
  <2>4. CASE Len(Until(r, 0)) <= Len(p) /\ n <= w + 1
    <3>1. Spot(r, p, n) = o + 1
      BY <2>4, Zenon DEF Spot, w
    <3>2. all[n] = Record(p, o + 1)
      BY <1>8, <3>1, Zenon
    <3>3. n - 1 <= w
      BY <1>4, <2>2, <2>4
    <3>4. o <= Len(p)
      BY <1>4, <2>2, <2>4, <3>3, Zenon
    <3>5. ASSUME n <= w PROVE all[n] = Read(r.as[n], o) /\ all[n] # NoRecord
      <4>1. Len(Until(r, n)) <= Len(p)
        BY <1>4, <2>2, <2>4, <3>5, Zenon
      <4>2. all[n] = Read(r.as[n], o)
        BY <2>1, <3>2, <3>4, <4>1, Zenon
      <4>3. Read(r.as[n], o) # NoRecord
        <5>1. o \in Nat /\ Sendable(r.as[n])
          BY <1>1, <1>5, <2>2, Zenon
        <5> QED
          BY <5>1, ReadIs
      <4> QED
        BY <4>2, <4>3, Zenon
    <3>6. ASSUME n = w + 1 PROVE all[n] = NoRecord
      <4>1. ~(n <= w)
        BY <1>4, <3>6
      <4>2. ~(Len(Until(r, n)) <= Len(p))
        BY <1>4, <2>2, <2>4, <4>1, Zenon
      <4> QED
        BY <2>1, <3>2, <3>4, <4>2, Zenon
    <3> QED
      BY <3>5, <3>6
  <2>5. CASE ~(n <= w + 1)
    BY <1>4, <2>5
  <2> QED
    BY <2>3, <2>4, <2>5
<1>10. (IF bad = {} THEN m ELSE Min(bad) - 1) = w
  <2>1. CASE w = m
    <3>1. bad = {}
      BY <1>1, <1>9, <2>1
    <3> QED
      BY <2>1, <3>1
  <2>2. CASE w # m
    <3>1. w + 1 \in 1 .. m
      BY <1>1, <1>4, <2>2
    <3>2. w + 1 \in bad
      BY <1>9, <3>1
    <3>3. bad \subseteq Nat
      BY <1>1
    <3>4. \A k \in bad : w + 1 <= k
      <4> SUFFICES ASSUME NEW k \in bad PROVE w + 1 <= k
        OBVIOUS
      <4>1. k \in 1 .. m /\ ~(k <= w)
        BY <1>9
      <4> QED
        BY <1>4, <4>1
    <3> HIDE DEF bad
    <3>5. Min(bad) \in bad /\ \A k \in bad : Min(bad) <= k
      BY <3>2, <3>3, Least
    <3>6. Min(bad) = w + 1
      <4>1. Min(bad) <= w + 1 /\ w + 1 <= Min(bad) /\ Min(bad) \in Nat
        BY <3>2, <3>3, <3>4, <3>5
      <4> QED
        BY <4>1, <1>4
    <3> QED
      BY <1>4, <3>2, <3>6
  <2> QED
    BY <2>1, <2>2
<1>11. SubSeq(all, 1, w) = got
  <2>1. \A n \in 1 .. w : n \in 1 .. m /\ n <= w
    BY <1>1, <1>4
  <2>2. SubSeq(all, 1, w) = [n \in 1 .. w |-> all[n]]
    <3> DEFINE V == {all[n] : n \in 1 .. m}
    <3>0. all \in [1 .. m -> V] /\ DOMAIN all = 1 .. m
      OBVIOUS
    <3>1. all \in Seq(V) /\ Len(all) = m
      <4> HIDE DEF all, V
      <4>1. all \in Seq(V)
        BY <1>1, <3>0, SeqDef
      <4> QED
        BY <1>1, <3>0, <4>1, LenProperties
    <3>2. w \in 0 .. Len(all)
      BY <1>4, <3>1
    <3> HIDE DEF all, V
    <3>3. /\ SubSeq(all, 1, w) \in Seq(V) /\ Len(SubSeq(all, 1, w)) = w
          /\ \A i \in 1 .. w : SubSeq(all, 1, w)[i] = all[i]
      BY <3>1, <3>2, Parts
    <3>4. DOMAIN SubSeq(all, 1, w) = 1 .. w /\ SubSeq(all, 1, w) = [i \in DOMAIN SubSeq(all, 1, w) |-> SubSeq(all, 1, w)[i]]
      BY <3>3, LenProperties
    <3> QED
      BY <3>3, <3>4, Zenon
  <2>3. \A n \in 1 .. w : all[n] = Read(r.as[n], Len(Until(r, n - 1)))
    BY <1>9, <2>1
  <2> HIDE DEF all
  <2> QED
    BY <2>2, <2>3
<1> QED
  BY <1>7, <1>10, <1>11, Zenon DEF w

LEMMA SliceIs ==
  ASSUME NEW V, NEW p \in Seq(V), NEW w \in Seq(V), NEW x \in Nat, Lies(p, x, w)
  PROVE  SubSeq(p, x + 1, x + Len(w)) = w
<1> DEFINE l == Len(w)
           s == SubSeq(p, x + 1, x + l)
<1>1. Len(p) \in Nat /\ l \in Nat /\ x + l <= Len(p)
  BY LenProperties DEF Lies
<1> HIDE DEF l
<1>2. x + 1 \in 1 .. Len(p) + 1 /\ x + l \in x + 1 - 1 .. Len(p)
  BY <1>1
<1>3. \A i \in x + 1 .. x + l : p[i] \in V
  <2>1. \A i \in x + 1 .. x + l : i \in 1 .. Len(p)
    BY <1>1
  <2> QED
    BY <2>1, ElementOfSeq
<1>4. /\ s \in Seq(V)
      /\ Len(s) = IF x + 1 <= x + l THEN x + l - (x + 1) + 1 ELSE 0
      /\ \A i \in 1 .. x + l - (x + 1) + 1 : s[i] = p[x + 1 + i - 1]
  BY <1>1, <1>2, SubSeqProperties
<1>5. Len(s) = l
  BY <1>1, <1>4
<1>6. ASSUME NEW i \in 1 .. l PROVE s[i] = w[i]
  <2>1. i \in 1 .. x + l - (x + 1) + 1 /\ x + 1 + i - 1 = x + i
    BY <1>1
  <2>2. s[i] = p[x + i]
    BY <1>4, <2>1
  <2>3. p[x + i] = w[i]
    BY <1>6, Zenon DEF Lies, l
  <2> QED
    BY <2>2, <2>3, Zenon
<1> HIDE DEF s
<1>7. s = w
  BY <1>4, <1>5, <1>6, SeqEqual DEF l
<1> QED
  BY <1>7 DEF s, l

\* The data of an answer that came.
LEMMA BodyLies ==
  ASSUME NEW r, Replied(r), NEW p \in Seq(Byte), Begins(p, Until(r, Len(r.as))), NEW n \in 1 .. Len(r.as),
         Len(Until(r, n)) <= Len(p)
  PROVE  /\ Lies(p, Len(Until(r, n - 1)) + (Len(r.as[n].name) + 10), r.as[n].body)
         /\ Len(Until(r, n - 1)) + (Len(r.as[n].name) + 10) \in Nat
<1> DEFINE m == Len(r.as)
           u == Until(r, m)
           o == Len(Until(r, n - 1))
           a == r.as[n]
           w == Wire(a)
           b == a.body
           k == Len(a.name) + 10
<1>1. m \in Nat /\ Sendable(a)
  BY ReplyIs DEF Replied
<1>2. b \in Seq(Byte) /\ Len(a.name) \in Nat /\ Len(b) \in Nat
  BY <1>1, SendableIs
<1>3. w \in Seq(Byte) /\ Len(w) = Len(a.name) + 10 + Len(b) /\ Fields(w, 0, a)
  BY <1>1, WireIs
<1>4. m \in 0 .. m /\ n - 1 \in 0 .. m
  BY <1>1
<1>5. u \in Seq(Byte)
  BY <1>4, UntilIs
<1>6. o \in Nat /\ Len(Until(r, n)) = o + Len(w)
  <2>1. /\ \A j \in 0 .. m : Len(Until(r, j)) \in Nat
        /\ \A j \in 1 .. m : Len(Until(r, j)) = Len(Until(r, j - 1)) + Len(Wire(r.as[j]))
    BY UntilGrows
  <2> HIDE DEF m
  <2> QED
    BY <1>4, <2>1, Zenon DEF m
<1>7. Lies(u, o, w)
  <2>1. \A j \in 1 .. m : Lies(u, Len(Until(r, j - 1)), Wire(r.as[j]))
    BY UntilLies
  <2> QED
    BY <2>1, Zenon
<1>8. k \in Nat
  BY <1>2
<1>9. Lies(w, k, b)
  <2>1. 0 + Len(a.name) + 10 = k
    BY <1>2
  <2>2. Lies(w, 0 + Len(a.name) + 10, b)
    BY <1>3, Zenon DEF Fields
  <2> QED
    BY <2>1, <2>2, Zenon
<1>10. Begins(p, u)
  OBVIOUS
<1>11. Len(p) \in Nat /\ Len(u) \in Nat /\ Len(w) \in Nat
  BY <1>3, <1>5, LenProperties
<1>12. o + k + Len(b) <= Len(p)
  <2>1. Len(w) = k + Len(b)
    BY <1>2, <1>3
  <2>2. o + Len(w) <= Len(p)
    BY <1>6
  <2> HIDE DEF o, w, b, k
  <2> QED
    BY <1>2, <1>6, <1>8, <1>11, <2>1, <2>2
<1> HIDE DEF u, o, a, m, w, b, k
<1>13. Lies(u, o + k, b)
  BY <1>2, <1>6, <1>7, <1>8, <1>9, <1>11, LiesIn
<1>14. o + k \in Nat
  BY <1>6, <1>8
<1>15. Lies(p, o + k, b)
  BY <1>2, <1>10, <1>11, <1>12, <1>13, <1>14, LiesCut
<1> QED
  BY <1>14, <1>15 DEF o, k, a, b

\* The addresses of the answers that came.
AddrsOf(r, w) ==
  FlattenSeq([n \in 1 .. w |-> IF r.as[n].type = TypeA /\ r.as[n].class = ClassIn /\ Len(r.as[n].body) = 4
                               THEN <<r.as[n].body>> ELSE << >>])

LEMMA AddrsGot ==
  ASSUME NEW r, Replied(r), NEW p \in Seq(Byte), Begins(p, Until(r, Len(r.as))), 12 <= Len(p)
  PROVE  LET addrs == AddrsOf(r, CameWhole(r, p)) IN
         GetAddrs(p) = IF r.flags.rcode = 0 THEN SubSeq(addrs, 1, Min({Len(addrs), MaxFound})) ELSE << >>
<1> DEFINE w == CameWhole(r, p)
           got == [n \in 1 .. w |-> Read(r.as[n], Len(Until(r, n - 1)))]
           seen == SeenAt(p, AddrAt(p))
           found == FoundIn(p, seen)
<1>1. GetAddrs(p) = SubSeq(found, 1, Min({Len(found), MaxFound}))
  BY GetAddrsIs
<1>2. seen = IF r.flags.rcode # 0 THEN << >> ELSE got
  <2>1. \A n \in 1 .. Len(r.as) : AddrAt(p)[n] = Spot(r, p, n)
    BY AddrAtIs
  <2> QED
    BY <2>1, SeenIs
<1>3. MaxFound \in Nat
  BY PacketAssumption
<1>4. CASE r.flags.rcode # 0
  <2>1. seen = << >>
    BY <1>2, <1>4
  <2>2. found = << >>
    <3>1. FoundIn(p, << >>) = << >>
      <4> DEFINE s == [n \in 1 .. Len(<< >>) |-> IF IsAddr(<< >>[n]) THEN <<SubSeq(p, << >>[n].body, << >>[n].body + 3)>> ELSE << >>]
      <4>1. s = << >> /\ Len(s) = 0
        OBVIOUS
      <4>2. FoundIn(p, << >>) = FlattenSeq(s)
        BY Zenon DEF FoundIn
      <4> HIDE DEF s
      <4>3. FlattenSeq(s) = s
        BY <4>1 DEF FlattenSeq
      <4> QED
        BY <4>1, <4>2, <4>3, Zenon
    <3> QED
      BY <2>1, <3>1, Zenon
  <2>3. Min({Len(<< >>), MaxFound}) = 0
    <3>1. Len(<< >>) = 0
      OBVIOUS
    <3>2. {0, MaxFound} \subseteq Nat /\ {0, MaxFound} # {}
      BY <1>3
    <3>3. Min({0, MaxFound}) \in {0, MaxFound} /\ \A k \in {0, MaxFound} : Min({0, MaxFound}) <= k
      BY <3>2, Least
    <3>4. Min({0, MaxFound}) = 0
      BY <1>3, <3>3
    <3> QED
      BY <3>1, <3>4, Zenon
  <2>4. SubSeq(<< >>, 1, 0) = << >>
    OBVIOUS
  <2>5. GetAddrs(p) = << >>
    <3>1. PICK v : v = found
      OBVIOUS
    <3>2. PICK e : e = << >>
      OBVIOUS
    <3>3. GetAddrs(p) = SubSeq(v, 1, Min({Len(v), MaxFound}))
      BY <1>1, <3>1, Zenon
    <3>4. v = e /\ Min({Len(e), MaxFound}) = 0 /\ SubSeq(e, 1, 0) = e
      BY <2>2, <2>3, <2>4, <3>1, <3>2, Zenon
    <3>5. SubSeq(v, 1, Min({Len(v), MaxFound})) = e
      BY <3>4, Zenon
    <3> QED
      BY <3>2, <3>3, <3>5, Zenon
  <2> QED
    BY <1>4, <2>5, Zenon
<1>5. CASE r.flags.rcode = 0
  <2>1. seen = got
    BY <1>2, <1>5
  <2>2. Len(p) \in Nat /\ Len(r.as) \in Nat
    BY LenProperties, UntilIs
  <2>3. /\ w \in 0 .. Len(r.as)
        /\ Len(Until(r, 0)) <= Len(p) => \A k \in 0 .. Len(r.as) : Len(Until(r, k)) <= Len(p) <=> k <= w
        /\ ~(Len(Until(r, 0)) <= Len(p)) => w = 0
    BY <2>2, CameWholeIs
  <2>4. ASSUME NEW n \in 1 .. w
        PROVE  /\ n \in 1 .. Len(r.as) /\ Len(Until(r, n)) <= Len(p)
    <3>1. n \in 1 .. Len(r.as) /\ n \in 0 .. Len(r.as) /\ n <= w /\ w # 0
      BY <2>2, <2>3
    <3> QED
      BY <2>3, <3>1
  <2>5. Len(got) = w
    BY <2>3
  <2>6. ASSUME NEW n \in 1 .. w
        PROVE  (IF IsAddr(got[n]) THEN <<SubSeq(p, got[n].body, got[n].body + 3)>> ELSE << >>)
                 = IF r.as[n].type = TypeA /\ r.as[n].class = ClassIn /\ Len(r.as[n].body) = 4
                   THEN <<r.as[n].body>> ELSE << >>
    <3> DEFINE a == r.as[n]
               x == Len(Until(r, n - 1)) + (Len(a.name) + 10)
               g == got[n]
    <3>1. g = Read(a, Len(Until(r, n - 1)))
      OBVIOUS
    <3>2. g.type = a.type /\ g.class = a.class /\ g.length = Len(a.body) /\ g.body = Len(Until(r, n - 1)) + Len(a.name) + 11
      BY <3>1 DEF Read
    <3>3. Lies(p, x, a.body) /\ x \in Nat
      BY <2>4, BodyLies
    <3>4. a.body \in Seq(Byte) /\ Len(a.name) \in Nat
      <4>1. Sendable(a)
        BY <2>4, ReplyIs DEF Replied
      <4> QED
        BY <4>1, SendableIs
    <3>5. Len(Until(r, n - 1)) \in Nat
      <4>1. n - 1 \in 0 .. Len(r.as)
        BY <2>2, <2>4
      <4> QED
        BY <4>1, UntilGrows
    <3>6. g.body = x + 1 /\ g.body + 3 = x + 4
      <4>1. Len(Until(r, n - 1)) + Len(a.name) + 11 = x + 1 /\ x + 1 + 3 = x + 4
        <5>1. PICK t, l : t = Len(Until(r, n - 1)) /\ l = Len(a.name)
          OBVIOUS
        <5>2. t \in Nat /\ l \in Nat
          BY <3>4, <3>5, <5>1, Zenon
        <5>3. t + l + 11 = t + (l + 10) + 1 /\ t + (l + 10) + 1 + 3 = t + (l + 10) + 4
          BY <5>2
        <5> QED
          BY <5>1, <5>3, Zenon
      <4> HIDE DEF g, x
      <4> QED
        BY <3>2, <4>1, Zenon
    <3> HIDE DEF g, x, a
    <3>7. ASSUME Len(a.body) = 4 PROVE SubSeq(p, g.body, g.body + 3) = a.body
      <4>1. SubSeq(p, x + 1, x + Len(a.body)) = a.body
        BY <3>3, <3>4, SliceIs
      <4> QED
        BY <3>6, <3>7, <4>1, Zenon
    <3>8. IsAddr(g) <=> a.type = TypeA /\ a.class = ClassIn /\ Len(a.body) = 4
      BY <3>2, Zenon DEF IsAddr
    <3> QED
      BY <3>7, <3>8, Zenon DEF g, a
  <2>7. found = AddrsOf(r, w)
    <3>1. FoundIn(p, got) = FlattenSeq([n \in 1 .. Len(got) |->
             IF IsAddr(got[n]) THEN <<SubSeq(p, got[n].body, got[n].body + 3)>> ELSE << >>])
      BY Zenon DEF FoundIn
    <3> HIDE DEF got, w
    <3>2. [n \in 1 .. Len(got) |-> IF IsAddr(got[n]) THEN <<SubSeq(p, got[n].body, got[n].body + 3)>> ELSE << >>]
            = [n \in 1 .. w |-> IF r.as[n].type = TypeA /\ r.as[n].class = ClassIn /\ Len(r.as[n].body) = 4
                               THEN <<r.as[n].body>> ELSE << >>]
      BY <2>5, <2>6, Zenon
    <3> QED
      BY <2>1, <3>1, <3>2, Zenon DEF AddrsOf
  <2> QED
    BY <1>1, <1>5, <2>7, Zenon
<1> QED
  BY <1>4, <1>5

\* Where the next answer is looked for by get_hosts().
NextHost(p, i) == IF Record(p, i) = NoRecord THEN 0 ELSE i + Record(p, i).length

\* The loop of get_hosts() over k answers behind q questions.
HostFrom(p, k, q) == CHOOSE f : f = [n \in 1 .. k + 1 |-> IF n = 1 THEN SkipEcho(p, q) ELSE NextHost(p, f[n - 1])]

LEMMA HostAtOne ==
  ASSUME NEW p, Parse(p).an = 1, Parse(p).qd = 1
  PROVE  HostAt(p)[1] = SkipEcho(p, 1)
<1> DEFINE b == SkipEcho(p, 1)
           e == [n \in 1 .. 2 |-> IF n = 1 THEN b ELSE NextHost(p, b)]
           F == CHOOSE f : f = [n \in 1 .. 1 + 1 |-> IF n = 1 THEN b ELSE NextHost(p, f[n - 1])]
<1>1. HostAt(p) = F
  <2>1. HostAt(p) = HostFrom(p, Parse(p).an, Parse(p).qd)
    BY Zenon DEF HostAt, NextHost, HostFrom
  <2>2. HostFrom(p, Parse(p).an, Parse(p).qd) = HostFrom(p, 1, 1)
    BY Zenon
  <2>3. HostFrom(p, 1, 1) = F
    BY Zenon DEF HostFrom
  <2> QED
    BY <2>1, <2>2, <2>3, Zenon
<1>2. e[1] = b /\ \A n \in 1 .. 2 : n # 1 => n - 1 = 1 /\ e[n] = NextHost(p, b)
  OBVIOUS
<1>3. \A n \in 1 .. 2 : e[n] = IF n = 1 THEN b ELSE NextHost(p, e[n - 1])
  <2> SUFFICES ASSUME NEW n \in 1 .. 2 PROVE e[n] = IF n = 1 THEN b ELSE NextHost(p, e[n - 1])
    OBVIOUS
  <2> HIDE DEF e, b
  <2> QED
    BY <1>2, Zenon
<1>4. e = [n \in 1 .. 1 + 1 |-> IF n = 1 THEN b ELSE NextHost(p, e[n - 1])]
  <2>1. 1 + 1 = 2
    OBVIOUS
  <2>2. e = [n \in 1 .. 2 |-> IF n = 1 THEN b ELSE NextHost(p, e[n - 1])]
    BY <1>3
  <2> QED
    BY <2>1, <2>2
<1> HIDE DEF e, b
<1>5. F = [n \in 1 .. 1 + 1 |-> IF n = 1 THEN b ELSE NextHost(p, F[n - 1])]
  BY <1>4, Zenon
<1> HIDE DEF F
<1>6. F[1] = b
  <2>1. 1 \in 1 .. 1 + 1
    OBVIOUS
  <2> QED
    BY <1>5, <2>1, Zenon
<1> QED
  BY <1>1, <1>6, Zenon DEF b

\* One name is counted, and left where it belongs.
LEMMA OneHost ==
  ASSUME NEW p, NEW x, IsHost(x), GetName(p, x.body, NameSize) # <<Bad>>
  PROVE  HostsIn(p, [n \in 1 .. 1 |-> x]) = [count |-> 1, hostv |-> <<GetName(p, x.body, NameSize)>>]
<1> DEFINE seen == [n \in 1 .. 1 |-> x]
           g == GetName(p, x.body, NameSize)
           names == NamesOf(p, seen)
           bad == {n \in 1 .. Len(seen) : names[n] = <<Bad>>}
           good == {n \in 1 .. Len(seen) : IsHost(seen[n]) /\ \A b \in bad : n < b}
<1>1. Len(seen) = 1 /\ seen[1] = x /\ 1 .. 1 = {1}
  OBVIOUS
<1> HIDE DEF seen
<1>2. names = [n \in 1 .. 1 |-> g]
  <2>1. names = [n \in 1 .. Len(seen) |-> IF IsHost(seen[n]) THEN GetName(p, seen[n].body, NameSize) ELSE << >>]
    BY Zenon DEF NamesOf
  <2>2. \A n \in 1 .. 1 : (IF IsHost(seen[n]) THEN GetName(p, seen[n].body, NameSize) ELSE << >>) = g
    <3> SUFFICES ASSUME NEW n \in 1 .. 1
                 PROVE  (IF IsHost(seen[n]) THEN GetName(p, seen[n].body, NameSize) ELSE << >>) = g
      OBVIOUS
    <3>1. n = 1
      OBVIOUS
    <3> QED
      BY <1>1, <3>1, Zenon
  <2> HIDE DEF g, names
  <2> QED
    BY <1>1, <2>1, <2>2, Zenon
<1> HIDE DEF g, names
<1>3. bad = {}
  <2>1. \A n \in 1 .. 1 : names[n] = g
    BY <1>2
  <2>2. g # <<Bad>>
    BY DEF g
  <2> QED
    BY <1>1, <2>1, <2>2, Zenon
<1>4. good = {1}
  <2>1. \A n \in 1 .. 1 : IsHost(seen[n])
    <3>1. \A n \in 1 .. 1 : n = 1
      OBVIOUS
    <3> QED
      BY <1>1, <3>1, Zenon
  <2> QED
    BY <1>1, <1>3, <2>1, Zenon
<1>5. Cardinality({1}) = 1
  BY FS_Singleton
<1>6. Min({1, MaxFound}) = 1
  <2>1. MaxFound \in Nat \ {0}
    BY PacketAssumption
  <2>2. {1, MaxFound} \subseteq Nat /\ {1, MaxFound} # {}
    BY <2>1
  <2>3. Min({1, MaxFound}) \in {1, MaxFound} /\ \A k \in {1, MaxFound} : Min({1, MaxFound}) <= k
    BY <2>2, Least
  <2> QED
    BY <2>1, <2>3
<1>7. HostsIn(p, seen) = [count |-> Min({Cardinality(good), MaxFound}), hostv |-> names]
  BY Zenon DEF HostsIn, names
<1>8. names = <<g>>
  BY <1>2
<1> QED
  BY <1>4, <1>5, <1>6, <1>7, <1>8, Zenon DEF seen, g

----------------------------------------------------------------------------
(* A name with a pointer.                                                  *)

\* A label, and a place in a name where a label begins.
Label(label) == label \in Seq(1 .. 127) /\ Len(label) \in 1 .. 63 /\ \A n \in 1 .. Len(label) : label[n] # Dot

Joint(asked, i) == i \in 1 .. Extent(asked) - 2 /\ (i > 1 => asked[i - 1] = Dot)

\* The name that is meant.
Extended(label, asked, i) == label \o <<Dot>> \o SubSeq(Bare(asked), i, Len(Bare(asked)))

LEMMA JointIs ==
  ASSUME NEW asked, Fit(asked), asked # << >>, NEW i, Joint(asked, i)
  PROVE  /\ i \in Nat /\ i >= 1 /\ i <= Extent(asked) - 2 /\ Extent(asked) \in Nat /\ Extent(asked) <= 257
         /\ i \in 1 .. Extent(asked) /\ Start(asked, i) /\ asked[i] # Dot
         /\ Tidy(Bare(asked)) /\ Len(Bare(asked)) = Extent(asked) - 2
         /\ \A j \in 1 .. Extent(asked) - 2 : Bare(asked)[j] = asked[j]
<1>1. Extent(asked) \in Nat /\ Extent(asked) <= 257
  BY FitIs
<1>2. i \in 1 .. Extent(asked) - 2 /\ (i > 1 => asked[i - 1] = Dot)
  BY DEF Joint
<1>3. i \in Nat /\ i >= 1 /\ i <= Extent(asked) - 2 /\ i \in 1 .. Extent(asked) /\ i # Extent(asked)
  BY <1>1, <1>2
<1>4. Start(asked, i)
  BY <1>2, <1>3 DEF Start
<1>5. /\ LabelEnd(asked, i) \in i + 1 .. Extent(asked) - 1
      /\ \A j \in i .. LabelEnd(asked, i) - 1 : asked[j] # Dot
  BY <1>3, <1>4, LabelIs
<1>6. i \in i .. LabelEnd(asked, i) - 1
  BY <1>1, <1>3, <1>5
<1>7. /\ Tidy(Bare(asked)) /\ Len(Bare(asked)) = Extent(asked) - 2
      /\ \A j \in 1 .. Extent(asked) - 2 : Bare(asked)[j] = asked[j]
  BY BareIs
<1> QED
  BY <1>1, <1>3, <1>4, <1>5, <1>6, <1>7

LEMMA ExtendedIs ==
  ASSUME NEW asked, Fit(asked), asked # << >>, NEW i, Joint(asked, i), NEW label, Label(label)
  PROVE  LET name == Extended(label, asked, i)
             l == Len(label)
             X == Extent(asked)
         IN  /\ name \in Seq(1 .. 127) /\ Len(name) = l + X - i
             /\ \A q \in 1 .. l : name[q] = label[q]
             /\ name[l + 1] = Dot
             /\ \A t \in 1 .. X - 1 - i : name[l + 1 + t] = asked[i + t - 1]
<1> DEFINE l == Len(label)
           X == Extent(asked)
           b == Bare(asked)
           rest == SubSeq(b, i, Len(b))
<1>1. /\ i \in Nat /\ i >= 1 /\ i <= X - 2 /\ X \in Nat /\ Tidy(b) /\ Len(b) = X - 2
      /\ \A j \in 1 .. X - 2 : b[j] = asked[j]
  BY JointIs
<1>2. b \in Seq(1 .. 127)
  BY <1>1 DEF Tidy
<1>3. label \in Seq(1 .. 127) /\ l \in Nat
  BY LenProperties DEF Label
<1> HIDE DEF X, b
<1>4. i - 1 \in 0 .. Len(b) /\ i - 1 + 1 = i
  BY <1>1
<1>5. /\ SubSeq(b, i - 1 + 1, Len(b)) \in Seq(1 .. 127) /\ Len(SubSeq(b, i - 1 + 1, Len(b))) = Len(b) - (i - 1)
      /\ \A t \in 1 .. Len(b) - (i - 1) : SubSeq(b, i - 1 + 1, Len(b))[t] = b[i - 1 + t]
  <2>1. PICK k : k = i - 1
    OBVIOUS
  <2>2. k \in 0 .. Len(b)
    BY <1>4, <2>1, Zenon
  <2>3. /\ SubSeq(b, k + 1, Len(b)) \in Seq(1 .. 127) /\ Len(SubSeq(b, k + 1, Len(b))) = Len(b) - k
        /\ \A t \in 1 .. Len(b) - k : SubSeq(b, k + 1, Len(b))[t] = b[k + t]
    BY <1>2, <2>2, Parts
  <2> QED
    BY <2>1, <2>3, Zenon
<1>6. rest \in Seq(1 .. 127) /\ Len(rest) = Len(b) - (i - 1) /\ \A t \in 1 .. Len(b) - (i - 1) : rest[t] = b[i - 1 + t]
  BY <1>4, <1>5, Zenon
<1> HIDE DEF rest
<1>7. Len(rest) = X - 1 - i /\ \A t \in 1 .. X - 1 - i : rest[t] = asked[i + t - 1]
  <2>1. Len(b) - (i - 1) = X - 1 - i
    BY <1>1
  <2>2. ASSUME NEW t \in 1 .. X - 1 - i PROVE rest[t] = asked[i + t - 1]
    <3>1. i - 1 + t \in 1 .. X - 2 /\ i - 1 + t = i + t - 1 /\ t \in 1 .. Len(b) - (i - 1)
      BY <1>1, <2>1
    <3>2. rest[t] = b[i - 1 + t]
      BY <1>6, <3>1
    <3>3. b[i - 1 + t] = asked[i - 1 + t]
      BY <1>1, <3>1
    <3> QED
      BY <3>1, <3>2, <3>3
  <2> QED
    BY <1>6, <2>1, <2>2
<1>8. PICK c : c = label \o <<Dot>>
  OBVIOUS
<1>9. c \in Seq(1 .. 127) /\ Len(c) = l + 1 /\ c[l + 1] = Dot /\ \A q \in 1 .. l : c[q] = label[q]
  <2>1. <<Dot>> \in Seq(1 .. 127) /\ Len(<<Dot>>) = 1 /\ <<Dot>>[1] = Dot
    BY DEF Dot
  <2>2. PICK d : d = <<Dot>>
    OBVIOUS
  <2>3. d \in Seq(1 .. 127) /\ Len(d) = 1 /\ d[1] = Dot
    BY <2>1, <2>2, Zenon
  <2>4. /\ label \o d \in Seq(1 .. 127) /\ Len(label \o d) = Len(label) + Len(d)
        /\ \A q \in 1 .. Len(label) : (label \o d)[q] = label[q]
        /\ \A q \in 1 .. Len(d) : (label \o d)[Len(label) + q] = d[q]
    BY <1>3, <2>3, Both
  <2>5. 1 \in 1 .. 1
    OBVIOUS
  <2> QED
    BY <1>8, <2>2, <2>3, <2>4, <2>5, Zenon
<1>10. PICK name : name = c \o rest
  OBVIOUS
<1>11. /\ name \in Seq(1 .. 127) /\ Len(name) = Len(c) + Len(rest)
       /\ \A q \in 1 .. Len(c) : name[q] = c[q]
       /\ \A q \in 1 .. Len(rest) : name[Len(c) + q] = rest[q]
  <2>1. /\ c \o rest \in Seq(1 .. 127) /\ Len(c \o rest) = Len(c) + Len(rest)
        /\ \A q \in 1 .. Len(c) : (c \o rest)[q] = c[q]
        /\ \A q \in 1 .. Len(rest) : (c \o rest)[Len(c) + q] = rest[q]
    <3>1. c \in Seq(1 .. 127) /\ rest \in Seq(1 .. 127)
      BY <1>6, <1>9, Zenon
    <3> QED
      BY <3>1, Both
  <2> QED
    BY <1>10, <2>1, Zenon
<1>12. Len(name) = l + X - i
  BY <1>1, <1>3, <1>7, <1>9, <1>11
<1>13. \A q \in 1 .. l : q \in 1 .. Len(c)
  BY <1>3, <1>9
<1>14. l + 1 \in 1 .. Len(c)
  BY <1>3, <1>9
<1>15. name = Extended(label, asked, i)
  BY <1>8, <1>10, Zenon DEF Extended, rest, b
<1>16. \A t \in 1 .. X - 1 - i : name[l + 1 + t] = asked[i + t - 1]
  BY <1>7, <1>9, <1>11, Zenon
<1>17. name[l + 1] = Dot /\ \A q \in 1 .. l : name[q] = label[q]
  BY <1>9, <1>11, <1>13, <1>14, Zenon
<1> QED
  BY <1>11, <1>12, <1>15, <1>16, <1>17, Zenon DEF X

LEMMA ExtendedTidy ==
  ASSUME NEW asked, Fit(asked), asked # << >>, NEW i, Joint(asked, i), NEW label, Label(label)
  PROVE  Tidy(Extended(label, asked, i))
<1> DEFINE name == Extended(label, asked, i)
           l == Len(label)
           X == Extent(asked)
           b == Bare(asked)
           m == l + X - i
<1>1. /\ i \in Nat /\ i >= 1 /\ i <= X - 2 /\ X \in Nat /\ Tidy(b) /\ Len(b) = X - 2 /\ asked[i] # Dot
      /\ \A j \in 1 .. X - 2 : b[j] = asked[j]
  BY JointIs
<1>2. /\ name \in Seq(1 .. 127) /\ Len(name) = m /\ \A q \in 1 .. l : name[q] = label[q]
      /\ name[l + 1] = Dot /\ \A t \in 1 .. X - 1 - i : name[l + 1 + t] = asked[i + t - 1]
  BY ExtendedIs
<1>3. l \in 1 .. 63 /\ \A n \in 1 .. l : label[n] # Dot
  BY DEF Label
<1>4. b[Len(b)] # Dot /\ \A n \in 2 .. Len(b) : b[n] = Dot => b[n - 1] # Dot
  BY <1>1 DEF Tidy
<1> HIDE DEF name, l, X, b, m
<1>5. l \in Nat /\ l >= 1 /\ m \in Nat /\ m >= l + 2
  BY <1>1, <1>3 DEF m
<1>6. name[1] # Dot
  <2>1. 1 \in 1 .. l
    BY <1>5
  <2> QED
    BY <1>2, <1>3, <2>1
<1>7. name[m] # Dot
  <2>1. X - 1 - i \in 1 .. X - 1 - i /\ l + 1 + (X - 1 - i) = m /\ i + (X - 1 - i) - 1 = X - 2 /\ X - 2 \in 1 .. X - 2
    BY <1>1, <1>5 DEF m
  <2>2. name[m] = asked[X - 2]
    BY <1>2, <2>1
  <2>3. asked[X - 2] = b[Len(b)]
    BY <1>1, <2>1
  <2> QED
    BY <1>4, <2>2, <2>3
<1>8. ASSUME NEW n \in 2 .. m, name[n] = Dot PROVE name[n - 1] # Dot
  <2>1. CASE n <= l
    <3>1. n \in 1 .. l
      BY <1>5, <2>1
    <3> QED
      BY <1>2, <1>3, <1>8, <3>1
  <2>2. CASE n = l + 1
    <3>1. l \in 1 .. l /\ n - 1 = l
      BY <1>5, <2>2
    <3> QED
      BY <1>2, <1>3, <3>1
  <2>3. CASE n > l + 1
    <3>1. PICK t : t = n - l - 1
      OBVIOUS
    <3>2. t \in 1 .. X - 1 - i /\ n = l + 1 + t
      BY <1>1, <1>5, <2>3, <3>1 DEF m
    <3>3. asked[i + t - 1] = Dot
      BY <1>2, <1>8, <3>2
    <3>4. t # 1
      <4> SUFFICES ASSUME t = 1 PROVE FALSE
        OBVIOUS
      <4>1. i + t - 1 = i
        BY <1>1
      <4> QED
        BY <1>1, <3>3, <4>1
    <3>5. t - 1 \in 1 .. X - 1 - i /\ n - 1 = l + 1 + (t - 1) /\ i + (t - 1) - 1 = i + t - 1 - 1
      BY <1>1, <1>5, <3>2, <3>4
    <3>6. name[n - 1] = asked[i + t - 1 - 1]
      BY <1>2, <3>5
    <3>7. i + t - 1 \in 2 .. X - 2 /\ i + t - 1 \in 1 .. X - 2 /\ i + t - 1 - 1 \in 1 .. X - 2
      BY <1>1, <3>2, <3>4
    <3>8. b[i + t - 1] = Dot /\ b[i + t - 1 - 1] = asked[i + t - 1 - 1]
      BY <1>1, <3>3, <3>7
    <3>9. b[i + t - 1 - 1] # Dot
      <4>1. PICK k : k = i + t - 1
        OBVIOUS
      <4>2. k \in 2 .. Len(b) /\ b[k] = Dot
        BY <1>1, <3>7, <3>8, <4>1
      <4>3. b[k - 1] # Dot
        BY <1>4, <4>2
      <4>4. k - 1 = i + t - 1 - 1
        BY <1>1, <3>2, <4>1
      <4> QED
        BY <4>3, <4>4, Zenon
    <3> QED
      BY <3>6, <3>8, <3>9
  <2> QED
    BY <1>5, <2>1, <2>2, <2>3
<1>9. name \in Seq(1 .. 127) /\ Len(name) >= 1
  BY <1>2, <1>5
<1> QED
  BY <1>2, <1>6, <1>7, <1>8, <1>9, Zenon DEF Tidy, name

\* Where the pointer leads: the octets of the packet before it.
Offset(i) == HeaderSize + i - 1
Marks     == {192, 193}
Meant(a, b) == a * 256 + b - 49152

LEMMA PointerIs ==
  ASSUME NEW i \in Nat, i >= 1, i <= 255
  PROVE  /\ Offset(i) \in Nat /\ Offset(i) = 11 + i
         /\ Pointer(i) \in Seq(Byte) /\ Len(Pointer(i)) = 2
         /\ Pointer(i)[1] \in Marks /\ Meant(Pointer(i)[1], Pointer(i)[2]) = Offset(i)
<1>1. Offset(i) = 11 + i
  BY DEF Offset, HeaderSize
<1> DEFINE n == Offset(i)
           q == n \div 256
           z == n % 256
<1>2. Pointer(i) = <<192 + q, z>>
  BY Zenon DEF Pointer, Offset
<1> HIDE DEF n
<1>3. n \in Nat /\ n <= 266 /\ n = 11 + i
  BY <1>1 DEF n
<1>4. q \in {0, 1} /\ z \in 0 .. 255 /\ n = q * 256 + z
  BY <1>3
<1> HIDE DEF q, z
<1>5. 192 + q \in {192, 193} /\ 192 + q \in Byte /\ z \in Byte /\ (192 + q) * 256 + z = 49152 + n
  BY <1>4 DEF Byte
<1>6. PICK c : c = 192 + q
  OBVIOUS
<1>7. c \in Byte /\ z \in Byte
  BY <1>5, <1>6
<1>8. <<c, z>> \in Seq(Byte) /\ Len(<<c, z>>) = 2 /\ <<c, z>>[1] = c /\ <<c, z>>[2] = z
  BY <1>7
<1>9. PICK t : t = <<c, z>>
  OBVIOUS
<1>10. t \in Seq(Byte) /\ Len(t) = 2 /\ t[1] = c /\ t[2] = z
  BY <1>8, <1>9, Zenon
<1>11. Pointer(i) = t
  BY <1>2, <1>6, <1>9, Zenon
<1>12. c \in Marks /\ Meant(c, z) = n
  BY <1>4, <1>5, <1>6 DEF Marks, Meant
<1>13. Offset(i) \in Nat /\ Offset(i) = 11 + i /\ Offset(i) = n
  BY <1>3 DEF n
<1>14. t[1] \in Marks /\ Meant(t[1], t[2]) = Offset(i)
  BY <1>10, <1>12, <1>13, Zenon
<1> QED
  BY <1>10, <1>11, <1>13, <1>14, Zenon

\* What stands in a packet where a name with a pointer stands.
LEMMA CompressedLies ==
  ASSUME NEW label, Label(label), NEW i \in Nat, i >= 1, i <= 255, NEW p \in Seq(Byte), NEW x \in Nat,
         Lies(p, x, Compressed(label, i))
  PROVE  LET l == Len(label) IN
         /\ x + l + 3 <= Len(p) /\ p[x + 1] = l /\ \A j \in 1 .. l : p[x + 1 + j] = label[j]
         /\ p[x + l + 2] \in Marks /\ Meant(p[x + l + 2], p[x + l + 3]) = Offset(i)
<1> DEFINE l == Len(label)
           t == Pointer(i)
<1>1. label \in Seq(1 .. 127) /\ l \in 1 .. 63 /\ l \in Nat
  BY DEF Label
<1>2. label \in Seq(Byte) /\ l \in Byte
  <2>1. label \in Seq(Byte)
    BY <1>1, Narrow, SeqMonotonic
  <2> QED
    BY <1>1, <2>1 DEF Byte
<1>3. t \in Seq(Byte) /\ Len(t) = 2 /\ t[1] \in Marks /\ Meant(t[1], t[2]) = Offset(i)
  BY PointerIs
<1>4. PICK s : s = <<l>>
  OBVIOUS
<1>5. s \in Seq(Byte) /\ Len(s) = 1 /\ s[1] = l
  BY <1>2, <1>4
<1>6. Compressed(label, i) = s \o label \o t
  BY <1>4, Zenon DEF Compressed
<1>7. PICK c : c = s \o label
  OBVIOUS
<1>8. c \in Seq(Byte) /\ Len(c) = 1 + l
  <2>1. s \o label \in Seq(Byte) /\ Len(s \o label) = Len(s) + Len(label)
    BY <1>2, <1>5, Both
  <2> QED
    BY <1>5, <1>7, <2>1, Zenon
<1> HIDE DEF l, t
<1>9. Len(p) \in Nat /\ Len(s) \in Nat /\ Len(c) \in Nat
  BY <1>1, <1>5, <1>8, LenProperties
<1>10. Lies(p, x, c) /\ Lies(p, x + Len(c), t)
  <2>1. Lies(p, x, c \o t)
    BY <1>6, <1>7, Zenon
  <2>2. c \in Seq(Byte) /\ t \in Seq(Byte)
    BY <1>3, <1>8, Zenon
  <2> QED
    BY <2>1, <2>2, LiesBoth
<1>11. Lies(p, x, s) /\ Lies(p, x + Len(s), label)
  <2>1. Lies(p, x, s \o label)
    BY <1>7, <1>10, Zenon
  <2> QED
    BY <1>2, <1>5, <1>9, <2>1, LiesBoth
<1>12. x + l + 3 <= Len(p)
  <2>1. x + Len(c) + Len(t) <= Len(p)
    BY <1>10 DEF Lies
  <2> QED
    BY <1>1, <1>3, <1>8, <1>9, <2>1
<1>13. p[x + 1] = l
  <2>1. 1 \in 1 .. Len(s)
    BY <1>5
  <2>2. p[x + 1] = s[1]
    BY <1>11, <2>1, Zenon DEF Lies
  <2> QED
    BY <1>5, <2>2, Zenon
<1>14. \A j \in 1 .. l : p[x + 1 + j] = label[j]
  BY <1>5, <1>11, Zenon DEF Lies, l
<1>15. p[x + l + 2] = t[1] /\ p[x + l + 3] = t[2]
  <2>1. 1 \in 1 .. Len(t) /\ 2 \in 1 .. Len(t)
    BY <1>3
  <2>2. p[x + Len(c) + 1] = t[1] /\ p[x + Len(c) + 2] = t[2]
    BY <1>10, <2>1, Zenon DEF Lies
  <2>3. x + Len(c) + 1 = x + l + 2 /\ x + Len(c) + 2 = x + l + 3
    BY <1>1, <1>8
  <2> QED
    BY <2>2, <2>3, Zenon
<1>16. p[x + l + 2] \in Marks /\ Meant(p[x + l + 2], p[x + l + 3]) = Offset(i)
  BY <1>3, <1>15, Zenon
<1> QED
  BY <1>12, <1>13, <1>14, <1>16, Zenon DEF l

LEMMA InInt == ASSUME NEW a \in Byte PROVE a \in Int
  BY DEF Byte

\* The pointer is followed to the place it means.
LEMMA TargetGot ==
  ASSUME NEW p, NEW k, NEW n \in Nat, n <= 266, Meant(p[k], p[k + 1]) = n, p[k] \in Byte, p[k + 1] \in Byte
  PROVE  Target(p, k) = n
<1>1. PICK z : z = Short(p, k)
  OBVIOUS
<1>2. z = 49152 + n
  <2>1. PICK a, b : a = p[k] /\ b = p[k + 1]
    OBVIOUS
  <2>2. z = a * 256 + b
    BY <1>1, <2>1, Zenon DEF Short
  <2>3. a \in Int /\ b \in Int /\ Meant(a, b) = n
    BY <2>1, Zenon, InInt
  <2> QED
    BY <2>2, <2>3 DEF Meant
<1>3. z % 16384 = n
  BY <1>2
<1> QED
  BY <1>1, <1>3 DEF Target

\* The label, a dot, and what is read of the question's name from character i on.
Followed(label, asked, i, size, all) ==
  \E a, v : /\ all = a \o (<<Dot>> \o v)
            /\ a \in Seq(Written) /\ Len(a) = Len(label) /\ \A j \in 1 .. Len(label) : a[j] = label[j]
            /\ Shows(asked, i, size - Len(label) - 1, v)

\* The loop reads the label, and follows the pointer.
LEMMA PointerFollowed ==
  ASSUME NEW asked, Fit(asked), asked # << >>, NEW i, Joint(asked, i), NEW label, Label(label),
         NEW size \in Nat, Len(label) + 1 < size,
         NEW p \in Seq(Byte), Lies(p, HeaderSize, Named(asked)), NEW x \in Nat, Lies(p, x, Compressed(label, i))
  PROVE  Followed(label, asked, i, size, NameLoop(p, x + 1, size))
<1> DEFINE l == Len(label)
           X == Extent(asked)
           f == Reading(p, size)
<1>1. /\ i \in Nat /\ i >= 1 /\ i <= X - 2 /\ X \in Nat /\ X <= 257 /\ i \in 1 .. X /\ Start(asked, i)
  BY JointIs
<1>2. l \in 1 .. 63 /\ l \in Nat /\ l + 1 < size
  BY DEF Label
<1>3. i <= 255
  BY <1>1
<1>4. /\ x + l + 3 <= Len(p) /\ p[x + 1] = l /\ \A j \in 1 .. l : p[x + 1 + j] = label[j]
      /\ p[x + l + 2] \in Marks /\ Meant(p[x + l + 2], p[x + l + 3]) = Offset(i)
  BY <1>1, <1>3, CompressedLies
<1>5. Len(p) \in Nat /\ HeaderSize + X <= Len(p)
  <2>1. Len(Named(asked)) = X
    BY NamedIs
  <2>2. HeaderSize + Len(Named(asked)) <= Len(p)
    BY Zenon DEF Lies
  <2> QED
    BY <2>1, <2>2, LenProperties
<1> HIDE DEF l, X, f
<1>6. PICK k, k2, room, t : k = x + 1 /\ k2 = x + l + 2 /\ room = size - l - 1 /\ t = HeaderSize + i
  OBVIOUS
<1>7. /\ k \in 1 .. Len(p) /\ k2 \in 1 .. Len(p) /\ k2 + 1 \in 1 .. Len(p) /\ k # 0 /\ k2 + 1 = x + l + 3
      /\ k \in 1 .. Len(p) + 1 /\ k2 \in 1 .. Len(p) + 1 /\ k2 + 1 # Len(p) + 1
      /\ room \in 0 .. size /\ room # 0 /\ size \in 0 .. size /\ room \in Nat
      /\ k # Len(p) + 1 /\ k2 # Len(p) + 1
  BY <1>1, <1>2, <1>4, <1>5, <1>6
<1>8. p[k] = l /\ \A j \in 1 .. l : p[k + j] = label[j]
  BY <1>4, <1>6, Zenon
<1>9. p[k2] \in Marks /\ Meant(p[k2], p[k2 + 1]) = Offset(i)
  BY <1>4, <1>6, <1>7, Zenon
<1>10. p[k] \in 1 .. 191 /\ p[k] # 0
  <2>1. \A n \in 1 .. 63 : n \in 1 .. 191 /\ n # 0
    OBVIOUS
  <2> QED
    BY <1>2, <1>8, <2>1, Zenon
<1>11. Held(p, k, size) = l /\ l # size
  <2>1. PICK h : h = Held(p, k, size)
    OBVIOUS
  <2>2. /\ h \in Nat /\ h <= size /\ h <= l /\ k + h <= Len(p) /\ (h = l \/ h = Len(p) - k \/ h = size)
    BY <1>7, <1>8, <1>10, <2>1, HeldIs
  <2>3. h = l
    BY <1>2, <1>4, <1>5, <1>6, <2>2
  <2> QED
    BY <1>2, <2>1, <2>3
<1>12. ~Ends(p, k) /\ Literal(p, k)
  BY <1>7, <1>10, Zenon DEF Ends, Literal
<1>13. PICK a : a = Copied(p, k, size)
  OBVIOUS
<1>14. a \in Seq(Written) /\ Len(a) = l /\ \A j \in 1 .. l : a[j] = label[j]
  <2>1. /\ Copied(p, k, size) \in Seq(Written) /\ Len(Copied(p, k, size)) = Held(p, k, size)
        /\ \A j \in 1 .. Held(p, k, size) : Copied(p, k, size)[j] = p[k + j]
    BY <1>7, <1>10, PieceIs
  <2> QED
    BY <1>8, <1>11, <1>13, <2>1, Zenon
<1>15. MaxJumps \in 0 .. MaxJumps /\ MaxJumps # 0 /\ MaxJumps - 1 \in 0 .. MaxJumps
  BY PacketAssumption
<1>16. Further(p, MaxJumps, k, size) = At(MaxJumps, k2, room)
  <2>1. k + l + 1 = k2 /\ size - l - 1 = room
    BY <1>2, <1>6
  <2>2. Further(p, MaxJumps, k, size) = At(MaxJumps, k + l + 1, size - l - 1)
    BY <1>11, Zenon DEF Further
  <2> QED
    BY <2>1, <2>2, Zenon
<1>17. f[At(MaxJumps, k, size)] = a \o (<<Dot>> \o f[At(MaxJumps, k2, room)])
  <2>1. f[At(MaxJumps, k, size)] = ReadStep(p, f, MaxJumps, k, size)
    BY <1>7, <1>15, ReadingIs DEF f
  <2>2. ReadStep(p, f, MaxJumps, k, size) = Copied(p, k, size) \o (<<Dot>> \o f[Further(p, MaxJumps, k, size)])
    <3>1. Held(p, k, size) # size
      BY <1>11, Zenon
    <3> QED
      BY <1>12, <3>1, StepOn, Zenon
  <2> QED
    BY <1>13, <1>16, <2>1, <2>2, Zenon
<1>18. ~Ends(p, k2) /\ ~Literal(p, k2)
  <2>1. \A n \in Marks : n # 0 /\ ~(n \in 1 .. 191)
    BY DEF Marks
  <2> QED
    BY <1>7, <1>9, <2>1, Zenon DEF Ends, Literal
<1>19. Target(p, k2) = Offset(i) /\ Offset(i) + 1 = t /\ ~(Offset(i) >= Len(p))
  <2>1. Offset(i) \in Nat /\ Offset(i) = 11 + i
    BY <1>1, <1>3, PointerIs
  <2>2. p[k2] \in Byte /\ p[k2 + 1] \in Byte
    BY <1>7, ElementOfSeq
  <2>3. PICK n : n = Offset(i)
    OBVIOUS
  <2>4. n \in Nat /\ n <= 266 /\ n + 1 = t /\ ~(n >= Len(p))
    BY <1>1, <1>3, <1>5, <1>6, <2>1, <2>3 DEF HeaderSize
  <2>5. Meant(p[k2], p[k2 + 1]) = n
    BY <1>9, <2>3, Zenon
  <2>6. Target(p, k2) = n
    BY <2>2, <2>4, <2>5, TargetGot
  <2> QED
    BY <2>3, <2>4, <2>6, Zenon
<1>20. ~Stuck(p, MaxJumps, k2, room)
  BY <1>7, <1>15, <1>19, Zenon DEF Stuck
<1>21. f[At(MaxJumps, k2, room)] = f[At(MaxJumps - 1, t, room)]
  <2>1. f[At(MaxJumps, k2, room)] = ReadStep(p, f, MaxJumps, k2, room)
    BY <1>7, <1>15, ReadingIs DEF f
  <2>2. ReadStep(p, f, MaxJumps, k2, room) = f[Across(p, MaxJumps, k2, room)]
    BY <1>18, <1>20, StepJump, Zenon
  <2>3. Across(p, MaxJumps, k2, room) = At(MaxJumps - 1, t, room)
    BY <1>19, Zenon DEF Across
  <2> QED
    BY <2>1, <2>2, <2>3, Zenon
<1>22. PICK v : v = f[At(MaxJumps - 1, t, room)]
  OBVIOUS
<1>23. Shows(asked, i, room, v)
  <2>1. HeaderSize \in Nat
    BY DEF HeaderSize
  <2>2. PICK j : j = MaxJumps - 1
    OBVIOUS
  <2>3. j \in 0 .. MaxJumps
    BY <1>15, <2>2
  <2>4. \A n \in 1 .. Extent(asked) : Start(asked, n) =>
          \A s \in 0 .. size : Shows(asked, n, s, Reading(p, size)[At(j, HeaderSize + n, s)])
    BY <2>1, <2>3, LineRead
  <2>5. Shows(asked, i, room, Reading(p, size)[At(j, HeaderSize + i, room)])
    BY <1>1, <1>7, <2>4, Zenon DEF X
  <2> QED
    BY <1>6, <1>22, <2>2, <2>5, Zenon DEF f
<1>24. NameLoop(p, x + 1, size) = a \o (<<Dot>> \o v)
  <2>1. NameLoop(p, k, size) = f[At(MaxJumps, k, size)]
    BY <1>7, NameLoopIs, Zenon DEF f
  <2> QED
    BY <1>6, <1>17, <1>21, <1>22, <2>1, Zenon
<1>25. Shows(asked, i, size - l - 1, v)
  BY <1>6, <1>23, Zenon
<1> QED
  BY <1>14, <1>24, <1>25, Zenon DEF l, Followed

\* A label, a dot, and what is read of the rest: the name that is meant.
LEMMA ExtendedLeft ==
  ASSUME NEW asked, Fit(asked), asked # << >>, NEW i, Joint(asked, i), NEW label, Label(label),
         NEW size \in Nat, Len(label) + 1 < size,
         NEW a \in Seq(Written), Len(a) = Len(label), \A j \in 1 .. Len(label) : a[j] = label[j],
         NEW v, Shows(asked, i, size - Len(label) - 1, v)
  PROVE  Left(Extended(label, asked, i), size, a \o (<<Dot>> \o v))
<1> DEFINE l == Len(label)
           X == Extent(asked)
           name == Extended(label, asked, i)
           all == a \o (<<Dot>> \o v)
<1>1. i \in Nat /\ i >= 1 /\ i <= X - 2 /\ X \in Nat
  BY JointIs
<1>2. l \in Nat /\ l + 1 < size
  BY DEF Label
<1>3. /\ Len(name) = l + X - i /\ \A q \in 1 .. l : name[q] = label[q]
      /\ name[l + 1] = Dot /\ \A t \in 1 .. X - 1 - i : name[l + 1 + t] = asked[i + t - 1]
  BY ExtendedIs
<1>4. /\ v \in Seq(Written) /\ Len(v) = Shorter(size - l - 1, X - i)
      /\ \A q \in 1 .. Len(v) : v[q] = LineAt(asked, i + q - 1)
  BY Zenon DEF Shows
<1>5. \A q \in 1 .. Len(v) : v[q] = IF i + q - 1 = X - 1 THEN Dot ELSE asked[i + q - 1]
  BY <1>4, Zenon DEF LineAt
<1>6. /\ all \in Seq(Written) /\ Len(all) = Len(a) + 1 + Len(v)
      /\ \A q \in 1 .. Len(a) : all[q] = a[q]
      /\ all[Len(a) + 1] = Dot
      /\ \A q \in 1 .. Len(v) : all[Len(a) + 1 + q] = v[q]
  BY <1>4, DotBetween
<1>7. Len(a) = l /\ \A j \in 1 .. l : a[j] = label[j]
  OBVIOUS
<1> HIDE DEF l, X, name, all
<1>8. Len(all) = l + 1 + Len(v) /\ Len(v) \in Nat /\ Len(v) <= X - i
  <2>1. Len(v) \in Nat
    BY <1>4, LenProperties
  <2>2. Len(v) <= X - i
    BY <1>1, <1>2, <1>4 DEF Shorter
  <2> QED
    BY <1>6, <1>7, <2>1, <2>2, Zenon
<1>9. Len(all) = Shorter(size, Len(name) + 1)
  BY <1>1, <1>2, <1>3, <1>4, <1>8 DEF Shorter
<1>10. ASSUME NEW q \in 1 .. Len(all) PROVE all[q] = IF q = Len(name) + 1 THEN Dot ELSE name[q]
  <2>1. CASE q <= l
    <3>1. q \in 1 .. l /\ q # Len(name) + 1
      BY <1>1, <1>2, <1>3, <2>1
    <3> QED
      BY <1>3, <1>6, <1>7, <3>1, Zenon
  <2>2. CASE q = l + 1
    BY <1>3, <1>6, <1>7, <2>2, Zenon
  <2>3. CASE q > l + 1
    <3>1. PICK t : t = q - l - 1
      OBVIOUS
    <3>2. t \in 1 .. Len(v) /\ q = l + 1 + t
      BY <1>2, <1>8, <2>3, <3>1
    <3>3. all[q] = v[t]
      BY <1>6, <1>7, <3>2, Zenon
    <3>4. v[t] = IF i + t - 1 = X - 1 THEN Dot ELSE asked[i + t - 1]
      BY <1>5, <3>2, Zenon
    <3>5. CASE t = X - i
      <4>1. i + t - 1 = X - 1 /\ q = Len(name) + 1
        BY <1>1, <1>2, <1>3, <3>2, <3>5
      <4> QED
        BY <3>3, <3>4, <4>1, Zenon
    <3>6. CASE t # X - i
      <4>1. t \in 1 .. X - 1 - i /\ i + t - 1 # X - 1 /\ q # Len(name) + 1
        BY <1>1, <1>2, <1>3, <1>8, <3>2, <3>6
      <4>2. name[q] = asked[i + t - 1]
        BY <1>3, <3>2, <4>1, Zenon
      <4> QED
        BY <3>3, <3>4, <4>1, <4>2, Zenon
    <3> QED
      BY <3>5, <3>6
  <2> QED
    BY <1>2, <2>1, <2>2, <2>3
<1> QED
  BY <1>6, <1>9, <1>10, Zenon DEF Left, name, all

\* A label with a pointer behind it is read as the name that is meant.
LEMMA CompressedGot ==
  ASSUME NEW asked, Fit(asked), asked # << >>, NEW i, Joint(asked, i), NEW label, Label(label),
         NEW size \in Nat \ {0}, Len(label) + 1 < size,
         NEW p \in Seq(Byte), Lies(p, HeaderSize, Named(asked)), NEW x \in Nat, Lies(p, x, Compressed(label, i))
  PROVE  GetName(p, x + 1, size) = Shown(Extended(label, asked, i), size)
<1>1. size \in Nat
  OBVIOUS
<1>a. Followed(label, asked, i, size, NameLoop(p, x + 1, size))
  BY <1>1, PointerFollowed
<1>2. PICK a, v : /\ NameLoop(p, x + 1, size) = a \o (<<Dot>> \o v)
                  /\ a \in Seq(Written) /\ Len(a) = Len(label) /\ \A j \in 1 .. Len(label) : a[j] = label[j]
                  /\ Shows(asked, i, size - Len(label) - 1, v)
  BY <1>a, Zenon DEF Followed
<1>3. Left(Extended(label, asked, i), size, a \o (<<Dot>> \o v))
  BY <1>1, <1>2, ExtendedLeft
<1>4. Left(Extended(label, asked, i), size, NameLoop(p, x + 1, size))
  BY <1>2, <1>3, Zenon
<1>5. Tidy(Extended(label, asked, i))
  BY ExtendedTidy
<1> QED
  BY <1>4, <1>5, NameShown

\* What is shown of a name is no error.
LEMMA ShownGood ==
  ASSUME NEW name, Tidy(name), NEW size \in Nat \ {0}
  PROVE  Shown(name, size) # <<Bad>>
<1>1. name \in Seq(1 .. 127) /\ Len(name) \in Nat /\ Len(name) >= 1
  BY LenProperties DEF Tidy
<1>2. PICK m : m = Shorter(Len(name), size - 1)
  OBVIOUS
<1>3. m \in 0 .. Len(name)
  BY <1>1, <1>2 DEF Shorter
<1>4. Min({Len(name), size - 1}) = m
  <2>1. PICK b : b = Len(name)
    OBVIOUS
  <2>2. b \in Int /\ size - 1 \in Int
    BY <1>1, <2>1
  <2> QED
    BY <1>2, <2>1, <2>2, MinOfTwo DEF Shorter
<1>5. Shown(name, size) = SubSeq(name, 1, m)
  BY <1>4, Zenon DEF Shown
<1>6. /\ SubSeq(name, 1, m) \in Seq(1 .. 127) /\ Len(SubSeq(name, 1, m)) = m
  BY <1>1, <1>3, Parts
<1>7. PICK s : s = SubSeq(name, 1, m)
  OBVIOUS
<1>8. s \in Seq(1 .. 127)
  BY <1>6, <1>7, Zenon
<1>9. s # <<Bad>>
  <2> SUFFICES ASSUME s = <<Bad>> PROVE FALSE
    OBVIOUS
  <2>1. Len(s) = 1 /\ s[1] = Bad
    OBVIOUS
  <2>2. s[1] \in 1 .. 127
    <3>1. 1 \in 1 .. Len(s)
      BY <2>1
    <3> QED
      BY <1>8, <3>1, ElementOfSeq
  <2>3. \A z \in 1 .. 127 : z # Bad
    BY DEF Bad
  <2> QED
    BY <2>1, <2>2, <2>3, Zenon
<1> QED
  BY <1>5, <1>7, <1>9, Zenon

\* A whole reply, of which everything came.
LEMMA WholeIs ==
  ASSUME NEW r, Replied(r), Len(r.as) = 1
  PROVE  LET p == Until(r, 1) IN
         /\ p \in Seq(Byte) /\ Begins(p, Until(r, Len(r.as))) /\ 12 <= Len(p)
         /\ CameWhole(r, p) = 1 /\ Parse(p) = Head0(r)
         /\ Lies(p, HeaderSize, Named(r.asked))
<1> DEFINE p == Until(r, 1)
<1>1. 0 \in 0 .. Len(r.as) /\ 1 \in 0 .. Len(r.as)
  OBVIOUS
<1>2. p \in Seq(Byte) /\ Until(r, 0) = Asks(r)
  BY <1>1, UntilIs
<1>3. Begins(p, Until(r, Len(r.as)))
  <2>1. Len(p) <= Len(p)
    BY <1>2, LenProperties
  <2> QED
    BY <2>1, Zenon DEF Begins
<1>4. Lies(p, 0, Asks(r))
  <2>1. \A n \in 0 .. Len(r.as) : Lies(Until(r, Len(r.as)), 0, Until(r, n))
    BY UntilLies
  <2> QED
    BY <1>1, <1>2, <2>1, Zenon
<1>5. /\ Extent(r.asked) \in Nat /\ Asks(r) \in Seq(Byte) /\ Len(Asks(r)) = Extent(r.asked) + 16
      /\ Lies(Asks(r), 12, Named(r.asked)) /\ Fit(r.asked)
  BY AsksIs
<1> HIDE DEF p
<1>6. Len(p) \in Nat
  BY <1>2, LenProperties
<1>7. 12 <= Len(p)
  <2>1. PICK n : n = Len(Asks(r))
    OBVIOUS
  <2>2. 0 + n <= Len(p)
    BY <1>4, <2>1, Zenon DEF Lies
  <2> QED
    BY <1>5, <1>6, <2>1, <2>2
<1>8. Lies(p, HeaderSize, Named(r.asked))
  <2>1. Named(r.asked) \in Seq(Byte) /\ Len(Named(r.asked)) \in Nat
    BY <1>5, NamedIs, LenProperties
  <2>2. Len(Asks(r)) \in Nat
    BY <1>5, LenProperties
  <2>3. Lies(p, 0 + 12, Named(r.asked))
    BY <1>4, <1>5, <1>6, <2>1, <2>2, LiesIn
  <2>4. 0 + 12 = HeaderSize
    BY DEF HeaderSize
  <2> QED
    BY <2>3, <2>4, Zenon
<1>9. Parse(p) = Head0(r)
  BY <1>2, <1>3, <1>7, FrontIs
<1>10. CameWhole(r, p) = 1
  <2>1. /\ CameWhole(r, p) \in 0 .. Len(r.as)
        /\ Len(Until(r, 0)) <= Len(p) => \A n \in 0 .. Len(r.as) : Len(Until(r, n)) <= Len(p) <=> n <= CameWhole(r, p)
    BY <1>6, CameWholeIs
  <2>2. Len(Until(r, 0)) <= Len(p)
    <3>1. PICK n : n = Len(Asks(r))
      OBVIOUS
    <3>2. 0 + n <= Len(p)
      BY <1>4, <3>1, Zenon DEF Lies
    <3>3. n <= Len(p)
      BY <1>5, <3>1, <3>2
    <3> QED
      BY <1>2, <3>1, <3>3, Zenon
  <2>3. Len(Until(r, 1)) <= Len(p)
    BY <1>6 DEF p
  <2>4. 1 <= CameWhole(r, p)
    BY <1>1, <2>1, <2>2, <2>3, Zenon
  <2>5. PICK w : w = CameWhole(r, p)
    OBVIOUS
  <2>6. w \in 0 .. 1 /\ 1 <= w
    BY <2>1, <2>4, <2>5, Zenon
  <2>7. w = 1
    BY <2>6
  <2> QED
    BY <2>5, <2>7, Zenon
<1> QED
  BY <1>2, <1>3, <1>7, <1>8, <1>9, <1>10, Zenon DEF p

\* A reply with one answer, which is a name, counts one and leaves that name.
LEMMA NameCounted ==
  ASSUME NEW r, Replied(r), r.flags.rcode = 0, Len(r.as) = 1, r.as[1].type = TypePtr, r.as[1].class = ClassIn,
         NEW name, Tidy(name),
         GetName(Until(r, 1), Read(r.as[1], Len(Until(r, 0))).body, NameSize) = Shown(name, NameSize)
  PROVE  GetHosts(Until(r, 1)) = [count |-> 1, hostv |-> <<Shown(name, NameSize)>>]
<1> DEFINE p == Until(r, 1)
           x == Read(r.as[1], Len(Until(r, 0)))
           g == Shown(name, NameSize)
<1>1. /\ p \in Seq(Byte) /\ Begins(p, Until(r, Len(r.as))) /\ 12 <= Len(p)
      /\ CameWhole(r, p) = 1 /\ Parse(p) = Head0(r)
  BY WholeIs
<1>2. GetName(p, x.body, NameSize) = g
  OBVIOUS
<1>3. g # <<Bad>>
  BY PacketAssumption, ShownGood
<1> HIDE DEF p, g
<1>4. IsHost(x)
  BY DEF IsHost, Read
<1>5. Parse(p).an = 1 /\ Parse(p).qd = 1
  <2>1. Head0(r).an = 1 /\ Head0(r).qd = 1
    BY DEF Head0
  <2> QED
    BY <1>1, <2>1, Zenon
<1> HIDE DEF x
<1>6. \A n \in 1 .. Len(r.as) : HostAt(p)[n] = Spot(r, p, n)
  <2>1. HostAt(p)[1] = SkipEcho(p, 1)
    BY <1>5, HostAtOne
  <2>2. Spot(r, p, 1) = SkipEcho(p, 1)
    BY <1>1, SpotFirst
  <2>3. \A n \in 1 .. 1 : n = 1
    OBVIOUS
  <2> QED
    BY <2>1, <2>2, <2>3, Zenon
<1>7. SeenAt(p, HostAt(p)) = [n \in 1 .. 1 |-> x]
  <2>1. SeenAt(p, HostAt(p)) = IF r.flags.rcode # 0 THEN << >>
                               ELSE [n \in 1 .. CameWhole(r, p) |-> Read(r.as[n], Len(Until(r, n - 1)))]
    <3>1. PICK at : at = HostAt(p)
      OBVIOUS
    <3>2. \A n \in 1 .. Len(r.as) : at[n] = Spot(r, p, n)
      BY <1>6, <3>1, Zenon
    <3>3. p \in Seq(Byte) /\ Begins(p, Until(r, Len(r.as))) /\ 12 <= Len(p)
      BY <1>1, Zenon
    <3>4. SeenAt(p, at) = IF r.flags.rcode # 0 THEN << >>
                          ELSE [n \in 1 .. CameWhole(r, p) |-> Read(r.as[n], Len(Until(r, n - 1)))]
      BY <3>2, <3>3, SeenIs
    <3> QED
      BY <3>1, <3>4, Zenon
  <2>2. SeenAt(p, HostAt(p)) = [n \in 1 .. 1 |-> Read(r.as[n], Len(Until(r, n - 1)))]
    BY <1>1, <2>1, Zenon
  <2>3. \A n \in 1 .. 1 : Read(r.as[n], Len(Until(r, n - 1))) = x
    <3>1. \A n \in 1 .. 1 : n = 1 /\ n - 1 = 0
      OBVIOUS
    <3> QED
      BY <3>1, Zenon DEF x
  <2> QED
    BY <2>2, <2>3, Zenon
<1>8. HostsIn(p, [n \in 1 .. 1 |-> x]) = [count |-> 1, hostv |-> <<GetName(p, x.body, NameSize)>>]
  <2>1. GetName(p, x.body, NameSize) # <<Bad>>
    BY <1>2, <1>3, Zenon
  <2> QED
    BY <1>4, <2>1, OneHost
<1>9. GetHosts(p) = HostsIn(p, SeenAt(p, HostAt(p)))
  BY GetHostsIs
<1> QED
  BY <1>2, <1>7, <1>8, <1>9, Zenon DEF p, g

\* A name without dots is one label.
LEMMA LabelOf ==
  ASSUME NEW label \in Texts, Proper(label), \A n \in 1 .. Len(label) : label[n] # Dot
  PROVE  Label(label)
<1>1. /\ label \in Seq(1 .. 127)
      /\ \A i \in 1 .. Len(label) - 63 : \E j \in i .. i + 63 : label[j] = Dot
  BY SampleAssumption DEF IsName
<1>2. label # << >>
  BY DEF Proper
<1>3. Len(label) \in Nat /\ Len(label) # 0
  BY <1>1, <1>2, LenProperties, EmptySeq
<1>4. Len(label) <= 63
  <2> SUFFICES ASSUME Len(label) > 63 PROVE FALSE
    BY <1>3
  <2>1. 1 \in 1 .. Len(label) - 63 /\ \A j \in 1 .. 1 + 63 : j \in 1 .. Len(label)
    BY <1>3
  <2> QED
    BY <1>1, <2>1, Zenon
<1>5. Len(label) \in 1 .. 63
  <2>1. PICK l : l = Len(label)
    OBVIOUS
  <2>2. l \in Nat /\ l # 0 /\ l <= 63
    BY <1>3, <1>4, <2>1, Zenon
  <2>3. l \in 1 .. 63
    BY <2>2
  <2> QED
    BY <2>1, <2>3, Zenon
<1> QED
  BY <1>1, <1>5, Zenon DEF Label

\* Where the name of the answer stands.
LEMMA BodyAt ==
  ASSUME NEW r, Replied(r), Len(r.as) = 1
  PROVE  \E x \in Nat : Lies(Until(r, 1), x, r.as[1].body) /\ Read(r.as[1], Len(Until(r, 0))).body = x + 1
<1> DEFINE p == Until(r, 1)
<1>1. p \in Seq(Byte) /\ Begins(p, Until(r, Len(r.as)))
  BY WholeIs
<1>2. 1 \in 1 .. Len(r.as) /\ 1 - 1 = 0 /\ 1 \in 0 .. Len(r.as) /\ 0 \in 0 .. Len(r.as)
  OBVIOUS
<1>3. Len(Until(r, 1)) <= Len(p)
  BY <1>1, LenProperties
<1> HIDE DEF p
<1>4. /\ Lies(p, Len(Until(r, 1 - 1)) + (Len(r.as[1].name) + 10), r.as[1].body)
      /\ Len(Until(r, 1 - 1)) + (Len(r.as[1].name) + 10) \in Nat
  BY <1>1, <1>2, <1>3, BodyLies
<1>5. Len(Until(r, 0)) \in Nat /\ Len(r.as[1].name) \in Nat
  <2>1. \A n \in 0 .. Len(r.as) : Len(Until(r, n)) \in Nat
    BY UntilGrows
  <2>2. Sendable(r.as[1])
    BY <1>2, ReplyIs DEF Replied
  <2>3. Len(r.as[1].name) \in Nat
    BY <2>2, SendableIs
  <2> QED
    BY <1>2, <2>1, <2>3, Zenon
<1>6. PICK o, n : o = Len(Until(r, 0)) /\ n = Len(r.as[1].name)
  OBVIOUS
<1>7. PICK x : x = o + (n + 10)
  OBVIOUS
<1>8. x \in Nat /\ o + n + 11 = x + 1
  <2>1. o \in Nat /\ n \in Nat
    BY <1>5, <1>6, Zenon
  <2> QED
    BY <1>7, <2>1
<1>9. Lies(p, x, r.as[1].body)
  BY <1>2, <1>4, <1>6, <1>7, Zenon
<1>10. Read(r.as[1], Len(Until(r, 0))).body = x + 1
  <2>1. Read(r.as[1], Len(Until(r, 0))).body = Len(Until(r, 0)) + Len(r.as[1].name) + 11
    BY Zenon DEF Read
  <2> QED
    BY <1>6, <1>8, <2>1, Zenon
<1> QED
  BY <1>8, <1>9, <1>10, Zenon DEF p

\* What get_hosts() leaves when there is one name.
GivesName(p, name) == GetHosts(p) = [count |-> 1, hostv |-> <<Shown(name, NameSize)>>]

LEMMA PlainGiven ==
  ASSUME NEW r, Replied(r), r.flags.rcode = 0, Len(r.as) = 1, r.as[1].type = TypePtr, r.as[1].class = ClassIn,
         NEW text \in Texts, Proper(text), r.as[1].body = Encoded(text)
  PROVE  GivesName(Until(r, 1), Bare(text))
<1> DEFINE p == Until(r, 1)
<1>1. PICK x \in Nat : Lies(p, x, r.as[1].body) /\ Read(r.as[1], Len(Until(r, 0))).body = x + 1
  BY BodyAt
<1>2. Fit(text) /\ text # << >>
  BY SampleAssumption DEF Fit, Proper
<1>3. Lies(p, x, Named(text))
  <2>1. Encoded(text) = Named(text)
    BY <1>2, EncodedIs
  <2> QED
    BY <1>1, <2>1, Zenon
<1>4. Tidy(Bare(text))
  BY <1>2, BareIs
<1>5. p \in Seq(Byte)
  BY WholeIs
<1> HIDE DEF p
<1>6. NameSize \in Nat \ {0}
  BY PacketAssumption
<1>7. GetName(p, x + 1, NameSize) = Shown(Bare(text), NameSize)
  BY <1>2, <1>3, <1>5, <1>6, NameGot
<1>8. GetName(p, Read(r.as[1], Len(Until(r, 0))).body, NameSize) = Shown(Bare(text), NameSize)
  BY <1>1, <1>7, Zenon
<1> QED
  BY <1>4, <1>8, NameCounted DEF GivesName, p

LEMMA CompressedGiven ==
  ASSUME NEW r, Replied(r), r.flags.rcode = 0, Len(r.as) = 1, r.as[1].type = TypePtr, r.as[1].class = ClassIn,
         NEW label \in Texts, Proper(label), \A n \in 1 .. Len(label) : label[n] # Dot, Len(label) + 1 < NameSize,
         NEW i \in 1 .. Len(Bare(r.asked)), i > 1 => r.asked[i - 1] = Dot, r.as[1].body = Compressed(label, i)
  PROVE  GivesName(Until(r, 1), Extended(label, r.asked, i))
<1> DEFINE p == Until(r, 1)
           asked == r.asked
           name == Extended(label, asked, i)
<1>1. PICK x \in Nat : Lies(p, x, r.as[1].body) /\ Read(r.as[1], Len(Until(r, 0))).body = x + 1
  BY BodyAt
<1>2. Fit(asked) /\ asked # << >>
  BY AsksIs
<1>3. Lies(p, x, Compressed(label, i))
  BY <1>1, Zenon
<1>4. p \in Seq(Byte) /\ Lies(p, HeaderSize, Named(asked))
  BY WholeIs
<1>5. Label(label)
  BY LabelOf
<1>6. Joint(asked, i)
  <2>1. Len(Bare(asked)) = Extent(asked) - 2
    BY <1>2, BareIs
  <2> QED
    BY <2>1, Zenon DEF Joint
<1>7. Tidy(name)
  BY <1>2, <1>5, <1>6, ExtendedTidy
<1> HIDE DEF p
<1>8. NameSize \in Nat \ {0}
  BY PacketAssumption
<1>9. GetName(p, x + 1, NameSize) = Shown(name, NameSize)
  BY <1>2, <1>3, <1>4, <1>5, <1>6, <1>8, CompressedGot
<1> HIDE DEF name
<1>10. GetName(p, Read(r.as[1], Len(Until(r, 0))).body, NameSize) = Shown(name, NameSize)
  BY <1>1, <1>9, Zenon
<1>11. GetHosts(p) = [count |-> 1, hostv |-> <<Shown(name, NameSize)>>]
  BY <1>7, <1>10, NameCounted DEF p
<1> QED
  BY <1>11, Zenon DEF GivesName, p, name

----------------------------------------------------------------------------
\* Replies are read as they were meant: the header, the addresses of all that
\* came of a reply, and the name, compressed or not, of one with a single answer
\* (header.cc:67-97, 120-337), for every reply, every name and every cut.
LEMMA AddrsAreFound ==
  ASSUME Replied(sample.of), sample.cut \in Nat, Parsed(Came(sample))
  PROVE  AddrsFound
<1> DEFINE r == sample.of
           p == Came(sample)
           w == CameWhole(r, p)
<1>1. p \in Seq(Byte) /\ Begins(p, Until(r, Len(r.as)))
  <2>1. PICK s : s = sample
    OBVIOUS
  <2>2. Came(s) \in Seq(Byte) /\ Begins(Came(s), Until(r, Len(r.as)))
    BY <2>1, CameIs
  <2> QED
    BY <2>1, <2>2, Zenon
<1>2. 12 <= Len(p)
  <2>1. Len(p) \in Nat
    BY <1>1, LenProperties
  <2>2. Len(p) >= 12
    BY DEF Parsed, HeaderSize
  <2> QED
    BY <2>1, <2>2
<1> HIDE DEF p, r
<1>3. Replied(r)
  BY DEF r
<1>4. Parse(p) = Head0(r)
  BY <1>1, <1>2, <1>3, FrontIs
<1>5. GetAddrs(p) = IF r.flags.rcode = 0
                    THEN SubSeq(AddrsOf(r, w), 1, Min({Len(AddrsOf(r, w)), MaxFound})) ELSE << >>
  BY <1>1, <1>2, <1>3, AddrsGot
<1> QED
  BY <1>4, <1>5, Zenon DEF AddrsFound, AddrsOf, CameWhole, p, r

LEMMA HostIsFound ==
  ASSUME Replied(sample.of), sample.cut \in Nat
  PROVE  HostFound(GetHosts(Came(sample)))
<1> DEFINE r == sample.of
           a == r.as[1]
<1> SUFFICES ASSUME sample.cut = 0, r.flags.rcode = 0, Len(r.as) = 1, a.type = TypePtr, a.class = ClassIn
             PROVE  /\ \A text \in Texts : Proper(text) /\ a.body = Encoded(text) => GivesName(Came(sample), Bare(text))
                    /\ \A label \in Texts, i \in 1 .. Len(Bare(r.asked)) :
                         /\ Proper(label) /\ (\A n \in 1 .. Len(label) : label[n] # Dot) /\ Len(label) + 1 < NameSize
                         /\ i > 1 => r.asked[i - 1] = Dot
                         /\ a.body = Compressed(label, i)
                         => GivesName(Came(sample), Extended(label, r.asked, i))
  BY Zenon DEF HostFound, GivesName, Extended
<1>1. Came(sample) = Until(r, 1)
  <2>1. PICK s : s = sample
    OBVIOUS
  <2>2. Came(s) = Until(r, Len(r.as))
    BY <2>1, CameIs
  <2> QED
    BY <2>1, <2>2, Zenon
<1> HIDE DEF r
<1>2. Replied(r)
  BY DEF r
<1>3. ASSUME NEW text \in Texts, Proper(text), a.body = Encoded(text)
      PROVE  GivesName(Until(r, 1), Bare(text))
  BY <1>2, <1>3, PlainGiven
<1>4. ASSUME NEW label \in Texts, NEW i \in 1 .. Len(Bare(r.asked)), Proper(label),
             \A n \in 1 .. Len(label) : label[n] # Dot, Len(label) + 1 < NameSize,
             i > 1 => r.asked[i - 1] = Dot, a.body = Compressed(label, i)
      PROVE  GivesName(Until(r, 1), Extended(label, r.asked, i))
  BY <1>2, <1>4, CompressedGiven
<1> QED
  BY <1>1, <1>3, <1>4, Zenon

\* A reply is read as it was meant: the header, the addresses of the answers that
\* came as a whole, and the name in the only answer, with a pointer into the
\* question or without, for all replies, names and cuts that the assumption
\* admits (header.cc:67-97, 120-337).
THEOREM RepliesAreRead == SampleSpec => []ReplyRead
<1>1. SampleInit => ReplyRead
  <2> SUFFICES ASSUME SampleInit, sample.what = "reply", Proper(sample.of.asked), Parsed(Came(sample))
               PROVE  AddrsFound /\ HostFound(GetHosts(Came(sample)))
    BY DEF ReplyRead
  <2>1. sample \in [what : {"reply"}, of : Replies, cut : Cuts]
    BY DEF SampleInit
  <2>2. sample.of \in Replies /\ sample.cut \in Cuts
    BY <2>1
  <2>3. Replied(sample.of) /\ sample.cut \in Nat
    BY <2>2, SampleAssumption DEF Replied
  <2> QED
    BY <2>3, AddrsAreFound, HostIsFound
<1>2. ReplyRead /\ [FALSE]_sample => ReplyRead'
  BY DEF ReplyRead, AddrsFound, HostFound
<1> QED
  BY <1>1, <1>2, PTL DEF SampleSpec
=============================================================================
