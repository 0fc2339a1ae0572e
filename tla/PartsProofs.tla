----------------------------- MODULE PartsProofs -----------------------------
(***************************************************************************)
(* Three parts that share nothing: the id table for every span, number of  *)
(* serials and page size, rascal_init for any number of callers and        *)
(* processors, and a datagram connection for any number of datagrams.      *)
(***************************************************************************)
EXTENDS MCStock, Startup, Datagram, SequenceTheorems, WellFoundedInduction, TLAPS

USE StockAssumption

----------------------------------------------------------------------------
(* Tables: c slots with the ids d and the free stack f.                    *)

Table(c, d, f) == /\ c \in 0 .. MaxSlots
                  /\ d \in [0 .. c - 1 -> Ids \cup {NoId}]
                  /\ f \in Seq(0 .. c - 1)

\* The stack holds each unused slot once, and no other.
Exact(c, d, f) ==
  /\ \A n \in 1 .. Len(f) : d[f[n]] = NoId
  /\ \A m, n \in 1 .. Len(f) : f[m] = f[n] => m = n
  /\ \A k \in 0 .. c - 1 : d[k] = NoId => \E n \in 1 .. Len(f) : f[n] = k

\* The ids name their slots.
Home(c, d) == \A k \in 0 .. c - 1 : d[k] # NoId => SlotOf(d[k]) = k

LEMMA IdIsNotNoId == \A i \in Ids : i # NoId /\ i[1] \in 0 .. Serials - 1 /\ i[2] \in 0 .. SlotSpan - 1
BY DEF Ids, NoId

\* An id is an id, and below the span it names its slot.
LEMMA IdOfTyped ==
  ASSUME NEW s \in 0 .. Serials - 1, NEW k \in 0 .. MaxSlots - 1
  PROVE  IdOf(s, k) \in Ids /\ (k < SlotSpan => SlotOf(IdOf(s, k)) = k)
<1>1. CASE k < SlotSpan
  BY <1>1 DEF IdOf, Ids, SlotOf
<1>2. CASE ~(k < SlotSpan)
  <2>1. (s + 1) % Serials \in 0 .. Serials - 1
    OBVIOUS
  <2> QED
    BY <1>2, <2>1 DEF IdOf, Ids
<1> QED
  BY <1>1, <1>2

\* The growth step of add() gives a table with a free slot.
LEMMA GrownTable ==
  ASSUME Table(cnt, ids, free), HasRoom
  PROVE  /\ Table(Grown.cnt, Grown.ids, Grown.free)
         /\ Grown.free # << >>
         /\ cnt =< Grown.cnt
         /\ \A k \in Slots : Grown.ids[k] = ids[k]
         /\ Exact(cnt, ids, free) => Exact(Grown.cnt, Grown.ids, Grown.free)
         /\ Home(cnt, ids) => Home(Grown.cnt, Grown.ids)
<1>1. CASE free # << >>
  BY <1>1 DEF Grown, Table, Slots
<1>2. CASE free = << >>
  <2> DEFINE c == cnt + PageSize
             d == [k \in 0 .. cnt + PageSize - 1 |-> IF k < cnt THEN ids[k] ELSE NoId]
             f == [n \in 1 .. PageSize |-> cnt + n - 1]
  <2>1. Grown.cnt = c /\ Grown.ids = d /\ Grown.free = f
    BY <1>2 DEF Grown
  <2>2. c \in 0 .. MaxSlots /\ cnt \in Nat /\ PageSize \in Nat \ {0}
    BY <1>2 DEF HasRoom, Table
  <2>3. f \in Seq(0 .. c - 1) /\ Len(f) = PageSize
    BY <2>2
  <2>4. d \in [0 .. c - 1 -> Ids \cup {NoId}]
    BY <2>2 DEF Table
  <2>5. Exact(cnt, ids, free) => Exact(c, d, f)
    <3> SUFFICES ASSUME Exact(cnt, ids, free) PROVE Exact(c, d, f)
      OBVIOUS
    <3>1. \A k \in 0 .. cnt - 1 : ids[k] # NoId
      BY <1>2 DEF Exact
    <3>2. \A n \in 1 .. PageSize : d[f[n]] = NoId
      BY <2>2
    <3>3. \A k \in 0 .. c - 1 : d[k] = NoId => k >= cnt /\ k - cnt + 1 \in 1 .. PageSize /\ f[k - cnt + 1] = k
      BY <2>2, <3>1
    <3>4. \A m, n \in 1 .. PageSize : f[m] = f[n] => m = n
      BY <2>2
    <3> HIDE DEF c, d, f
    <3> QED
      BY <2>3, <3>2, <3>3, <3>4 DEF Exact
  <2>6. Home(cnt, ids) => Home(c, d)
    BY <2>2 DEF Home
  <2>7. \A k \in Slots : d[k] = ids[k]
    BY <2>2 DEF Slots
  <2>8. f # << >>
    BY <2>2, <2>3
  <2> HIDE DEF c, d, f
  <2> QED
    BY <2>1, <2>2, <2>3, <2>4, <2>5, <2>6, <2>7, <2>8 DEF Table, c
<1> QED
  BY <1>1, <1>2

\* Taking the slot on the top of the stack.
LEMMA Taken ==
  ASSUME NEW c, NEW d, NEW f, Table(c, d, f), f # << >>, NEW i \in Ids
  PROVE  LET k == f[Len(f)]
             e == [d EXCEPT ![k] = i]
             g == SubSeq(f, 1, Len(f) - 1)
         IN  /\ k \in 0 .. c - 1
             /\ Table(c, e, g)
             /\ Exact(c, d, f) => Exact(c, e, g)
             /\ Home(c, d) /\ SlotOf(i) = k => Home(c, e)
<1> DEFINE k == f[Len(f)]
           e == [d EXCEPT ![k] = i]
           g == SubSeq(f, 1, Len(f) - 1)
<1>1. Len(f) \in Nat \ {0} /\ c \in Nat /\ k \in 0 .. c - 1
  BY DEF Table
<1>2. g \in Seq(0 .. c - 1) /\ Len(g) = Len(f) - 1 /\ \A n \in 1 .. Len(f) - 1 : g[n] = f[n]
  BY <1>1, SubSeqProperties DEF Table
<1>3. Table(c, e, g)
  BY <1>1, <1>2 DEF Table
<1>4. Exact(c, d, f) => Exact(c, e, g)
  <2> SUFFICES ASSUME Exact(c, d, f) PROVE Exact(c, e, g)
    OBVIOUS
  <2>1. \A n \in 1 .. Len(f) : f[n] \in 0 .. c - 1
    BY DEF Table
  <2>2. ASSUME NEW n \in 1 .. Len(g) PROVE g[n] # k /\ e[g[n]] = NoId
    <3>1. n \in 1 .. Len(f) /\ n # Len(f) /\ Len(f) \in 1 .. Len(f) /\ g[n] = f[n]
      BY <1>1, <1>2
    <3>2. g[n] # k
      BY <3>1 DEF Exact
    <3>3. g[n] \in 0 .. c - 1 /\ d[g[n]] = NoId
      BY <2>1, <3>1 DEF Exact
    <3> QED
      BY <3>2, <3>3 DEF Table
  <2>3. \A m, n \in 1 .. Len(g) : g[m] = g[n] => m = n
    BY <1>1, <1>2 DEF Exact
  <2>4. ASSUME NEW j \in 0 .. c - 1, e[j] = NoId PROVE \E n \in 1 .. Len(g) : g[n] = j
    <3>1. j # k /\ d[j] = NoId
      BY <1>1, <2>4, IdIsNotNoId DEF Table
    <3>2. PICK n \in 1 .. Len(f) : f[n] = j
      BY <3>1 DEF Exact
    <3>3. n # Len(f)
      BY <3>1, <3>2
    <3> QED
      BY <1>1, <1>2, <3>2, <3>3
  <2> QED
    BY <2>2, <2>3, <2>4 DEF Exact
<1>5. Home(c, d) /\ SlotOf(i) = k => Home(c, e)
  BY <1>1 DEF Home, Table
<1> QED
  BY <1>1, <1>3, <1>4, <1>5

\* Giving the slot k back.
LEMMA Given ==
  ASSUME NEW c, NEW d, NEW f, Table(c, d, f), NEW k \in 0 .. c - 1, d[k] # NoId
  PROVE  LET e == [d EXCEPT ![k] = NoId]
             g == Append(f, k)
         IN  /\ Table(c, e, g)
             /\ Exact(c, d, f) => Exact(c, e, g)
             /\ Home(c, d) => Home(c, e)
<1> DEFINE e == [d EXCEPT ![k] = NoId]
           g == Append(f, k)
<1>1. g \in Seq(0 .. c - 1) /\ Len(g) = Len(f) + 1 /\ Len(f) \in Nat
      /\ g[Len(f) + 1] = k /\ \A n \in 1 .. Len(f) : g[n] = f[n]
  BY DEF Table
<1>2. Table(c, e, g)
  BY <1>1 DEF Table
<1>3. Exact(c, d, f) => Exact(c, e, g)
  <2> SUFFICES ASSUME Exact(c, d, f) PROVE Exact(c, e, g)
    OBVIOUS
  <2>1. \A n \in 1 .. Len(f) : f[n] \in 0 .. c - 1 /\ f[n] # k
    BY DEF Table, Exact
  <2>2. \A n \in 1 .. Len(g) : e[g[n]] = NoId
    BY <1>1, <2>1 DEF Exact, Table
  <2>3. ASSUME NEW m \in 1 .. Len(g), NEW n \in 1 .. Len(g), g[m] = g[n] PROVE m = n
    <3>1. \A q \in 1 .. Len(g) : q \in 1 .. Len(f) \/ q = Len(f) + 1
      BY <1>1
    <3> HIDE DEF g
    <3>2. CASE m \in 1 .. Len(f) /\ n \in 1 .. Len(f)
      BY <1>1, <2>3, <3>2, Zenon DEF Exact
    <3>3. CASE ~(m \in 1 .. Len(f) /\ n \in 1 .. Len(f))
      BY <1>1, <2>1, <2>3, <3>1, <3>3, Zenon
    <3> QED
      BY <3>2, <3>3
  <2>4. ASSUME NEW j \in 0 .. c - 1, e[j] = NoId PROVE \E n \in 1 .. Len(g) : g[n] = j
    <3>1. CASE j = k
      BY <1>1, <3>1
    <3>2. CASE j # k
      <4>1. PICK n \in 1 .. Len(f) : f[n] = j
        BY <2>4, <3>2 DEF Exact, Table
      <4> QED
        BY <1>1, <4>1
    <3> QED
      BY <3>1, <3>2
  <2> QED
    BY <2>2, <2>3, <2>4 DEF Exact
<1>4. Home(c, d) => Home(c, e)
  BY DEF Home, Table
<1> QED
  BY <1>2, <1>3, <1>4

----------------------------------------------------------------------------
(* The specification.                                                      *)

StockInv == /\ TypeOK
            /\ cnt < SlotSpan => Exact(cnt, ids, free) /\ Home(cnt, ids)

LEMMA StockInvInit == Init => StockInv
BY DEF Init, StockInv, TypeOK, Slots, Exact, Home

LEMMA StockInvStep ==
  ASSUME StockInv, [Next]_vars PROVE StockInv'
<1>1. TypeOK /\ Table(cnt, ids, free) /\ cnt \in Nat
  BY DEF StockInv, TypeOK, Table, Slots
<1>2. CASE UNCHANGED vars
  BY <1>1, <1>2 DEF vars, StockInv, TypeOK, Slots
<1>3. ASSUME NEW o \in Objects, Add(o) PROVE StockInv'
  <2> DEFINE g == Grown
             k == g.free[Len(g.free)]
             s == (seed + 1) % Serials
  <2>1. /\ HasRoom /\ cnt' = g.cnt /\ free' = SubSeq(g.free, 1, Len(g.free) - 1)
        /\ seed' = s /\ ids' = [g.ids EXCEPT ![k] = IdOf(s, k)]
        /\ body' = [j \in 0 .. g.cnt - 1 |->
                       IF j = k THEN o ELSE IF j < cnt THEN body[j] ELSE NoObject]
        /\ answer' = <<"add", o, IdOf(s, k)>>
    BY <1>3 DEF Add
  <2>2. /\ Table(g.cnt, g.ids, g.free) /\ g.free # << >> /\ cnt =< g.cnt
        /\ Exact(cnt, ids, free) => Exact(g.cnt, g.ids, g.free)
        /\ Home(cnt, ids) => Home(g.cnt, g.ids)
    BY <1>1, <2>1, GrownTable
  <2> HIDE DEF g
  <2>3. s \in 0 .. Serials - 1
    BY <1>1 DEF TypeOK
  <2>4. k \in 0 .. g.cnt - 1 /\ g.cnt \in 0 .. MaxSlots
    BY <2>2 DEF Table
  <2>5. IdOf(s, k) \in Ids /\ (k < SlotSpan => SlotOf(IdOf(s, k)) = k)
    BY <2>3, <2>4, IdOfTyped
  <2> HIDE DEF s
  <2>6. /\ Table(cnt', ids', free')
        /\ Exact(g.cnt, g.ids, g.free) => Exact(cnt', ids', free')
        /\ Home(g.cnt, g.ids) /\ SlotOf(IdOf(s, k)) = k => Home(cnt', ids')
    BY <2>1, <2>2, <2>5, Taken
  <2>7. body' \in [Slots' -> Objects \cup {NoObject}]
    BY <1>1, <2>1, <2>4 DEF TypeOK, Slots
  <2>8. answer' \in {"add"} \X Objects \X (Ids \cup {NoId})
    BY <2>1, <2>5
  <2>9. TypeOK'
    BY <2>1, <2>3, <2>6, <2>7, <2>8 DEF TypeOK, Table, Slots
  <2>10. cnt' < SlotSpan => cnt < SlotSpan /\ k < SlotSpan
    BY <1>1, <2>1, <2>2, <2>4, SMTT(40)
  <2> QED
    BY <2>2, <2>5, <2>6, <2>9, <2>10 DEF StockInv
<1>4. ASSUME NEW o \in Objects, AddFails(o) PROVE StockInv'
  BY <1>1, <1>4 DEF AddFails, StockInv, TypeOK, Slots
<1>5. ASSUME NEW i \in Ids \cup {NoId}, Get(i) PROVE StockInv'
  <2>1. Found(i) => body[SlotOf(i)] \in Objects \cup {NoObject}
    BY <1>1 DEF Found, TypeOK
  <2> QED
    BY <1>1, <1>5, <2>1 DEF Get, StockInv, TypeOK, Slots
<1>6. ASSUME NEW i \in Ids \cup {NoId}, Remove(i) PROVE StockInv'
  <2>1. CASE ~Found(i)
    <3>1. /\ cnt' = cnt /\ body' = body /\ seed' = seed /\ answer' = <<"remove", i, FALSE>>
          /\ free' = free /\ ids' = ids
      BY <1>6, <2>1 DEF Remove, Found
    <3>2. TypeOK'
      BY <1>1, <3>1 DEF TypeOK, Slots
    <3> QED
      BY <3>1, <3>2 DEF StockInv
  <2>2. CASE Found(i)
    <3>1. cnt' = cnt /\ body' = body /\ seed' = seed /\ answer' = <<"remove", i, TRUE>>
          /\ free' = Append(free, SlotOf(i)) /\ ids' = [ids EXCEPT ![SlotOf(i)] = NoId]
      BY <1>6, <2>2 DEF Remove
    <3>2. SlotOf(i) \in 0 .. cnt - 1 /\ ids[SlotOf(i)] = i
      BY <2>2 DEF Found, Slots
    <3>3. CASE i # NoId
      <4>1. /\ Table(cnt', ids', free')
            /\ Exact(cnt, ids, free) => Exact(cnt', ids', free')
            /\ Home(cnt, ids) => Home(cnt', ids')
        BY <1>1, <3>1, <3>2, <3>3, Given
      <4>2. TypeOK'
        BY <1>1, <3>1, <4>1 DEF TypeOK, Table, Slots
      <4> QED
        BY <3>1, <4>1, <4>2 DEF StockInv
    <3>4. CASE i = NoId
      \* Only a table that has the last slot of the span can find NoId.
      <4>1. ~(cnt < SlotSpan)
        BY <1>1, <3>2, <3>4 DEF SlotOf, NoId
      <4>2. free' \in Seq(0 .. cnt - 1) /\ ids' \in [0 .. cnt - 1 -> Ids \cup {NoId}]
        BY <1>1, <3>1, <3>2 DEF Table
      <4>3. TypeOK'
        BY <1>1, <3>1, <4>2 DEF TypeOK, Slots
      <4> QED
        BY <3>1, <4>1, <4>3 DEF StockInv
    <3> QED
      BY <3>3, <3>4
  <2> QED
    BY <2>1, <2>2
<1> QED
  BY <1>2, <1>3, <1>4, <1>5, <1>6 DEF Next

LEMMA StockInvariant == Spec => []StockInv
BY StockInvInit, StockInvStep, PTL DEF Spec

\* For every span, page size and number of serials, the variables keep their
\* types.
THEOREM StockTyped == Spec => []TypeOK
<1>1. StockInv => TypeOK
  BY DEF StockInv
<1> QED
  BY <1>1, StockInvariant, PTL

\* For every span, page size and number of serials, a table below the span has
\* each unused slot on the stack once (stock.h:100-121, 161-165).
THEOREM FreeStackExact == Spec => []FreeListExact
<1>1. StockInv => FreeListExact
  BY DEF StockInv, FreeListExact, Fits, Exact, Used, Slots
<1> QED
  BY <1>1, StockInvariant, PTL

\* For every span, page size and number of serials, a stored id of a table
\* below the span leads back to its slot (stock.h:123, 138, 160).
THEOREM IdsResolve == Spec => []IdsLeadHome
<1>1. StockInv => IdsLeadHome
  BY DEF StockInv, IdsLeadHome, Fits, Home, Used, Slots
<1> QED
  BY <1>1, StockInvariant, PTL

----------------------------------------------------------------------------
(* The table implements Registry.                                          *)

\* The map that a table of c slots with the ids d and the bodies b stands for.
View(c, d, b) == LET U == {k \in 0 .. c - 1 : d[k] # NoId}
                 IN  [i \in {d[k] : k \in U} |-> b[CHOOSE k \in U : d[k] = i]]

\* The map v has the ids of the used slots, each with the body of its slot.
Shows(v, c, d, b) == /\ v = [i \in DOMAIN v |-> v[i]]
                     /\ DOMAIN v = {d[k] : k \in {j \in 0 .. c - 1 : d[j] # NoId}}
                     /\ \A k \in 0 .. c - 1 : d[k] # NoId => v[d[k]] = b[k]

\* When ids name their slots, no two slots share one.
LEMMA ViewIs ==
  ASSUME NEW c, NEW d, NEW b, Home(c, d)
  PROVE  Shows(View(c, d, b), c, d, b)
<1> DEFINE U == {k \in 0 .. c - 1 : d[k] # NoId}
           slot(i) == CHOOSE k \in U : d[k] = i
<1>1. View(c, d, b) = [i \in {d[k] : k \in U} |-> b[slot(i)]]
  BY DEF View
<1>2. ASSUME NEW k \in U PROVE slot(d[k]) = k
  <2>1. slot(d[k]) \in U /\ d[slot(d[k])] = d[k]
    BY <1>2
  <2> HIDE DEF slot
  <2> QED
    BY <1>2, <2>1 DEF Home
<1> HIDE DEF slot
<1> QED
  BY <1>1, <1>2 DEF Shows

\* The same for an id: it is in the map if the table finds it.
LEMMA FoundIs ==
  ASSUME StockInv, Fits, NEW i \in Ids \cup {NoId}
  PROVE  /\ Live = View(cnt, ids, body)
         /\ i \in DOMAIN Live <=> Found(i)
         /\ Found(i) => Live[i] = body[SlotOf(i)] /\ i # NoId /\ SlotOf(i) \in 0 .. cnt - 1
<1>1. Live = View(cnt, ids, body)
  BY DEF Live, View, Used, Slots
<1>2. Home(cnt, ids) /\ cnt \in Nat /\ cnt < SlotSpan
  BY DEF StockInv, TypeOK, Fits
<1>3. ASSUME Found(i) PROVE i # NoId /\ SlotOf(i) \in 0 .. cnt - 1 /\ ids[SlotOf(i)] = i
  BY <1>2, <1>3 DEF Found, SlotOf, NoId, Slots
<1>4. /\ DOMAIN Live = {ids[k] : k \in {j \in 0 .. cnt - 1 : ids[j] # NoId}}
      /\ \A k \in 0 .. cnt - 1 : ids[k] # NoId => Live[ids[k]] = body[k]
  <2>1. Shows(Live, cnt, ids, body)
    BY <1>1, <1>2, ViewIs
  <2> QED
    BY <2>1 DEF Shows
<1>5. ASSUME i \in DOMAIN Live PROVE Found(i)
  <2>1. PICK k \in 0 .. cnt - 1 : ids[k] # NoId /\ ids[k] = i
    BY <1>4, <1>5
  <2>2. SlotOf(i) = k
    BY <1>2, <2>1 DEF Home
  <2> QED
    BY <2>1, <2>2 DEF Found, Slots
<1>6. ASSUME Found(i) PROVE i \in DOMAIN Live /\ Live[i] = body[SlotOf(i)]
  BY <1>3, <1>4, <1>6
<1> QED
  BY <1>1, <1>3, <1>5, <1>6

\* add() takes a free slot: its id denoted nothing.
LEMMA AddIs ==
  ASSUME StockInv, Fits, StockInv', Fits', NEW o \in Objects, Add(o)
  PROVE  R!Add(o)
<1> DEFINE g == Grown
           k == g.free[Len(g.free)]
           s == (seed + 1) % Serials
           i == IdOf(s, k)
<1>1. /\ HasRoom /\ cnt' = g.cnt /\ ids' = [g.ids EXCEPT ![k] = i]
      /\ body' = [j \in 0 .. g.cnt - 1 |-> IF j = k THEN o ELSE IF j < cnt THEN body[j] ELSE NoObject]
      /\ answer' = <<"add", o, i>>
  BY DEF Add
<1>2. Table(cnt, ids, free) /\ cnt \in Nat /\ cnt < SlotSpan /\ Home(cnt, ids) /\ Exact(cnt, ids, free)
  BY DEF StockInv, TypeOK, Table, Slots, Fits
<1>3. /\ Table(g.cnt, g.ids, g.free) /\ g.free # << >> /\ cnt =< g.cnt
      /\ \A j \in 0 .. cnt - 1 : g.ids[j] = ids[j]
      /\ Exact(g.cnt, g.ids, g.free) /\ Home(g.cnt, g.ids)
  BY <1>1, <1>2, GrownTable DEF Slots
<1>4. \A j \in 0 .. g.cnt - 1 : j >= cnt => g.ids[j] = NoId
  BY <1>2 DEF Grown, Table
<1> HIDE DEF g
<1>5. s \in 0 .. Serials - 1
  BY DEF StockInv, TypeOK
<1>6. k \in 0 .. g.cnt - 1 /\ g.cnt \in 0 .. MaxSlots /\ g.cnt < SlotSpan /\ Len(g.free) \in 1 .. Len(g.free)
  <2>1. g.cnt \in 0 .. MaxSlots /\ g.free \in Seq(0 .. g.cnt - 1) /\ g.free # << >>
    BY <1>3, Zenon DEF Table
  <2>2. Len(g.free) \in 1 .. Len(g.free)
    BY <2>1
  <2>3. k \in 0 .. g.cnt - 1
    <3>1. PICK n : n = Len(g.free)
      OBVIOUS
    <3>2. n \in 1 .. Len(g.free)
      BY <2>2, <3>1, Zenon
    <3>3. g.free[n] \in 0 .. g.cnt - 1
      BY <2>1, <3>2, ElementOfSeq
    <3> QED
      BY <3>1, <3>3, Zenon
  <2>4. g.cnt < SlotSpan
    BY <1>1 DEF Fits
  <2> QED
    BY <2>1, <2>2, <2>3, <2>4, Zenon
<1>7. g.ids[k] = NoId
  BY <1>3, <1>6 DEF Exact
<1>8. i \in Ids /\ SlotOf(i) = k
  BY <1>5, <1>6, IdOfTyped
<1> HIDE DEF i, k
<1>9. i # NoId
  BY <1>8, IdIsNotNoId
<1>10. ids'[k] = i /\ \A j \in 0 .. g.cnt - 1 : j # k => ids'[j] = g.ids[j]
  BY <1>1, <1>3, <1>6 DEF Table
<1>11. Home(cnt', ids')
  BY DEF StockInv, Fits
<1>12. i \notin DOMAIN Live
  <2>1. ~Found(i)
    <3> SUFFICES ASSUME Found(i) PROVE FALSE
      OBVIOUS
    <3>1. k \in 0 .. cnt - 1 /\ ids[k] = i
      BY <1>8 DEF Found, Slots
    <3> QED
      BY <1>3, <1>7, <1>9, <3>1
  <2> QED
    BY <1>8, <2>1, FoundIs
<1> DEFINE L == Live
           M == View(cnt', ids', body')
<1> HIDE DEF L, M
<1>13. /\ L = [j \in DOMAIN L |-> L[j]]
       /\ DOMAIN L = {ids[j] : j \in {n \in 0 .. cnt - 1 : ids[n] # NoId}}
       /\ \A j \in 0 .. cnt - 1 : ids[j] # NoId => L[ids[j]] = body[j]
  <2>1. Live = View(cnt, ids, body)
    BY DEF Live, View, Used, Slots
  <2>2. Shows(L, cnt, ids, body)
    BY <1>2, <2>1, ViewIs DEF L
  <2> QED
    BY <2>2 DEF Shows
<1>14. /\ M = [j \in DOMAIN M |-> M[j]]
       /\ DOMAIN M = {ids'[j] : j \in {n \in 0 .. cnt' - 1 : ids'[n] # NoId}}
       /\ \A j \in 0 .. cnt' - 1 : ids'[j] # NoId => M[ids'[j]] = body'[j]
  <2>1. Shows(M, cnt', ids', body')
    BY <1>11, ViewIs DEF M
  <2> QED
    BY <2>1 DEF Shows
<1>15. Live' = M
  BY DEF Live, View, Used, Slots, M
<1>16. DOMAIN M = DOMAIN L \cup {i}
  <2>1. ASSUME NEW x \in DOMAIN L PROVE x \in DOMAIN M
    <3>1. PICK j \in 0 .. cnt - 1 : ids[j] # NoId /\ x = ids[j]
      BY <1>13, <2>1
    <3>2. j \in 0 .. g.cnt - 1 /\ j # k /\ ids'[j] = x
      BY <1>2, <1>3, <1>6, <1>7, <1>10, <3>1
    <3> QED
      BY <1>1, <1>14, <3>1, <3>2
  <2>2. i \in DOMAIN M
    BY <1>1, <1>6, <1>9, <1>10, <1>14
  <2>3. ASSUME NEW x \in DOMAIN M, x # i PROVE x \in DOMAIN L
    <3>1. PICK j \in 0 .. g.cnt - 1 : ids'[j] # NoId /\ x = ids'[j]
      BY <1>1, <1>14, <2>3
    <3>2. j # k /\ g.ids[j] = x
      BY <1>10, <2>3, <3>1
    <3>3. j \in 0 .. cnt - 1
      BY <1>2, <1>4, <1>6, <3>1, <3>2
    <3> QED
      BY <1>3, <1>13, <3>1, <3>2, <3>3
  <2> QED
    BY <2>1, <2>2, <2>3
<1>17. M[i] = o
  BY <1>1, <1>6, <1>9, <1>10, <1>14
<1>18. ASSUME NEW x \in DOMAIN L PROVE M[x] = L[x]
  <2>1. PICK j \in 0 .. cnt - 1 : ids[j] # NoId /\ x = ids[j]
    BY <1>13, <1>18
  <2>2. j \in 0 .. g.cnt - 1 /\ j # k /\ ids'[j] = x
    BY <1>2, <1>3, <1>6, <1>7, <1>10, <2>1
  <2>3. body'[j] = body[j]
    BY <1>1, <1>2, <2>1, <2>2
  <2>4. M[x] = body'[j]
    BY <1>1, <1>14, <2>1, <2>2
  <2>5. L[x] = body[j]
    BY <1>13, <2>1
  <2> QED
    BY <2>3, <2>4, <2>5
<1>19. M = [j \in DOMAIN L \cup {i} |-> IF j = i THEN o ELSE L[j]]
  <2>1. i \notin DOMAIN L
    BY <1>12 DEF L
  <2> QED
    BY <1>14, <1>16, <1>17, <1>18, <2>1
<1>20. i \in Ids \ DOMAIN L
  BY <1>8, <1>12 DEF L
<1> QED
  BY <1>1, <1>15, <1>19, <1>20 DEF R!Add, L

\* remove() frees the id it was given, and no other.
LEMMA RemoveIs ==
  ASSUME StockInv, Fits, StockInv', NEW i \in Ids \cup {NoId}, Remove(i)
  PROVE  R!Remove(i)
<1>1. Home(cnt, ids) /\ cnt \in Nat /\ ids \in [0 .. cnt - 1 -> Ids \cup {NoId}] /\ Live = View(cnt, ids, body)
      /\ (i \in DOMAIN Live <=> Found(i))
  BY FoundIs DEF StockInv, TypeOK, Fits, Slots
<1>2. answer' = <<"remove", i, Found(i)>> /\ cnt' = cnt /\ body' = body
  BY DEF Remove
<1>3. Home(cnt', ids')
  BY <1>2 DEF StockInv, Fits
<1>4. Live' = View(cnt, ids', body)
  BY <1>2 DEF Live, View, Used, Slots
<1> DEFINE L == View(cnt, ids, body)
           M == View(cnt, ids', body)
<1> HIDE DEF L, M
<1>5. /\ L = [j \in DOMAIN L |-> L[j]]
      /\ DOMAIN L = {ids[j] : j \in {n \in 0 .. cnt - 1 : ids[n] # NoId}}
      /\ \A j \in 0 .. cnt - 1 : ids[j] # NoId => L[ids[j]] = body[j]
  <2>1. Shows(L, cnt, ids, body)
    BY <1>1, ViewIs DEF L
  <2> QED
    BY <2>1 DEF Shows
<1>6. /\ M = [j \in DOMAIN M |-> M[j]]
      /\ DOMAIN M = {ids'[j] : j \in {n \in 0 .. cnt - 1 : ids'[n] # NoId}}
      /\ \A j \in 0 .. cnt - 1 : ids'[j] # NoId => M[ids'[j]] = body[j]
  <2>1. Shows(M, cnt, ids', body)
    <3>1. Home(cnt, ids')
      BY <1>2, <1>3
    <3> QED
      BY <3>1, ViewIs DEF M
  <2> QED
    BY <2>1 DEF Shows
<1>7. M = [j \in DOMAIN L \ {i} |-> L[j]]
  <2>1. CASE ~Found(i)
    <3>1. ids' = ids /\ i \notin DOMAIN L
      BY <1>1, <2>1 DEF Remove, L
    <3>2. M = L
      BY <3>1 DEF L, M
    <3> QED
      BY <1>5, <3>1, <3>2
  <2>2. CASE Found(i)
    <3> DEFINE k == SlotOf(i)
    <3>1. k \in 0 .. cnt - 1 /\ ids[k] = i /\ i # NoId
      BY <2>2, FoundIs DEF Found
    <3>2. ids' = [ids EXCEPT ![k] = NoId]
      BY <2>2 DEF Remove
    <3> HIDE DEF k
    <3>3. ids'[k] = NoId /\ \A j \in 0 .. cnt - 1 : j # k => ids'[j] = ids[j]
      BY <1>1, <3>1, <3>2
    <3>4. \A j \in 0 .. cnt - 1 : j # k => ids[j] # i
      BY <1>1, <3>1 DEF Home
    <3>5. DOMAIN M = DOMAIN L \ {i}
      BY <1>5, <1>6, <3>1, <3>3, <3>4
    <3>6. ASSUME NEW x \in DOMAIN M PROVE M[x] = L[x]
      <4>1. PICK j \in 0 .. cnt - 1 : ids'[j] # NoId /\ x = ids'[j]
        BY <1>6, <3>6
      <4>2. ids[j] = x
        BY <3>3, <4>1
      <4> QED
        BY <1>5, <1>6, <4>1, <4>2
    <3> QED
      BY <1>6, <3>5, <3>6
  <2> QED
    BY <2>1, <2>2
<1>8. Live' = [j \in DOMAIN Live \ {i} |-> Live[j]]
  BY <1>1, <1>4, <1>7 DEF L, M
<1>9. answer' = <<"remove", i, i \in DOMAIN Live>>
  <2>1. CASE Found(i)
    <3>1. (i \in DOMAIN Live) = TRUE /\ Found(i) = TRUE
      BY <1>1, <2>1 DEF Found
    <3> QED
      BY <1>2, <3>1
  <2>2. CASE ~Found(i)
    <3>1. (i \in DOMAIN Live) = FALSE /\ Found(i) = FALSE
      BY <1>1, <2>2 DEF Found
    <3> QED
      BY <1>2, <3>1
  <2> QED
    BY <2>1, <2>2
<1> QED
  BY <1>8, <1>9 DEF R!Remove

LEMMA RegistryStep ==
  ASSUME StockInv, Fits, StockInv', Fits', [Next]_vars
  PROVE  [R!Next]_R!vars
<1>1. ASSUME NEW o \in Objects, Add(o) PROVE R!Next
  BY <1>1, AddIs DEF R!Next
<1>2. ASSUME UNCHANGED <<cnt, ids, body>> PROVE Live' = Live
  BY <1>2 DEF Live, Used, Slots
<1>3. ASSUME NEW o \in Objects, AddFails(o) PROVE R!Next
  <2>1. R!Refuse(o)
    BY <1>2, <1>3 DEF AddFails, R!Refuse
  <2> QED
    BY <2>1 DEF R!Next
<1>4. ASSUME NEW i \in Ids \cup {NoId}, Get(i) PROVE R!Next
  <2>1. Live' = Live
    BY <1>2, <1>4 DEF Get
  <2>2. answer' = <<"get", i, IF i \in DOMAIN Live THEN Live[i] ELSE NoObject>>
    BY <1>4, FoundIs DEF Get
  <2>3. R!Get(i)
    BY <2>1, <2>2 DEF R!Get
  <2> QED
    BY <2>3 DEF R!Next
<1>5. ASSUME NEW i \in Ids \cup {NoId}, Remove(i) PROVE R!Next
  BY <1>5, RemoveIs DEF R!Next
<1>6. CASE UNCHANGED vars
  BY <1>2, <1>6 DEF vars, R!vars
<1> QED
  BY <1>1, <1>3, <1>4, <1>5, <1>6 DEF Next

\* A table that keeps below the span of an id is the map it promises to be
\* (stock.h:7-11): add() gives an object an id that denotes nothing else, get()
\* finds an object by its own id alone, and remove() frees that id only; in
\* whatever order slots are freed and taken, and however often serials wrap.
THEOREM StockIsRegistry == Spec /\ []Fits => IsRegistry
<1>1. ASSUME Init PROVE R!Init
  <2>1. Live = [i \in {} |-> NoObject]
    <3>1. Used = {}
      BY <1>1 DEF Init, Used, Slots
    <3> QED
      BY <3>1 DEF Live
  <2> QED
    BY <1>1, <2>1 DEF Init, R!Init
<1>2. StockInv /\ Fits /\ StockInv' /\ Fits' /\ [Next]_vars => [R!Next]_R!vars
  BY RegistryStep
<1> QED
  BY <1>1, <1>2, StockInvariant, PTL DEF Spec, IsRegistry, R!Spec

----------------------------------------------------------------------------
(* Serial numbers.                                                         *)

\* The serial number of the id that was handed out j ids before the last one.
Earlier(j) == IF j <= seed THEN seed - j ELSE seed - j + Serials

\* While the slots fit, the history is the run of serial numbers up to the last.
Running == /\ recent \in Seq(Ids) /\ Len(recent) <= Serials - 1
           /\ cnt < SlotSpan => \A n \in 1 .. Len(recent) : recent[n][1] = Earlier(Len(recent) - n)

LEMMA NextSerial == \A s \in 0 .. Serials - 1 : (s + 1) % Serials = IF s + 1 = Serials THEN 0 ELSE s + 1
OBVIOUS

\* What add() does to the serial number and the history.
LEMMA AddDoes ==
  ASSUME StockInv, Running, NEW o \in Objects, Add(o), Remember
  PROVE  /\ answer'[3] \in Ids /\ cnt <= cnt' /\ cnt' \in Nat
         /\ seed' = IF seed + 1 = Serials THEN 0 ELSE seed + 1
         /\ cnt' < SlotSpan => answer'[3][1] = seed'
         /\ LET r == Append(recent, answer'[3])
            IN  recent' = SubSeq(r, IF Len(r) < Serials THEN 1 ELSE 2, Len(r))
<1> DEFINE g == Grown
           k == g.free[Len(g.free)]
           s == (seed + 1) % Serials
<1>1. HasRoom /\ cnt' = g.cnt /\ seed' = s /\ answer' = <<"add", o, IdOf(s, k)>>
  BY DEF Add
<1>2. Table(cnt, ids, free) /\ cnt \in Nat
  BY DEF StockInv, TypeOK, Table, Slots
<1>3. Table(g.cnt, g.ids, g.free) /\ g.free # << >> /\ cnt =< g.cnt
  BY <1>1, <1>2, GrownTable
<1> HIDE DEF g
<1>4. s = (IF seed + 1 = Serials THEN 0 ELSE seed + 1) /\ s \in 0 .. Serials - 1
  BY NextSerial DEF StockInv, TypeOK
<1> HIDE DEF s
<1>5. k \in 0 .. g.cnt - 1 /\ g.cnt \in 0 .. MaxSlots
  BY <1>3 DEF Table
<1> HIDE DEF k
<1>6. IdOf(s, k) \in Ids /\ (k < SlotSpan => IdOf(s, k)[1] = s)
  <2>1. MaxSlots \in Nat /\ k \in 0 .. MaxSlots - 1
    BY <1>5, StockAssumption
  <2>2. IdOf(s, k) \in Ids
    BY <1>4, <2>1, IdOfTyped
  <2>3. k < SlotSpan => IdOf(s, k) = <<s, k>>
    BY DEF IdOf
  <2> QED
    BY <2>2, <2>3
<1>7. g.cnt < SlotSpan => k < SlotSpan
  BY <1>5
<1>8. LET r == Append(recent, answer'[3])
      IN  recent' = SubSeq(r, IF Len(r) < Serials THEN 1 ELSE 2, Len(r))
  BY DEF Remember
<1> QED
  BY <1>1, <1>3, <1>4, <1>5, <1>6, <1>7, <1>8, StockAssumption

LEMMA RunningStep ==
  ASSUME StockInv, Running, [MCNext]_<<vars, recent>>
  PROVE  Running'
<1>1. CASE UNCHANGED <<vars, recent>>
  BY <1>1 DEF Running, Earlier, vars
<1>2. CASE Next /\ Remember /\ ~(\E o \in Objects : Add(o))
  <2>1. recent' = recent
    BY <1>2 DEF Remember
  <2>2. cnt' = cnt /\ seed' = seed
    BY <1>2 DEF Next, AddFails, Get, Remove
  <2> QED
    BY <2>1, <2>2 DEF Running, Earlier
<1>3. CASE Remember /\ \E o \in Objects : Add(o)
  <2> DEFINE i == answer'[3]
             r == Append(recent, i)
             m == IF Len(r) < Serials THEN 1 ELSE 2
  <2>1. /\ i \in Ids /\ cnt <= cnt' /\ cnt \in Nat /\ cnt' \in Nat
        /\ seed' = IF seed + 1 = Serials THEN 0 ELSE seed + 1
        /\ cnt' < SlotSpan => i[1] = seed'
        /\ recent' = SubSeq(r, m, Len(r))
    BY <1>3, AddDoes DEF StockInv, TypeOK
  <2>2. recent \in Seq(Ids) /\ Len(recent) \in Nat /\ Len(recent) <= Serials - 1
    BY LenProperties DEF Running
  <2> HIDE DEF i
  <2>3. /\ r \in Seq(Ids) /\ Len(r) = Len(recent) + 1
        /\ \A n \in 1 .. Len(recent) : r[n] = recent[n]
        /\ r[Len(recent) + 1] = i
    BY <2>1, <2>2, AppendProperties
  <2> HIDE DEF r
  <2>4. m \in {1, 2} /\ (Len(r) < Serials => m = 1) /\ (Len(r) = Serials => m = 2)
    BY <2>2, <2>3
  <2>5. \A n \in m .. Len(r) : r[n] \in Ids
    BY <2>2, <2>3, <2>4, ElementOfSeq
  <2> HIDE DEF m
  <2>6. /\ recent' \in Seq(Ids) /\ Len(recent') = (IF m <= Len(r) THEN Len(r) - m + 1 ELSE 0)
        /\ \A n \in 1 .. Len(r) - m + 1 : recent'[n] = r[m + n - 1]
    <3>1. m \in Int /\ Len(r) \in Int
      BY <2>2, <2>3, <2>4
    <3> QED
      BY <2>1, <2>5, <3>1, SubSeqProperties
  <2>7. Len(recent') <= Serials - 1 /\ Len(recent') = Len(r) - m + 1
    BY <2>2, <2>3, <2>4, <2>6
  <2>8. ASSUME cnt' < SlotSpan, NEW n \in 1 .. Len(recent')
        PROVE  recent'[n][1] = IF Len(recent') - n <= seed' THEN seed' - (Len(recent') - n)
                               ELSE seed' - (Len(recent') - n) + Serials
    <3>1. seed \in 0 .. Serials - 1 /\ cnt < SlotSpan /\ i[1] = seed'
      <4>1. cnt < SlotSpan
        BY <2>1, <2>8, StockAssumption
      <4> QED
        BY <2>1, <2>8, <4>1 DEF StockInv, TypeOK
    <3> DEFINE k == m + n - 1
    <3>2. k \in 1 .. Len(r) /\ recent'[n] = r[k] /\ Len(recent') - n = Len(r) - k
      BY <2>2, <2>3, <2>4, <2>6, <2>7
    <3>3. CASE k = Len(r)
      <4>1. seed' \in Nat
        BY <2>1, <3>1, StockAssumption
      <4>2. recent'[n][1] = seed' /\ Len(recent') - n = 0
        BY <2>2, <2>3, <3>1, <3>2, <3>3
      <4> QED
        BY <4>1, <4>2
    <3>4. CASE k # Len(r)
      <4>1. k \in 1 .. Len(recent) /\ r[k] = recent[k]
        BY <2>2, <2>3, <3>2, <3>4
      <4>2. recent[k][1] = Earlier(Len(recent) - k)
        BY <3>1, <4>1 DEF Running
      <4> HIDE DEF k
      <4>3. Len(recent') - n = Len(recent) - k + 1 /\ Len(recent) - k \in 0 .. Serials - 2
        BY <2>2, <2>3, <3>2, <4>1
      <4> DEFINE j == Len(recent) - k
      <4>4. recent'[n][1] = (IF j <= seed THEN seed - j ELSE seed - j + Serials) /\ j \in 0 .. Serials - 2
            /\ Len(recent') - n = j + 1
        BY <3>2, <4>1, <4>2, <4>3 DEF Earlier
      <4> HIDE DEF j
      <4>5. recent'[n][1] = IF j + 1 <= seed' THEN seed' - (j + 1) ELSE seed' - (j + 1) + Serials
        BY <2>1, <3>1, <4>4, StockAssumption
      <4> QED
        BY <4>4, <4>5
    <3> QED
      BY <3>3, <3>4
  <2> QED
    BY <2>6, <2>7, <2>8 DEF Running, Earlier
<1> QED
  BY <1>1, <1>2, <1>3 DEF MCNext

LEMMA RunningAlways == MCSpec => [](StockInv /\ Running)
<1>1. MCInit => StockInv /\ Running
  <2> SUFFICES ASSUME MCInit PROVE StockInv /\ Running
    OBVIOUS
  <2>1. StockInv
    BY StockInvInit DEF MCInit
  <2>2. recent = << >> /\ << >> \in Seq(Ids) /\ Len(<< >>) = 0
    BY EmptySeq DEF MCInit
  <2> QED
    BY <2>1, <2>2 DEF Running
<1>2. ASSUME StockInv, Running, [MCNext]_<<vars, recent>> PROVE StockInv' /\ Running'
  <2>1. [Next]_vars
    BY <1>2 DEF MCNext
  <2> QED
    BY <1>2, <2>1, StockInvStep, RunningStep
<1> QED
  BY <1>1, <1>2, PTL DEF MCSpec

\* A stale id stays stale: for every number of serials, Serials - 1 objects are
\* stored before an id comes again (stock.h:119-123), in whatever order slots
\* are freed and taken in the meantime, as long as the slots fit.
THEOREM IdsNotReused == MCSpec => NoEarlyReuse
<1> DEFINE Fresh == cnt' < SlotSpan /\ recent' # recent => answer'[3] \notin {recent[n] : n \in 1 .. Len(recent)}
<1>1. ASSUME StockInv, Running, [MCNext]_<<vars, recent>> PROVE [Fresh]_<<vars, recent>>
  <2> SUFFICES ASSUME cnt' < SlotSpan, recent' # recent, NEW n \in 1 .. Len(recent)
               PROVE  answer'[3] # recent[n]
    OBVIOUS
  <2>1. PICK o \in Objects : Add(o) /\ Remember
    BY <1>1 DEF MCNext, Remember
  <2>2. answer'[3][1] = seed' /\ cnt < SlotSpan /\ seed' = (IF seed + 1 = Serials THEN 0 ELSE seed + 1)
        /\ seed \in 0 .. Serials - 1
    <3>1. /\ cnt <= cnt' /\ cnt' \in Nat
          /\ cnt' < SlotSpan => answer'[3][1] = seed'
          /\ seed' = IF seed + 1 = Serials THEN 0 ELSE seed + 1
      BY <1>1, <2>1, AddDoes
    <3>2. seed \in 0 .. Serials - 1 /\ cnt \in Int
      BY <1>1 DEF StockInv, TypeOK
    <3> QED
      BY <3>1, <3>2, StockAssumption
  <2>3. Len(recent) \in Nat /\ Len(recent) <= Serials - 1
    BY <1>1, LenProperties DEF Running
  <2>4. recent[n][1] = Earlier(Len(recent) - n)
    BY <1>1, <2>2 DEF Running
  <2>5. Earlier(Len(recent) - n) # seed'
    BY <2>2, <2>3 DEF Earlier
  <2> QED
    BY <2>2, <2>4, <2>5
<1> QED
  BY <1>1, RunningAlways, PTL DEF MCSpec, NoEarlyReuse

HIDE StockAssumption
USE StartAssumption

----------------------------------------------------------------------------
(* rascal_init.                                                            *)

\* Where a caller can be.
Places == {"idle", "store", "dns", "port", "threads", "watcher"}

StartTyped ==
  /\ port \in {"bsd", "nt"} /\ policy \in Policies /\ readonly \in BOOLEAN
  /\ at \in [Callers -> Places] /\ asked \in [Callers -> Policies \cup {"none"}]
  /\ rc \in [Callers -> {"none", "REC_SUCCESS", "error"}]
  /\ running \in Nat /\ raced \in BOOLEAN /\ failed \in BOOLEAN
  /\ \A c \in Callers : at[c] # "idle" => asked[c] \in Policies

\* A part that comes before the workers, or is the workers.
Ahead(p) == p = "threads" \/ (port = "bsd" /\ p = "dns") \/ (port = "nt" /\ p = "port")

\* Nobody passes the option before it is set.
Gate == IF readonly THEN TRUE
        ELSE running = 0 /\ \A c \in Callers : at[c] \in {"idle", "store"} /\ rc[c] # "REC_SUCCESS"

\* While no part failed, somebody will yet see to the workers that the policy
\* asks for: on BSD only a caller that passed this very policy.
Attended ==
  readonly /\ ~failed =>
    \/ policy = "manual" \/ running > 0
    \/ \E c \in Callers : Ahead(at[c]) /\ (port = "bsd" => asked[c] = policy)

Limit == IF port = "nt" /\ policy = "multi" THEN Processors ELSE 1

\* Unless two callers passed the test together there is one in rascal_init at a
\* time, and no second one once the option is set.
Alone ==
  ~raced =>
    /\ \A c, d \in Callers : at[c] # "idle" /\ at[d] # "idle" => c = d
    /\ readonly => \A c \in Callers : at[c] # "store"
    /\ running <= Limit
    /\ \A c \in Callers : Ahead(at[c]) => running = 0
    /\ \A c \in Callers : port = "bsd" /\ Ahead(at[c]) => asked[c] = policy

StartInv == StartTyped /\ Gate /\ Attended /\ Alone

\* The part that follows part p, where "idle" is the end.
Follows(p, q) ==
  IF port = "bsd" THEN (p = "store" /\ q = "dns") \/ (p = "dns" /\ q = "threads") \/ (p = "threads" /\ q = "idle")
  ELSE \/ (p = "store" /\ q = "port") \/ (p = "port" /\ q = "threads") \/ (p = "threads" /\ q = "watcher")
       \/ (p = "watcher" /\ q = "dns") \/ (p = "dns" /\ q = "idle")

\* Caller c goes to q; at the end it is given the code.
Moves(c, q, code) == /\ at' = [at EXCEPT ![c] = q]
                     /\ rc' = IF q = "idle" THEN [rc EXCEPT ![c] = code] ELSE rc

LEMMA PassesMoves ==
  ASSUME StartTyped, NEW c \in Callers, NEW part \in Places, Passes(c, part)
  PROVE  at[c] = part /\ \E q \in Places : Follows(part, q) /\ Moves(c, q, "REC_SUCCESS")
<1>1. PICK k \in 1 .. Len(Parts) - 1 :
        /\ Parts[k] = part
        /\ IF Parts[k + 1] = "end" THEN Returns(c, "REC_SUCCESS")
           ELSE at' = [at EXCEPT ![c] = Parts[k + 1]] /\ UNCHANGED rc
  BY DEF Passes
<1> DEFINE q == IF Parts[k + 1] = "end" THEN "idle" ELSE Parts[k + 1]
<1>2. q \in Places /\ Follows(part, q) /\ (q = "idle" <=> Parts[k + 1] = "end")
  <2>1. CASE port = "bsd"
    <3>1. Parts = <<"store", "dns", "threads", "end">>
      BY <2>1 DEF Parts
    <3>2. k \in 1 .. 3 /\ Parts[k] = part
      BY <1>1, <3>1
    <3> QED
      BY <2>1, <3>1, <3>2 DEF Follows, Places
  <2>2. CASE port = "nt"
    <3>1. Parts = <<"store", "port", "threads", "watcher", "dns", "end">>
      BY <2>2 DEF Parts
    <3>2. k \in 1 .. 5 /\ Parts[k] = part
      BY <1>1, <3>1
    <3> QED
      BY <2>2, <3>1, <3>2 DEF Follows, Places
  <2> QED
    BY <2>1, <2>2 DEF StartTyped
<1>3. Moves(c, q, "REC_SUCCESS")
  <2>1. CASE Parts[k + 1] = "end"
    BY <1>1, <2>1 DEF Moves, Returns
  <2>2. CASE Parts[k + 1] # "end"
    BY <1>1, <1>2, <2>2 DEF Moves
  <2> QED
    BY <2>1, <2>2
<1>4. at[c] = part
  BY DEF Passes
<1> HIDE DEF q
<1> QED
  BY <1>2, <1>3, <1>4

LEMMA StartInvInit == StartInit => StartInv
<1> SUFFICES ASSUME StartInit PROVE StartInv
  OBVIOUS
<1> USE DEF StartInit
<1>1. StartTyped
  BY DEF StartTyped, Places, Policies
<1>2. Gate /\ Attended
  BY DEF Gate, Attended
<1>3. Alone
  BY DEF Alone, Limit, Ahead
<1> QED
  BY <1>1, <1>2, <1>3 DEF StartInv

\* A caller passes the test of the option, or is told that it ran before.
LEMMA ClaimStep ==
  ASSUME StartInv, NEW c \in Callers, NEW p \in Policies, Claim(c, p)
  PROVE  StartInv'
<1> USE DEF StartInv
<1>1. CASE readonly
  <2>1. /\ at' = at /\ UNCHANGED <<asked, raced, port, policy, readonly, running, failed>>
        /\ rc' = [rc EXCEPT ![c] = "REC_SUCCESS"]
    <3>1. at[c] = "idle" /\ at' = [at EXCEPT ![c] = "idle"] /\ UNCHANGED <<asked, raced>>
          /\ rc' = [rc EXCEPT ![c] = "REC_SUCCESS"]
      BY <1>1 DEF Claim, Returns
    <3>2. at' = at
      BY <3>1 DEF StartTyped
    <3> QED
      BY <3>1, <3>2 DEF Claim
  <2>2. StartTyped'
    BY <2>1 DEF StartTyped
  <2>3. Gate'
    BY <1>1, <2>1 DEF Gate
  <2>4. Attended' /\ Alone'
    BY <2>1 DEF Attended, Alone, Ahead, Limit
  <2> QED
    BY <2>2, <2>3, <2>4
<1>2. CASE ~readonly
  <2>1. /\ at' = [at EXCEPT ![c] = "store"] /\ asked' = [asked EXCEPT ![c] = p]
        /\ raced' = (raced \/ \E d \in Callers : at[d] = "store")
        /\ at[c] = "idle" /\ UNCHANGED <<rc, port, policy, readonly, running, failed>>
    BY <1>2 DEF Claim
  <2>2. StartTyped'
    <3>1. raced' \in BOOLEAN
      BY <2>1 DEF StartTyped
    <3> QED
      BY <2>1, <3>1 DEF StartTyped, Places
  <2>3. Gate'
    BY <1>2, <2>1 DEF Gate, StartTyped
  <2>4. Attended'
    BY <1>2, <2>1 DEF Attended
  <2>5. Alone'
    <3> SUFFICES ASSUME ~raced' PROVE Alone'
      BY DEF Alone
    <3>1. \A d \in Callers : at[d] = "idle"
      BY <1>2, <2>1 DEF Gate
    <3>2. \A d \in Callers : at'[d] = IF d = c THEN "store" ELSE "idle"
      BY <2>1, <3>1 DEF StartTyped
    <3>3. running' = 0 /\ ~readonly' /\ Limit' \in Nat
      BY <1>2, <2>1 DEF Gate, Limit
    <3> QED
      BY <3>2, <3>3 DEF Alone, Ahead
  <2> QED
    BY <2>2, <2>3, <2>4, <2>5
<1> QED
  BY <1>1, <1>2 DEF StartTyped

\* The option is set to what its caller asked for.
LEMMA StoreStep ==
  ASSUME StartInv, NEW c \in Callers, Store(c)
  PROVE  StartInv'
<1> USE DEF StartInv
<1>1. /\ at[c] = "store" /\ policy' = asked[c] /\ readonly' = TRUE
      /\ UNCHANGED <<port, asked, running, raced, failed>>
  BY DEF Store, Passes
<1>2. PICK q \in Places : Follows("store", q) /\ Moves(c, q, "REC_SUCCESS")
  BY PassesMoves DEF Store, Places
<1>3. q # "idle" /\ Ahead(q) /\ q # "store"
  BY <1>2 DEF Follows, Ahead, StartTyped
<1>4. at' = [at EXCEPT ![c] = q] /\ rc' = rc
  BY <1>2, <1>3 DEF Moves
<1>5. StartTyped'
  BY <1>1, <1>4 DEF StartTyped, Places
<1>6. Gate'
  BY <1>1 DEF Gate
<1>7. Attended'
  <2>1. at'[c] = q /\ asked'[c] = policy' /\ port' = port
    BY <1>1, <1>4 DEF StartTyped
  <2> QED
    BY <1>3, <2>1 DEF Attended, Ahead
<1>8. Alone'
  <2> SUFFICES ASSUME ~raced' PROVE Alone'
    BY DEF Alone
  <2>1. ~raced /\ ~readonly /\ running = 0
    BY <1>1 DEF Alone, Gate
  <2>2. \A d \in Callers : at'[d] = IF d = c THEN q ELSE "idle"
    BY <1>1, <1>4, <2>1 DEF Alone, StartTyped
  <2>3. running' = 0 /\ Limit' \in Nat /\ asked'[c] = policy'
    BY <1>1, <2>1 DEF Limit
  <2> QED
    BY <1>3, <2>2, <2>3 DEF Alone, Ahead
<1> QED
  BY <1>5, <1>6, <1>7, <1>8

\* A caller that set the option goes on to part q, or leaves with a code.
LEMMA OnwardStep ==
  ASSUME StartInv, NEW c \in Callers, NEW q \in Places \ {"store"}, NEW code \in {"REC_SUCCESS", "error"},
         at[c] \notin {"idle", "store"}, Moves(c, q, code),
         UNCHANGED <<port, policy, readonly, asked, raced>>,
         running' \in Nat, failed' \in BOOLEAN, failed => failed',
         Ahead(q) => Ahead(at[c]),
         running' = running \/ (Ahead(at[c]) /\ ~Ahead(q) /\ running' <= running + Limit),
         running <= running',
         failed' \/ ~Ahead(at[c]) \/ Ahead(q) \/ running' > 0 \/ policy = "manual"
                 \/ (port = "bsd" /\ asked[c] # policy)
  PROVE  StartInv'
<1> USE DEF StartInv
<1>1. at' = [at EXCEPT ![c] = q] /\ \A d \in Callers : at'[d] = IF d = c THEN q ELSE at[d]
  BY DEF Moves, StartTyped
<1>2. rc' \in [Callers -> {"none", "REC_SUCCESS", "error"}]
  BY DEF Moves, StartTyped
<1>3. StartTyped'
  BY <1>1, <1>2 DEF StartTyped
<1>4. readonly
  BY DEF Gate
<1>5. Gate'
  BY <1>4 DEF Gate
<1>6. Attended'
  <2> SUFFICES ASSUME ~failed', policy # "manual", ~(running' > 0)
               PROVE  \E d \in Callers : Ahead(at'[d]) /\ (port = "bsd" => asked[d] = policy)
    BY DEF Attended, Ahead
  <2>1. PICK d \in Callers : Ahead(at[d]) /\ (port = "bsd" => asked[d] = policy)
    <3>1. ~(running > 0)
      BY DEF StartTyped
    <3> QED
      BY <1>4, <3>1 DEF Attended
  <2>2. CASE d = c
    BY <1>1, <2>1, <2>2
  <2>3. CASE d # c
    BY <1>1, <2>1, <2>3
  <2> QED
    BY <2>2, <2>3
<1>7. Alone'
  <2> SUFFICES ASSUME ~raced PROVE Alone'
    BY DEF Alone
  <2>1. \A d \in Callers : at[d] = IF d = c THEN at[c] ELSE "idle"
    BY DEF Alone
  <2>2. \A d \in Callers : at'[d] = IF d = c THEN q ELSE "idle"
    BY <1>1, <2>1
  <2>3. Limit' = Limit /\ Limit \in Nat /\ ~Ahead("idle") /\ (\A p : Ahead(p)' <=> Ahead(p))
    BY DEF Limit, Ahead
  <2>4. running' <= Limit'
    BY <2>3 DEF Alone, StartTyped
  <2>5. Ahead(q) => running' = 0 /\ (port = "bsd" => asked[c] = policy)
    BY DEF Alone
  <2>6. \A d \in Callers : Ahead(at'[d]) => running' = 0 /\ (port = "bsd" => asked[d] = policy)
    BY <2>2, <2>3, <2>5
  <2>7. \A d \in Callers : (Ahead(at[d])' => running' = 0) /\ (port' = "bsd" /\ Ahead(at[d])' => asked'[d] = policy')
    BY <2>6 DEF Ahead
  <2>8. /\ \A d, e \in Callers : at'[d] # "idle" /\ at'[e] # "idle" => d = e
        /\ \A d \in Callers : at'[d] # "store"
    BY <2>2
  <2> QED
    BY <2>4, <2>7, <2>8 DEF Alone
<1> QED
  BY <1>3, <1>5, <1>6, <1>7

\* Who fails leaves.
LEMMA FailsStep ==
  ASSUME StartInv, NEW c \in Callers, NEW part \in Places \ {"idle", "store"}, Fails(c, part),
         UNCHANGED <<port, policy, readonly, asked, raced, running>>
  PROVE  StartInv'
<1>1. at[c] = part /\ Moves(c, "idle", "error") /\ failed' = TRUE
  BY DEF Fails, Returns, Moves
<1>2. ~Ahead("idle") /\ running \in Nat /\ failed \in BOOLEAN /\ "idle" \in Places \ {"store"}
  BY DEF Ahead, StartInv, StartTyped, Places
<1> QED
  BY <1>1, <1>2, OnwardStep

\* A part is done that is not the workers.
LEMMA PassesStep ==
  ASSUME StartInv, NEW c \in Callers, NEW part \in Places \ {"idle", "store", "threads"}, Passes(c, part),
         UNCHANGED <<port, policy, readonly, asked, raced, running, failed>>
  PROVE  StartInv'
<1>1. PICK q \in Places : at[c] = part /\ Follows(part, q) /\ Moves(c, q, "REC_SUCCESS")
  BY PassesMoves DEF StartInv
<1>2. q # "store" /\ (Ahead(q) <=> Ahead(part))
  BY <1>1 DEF Follows, Ahead, StartInv, StartTyped
<1>3. running \in Nat /\ failed \in BOOLEAN
  BY DEF StartInv, StartTyped
<1> QED
  BY <1>1, <1>2, <1>3, OnwardStep

LEMMA PortStep ==
  ASSUME StartInv, NEW c \in Callers, Port(c)
  PROVE  StartInv'
<1>1. UNCHANGED <<port, policy, readonly, asked, raced, running>> /\ "port" \in Places \ {"idle", "store", "threads"}
  BY DEF Port, Places
<1>2. CASE Passes(c, "port") /\ UNCHANGED failed
  BY <1>1, <1>2, PassesStep
<1>3. CASE Fails(c, "port")
  BY <1>1, <1>3, FailsStep
<1>4. CASE at[c] = "port" /\ at' = [at EXCEPT ![c] = "watcher"] /\ failed' = TRUE /\ UNCHANGED rc
  <2>1. Moves(c, "watcher", "error") /\ "watcher" \in Places \ {"store"} /\ ~Ahead("watcher")
    BY <1>4 DEF Moves, Places, Ahead
  <2>2. running \in Nat
    BY DEF StartInv, StartTyped
  <2> QED
    BY <1>1, <1>4, <2>1, <2>2, OnwardStep
<1> QED
  BY <1>2, <1>3, <1>4 DEF Port

LEMMA ThreadsStep ==
  ASSUME StartInv, NEW c \in Callers, Threads(c)
  PROVE  StartInv'
<1>1. UNCHANGED <<port, policy, readonly, asked, raced>> /\ "threads" \in Places \ {"idle", "store"}
  BY DEF Threads, Places
<1>2. CASE Fails(c, "threads") /\ UNCHANGED running
  BY <1>1, <1>2, FailsStep
<1>3. CASE /\ Passes(c, "threads") /\ UNCHANGED failed
           /\ (Wanted(c) = "manual" /\ UNCHANGED running) \/ \E n \in 1 .. Most(c) : running' = running + n
  <2>1. PICK q \in Places : at[c] = "threads" /\ Follows("threads", q) /\ Moves(c, q, "REC_SUCCESS")
    BY <1>1, <1>3, PassesMoves DEF StartInv
  <2>2. q # "store" /\ ~Ahead(q) /\ Ahead("threads")
    BY <2>1 DEF Follows, Ahead, StartInv, StartTyped
  <2>3. running \in Nat /\ failed \in BOOLEAN
    BY DEF StartInv, StartTyped
  <2>4. CASE Wanted(c) = "manual" /\ UNCHANGED running
    <3>1. policy = "manual" \/ (port = "bsd" /\ asked[c] # policy)
      BY <2>4 DEF Wanted
    <3> QED
      BY <1>1, <1>3, <2>1, <2>2, <2>3, <2>4, <3>1, OnwardStep
  <2>5. CASE \E n \in 1 .. Most(c) : running' = running + n
    <3>1. Most(c) = Limit /\ Limit \in Nat
      BY DEF Most, Limit
    <3>2. running' \in Nat /\ running' > 0 /\ running <= running' /\ running' <= running + Limit
      BY <2>3, <2>5, <3>1
    <3> QED
      BY <1>1, <1>3, <2>1, <2>2, <2>3, <3>2, OnwardStep
  <2> QED
    BY <1>3, <2>4, <2>5
<1> QED
  BY <1>2, <1>3 DEF Threads

LEMMA StartInvStep ==
  ASSUME StartInv, [StartNext]_startVars
  PROVE  StartInv'
<1>1. CASE UNCHANGED startVars
  <2> USE <1>1 DEF startVars, StartInv
  <2>1. StartTyped'
    BY DEF StartTyped
  <2>2. Gate' /\ Attended' /\ Alone'
    BY DEF Gate, Attended, Alone, Ahead, Limit
  <2> QED
    BY <2>1, <2>2
<1>2. ASSUME NEW c \in Callers, Dns(c) PROVE StartInv'
  BY <1>2, PassesStep, FailsStep DEF Dns, Places
<1>3. ASSUME NEW c \in Callers, Watcher(c) PROVE StartInv'
  BY <1>3, PassesStep, FailsStep DEF Watcher, Places
<1> QED
  BY <1>1, <1>2, <1>3, ClaimStep, StoreStep, PortStep, ThreadsStep DEF StartNext

LEMMA StartInvariant == StartSpec => []StartInv
BY StartInvInit, StartInvStep, PTL DEF StartSpec

\* The library is started once, by however many callers, on a machine with any
\* number of processors (bsd/rascal_init.cc:19-77, nt/rascal_init.cc:63-84):
\* when they all have left rascal_init, and one was told REC_SUCCESS, a worker
\* runs unless the policy is that there is none; and there are never more than
\* the policy allows.  Except after a part failed, or two passed the test of
\* the option together (rascal_options.cc:31-34).
THEOREM StartIsOnce == StartSpec => []StartedOnce
<1>1. StartInv => StartedOnce
  <2> SUFFICES ASSUME StartInv PROVE StartedOnce
    OBVIOUS
  <2> USE DEF StartInv
  <2>1. raced \/ running <= Limit
    BY DEF Alone
  <2>2. ASSUME \A c \in Callers : at[c] = "idle", \E c \in Callers : rc[c] = "REC_SUCCESS", ~failed
        PROVE  policy = "manual" \/ running > 0
    BY <2>2 DEF Gate, Attended, Ahead
  <2> QED
    BY <2>1, <2>2 DEF StartedOnce, Limit
<1> QED
  BY <1>1, StartInvariant, PTL

----------------------------------------------------------------------------
(* Datagrams.                                                              *)

Arrivals == [from : {"peer", "nothing", "stranger", "error"}, n : Nat]

Worker == [pc : {"idle", "select", "read", "error", "report", "write", "failed"},
           ready : SUBSET {"read", "write"}, success : BOOLEAN]

DgTyped ==
  /\ dg \in Worker
  /\ socket \in Seq(Arrivals) /\ came \in Nat
  /\ rd \in Seq(Nat) /\ got \in Seq(Nat) /\ wr \in Seq(Nat) /\ gone \in Seq(Nat)
  /\ told \in Nat /\ written \in Nat /\ closes \in Nat /\ ended \in BOOLEAN

\* What the application read, with what waits behind it, counts up from one.
Counts(front, back) == /\ \A i \in 1 .. Len(front) : front[i] = i
                       /\ \A i \in 1 .. Len(back) : back[i] = Len(front) + i

\* The socket s holds the datagrams of the peer after number a, up to number b.
Holds(s, a, b) ==
  /\ a <= b
  /\ \A k \in 1 .. Len(s) : s[k].from = "peer" => s[k].n \in a + 1 .. b
  /\ \A v \in a + 1 .. b : \E k \in 1 .. Len(s) : s[k].from = "peer" /\ s[k].n = v
  /\ \A j, k \in 1 .. Len(s) : s[j].from = "peer" /\ s[k].from = "peer" /\ j < k => s[j].n < s[k].n

\* What was read is announced, unless the worker is about to do so.
Announced == told = Len(got) + Len(rd) \/ dg.pc = "report" \/ (dg.pc = "error" /\ dg.success)

OneClose == closes <= 1 /\ (closes = 1 => ended) /\ (dg.pc \in {"error", "failed"} => closes = 0)

DgInv == /\ DgTyped /\ Counts(got, rd) /\ Holds(socket, Len(got) + Len(rd), came)
         /\ Counts(gone, wr) /\ Len(gone) + Len(wr) = written
         /\ Announced /\ OneClose

\* Induction, for a set.
LEMMA Induction ==
  ASSUME NEW T, T \subseteq Nat, 0 \in T, \A n \in T : n + 1 \in T
  PROVE  T = Nat
<1> SUFFICES ASSUME Nat \ T # {} PROVE FALSE
  OBVIOUS
<1> DEFINE Less == OpToRel(<, Nat)
<1>1. \A x, y \in Nat : y < x => <<y, x>> \in Less
  BY DEF OpToRel
<1>2. IsWellFoundedOn(Less, Nat)
  BY NatLessThanWellFounded
<1> HIDE DEF Less
<1>3. PICK x \in Nat \ T : \A y \in Nat \ T : ~(<<y, x>> \in Less)
  BY <1>2, WFMin
<1>4. x # 0 /\ x - 1 \in Nat /\ x - 1 < x
  BY <1>3
<1>5. x - 1 \in T
  BY <1>1, <1>3, <1>4
<1> QED
  BY <1>3, <1>4, <1>5

\* The datagrams of a run are the next ones, in order.
LEMMA RunCounts ==
  ASSUME NEW s \in Seq(Arrivals), NEW a \in Nat, NEW b \in Nat, Holds(s, a, b),
         NEW k \in 0 .. Len(s), \A i \in 1 .. k : s[i].from = "peer"
  PROVE  \A i \in 1 .. k : s[i].n = a + i
<1> DEFINE T == {m \in Nat : m + 1 <= k => s[m + 1].n = a + m + 1}
<1>0. Len(s) \in Nat
  BY LenProperties
<1>1. \A i \in 1 .. k : i \in 1 .. Len(s) /\ s[i].n \in a + 1 .. b
  BY <1>0 DEF Holds
<1>2. \A v \in a + 1 .. b : \E j \in 1 .. Len(s) : s[j].from = "peer" /\ s[j].n = v
  BY DEF Holds
<1>3. \A j \in 1 .. Len(s), i \in 1 .. k : s[j].from = "peer" =>
        (j < i => s[j].n < s[i].n) /\ (i < j => s[i].n < s[j].n)
  BY <1>1 DEF Holds
<1>4. 0 \in T
  <2> SUFFICES ASSUME 1 <= k PROVE s[1].n = a + 1
    OBVIOUS
  <2>1. 1 \in 1 .. k
    OBVIOUS
  <2>2. s[1].n \in a + 1 .. b
    BY <1>1, <2>1
  <2>a. a + 1 \in a + 1 .. b
    <3>1. PICK x : x = s[1].n
      OBVIOUS
    <3>2. x \in a + 1 .. b
      BY <2>2, <3>1, Zenon
    <3> QED
      BY <3>2
  <2>3. PICK j \in 1 .. Len(s) : s[j].from = "peer" /\ s[j].n = a + 1
    BY <1>2, <2>a, Zenon
  <2>4. ~(1 < j)
    BY <1>3, <2>1, <2>2, <2>3
  <2>5. j = 1
    BY <1>0, <2>3, <2>4
  <2> QED
    BY <2>3, <2>5
<1>5. \A m \in T : m + 1 \in T
  <2> SUFFICES ASSUME NEW m \in Nat, m + 1 <= k => s[m + 1].n = a + m + 1, m + 2 <= k
               PROVE  s[m + 2].n = a + m + 2
    OBVIOUS
  <2>1. m + 1 \in 1 .. k /\ m + 2 \in 1 .. k /\ s[m + 1].n = a + m + 1
    OBVIOUS
  <2>2. s[m + 2].n \in a + 1 .. b /\ s[m + 1].n < s[m + 2].n
    BY <1>1, <1>3, <2>1
  <2>3. PICK j \in 1 .. Len(s) : s[j].from = "peer" /\ s[j].n = a + m + 2
    <3> DEFINE x == s[m + 2].n
    <3>1. x \in a + 1 .. b /\ a + m + 1 < x
      BY <2>1, <2>2
    <3> HIDE DEF x
    <3>2. a + m + 2 \in a + 1 .. b
      BY <3>1
    <3> QED
      BY <1>2, <3>2
  <2>4. ~(m + 2 < j)
    <3> SUFFICES ASSUME m + 2 < j PROVE FALSE
      OBVIOUS
    <3>1. s[m + 2].n < a + m + 2
      BY <1>3, <2>1, <2>3
    <3> DEFINE x == s[m + 2].n
    <3>2. x \in Int /\ a + m + 1 < x /\ x < a + m + 2
      BY <2>1, <2>2, <3>1
    <3> HIDE DEF x
    <3> QED
      BY <3>2
  <2>5. ~(j < m + 1) /\ j # m + 1
    <3>1. j < m + 1 => s[j].n < s[m + 1].n
      BY <1>3, <2>1, <2>3
    <3>2. ~(s[j].n < s[m + 1].n) /\ s[j].n # s[m + 1].n
      BY <2>1, <2>3
    <3> QED
      BY <3>1, <3>2
  <2>6. j = m + 2
    BY <1>0, <2>3, <2>4, <2>5
  <2> QED
    BY <2>3, <2>6
<1>6. T = Nat
  <2>1. T \subseteq Nat
    OBVIOUS
  <2> HIDE DEF T
  <2> QED
    BY <1>4, <1>5, <2>1, Induction
<1>7. ASSUME NEW i \in 1 .. k PROVE s[i].n = a + i
  <2>0. i - 1 \in Nat /\ (i - 1) + 1 = i /\ i <= k
    BY <1>0
  <2>1. i - 1 \in T /\ (i - 1) + 1 = i /\ i <= k
    BY <1>6, <2>0
  <2>2. s[(i - 1) + 1].n = a + (i - 1) + 1
    BY <2>1
  <2> QED
    BY <2>1, <2>2
<1> QED
  BY <1>7

\* After a run of k datagrams, and the arrival that ended it, the rest is left.
LEMMA RunLeaves ==
  ASSUME NEW s \in Seq(Arrivals), NEW a \in Nat, NEW b \in Nat, Holds(s, a, b),
         NEW k \in 0 .. Len(s), \A i \in 1 .. k : s[i].from = "peer",
         k + 1 <= Len(s) => s[k + 1].from # "peer"
  PROVE  SubSeq(s, k + 2, Len(s)) \in Seq(Arrivals) /\ Holds(SubSeq(s, k + 2, Len(s)), a + k, b)
<1> DEFINE r == SubSeq(s, k + 2, Len(s))
<1>1. Len(s) \in Nat /\ k \in Nat
  BY LenProperties
<1>2. \A i \in k + 2 .. Len(s) : s[i] \in Arrivals
  BY <1>1, ElementOfSeq
<1>3. /\ r \in Seq(Arrivals) /\ Len(r) = (IF k + 2 <= Len(s) THEN Len(s) - k - 1 ELSE 0)
      /\ \A i \in 1 .. Len(s) - k - 1 : r[i] = s[k + 1 + i]
  <2>1. k + 2 \in Int /\ Len(s) \in Int
    BY <1>1
  <2>2. /\ r \in Seq(Arrivals) /\ Len(r) = (IF k + 2 <= Len(s) THEN Len(s) - (k + 2) + 1 ELSE 0)
        /\ \A i \in 1 .. Len(s) - (k + 2) + 1 : r[i] = s[k + 2 + i - 1]
    BY <1>2, <2>1, SubSeqProperties
  <2> HIDE DEF r
  <2> QED
    BY <1>1, <2>2
<1> HIDE DEF r
<1>4. \A i \in 1 .. k : s[i].n = a + i
  BY RunCounts
<1>5. \A i \in 1 .. Len(r) : r[i] = s[k + 1 + i] /\ k + 1 + i \in 1 .. Len(s)
  BY <1>1, <1>3
<1>6. \A j \in 1 .. Len(s) : s[j].from = "peer" /\ k < j => j - k - 1 \in 1 .. Len(r) /\ r[j - k - 1] = s[j]
  <2> SUFFICES ASSUME NEW j \in 1 .. Len(s), s[j].from = "peer", k < j
               PROVE  j - k - 1 \in 1 .. Len(r) /\ r[j - k - 1] = s[j]
    OBVIOUS
  <2>1. j # k + 1
    BY <1>1
  <2>2. j - k - 1 \in 1 .. Len(r) /\ k + 1 + (j - k - 1) = j
    BY <1>1, <1>3, <2>1
  <2> QED
    BY <1>5, <2>2
<1>7. a + k <= b
  <2>1. CASE k = 0
    BY <1>1, <2>1 DEF Holds
  <2>2. CASE k # 0
    BY <1>1, <1>4, <2>2 DEF Holds
  <2> QED
    BY <2>1, <2>2
<1>8. ASSUME NEW i \in 1 .. Len(r), r[i].from = "peer"
      PROVE  r[i].n \in a + k + 1 .. b
  <2>1. s[k + 1 + i].from = "peer" /\ k + 1 + i \in 1 .. Len(s) /\ r[i].n = s[k + 1 + i].n
    BY <1>5, <1>8
  <2>2. s[k + 1 + i].n \in a + 1 .. b
    BY <2>1 DEF Holds
  <2>3. k # 0 => a + k < s[k + 1 + i].n
    BY <1>1, <1>4, <2>1 DEF Holds
  <2> QED
    BY <1>1, <2>1, <2>2, <2>3
<1>9. ASSUME NEW v \in a + k + 1 .. b
      PROVE  \E i \in 1 .. Len(r) : r[i].from = "peer" /\ r[i].n = v
  <2>a. v \in a + 1 .. b
    BY <1>1
  <2>1. PICK j \in 1 .. Len(s) : s[j].from = "peer" /\ s[j].n = v
    BY <2>a, Zenon DEF Holds
  <2>2. k < j
    BY <1>1, <1>4, <2>1
  <2> QED
    BY <1>6, <2>1, <2>2
<1>10. ASSUME NEW i \in 1 .. Len(r), NEW j \in 1 .. Len(r), r[i].from = "peer", r[j].from = "peer", i < j
       PROVE  r[i].n < r[j].n
  <2>1. k + 1 + i < k + 1 + j /\ k + 1 + i \in 1 .. Len(s) /\ k + 1 + j \in 1 .. Len(s)
    BY <1>1, <1>5, <1>10
  <2>2. r[i] = s[k + 1 + i] /\ r[j] = s[k + 1 + j]
    BY <1>5
  <2>3. s[k + 1 + i].from = "peer" /\ s[k + 1 + j].from = "peer"
    BY <1>10, <2>2
  <2>4. s[k + 1 + i].n < s[k + 1 + j].n
    BY <2>1, <2>3 DEF Holds
  <2> QED
    BY <2>2, <2>4
<1>11. Holds(r, a + k, b)
  <2>1. \A i \in 1 .. Len(r) : r[i].from = "peer" => r[i].n \in a + k + 1 .. b
    BY <1>8
  <2>2. \A v \in a + k + 1 .. b : \E i \in 1 .. Len(r) : r[i].from = "peer" /\ r[i].n = v
    BY <1>9
  <2>3. \A i, j \in 1 .. Len(r) : r[i].from = "peer" /\ r[j].from = "peer" /\ i < j => r[i].n < r[j].n
    BY <1>10
  <2> QED
    BY <1>7, <2>1, <2>2, <2>3 DEF Holds
<1> QED
  BY <1>3, <1>11 DEF r

\* One is queued.
LEMMA CountsPut ==
  ASSUME NEW f \in Seq(Nat), NEW w \in Seq(Nat), Counts(f, w), NEW n, n = Len(f) + Len(w) + 1
  PROVE  /\ Append(w, n) \in Seq(Nat) /\ Len(Append(w, n)) = Len(w) + 1
         /\ Counts(f, Append(w, n))
<1>1. Len(f) \in Nat /\ Len(w) \in Nat /\ n \in Nat
  BY LenProperties
<1>2. /\ Append(w, n) \in Seq(Nat) /\ Len(Append(w, n)) = Len(w) + 1
      /\ \A i \in 1 .. Len(w) : Append(w, n)[i] = w[i]
      /\ Append(w, n)[Len(w) + 1] = n
  BY <1>1, AppendProperties
<1>3. \A i \in 1 .. Len(w) + 1 : Append(w, n)[i] = Len(f) + i
  BY <1>1, <1>2 DEF Counts
<1> QED
  BY <1>2, <1>3 DEF Counts

\* One is taken.
LEMMA CountsTake ==
  ASSUME NEW f \in Seq(Nat), NEW w \in Seq(Nat), Counts(f, w), w # << >>
  PROVE  /\ Append(f, Head(w)) \in Seq(Nat) /\ Tail(w) \in Seq(Nat)
         /\ Len(Append(f, Head(w))) + Len(Tail(w)) = Len(f) + Len(w)
         /\ Counts(Append(f, Head(w)), Tail(w))
<1>1. Len(f) \in Nat /\ Len(w) \in Nat \ {0} /\ Head(w) = w[1]
  BY LenProperties, EmptySeq
<1>2. Head(w) = Len(f) + 1 /\ Head(w) \in Nat
  BY <1>1 DEF Counts
<1>3. /\ Append(f, Head(w)) \in Seq(Nat) /\ Len(Append(f, Head(w))) = Len(f) + 1
      /\ \A i \in 1 .. Len(f) : Append(f, Head(w))[i] = f[i]
      /\ Append(f, Head(w))[Len(f) + 1] = Head(w)
  BY <1>2, AppendProperties
<1>4. /\ Tail(w) \in Seq(Nat) /\ Len(Tail(w)) = Len(w) - 1
      /\ \A i \in 1 .. Len(Tail(w)) : Tail(w)[i] = w[i + 1]
  BY HeadTailProperties
<1>5. \A i \in 1 .. Len(f) + 1 : Append(f, Head(w))[i] = i
  BY <1>1, <1>2, <1>3 DEF Counts
<1>6. \A i \in 1 .. Len(w) - 1 : Tail(w)[i] = Len(f) + 1 + i
  BY <1>1, <1>4 DEF Counts
<1> QED
  BY <1>1, <1>3, <1>4, <1>5, <1>6 DEF Counts

\* The first k leave.
LEMMA CountsMove ==
  ASSUME NEW f \in Seq(Nat), NEW w \in Seq(Nat), Counts(f, w), NEW k \in 0 .. Len(w)
  PROVE  /\ f \o SubSeq(w, 1, k) \in Seq(Nat) /\ SubSeq(w, k + 1, Len(w)) \in Seq(Nat)
         /\ Len(f \o SubSeq(w, 1, k)) + Len(SubSeq(w, k + 1, Len(w))) = Len(f) + Len(w)
         /\ Counts(f \o SubSeq(w, 1, k), SubSeq(w, k + 1, Len(w)))
<1> DEFINE h == SubSeq(w, 1, k)
           r == SubSeq(w, k + 1, Len(w))
           g == f \o h
<1>1. Len(f) \in Nat /\ Len(w) \in Nat /\ k \in Nat /\ \A i \in 1 .. Len(w) : w[i] \in Nat
  BY LenProperties, ElementOfSeq
<1>2. h \in Seq(Nat) /\ Len(h) = k /\ \A i \in 1 .. k : h[i] = w[i]
  <2>1. \A i \in 1 .. k : w[i] \in Nat
    BY <1>1
  <2>2. /\ h \in Seq(Nat) /\ Len(h) = (IF 1 <= k THEN k - 1 + 1 ELSE 0)
        /\ \A i \in 1 .. k - 1 + 1 : h[i] = w[1 + i - 1]
    BY <1>1, <2>1, SubSeqProperties
  <2> HIDE DEF h
  <2> QED
    BY <1>1, <2>2
<1>3. r \in Seq(Nat) /\ Len(r) = Len(w) - k /\ \A i \in 1 .. Len(w) - k : r[i] = w[k + i]
  <2>1. \A i \in k + 1 .. Len(w) : w[i] \in Nat
    BY <1>1
  <2>2. k + 1 \in Int /\ Len(w) \in Int
    BY <1>1
  <2>3. /\ r \in Seq(Nat) /\ Len(r) = (IF k + 1 <= Len(w) THEN Len(w) - (k + 1) + 1 ELSE 0)
        /\ \A i \in 1 .. Len(w) - (k + 1) + 1 : r[i] = w[k + 1 + i - 1]
    BY <2>1, <2>2, SubSeqProperties
  <2> HIDE DEF r
  <2> QED
    BY <1>1, <2>3
<1> HIDE DEF h, r
<1>4. /\ g \in Seq(Nat) /\ Len(g) = Len(f) + k
      /\ \A i \in 1 .. Len(f) + k : g[i] = IF i <= Len(f) THEN f[i] ELSE h[i - Len(f)]
  BY <1>2, ConcatProperties
<1> HIDE DEF g
<1>5. ASSUME NEW i \in 1 .. Len(f) + k PROVE g[i] = i
  <2>1. CASE i <= Len(f)
    BY <1>1, <1>4, <2>1 DEF Counts
  <2>2. CASE ~(i <= Len(f))
    <3>1. i - Len(f) \in 1 .. k /\ i - Len(f) \in 1 .. Len(w) /\ Len(f) + (i - Len(f)) = i
      BY <1>1, <2>2
    <3>2. g[i] = w[i - Len(f)]
      BY <1>2, <1>4, <2>2, <3>1
    <3> QED
      BY <3>1, <3>2 DEF Counts
  <2> QED
    BY <2>1, <2>2
<1>6. \A i \in 1 .. Len(w) - k : r[i] = Len(f) + k + i
  BY <1>1, <1>3 DEF Counts
<1>7. Counts(g, r) /\ Len(g) + Len(r) = Len(f) + Len(w)
  BY <1>1, <1>3, <1>4, <1>5, <1>6 DEF Counts
<1> QED
  BY <1>3, <1>4, <1>7 DEF g, h, r

\* A run of the socket joins the buffer.
LEMMA CountsRun ==
  ASSUME NEW f \in Seq(Nat), NEW w \in Seq(Nat), Counts(f, w), NEW s \in Seq(Arrivals), NEW k \in 0 .. Len(s),
         \A i \in 1 .. k : s[i].n = Len(f) + Len(w) + i
  PROVE  LET d == w \o Datagrams(SubSeq(s, 1, k)) IN
         d \in Seq(Nat) /\ Len(d) = Len(w) + k /\ Counts(f, d)
<1> DEFINE h == SubSeq(s, 1, k)
           e == Datagrams(h)
           d == w \o e
<1>1. Len(f) \in Nat /\ Len(w) \in Nat /\ Len(s) \in Nat /\ k \in Nat /\ \A i \in 1 .. Len(s) : s[i] \in Arrivals
  BY LenProperties, ElementOfSeq
<1>2. Len(h) = k /\ \A i \in 1 .. k : h[i] = s[i]
  <2>1. \A i \in 1 .. k : s[i] \in Arrivals
    BY <1>1
  <2>2. /\ Len(h) = (IF 1 <= k THEN k - 1 + 1 ELSE 0)
        /\ \A i \in 1 .. k - 1 + 1 : h[i] = s[1 + i - 1]
    BY <1>1, <2>1, SubSeqProperties
  <2> HIDE DEF h
  <2> QED
    BY <1>1, <2>2
<1> HIDE DEF h
<1>3. e \in Seq(Nat) /\ Len(e) = k /\ \A i \in 1 .. k : e[i] = Len(f) + Len(w) + i
  <2>1. e = [i \in 1 .. k |-> Len(f) + Len(w) + i]
    BY <1>2 DEF Datagrams
  <2> HIDE DEF e
  <2> QED
    BY <1>1, <2>1
<1> HIDE DEF e
<1>4. /\ d \in Seq(Nat) /\ Len(d) = Len(w) + k
      /\ \A i \in 1 .. Len(w) + k : d[i] = IF i <= Len(w) THEN w[i] ELSE e[i - Len(w)]
  BY <1>3, ConcatProperties
<1> HIDE DEF d
<1>5. ASSUME NEW i \in 1 .. Len(w) + k PROVE d[i] = Len(f) + i
  <2>1. CASE i <= Len(w)
    <3>1. i \in 1 .. Len(w) /\ d[i] = w[i]
      BY <1>1, <1>4, <2>1
    <3> QED
      BY <3>1 DEF Counts
  <2>2. CASE ~(i <= Len(w))
    <3>1. i - Len(w) \in 1 .. k /\ Len(f) + Len(w) + (i - Len(w)) = Len(f) + i
      BY <1>1, <2>2
    <3> QED
      BY <1>3, <1>4, <2>2, <3>1
  <2> QED
    BY <2>1, <2>2
<1>6. d \in Seq(Nat) /\ Len(d) = Len(w) + k /\ Counts(f, d)
  BY <1>4, <1>5 DEF Counts
<1> QED
  BY <1>6 DEF d, e, h

\* An arrival is put last.
LEMMA HoldsArrival ==
  ASSUME NEW s \in Seq(Arrivals), NEW a \in Nat, NEW b \in Nat, Holds(s, a, b), NEW x \in Arrivals
  PROVE  /\ Append(s, x) \in Seq(Arrivals)
         /\ x.from # "peer" => Holds(Append(s, x), a, b)
         /\ x.from = "peer" /\ x.n = b + 1 => Holds(Append(s, x), a, b + 1)
<1> DEFINE r == Append(s, x)
<1>1. Len(s) \in Nat
  BY LenProperties
<1>2. /\ r \in Seq(Arrivals) /\ Len(r) = Len(s) + 1 /\ r[Len(s) + 1] = x
      /\ \A i \in 1 .. Len(s) : r[i] = s[i]
  BY AppendProperties
<1> HIDE DEF r
<1>3. \A i \in 1 .. Len(r) : i \in 1 .. Len(s) \/ i = Len(s) + 1
  BY <1>1, <1>2
<1>4. \A i \in 1 .. Len(s) : i \in 1 .. Len(r) /\ i < Len(s) + 1
  BY <1>1, <1>2
<1>5. ASSUME x.from # "peer" PROVE Holds(r, a, b)
  <2>1. \A i \in 1 .. Len(r) : r[i].from = "peer" => i \in 1 .. Len(s) /\ r[i] = s[i]
    BY <1>2, <1>3, <1>5
  <2>2. \A i \in 1 .. Len(r) : r[i].from = "peer" => r[i].n \in a + 1 .. b
    BY <2>1 DEF Holds
  <2>3. \A v \in a + 1 .. b : \E i \in 1 .. Len(r) : r[i].from = "peer" /\ r[i].n = v
    BY <1>2, <1>4 DEF Holds
  <2>4. \A i, j \in 1 .. Len(r) : r[i].from = "peer" /\ r[j].from = "peer" /\ i < j => r[i].n < r[j].n
    BY <2>1 DEF Holds
  <2> QED
    BY <2>2, <2>3, <2>4 DEF Holds
<1>6. ASSUME x.from = "peer", x.n = b + 1 PROVE Holds(r, a, b + 1)
  <2>1. \A i \in 1 .. Len(s) : r[i].from = "peer" => r[i].n \in a + 1 .. b
    BY <1>2 DEF Holds
  <2>2. \A i \in 1 .. Len(r) : r[i].from = "peer" => r[i].n \in a + 1 .. b + 1
    <3> SUFFICES ASSUME NEW i \in 1 .. Len(r), r[i].from = "peer" PROVE r[i].n \in a + 1 .. b + 1
      OBVIOUS
    <3>1. CASE i \in 1 .. Len(s)
      BY <2>1, <3>1
    <3>2. CASE i = Len(s) + 1
      BY <1>2, <1>6, <3>2 DEF Holds
    <3> QED
      BY <1>3, <3>1, <3>2
  <2>3. ASSUME NEW v \in a + 1 .. b + 1 PROVE \E i \in 1 .. Len(r) : r[i].from = "peer" /\ r[i].n = v
    <3>1. CASE v = b + 1
      <4>1. Len(s) + 1 \in 1 .. Len(r)
        BY <1>1, <1>2
      <4> QED
        BY <1>2, <1>6, <3>1, <4>1
    <3>2. CASE v # b + 1
      <4>1. v \in a + 1 .. b
        BY <3>2
      <4> QED
        BY <1>2, <1>4, <4>1 DEF Holds
    <3> QED
      BY <3>1, <3>2
  <2>4. ASSUME NEW i \in 1 .. Len(r), NEW j \in 1 .. Len(r), r[i].from = "peer", r[j].from = "peer", i < j
        PROVE  r[i].n < r[j].n
    <3>1. i \in 1 .. Len(s)
      BY <1>1, <1>2, <2>4
    <3>2. CASE j \in 1 .. Len(s)
      BY <1>2, <2>4, <3>1, <3>2 DEF Holds
    <3>3. CASE j = Len(s) + 1
      <4>1. r[i].n \in a + 1 .. b /\ r[j].n = b + 1
        BY <1>2, <1>6, <2>1, <2>4, <3>1, <3>3
      <4> QED
        BY <4>1
    <3> QED
      BY <1>3, <3>2, <3>3
  <2>5. a <= b + 1
    BY DEF Holds
  <2> QED
    BY <2>2, <2>3, <2>4, <2>5 DEF Holds
<1> QED
  BY <1>2, <1>5, <1>6 DEF r

LEMMA DgInvInit == DgInit => DgInv
<1> SUFFICES ASSUME DgInit PROVE DgInv
  OBVIOUS
<1>1. << >> \in Seq(Nat) /\ << >> \in Seq(Arrivals) /\ Len(<< >>) = 0
  BY EmptySeq
<1>2. DgTyped
  BY <1>1 DEF DgInit, DgTyped, Worker
<1>3. Counts(got, rd) /\ Counts(gone, wr)
  BY <1>1 DEF DgInit, Counts
<1>4. Holds(socket, Len(got) + Len(rd), came)
  BY <1>1 DEF DgInit, Holds
<1>5. Announced /\ OneClose /\ Len(gone) + Len(wr) = written
  BY <1>1 DEF DgInit, Announced, OneClose
<1> QED
  BY <1>2, <1>3, <1>4, <1>5 DEF DgInv

LEMMA Going ==
  ASSUME NEW d \in Worker, NEW p \in {"idle", "select", "read", "error", "report", "write", "failed"}
  PROVE  [d EXCEPT !.pc = p] \in Worker /\ [d EXCEPT !.pc = p].pc = p
         /\ [d EXCEPT !.pc = p].success = d.success
BY DEF Worker

\* The worker goes from one step to another, and touches no data.
LEMMA WorkerSteps ==
  ASSUME DgInv, DgPick \/ DgSelect \/ ReadError \/ Report \/ WriteError \/ DgCancel
  PROVE  DgInv'
<1> USE DEF DgInv
<1>1. UNCHANGED <<socket, came, rd, got, wr, gone, written>>
  BY DEF DgPick, DgSelect, ReadError, Report, WriteError, DgCancel
<1>2. Len(got) \in Nat /\ Len(rd) \in Nat
  BY LenProperties DEF DgTyped
<1>3. /\ Counts(got, rd)' /\ Holds(socket, Len(got) + Len(rd), came)'
      /\ Counts(gone, wr)' /\ (Len(gone) + Len(wr) = written)'
  BY <1>1
<1>4. CASE DgPick
  <2>1. DgTyped'
    BY <1>1, <1>4 DEF DgPick, DgTyped, Worker
  <2>2. Announced' /\ OneClose'
    BY <1>1, <1>4 DEF DgPick, Announced, OneClose
  <2> QED
    BY <1>3, <2>1, <2>2
<1>5. CASE DgSelect
  <2>1. PICK r \in SUBSET {"read", "write"} : dg' = [dg EXCEPT !.pc = "read", !.ready = r]
    BY <1>5 DEF DgSelect, DgTyped, Worker
  <2>2. DgTyped'
    <3>1. dg' \in Worker
      BY <2>1 DEF DgTyped, Worker
    <3> QED
      BY <1>1, <1>5, <3>1 DEF DgSelect, DgTyped
  <2>3. dg.pc = "select" /\ dg'.pc = "read"
    BY <1>5, <2>1 DEF DgSelect, DgTyped, Worker
  <2>4. Announced' /\ OneClose'
    BY <1>1, <1>5, <2>3 DEF DgSelect, Announced, OneClose
  <2> QED
    BY <1>3, <2>2, <2>4
<1>6. CASE ReadError
  <2>1. /\ dg.pc = "error" /\ dg' = [dg EXCEPT !.pc = IF dg.success THEN "report" ELSE "write"]
        /\ closes' = closes + 1 /\ ended' = TRUE /\ told' = told
    BY <1>6 DEF ReadError, Goes
  <2>2. dg' \in Worker /\ dg'.success = dg.success
        /\ dg'.pc = (IF dg.pc = "error" /\ dg.success THEN "report" ELSE IF dg.pc = "error" THEN "write" ELSE "idle")
    <3> DEFINE p == IF dg.success THEN "report" ELSE "write"
    <3>1. p \in {"idle", "select", "read", "error", "report", "write", "failed"} /\ dg' = [dg EXCEPT !.pc = p] /\ dg \in Worker
      BY <2>1 DEF DgTyped
    <3> HIDE DEF p
    <3>2. /\ [dg EXCEPT !.pc = p] \in Worker /\ [dg EXCEPT !.pc = p].pc = p
          /\ [dg EXCEPT !.pc = p].success = dg.success
      BY <3>1, Going
    <3>3. dg' \in Worker /\ dg'.success = dg.success /\ dg'.pc = p
      BY <3>1, <3>2
    <3> QED
      BY <2>1, <3>3 DEF p
  <2>3. DgTyped'
    <3>1. told' \in Nat /\ closes' \in Nat /\ ended' \in BOOLEAN
      BY <2>1 DEF DgTyped
    <3> QED
      BY <1>1, <2>2, <3>1 DEF DgTyped
  <2>4. Announced' /\ OneClose'
    BY <1>1, <2>1, <2>2 DEF DgTyped, Announced, OneClose
  <2> QED
    BY <1>3, <2>3, <2>4
<1>7. CASE Report
  <2>1. /\ dg.pc = "report" /\ dg' = [dg EXCEPT !.pc = "write"] /\ told' = Len(got) + Len(rd)
        /\ UNCHANGED <<ended, closes>>
    BY <1>7 DEF Report, Goes
  <2>2. dg' \in Worker /\ dg'.pc = "write"
    BY <2>1, Going DEF DgTyped
  <2>3. DgTyped'
    <3>1. told' \in Nat /\ closes' \in Nat /\ ended' \in BOOLEAN
      BY <1>2, <2>1 DEF DgTyped
    <3> QED
      BY <1>1, <2>2, <3>1 DEF DgTyped
  <2>4. Announced' /\ OneClose'
    BY <1>1, <2>1, <2>2 DEF Announced, OneClose
  <2> QED
    BY <1>3, <2>3, <2>4
<1>8. CASE WriteError
  <2>1. /\ dg.pc = "failed" /\ dg' = [dg EXCEPT !.pc = "idle"]
        /\ closes' = closes + 1 /\ ended' = TRUE /\ told' = told
    BY <1>8 DEF WriteError, Goes
  <2>2. dg' \in Worker /\ dg'.success = dg.success
        /\ dg'.pc = (IF dg.pc = "error" /\ dg.success THEN "report" ELSE IF dg.pc = "error" THEN "write" ELSE "idle")
    <3>1. dg \in Worker
      BY DEF DgTyped
    <3>2. dg' \in Worker /\ dg'.success = dg.success /\ dg'.pc = "idle"
      BY <2>1, <3>1, Going
    <3> QED
      BY <2>1, <3>2
  <2>3. DgTyped'
    BY <1>1, <2>1, <2>2 DEF DgTyped
  <2>4. Announced' /\ OneClose'
    BY <1>1, <2>1, <2>2 DEF DgTyped, Announced, OneClose
  <2> QED
    BY <1>3, <2>3, <2>4
<1>9. CASE DgCancel
  <2>1. DgTyped' /\ Announced' /\ OneClose'
    BY <1>1, <1>9 DEF DgCancel, DgTyped, Announced, OneClose
  <2> QED
    BY <1>3, <2>1
<1> QED
  BY <1>4, <1>5, <1>6, <1>7, <1>8, <1>9

\* on_read consumes a run and stops.
LEMMA ReadStep ==
  ASSUME DgInv, DgRead
  PROVE  DgInv'
<1> USE DEF DgInv
<1>1. dg.pc = "read" /\ UNCHANGED <<came, got, told, wr, gone, written, ended, closes>>
  BY DEF DgRead
<1>2. Len(got) \in Nat /\ Len(rd) \in Nat /\ Len(socket) \in Nat
  BY LenProperties DEF DgTyped
<1>3. told = Len(got) + Len(rd) /\ closes <= 1
  BY <1>1 DEF Announced, OneClose
<1>4. Counts(gone, wr)' /\ (Len(gone) + Len(wr) = written)'
  BY <1>1
<1>5. CASE dg' = [dg EXCEPT !.pc = "write"] /\ UNCHANGED <<socket, rd>>
  <2>1. DgTyped'
    BY <1>1, <1>5 DEF DgTyped, Worker
  <2>2. Announced' /\ OneClose'
    BY <1>1, <1>5 DEF DgTyped, Worker, Announced, OneClose
  <2>3. Counts(got, rd)' /\ Holds(socket, Len(got) + Len(rd), came)'
    BY <1>1, <1>5
  <2> QED
    BY <1>4, <2>1, <2>2, <2>3
<1>6. CASE ~ended /\ OnRead
  <2>1. PICK k \in 0 .. Len(socket) :
          /\ Run(k) /\ rd' = rd \o Datagrams(SubSeq(socket, 1, k)) /\ socket' = SubSeq(socket, k + 2, Len(socket))
          /\ dg' = [dg EXCEPT !.success = k > 0,
                              !.pc = IF StopOf(k) = "error" THEN "error" ELSE IF k > 0 THEN "report" ELSE "write"]
    BY <1>6 DEF OnRead, Consume
  <2>2. (\A i \in 1 .. k : socket[i].from = "peer") /\ (k + 1 <= Len(socket) => socket[k + 1].from # "peer")
    BY <1>2, <2>1 DEF Run, OfPeer
  <2> DEFINE a == Len(got) + Len(rd)
  <2>a. a \in Nat /\ socket \in Seq(Arrivals) /\ came \in Nat /\ Holds(socket, a, came)
    BY <1>2 DEF DgTyped
  <2> HIDE DEF a
  <2>3. \A i \in 1 .. k : socket[i].n = a + i
    BY <2>a, <2>2, RunCounts
  <2>4. socket' \in Seq(Arrivals) /\ Holds(socket', a + k, came)
    BY <2>a, <2>1, <2>2, RunLeaves
  <2>5. rd' \in Seq(Nat) /\ Len(rd') = Len(rd) + k /\ Counts(got, rd')
    <3>1. \A i \in 1 .. k : socket[i].n = Len(got) + Len(rd) + i
      BY <2>3 DEF a
    <3>2. got \in Seq(Nat) /\ rd \in Seq(Nat)
      BY DEF DgTyped
    <3> QED
      BY <2>1, <2>a, <3>1, <3>2, CountsRun
  <2>6. Len(got') + Len(rd') = a + k
    BY <1>1, <1>2, <2>5 DEF a
  <2>7. DgTyped'
    <3>1. (k > 0) \in BOOLEAN
      OBVIOUS
    <3>2. dg' \in Worker
      BY <2>1, <3>1 DEF DgTyped, Worker
    <3> QED
      BY <1>1, <2>4, <2>5, <3>2 DEF DgTyped
  <2>8. Announced'
    <3>1. dg'.pc = (IF StopOf(k) = "error" THEN "error" ELSE IF k > 0 THEN "report" ELSE "write")
          /\ (k > 0 => dg'.success)
      BY <2>1 DEF DgTyped, Worker
    <3>2. CASE k > 0
      BY <3>1, <3>2 DEF Announced
    <3>3. CASE ~(k > 0)
      <4>1. told' = Len(got') + Len(rd')
        BY <1>1, <1>2, <1>3, <2>6, <2>a, <3>3 DEF a
      <4> QED
        BY <4>1 DEF Announced
    <3> QED
      BY <3>2, <3>3
  <2>9. OneClose'
    BY <1>1, <1>3, <1>6 DEF OneClose, DgTyped
  <2>10. Holds(socket, Len(got) + Len(rd), came)' /\ Counts(got, rd)'
    BY <1>1, <2>4, <2>5, <2>6
  <2> QED
    BY <1>4, <2>7, <2>8, <2>9, <2>10
<1> QED
  BY <1>5, <1>6 DEF DgRead

\* on_write removes what it sent.
LEMMA WriteStep ==
  ASSUME DgInv, DgWrite
  PROVE  DgInv'
<1> USE DEF DgInv
<1>1. dg.pc = "write" /\ UNCHANGED <<socket, came, rd, got, told, written, ended, closes>>
  BY DEF DgWrite
<1>2. Counts(got, rd)' /\ Holds(socket, Len(got) + Len(rd), came)'
  BY <1>1
<1>3. told = Len(got) + Len(rd)
  BY <1>1 DEF Announced
<1>4. CASE dg' = [dg EXCEPT !.pc = "idle"] /\ UNCHANGED <<wr, gone>>
  <2>1. DgTyped' /\ Announced' /\ OneClose'
    BY <1>1, <1>3, <1>4 DEF DgTyped, Worker, Announced, OneClose
  <2>2. Counts(gone, wr)' /\ (Len(gone) + Len(wr) = written)'
    BY <1>1, <1>4
  <2> QED
    BY <1>2, <2>1, <2>2
<1>5. CASE ~ended /\ OnWrite
  <2>1. PICK k \in 0 .. Len(wr) :
          /\ gone' = gone \o SubSeq(wr, 1, k) /\ wr' = SubSeq(wr, k + 1, Len(wr))
          /\ dg' = [dg EXCEPT !.pc = IF k = Len(wr) THEN "idle" ELSE "failed"]
    BY <1>5 DEF OnWrite
  <2>2. gone' \in Seq(Nat) /\ wr' \in Seq(Nat) /\ Counts(gone', wr') /\ Len(gone') + Len(wr') = written'
    BY <1>1, <2>1, CountsMove DEF DgTyped
  <2>3. dg' \in Worker
    BY <2>1, Going DEF DgTyped
  <2>4. DgTyped'
    BY <1>1, <2>2, <2>3 DEF DgTyped
  <2>5. Announced'
    BY <1>1, <1>3 DEF Announced
  <2>6. closes = 0
    BY <1>5 DEF OneClose, DgTyped
  <2>7. OneClose'
    BY <1>1, <1>5, <2>6 DEF OneClose
  <2> QED
    BY <1>2, <2>2, <2>4, <2>5, <2>7
<1> QED
  BY <1>4, <1>5 DEF DgWrite

\* The application, and the network.
LEMMA OtherSteps ==
  ASSUME DgInv, Put \/ Take \/ Arrives \/ Disturbs
  PROVE  DgInv'
<1> USE DEF DgInv
<1>1. UNCHANGED <<dg, told, gone, ended, closes>>
  BY DEF Put, Take, Arrives, Disturbs
<1>2. Len(got) \in Nat /\ Len(rd) \in Nat /\ Len(gone) \in Nat /\ Len(wr) \in Nat
  BY LenProperties DEF DgTyped
<1>3. OneClose'
  BY <1>1 DEF OneClose
<1>4. CASE Put
  <2>1. written' = written + 1 /\ wr' = Append(wr, written + 1) /\ UNCHANGED <<socket, came, rd, got>>
    BY <1>4 DEF Put
  <2>2. wr' \in Seq(Nat) /\ Len(wr') = Len(wr) + 1 /\ Counts(gone, wr')
    BY <2>1, CountsPut DEF DgTyped
  <2>3. DgTyped' /\ Announced'
    BY <1>1, <2>1, <2>2 DEF DgTyped, Announced
  <2>4. Counts(got, rd)' /\ Holds(socket, Len(got) + Len(rd), came)' /\ Counts(gone, wr)'
    BY <1>1, <2>1, <2>2
  <2>5. Len(gone') + Len(wr') = written'
    BY <1>1, <1>2, <2>1, <2>2
  <2> QED
    BY <1>3, <2>3, <2>4, <2>5
<1>5. CASE Take
  <2>1. rd # << >> /\ got' = Append(got, Head(rd)) /\ rd' = Tail(rd) /\ UNCHANGED <<socket, came, wr, written>>
    BY <1>5 DEF Take
  <2>2. got' \in Seq(Nat) /\ rd' \in Seq(Nat) /\ Len(got') + Len(rd') = Len(got) + Len(rd) /\ Counts(got', rd')
    BY <2>1, CountsTake DEF DgTyped
  <2>3. DgTyped' /\ Announced'
    BY <1>1, <2>1, <2>2 DEF DgTyped, Announced
  <2>4. Counts(got, rd)' /\ Holds(socket, Len(got) + Len(rd), came)' /\ Counts(gone, wr)'
        /\ (Len(gone) + Len(wr) = written)'
    BY <1>1, <2>1, <2>2
  <2> QED
    BY <1>3, <2>3, <2>4
<1>6. CASE Arrives \/ Disturbs
  <2>1. PICK x \in Arrivals :
          /\ socket' = Append(socket, x) /\ UNCHANGED <<rd, got, wr, written>>
          /\ \/ x.from = "peer" /\ x.n = came + 1 /\ came' = came + 1
             \/ x.from # "peer" /\ came' = came
    <3>1. CASE Arrives
      <4>1. Arrival("peer", came + 1) \in Arrivals
        BY DEF Arrival, Arrivals, DgTyped
      <4> QED
        BY <3>1, <4>1 DEF Arrives, Arrival
    <3>2. CASE Disturbs
      <4>1. \A from \in {"nothing", "stranger", "error"} : Arrival(from, 0) \in Arrivals
        BY DEF Arrival, Arrivals
      <4> QED
        BY <3>2, <4>1 DEF Disturbs, Arrival
    <3> QED
      BY <1>6, <3>1, <3>2
  <2>2. socket' \in Seq(Arrivals) /\ came' \in Nat /\ Holds(socket', Len(got) + Len(rd), came')
    <3>1. Len(got) + Len(rd) \in Nat /\ came \in Nat /\ socket \in Seq(Arrivals)
      BY <1>2 DEF DgTyped
    <3> QED
      BY <2>1, <3>1, HoldsArrival
  <2>3. DgTyped' /\ Announced'
    BY <1>1, <2>1, <2>2 DEF DgTyped, Announced
  <2>4. Counts(got, rd)' /\ Holds(socket, Len(got) + Len(rd), came)' /\ Counts(gone, wr)'
        /\ (Len(gone) + Len(wr) = written)'
    BY <1>1, <2>1, <2>2
  <2> QED
    BY <1>3, <2>3, <2>4
<1> QED
  BY <1>4, <1>5, <1>6

LEMMA DgInvStep ==
  ASSUME DgInv, [DgNext]_dgVars
  PROVE  DgInv'
<1>1. CASE UNCHANGED dgVars
  <2> USE <1>1 DEF dgVars
  <2>1. DgTyped' /\ Announced' /\ OneClose'
    BY DEF DgInv, DgTyped, Announced, OneClose
  <2>2. Counts(got, rd)' /\ Holds(socket, Len(got) + Len(rd), came)' /\ Counts(gone, wr)'
        /\ (Len(gone) + Len(wr) = written)'
    BY DEF DgInv
  <2> QED
    BY <2>1, <2>2 DEF DgInv
<1> QED
  BY <1>1, WorkerSteps, ReadStep, WriteStep, OtherSteps DEF DgNext

LEMMA DgInvariant == DgSpec => []DgInv
BY DgInvInit, DgInvStep, PTL DEF DgSpec

\* Two sequences that count up are one that does.
LEMMA CountsTogether ==
  ASSUME NEW f \in Seq(Nat), NEW w \in Seq(Nat), Counts(f, w)
  PROVE  Len(f \o w) = Len(f) + Len(w) /\ f \o w = [n \in 1 .. Len(f) + Len(w) |-> n]
<1> DEFINE m == Len(f) + Len(w)
           t == [n \in 1 .. m |-> n]
<1>1. Len(f) \in Nat /\ Len(w) \in Nat
  BY LenProperties
<1>2. /\ f \o w \in Seq(Nat) /\ Len(f \o w) = m
      /\ \A i \in 1 .. m : (f \o w)[i] = IF i <= Len(f) THEN f[i] ELSE w[i - Len(f)]
  BY ConcatProperties
<1>3. t \in Seq(Nat) /\ Len(t) = m /\ \A i \in 1 .. m : t[i] = i
  BY <1>1
<1>4. ASSUME NEW i \in 1 .. m PROVE (f \o w)[i] = t[i]
  <2>1. CASE i <= Len(f)
    BY <1>1, <1>2, <1>3, <2>1 DEF Counts
  <2>2. CASE ~(i <= Len(f))
    <3>1. i - Len(f) \in 1 .. Len(w) /\ Len(f) + (i - Len(f)) = i
      BY <1>1, <2>2
    <3> QED
      BY <1>2, <1>3, <2>2, <3>1 DEF Counts
  <2> QED
    BY <2>1, <2>2
<1>5. f \o w = t
  <2> HIDE DEF t
  <2> QED
    BY <1>2, <1>3, <1>4, SeqEqual
<1> QED
  BY <1>2, <1>5 DEF t

\* For any number of datagrams: what the peer sends is read in order, each once,
\* and nothing else is, wherever a pass of the worker ends
\* (bsd/connection_dg.cc:53-73); what is in the buffer of an idle connection was
\* announced (:75-79), a failure is reported once (:33-38, 107-111), and what
\* is written leaves in its order (:93-115).
THEOREM DatagramsAreKept == DgSpec => []DatagramsKept
<1>1. DgInv => DatagramsKept
  <2> SUFFICES ASSUME DgInv PROVE DatagramsKept
    OBVIOUS
  <2> USE DEF DgInv
  <2>1. Len(got \o rd) = Len(got) + Len(rd) /\ got \o rd = [n \in 1 .. Len(got \o rd) |-> n]
    BY CountsTogether DEF DgTyped
  <2>2. gone \o wr = [n \in 1 .. written |-> n]
    BY CountsTogether DEF DgTyped
  <2>3. {socket[k].n : k \in OfPeer} = Len(got \o rd) + 1 .. came
    BY <2>1 DEF Holds, OfPeer
  <2>4. \A j, k \in OfPeer : j < k => socket[j].n < socket[k].n
    BY DEF Holds, OfPeer
  <2>5. (dg.pc = "idle" => told = Len(got) + Len(rd)) /\ closes <= 1 /\ (closes = 1 => ended)
    BY DEF Announced, OneClose
  <2> QED
    BY <2>1, <2>2, <2>3, <2>4, <2>5 DEF DatagramsKept
<1> QED
  BY <1>1, DgInvariant, PTL
=============================================================================
