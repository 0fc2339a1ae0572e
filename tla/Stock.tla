-------------------------------- MODULE Stock --------------------------------
(***************************************************************************)
(* stock<T> (common/util/stock.h), the table that gives every object of    *)
(* the library its id.  A slot of the table is an index of ptr_data; an id *)
(* is a serial number above the index of the slot:                         *)
(*                                                                         *)
(*     id = (idx_seed | slot) ^ rnd_seed           stock.h:123             *)
(*                                                                         *)
(* idx_seed steps through 0x10000, 0x20000, .. and wraps at 0x7fff0000,    *)
(* that is, Serials = 2^15 values above SlotSpan = 2^16; rnd_seed is 0 and *)
(* never set.  Nothing keeps the index of a slot below SlotSpan, so an     *)
(* index beyond it runs into the serial number.  Every method holds the    *)
(* mutex of the table from its first line to its last: one call, one step. *)
(***************************************************************************)
EXTENDS Integers, Sequences, FiniteSets

CONSTANTS Objects,      \* pointers the table stores
          NoObject,     \* a failed get()
          SlotSpan,     \* 0x10000 in the code: the slots an id can tell apart
          Serials,      \* 0x8000 in the code: serial numbers before they wrap
          PageSize,     \* slots added by one reallocation
          MaxSlots      \* bound of the model: realloc() fails beyond it

ASSUME StockAssumption ==
  /\ SlotSpan \in Nat \ {0}
  /\ Serials \in Nat \ {0}
  /\ PageSize \in Nat \ {0}
  /\ MaxSlots \in Nat
  /\ MaxSlots =< 2 * SlotSpan      \* at most one bit of a slot overlaps the serial
  /\ NoObject \notin Objects

\* An id by its two halves: the serial number, and the bits below it, which
\* name a slot.  All the bits of -1, the id of an unused slot, are set.
Ids  == (0 .. Serials - 1) \X (0 .. SlotSpan - 1)
NoId == <<-1, SlotSpan - 1>>

VARIABLES cnt,          \* cnt_data
          ids,          \* ptr_data[..].id, NoId in an unused slot
          body,         \* ptr_data[..].body
          free,         \* ptr_free[0 .. cnt_free-1], used as a stack
          seed,         \* idx_seed / 0x10000
          answer        \* the last call: what it was given and what it returned

vars == <<cnt, ids, body, free, seed, answer>>

Slots == 0 .. cnt - 1

\* The slot that get() and remove() try for an id: (id ^ rnd_seed) & 0xffff.
SlotOf(i) == i[2]

\* Faulty: the id names the slot after the one that was taken.
IdOfNext(s, k) == <<s, (k + 1) % SlotSpan>>

\* idx_seed | slot: a bit of a slot past the span falls on the lowest bit of
\* the serial number.
IdOf(s, k) == IF k < SlotSpan THEN <<s, k>>
              ELSE <<IF s % 2 = 0 THEN (s + 1) % Serials ELSE s, k - SlotSpan>>

\* The id names the slot its low bits say, and the slot holds that very id.
Found(i) == SlotOf(i) \in Slots /\ ids[SlotOf(i)] = i

----------------------------------------------------------------------------
Init == /\ cnt = 0
        /\ ids = [k \in {} |-> NoId]
        /\ body = [k \in {} |-> NoObject]
        /\ free = << >>
        /\ seed = 0
        /\ answer = <<"none">>

\* The table after the growth step of add(): with no free slot there is one
\* page more, its slots stacked in ascending order.
Grown == IF free # << >>
         THEN [cnt |-> cnt, ids |-> ids, free |-> free]
         ELSE [cnt  |-> cnt + PageSize,
               ids  |-> [k \in 0 .. cnt + PageSize - 1 |-> IF k < cnt THEN ids[k] ELSE NoId],
               free |-> [n \in 1 .. PageSize |-> cnt + n - 1]]

HasRoom == free # << >> \/ cnt + PageSize =< MaxSlots

\* Faulty: idx_seed is not advanced.
AddSameSerial(o) ==
  /\ HasRoom
  /\ LET g == Grown
         k == g.free[Len(g.free)]
     IN  /\ cnt'  = g.cnt
         /\ free' = SubSeq(g.free, 1, Len(g.free) - 1)
         /\ ids'  = [g.ids EXCEPT ![k] = IdOf(seed, k)]
         /\ body' = [j \in 0 .. g.cnt - 1 |->
                       IF j = k THEN o ELSE IF j < cnt THEN body[j] ELSE NoObject]
         /\ answer' = <<"add", o, IdOf(seed, k)>>
  /\ UNCHANGED seed

\* stock::add: the last freed slot is taken first, under the next serial.
Add(o) ==
  /\ HasRoom
  /\ LET g == Grown
         k == g.free[Len(g.free)]
         s == (seed + 1) % Serials
     IN  /\ cnt'  = g.cnt
         /\ free' = SubSeq(g.free, 1, Len(g.free) - 1)
         /\ seed' = s
         /\ ids'  = [g.ids EXCEPT ![k] = IdOf(s, k)]
         /\ body' = [j \in 0 .. g.cnt - 1 |->
                       IF j = k THEN o ELSE IF j < cnt THEN body[j] ELSE NoObject]
         /\ answer' = <<"add", o, IdOf(s, k)>>

\* stock::add when realloc() fails.  Where only one of the two fails, the other
\* is taken to have left its array in place: had it moved, ptr_data or ptr_free
\* would point to what realloc() freed (stock.h:104-108), and no call after
\* that is defined.
AddFails(o) == /\ ~HasRoom
               /\ answer' = <<"add", o, NoId>>
               /\ UNCHANGED <<cnt, ids, body, free, seed>>

\* Faulty: get() does not compare the whole id.
GetBySlot(i) ==
  /\ answer' = <<"get", i, IF SlotOf(i) \in Slots /\ ids[SlotOf(i)] # NoId THEN body[SlotOf(i)] ELSE NoObject>>
  /\ UNCHANGED <<cnt, ids, body, free, seed>>

\* stock::get
Get(i) == /\ answer' = <<"get", i, IF Found(i) THEN body[SlotOf(i)] ELSE NoObject>>
          /\ UNCHANGED <<cnt, ids, body, free, seed>>

\* Faulty: remove() does not look whether the slot holds the id.
RemoveUnchecked(i) ==
  /\ answer' = <<"remove", i, TRUE>>
  /\ free' = Append(free, SlotOf(i))
  /\ ids' = [k \in Slots |-> IF k = SlotOf(i) THEN NoId ELSE ids[k]]
  /\ UNCHANGED <<cnt, body, seed>>

\* Faulty: remove() leaves the id in the slot.
RemoveKeepsId(i) ==
  /\ answer' = <<"remove", i, Found(i)>>
  /\ free' = IF Found(i) THEN Append(free, SlotOf(i)) ELSE free
  /\ UNCHANGED <<cnt, ids, body, seed>>

\* stock::remove: the slot goes back on the stack, its body stays.
Remove(i) == /\ answer' = <<"remove", i, Found(i)>>
             /\ IF Found(i)
                THEN /\ free' = Append(free, SlotOf(i))
                     /\ ids' = [ids EXCEPT ![SlotOf(i)] = NoId]
                ELSE UNCHANGED <<free, ids>>
             /\ UNCHANGED <<cnt, body, seed>>

Next == \/ \E o \in Objects : Add(o) \/ AddFails(o)
        \/ \E i \in Ids \cup {NoId} : Get(i) \/ Remove(i)

Spec == Init /\ [][Next]_vars

----------------------------------------------------------------------------
\* Every variable has its type.
TypeOK == /\ cnt \in 0 .. MaxSlots
          /\ ids \in [Slots -> Ids \cup {NoId}]
          /\ body \in [Slots -> Objects \cup {NoObject}]
          /\ free \in Seq(Slots)
          /\ seed \in 0 .. Serials - 1
          /\ answer \in {<<"none">>} \cup ({"add"} \X Objects \X (Ids \cup {NoId}))
                     \cup ({"get"} \X (Ids \cup {NoId}) \X (Objects \cup {NoObject}))
                     \cup ({"remove"} \X (Ids \cup {NoId}) \X BOOLEAN)

Used == {k \in Slots : ids[k] # NoId}

\* The slots leave the last index of the span alone.  With the sizes of the
\* code that is as much as not exceeding it: 65536 is no multiple of 100.
\* That slot is where get() and remove() look for NoId, and an unused slot
\* holds NoId.
Fits == cnt < SlotSpan

\* As long as the slots do not use up the span of an id, the free stack holds each
\* unused slot exactly once and no used one (stock.h:100-121, 161-165).
FreeListExact ==
  Fits =>
    /\ \A n \in 1 .. Len(free) : ids[free[n]] = NoId
    /\ \A m, n \in 1 .. Len(free) : free[m] = free[n] => m = n
    /\ \A k \in Slots \ Used : \E n \in 1 .. Len(free) : free[n] = k

\* As long as the slots do not use up the span of an id, a stored id leads get() and
\* remove() back to the slot it was given for (stock.h:123, 138, 160).
IdsLeadHome ==
  Fits => \A k \in Used : SlotOf(ids[k]) = k

\* The table as the map it promises to be.
Live == [i \in {ids[k] : k \in Used} |->
           body[CHOOSE k \in Used : ids[k] = i]]

R == INSTANCE Registry WITH live <- Live

\* Within the span, add, get and remove behave like the abstract registry.
IsRegistry == R!Spec
=============================================================================
