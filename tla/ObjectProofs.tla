---------------------------- MODULE ObjectProofs ----------------------------
(***************************************************************************)
(* What holds of reference counting for every number of threads and        *)
(* objects.  The invariants are proved one on top of the other: types, the *)
(* counter, the mutex of the stock, and what decref() decided.             *)
(***************************************************************************)
EXTENDS Object, FiniteSetTheorems, TLAPS

USE ObjectAssumption

----------------------------------------------------------------------------
(* Types.                                                                  *)

\* A step keeps the types; the one step that may not, a decrement of 0, is
\* excluded by the counter: the thread that releases is among the holders.
LEMMA TypeStep ==
  ASSUME TypeOK, RefcExact, [Next]_vars PROVE TypeOK'
<1> USE DEF TypeOK, Holding, InWait, Killing, Goto
<1>1. CASE UNCHANGED vars
  BY <1>1 DEF vars
<1>2. ASSUME NEW t \in Threads, Thread(t) PROVE TypeOK'
  <2> DEFINE o == at[t]
  <2>1. CASE \E x \in Objects : Create(t, x)
    BY <2>1 DEF Create
  <2>2. CASE \E x \in Objects : Lookup(t, x)
    BY <2>2 DEF Lookup, Incref
  <2>3. CASE \E x \in Objects : FilterTest(t, x)
    BY <2>3 DEF FilterTest
  <2>4. CASE ListEnter(t)
    BY <2>4 DEF ListEnter
  <2>5. CASE FilterIncref(t)
    BY <2>5 DEF FilterIncref, Incref
  <2>6. CASE ListLeave(t)
    BY <2>6 DEF ListLeave
  <2>7. CASE Cancel(t)
    BY <2>7 DEF Cancel
  <2>8. CASE Decref(t)
    <3>1. o \in Objects /\ t \in Holders(o)
      BY <2>8 DEF Decref, Holders
    <3>2. IsFiniteSet(Holders(o))
      BY FS_Subset DEF Holders
    <3>3. refc[o] \in Nat /\ refc[o] # 0
      BY <3>1, <3>2, FS_EmptySet DEF RefcExact
    <3>4. refc' \in [Objects -> Nat]
      BY <2>8, <3>1, <3>3 DEF Decref
    <3>5. pc' \in [Threads -> {"idle", "list", "filter", "signal"} \cup Holding \cup Killing]
      BY <2>8 DEF Decref
    <3>6. \A u \in Threads : at'[u] = NoObject => pc'[u] \in {"idle", "list"}
      BY <2>8, <3>1 DEF Decref
    <3> QED
      BY <2>8, <3>4, <3>5, <3>6 DEF Decref
  <2>9. CASE Broadcast(t)
    BY <2>9 DEF Broadcast
  <2>10. CASE Delete(t)
    BY <2>10 DEF Delete
  <2>11. CASE Unregister(t)
    BY <2>11 DEF Unregister
  <2>12. CASE WaitEnter(t)
    BY <2>12 DEF WaitEnter
  <2>13. CASE Sleep(t)
    BY <2>13 DEF Sleep
  <2>14. CASE SpuriousWake(t)
    BY <2>14 DEF SpuriousWake
  <2>15. CASE Awake(t)
    BY <2>15 DEF Awake
  <2>16. CASE Check(t)
    BY <2>16 DEF Check
  <2> QED
    BY <1>2, <2>1, <2>2, <2>3, <2>4, <2>5, <2>6, <2>7, <2>8, <2>9, <2>10,
       <2>11, <2>12, <2>13, <2>14, <2>15, <2>16 DEF Thread
<1> QED
  BY <1>1, <1>2 DEF Next

----------------------------------------------------------------------------
(* The counter.                                                            *)

LEMMA HoldersFinite ==
  ASSUME NEW o PROVE IsFiniteSet(Holders(o)) /\ Cardinality(Holders(o)) \in Nat
BY FS_Subset, FS_CardinalityType DEF Holders

\* One more holder, one more reference.
LEMMA HolderGained ==
  ASSUME TypeOK, RefcExact, NEW t \in Threads, NEW o \in Objects,
         t \notin Holders(o),
         refc' = [refc EXCEPT ![o] = @ + 1],
         \A x \in Objects : Holders(x)' = IF x = o THEN Holders(x) \cup {t} ELSE Holders(x)
  PROVE  RefcExact'
<1>1. Cardinality(Holders(o) \cup {t}) = Cardinality(Holders(o)) + 1
  BY HoldersFinite, FS_AddElement
<1> QED
  BY <1>1 DEF RefcExact, TypeOK

\* One holder less, one reference less.
LEMMA HolderLost ==
  ASSUME TypeOK, RefcExact, NEW t \in Threads, NEW o \in Objects,
         t \in Holders(o),
         refc' = [refc EXCEPT ![o] = @ - 1],
         \A x \in Objects : Holders(x)' = IF x = o THEN Holders(x) \ {t} ELSE Holders(x)
  PROVE  RefcExact'
<1>1. Cardinality(Holders(o) \ {t}) = Cardinality(Holders(o)) - 1
  BY HoldersFinite, FS_RemoveElement
<1> QED
  BY <1>1 DEF RefcExact, TypeOK

\* The other steps move no reference.
LEMMA HoldersKept ==
  ASSUME TypeOK, RefcExact, refc' = refc, \A x \in Objects : Holders(x)' = Holders(x)
  PROVE  RefcExact'
BY DEF RefcExact, TypeOK

LEMMA RefcStep ==
  ASSUME TypeOK, RefcExact, [Next]_vars PROVE RefcExact'
<1> USE DEF Holders, Holding, InWait, TypeOK, Goto
<1>1. CASE UNCHANGED vars
  BY <1>1, HoldersKept DEF vars
<1>2. ASSUME NEW t \in Threads, Thread(t) PROVE RefcExact'
  <2>1. ASSUME NEW o \in Objects, Create(t, o) PROVE RefcExact'
    BY <2>1, HoldersKept DEF Create
  <2>2. ASSUME NEW o \in Objects, Lookup(t, o) PROVE RefcExact'
    <3>1. t \notin Holders(o)
      BY <2>2 DEF Lookup
    <3>2. \A x \in Objects : Holders(x)' = IF x = o THEN Holders(x) \cup {t} ELSE Holders(x)
      BY <2>2 DEF Lookup
    <3>3. refc' = [refc EXCEPT ![o] = @ + 1]
      BY <2>2 DEF Lookup, Incref
    <3> HIDE DEF Holders, TypeOK
    <3> QED
      BY <3>1, <3>2, <3>3, HolderGained
  <2>3. ASSUME NEW o \in Objects, FilterTest(t, o) PROVE RefcExact'
    BY <2>3, HoldersKept DEF FilterTest
  <2>4. CASE ListEnter(t)
    BY <2>4, HoldersKept DEF ListEnter
  <2>5. CASE FilterIncref(t)
    <3>1. at[t] \in Objects /\ t \notin Holders(at[t])
      BY <2>5 DEF FilterIncref
    <3>2. \A x \in Objects : Holders(x)' = IF x = at[t] THEN Holders(x) \cup {t} ELSE Holders(x)
      BY <2>5 DEF FilterIncref
    <3>3. refc' = [refc EXCEPT ![at[t]] = @ + 1]
      BY <2>5 DEF FilterIncref, Incref
    <3> HIDE DEF Holders, TypeOK
    <3> QED
      BY <3>1, <3>2, <3>3, HolderGained
  <2>6. CASE ListLeave(t)
    BY <2>6, HoldersKept DEF ListLeave
  <2>7. CASE Cancel(t)
    BY <2>7, HoldersKept DEF Cancel
  <2>8. CASE Decref(t)
    <3>1. at[t] \in Objects /\ t \in Holders(at[t])
      BY <2>8 DEF Decref
    <3>2. \A x \in Objects : Holders(x)' = IF x = at[t] THEN Holders(x) \ {t} ELSE Holders(x)
      BY <2>8 DEF Decref
    <3>3. refc' = [refc EXCEPT ![at[t]] = @ - 1]
      BY <2>8 DEF Decref
    <3> HIDE DEF Holders, TypeOK
    <3> QED
      BY <3>1, <3>2, <3>3, HolderLost
  <2>9. CASE Broadcast(t)
    BY <2>9, HoldersKept DEF Broadcast
  <2>10. CASE Delete(t)
    BY <2>10, HoldersKept DEF Delete
  <2>11. CASE Unregister(t)
    BY <2>11, HoldersKept DEF Unregister
  <2>12. CASE WaitEnter(t)
    BY <2>12, HoldersKept DEF WaitEnter
  <2>13. CASE Sleep(t)
    BY <2>13, HoldersKept DEF Sleep
  <2>14. CASE SpuriousWake(t)
    BY <2>14, HoldersKept DEF SpuriousWake
  <2>15. CASE Awake(t)
    BY <2>15, HoldersKept DEF Awake
  <2>16. CASE Check(t)
    BY <2>16, HoldersKept DEF Check
  <2> QED
    BY <1>2, <2>1, <2>2, <2>3, <2>4, <2>5, <2>6, <2>7, <2>8, <2>9, <2>10,
       <2>11, <2>12, <2>13, <2>14, <2>15, <2>16 DEF Thread
<1> QED
  BY <1>1, <1>2 DEF Next

LEMMA CounterInit == Init => TypeOK /\ RefcExact
<1> SUFFICES ASSUME Init PROVE TypeOK /\ RefcExact
  OBVIOUS
<1>1. TypeOK
  BY DEF Init, TypeOK, Holding, InWait, Killing
<1>2. \A o \in Objects : Holders(o) = {} /\ refc[o] = 0
  BY DEF Init, Holders, Holding, InWait
<1> QED
  BY <1>1, <1>2, FS_EmptySet DEF RefcExact

\* For any number of threads and objects, every variable keeps its type.
THEOREM TypeCorrect == Spec => []TypeOK
<1>1. TypeOK /\ RefcExact /\ [Next]_vars => (TypeOK /\ RefcExact)'
  BY TypeStep, RefcStep
<1> QED
  BY CounterInit, <1>1, PTL DEF Spec

\* For any number of threads and objects, the counter of an object is the
\* number of threads that hold it (object.cc:38-56, 107-125).
THEOREM CounterExact == Spec => []RefcExact
<1>1. TypeOK /\ RefcExact /\ [Next]_vars => (TypeOK /\ RefcExact)'
  BY TypeStep, RefcStep
<1> QED
  BY CounterInit, <1>1, PTL DEF Spec

----------------------------------------------------------------------------
(* The decision to delete.                                                 *)

\* list() works under the mutex of the stock, so what its filter has seen in
\* the stock is still there when it takes the reference.
ListLocked ==
  \A t \in Threads : /\ pc[t] \in {"list", "filter"} => stockMx = t
                     /\ pc[t] = "filter" => Registered(at[t])

\* Nobody knows an object that does not exist yet.
Unknown(o) == Holders(o) = {} /\ Killers(o) = {} /\ ~cancelled[o]

\* Where the deletion of an object stands, when nobody found it again.
Settled(o) ==
  /\ Killers(o) # {} => refc[o] = 0
  /\ \A t, u \in Killers(o) : t = u
  /\ \A t \in Killers(o) : status[o] = IF pc[t] = "delete" THEN "live" ELSE "dying"
  /\ status[o] = "dying" => Killers(o) # {}
  /\ status[o] = "freed" => Holders(o) = {} /\ Killers(o) = {}

KillInv ==
  /\ ListLocked
  /\ \A o \in Objects : status[o] = "unborn" => Unknown(o)
  /\ \A o \in Objects \ revived : Settled(o)
  /\ OnlyCancelledDie
  /\ NoneForgotten

CounterInv == TypeOK /\ RefcExact

\* Whoever holds an object is counted.
LEMMA HolderCounted ==
  ASSUME CounterInv, NEW o \in Objects
  PROVE  /\ refc[o] \in Nat
         /\ refc[o] = 0 <=> Holders(o) = {}
         /\ \A t \in Holders(o) : refc[o] = 1 => Holders(o) = {t}
<1>1. refc[o] = Cardinality(Holders(o)) /\ refc[o] \in Nat
  BY DEF CounterInv, RefcExact, TypeOK
<1>2. refc[o] = 0 <=> Holders(o) = {}
  BY <1>1, HoldersFinite, FS_EmptySet
<1>3. ASSUME NEW t \in Holders(o), refc[o] = 1 PROVE Holders(o) = {t}
  <2>1. IsFiniteSet(Holders(o)) /\ Cardinality(Holders(o)) = 1
    BY <1>1, <1>3, HoldersFinite
  <2>2. IsFiniteSet(Holders(o) \ {t}) /\ Cardinality(Holders(o) \ {t}) = 0
    BY <2>1, FS_RemoveElement
  <2> QED
    BY <2>2, FS_EmptySet
<1> QED
  BY <1>1, <1>2, <1>3

LEMMA ListLockedStep ==
  ASSUME TypeOK, ListLocked, [Next]_vars PROVE ListLocked'
<1> USE DEF ListLocked, Registered, TypeOK, Goto
<1>1. CASE UNCHANGED vars
  BY <1>1 DEF vars
<1>2. ASSUME NEW t \in Threads, Thread(t) PROVE ListLocked'
  <2>1. CASE \E x \in Objects : Create(t, x)
    BY <2>1 DEF Create
  <2>2. CASE \E x \in Objects : Lookup(t, x)
    BY <2>2 DEF Lookup
  <2>3. CASE \E x \in Objects : FilterTest(t, x)
    BY <2>3 DEF FilterTest
  <2>4. CASE ListEnter(t)
    BY <2>4 DEF ListEnter
  <2>5. CASE FilterIncref(t)
    BY <2>5 DEF FilterIncref
  <2>6. CASE ListLeave(t)
    BY <2>6 DEF ListLeave
  <2>7. CASE Cancel(t)
    BY <2>7 DEF Cancel
  <2>8. CASE Decref(t)
    BY <2>8 DEF Decref
  <2>9. CASE Broadcast(t)
    BY <2>9 DEF Broadcast
  <2>10. CASE Delete(t)
    BY <2>10 DEF Delete
  <2>11. CASE Unregister(t)
    \* No thread is inside list(): the mutex of the stock is free.
    BY <2>11 DEF Unregister
  <2>12. CASE WaitEnter(t)
    BY <2>12 DEF WaitEnter
  <2>13. CASE Sleep(t)
    BY <2>13 DEF Sleep
  <2>14. CASE SpuriousWake(t)
    BY <2>14 DEF SpuriousWake
  <2>15. CASE Awake(t)
    BY <2>15 DEF Awake
  <2>16. CASE Check(t)
    BY <2>16 DEF Check
  <2> QED
    BY <1>2, <2>1, <2>2, <2>3, <2>4, <2>5, <2>6, <2>7, <2>8, <2>9, <2>10,
       <2>11, <2>12, <2>13, <2>14, <2>15, <2>16 DEF Thread
<1> QED
  BY <1>1, <1>2 DEF Next

\* KillInv for one object.
Deletion(o) ==
  /\ status[o] = "unborn" => Unknown(o)
  /\ o \notin revived => Settled(o)
  /\ status[o] \in {"dying", "freed"} \/ Killers(o) # {} => cancelled[o]
  /\ Registered(o) /\ cancelled[o] /\ refc[o] = 0 => Killers(o) # {}

LEMMA KillInvParts == KillInv <=> ListLocked /\ \A o \in Objects : Deletion(o)
BY DEF KillInv, Deletion, OnlyCancelledDie, NoneForgotten

\* A step that leaves alone what an object's deletion is about.
LEMMA DeletionKept ==
  ASSUME NEW o \in Objects, Deletion(o),
         status'[o] = status[o], refc'[o] = refc[o], cancelled'[o] = cancelled[o],
         o \in revived' <=> o \in revived,
         Holders(o)' = Holders(o), Killers(o)' = Killers(o),
         \A t \in Killers(o) : pc'[t] = pc[t]
  PROVE  Deletion(o)'
BY DEF Deletion, Unknown, Settled, Registered

\* A reference taken to an object that the stock knows.
LEMMA DeletionIncref ==
  ASSUME TypeOK, NEW t \in Threads, NEW o \in Objects, NEW x \in Objects,
         Deletion(o), Registered(x), Incref(x),
         status' = status, cancelled' = cancelled,
         Holders(o)' = IF o = x THEN Holders(o) \cup {t} ELSE Holders(o),
         Killers(o)' = Killers(o), \A u \in Killers(o) : pc'[u] = pc[u]
  PROVE  Deletion(o)'
<1>1. CASE o # x
  BY <1>1, DeletionKept DEF Incref, TypeOK
<1>2. CASE o = x
  <2>1. refc'[o] = refc[o] + 1 /\ refc[o] \in Nat
    BY <1>2 DEF Incref, TypeOK
  <2>2. o \notin revived' => o \notin revived /\ Killers(o) = {}
    BY <1>2 DEF Incref
  <2> QED
    BY <1>2, <2>1, <2>2 DEF Deletion, Unknown, Settled, Registered
<1> QED
  BY <1>1, <1>2

LEMMA DeletionStep ==
  ASSUME CounterInv, KillInv, [Next]_vars, NEW o \in Objects
  PROVE  Deletion(o)'
<1> USE DEF Holders, Holding, InWait, Killers, Killing, TypeOK, CounterInv, Goto
<1>1. Deletion(o) /\ ListLocked
  BY KillInvParts
<1>2. CASE UNCHANGED vars
  BY <1>1, <1>2, DeletionKept DEF vars
<1>3. ASSUME NEW t \in Threads, Thread(t) PROVE Deletion(o)'
  <2> USE <1>1
  <2>1. ASSUME NEW x \in Objects, Create(t, x) PROVE Deletion(o)'
    <3>1. CASE o # x
      BY <2>1, <3>1, DeletionKept DEF Create
    <3>2. CASE o = x
      <4>1. Unknown(o) /\ status'[o] = "live" /\ refc' = refc /\ cancelled' = cancelled /\ pc' = pc /\ at' = at
        BY <2>1, <3>2 DEF Create, Deletion
      <4> QED
        BY <4>1 DEF Deletion, Unknown, Settled, Registered
    <3> QED
      BY <3>1, <3>2
  <2>2. ASSUME NEW x \in Objects, Lookup(t, x) PROVE Deletion(o)'
    <3>1. Registered(x) /\ Incref(x) /\ status' = status /\ cancelled' = cancelled
      BY <2>2 DEF Lookup
    <3>2. /\ Holders(o)' = IF o = x THEN Holders(o) \cup {t} ELSE Holders(o)
          /\ Killers(o)' = Killers(o) /\ \A u \in Killers(o) : pc'[u] = pc[u]
      BY <2>2 DEF Lookup
    <3> HIDE DEF Holders, Killers
    <3> QED
      BY <3>1, <3>2, DeletionIncref
  <2>3. ASSUME NEW x \in Objects, FilterTest(t, x) PROVE Deletion(o)'
    BY <2>3, DeletionKept DEF FilterTest
  <2>4. CASE ListEnter(t)
    BY <2>4, DeletionKept DEF ListEnter
  <2>5. CASE FilterIncref(t)
    <3>1. /\ at[t] \in Objects /\ Registered(at[t]) /\ Incref(at[t])
          /\ status' = status /\ cancelled' = cancelled
      BY <2>5 DEF FilterIncref, ListLocked
    <3>2. /\ Holders(o)' = IF o = at[t] THEN Holders(o) \cup {t} ELSE Holders(o)
          /\ Killers(o)' = Killers(o) /\ \A u \in Killers(o) : pc'[u] = pc[u]
      BY <2>5 DEF FilterIncref
    <3> HIDE DEF Holders, Killers
    <3> QED
      BY <3>1, <3>2, DeletionIncref
  <2>6. CASE ListLeave(t)
    BY <2>6, DeletionKept DEF ListLeave
  <2>7. CASE Cancel(t)
    <3>1. CASE o # at[t]
      BY <2>7, <3>1, DeletionKept DEF Cancel
    <3>2. CASE o = at[t]
      \* The caller holds the object, so it is not the last to know of it.
      <4>1. t \in Holders(o)
        BY <2>7, <3>2 DEF Cancel
      <4>2. refc[o] # 0
        BY <4>1, HolderCounted
      <4>3. /\ cancelled'[o] = TRUE /\ status' = status /\ refc' = refc /\ revived' = revived
            /\ pc' = pc /\ at' = at
        BY <2>7, <3>2 DEF Cancel
      <4> QED
        BY <4>1, <4>2, <4>3 DEF Deletion, Unknown, Settled, Registered
    <3> QED
      BY <3>1, <3>2
  <2>8. CASE Decref(t)
    <3>1. CASE o # at[t]
      BY <2>8, <3>1, DeletionKept DEF Decref
    <3>2. CASE o = at[t]
      <4>1. t \in Holders(o) /\ t \notin Killers(o) /\ status[o] # "freed"
        BY <2>8, <3>2 DEF Decref
      <4>2. refc[o] \in Nat /\ refc[o] # 0 /\ (refc[o] = 1 => Holders(o) = {t})
        BY <4>1, HolderCounted
      <4>3. /\ refc'[o] = refc[o] - 1 /\ status' = status /\ cancelled' = cancelled
            /\ revived' = revived /\ Holders(o)' = Holders(o) \ {t}
        BY <2>8, <3>2 DEF Decref
      \* Whoever found it in the gap did so in `revived'; otherwise nobody
      \* decided before, and the object still lives.
      <4>4. o \notin revived => Killers(o) = {} /\ status[o] = "live"
        BY <4>1, <4>2 DEF Deletion, Settled, Unknown
      <4>5. CASE cancelled[o] /\ refc'[o] = 0
        <5>1. Killers(o)' = Killers(o) \cup {t} /\ pc'[t] = "delete"
          BY <2>8, <3>2, <4>5 DEF Decref
        <5> HIDE DEF Holders, Killers
        <5> QED
          BY <4>1, <4>2, <4>3, <4>4, <4>5, <5>1 DEF Deletion, Unknown, Settled, Registered
      <4>6. CASE ~(cancelled[o] /\ refc'[o] = 0)
        <5>1. Killers(o)' = Killers(o) /\ \A u \in Killers(o) : pc'[u] = pc[u]
          BY <2>8, <3>2, <4>1, <4>6 DEF Decref
        <5> HIDE DEF Holders, Killers
        <5> QED
          BY <4>1, <4>2, <4>3, <4>4, <4>6, <5>1 DEF Deletion, Unknown, Settled, Registered
      <4> QED
        BY <4>5, <4>6
    <3> QED
      BY <3>1, <3>2
  <2>9. CASE Broadcast(t)
    BY <2>9, DeletionKept DEF Broadcast
  <2>10. CASE Delete(t)
    <3>1. CASE o # at[t]
      BY <2>10, <3>1, DeletionKept DEF Delete
    <3>2. CASE o = at[t]
      <4>1. /\ t \in Killers(o) /\ status[o] = "live" /\ status'[o] = "dying"
            /\ refc' = refc /\ cancelled' = cancelled /\ revived' = revived
            /\ Holders(o)' = Holders(o) /\ Killers(o)' = Killers(o) /\ pc'[t] = "unregister"
        BY <2>10, <3>2 DEF Delete
      <4> HIDE DEF Holders, Killers
      <4> QED
        BY <4>1 DEF Deletion, Unknown, Settled, Registered
    <3> QED
      BY <3>1, <3>2
  <2>11. CASE Unregister(t)
    <3>1. CASE o # at[t]
      BY <2>11, <3>1, DeletionKept DEF Unregister
    <3>2. CASE o = at[t]
      <4>1. /\ t \in Killers(o) /\ status'[o] = "freed"
            /\ refc' = refc /\ cancelled' = cancelled /\ revived' = revived
            /\ Holders(o)' = Holders(o) /\ Killers(o)' = Killers(o) \ {t}
        BY <2>11, <3>2 DEF Unregister
      <4>2. o \notin revived => Holders(o) = {} /\ Killers(o) = {t}
        BY <4>1, HolderCounted DEF Deletion, Settled
      <4> HIDE DEF Holders, Killers
      <4> QED
        BY <4>1, <4>2 DEF Deletion, Unknown, Settled, Registered
    <3> QED
      BY <3>1, <3>2
  <2>12. CASE WaitEnter(t)
    BY <2>12, DeletionKept DEF WaitEnter
  <2>13. CASE Sleep(t)
    BY <2>13, DeletionKept DEF Sleep
  <2>14. CASE SpuriousWake(t)
    BY <2>14, DeletionKept DEF SpuriousWake
  <2>15. CASE Awake(t)
    BY <2>15, DeletionKept DEF Awake
  <2>16. CASE Check(t)
    BY <2>16, DeletionKept DEF Check
  <2> QED
    BY <1>3, <2>1, <2>2, <2>3, <2>4, <2>5, <2>6, <2>7, <2>8, <2>9, <2>10,
       <2>11, <2>12, <2>13, <2>14, <2>15, <2>16 DEF Thread
<1> QED
  BY <1>2, <1>3 DEF Next

LEMMA KillStep ==
  ASSUME CounterInv, KillInv, [Next]_vars PROVE KillInv'
<1>1. ListLocked'
  BY ListLockedStep DEF CounterInv, KillInv
<1>2. \A o \in Objects : Deletion(o)'
  BY DeletionStep
<1> QED
  BY <1>1, <1>2 DEF KillInv, Deletion, OnlyCancelledDie, NoneForgotten

LEMMA KillInit == Init => KillInv
BY DEF Init, KillInv, ListLocked, Unknown, Settled, OnlyCancelledDie, NoneForgotten,
       Registered, Holders, Holding, InWait, Killers, Killing

\* Only objects that were found again in the stock after decref() had chosen
\* to delete them are used after their destruction or deleted twice.
LEMMA SettledNotMisused == CounterInv /\ KillInv => OnlyRevivedMisused
BY DEF KillInv, Settled, OnlyRevivedMisused, Misused

LEMMA KillInvariant == Spec => [](CounterInv /\ KillInv)
<1>1. Init => CounterInv /\ KillInv
  BY CounterInit, KillInit DEF CounterInv
<1>2. (CounterInv /\ KillInv) /\ [Next]_vars => (CounterInv /\ KillInv)'
  BY TypeStep, RefcStep, KillStep DEF CounterInv
<1> QED
  BY <1>1, <1>2, PTL DEF Spec

\* For any number of threads and objects: an object that nobody finds in the
\* stock once decref() has chosen to delete it (object.cc:52-65) is deleted
\* once, and nobody holds it then.
THEOREM DeletionSafe == Spec => []OnlyRevivedMisused
BY KillInvariant, SettledNotMisused, PTL

\* For any number of threads and objects: a cancelled object without
\* references has somebody about to delete it (object.cc:52-65).
THEOREM NoLeak == Spec => []NoneForgotten
<1>1. KillInv => NoneForgotten
  BY DEF KillInv
<1> QED
  BY <1>1, KillInvariant, PTL

\* For any number of threads and objects: an object that nobody cancelled is
\* not destroyed (object.h:25-27).
THEOREM OnlyTheCancelled == Spec => []OnlyCancelledDie
<1>1. KillInv => OnlyCancelledDie
  BY DEF KillInv
<1> QED
  BY <1>1, KillInvariant, PTL

----------------------------------------------------------------------------
(* wait().                                                                 *)

WakeInv == /\ \A t \in asleep : pc[t] = "sleep"
           /\ SleeperWoken

\* A step that neither ends anybody's wait nor broadcasts.
LEMMA WakeKept ==
  ASSUME TypeOK, WakeInv,
         asleep' \subseteq asleep, overslept' = overslept,
         \A t \in asleep' : pc'[t] = "sleep" /\ at'[t] = at[t] /\ (Over(at[t])' => Over(at[t])),
         \A u \in Threads : pc[u] = "signal" => pc'[u] = "signal"
  PROVE  WakeInv'
BY DEF WakeInv, SleeperWoken, TypeOK

LEMMA WakeStep ==
  ASSUME CounterInv, WakeInv, [Next]_vars PROVE WakeInv'
<1> USE DEF WakeInv, TypeOK, CounterInv, Over, Goto
<1>1. \A t \in asleep : at[t] \in Objects /\ t \in Holders(at[t]) /\ refc[at[t]] # 0
  <2>1. \A t \in asleep : at[t] \in Objects /\ t \in Holders(at[t])
    BY DEF Holders, Holding, InWait
  <2> QED
    BY <2>1, HolderCounted
<1>2. CASE UNCHANGED vars
  BY <1>2, WakeKept DEF vars
<1>3. ASSUME NEW u \in Threads, Thread(u) PROVE WakeInv'
  <2>1. ASSUME NEW x \in Objects, Create(u, x) PROVE WakeInv'
    BY <2>1, WakeKept DEF Create
  <2>2. ASSUME NEW x \in Objects, Lookup(u, x) PROVE WakeInv'
    \* A new reference ends nobody's wait: the sleeper holds one already.
    BY <1>1, <2>2, WakeKept DEF Lookup, Incref
  <2>3. ASSUME NEW x \in Objects, FilterTest(u, x) PROVE WakeInv'
    BY <2>3, WakeKept DEF FilterTest
  <2>4. CASE ListEnter(u)
    BY <2>4, WakeKept DEF ListEnter
  <2>5. CASE FilterIncref(u)
    BY <1>1, <2>5, WakeKept DEF FilterIncref, Incref
  <2>6. CASE ListLeave(u)
    BY <2>6, WakeKept DEF ListLeave
  <2>7. CASE Cancel(u)
    \* Nor does a cancellation: it is made by another holder.
    <3>1. ASSUME NEW t \in asleep, Over(at[t])' PROVE Over(at[t])
      <4>1. CASE at[t] # at[u]
        BY <1>1, <2>7, <3>1, <4>1 DEF Cancel
      <4>2. CASE at[t] = at[u]
        <5>1. t # u /\ {t, u} \subseteq Holders(at[t]) /\ at[t] \in Objects
          BY <1>1, <2>7, <4>2 DEF Cancel, Holders, Holding
        <5>2. refc[at[t]] # 1
          BY <5>1, HolderCounted
        <5> QED
          BY <2>7, <3>1, <5>2 DEF Cancel
      <4> QED
        BY <4>1, <4>2
    <3> QED
      BY <2>7, <3>1, WakeKept DEF Cancel
  <2>8. CASE Decref(u)
    <3>1. ASSUME NEW t \in asleep, t \notin overslept, Over(at[t])'
          PROVE  \E w \in Threads : pc'[w] = "signal"
      <4>1. CASE at[t] # at[u]
        <5>1. Over(at[t])
          BY <1>1, <2>8, <3>1, <4>1 DEF Decref
        <5>2. PICK w \in Threads : pc[w] = "signal"
          BY <3>1, <5>1 DEF SleeperWoken
        <5> QED
          BY <2>8, <5>2 DEF Decref
      <4>2. CASE at[t] = at[u]
        BY <1>1, <2>8, <3>1, <4>2 DEF Decref
      <4> QED
        BY <4>1, <4>2
    <3> QED
      BY <2>8, <3>1 DEF Decref, SleeperWoken
  <2>9. CASE Broadcast(u)
    BY <2>9 DEF Broadcast, SleeperWoken
  <2>10. CASE Delete(u)
    BY <2>10, WakeKept DEF Delete
  <2>11. CASE Unregister(u)
    BY <2>11, WakeKept DEF Unregister
  <2>12. CASE WaitEnter(u)
    BY <2>12, WakeKept DEF WaitEnter
  <2>13. CASE Sleep(u)
    <3>1. ASSUME NEW t \in asleep', t \notin overslept', Over(at[t])'
          PROVE  \E w \in Threads : pc'[w] = "signal"
      <4>1. \E w \in Threads : pc[w] = "signal"
        BY <2>13, <3>1 DEF Sleep, SleeperWoken
      <4> QED
        BY <2>13, <4>1 DEF Sleep
    <3> QED
      BY <2>13, <3>1 DEF Sleep, SleeperWoken
  <2>14. CASE SpuriousWake(u)
    BY <2>14, WakeKept DEF SpuriousWake
  <2>15. CASE Awake(u)
    BY <2>15, WakeKept DEF Awake
  <2>16. CASE Check(u)
    BY <2>16, WakeKept DEF Check
  <2> QED
    BY <1>3, <2>1, <2>2, <2>3, <2>4, <2>5, <2>6, <2>7, <2>8, <2>9, <2>10,
       <2>11, <2>12, <2>13, <2>14, <2>15, <2>16 DEF Thread
<1> QED
  BY <1>2, <1>3 DEF Next

\* For any number of threads, objects and waiters, and whatever of laze.mx a
\* sleeper gives up: a sleeper whose wait is over and who did not fall asleep
\* after the last broadcast is woken (object.cc:45-61, 86-104).
THEOREM WakeUpPending == Spec => []SleeperWoken
<1>1. Init => CounterInv /\ WakeInv
  BY CounterInit DEF Init, CounterInv, WakeInv, SleeperWoken
<1>2. (CounterInv /\ WakeInv) /\ [Next]_vars => (CounterInv /\ WakeInv)'
  BY TypeStep, RefcStep, WakeStep DEF CounterInv
<1>3. WakeInv => SleeperWoken
  BY DEF WakeInv
<1> QED
  BY <1>1, <1>2, <1>3, PTL DEF Spec
=============================================================================
