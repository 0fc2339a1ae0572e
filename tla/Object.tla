------------------------------- MODULE Object -------------------------------
(***************************************************************************)
(* The life of an object (common/object.h, common/object.cc): reference    *)
(* counting, cancellation, destruction, and wait().                        *)
(*                                                                         *)
(* Every thread runs library calls that keep one reference at a time:      *)
(*   - a pobject<> on its stack (rascal_cancel, rascal_wait, rascal_read,  *)
(*     ..): _lookup .. _release;                                           *)
(*   - a worker's pick: list() with a filter that takes the reference, and *)
(*     a decref() when the worker is done.                                 *)
(* A thread with several references at once stands here for several        *)
(* threads; the calls of one thread only order what is free here.          *)
(*                                                                         *)
(* A step is what runs under one mutex, or one access outside any.  The    *)
(* mutex of the object (incref, decref) is never held across another one,  *)
(* so it needs no variable; the mutex of the stock is held by list() while *)
(* it calls the filter and is a variable; so is laze.mx.                   *)
(*                                                                         *)
(* After a destroyed object was touched the program has no meaning: the    *)
(* thread that touched it takes no further step.                           *)
(***************************************************************************)
EXTENDS Integers, FiniteSets

CONSTANTS Threads,
          Workers,        \* threads that pick objects with list()
          Waiters,        \* threads that may call rascal_wait()
          Objects,
          Nobody, NoObject,
          FullRelease     \* pthread_cond_wait on a mutex locked twice: TRUE
                          \* when the platform gives up both levels, FALSE
                          \* when it gives up one (POSIX defines neither)

ASSUME ObjectAssumption == /\ IsFiniteSet(Threads)
                           /\ Workers \subseteq Threads
                           /\ Waiters \subseteq Threads
                           /\ Nobody \notin Threads
                           /\ NoObject \notin Objects
                           /\ FullRelease \in BOOLEAN

VARIABLES status,         \* the memory: "unborn", "live", "dying" (inside a destructor), "freed"
          refc,           \* object::refc
          cancelled,      \* object::cancelled
          pc, at,         \* where each thread is, and the object its call is about
          stockMx,        \* owner of object_stock.mx
          lazeMx,         \* owner of laze.mx
          asleep,         \* threads in the wait set of laze
          revived,        \* history: objects referenced again after decref() chose to delete them
          overslept       \* history: threads that went to sleep when nobody was left to wake them

vars == <<status, refc, cancelled, pc, at, stockMx, lazeMx, asleep, revived, overslept>>

\* The stock finds an object from its constructor to the end of its destructor.
Registered(o) == status[o] \in {"live", "dying"}

\* Program points of wait(), and those at which a thread owns a reference.
InWait  == {"enter", "wait", "sleep", "check"}
Holding == {"holding", "release"} \cup InWait
\* decref() has chosen to delete the object.
Killing == {"delete", "unregister"}

Holders(o) == {t \in Threads : at[t] = o /\ pc[t] \in Holding}
Killers(o) == {t \in Threads : at[t] = o /\ pc[t] \in Killing}

Init == /\ status = [o \in Objects |-> "unborn"]
        /\ refc = [o \in Objects |-> 0]
        /\ cancelled = [o \in Objects |-> FALSE]
        /\ pc = [t \in Threads |-> "idle"]
        /\ at = [t \in Threads |-> NoObject]
        /\ stockMx = Nobody
        /\ lazeMx = Nobody
        /\ asleep = {}
        /\ revived = {}
        /\ overslept = {}

Goto(t, p) == pc' = [pc EXCEPT ![t] = p]

----------------------------------------------------------------------------
(* Faulty variants of the actions below: plausible slips, each of which    *)
(* some property of this module notices.  No specification uses them.      *)

\* Faulty: _lookup does not count the reference.
LookupUncounted(t, o) ==
  /\ pc[t] = "idle" /\ stockMx = Nobody
  /\ Registered(o)
  /\ Goto(t, "holding")
  /\ at' = [at EXCEPT ![t] = o]
  /\ UNCHANGED <<status, refc, cancelled, stockMx, lazeMx, asleep, revived, overslept>>

\* Faulty: the filter picks without incref().
FilterUncounted(t) ==
  /\ pc[t] = "filter"
  /\ Goto(t, "holding")
  /\ stockMx' = Nobody
  /\ UNCHANGED <<status, refc, cancelled, at, lazeMx, asleep, revived, overslept>>

\* Faulty: the last but one reference deletes.
DecrefEarly(t) ==
  LET o      == at[t]
      killme == refc[o] - 1 =< 1 /\ cancelled[o]
      signal == FALSE
  IN
  /\ pc[t] \in {"holding", "release"} /\ status[o] # "freed"
  /\ refc' = [refc EXCEPT ![o] = @ - 1]
  /\ Goto(t, IF killme THEN "delete" ELSE IF signal THEN "signal" ELSE "idle")
  /\ UNCHANGED <<status, cancelled, at, stockMx, lazeMx, asleep, revived, overslept>>

\* Faulty: the tests look at the counter before it is decremented.
DecrefStale(t) ==
  LET o      == at[t]
      killme == refc[o] = 0 /\ cancelled[o]
      signal == refc[o] = 1 /\ cancelled[o]
  IN
  /\ pc[t] \in {"holding", "release"} /\ status[o] # "freed"
  /\ refc' = [refc EXCEPT ![o] = @ - 1]
  /\ Goto(t, IF killme THEN "delete" ELSE IF signal THEN "signal" ELSE "idle")
  /\ UNCHANGED <<status, cancelled, at, stockMx, lazeMx, asleep, revived, overslept>>

\* Faulty: one waiter is woken instead of all.
BroadcastOne(t) ==
  /\ pc[t] = "signal"
  /\ \/ asleep = {} /\ UNCHANGED asleep
     \/ \E u \in asleep : asleep' = asleep \ {u}
  /\ Goto(t, "idle")
  /\ UNCHANGED <<status, refc, cancelled, at, stockMx, lazeMx, revived, overslept>>

----------------------------------------------------------------------------
\* object::object: registered at once, with no reference.
Create(t, o) ==
  /\ pc[t] = "idle" /\ stockMx = Nobody
  /\ status[o] = "unborn"
  /\ status' = [status EXCEPT ![o] = "live"]
  /\ UNCHANGED <<refc, cancelled, pc, at, stockMx, lazeMx, asleep, revived, overslept>>

\* incref(), and the history of objects that were already given up.
Incref(o) ==
  /\ refc' = [refc EXCEPT ![o] = @ + 1]
  /\ revived' = IF Killers(o) = {} THEN revived ELSE revived \cup {o}

\* object::_lookup: get and incref under the mutex of the stock.  rascal_wait
\* goes on with wait(), the other calls use the object.
Lookup(t, o) ==
  /\ pc[t] = "idle" /\ stockMx = Nobody
  /\ Registered(o)
  /\ Incref(o)
  /\ \/ Goto(t, "holding")
     \/ t \in Waiters /\ Goto(t, "enter")
  /\ at' = [at EXCEPT ![t] = o]
  /\ UNCHANGED <<status, cancelled, stockMx, lazeMx, asleep, overslept>>

\* object::list takes the mutex of the stock ..
ListEnter(t) ==
  /\ pc[t] = "idle" /\ t \in Workers /\ stockMx = Nobody
  /\ stockMx' = t
  /\ Goto(t, "list")
  /\ UNCHANGED <<status, refc, cancelled, at, lazeMx, asleep, revived, overslept>>

\* .. the filter sees an object that is not cancelled ..
FilterTest(t, o) ==
  /\ pc[t] = "list"
  /\ Registered(o) /\ ~cancelled[o]
  /\ Goto(t, "filter")
  /\ at' = [at EXCEPT ![t] = o]
  /\ UNCHANGED <<status, refc, cancelled, stockMx, lazeMx, asleep, revived, overslept>>

\* .. and takes the reference, which the worker keeps when list() returns.
FilterIncref(t) ==
  /\ pc[t] = "filter"
  /\ Incref(at[t])
  /\ Goto(t, "holding")
  /\ stockMx' = Nobody
  /\ UNCHANGED <<status, cancelled, at, lazeMx, asleep, overslept>>

\* list() found no object to pick.
ListLeave(t) ==
  /\ pc[t] = "list"
  /\ Goto(t, "idle")
  /\ stockMx' = Nobody
  /\ UNCHANGED <<status, refc, cancelled, at, lazeMx, asleep, revived, overslept>>

\* object::cancel, called by whoever holds a reference, under no lock.
Cancel(t) ==
  /\ pc[t] = "holding" /\ status[at[t]] # "freed"
  /\ cancelled' = [cancelled EXCEPT ![at[t]] = TRUE]
  /\ UNCHANGED <<status, refc, pc, at, stockMx, lazeMx, asleep, revived, overslept>>

\* object::decref: what it decides under the mutex of the object.
Decref(t) ==
  LET o == at[t] IN
  /\ pc[t] \in {"holding", "release"} /\ status[o] # "freed"
  /\ refc' = [refc EXCEPT ![o] = @ - 1]
  /\ \/ cancelled[o] /\ refc'[o] = 1 /\ Goto(t, "signal")
     \/ cancelled[o] /\ refc'[o] = 0 /\ Goto(t, "delete")
     \/ ~(cancelled[o] /\ refc'[o] \in {0, 1}) /\ Goto(t, "idle")
  /\ UNCHANGED <<status, cancelled, at, stockMx, lazeMx, asleep, revived, overslept>>

\* laze.broadcast(), without laze.mx.
Broadcast(t) ==
  /\ pc[t] = "signal"
  /\ asleep' = {}
  /\ Goto(t, "idle")
  /\ UNCHANGED <<status, refc, cancelled, at, stockMx, lazeMx, revived, overslept>>

\* delete this: the destructors of the derived classes run first ..
Delete(t) ==
  /\ pc[t] = "delete" /\ status[at[t]] = "live"
  /\ status' = [status EXCEPT ![at[t]] = "dying"]
  /\ Goto(t, "unregister")
  /\ UNCHANGED <<refc, cancelled, at, stockMx, lazeMx, asleep, revived, overslept>>

\* .. then object::~object removes the id, and the memory is freed.
Unregister(t) ==
  /\ pc[t] = "unregister" /\ stockMx = Nobody
  /\ status[at[t]] = "dying"
  /\ status' = [status EXCEPT ![at[t]] = "freed"]
  /\ Goto(t, "idle")
  /\ UNCHANGED <<refc, cancelled, at, stockMx, lazeMx, asleep, revived, overslept>>

----------------------------------------------------------------------------
\* object::wait enters laze.mx and keeps it until it returns.
WaitEnter(t) ==
  /\ pc[t] = "enter" /\ lazeMx = Nobody
  /\ lazeMx' = t
  /\ Goto(t, "wait")
  /\ UNCHANGED <<status, refc, cancelled, at, stockMx, asleep, revived, overslept>>

\* What wait() waits for.
Over(o) == refc[o] = 1 /\ cancelled[o]

\* It sleeps before it looks.  waitex() locks laze.mx a second time, so what
\* the sleeper gives up depends on the platform.
Sleep(t) ==
  /\ pc[t] = "wait"
  /\ asleep' = asleep \cup {t}
  /\ lazeMx' = IF FullRelease THEN Nobody ELSE t
  /\ Goto(t, "sleep")
  /\ overslept' = IF Over(at[t]) /\ (\A u \in Threads : pc[u] # "signal")
                  THEN overslept \cup {t} ELSE overslept \ {t}
  /\ UNCHANGED <<status, refc, cancelled, at, stockMx, revived>>

\* pthread_cond_wait may return for no reason.
SpuriousWake(t) ==
  /\ t \in asleep
  /\ asleep' = asleep \ {t}
  /\ UNCHANGED <<status, refc, cancelled, pc, at, stockMx, lazeMx, revived, overslept>>

\* The sleeper is awake and has laze.mx again.
Awake(t) ==
  /\ pc[t] = "sleep" /\ t \notin asleep
  /\ lazeMx = IF FullRelease THEN Nobody ELSE t
  /\ lazeMx' = t
  /\ Goto(t, "check")
  /\ UNCHANGED <<status, refc, cancelled, at, stockMx, asleep, revived, overslept>>

\* The test of the loop: leave, with the reference still to be released, or
\* sleep again.
Check(t) ==
  /\ pc[t] = "check" /\ status[at[t]] # "freed"
  /\ IF Over(at[t])
     THEN lazeMx' = Nobody /\ Goto(t, "release")
     ELSE lazeMx' = lazeMx /\ Goto(t, "wait")
  /\ UNCHANGED <<status, refc, cancelled, at, stockMx, asleep, revived, overslept>>

----------------------------------------------------------------------------
Thread(t) ==
  \/ \E o \in Objects : Create(t, o) \/ Lookup(t, o) \/ FilterTest(t, o)
  \/ ListEnter(t) \/ FilterIncref(t) \/ ListLeave(t)
  \/ Cancel(t) \/ Decref(t) \/ Broadcast(t) \/ Delete(t) \/ Unregister(t)
  \/ WaitEnter(t) \/ Sleep(t) \/ SpuriousWake(t) \/ Awake(t) \/ Check(t)

Next == \E t \in Threads : Thread(t)

Spec == Init /\ [][Next]_vars

\* A call that was begun goes on: from each of its points but the first the
\* code has one way to go.
Continue(t) ==
  \/ FilterIncref(t) \/ ListLeave(t) \/ Decref(t) \/ Broadcast(t) \/ Delete(t) \/ Unregister(t)
  \/ WaitEnter(t) \/ Sleep(t) \/ Awake(t) \/ Check(t)

\* Strongly fair, for a thread that wants the mutex of the stock gets it, since
\* list() holds it only for one pass over the table, and so does one that
\* wants laze.mx whenever it is free again and again.  Nobody has to begin a
\* call, to cancel, or to wait.
Fairness == \A t \in Threads : SF_vars(Continue(t))

FairSpec == Spec /\ Fairness

----------------------------------------------------------------------------
\* Every variable has its type, and a thread inside a call is about an object.
TypeOK ==
  /\ status \in [Objects -> {"unborn", "live", "dying", "freed"}]
  /\ refc \in [Objects -> Nat]
  /\ cancelled \in [Objects -> BOOLEAN]
  /\ pc \in [Threads -> {"idle", "list", "filter", "signal"} \cup Holding \cup Killing]
  /\ at \in [Threads -> Objects \cup {NoObject}]
  /\ \A t \in Threads : at[t] = NoObject => pc[t] \in {"idle", "list"}
  /\ stockMx \in Threads \cup {Nobody}
  /\ lazeMx \in Threads \cup {Nobody}
  /\ asleep \subseteq Threads
  /\ revived \subseteq Objects
  /\ overslept \subseteq Threads

\* The counter of an object is the number of threads that hold it
\* (object.h:104-106), however lookups, picks, releases and waits interleave.
RefcExact == \A o \in Objects : refc[o] = Cardinality(Holders(o))

\* A destroyed object that some thread still holds, or that two threads delete.
Misused(o) == \/ status[o] = "freed" /\ Holders(o) \cup Killers(o) # {}
              \/ \E t, u \in Killers(o) : t # u

\* Objects "are only deleted when they are not used by the library" (object.h:14),
\* thanks to the counter, but for one gap: an object that decref() chose
\* to delete (object.cc:54) stays in the stock until its destructor ends
\* (object.cc:34), and can be found there.  An object that nobody finds in
\* that gap is deleted once, and held by nobody then.
OnlyRevivedMisused == \A o \in Objects : Misused(o) => o \in revived

\* An object that is cancelled and no longer referenced is not forgotten: as
\* long as it exists, some thread is about to delete it.
NoneForgotten ==
  \A o \in Objects :
    Registered(o) /\ cancelled[o] /\ refc[o] = 0 => Killers(o) # {}

\* Objects that nobody cancelled are not destroyed (object.h:25-27).
OnlyCancelledDie ==
  \A o \in Objects : status[o] \in {"dying", "freed"} \/ Killers(o) # {} => cancelled[o]

\* A sleeper whose wait is over (object.cc:45-47) will be woken: its broadcast
\* is still to come, unless it fell asleep after the last one.
SleeperWoken ==
  \A t \in asleep \ overslept :
    Over(at[t]) => \E u \in Threads : pc[u] = "signal"

\* A cancelled object without references is freed in the end, or somebody
\* found it again first.
Reclaimed ==
  \A o \in Objects :
    (Registered(o) /\ cancelled[o] /\ refc[o] = 0) ~> (status[o] = "freed" \/ o \in revived)
=============================================================================
