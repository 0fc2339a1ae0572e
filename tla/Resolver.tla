------------------------------ MODULE Resolver ------------------------------
(***************************************************************************)
(* The resolver's queue of requests (common/resolver/request.cc), its      *)
(* monitor thread (monitor.cc) and the lookups that derive from request    *)
(* (rascal_getaddr.cc, rascal_gethost.cc).                                 *)
(*                                                                         *)
(*   - Clients start lookups, and cancel them by their ids.                *)
(*   - The worker that serves the name server's connection delivers        *)
(*     replies.  There is one such connection, and one worker at a time    *)
(*     (Connection!ServedByOne).                                           *)
(*   - The monitor sends requests again, and ends them when that was done  *)
(*     often enough.                                                       *)
(*                                                                         *)
(* A reply, the monitor and rascal_cancel end a request the same way: call *)
(* the client back, unlist, set the flag, drop the reference of the queue. *)
(* A step is what runs under one mutex, or one access outside any.         *)
(*                                                                         *)
(* A block is the memory of a request.  pmfree() leaves the content of a   *)
(* block as it is (util/memory.cc:44-56) and pmalloc() hands it out again, *)
(* so a thread with a pointer into a freed block goes on with what it      *)
(* finds there.  refc is unsigned in the code; a counter below zero stands *)
(* for one just below 2^32.                                                *)
(*                                                                         *)
(* Not modelled: the instant between the constructor of request, which     *)
(* queues it, and the end of the constructor of the derived class.         *)
(***************************************************************************)
EXTENDS Integers, Sequences, FiniteSets
LOCAL INSTANCE SequencesExt

CONSTANTS Clients, Worker, Monitor,
          Blocks, NoReq,
          IdSpan,         \* packet ids: 2^16 - 1 in the code
          Repeat,         \* RO_DNS_RETRY
          MaxNew,         \* bound: requests made
          NsMayFail       \* whether the name server's connection may be closed

ASSUME ResolverAssumption == /\ Worker \notin Clients /\ Monitor \notin Clients \cup {Worker}
                             /\ NoReq \notin Blocks
                             /\ {IdSpan, Repeat} \subseteq Nat \ {0} /\ MaxNew \in Nat
                             /\ NsMayFail \in BOOLEAN

Threads == Clients \cup {Worker, Monitor}

VARIABLES
  req,          \* the blocks
  queue,        \* from request::queue along next
  mx,           \* request::mx is held by the monitor's walk
  lastid, made, \* request::lastid, and how many requests were made
  due,          \* requests with now > tstamp + rcount * timeout
  ns, wire,     \* the name server: its connection, and the ids it was asked
  pc, at,       \* where each thread is, and the request it points to
  then,         \* where it goes on after a deletion
  seen,         \* the value of rcount that rcount++ has read
  found,        \* the monitor's `rc'
  \* history
  past,         \* of each request: callbacks, endings, transmissions
  stale,        \* threads whose request was freed under them
  lost          \* the monitor was posted to while it did not wait

shared  == <<queue, mx, lastid, made, due, ns, wire>>
threads == <<pc, at, then, seen, found>>
history == <<past, stale, lost>>
vars    == <<req, shared, threads, history>>

Set(b, field, v) == req' = [req EXCEPT ![b][field] = v]
Goto(t, p)       == pc' = [pc EXCEPT ![t] = p]
Head1(q)         == IF q = << >> THEN NoReq ELSE q[1]
Exists(b)        == req[b].exists
Resting          == {"idle", "asleep", "cycle"}   \* the thread points to no request

Init ==
  /\ req = [b \in Blocks |-> [exists |-> FALSE, id |-> 0, listed |-> FALSE, refc |-> 0,
                              cancelled |-> FALSE, rcount |-> 0, next |-> NoReq, fits |-> FALSE]]
  /\ queue = << >> /\ mx = FALSE /\ lastid = 0 /\ made = 0 /\ due = {}
  /\ ns = TRUE /\ wire = {}
  /\ pc = [t \in Threads |-> "idle"] /\ at = [t \in Threads |-> NoReq]
  /\ then = [t \in Threads |-> "idle"] /\ seen = [t \in Threads |-> 0] /\ found = FALSE
  /\ past = [b \in Blocks |-> [calls |-> 0, ends |-> 0, sends |-> 0, known |-> FALSE]]
  /\ stale = {} /\ lost = FALSE

Within(q, b) == \E k \in 1 .. Len(q) : q[k] = b
Place(q, b)  == CHOOSE k \in 1 .. Len(q) : q[k] = b

\* The links of the queue q; a block that is not in it keeps its link.
Linked(r, q) == [b \in Blocks |->
                   IF Within(q, b)
                   THEN [r[b] EXCEPT !.next = IF Place(q, b) < Len(q) THEN q[Place(q, b) + 1] ELSE NoReq]
                   ELSE r[b]]

\* unlist() keeps what is not b; the queue holds b once (QueueSound).
Unlisted(b, r) == /\ queue' = IF Within(queue, b) THEN RemoveAt(queue, Place(queue, b)) ELSE queue
                  /\ req' = [Linked(r, queue') EXCEPT ![b].listed = FALSE]

----------------------------------------------------------------------------
(* Clients.                                                                *)

\* request::request: an id other than 0, a place at the end of the queue, and
\* the reference of the queue.  Its name fits into a packet, or dump() will
\* refuse it (Packet!Dump, Packet!PutName).
New(c, b) ==
  /\ pc[c] = "idle" /\ ~mx /\ made < MaxNew /\ ~Exists(b)
  /\ made' = made + 1
  /\ lastid' = (lastid % IdSpan) + 1
  /\ queue' = Append(queue, b)
  /\ \E fits \in BOOLEAN :
       req' = Linked([req EXCEPT ![b] = [exists |-> TRUE, id |-> lastid', listed |-> TRUE, refc |-> 1,
                                         cancelled |-> FALSE, rcount |-> 0, next |-> NoReq, fits |-> fits]], queue')
  /\ due' = due \ {b}
  /\ past' = [past EXCEPT ![b] = [calls |-> 0, ends |-> 0, sends |-> 0, known |-> FALSE]]
  /\ at' = [at EXCEPT ![c] = b] /\ Goto(c, "send")
  /\ UNCHANGED <<mx, ns, wire, then, seen, found, stale, lost>>

\* flush(): write a packet to the name server, if there is one and dump() made
\* a packet of the request.
Send(t) ==
  /\ pc[t] = "send"
  /\ IF ns /\ req[at[t]].fits
     THEN /\ wire' = wire \cup {req[at[t]].id}
          /\ past' = [past EXCEPT ![at[t]].sends = IF t \in stale THEN @ ELSE @ + 1]
          /\ Goto(t, "count")
     ELSE /\ Goto(t, IF t = Monitor THEN "again" ELSE "refuse")
          /\ UNCHANGED <<wire, past>>
  /\ UNCHANGED <<req, queue, mx, lastid, made, due, ns, at, then, seen, found, stale, lost>>

\* rcount++, which no mutex guards ..
Count(t) ==
  /\ pc[t] = "count"
  /\ seen' = [seen EXCEPT ![t] = req[at[t]].rcount]
  /\ Goto(t, "store")
  /\ UNCHANGED <<req, shared, at, then, found, history>>

\* The client gets the id; the monitor goes on with its walk.
Flushed(t, p) ==
  /\ pc' = [p EXCEPT ![t] = IF t = Monitor THEN "again" ELSE "idle"]
  /\ past' = [past EXCEPT ![at[t]].known = @ \/ (t # Monitor /\ t \notin stale)]
  /\ stale' = IF t = Monitor THEN stale ELSE stale \ {t}

\* Faulty: nothing is counted.
StoreUncounted(t) ==
  /\ pc[t] = "store"
  /\ seen' = [seen EXCEPT ![t] = 0] /\ due' = due \ {at[t]}
  /\ IF seen[t] = 0 THEN Goto(t, "wake") /\ UNCHANGED <<past, stale>> ELSE Flushed(t, pc)
  /\ UNCHANGED <<req, queue, mx, lastid, made, ns, wire, at, then, found, lost>>

\* .. and the time of the next attempt moves on.
Store(t) ==
  /\ pc[t] = "store"
  /\ Set(at[t], "rcount", seen[t] + 1)
  /\ due' = due \ {at[t]}
  /\ seen' = [seen EXCEPT ![t] = 0]
  /\ IF seen[t] = 0 THEN Goto(t, "wake") /\ UNCHANGED <<past, stale>> ELSE Flushed(t, pc)
  /\ UNCHANGED <<queue, mx, lastid, made, ns, wire, at, then, found, lost>>

\* wake_monitor(): a condition variable forgets a post nobody waits for.
Wake(t) ==
  /\ pc[t] = "wake"
  /\ IF pc[Monitor] = "asleep"
     THEN Flushed(t, [pc EXCEPT ![Monitor] = "cycle"]) /\ UNCHANGED lost
     ELSE Flushed(t, pc) /\ lost' = TRUE
  /\ UNCHANGED <<req, shared, at, then, seen, found>>

\* No packet, or no name server: `delete this' in the constructor.
Refuse(c) ==
  /\ pc[c] = "refuse"
  /\ Goto(c, "delete") /\ then' = [then EXCEPT ![c] = "idle"]
  /\ UNCHANGED <<req, shared, at, seen, found, history>>

\* Faulty: without the reference.
LookupUncounted(c, b) ==
  /\ pc[c] = "idle" /\ Exists(b) /\ past[b].known
  /\ \A t \in Threads : at[t] = b => pc[t] # "delete"
  /\ at' = [at EXCEPT ![c] = b] /\ Goto(c, "call")
  /\ UNCHANGED <<req, shared, then, seen, found, history>>

\* rascal_cancel: a reference to the object with the id.  (That it may find
\* one whose deletion has been decided is in Object: ObjectRace.cfg.)
Lookup(c, b) ==
  /\ pc[c] = "idle" /\ Exists(b) /\ past[b].known
  /\ \A t \in Threads : at[t] = b => pc[t] # "delete"
  /\ Set(b, "refc", req[b].refc + 1)
  /\ at' = [at EXCEPT ![c] = b] /\ Goto(c, "call")
  /\ UNCHANGED <<shared, then, seen, found, history>>

----------------------------------------------------------------------------
(* The worker: request::on_read.                                           *)

\* A name server that was asked may answer, at any time and more than once.
\* pick() takes the first request with the id, and no reference to it.
Pick(b) ==
  /\ pc[Worker] = "idle" /\ ns /\ ~mx
  /\ req[b].id \in wire
  /\ \E k \in 1 .. Len(queue) : queue[k] = b /\ \A j \in 1 .. k - 1 : req[queue[j]].id # req[b].id
  /\ at' = [at EXCEPT ![Worker] = b] /\ Goto(Worker, "picked")
  /\ UNCHANGED <<req, shared, then, seen, found, history>>

Incref ==
  /\ pc[Worker] = "picked"
  /\ Set(at[Worker], "refc", req[at[Worker]].refc + 1)
  /\ Goto(Worker, "call")
  /\ UNCHANGED <<shared, at, then, seen, found, history>>

----------------------------------------------------------------------------
(* The end of a request: getaddr::on_event and getaddr::cancel.            *)

\* Faulty: the monitor calls request::cancel, which calls nobody back.
CallQuiet(t) ==
  /\ pc[t] = "call"
  /\ past' = [past EXCEPT ![at[t]].calls = IF t = Monitor THEN @ ELSE @ + 1]
  /\ IF req[at[t]].listed THEN ~mx /\ Unlisted(at[t], req) ELSE UNCHANGED <<queue, req>>
  /\ Goto(t, "drop")
  /\ UNCHANGED <<mx, lastid, made, due, ns, wire, at, then, seen, found, stale, lost>>

\* The callback of the client, and request::cancel: unlist() ..
Call(t) ==
  /\ pc[t] = "call"
  /\ past' = [past EXCEPT ![at[t]].calls = @ + 1]
  /\ IF req[at[t]].listed THEN ~mx /\ Unlisted(at[t], req) ELSE UNCHANGED <<queue, req>>
  /\ Goto(t, "drop")
  /\ UNCHANGED <<mx, lastid, made, due, ns, wire, at, then, seen, found, stale, lost>>

\* decref(): the last reference deletes a cancelled object.
Decref(t, r, next) ==
  LET b == at[t] IN
  /\ req' = [r EXCEPT ![b].refc = @ - 1]
  /\ IF r[b].refc = 1 /\ r[b].cancelled
     THEN Goto(t, "delete") /\ then' = [then EXCEPT ![t] = next] /\ UNCHANGED stale
     ELSE /\ Goto(t, next) /\ UNCHANGED then
          /\ stale' = IF next = "idle" THEN stale \ {t} ELSE stale
  /\ UNCHANGED <<shared, at, seen, found, lost>>

\* Faulty: object::cancel() is not called.
DropUncancelled(t) ==
  /\ pc[t] = "drop"
  /\ past' = [past EXCEPT ![at[t]].ends = @ + 1]
  /\ Decref(t, req, IF t = Monitor THEN "again" ELSE "release")

\* .. object::cancel(), and decref() for the reference of the queue.
Drop(t) ==
  /\ pc[t] = "drop"
  /\ past' = [past EXCEPT ![at[t]].ends = @ + 1]
  /\ Decref(t, [req EXCEPT ![at[t]].cancelled = TRUE], IF t = Monitor THEN "again" ELSE "release")

\* The worker's reference, or that of rascal_cancel.
Release(t) == pc[t] = "release" /\ Decref(t, req, "idle") /\ UNCHANGED past

\* Faulty: ~request does not unlist.
DeleteListed(t) ==
  /\ pc[t] = "delete"
  /\ Set(at[t], "exists", FALSE)
  /\ stale' = (stale \cup {u \in Threads : at[u] = at[t] /\ pc[u] \notin Resting})
                \ (IF then[t] = "idle" THEN {t} ELSE {})
  /\ Goto(t, then[t]) /\ then' = [then EXCEPT ![t] = "idle"]
  /\ UNCHANGED <<shared, at, seen, found, past, lost>>

\* request::~request and object::~object; the block goes back to the allocator.
Delete(t) ==
  /\ pc[t] = "delete"
  /\ LET b == at[t]
         r == [req EXCEPT ![b].exists = FALSE]
     IN  /\ IF req[b].listed THEN ~mx /\ Unlisted(b, r) ELSE req' = r /\ UNCHANGED queue
         /\ stale' = (stale \cup {u \in Threads : at[u] = b /\ pc[u] \notin Resting})
                       \ (IF then[t] = "idle" THEN {t} ELSE {})
  /\ Goto(t, then[t]) /\ then' = [then EXCEPT ![t] = "idle"]
  /\ UNCHANGED <<mx, lastid, made, due, ns, wire, at, seen, found, past, lost>>

----------------------------------------------------------------------------
(* The monitor: request::monitor, request::cycle_monitor.                  *)

\* msem.wait() ..
Sleep ==
  /\ pc[Monitor] = "idle" /\ Goto(Monitor, "asleep")
  /\ UNCHANGED <<req, shared, at, then, seen, found, history>>

\* .. which may return for no reason.
SpuriousWake ==
  /\ pc[Monitor] = "asleep" /\ Goto(Monitor, "cycle")
  /\ UNCHANGED <<req, shared, at, then, seen, found, history>>

\* cycle_monitor(queue): the head of the queue is read before the mutex is taken.
ReadHead ==
  /\ pc[Monitor] = "cycle" /\ Goto(Monitor, "enter")
  /\ at' = [at EXCEPT ![Monitor] = Head1(queue)]
  /\ found' = FALSE
  /\ lost' = (lost /\ queue = << >>)
  /\ UNCHANGED <<req, shared, then, seen, past, stale>>

Enter ==
  /\ pc[Monitor] = "enter" /\ Goto(Monitor, "visit") /\ mx' = TRUE
  /\ UNCHANGED <<req, queue, lastid, made, due, ns, wire, at, then, seen, found, history>>

\* The walk goes on behind the request where it left the mutex, with the link
\* that is found there now.
Again ==
  /\ pc[Monitor] = "again" /\ Goto(Monitor, "visit") /\ mx' = TRUE
  /\ LET n == req[at[Monitor]].next IN
     /\ at' = [at EXCEPT ![Monitor] = n]
     /\ stale' = IF n # NoReq /\ ~Exists(n) THEN stale \cup {Monitor} ELSE stale \ {Monitor}
  /\ UNCHANGED <<req, queue, lastid, made, due, ns, wire, then, seen, found, past, lost>>

Expired(b) == b \in due /\ req[b].rcount >= Repeat

\* Faulty: the monitor sleeps after one walk.
LeaveOnce ==
  /\ pc[Monitor] = "visit" /\ at[Monitor] = NoReq
  /\ mx' = FALSE /\ Goto(Monitor, "idle")
  /\ UNCHANGED <<req, queue, lastid, made, due, ns, wire, at, then, seen, found, history>>

\* The end of the walk.  The timed wait until the next request is due may be
\* over at once: it changes nothing.
Leave ==
  /\ pc[Monitor] = "visit" /\ at[Monitor] = NoReq
  /\ mx' = FALSE
  /\ Goto(Monitor, IF found THEN "cycle" ELSE "idle")
  /\ UNCHANGED <<req, queue, lastid, made, due, ns, wire, at, then, seen, found, history>>

\* A request of the queue: skip it, send it again, or end it.  The mutex is
\* left for the latter two.
Visit ==
  LET b == at[Monitor] IN
  /\ pc[Monitor] = "visit" /\ b # NoReq
  /\ found' = (found \/ ~req[b].cancelled)
  /\ IF req[b].cancelled \/ b \notin due
     THEN /\ at' = [at EXCEPT ![Monitor] = req[b].next]
          /\ stale' = IF req[b].next # NoReq /\ ~Exists(req[b].next)
                      THEN stale \cup {Monitor} ELSE stale \ {Monitor}
          /\ UNCHANGED <<pc, mx>>
     ELSE /\ Goto(Monitor, IF Expired(b) THEN "call" ELSE "send")
          /\ mx' = FALSE
          /\ UNCHANGED <<at, stale>>
  /\ UNCHANGED <<req, queue, lastid, made, due, ns, wire, then, seen, past, lost>>

----------------------------------------------------------------------------
\* Time passes.
Expire(b) ==
  /\ Exists(b) /\ ~req[b].cancelled /\ b \notin due /\ due' = due \cup {b}
  /\ UNCHANGED <<req, queue, mx, lastid, made, ns, wire, threads, history>>

\* The name server's connection is closed; a new one is thrown away
\* (resolver.cc:36-41).
NsCloses ==
  /\ NsMayFail /\ ns /\ ns' = FALSE
  /\ UNCHANGED <<req, queue, mx, lastid, made, due, wire, threads, history>>

Ending(t) == Call(t) \/ Drop(t) \/ Release(t) \/ Delete(t)
Flush(t)  == Send(t) \/ Count(t) \/ Store(t) \/ Wake(t)

\* What a thread does once it has begun.
Continue(t) ==
  \/ Flush(t) \/ Ending(t)
  \/ t \in Clients /\ Refuse(t)
  \/ t = Worker /\ Incref
  \/ t = Monitor /\ (Sleep \/ ReadHead \/ Enter \/ Again \/ Visit \/ Leave)

\* What follows is undefined, and the model ends there: a request was ended
\* twice, two threads delete it, or one goes on with it after it was freed -
\* but for the monitor, which finds its next link as it was, as long as the
\* block is not used again.
EndedTwice == \E b \in Blocks : past[b].ends > 1
Corrupt ==
  \/ EndedTwice
  \/ \E t \in stale : t # Monitor \/ pc[t] # "again" \/ Exists(at[t])
  \/ \E t, u \in Threads : t # u /\ at[t] = at[u] /\ pc[t] = "delete" /\ pc[u] = "delete"

Next == /\ ~Corrupt
        /\ \/ \E t \in Threads : Continue(t)
           \/ \E c \in Clients, b \in Blocks : New(c, b) \/ Lookup(c, b)
           \/ \E b \in Blocks : Pick(b) \/ Expire(b)
           \/ SpuriousWake \/ NsCloses

Spec == Init /\ [][Next]_vars

\* Threads run, those that wait for the mutex of the queue get it, and time
\* passes.  Nothing makes a client start or cancel, or the server answer.
FairSpec == /\ Spec
            /\ \A t \in Threads : SF_vars(Continue(t))
            /\ \A b \in Blocks : WF_vars(Expire(b))

----------------------------------------------------------------------------
EndPoints == {"call", "drop", "release", "delete"}
Points    == EndPoints \cup {"idle", "send", "count", "store", "wake", "refuse", "picked",
                             "asleep", "cycle", "enter", "visit", "again"}

TypeOK ==
  /\ \A b \in Blocks :
       /\ req[b].exists \in BOOLEAN /\ req[b].id \in 0 .. IdSpan
       /\ req[b].listed \in BOOLEAN /\ req[b].cancelled \in BOOLEAN /\ req[b].fits \in BOOLEAN
       /\ req[b].refc \in Int /\ req[b].rcount \in 0 .. Repeat + 1 /\ req[b].next \in Blocks \cup {NoReq}
  /\ queue \in Seq(Blocks) /\ mx \in BOOLEAN /\ due \subseteq Blocks
  /\ lastid \in 0 .. IdSpan /\ made \in 0 .. MaxNew /\ wire \subseteq 1 .. IdSpan
  /\ pc \in [Threads -> Points] /\ at \in [Threads -> Blocks \cup {NoReq}]
  /\ stale \subseteq Threads

\* The queue holds each listed request once and none that was freed, whatever
\* the monitor, the destructors and the endings do to it at the same time.
\* (With the typing.)
QueueSound ==
  /\ TypeOK
  /\ Corrupt \/
     /\ \A j, k \in 1 .. Len(queue) : queue[j] = queue[k] => j = k
     /\ \A b \in Blocks : req[b].listed <=> \E k \in 1 .. Len(queue) : queue[k] = b
     /\ \A k \in 1 .. Len(queue) : Exists(queue[k])

\* No request is forgotten: one that exists is in the queue, where a reply and
\* the monitor find it, or a thread is ending it that will drop the last
\* reference.
NoLeak ==
  Corrupt \/ \A b \in Blocks : Exists(b) /\ ~req[b].listed =>
    \E t \in Threads : at[t] = b /\ pc[t] \in EndPoints

\* rascal_cancel's reference keeps the request, whoever ends it meanwhile.
CancelSafe ==
  EndedTwice \/ \A c \in Clients :
    pc[c] \in {"call", "drop", "release"} => Exists(at[c]) /\ c \notin stale

\* A client that has the id of a request is called back before it is gone.
NoSilentEnd ==
  [][\A b \in Blocks : Exists(b) /\ ~Exists(b)' => past[b].calls > 0 \/ ~past[b].known]_vars

\* RO_DNS_RETRY bounds what is sent for a request: once for each count and,
\* because rcount++ of the monitor and of the constructor may both start
\* from 0, not more than twice as often.
SendBound == \A b \in Blocks : past[b].sends <= 2 * Repeat

\* The monitor ends what is not answered, unless the name server is gone or
\* its post was lost.
Finishes ==
  \A b \in Blocks : req[b].listed ~> (~req[b].listed \/ ~ns \/ lost \/ Corrupt)

\* A comment of the monitor (monitor.cc:62-66) has it restart at the head of
\* the queue after it ended a request.
RestartsAtHead ==
  [][Again /\ ~Exists(at[Monitor]) => at'[Monitor] = Head1(queue)]_vars
=============================================================================
