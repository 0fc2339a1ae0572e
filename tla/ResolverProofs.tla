--------------------------- MODULE ResolverProofs ----------------------------
(***************************************************************************)
(* Proofs about Resolver: the typing, QueueSound, NoLeak, CancelSafe,      *)
(* SendBound and NoSilentEnd.                                              *)
(*                                                                         *)
(* A corrupt state is the last one of a behaviour, so the invariant says   *)
(* in full what holds in every other state (Good), and of a corrupt one    *)
(* only what the step into it has left true (Typed, Bounds, CancelSafe).   *)
(***************************************************************************)
EXTENDS Resolver, TLAPS, FiniteSetTheorems, SequenceTheorems
LOCAL INSTANCE SequencesExt

Holding == {"call", "drop", "release"}       \* with a reference of one's own
Sending == {"send", "count", "store"}
Making  == Sending \cup {"wake", "refuse"}   \* in the constructor

\* Who holds a reference to b besides the queue.
Holders(b) == {t \in Clients \cup {Worker} : at[t] = b /\ pc[t] \in Holding}

Requests == [exists : BOOLEAN, id : 0 .. IdSpan, listed : BOOLEAN, refc : Int,
             cancelled : BOOLEAN, rcount : Nat, next : Blocks \cup {NoReq}, fits : BOOLEAN]

Pasts == [calls : Nat, ends : Nat, sends : Nat, known : BOOLEAN]

Typed ==
  /\ req \in [Blocks -> Requests]
  /\ queue \in Seq(Blocks) /\ mx \in BOOLEAN /\ due \subseteq Blocks
  /\ lastid \in 0 .. IdSpan /\ made \in 0 .. MaxNew /\ wire \subseteq 0 .. IdSpan /\ ns \in BOOLEAN
  /\ pc \in [Threads -> Points] /\ at \in [Threads -> Blocks \cup {NoReq}]
  /\ then \in [Threads -> Points] /\ seen \in [Threads -> Nat] /\ found \in BOOLEAN
  /\ past \in [Blocks -> Pasts]
  /\ stale \subseteq Threads /\ lost \in BOOLEAN
  /\ \A t \in Threads : pc[t] \notin Resting \cup {"enter", "visit"} => at[t] \in Blocks

Bounds ==
  /\ \A b \in Blocks : req[b].rcount <= Repeat + 1 /\ past[b].sends <= 2 * Repeat
  /\ wire \subseteq 1 .. IdSpan

\* Which of the steps each thread takes.
Roles ==
  /\ \A c \in Clients : pc[c] \in Making \cup EndPoints \cup {"idle"}
  /\ pc[Worker] \in EndPoints \cup {"idle", "picked"}
  /\ pc[Monitor] \in Sending \cup (EndPoints \ {"release"})
                       \cup {"idle", "asleep", "cycle", "enter", "visit", "again", "wake"}
  /\ \A t \in Threads : pc[t] = "delete" => then[t] \in {"idle", IF t = Monitor THEN "again" ELSE "idle"}

\* A thread that is at a request finds it there.
Alive == \A t \in Threads \ stale : pc[t] \notin Resting /\ at[t] \in Blocks => Exists(at[t])

Numbered == \A b \in Blocks : Exists(b) => req[b].id \in 1 .. IdSpan

Queued ==
  /\ \A j, k \in 1 .. Len(queue) : queue[j] = queue[k] => j = k
  /\ \A b \in Blocks : Within(queue, b) <=> req[b].listed
  /\ \A b \in Blocks : req[b].listed => Exists(b)

\* One client at most constructs a request, and has not told its id.
OneMaker ==
  /\ \A c, d \in Clients : pc[c] \in Making /\ pc[d] \in Making /\ at[c] = at[d] => c = d
  /\ \A c \in Clients : pc[c] \in Making => ~past[at[c]].known

\* The counter of a request counts its holders, and the queue until its end.
Counted ==
  \A b \in Blocks : Exists(b) =>
    /\ IsFiniteSet(Holders(b))
    /\ req[b].refc = Cardinality(Holders(b)) + (IF past[b].ends = 0 THEN 1 ELSE 0)

\* What has been done to a request, in order: called back, unlisted, cancelled.
Ordered ==
  /\ \A b \in Blocks : Exists(b) => (req[b].cancelled <=> past[b].ends > 0)
  /\ \A b \in Blocks : req[b].listed => past[b].ends = 0
  /\ \A b \in Blocks : past[b].ends > 0 => past[b].calls > 0
  /\ \A t \in Threads : pc[t] = "drop" => ~req[at[t]].listed /\ past[at[t]].calls > 0

\* A request is deleted when no client holds a reference, after its callback
\* or before its id is told.
Deletions ==
  /\ \A t \in Threads : pc[t] = "delete" =>
       /\ \A c \in Clients : at[c] = at[t] => pc[c] \notin Holding
       /\ \/ past[at[t]].calls > 0
          \/ ~past[at[t]].known /\ \A c \in Clients : at[c] = at[t] => pc[c] \notin Making
  /\ \A c \in Clients : pc[c] \in Holding => past[at[c]].known

\* A request that is off the queue is about to be dropped or deleted, or was
\* dropped and is held.
Reachable ==
  \A b \in Blocks : Exists(b) /\ ~req[b].listed =>
    \/ \E t \in Threads : at[t] = b /\ pc[t] \in {"drop", "delete"}
    \/ past[b].ends > 0 /\ Holders(b) # {}

\* What the monitor and the constructor have read of rcount, and what was sent.
Constructed(b) == \E c \in Clients : at[c] = b /\ pc[c] \in Sending
MonitorAt(b, points) == at[Monitor] = b /\ pc[Monitor] \in points
Uncounted(b)   == IF MonitorAt(b, {"count", "store"}) THEN 1 ELSE 0

\* .. of the client that constructs a request,
Tried(c) ==
  LET b == at[c] IN
  /\ req[b].rcount <= Repeat
  /\ pc[c] = "store" => seen[c] <= req[b].rcount
  /\ MonitorAt(b, Sending) => req[b].rcount < Repeat
  /\ MonitorAt(b, {"store"}) => seen[Monitor] = req[b].rcount
  /\ past[b].sends = req[b].rcount + Uncounted(b) + (IF pc[c] = "send" THEN 0 ELSE 1)

\* .. of the monitor,
MonitorTried ==
  /\ pc[Monitor] \in {"send", "count"} => req[at[Monitor]].rcount <= Repeat
  /\ pc[Monitor] = "store" => seen[Monitor] <= Repeat
  /\ pc[Monitor] = "send" => past[at[Monitor]].sends < 2 * Repeat

\* .. and what was sent of a request that is constructed.
Spent(b) == past[b].sends <= Repeat + Uncounted(b)
                               + (IF MonitorAt(b, {"store"}) THEN seen[Monitor] ELSE req[b].rcount)

Attempts ==
  /\ \A c \in Clients : pc[c] \in Sending => Tried(c)
  /\ MonitorTried
  /\ \A b \in Blocks : ~Constructed(b) => Spent(b)

Good == Roles /\ Alive /\ Numbered /\ Queued /\ OneMaker /\ Counted /\ Ordered
          /\ Deletions /\ Reachable /\ Attempts

Inv == Typed /\ Bounds /\ CancelSafe /\ (Corrupt \/ Good)

----------------------------------------------------------------------------
(* What a step may do, pointwise.                                          *)

\* What ~Corrupt says of the threads.
Calm ==
  /\ \A b \in Blocks : past[b].ends <= 1
  /\ \A t \in stale : t = Monitor /\ pc[t] = "again" /\ ~Exists(at[t])
  /\ \A t, u \in Threads : t # u /\ at[t] = at[u] /\ pc[t] = "delete" => pc[u] # "delete"

LEMMA NotCorrupt == ASSUME Typed, ~Corrupt PROVE Calm
<1>1. ASSUME NEW b \in Blocks PROVE past[b].ends <= 1
  <2>1. past[b].ends \in Nat /\ ~(past[b].ends > 1)
    BY DEF Typed, Pasts, Corrupt, EndedTwice
  <2> QED
    BY <2>1
<1>2. \A t \in stale : t = Monitor /\ pc[t] = "again" /\ ~Exists(at[t])
  BY DEF Corrupt
<1>3. \A t, u \in Threads : t # u /\ at[t] = at[u] /\ pc[t] = "delete" => pc[u] # "delete"
  BY DEF Corrupt
<1> QED
  BY <1>1, <1>2, <1>3 DEF Calm

Steady(t) == pc'[t] = pc[t] /\ at'[t] = at[t] /\ then'[t] = then[t] /\ seen'[t] = seen[t]
Others(t) == \A u \in Threads \ {t} : Steady(u)

\* The block keeps its content but for the link to the next one.
Kept(b) == /\ req'[b].exists = req[b].exists /\ req'[b].id = req[b].id
           /\ req'[b].listed = req[b].listed /\ req'[b].refc = req[b].refc
           /\ req'[b].cancelled = req[b].cancelled /\ req'[b].rcount = req[b].rcount
           /\ past'[b] = past[b]
OtherBlocks(b) == \A x \in Blocks \ {b} : Kept(x)

\* The removal of one place of a sequence.
LEMMA RemovedAt ==
  ASSUME NEW S, NEW q \in Seq(S), NEW k \in 1 .. Len(q)
  PROVE  /\ RemoveAt(q, k) \in Seq(S)
         /\ Len(RemoveAt(q, k)) = Len(q) - 1
         /\ \A i \in 1 .. Len(q) - 1 : RemoveAt(q, k)[i] = IF i < k THEN q[i] ELSE q[i + 1]
<1> DEFINE h == SubSeq(q, 1, k - 1)
           e == SubSeq(q, k + 1, Len(q))
<1>1. h \in Seq(S) /\ Len(h) = k - 1 /\ \A i \in 1 .. k - 1 : h[i] = q[i]
  OBVIOUS
<1>2. e \in Seq(S) /\ Len(e) = Len(q) - k /\ \A i \in 1 .. Len(q) - k : e[i] = q[k + i]
  OBVIOUS
<1>3. RemoveAt(q, k) = h \o e
  BY DEF RemoveAt
<1> HIDE DEF h, e
<1>4. h \o e \in Seq(S) /\ Len(h \o e) = Len(q) - 1
  BY <1>1, <1>2
<1>5. ASSUME NEW i \in 1 .. Len(q) - 1
      PROVE  (h \o e)[i] = IF i < k THEN q[i] ELSE q[i + 1]
  <2>1. (h \o e)[i] = IF i <= Len(h) THEN h[i] ELSE e[i - Len(h)]
    BY <1>1, <1>2
  <2>2. CASE i < k
    BY <2>1, <2>2, <1>1
  <2>3. CASE ~(i < k)
    <3>1. (h \o e)[i] = e[i - (k - 1)] /\ i - (k - 1) \in 1 .. Len(q) - k
      BY <2>1, <2>3, <1>1
    <3> QED
      BY <3>1, <2>3, <1>2
  <2> QED
    BY <2>2, <2>3
<1> QED
  BY <1>3, <1>4, <1>5

\* The links are typed, and nothing else of the blocks changes.
LEMMA Linking ==
  ASSUME NEW q \in Seq(Blocks), NEW r \in [Blocks -> Requests]
  PROVE  /\ Linked(r, q) \in [Blocks -> Requests]
         /\ \A x \in Blocks : /\ Linked(r, q)[x].exists = r[x].exists /\ Linked(r, q)[x].id = r[x].id
                              /\ Linked(r, q)[x].refc = r[x].refc /\ Linked(r, q)[x].rcount = r[x].rcount
                              /\ Linked(r, q)[x].cancelled = r[x].cancelled
                              /\ Linked(r, q)[x].listed = r[x].listed
<1> DEFINE nx(x) == IF Place(q, x) < Len(q) THEN q[Place(q, x) + 1] ELSE NoReq
<1>1. Linked(r, q) = [x \in Blocks |-> IF Within(q, x) THEN [r[x] EXCEPT !.next = nx(x)] ELSE r[x]]
  BY DEF Linked
<1>2. ASSUME NEW x \in Blocks, Within(q, x) PROVE nx(x) \in Blocks \cup {NoReq}
  <2>1. Place(q, x) \in 1 .. Len(q)
    BY <1>2 DEF Place, Within
  <2> QED
    BY <2>1
<1> HIDE DEF nx
<1>3. ASSUME NEW x \in Blocks, Within(q, x) PROVE [r[x] EXCEPT !.next = nx(x)] \in Requests
  <2>1. r[x] \in Requests /\ nx(x) \in Blocks \cup {NoReq}
    BY <1>2, <1>3
  <2> QED
    BY <2>1 DEF Requests
<1>4. Linked(r, q) \in [Blocks -> Requests]
  BY <1>1, <1>3
<1>5. ASSUME NEW x \in Blocks
      PROVE  /\ Linked(r, q)[x].exists = r[x].exists /\ Linked(r, q)[x].id = r[x].id
             /\ Linked(r, q)[x].refc = r[x].refc /\ Linked(r, q)[x].rcount = r[x].rcount
             /\ Linked(r, q)[x].cancelled = r[x].cancelled
             /\ Linked(r, q)[x].listed = r[x].listed
  <2>1. r[x] \in Requests
    OBVIOUS
  <2>2. Linked(r, q)[x] = IF Within(q, x) THEN [r[x] EXCEPT !.next = nx(x)] ELSE r[x]
    BY <1>1
  <2> QED
    BY <2>1, <2>2 DEF Requests
<1> QED
  BY <1>4, <1>5

\* unlist(): the queue loses b and nothing else; the other blocks keep all but
\* their links.
LEMMA Unlisting ==
  ASSUME Typed, Queued, NEW b \in Blocks, NEW r \in [Blocks -> Requests],
         Unlisted(b, r)
  PROVE  /\ req' \in [Blocks -> Requests] /\ queue' \in Seq(Blocks)
         /\ \A j, k \in 1 .. Len(queue') : queue'[j] = queue'[k] => j = k
         /\ \A x \in Blocks : Within(queue', x) <=> Within(queue, x) /\ x # b
         /\ \A x \in Blocks : /\ req'[x].exists = r[x].exists /\ req'[x].id = r[x].id
                              /\ req'[x].refc = r[x].refc /\ req'[x].cancelled = r[x].cancelled
                              /\ req'[x].rcount = r[x].rcount
                              /\ req'[x].listed = (r[x].listed /\ x # b)
<1>1. queue' \in Seq(Blocks)
      /\ (\A j, k \in 1 .. Len(queue') : queue'[j] = queue'[k] => j = k)
      /\ (\A x \in Blocks : Within(queue', x) <=> Within(queue, x) /\ x # b)
  <2>1. CASE ~Within(queue, b)
    BY <2>1 DEF Unlisted, Typed, Queued, Within
  <2>2. CASE Within(queue, b)
    <3> DEFINE p == Place(queue, b)
    <3>1. p \in 1 .. Len(queue) /\ queue[p] = b
      BY <2>2 DEF Place, Within
    <3>2. queue' = RemoveAt(queue, p)
      BY <2>2 DEF Unlisted
    <3> HIDE DEF p
    <3>3. queue \in Seq(Blocks) /\ \A j, k \in 1 .. Len(queue) : queue[j] = queue[k] => j = k
      BY DEF Typed, Queued
    <3>4. /\ queue' \in Seq(Blocks) /\ Len(queue') = Len(queue) - 1
          /\ \A i \in 1 .. Len(queue) - 1 : queue'[i] = IF i < p THEN queue[i] ELSE queue[i + 1]
      BY <3>1, <3>2, <3>3, RemovedAt
    <3>5. \A j, k \in 1 .. Len(queue') : queue'[j] = queue'[k] => j = k
      BY <3>1, <3>3, <3>4
    <3>6. ASSUME NEW x \in Blocks, Within(queue', x) PROVE Within(queue, x) /\ x # b
      BY <3>1, <3>3, <3>4, <3>6 DEF Within
    <3>7. ASSUME NEW x \in Blocks, Within(queue, x), x # b PROVE Within(queue', x)
      <4>1. PICK k \in 1 .. Len(queue) : queue[k] = x
        BY <3>7 DEF Within
      <4>2. CASE k < p
        <5>1. k \in 1 .. Len(queue') /\ queue'[k] = x
          BY <4>1, <4>2, <3>1, <3>3, <3>4
        <5> QED
          BY <5>1 DEF Within
      <4>3. CASE k > p
        <5>1. k - 1 \in 1 .. Len(queue') /\ queue'[k - 1] = x
          BY <4>1, <4>3, <3>1, <3>3, <3>4
        <5> QED
          BY <5>1 DEF Within
      <4> QED
        BY <4>1, <4>2, <4>3, <3>1, <3>3, <3>7
    <3> QED
      BY <3>4, <3>5, <3>6, <3>7
  <2> QED
    BY <2>1, <2>2
<1>3. /\ Linked(r, queue') \in [Blocks -> Requests]
      /\ \A x \in Blocks : /\ Linked(r, queue')[x].exists = r[x].exists /\ Linked(r, queue')[x].id = r[x].id
                           /\ Linked(r, queue')[x].refc = r[x].refc /\ Linked(r, queue')[x].rcount = r[x].rcount
                           /\ Linked(r, queue')[x].cancelled = r[x].cancelled
                           /\ Linked(r, queue')[x].listed = r[x].listed
  BY <1>1, Linking
<1>4. req' = [Linked(r, queue') EXCEPT ![b].listed = FALSE]
  BY DEF Unlisted
<1>5. req' \in [Blocks -> Requests]
  <2> DEFINE l == Linked(r, queue')
  <2>1. l \in [Blocks -> Requests] /\ req' = [l EXCEPT ![b].listed = FALSE]
    BY <1>3, <1>4
  <2> HIDE DEF l
  <2> QED
    BY <2>1 DEF Requests
<1>6. \A x \in Blocks : /\ req'[x].exists = r[x].exists /\ req'[x].id = r[x].id
                        /\ req'[x].refc = r[x].refc /\ req'[x].cancelled = r[x].cancelled
                        /\ req'[x].rcount = r[x].rcount
                        /\ req'[x].listed = (r[x].listed /\ x # b)
  <2> SUFFICES ASSUME NEW x \in Blocks
               PROVE  /\ req'[x].exists = r[x].exists /\ req'[x].id = r[x].id
                      /\ req'[x].refc = r[x].refc /\ req'[x].cancelled = r[x].cancelled
                      /\ req'[x].rcount = r[x].rcount
                      /\ req'[x].listed = (r[x].listed /\ x # b)
    OBVIOUS
  <2>1. CASE x = b
    BY <2>1, <1>3, <1>4 DEF Requests
  <2>2. CASE x # b
    BY <2>2, <1>3, <1>4 DEF Requests
  <2> QED
    BY <2>1, <2>2
<1> QED
  BY <1>1, <1>5, <1>6

\* A thread that is not the monitor, or not behind its walk, is at a request
\* that exists.
LEMMA AtRequest ==
  ASSUME Typed, Calm, Alive, NEW t \in Threads,
         pc[t] \in EndPoints \cup Making \cup {"picked"}
  PROVE  at[t] \in Blocks /\ Exists(at[t]) /\ t \notin stale
BY DEF Typed, Calm, Alive, EndPoints, Making, Sending, Resting

LEMMA SendEffect ==
  ASSUME Typed, Calm, Alive, NEW t \in Threads, Send(t)
  PROVE  /\ Typed' /\ Others(t) /\ at'[t] = at[t] /\ then'[t] = then[t] /\ seen'[t] = seen[t]
         /\ UNCHANGED <<req, queue, stale>>
         /\ at[t] \in Blocks /\ Exists(at[t])
         /\ \A x \in Blocks \ {at[t]} : past'[x] = past[x]
         /\ past'[at[t]].calls = past[at[t]].calls /\ past'[at[t]].ends = past[at[t]].ends
         /\ past'[at[t]].known = past[at[t]].known
         /\ \/ /\ pc'[t] = "count" /\ past'[at[t]].sends = past[at[t]].sends + 1
               /\ wire' = wire \cup {req[at[t]].id}
            \/ /\ pc'[t] = IF t = Monitor THEN "again" ELSE "refuse"
               /\ past' = past /\ wire' = wire
<1>1. at[t] \in Blocks /\ Exists(at[t]) /\ t \notin stale
  BY AtRequest DEF Send, Making, Sending
<1>2. CASE ns /\ req[at[t]].fits
  <2>1. /\ wire' = wire \cup {req[at[t]].id} /\ pc' = [pc EXCEPT ![t] = "count"]
        /\ past' = [past EXCEPT ![at[t]].sends = past[at[t]].sends + 1]
        /\ UNCHANGED <<req, queue, mx, lastid, made, due, ns, at, then, seen, found, stale, lost>>
    BY <1>1, <1>2 DEF Send, Goto
  <2>2. past' \in [Blocks -> Pasts]
    <3>1. past[at[t]].sends + 1 \in Nat
      BY <1>1 DEF Typed, Pasts
    <3> QED
      BY <2>1, <3>1, <1>1 DEF Typed, Pasts
  <2>3. wire' \subseteq 0 .. IdSpan
    BY <2>1, <1>1 DEF Typed, Requests
  <2>4. pc' \in [Threads -> Points] /\ \A u \in Threads : u # t => pc'[u] = pc[u]
    BY <2>1 DEF Typed, Points
  <2>5. pc'[t] = "count"
    BY <2>1 DEF Typed
  <2>6. Typed'
    BY <2>1, <2>2, <2>3, <2>4, <2>5, <1>1 DEF Typed
  <2> QED
    BY <2>1, <2>4, <2>5, <2>6, <1>1 DEF Typed, Pasts, Others, Steady
<1>3. CASE ~(ns /\ req[at[t]].fits)
  <2>1. /\ pc' = [pc EXCEPT ![t] = IF t = Monitor THEN "again" ELSE "refuse"]
        /\ UNCHANGED <<req, queue, mx, lastid, made, due, ns, at, then, seen, found, stale, lost, wire, past>>
    BY <1>1, <1>3 DEF Send, Goto
  <2>2. pc' \in [Threads -> Points] /\ (\A u \in Threads : u # t => pc'[u] = pc[u])
        /\ pc'[t] = IF t = Monitor THEN "again" ELSE "refuse"
    BY <2>1 DEF Typed, Points
  <2>3. Typed'
    BY <2>1, <2>2, <1>1 DEF Typed
  <2> QED
    BY <2>1, <2>2, <2>3, <1>1 DEF Others, Steady
<1> QED
  BY <1>2, <1>3

\* The end of flush(): the client knows the id, the monitor walks on.
FlushEnd(t) ==
  /\ pc'[t] = IF t = Monitor THEN "again" ELSE "idle"
  /\ past'[at[t]].known = (past[at[t]].known \/ t # Monitor)

LEMMA FlushedEffect ==
  ASSUME Typed, Calm, Alive, NEW t \in Threads, pc[t] \in Making,
         NEW p \in [Threads -> Points], Flushed(t, p)
  PROVE  /\ past' \in [Blocks -> Pasts]
         /\ pc' \in [Threads -> Points] /\ FlushEnd(t) /\ stale' = stale
         /\ \A u \in Threads : u # t => pc'[u] = p[u]
         /\ \A x \in Blocks \ {at[t]} : past'[x] = past[x]
         /\ past'[at[t]].calls = past[at[t]].calls /\ past'[at[t]].ends = past[at[t]].ends
         /\ past'[at[t]].sends = past[at[t]].sends
<1>1. at[t] \in Blocks /\ Exists(at[t]) /\ t \notin stale
  BY AtRequest
<1>2. past' = [past EXCEPT ![at[t]].known = past[at[t]].known \/ t # Monitor]
  BY <1>1 DEF Flushed
<1>3. stale' = stale
  BY <1>1 DEF Flushed
<1>4. pc' = [p EXCEPT ![t] = IF t = Monitor THEN "again" ELSE "idle"]
  BY DEF Flushed
<1>5. (past[at[t]].known \/ t # Monitor) \in BOOLEAN
  OBVIOUS
<1>6. /\ past' \in [Blocks -> Pasts]
      /\ past'[at[t]].known = (past[at[t]].known \/ t # Monitor)
      /\ \A x \in Blocks \ {at[t]} : past'[x] = past[x]
      /\ past'[at[t]].calls = past[at[t]].calls /\ past'[at[t]].ends = past[at[t]].ends
      /\ past'[at[t]].sends = past[at[t]].sends
  <2> DEFINE v == past[at[t]].known \/ t # Monitor
  <2>1. past' = [past EXCEPT ![at[t]].known = v] /\ v \in BOOLEAN
    BY <1>2, <1>5
  <2> HIDE DEF v
  <2>2. /\ past' \in [Blocks -> Pasts]
        /\ past'[at[t]].known = v
        /\ \A x \in Blocks \ {at[t]} : past'[x] = past[x]
        /\ past'[at[t]].calls = past[at[t]].calls /\ past'[at[t]].ends = past[at[t]].ends
        /\ past'[at[t]].sends = past[at[t]].sends
    <3>1. past \in [Blocks -> Pasts]
      BY DEF Typed
    <3> QED
      BY <3>1, <2>1, <1>1 DEF Pasts
  <2> QED
    BY <2>2 DEF v
<1>7. pc' \in [Threads -> Points] /\ (\A u \in Threads : u # t => pc'[u] = p[u])
      /\ pc'[t] = IF t = Monitor THEN "again" ELSE "idle"
  BY <1>4 DEF Points, EndPoints
<1> QED
  BY <1>3, <1>6, <1>7 DEF FlushEnd

LEMMA StoreEffect ==
  ASSUME Typed, Calm, Alive, NEW t \in Threads, Store(t)
  PROVE  /\ Typed' /\ Others(t) /\ at'[t] = at[t] /\ then'[t] = then[t] /\ seen'[t] = 0
         /\ UNCHANGED <<queue, stale, wire>>
         /\ at[t] \in Blocks /\ Exists(at[t])
         /\ OtherBlocks(at[t])
         /\ req'[at[t]].exists = req[at[t]].exists /\ req'[at[t]].id = req[at[t]].id
         /\ req'[at[t]].listed = req[at[t]].listed /\ req'[at[t]].refc = req[at[t]].refc
         /\ req'[at[t]].cancelled = req[at[t]].cancelled /\ req'[at[t]].rcount = seen[t] + 1
         /\ past'[at[t]].calls = past[at[t]].calls /\ past'[at[t]].ends = past[at[t]].ends
         /\ past'[at[t]].sends = past[at[t]].sends
         /\ \/ pc'[t] = "wake" /\ past' = past
            \/ FlushEnd(t)
<1>1. at[t] \in Blocks /\ Exists(at[t]) /\ t \notin stale /\ pc[t] \in Making
  BY AtRequest DEF Store, Making, Sending
<1>2. /\ req' = [req EXCEPT ![at[t]].rcount = seen[t] + 1]
      /\ seen' = [seen EXCEPT ![t] = 0] /\ due' = due \ {at[t]}
      /\ UNCHANGED <<queue, mx, lastid, made, ns, wire, at, then, found, lost>>
  BY DEF Store, Set
<1>3. /\ req' \in [Blocks -> Requests] /\ \A x \in Blocks \ {at[t]} : req'[x] = req[x]
      /\ req'[at[t]].exists = req[at[t]].exists /\ req'[at[t]].id = req[at[t]].id
      /\ req'[at[t]].listed = req[at[t]].listed /\ req'[at[t]].refc = req[at[t]].refc
      /\ req'[at[t]].cancelled = req[at[t]].cancelled /\ req'[at[t]].rcount = seen[t] + 1
  <2>1. seen[t] + 1 \in Nat
    BY DEF Typed
  <2> QED
    <3>1. req \in [Blocks -> Requests]
      BY DEF Typed
    <3>2. at[t] \in Blocks /\ req' = [req EXCEPT ![at[t]].rcount = seen[t] + 1]
      BY <1>1, <1>2
    <3> QED
      BY <3>1, <3>2, <2>1 DEF Requests
<1>5. /\ past' \in [Blocks -> Pasts] /\ pc' \in [Threads -> Points] /\ stale' = stale
      /\ \A u \in Threads : u # t => pc'[u] = pc[u]
      /\ \A x \in Blocks \ {at[t]} : past'[x] = past[x]
      /\ past'[at[t]].calls = past[at[t]].calls /\ past'[at[t]].ends = past[at[t]].ends
      /\ past'[at[t]].sends = past[at[t]].sends
      /\ (pc'[t] = "wake" /\ past' = past) \/ FlushEnd(t)
  <2>1. CASE seen[t] = 0
    <3>1. pc' = [pc EXCEPT ![t] = "wake"] /\ UNCHANGED <<past, stale>>
      BY <2>1 DEF Store, Goto
    <3> QED
      BY <3>1 DEF Typed, Points
  <2>2. CASE seen[t] # 0
    <3>1. Flushed(t, pc) /\ pc \in [Threads -> Points]
      BY <2>2 DEF Store, Typed
    <3> QED
      BY <3>1, <1>1, FlushedEffect
  <2> QED
    BY <2>1, <2>2
<1>6. seen' \in [Threads -> Nat] /\ seen'[t] = 0 /\ \A u \in Threads : u # t => seen'[u] = seen[u]
  BY <1>2 DEF Typed
<1>7. Typed'
  BY <1>1, <1>2, <1>3, <1>5, <1>6 DEF Typed
<1> QED
  BY <1>1, <1>2, <1>3, <1>5, <1>6, <1>7 DEF Others, Steady, OtherBlocks, Kept

\* The monitor that slept is awake.
LEMMA WakeEffect ==
  ASSUME Typed, Calm, Alive, NEW t \in Threads, Wake(t)
  PROVE  /\ Typed' /\ at' = at /\ then' = then /\ seen' = seen
         /\ UNCHANGED <<req, queue, stale, wire>>
         /\ at[t] \in Blocks /\ Exists(at[t])
         /\ \A x \in Blocks \ {at[t]} : past'[x] = past[x]
         /\ past'[at[t]].calls = past[at[t]].calls /\ past'[at[t]].ends = past[at[t]].ends
         /\ past'[at[t]].sends = past[at[t]].sends
         /\ \A u \in Threads \ {t} :
              pc'[u] = pc[u] \/ (u = Monitor /\ pc[u] = "asleep" /\ pc'[u] = "cycle")
         /\ FlushEnd(t)
<1>1. at[t] \in Blocks /\ Exists(at[t]) /\ t \notin stale /\ pc[t] \in Making /\ pc[t] = "wake"
  BY AtRequest DEF Wake, Making, Sending
<1> DEFINE p == IF pc[Monitor] = "asleep" THEN [pc EXCEPT ![Monitor] = "cycle"] ELSE pc
<1>2. Flushed(t, p) /\ lost' \in BOOLEAN /\ UNCHANGED <<req, shared, at, then, seen, found>>
  BY DEF Wake, Typed
<1>3. p \in [Threads -> Points] /\ \A u \in Threads :
         p[u] = pc[u] \/ (u = Monitor /\ pc[u] = "asleep" /\ p[u] = "cycle")
  <2>0. pc \in [Threads -> Points] /\ "cycle" \in Points
    BY DEF Typed, Points
  <2>1. CASE pc[Monitor] = "asleep"
    <3>1. p = [pc EXCEPT ![Monitor] = "cycle"]
      BY <2>1
    <3> HIDE DEF p
    <3> QED
      BY <2>0, <2>1, <3>1 DEF Threads
  <2>2. CASE pc[Monitor] # "asleep"
    <3>1. p = pc
      BY <2>2
    <3> HIDE DEF p
    <3> QED
      BY <2>0, <3>1
  <2> QED
    BY <2>1, <2>2
<1> HIDE DEF p
<1>4. /\ past' \in [Blocks -> Pasts] /\ pc' \in [Threads -> Points] /\ FlushEnd(t) /\ stale' = stale
      /\ \A u \in Threads : u # t => pc'[u] = p[u]
      /\ \A x \in Blocks \ {at[t]} : past'[x] = past[x]
      /\ past'[at[t]].calls = past[at[t]].calls /\ past'[at[t]].ends = past[at[t]].ends
      /\ past'[at[t]].sends = past[at[t]].sends
  BY <1>1, <1>2, <1>3, FlushedEffect
<1>5. Typed'
  <2>1. \A u \in Threads : pc'[u] \notin Resting \cup {"enter", "visit"} => at[u] \in Blocks
    BY <1>1, <1>3, <1>4 DEF Typed, Resting
  <2> QED
    BY <2>1, <1>2, <1>4 DEF Typed, shared
<1> QED
  BY <1>1, <1>2, <1>3, <1>4, <1>5 DEF shared

\* lookup and on_read: one reference more.
LEMMA IncrefEffect ==
  ASSUME Typed, NEW t \in Threads, NEW b \in Blocks,
         Set(b, "refc", req[b].refc + 1), at' = [at EXCEPT ![t] = b], Goto(t, "call"),
         UNCHANGED <<shared, then, seen, found, history>>
  PROVE  /\ Typed' /\ Others(t) /\ at'[t] = b /\ pc'[t] = "call" /\ then' = then /\ seen' = seen
         /\ UNCHANGED <<queue, wire, past, stale>>
         /\ OtherBlocks(b)
         /\ req'[b].exists = req[b].exists /\ req'[b].id = req[b].id
         /\ req'[b].listed = req[b].listed /\ req'[b].refc = req[b].refc + 1
         /\ req'[b].cancelled = req[b].cancelled /\ req'[b].rcount = req[b].rcount
<1>2. /\ req' \in [Blocks -> Requests] /\ \A x \in Blocks \ {b} : req'[x] = req[x]
      /\ req'[b].exists = req[b].exists /\ req'[b].id = req[b].id
      /\ req'[b].listed = req[b].listed /\ req'[b].refc = req[b].refc + 1
      /\ req'[b].cancelled = req[b].cancelled /\ req'[b].rcount = req[b].rcount
  <2>1. req[b].refc + 1 \in Int
    BY DEF Typed, Requests
  <2> QED
    <3>1. req \in [Blocks -> Requests] /\ req' = [req EXCEPT ![b].refc = req[b].refc + 1]
      BY DEF Set, Typed
    <3> QED
      BY <2>1, <3>1 DEF Requests
<1>4. pc' \in [Threads -> Points] /\ pc'[t] = "call" /\ \A u \in Threads : u # t => pc'[u] = pc[u]
  BY DEF Typed, Goto, Points, EndPoints
<1>5. at' \in [Threads -> Blocks \cup {NoReq}] /\ at'[t] = b /\ \A u \in Threads : u # t => at'[u] = at[u]
  BY DEF Typed
<1>6. Typed'
  BY <1>2, <1>4, <1>5 DEF Typed, shared, history
<1> QED
  BY <1>2, <1>4, <1>5, <1>6 DEF Others, Steady, OtherBlocks, Kept, shared, history

\* The callback, and unlist() under the mutex.
LEMMA CallEffect ==
  ASSUME Typed, Calm, Alive, Queued, NEW t \in Threads, Call(t)
  PROVE  /\ Typed' /\ Queued' /\ Others(t)
         /\ at'[t] = at[t] /\ pc'[t] = "drop" /\ then'[t] = then[t] /\ seen'[t] = seen[t]
         /\ UNCHANGED <<stale, wire>>
         /\ at[t] \in Blocks /\ Exists(at[t])
         /\ OtherBlocks(at[t])
         /\ req'[at[t]].exists = req[at[t]].exists /\ req'[at[t]].id = req[at[t]].id
         /\ req'[at[t]].listed = FALSE /\ req'[at[t]].refc = req[at[t]].refc
         /\ req'[at[t]].cancelled = req[at[t]].cancelled /\ req'[at[t]].rcount = req[at[t]].rcount
         /\ past'[at[t]].calls = past[at[t]].calls + 1 /\ past'[at[t]].ends = past[at[t]].ends
         /\ past'[at[t]].sends = past[at[t]].sends /\ past'[at[t]].known = past[at[t]].known
<1> DEFINE b == at[t]
<1>1. b \in Blocks /\ Exists(b) /\ t \notin stale
  BY AtRequest DEF Call, EndPoints
<1>2. /\ past' = [past EXCEPT ![b].calls = past[b].calls + 1]
      /\ pc' = [pc EXCEPT ![t] = "drop"]
      /\ UNCHANGED <<mx, lastid, made, due, ns, wire, at, then, seen, found, stale, lost>>
  BY DEF Call, Goto
<1>3. IF req[b].listed THEN Unlisted(b, req) ELSE UNCHANGED <<queue, req>>
  BY DEF Call
<1> HIDE DEF b
<1>4. /\ past' \in [Blocks -> Pasts] /\ \A x \in Blocks \ {b} : past'[x] = past[x]
      /\ past'[b].calls = past[b].calls + 1 /\ past'[b].ends = past[b].ends
      /\ past'[b].sends = past[b].sends /\ past'[b].known = past[b].known
  <2>1. past \in [Blocks -> Pasts]
    BY DEF Typed
  <2> QED
    BY <2>1, <1>1, <1>2 DEF Pasts
<1>5. /\ req' \in [Blocks -> Requests] /\ queue' \in Seq(Blocks) /\ Queued'
      /\ \A x \in Blocks : /\ req'[x].exists = req[x].exists /\ req'[x].id = req[x].id
                           /\ req'[x].refc = req[x].refc /\ req'[x].cancelled = req[x].cancelled
                           /\ req'[x].rcount = req[x].rcount
                           /\ req'[x].listed = (req[x].listed /\ x # b)
  <2>0. req \in [Blocks -> Requests]
    BY DEF Typed
  <2>1. CASE req[b].listed
    <3>1. /\ req' \in [Blocks -> Requests] /\ queue' \in Seq(Blocks)
          /\ \A j, k \in 1 .. Len(queue') : queue'[j] = queue'[k] => j = k
          /\ \A x \in Blocks : Within(queue', x) <=> Within(queue, x) /\ x # b
          /\ \A x \in Blocks : /\ req'[x].exists = req[x].exists /\ req'[x].id = req[x].id
                               /\ req'[x].refc = req[x].refc /\ req'[x].cancelled = req[x].cancelled
                               /\ req'[x].rcount = req[x].rcount
                               /\ req'[x].listed = (req[x].listed /\ x # b)
      BY <2>0, <2>1, <1>1, <1>3, Unlisting
    <3>2. Queued'
      BY <3>1 DEF Queued, Exists
    <3> QED
      BY <3>1, <3>2
  <2>2. CASE ~req[b].listed
    <3>1. req' = req /\ queue' = queue
      BY <2>2, <1>3
    <3>2. Queued'
      BY <3>1 DEF Queued, Exists, Within
    <3>3. queue \in Seq(Blocks) /\ \A x \in Blocks : req[x].listed \in BOOLEAN
      BY DEF Typed, Requests
    <3> QED
      BY <2>0, <2>2, <3>1, <3>2, <3>3
  <2> QED
    BY <2>1, <2>2
<1>6. pc' \in [Threads -> Points] /\ pc'[t] = "drop" /\ \A u \in Threads : u # t => pc'[u] = pc[u]
  BY <1>2 DEF Typed, Points, EndPoints
<1>7. Typed'
  <2>1. \A u \in Threads : pc'[u] \notin Resting \cup {"enter", "visit"} => at[u] \in Blocks
    BY <1>1, <1>6 DEF Typed, b
  <2> QED
    BY <2>1, <1>2, <1>4, <1>5, <1>6 DEF Typed
<1> HIDE DEF Queued
<1>8. OtherBlocks(b)
  <2>1. \A x \in Blocks : req[x].listed \in BOOLEAN
    BY DEF Typed, Requests
  <2> QED
    BY <2>1, <1>4, <1>5 DEF OtherBlocks, Kept
<1>9. Others(t) /\ at'[t] = at[t] /\ then'[t] = then[t] /\ seen'[t] = seen[t]
  BY <1>2, <1>6 DEF Others, Steady
<1> QED
  BY <1>1, <1>2, <1>4, <1>5, <1>6, <1>7, <1>8, <1>9 DEF b

\* decref() of a request that t is at, with its fields as in r.
LEMMA DecrefEffect ==
  ASSUME Typed, NEW t \in Threads, at[t] \in Blocks, t \notin stale,
         NEW r \in [Blocks -> Requests], NEW next \in {"idle", "again", "release"},
         Decref(t, r, next)
  PROVE  /\ req' \in [Blocks -> Requests] /\ \A x \in Blocks \ {at[t]} : req'[x] = r[x]
         /\ req'[at[t]].exists = r[at[t]].exists /\ req'[at[t]].id = r[at[t]].id
         /\ req'[at[t]].listed = r[at[t]].listed /\ req'[at[t]].refc = r[at[t]].refc - 1
         /\ req'[at[t]].cancelled = r[at[t]].cancelled /\ req'[at[t]].rcount = r[at[t]].rcount
         /\ UNCHANGED <<shared, at, seen, found, lost, stale>>
         /\ pc' \in [Threads -> Points] /\ then' \in [Threads -> Points]
         /\ \A u \in Threads : u # t => pc'[u] = pc[u] /\ then'[u] = then[u]
         /\ IF r[at[t]].refc = 1 /\ r[at[t]].cancelled
            THEN pc'[t] = "delete" /\ then'[t] = next
            ELSE pc'[t] = next /\ then'[t] = then[t]
<1> DEFINE b == at[t]
<1>1. req' = [r EXCEPT ![b].refc = r[b].refc - 1] /\ UNCHANGED <<shared, at, seen, found, lost>>
  BY DEF Decref
<1>2. IF r[b].refc = 1 /\ r[b].cancelled
      THEN pc' = [pc EXCEPT ![t] = "delete"] /\ then' = [then EXCEPT ![t] = next] /\ stale' = stale
      ELSE pc' = [pc EXCEPT ![t] = next] /\ then' = then /\ stale' = stale
  BY DEF Decref, Goto
<1>3. b \in Blocks
  OBVIOUS
<1> HIDE DEF b
<1>4. /\ req' \in [Blocks -> Requests] /\ \A x \in Blocks \ {b} : req'[x] = r[x]
      /\ req'[b].exists = r[b].exists /\ req'[b].id = r[b].id
      /\ req'[b].listed = r[b].listed /\ req'[b].refc = r[b].refc - 1
      /\ req'[b].cancelled = r[b].cancelled /\ req'[b].rcount = r[b].rcount
  BY <1>1, <1>3 DEF Requests
<1>5. {next, "delete"} \subseteq Points /\ pc \in [Threads -> Points] /\ then \in [Threads -> Points]
  BY DEF Typed, Points, EndPoints
<1>6. /\ stale' = stale /\ pc' \in [Threads -> Points] /\ then' \in [Threads -> Points]
      /\ \A u \in Threads : u # t => pc'[u] = pc[u] /\ then'[u] = then[u]
      /\ IF r[b].refc = 1 /\ r[b].cancelled
         THEN pc'[t] = "delete" /\ then'[t] = next
         ELSE pc'[t] = next /\ then'[t] = then[t]
  BY <1>2, <1>5
<1> QED
  BY <1>1, <1>4, <1>6 DEF b

\* object::cancel(), and decref() for the reference of the queue.
LEMMA DropEffect ==
  ASSUME Typed, Calm, Alive, NEW t \in Threads, Drop(t)
  PROVE  /\ Typed' /\ Others(t) /\ at'[t] = at[t] /\ seen'[t] = seen[t]
         /\ UNCHANGED <<queue, wire, stale>>
         /\ at[t] \in Blocks /\ Exists(at[t])
         /\ OtherBlocks(at[t])
         /\ req'[at[t]].exists = req[at[t]].exists /\ req'[at[t]].id = req[at[t]].id
         /\ req'[at[t]].listed = req[at[t]].listed /\ req'[at[t]].refc = req[at[t]].refc - 1
         /\ req'[at[t]].cancelled = TRUE /\ req'[at[t]].rcount = req[at[t]].rcount
         /\ past'[at[t]].calls = past[at[t]].calls /\ past'[at[t]].ends = past[at[t]].ends + 1
         /\ past'[at[t]].sends = past[at[t]].sends /\ past'[at[t]].known = past[at[t]].known
         /\ IF req[at[t]].refc = 1
            THEN pc'[t] = "delete" /\ then'[t] = IF t = Monitor THEN "again" ELSE "release"
            ELSE pc'[t] = (IF t = Monitor THEN "again" ELSE "release") /\ then'[t] = then[t]
<1> DEFINE b == at[t]
           r == [req EXCEPT ![b].cancelled = TRUE]
           next == IF t = Monitor THEN "again" ELSE "release"
<1>1. b \in Blocks /\ Exists(b) /\ t \notin stale
  BY AtRequest DEF Drop, EndPoints
<1>2. past' = [past EXCEPT ![b].ends = past[b].ends + 1] /\ Decref(t, r, next)
  BY DEF Drop
<1>3. /\ r \in [Blocks -> Requests] /\ \A x \in Blocks \ {b} : r[x] = req[x]
      /\ r[b].exists = req[b].exists /\ r[b].id = req[b].id /\ r[b].listed = req[b].listed
      /\ r[b].refc = req[b].refc /\ r[b].cancelled = TRUE /\ r[b].rcount = req[b].rcount
  <2> HIDE DEF b
  <2>1. req \in [Blocks -> Requests]
    BY DEF Typed
  <2> QED
    BY <2>1, <1>1 DEF Requests
<1>4. /\ past' \in [Blocks -> Pasts] /\ \A x \in Blocks \ {b} : past'[x] = past[x]
      /\ past'[b].calls = past[b].calls /\ past'[b].ends = past[b].ends + 1
      /\ past'[b].sends = past[b].sends /\ past'[b].known = past[b].known
  <2> HIDE DEF b
  <2>1. past \in [Blocks -> Pasts]
    BY DEF Typed
  <2> QED
    BY <2>1, <1>1, <1>2 DEF Pasts
<1>5. next \in {"idle", "again", "release"}
  OBVIOUS
<1> HIDE DEF r, next
<1>6. /\ req' \in [Blocks -> Requests] /\ \A x \in Blocks \ {b} : req'[x] = r[x]
      /\ req'[b].exists = r[b].exists /\ req'[b].id = r[b].id
      /\ req'[b].listed = r[b].listed /\ req'[b].refc = r[b].refc - 1
      /\ req'[b].cancelled = r[b].cancelled /\ req'[b].rcount = r[b].rcount
      /\ UNCHANGED <<shared, at, seen, found, lost, stale>>
      /\ pc' \in [Threads -> Points] /\ then' \in [Threads -> Points]
      /\ \A u \in Threads : u # t => pc'[u] = pc[u] /\ then'[u] = then[u]
      /\ IF r[b].refc = 1 /\ r[b].cancelled
         THEN pc'[t] = "delete" /\ then'[t] = next
         ELSE pc'[t] = next /\ then'[t] = then[t]
  BY <1>1, <1>2, <1>3, <1>5, DecrefEffect
<1> HIDE DEF b
<1>7. Typed'
  <2>1. \A u \in Threads : pc'[u] \notin Resting \cup {"enter", "visit"} => at'[u] \in Blocks
    BY <1>1, <1>6 DEF Typed, b
  <2> QED
    BY <2>1, <1>4, <1>6 DEF Typed, shared
<1>8. Others(t) /\ at'[t] = at[t] /\ seen'[t] = seen[t] /\ UNCHANGED <<queue, wire, stale>>
  BY <1>6 DEF Others, Steady, shared
<1>9. OtherBlocks(b)
  BY <1>3, <1>4, <1>6 DEF OtherBlocks, Kept
<1> QED
  BY <1>1, <1>3, <1>4, <1>6, <1>7, <1>8, <1>9 DEF b, next

\* decref() for a reference of the thread's own.
LEMMA ReleaseEffect ==
  ASSUME Typed, Calm, Alive, NEW t \in Threads, Release(t)
  PROVE  /\ Typed' /\ Others(t) /\ at'[t] = at[t] /\ seen'[t] = seen[t]
         /\ UNCHANGED <<queue, wire, stale, past>>
         /\ at[t] \in Blocks /\ Exists(at[t])
         /\ OtherBlocks(at[t])
         /\ req'[at[t]].exists = req[at[t]].exists /\ req'[at[t]].id = req[at[t]].id
         /\ req'[at[t]].listed = req[at[t]].listed /\ req'[at[t]].refc = req[at[t]].refc - 1
         /\ req'[at[t]].cancelled = req[at[t]].cancelled /\ req'[at[t]].rcount = req[at[t]].rcount
         /\ IF req[at[t]].refc = 1 /\ req[at[t]].cancelled
            THEN pc'[t] = "delete" /\ then'[t] = "idle"
            ELSE pc'[t] = "idle" /\ then'[t] = then[t]
<1>1. at[t] \in Blocks /\ Exists(at[t]) /\ t \notin stale
  BY AtRequest DEF Release, EndPoints
<1>2. past' = past /\ Decref(t, req, "idle") /\ req \in [Blocks -> Requests]
  BY DEF Release, Typed
<1>3. /\ req' \in [Blocks -> Requests] /\ \A x \in Blocks \ {at[t]} : req'[x] = req[x]
      /\ req'[at[t]].exists = req[at[t]].exists /\ req'[at[t]].id = req[at[t]].id
      /\ req'[at[t]].listed = req[at[t]].listed /\ req'[at[t]].refc = req[at[t]].refc - 1
      /\ req'[at[t]].cancelled = req[at[t]].cancelled /\ req'[at[t]].rcount = req[at[t]].rcount
      /\ UNCHANGED <<shared, at, seen, found, lost, stale>>
      /\ pc' \in [Threads -> Points] /\ then' \in [Threads -> Points]
      /\ \A u \in Threads : u # t => pc'[u] = pc[u] /\ then'[u] = then[u]
      /\ IF req[at[t]].refc = 1 /\ req[at[t]].cancelled
         THEN pc'[t] = "delete" /\ then'[t] = "idle"
         ELSE pc'[t] = "idle" /\ then'[t] = then[t]
  BY <1>1, <1>2, DecrefEffect
<1>4. Typed'
  <2>1. \A u \in Threads : pc'[u] \notin Resting \cup {"enter", "visit"} => at'[u] \in Blocks
    BY <1>1, <1>3 DEF Typed
  <2> QED
    BY <2>1, <1>2, <1>3 DEF Typed, shared
<1>5. Others(t) /\ at'[t] = at[t] /\ seen'[t] = seen[t] /\ UNCHANGED <<queue, wire, stale>>
  BY <1>3 DEF Others, Steady, shared
<1>6. OtherBlocks(at[t])
  BY <1>2, <1>3 DEF OtherBlocks, Kept
<1> QED
  BY <1>1, <1>2, <1>3, <1>4, <1>5, <1>6

\* The destructors: who else is at the request has it freed under it.
LEMMA DeleteEffect ==
  ASSUME Typed, Calm, Alive, Queued, Roles, NEW t \in Threads, Delete(t)
  PROVE  /\ Typed' /\ Queued'
         /\ at' = at /\ seen' = seen /\ pc'[t] = then[t] /\ then'[t] = "idle"
         /\ \A u \in Threads \ {t} : pc'[u] = pc[u] /\ then'[u] = then[u]
         /\ UNCHANGED <<wire, past>>
         /\ at[t] \in Blocks /\ Exists(at[t])
         /\ OtherBlocks(at[t])
         /\ ~req'[at[t]].exists /\ ~req'[at[t]].listed
         /\ req'[at[t]].rcount = req[at[t]].rcount
         /\ \A u \in Threads \ {t} : u \in stale' <=> u \in stale \/ (at[u] = at[t] /\ pc[u] \notin Resting)
         /\ t \notin stale' => pc'[t] = "idle"
<1> DEFINE b == at[t]
           r == [req EXCEPT ![b].exists = FALSE]
<1>1. b \in Blocks /\ Exists(b) /\ t \notin stale /\ then[t] \in {"idle", "again"}
  BY AtRequest DEF Delete, EndPoints, Roles
<1>2. /\ IF req[b].listed THEN Unlisted(b, r) ELSE req' = r /\ queue' = queue
      /\ stale' = (stale \cup {u \in Threads : at[u] = b /\ pc[u] \notin Resting})
                    \ (IF then[t] = "idle" THEN {t} ELSE {})
      /\ pc' = [pc EXCEPT ![t] = then[t]] /\ then' = [then EXCEPT ![t] = "idle"]
      /\ UNCHANGED <<mx, lastid, made, due, ns, wire, at, seen, found, past, lost>>
  BY DEF Delete, Goto
<1>3. /\ r \in [Blocks -> Requests] /\ \A x \in Blocks \ {b} : r[x] = req[x]
      /\ r[b].exists = FALSE /\ r[b].listed = req[b].listed /\ r[b].rcount = req[b].rcount
  <2> HIDE DEF b
  <2>1. req \in [Blocks -> Requests]
    BY DEF Typed
  <2> QED
    BY <2>1, <1>1 DEF Requests
<1> HIDE DEF r
<1>4. /\ req' \in [Blocks -> Requests] /\ queue' \in Seq(Blocks)
      /\ \A j, k \in 1 .. Len(queue') : queue'[j] = queue'[k] => j = k
      /\ \A x \in Blocks : Within(queue', x) <=> Within(queue, x) /\ x # b
      /\ \A x \in Blocks : /\ req'[x].exists = r[x].exists /\ req'[x].id = r[x].id
                           /\ req'[x].refc = r[x].refc /\ req'[x].cancelled = r[x].cancelled
                           /\ req'[x].rcount = r[x].rcount
                           /\ req'[x].listed = (r[x].listed /\ x # b)
  <2>1. CASE req[b].listed
    BY <2>1, <1>1, <1>2, <1>3, Unlisting
  <2>2. CASE ~req[b].listed
    <3>1. req' = r /\ queue' = queue
      BY <2>2, <1>2
    <3>2. queue \in Seq(Blocks) /\ \A x \in Blocks : r[x].listed \in BOOLEAN
      BY <1>3 DEF Typed, Requests
    <3>3. ~r[b].listed /\ ~Within(queue, b) /\ \A j, k \in 1 .. Len(queue) : queue[j] = queue[k] => j = k
      BY <2>2, <1>1, <1>3 DEF Queued
    <3> QED
      BY <1>3, <3>1, <3>2, <3>3
  <2> QED
    BY <2>1, <2>2
<1> HIDE DEF b
<1>5. Queued'
  <2>1. ASSUME NEW x \in Blocks
        PROVE  /\ Within(queue', x) <=> req'[x].listed
               /\ req'[x].listed => req'[x].exists
    <3>1. req[x].listed \in BOOLEAN
      BY DEF Typed, Requests
    <3>2. (Within(queue, x) <=> req[x].listed) /\ (req[x].listed => req[x].exists)
      BY DEF Queued, Exists
    <3>3. CASE x = b
      BY <3>3, <1>4
    <3>4. CASE x # b
      BY <3>1, <3>2, <3>4, <1>3, <1>4
    <3> QED
      BY <3>3, <3>4
  <2> QED
    BY <2>1, <1>4 DEF Queued, Exists
<1>6. /\ pc' \in [Threads -> Points] /\ pc'[t] = then[t]
      /\ then' \in [Threads -> Points] /\ then'[t] = "idle"
      /\ \A u \in Threads : u # t => pc'[u] = pc[u] /\ then'[u] = then[u]
  BY <1>1, <1>2 DEF Typed, Points
<1>7. Typed'
  <2>1. \A u \in Threads : pc'[u] \notin Resting \cup {"enter", "visit"} => at'[u] \in Blocks
    BY <1>1, <1>2, <1>6 DEF Typed, b
  <2>2. stale' \subseteq Threads
    BY <1>2 DEF Typed
  <2> QED
    BY <2>1, <2>2, <1>2, <1>4, <1>6 DEF Typed
<1>8. OtherBlocks(b)
  <2>1. \A x \in Blocks : req[x].listed \in BOOLEAN
    BY DEF Typed, Requests
  <2> QED
    BY <2>1, <1>2, <1>3, <1>4 DEF OtherBlocks, Kept
<1>9. /\ ~req'[b].exists /\ ~req'[b].listed /\ req'[b].rcount = req[b].rcount
      /\ at' = at /\ seen' = seen /\ UNCHANGED <<wire, past>>
  BY <1>1, <1>2, <1>3, <1>4
<1>10. /\ \A u \in Threads \ {t} : u \in stale' <=> u \in stale \/ (at[u] = b /\ pc[u] \notin Resting)
       /\ t \notin stale' => pc'[t] = "idle"
  <2>1. pc[t] = "delete" /\ b = at[t]
    BY DEF Delete, b
  <2> QED
    BY <1>1, <1>2, <1>6, <2>1 DEF Resting
<1> QED
  BY <1>1, <1>5, <1>6, <1>7, <1>8, <1>9, <1>10 DEF b

\* A new request is at the end of the queue.
LEMMA NewEffect ==
  ASSUME Typed, Queued, NEW c \in Clients, NEW b \in Blocks, New(c, b)
  PROVE  /\ Typed' /\ Queued' /\ Others(c)
         /\ pc[c] = "idle" /\ ~Exists(b)
         /\ at'[c] = b /\ pc'[c] = "send" /\ then' = then /\ seen' = seen
         /\ UNCHANGED <<wire, stale>>
         /\ OtherBlocks(b)
         /\ req'[b].exists = TRUE /\ req'[b].id \in 1 .. IdSpan
         /\ req'[b].listed = TRUE /\ req'[b].refc = 1
         /\ req'[b].cancelled = FALSE /\ req'[b].rcount = 0
         /\ past'[b].calls = 0 /\ past'[b].ends = 0 /\ past'[b].sends = 0 /\ past'[b].known = FALSE
<1>0. PICK fits \in BOOLEAN :
        req' = Linked([req EXCEPT ![b] = [exists |-> TRUE, id |-> lastid', listed |-> TRUE, refc |-> 1,
                                          cancelled |-> FALSE, rcount |-> 0, next |-> NoReq, fits |-> fits]], queue')
  BY DEF New
<1> DEFINE e == [exists |-> TRUE, id |-> lastid', listed |-> TRUE, refc |-> 1,
                 cancelled |-> FALSE, rcount |-> 0, next |-> NoReq, fits |-> fits]
           r == [req EXCEPT ![b] = e]
           h == [calls |-> 0, ends |-> 0, sends |-> 0, known |-> FALSE]
<1>1. /\ pc[c] = "idle" /\ ~Exists(b) /\ made < MaxNew /\ made' = made + 1
      /\ lastid' = (lastid % IdSpan) + 1
      /\ queue' = Append(queue, b) /\ req' = Linked(r, queue') /\ due' = due \ {b}
      /\ past' = [past EXCEPT ![b] = h]
      /\ at' = [at EXCEPT ![c] = b] /\ pc' = [pc EXCEPT ![c] = "send"]
      /\ UNCHANGED <<mx, ns, wire, then, seen, found, stale, lost>>
  BY <1>0 DEF New, Goto
<1>2. lastid' \in 1 .. IdSpan
  <2>1. IdSpan \in Nat \ {0} /\ lastid \in Nat
    BY ResolverAssumption DEF Typed
  <2>2. lastid % IdSpan \in 0 .. IdSpan - 1
    BY <2>1
  <2> QED
    BY <1>1, <2>1, <2>2
<1>3. /\ r \in [Blocks -> Requests] /\ r[b] = e /\ \A x \in Blocks \ {b} : r[x] = req[x]
  <2>1. req \in [Blocks -> Requests]
    BY DEF Typed
  <2>2. e \in Requests
    BY <1>2 DEF Requests
  <2> HIDE DEF e
  <2> QED
    BY <2>1, <2>2
<1>4. queue' \in Seq(Blocks) /\ Len(queue') = Len(queue) + 1 /\ queue'[Len(queue')] = b
      /\ \A k \in 1 .. Len(queue) : queue'[k] = queue[k]
  BY <1>1 DEF Typed
<1> HIDE DEF r
<1>5. /\ req' \in [Blocks -> Requests]
      /\ \A x \in Blocks : /\ req'[x].exists = r[x].exists /\ req'[x].id = r[x].id
                           /\ req'[x].refc = r[x].refc /\ req'[x].rcount = r[x].rcount
                           /\ req'[x].cancelled = r[x].cancelled /\ req'[x].listed = r[x].listed
  BY <1>1, <1>3, <1>4, Linking
<1>6. ~Within(queue, b) /\ queue \in Seq(Blocks)
  BY <1>1 DEF Queued, Typed
<1>7. \A x \in Blocks : Within(queue', x) <=> Within(queue, x) \/ x = b
  BY <1>4, <1>6 DEF Within
<1>8. \A j, k \in 1 .. Len(queue') : queue'[j] = queue'[k] => j = k
  <2>1. \A k \in 1 .. Len(queue) : queue[k] # b
    BY <1>6 DEF Within
  <2>2. \A j, k \in 1 .. Len(queue) : queue[j] = queue[k] => j = k
    BY DEF Queued
  <2> QED
    BY <1>4, <1>6, <2>1, <2>2
<1>9. Queued'
  <2>1. ASSUME NEW x \in Blocks
        PROVE  /\ Within(queue', x) <=> req'[x].listed
               /\ req'[x].listed => req'[x].exists
    <3>1. (Within(queue, x) <=> req[x].listed) /\ (req[x].listed => req[x].exists)
      BY DEF Queued, Exists
    <3>2. CASE x = b
      BY <3>2, <1>3, <1>5, <1>7
    <3>3. CASE x # b
      BY <3>1, <3>3, <1>3, <1>5, <1>7
    <3> QED
      BY <3>2, <3>3
  <2> QED
    BY <2>1, <1>8 DEF Queued, Exists
<1>10. past' \in [Blocks -> Pasts] /\ past'[b] = h /\ \A x \in Blocks \ {b} : past'[x] = past[x]
  <2>1. past \in [Blocks -> Pasts] /\ h \in Pasts
    BY DEF Typed, Pasts
  <2> HIDE DEF h
  <2> QED
    BY <2>1, <1>1
<1>11. /\ pc' \in [Threads -> Points] /\ pc'[c] = "send" /\ \A u \in Threads : u # c => pc'[u] = pc[u]
       /\ at' \in [Threads -> Blocks \cup {NoReq}] /\ at'[c] = b /\ \A u \in Threads : u # c => at'[u] = at[u]
  BY <1>1 DEF Typed, Points, Threads
<1>12. Typed'
  <2>1. \A u \in Threads : pc'[u] \notin Resting \cup {"enter", "visit"} => at'[u] \in Blocks
    BY <1>11 DEF Typed
  <2>2. made' \in 0 .. MaxNew /\ lastid' \in 0 .. IdSpan
    BY <1>1, <1>2, ResolverAssumption DEF Typed
  <2> QED
    BY <2>1, <2>2, <1>1, <1>4, <1>5, <1>10, <1>11 DEF Typed
<1>13. Others(c) /\ OtherBlocks(b)
  BY <1>1, <1>3, <1>5, <1>10, <1>11 DEF Others, Steady, OtherBlocks, Kept
<1> QED
  BY <1>1, <1>2, <1>3, <1>5, <1>9, <1>10, <1>11, <1>12, <1>13

\* Where the walk goes on: freed memory is noticed.
Walks(n) == /\ at'[Monitor] = n
            /\ stale' = IF n # NoReq /\ ~Exists(n) THEN stale \cup {Monitor} ELSE stale \ {Monitor}

LEMMA VisitEffect ==
  ASSUME Typed, Calm, Alive, Visit
  PROVE  /\ Typed' /\ Others(Monitor) /\ then' = then /\ seen' = seen
         /\ UNCHANGED <<req, queue, wire, past>>
         /\ at[Monitor] \in Blocks /\ Exists(at[Monitor]) /\ pc[Monitor] = "visit"
         /\ \/ pc'[Monitor] = "visit" /\ Walks(req[at[Monitor]].next)
            \/ /\ pc'[Monitor] = "call" /\ at' = at /\ stale' = stale
            \/ /\ pc'[Monitor] = "send" /\ at' = at /\ stale' = stale
               /\ req[at[Monitor]].rcount < Repeat
<1> DEFINE b == at[Monitor]
<1>1. pc[Monitor] = "visit" /\ b \in Blocks /\ Monitor \notin stale /\ Exists(b) /\ Monitor \in Threads
  BY DEF Visit, Typed, Calm, Alive, Threads, Resting
<1>2. UNCHANGED <<req, queue, lastid, made, due, ns, wire, then, seen, past, lost>>
      /\ found' \in BOOLEAN /\ mx' \in BOOLEAN
  BY DEF Visit, Typed, Requests
<1>3. CASE req[b].cancelled \/ b \notin due
  <2>1. pc' = pc /\ at' = [at EXCEPT ![Monitor] = req[b].next] /\ Walks(req[b].next)
    BY <1>1, <1>3 DEF Visit, Walks, Typed
  <2>2. req[b].next \in Blocks \cup {NoReq}
    BY <1>1 DEF Typed, Requests
  <2>3. at' \in [Threads -> Blocks \cup {NoReq}] /\ \A u \in Threads : u # Monitor => at'[u] = at[u]
    BY <2>1, <2>2 DEF Typed
  <2>4. stale' \subseteq Threads
    BY <2>1, <1>1 DEF Walks, Typed
  <2>5. Typed'
    <3>1. \A u \in Threads : pc'[u] \notin Resting \cup {"enter", "visit"} => at'[u] \in Blocks
      BY <2>1, <2>3, <1>1 DEF Typed
    <3> QED
      BY <3>1, <2>1, <2>3, <2>4, <1>2 DEF Typed
  <2> QED
    BY <2>1, <2>3, <2>5, <1>1, <1>2 DEF Others, Steady
<1>4. CASE ~(req[b].cancelled \/ b \notin due)
  <2>1. pc' = [pc EXCEPT ![Monitor] = IF Expired(b) THEN "call" ELSE "send"] /\ at' = at /\ stale' = stale
    BY <1>1, <1>4 DEF Visit, Goto
  <2>2. /\ pc' \in [Threads -> Points] /\ \A u \in Threads : u # Monitor => pc'[u] = pc[u]
        /\ pc'[Monitor] = IF Expired(b) THEN "call" ELSE "send"
    BY <2>1, <1>1 DEF Typed, Points, EndPoints
  <2>3. Expired(b) \/ req[b].rcount < Repeat
    <3>1. req[b].rcount \in Nat /\ Repeat \in Nat
      BY <1>1, ResolverAssumption DEF Typed, Requests
    <3> QED
      BY <3>1, <1>4 DEF Expired
  <2>4. Typed'
    <3>1. \A u \in Threads : pc'[u] \notin Resting \cup {"enter", "visit"} => at'[u] \in Blocks
      BY <2>1, <2>2, <1>1 DEF Typed
    <3> QED
      BY <3>1, <2>1, <2>2, <1>2 DEF Typed
  <2> QED
    BY <2>1, <2>2, <2>3, <2>4, <1>1, <1>2 DEF Others, Steady
<1> QED
  BY <1>3, <1>4

----------------------------------------------------------------------------
(* What the parts of the invariant rest on.                                *)

Sound == Typed /\ Bounds /\ CancelSafe /\ Good

LEMMA HoldersSame ==
  ASSUME NEW b, \A u \in Clients \cup {Worker} :
           (at'[u] = b /\ pc'[u] \in Holding) <=> (at[u] = b /\ pc[u] \in Holding)
  PROVE  Holders(b)' = Holders(b)
BY DEF Holders

\* The freed memory is not a client's: a client with a reference has its request.
LEMMA SafeOfAlive ==
  ASSUME Typed', Alive', stale' \subseteq {Monitor}
  PROVE  CancelSafe'
<1> SUFFICES ASSUME NEW c \in Clients, pc'[c] \in Holding
             PROVE  Exists(at[c])' /\ c \notin stale'
  BY DEF CancelSafe, Holding
<1>1. c \in Threads /\ c # Monitor /\ c \notin stale'
  BY ResolverAssumption DEF Threads
<1>2. pc'[c] \notin Resting \cup {"enter", "visit"}
  BY DEF Holding, Resting
<1>3. at'[c] \in Blocks
  BY <1>1, <1>2 DEF Typed
<1> QED
  BY <1>1, <1>2, <1>3 DEF Alive

LEMMA BoundsKept ==
  ASSUME Bounds, wire' = wire,
         \A b \in Blocks : req'[b].rcount = req[b].rcount /\ past'[b].sends = past[b].sends
  PROVE  Bounds'
BY DEF Bounds

\* No attempt is made: who sends is where it was.
LEMMA AttemptsKept ==
  ASSUME Attempts, Typed, Typed',
         \A u \in Threads : pc'[u] \in Sending \/ pc[u] \in Sending => Steady(u),
         \A b \in Blocks : req'[b].rcount = req[b].rcount /\ past'[b].sends = past[b].sends
  PROVE  Attempts'
<1>0. Clients \subseteq Threads /\ Monitor \in Threads
  BY DEF Threads
<1>1. \A b : Constructed(b)' <=> Constructed(b)
  BY <1>0 DEF Constructed, Steady
<1>2. \A b : /\ MonitorAt(b, Sending)' <=> MonitorAt(b, Sending)
             /\ MonitorAt(b, {"store"})' <=> MonitorAt(b, {"store"})
             /\ MonitorAt(b, {"count", "store"})' <=> MonitorAt(b, {"count", "store"})
  BY <1>0 DEF MonitorAt, Steady, Sending
<1>3. \A b : Uncounted(b)' = Uncounted(b)
  BY <1>2 DEF Uncounted
<1>4. ASSUME NEW c \in Clients, pc'[c] \in Sending
      PROVE  Tried(c)'
  <2>1. Steady(c) /\ at[c] \in Blocks
    BY <1>0, <1>4 DEF Typed, Steady, Sending, Resting
  <2>2. /\ req[at[c]].rcount <= Repeat
        /\ pc[c] = "store" => seen[c] <= req[at[c]].rcount
        /\ MonitorAt(at[c], Sending) => req[at[c]].rcount < Repeat
        /\ MonitorAt(at[c], {"store"}) => seen[Monitor] = req[at[c]].rcount
        /\ past[at[c]].sends = req[at[c]].rcount + Uncounted(at[c]) + (IF pc[c] = "send" THEN 0 ELSE 1)
    BY <1>4, <2>1 DEF Attempts, Tried, Steady
  <2>3. MonitorAt(at[c], {"store"}) => seen'[Monitor] = seen[Monitor]
    BY <1>0 DEF MonitorAt, Steady, Sending
  <2>4. at'[c] = at[c] /\ pc'[c] = pc[c] /\ seen'[c] = seen[c]
        /\ req'[at[c]].rcount = req[at[c]].rcount /\ past'[at[c]].sends = past[at[c]].sends
    BY <2>1 DEF Steady
  <2>5. /\ MonitorAt(at[c], Sending)' <=> MonitorAt(at[c], Sending)
        /\ MonitorAt(at[c], {"store"})' <=> MonitorAt(at[c], {"store"})
        /\ Uncounted(at[c])' = Uncounted(at[c])
    BY <1>0, <2>4 DEF Uncounted, MonitorAt, Steady, Sending
  <2> QED
    BY <2>2, <2>3, <2>4, <2>5 DEF Tried
<1>5. ASSUME pc'[Monitor] \in Sending
      PROVE  Steady(Monitor) /\ at[Monitor] \in Blocks
  BY <1>0, <1>5 DEF Typed, Steady, Sending, Resting
<1>6. MonitorTried'
  BY <1>5 DEF Attempts, MonitorTried, Steady, Sending
<1>7. ASSUME NEW b \in Blocks, ~Constructed(b)'
      PROVE  Spent(b)'
  <2>1. past[b].sends <= Repeat + Uncounted(b)
                           + (IF MonitorAt(b, {"store"}) THEN seen[Monitor] ELSE req[b].rcount)
    BY <1>1, <1>7 DEF Attempts, Spent
  <2>2. MonitorAt(b, {"store"}) => seen'[Monitor] = seen[Monitor]
    BY <1>0 DEF MonitorAt, Steady, Sending
  <2> QED
    BY <1>2, <1>3, <2>1, <2>2 DEF Spent
<1> QED
  BY <1>4, <1>6, <1>7 DEF Attempts

\* An attempt for one block.
LEMMA AttemptsElsewhere ==
  ASSUME Attempts, Typed, Typed', NEW b \in Blocks,
         \A u \in Threads : at'[u] = at[u] /\ (at[u] # b => Steady(u)),
         \A x \in Blocks \ {b} : req'[x].rcount = req[x].rcount /\ past'[x].sends = past[x].sends,
         \A c \in Clients : at[c] = b /\ pc'[c] \in Sending => Tried(c)',
         at[Monitor] = b => MonitorTried',
         ~Constructed(b)' => Spent(b)'
  PROVE  Attempts'
<1>0. Clients \subseteq Threads /\ Monitor \in Threads
  BY DEF Threads
<1>1. ASSUME NEW x \in Blocks \ {b}
      PROVE  /\ Constructed(x)' <=> Constructed(x)
             /\ MonitorAt(x, Sending)' <=> MonitorAt(x, Sending)
             /\ MonitorAt(x, {"store"})' <=> MonitorAt(x, {"store"})
             /\ Uncounted(x)' = Uncounted(x)
             /\ MonitorAt(x, {"store"}) => seen'[Monitor] = seen[Monitor]
  BY <1>0 DEF Constructed, MonitorAt, Uncounted, Steady
<1>2. ASSUME NEW c \in Clients, pc'[c] \in Sending
      PROVE  Tried(c)'
  <2>1. CASE at[c] = b
    BY <1>2, <2>1
  <2>2. CASE at[c] # b
    <3> DEFINE x == at[c]
    <3>1. Steady(c) /\ x \in Blocks \ {b}
      BY <1>0, <1>2, <2>2 DEF Typed, Steady, Sending, Resting
    <3>2. /\ req[x].rcount <= Repeat
          /\ pc[c] = "store" => seen[c] <= req[x].rcount
          /\ MonitorAt(x, Sending) => req[x].rcount < Repeat
          /\ MonitorAt(x, {"store"}) => seen[Monitor] = req[x].rcount
          /\ past[x].sends = req[x].rcount + Uncounted(x) + (IF pc[c] = "send" THEN 0 ELSE 1)
      BY <1>2, <3>1 DEF Attempts, Tried, Steady
    <3>3. at'[c] = x /\ pc'[c] = pc[c] /\ seen'[c] = seen[c]
          /\ req'[x].rcount = req[x].rcount /\ past'[x].sends = past[x].sends
      BY <3>1 DEF Steady
    <3>4. /\ MonitorAt(at[c], Sending)' <=> MonitorAt(x, Sending)
          /\ MonitorAt(at[c], {"store"})' <=> MonitorAt(x, {"store"})
          /\ Uncounted(at[c])' = Uncounted(x)
          /\ MonitorAt(x, {"store"}) => seen'[Monitor] = seen[Monitor]
      BY <1>0, <2>2, <3>3 DEF Uncounted, MonitorAt, Steady
    <3> HIDE DEF x
    <3> QED
      BY <3>2, <3>3, <3>4 DEF Tried
  <2> QED
    BY <2>1, <2>2
<1>3. MonitorTried'
  <2>1. CASE at[Monitor] # b
    <3>1. Steady(Monitor) /\ (pc[Monitor] \in Sending => at[Monitor] \in Blocks \ {b})
      BY <1>0, <2>1 DEF Typed, Sending, Resting
    <3> QED
      BY <3>1 DEF Attempts, MonitorTried, Steady, Sending
  <2> QED
    BY <2>1
<1>4. ASSUME NEW x \in Blocks, ~Constructed(x)'
      PROVE  Spent(x)'
  <2>1. CASE x = b
    BY <1>4, <2>1
  <2>2. CASE x # b
    <3>1. past[x].sends <= Repeat + Uncounted(x)
                             + (IF MonitorAt(x, {"store"}) THEN seen[Monitor] ELSE req[x].rcount)
      BY <1>1, <1>4, <2>2 DEF Attempts, Spent
    <3> QED
      BY <1>1, <2>2, <3>1 DEF Spent
  <2> QED
    BY <2>1, <2>2
<1> QED
  BY <1>2, <1>3, <1>4 DEF Attempts

\* Nobody begins to construct, nobody is told an id.
LEMMA OneMakerKept ==
  ASSUME OneMaker,
         \A c \in Clients : pc'[c] \in Making => pc[c] \in Making /\ at'[c] = at[c]
                                                   /\ past'[at[c]].known = past[at[c]].known
  PROVE  OneMaker'
BY DEF OneMaker

\* Nobody begins to delete, to hold or to construct.
LEMMA DeletionsKept ==
  ASSUME Deletions,
         \A u \in Threads : pc'[u] = "delete" =>
           /\ pc[u] = "delete" /\ at'[u] = at[u]
           /\ past[at[u]].calls > 0 => past'[at[u]].calls > 0
           /\ past'[at[u]].known => past[at[u]].known \/ past[at[u]].calls > 0,
         \A c \in Clients : pc'[c] \in Holding =>
           pc[c] \in Holding /\ at'[c] = at[c] /\ (past[at[c]].known => past'[at[c]].known),
         \A c \in Clients : pc'[c] \in Making => pc[c] \in Making /\ at'[c] = at[c]
  PROVE  Deletions'
BY DEF Deletions

\* A step that changes no request, and neither takes nor gives back a reference.
LEMMA Passing ==
  ASSUME Typed, Good, NEW t \in Threads, UNCHANGED <<req, queue, past>>, Others(t),
         t = Monitor \/ (pc[t] \notin Holding /\ pc'[t] \notin Holding),
         pc[t] \notin {"drop", "delete"}, pc'[t] # "drop"
  PROVE  Numbered' /\ Queued' /\ Counted' /\ Ordered' /\ Reachable'
<1>1. Numbered' /\ Queued'
  BY DEF Good, Numbered, Queued, Within, Exists
<1>2. \A b : Holders(b)' = Holders(b)
  <2>1. Clients \cup {Worker} \subseteq Threads /\ Monitor \notin Clients \cup {Worker}
    BY ResolverAssumption DEF Threads
  <2> QED
    BY <2>1, HoldersSame DEF Others, Steady
<1>3. Counted'
  BY <1>2 DEF Good, Counted, Exists
<1>4. Ordered'
  BY DEF Good, Ordered, Exists, Others, Steady
<1>5. Reachable'
  <2> SUFFICES ASSUME NEW b \in Blocks, Exists(b), ~req[b].listed
               PROVE  (\/ \E u \in Threads : at[u] = b /\ pc[u] \in {"drop", "delete"}
                       \/ past[b].ends > 0 /\ Holders(b) # {})'
    BY DEF Reachable, Exists
  <2>1. CASE \E u \in Threads : at[u] = b /\ pc[u] \in {"drop", "delete"}
    BY <2>1 DEF Others, Steady
  <2>2. CASE past[b].ends > 0 /\ Holders(b) # {}
    BY <2>2, <1>2
  <2> QED
    BY <2>1, <2>2 DEF Good, Reachable
<1> QED
  BY <1>1, <1>3, <1>4, <1>5

----------------------------------------------------------------------------
(* The invariant, action by action.                                        *)

\* A step of the monitor between two requests.
LEMMA WalkGood ==
  ASSUME Sound, Calm, Typed', Others(Monitor), UNCHANGED <<req, queue, past, wire>>,
         pc[Monitor] \in {"idle", "asleep", "cycle", "enter", "again", "visit"},
         pc'[Monitor] \in {"idle", "asleep", "cycle", "enter", "visit"},
         stale' \subseteq stale \cup {Monitor},
         \/ pc'[Monitor] \in Resting
         \/ Monitor \in stale'
         \/ at'[Monitor] = NoReq
         \/ Exists(at'[Monitor])
  PROVE  Sound'
<1>0. Monitor \in Threads /\ Clients \subseteq Threads /\ Worker \in Threads
      /\ Monitor \notin Clients /\ Monitor # Worker
  BY ResolverAssumption DEF Threads
<1>1. Numbered' /\ Queued' /\ Counted' /\ Ordered' /\ Reachable'
  BY <1>0, Passing DEF Sound, Holding
<1>2. Roles'
  BY <1>0 DEF Sound, Good, Roles, Others, Steady
<1>3. Alive'
  <2> SUFFICES ASSUME NEW u \in Threads, u \notin stale', pc'[u] \notin Resting, at'[u] \in Blocks
               PROVE  Exists(at[u])'
    BY DEF Alive
  <2>1. CASE u = Monitor
    BY <2>1, ResolverAssumption DEF Exists
  <2>2. CASE u # Monitor
    <3>1. u \notin stale
      BY <2>2 DEF Calm
    <3> QED
      BY <2>2, <3>1 DEF Sound, Good, Alive, Others, Steady, Exists
  <2> QED
    BY <2>1, <2>2
<1>4. OneMaker'
  BY <1>0, OneMakerKept DEF Sound, Good, Others, Steady
<1>5. Deletions'
  BY <1>0, DeletionsKept DEF Sound, Good, Others, Steady
<1>6. Attempts'
  <2>1. \A u \in Threads : pc'[u] \in Sending \/ pc[u] \in Sending => Steady(u)
    BY <1>0 DEF Others, Sending
  <2> QED
    BY <2>1, AttemptsKept DEF Sound, Good
<1>7. Bounds' /\ CancelSafe'
  <2>1. stale' \subseteq {Monitor}
    BY DEF Calm
  <2> QED
    BY <1>3, <2>1, BoundsKept, SafeOfAlive DEF Sound
<1> QED
  BY <1>1, <1>2, <1>3, <1>4, <1>5, <1>6, <1>7 DEF Sound, Good

LEMMA MonitorRests ==
  ASSUME Sound, Calm, Sleep \/ SpuriousWake \/ ReadHead \/ Enter \/ Again \/ Leave
  PROVE  Sound'
<1> USE DEF Sound
<1>0. Monitor \in Threads
  BY DEF Threads
<1>1. CASE Sleep
  <2>1. Typed' /\ Others(Monitor)
    BY <1>1, <1>0 DEF Sleep, Goto, Typed, Points, Resting, shared, history, Others, Steady
  <2>2. pc[Monitor] = "idle" /\ pc'[Monitor] = "asleep" /\ UNCHANGED <<req, queue, past, wire, stale>>
    BY <1>1, <1>0 DEF Sleep, Goto, Typed, shared, history
  <2> QED
    BY <2>1, <2>2, WalkGood DEF Resting
<1>2. CASE SpuriousWake
  <2>1. Typed' /\ Others(Monitor)
    BY <1>2, <1>0 DEF SpuriousWake, Goto, Typed, Points, Resting, shared, history, Others, Steady
  <2>2. pc[Monitor] = "asleep" /\ pc'[Monitor] = "cycle" /\ UNCHANGED <<req, queue, past, wire, stale>>
    BY <1>2, <1>0 DEF SpuriousWake, Goto, Typed, shared, history
  <2> QED
    BY <2>1, <2>2, WalkGood DEF Resting
<1>3. CASE ReadHead
  <2>1. Head1(queue) = NoReq \/ (Head1(queue) \in Blocks /\ Exists(Head1(queue)))
    <3>1. CASE queue = << >>
      BY <3>1 DEF Head1
    <3>2. CASE queue # << >>
      <4>1. queue \in Seq(Blocks) /\ 1 \in 1 .. Len(queue) /\ Head1(queue) = queue[1]
        BY <3>2 DEF Typed, Head1
      <4>2. queue[1] \in Blocks /\ Within(queue, queue[1])
        BY <4>1 DEF Within
      <4> QED
        BY <4>1, <4>2 DEF Good, Queued
    <3> QED
      BY <3>1, <3>2
  <2>2. /\ pc' = [pc EXCEPT ![Monitor] = "enter"] /\ at' = [at EXCEPT ![Monitor] = Head1(queue)]
        /\ lost' \in BOOLEAN /\ found' \in BOOLEAN /\ pc[Monitor] = "cycle"
        /\ UNCHANGED <<req, queue, mx, lastid, made, due, ns, wire, then, seen, past, stale>>
    BY <1>3 DEF ReadHead, Goto, shared, Typed
  <2>3. Typed'
    BY <2>1, <2>2, <1>0 DEF Typed, Points, Resting
  <2>4. Others(Monitor) /\ pc'[Monitor] = "enter" /\ at'[Monitor] = Head1(queue)
    BY <2>2, <1>0 DEF Others, Steady, Typed
  <2> QED
    BY <2>1, <2>2, <2>3, <2>4, WalkGood DEF Exists
<1>4. CASE Enter
  <2>1. /\ pc[Monitor] = "enter" /\ pc' = [pc EXCEPT ![Monitor] = "visit"] /\ mx' = TRUE
        /\ UNCHANGED <<req, queue, lastid, made, due, ns, wire, at, then, seen, found, past, stale, lost>>
    BY <1>4 DEF Enter, Goto, history
  <2>2. /\ pc' \in [Threads -> Points] /\ pc'[Monitor] = "visit"
        /\ \A u \in Threads : u # Monitor => pc'[u] = pc[u]
    BY <2>1, <1>0 DEF Typed, Points
  <2>4. Typed' /\ Others(Monitor)
    BY <2>1, <2>2 DEF Typed, Others, Steady
  <2>3. at[Monitor] = NoReq \/ Exists(at[Monitor])
    BY <2>1, <1>0 DEF Typed, Calm, Good, Alive, Resting
  <2> QED
    BY <2>1, <2>2, <2>3, <2>4, WalkGood DEF Exists
<1>5. CASE Again
  <2> DEFINE n == req[at[Monitor]].next
  <2>1. n \in Blocks \cup {NoReq} /\ pc[Monitor] = "again"
    BY <1>5, <1>0 DEF Again, Typed, Requests, Resting
  <2>2. /\ pc' = [pc EXCEPT ![Monitor] = "visit"] /\ at' = [at EXCEPT ![Monitor] = n]
        /\ mx' = TRUE /\ Walks(n)
        /\ UNCHANGED <<req, queue, lastid, made, due, ns, wire, then, seen, found, past, lost>>
    BY <1>5, <1>0 DEF Again, Goto, Walks, Typed
  <2> HIDE DEF n
  <2>3. stale' \subseteq Threads
    BY <2>2, <1>0 DEF Walks, Typed
  <2>4. Typed'
    BY <2>1, <2>2, <2>3, <1>0 DEF Typed, Points, Resting
  <2>5. Others(Monitor) /\ pc'[Monitor] = "visit" /\ at'[Monitor] = n
    BY <2>2, <1>0 DEF Others, Steady, Typed
  <2>6. stale' \subseteq stale \cup {Monitor} /\ (Monitor \in stale' \/ n = NoReq \/ Exists(n))
    BY <2>2 DEF Walks
  <2> QED
    BY <2>1, <2>2, <2>4, <2>5, <2>6, WalkGood DEF Exists
<1>6. CASE Leave
  <2>1. /\ pc[Monitor] = "visit" /\ pc' = [pc EXCEPT ![Monitor] = IF found THEN "cycle" ELSE "idle"]
        /\ mx' = FALSE
        /\ UNCHANGED <<req, queue, lastid, made, due, ns, wire, at, then, seen, found, past, stale, lost>>
    BY <1>6 DEF Leave, Goto, history
  <2>2. pc'[Monitor] \in {"cycle", "idle"} /\ (\A u \in Threads : u # Monitor => pc'[u] = pc[u])
        /\ pc' \in [Threads -> Points]
    BY <2>1, <1>0 DEF Typed, Points
  <2>3. Typed' /\ Others(Monitor)
    BY <2>1, <2>2 DEF Typed, Resting, Others, Steady
  <2> QED
    BY <2>1, <2>2, <2>3, WalkGood DEF Resting
<1> QED
  BY <1>1, <1>2, <1>3, <1>4, <1>5, <1>6

LEMMA VisitGood == ASSUME Sound, Calm, Visit PROVE Sound'
<1> USE DEF Sound
<1>0. Monitor \in Threads /\ Clients \subseteq Threads /\ Worker \in Threads
      /\ Monitor \notin Clients /\ Monitor # Worker
  BY ResolverAssumption DEF Threads
<1>1. /\ Typed' /\ Others(Monitor) /\ then' = then /\ seen' = seen
      /\ UNCHANGED <<req, queue, wire, past>>
      /\ at[Monitor] \in Blocks /\ Exists(at[Monitor]) /\ pc[Monitor] = "visit"
      /\ \/ pc'[Monitor] = "visit" /\ Walks(req[at[Monitor]].next)
         \/ /\ pc'[Monitor] = "call" /\ at' = at /\ stale' = stale
         \/ /\ pc'[Monitor] = "send" /\ at' = at /\ stale' = stale
            /\ req[at[Monitor]].rcount < Repeat
  BY VisitEffect DEF Good
<1>2. CASE pc'[Monitor] = "visit"
  <2>1. /\ stale' \subseteq stale \cup {Monitor}
        /\ \/ Monitor \in stale' \/ at'[Monitor] = NoReq \/ Exists(at'[Monitor])
    BY <1>1, <1>2 DEF Walks
  <2> QED
    BY <1>1, <1>2, <2>1, WalkGood
<1>3. CASE pc'[Monitor] \in {"call", "send"}
  <2>0. at' = at /\ stale' = stale
    BY <1>1, <1>3
  <2>1. Numbered' /\ Queued' /\ Counted' /\ Ordered' /\ Reachable'
    BY <1>0, <1>1, <1>3, Passing
  <2>2. Roles'
    BY <1>0, <1>1, <1>3 DEF Good, Roles, Others, Steady, Sending, EndPoints
  <2>3. Alive'
    BY <1>0, <1>1, <1>3, <2>0 DEF Good, Alive, Others, Steady, Exists
  <2>4. OneMaker'
    BY <1>0, <1>1, OneMakerKept DEF Good, Others, Steady
  <2>5. Deletions'
    BY <1>0, <1>1, <1>3, DeletionsKept DEF Good, Others, Steady
  <2>6. Attempts'
    <3>1. CASE pc'[Monitor] = "call"
      <4>1. \A u \in Threads : pc'[u] \in Sending \/ pc[u] \in Sending => Steady(u)
        BY <1>0, <1>1, <3>1 DEF Others, Sending
      <4> QED
        BY <1>1, <4>1, AttemptsKept DEF Good
    <3>2. CASE pc'[Monitor] = "send"
      <4> DEFINE b == at[Monitor]
      <4>1. b \in Blocks /\ req[b].rcount < Repeat /\ req[b].rcount \in Nat /\ Repeat \in Nat
            /\ past[b].sends \in Nat
        BY <1>1, <3>2, ResolverAssumption DEF Typed, Requests, Pasts
      <4>2. \A c \in Clients : pc'[c] = pc[c] /\ at'[c] = at[c] /\ seen'[c] = seen[c]
        BY <1>0, <1>1 DEF Others, Steady
      <4>3. \A x : Uncounted(x) = 0 /\ Uncounted(x)' = 0 /\ ~MonitorAt(x, {"store"}) /\ ~MonitorAt(x, {"store"})'
        BY <1>1, <3>2 DEF Uncounted, MonitorAt
      <4>4. \A x : MonitorAt(x, Sending)' => x = b
        BY <2>0 DEF MonitorAt
      <4>5. \A x : Constructed(x)' <=> Constructed(x)
        BY <4>2 DEF Constructed
      <4>6. ASSUME NEW c \in Clients, pc'[c] \in Sending
            PROVE  Tried(c)'
        <5>1. /\ req[at[c]].rcount <= Repeat
              /\ pc[c] = "store" => seen[c] <= req[at[c]].rcount
              /\ past[at[c]].sends = req[at[c]].rcount + Uncounted(at[c]) + (IF pc[c] = "send" THEN 0 ELSE 1)
          BY <4>2, <4>6 DEF Good, Attempts, Tried
        <5>2. MonitorAt(at[c], Sending)' => req[at[c]].rcount < Repeat
          BY <4>1, <4>2, <2>0 DEF MonitorAt
        <5>3. ~MonitorAt(at[c], {"store"})' /\ Uncounted(at[c])' = Uncounted(at[c])
          BY <1>1, <3>2 DEF Uncounted, MonitorAt
        <5> QED
          BY <5>1, <5>2, <5>3, <4>2, <1>1 DEF Tried
      <4>7. past[b].sends < 2 * Repeat
        <5>1. CASE Constructed(b)
          <6>1. PICK c \in Clients : at[c] = b /\ pc[c] \in Sending
            BY <5>1 DEF Constructed
          <6>2. past[b].sends = req[b].rcount + 0 + (IF pc[c] = "send" THEN 0 ELSE 1)
            BY <6>1, <4>3 DEF Good, Attempts, Tried
          <6> QED
            BY <6>2, <4>1
        <5>2. CASE ~Constructed(b)
          <6>1. past[b].sends <= Repeat + 0 + req[b].rcount
            BY <5>2, <4>1, <4>3 DEF Good, Attempts, Spent
          <6> QED
            BY <6>1, <4>1
        <5> QED
          BY <5>1, <5>2
      <4>8. MonitorTried'
        BY <1>1, <2>0, <3>2, <4>1, <4>7 DEF MonitorTried
      <4>9. ASSUME NEW x \in Blocks, ~Constructed(x)'
            PROVE  Spent(x)'
        BY <1>1, <4>3, <4>5, <4>9 DEF Good, Attempts, Spent
      <4> QED
        BY <4>6, <4>8, <4>9 DEF Attempts
    <3> QED
      BY <1>3, <3>1, <3>2
  <2>7. Bounds' /\ CancelSafe'
    <3>1. stale' \subseteq {Monitor}
      BY <2>0 DEF Calm
    <3> QED
      BY <1>1, <2>3, <3>1, BoundsKept, SafeOfAlive
  <2> QED
    BY <1>1, <2>1, <2>2, <2>3, <2>4, <2>5, <2>6, <2>7 DEF Good
<1> QED
  BY <1>1, <1>2, <1>3

\* A thread that constructs or sends holds no reference and ends nothing.
LEMMA AttemptGood ==
  ASSUME Sound, Calm, NEW t \in Threads, pc[t] \in Making, at[t] \in Blocks, Exists(at[t]),
         pc'[t] \in Making \cup {"again", "idle"}, pc'[t] = "refuse" => t \in Clients,
         pc'[t] = "again" => t = Monitor,
         Typed', at'[t] = at[t], UNCHANGED <<queue, stale>>,
         \A u \in Threads \ {t} :
           /\ at'[u] = at[u] /\ then'[u] = then[u]
           /\ pc'[u] = pc[u] \/ (u = Monitor /\ pc[u] = "asleep" /\ pc'[u] = "cycle"),
         \A b \in Blocks :
           /\ req'[b].exists = req[b].exists /\ req'[b].id = req[b].id
           /\ req'[b].listed = req[b].listed /\ req'[b].refc = req[b].refc
           /\ req'[b].cancelled = req[b].cancelled
           /\ past'[b].calls = past[b].calls /\ past'[b].ends = past[b].ends
           /\ past'[b].known # past[b].known => t \in Clients /\ at[t] = b /\ pc'[t] = "idle"
  PROVE  CancelSafe' /\ Roles' /\ Alive' /\ Numbered' /\ Queued' /\ OneMaker' /\ Counted'
           /\ Ordered' /\ Deletions' /\ Reachable'
<1> USE DEF Sound
<1>0. /\ Monitor \in Threads /\ Clients \cup {Worker} \subseteq Threads
      /\ Monitor \notin Clients \cup {Worker} /\ Worker \notin Clients
  BY ResolverAssumption DEF Threads
<1>1. /\ pc[t] \notin EndPoints /\ pc'[t] \notin EndPoints
      /\ pc[t] \in Making /\ pc[t] \notin Resting /\ t # Worker
  BY <1>0 DEF Good, Roles, EndPoints, Making, Sending, Resting
<1>2. \A u \in Threads \ {t} :
         /\ at'[u] = at[u] /\ then'[u] = then[u]
         /\ pc'[u] = pc[u] \/ (u = Monitor /\ pc[u] = "asleep" /\ pc'[u] = "cycle")
  OBVIOUS
<1>3. \A b : Holders(b)' = Holders(b)
  BY <1>0, <1>1, <1>2, HoldersSame DEF Holding, EndPoints
<1>4. Roles'
  BY <1>0, <1>1, <1>2 DEF Good, Roles, EndPoints, Making, Sending
<1>5. Alive'
  BY <1>1, <1>2 DEF Good, Alive, Exists, Resting
<1>6. CancelSafe'
  <2>1. stale' \subseteq {Monitor}
    BY DEF Calm
  <2> QED
    BY <1>5, <2>1, SafeOfAlive
<1>7. Numbered' /\ Queued'
  BY DEF Good, Numbered, Queued, Exists, Within
<1>8. OneMaker'
  <2>1. ASSUME NEW c \in Clients, pc'[c] \in Making
        PROVE  pc[c] \in Making /\ at'[c] = at[c] /\ past'[at[c]].known = past[at[c]].known
    <3>1. pc[c] \in Making /\ at'[c] = at[c]
      BY <1>0, <1>1, <1>2, <2>1
    <3>2. at[c] \in Blocks
      BY <1>0, <3>1 DEF Typed, Making, Sending, Resting
    <3>3. at[c] = at[t] /\ t \in Clients => c = t
      BY <1>1, <3>1 DEF Good, OneMaker
    <3>4. "idle" \notin Making
      BY DEF Making, Sending
    <3> QED
      BY <2>1, <3>1, <3>2, <3>3, <3>4
  <2> QED
    BY <2>1, OneMakerKept DEF Good
<1>9. Counted'
  BY <1>3 DEF Good, Counted, Exists
<1>10. Ordered'
  <2>1. \A u \in Threads : pc'[u] = "drop" => pc[u] = "drop" /\ at'[u] = at[u] /\ at[u] \in Blocks
    BY <1>1, <1>2 DEF Typed, EndPoints, Resting
  <2> QED
    BY <2>1 DEF Good, Ordered, Exists
<1>11. Deletions'
  <2>1. ASSUME NEW u \in Threads, pc'[u] = "delete"
        PROVE  /\ pc[u] = "delete" /\ at'[u] = at[u]
               /\ past[at[u]].calls > 0 => past'[at[u]].calls > 0
               /\ past'[at[u]].known => past[at[u]].known \/ past[at[u]].calls > 0
    <3>1. pc[u] = "delete" /\ at'[u] = at[u] /\ at[u] \in Blocks
      BY <1>1, <1>2, <2>1 DEF Typed, EndPoints, Resting
    <3>2. past[at[u]].calls > 0 \/ ~(t \in Clients /\ at[t] = at[u])
      BY <1>1, <3>1 DEF Good, Deletions
    <3>3. past'[at[u]].known => past[at[u]].known \/ (t \in Clients /\ at[t] = at[u])
      BY <3>1 DEF Typed, Pasts
    <3> QED
      BY <3>1, <3>2, <3>3
  <2>2. ASSUME NEW c \in Clients, pc'[c] \in Holding
        PROVE  pc[c] \in Holding /\ at'[c] = at[c] /\ (past[at[c]].known => past'[at[c]].known)
    <3>1. pc[c] \in Holding /\ at'[c] = at[c] /\ at[c] \in Blocks /\ c # t
      BY <1>0, <1>1, <1>2, <2>2 DEF Typed, Holding, EndPoints, Resting
    <3>2. past[at[c]].known
      BY <3>1 DEF Good, Deletions
    <3>3. at[c] = at[t] /\ t \in Clients => FALSE
      BY <1>1, <3>2 DEF Good, OneMaker
    <3> QED
      BY <3>1, <3>3
  <2>3. \A c \in Clients : pc'[c] \in Making => pc[c] \in Making /\ at'[c] = at[c]
    BY <1>0, <1>1, <1>2 DEF Making, Sending
  <2> QED
    BY <2>1, <2>2, <2>3, DeletionsKept DEF Good
<1>12. Reachable'
  <2> SUFFICES ASSUME NEW b \in Blocks, Exists(b), ~req[b].listed
               PROVE  (\/ \E u \in Threads : at[u] = b /\ pc[u] \in {"drop", "delete"}
                       \/ past[b].ends > 0 /\ Holders(b) # {})'
    BY DEF Reachable, Exists
  <2>1. CASE \E u \in Threads : at[u] = b /\ pc[u] \in {"drop", "delete"}
    <3>1. PICK u \in Threads : at[u] = b /\ pc[u] \in {"drop", "delete"}
      BY <2>1
    <3>2. u # t
      BY <1>1, <3>1 DEF EndPoints
    <3> QED
      BY <1>2, <3>1, <3>2
  <2>2. CASE past[b].ends > 0 /\ Holders(b) # {}
    BY <2>2, <1>3
  <2> QED
    BY <2>1, <2>2 DEF Good, Reachable
<1> QED
  BY <1>4, <1>5, <1>6, <1>7, <1>8, <1>9, <1>10, <1>11, <1>12

LEMMA SendGood == ASSUME Sound, Calm, NEW t \in Threads, Send(t) PROVE Sound'
<1> USE DEF Sound
<1> DEFINE b == at[t]
<1>0. Monitor \in Threads /\ Clients \subseteq Threads /\ Monitor \notin Clients /\ Repeat \in Nat \ {0}
  BY ResolverAssumption DEF Threads
<1>1. /\ Typed' /\ Others(t) /\ at'[t] = at[t] /\ then'[t] = then[t] /\ seen'[t] = seen[t]
      /\ UNCHANGED <<req, queue, stale>>
      /\ b \in Blocks /\ Exists(b)
      /\ \A x \in Blocks \ {b} : past'[x] = past[x]
      /\ past'[b].calls = past[b].calls /\ past'[b].ends = past[b].ends
      /\ past'[b].known = past[b].known
      /\ \/ /\ pc'[t] = "count" /\ past'[b].sends = past[b].sends + 1
            /\ wire' = wire \cup {req[b].id}
         \/ /\ pc'[t] = IF t = Monitor THEN "again" ELSE "refuse"
            /\ past' = past /\ wire' = wire
  BY SendEffect DEF Good
<1>2. pc[t] = "send" /\ pc[t] \in Making /\ t # Worker /\ (t = Monitor \/ t \in Clients)
  BY DEF Send, Good, Roles, EndPoints, Making, Sending, Threads
<1>3. CancelSafe' /\ Roles' /\ Alive' /\ Numbered' /\ Queued' /\ OneMaker' /\ Counted'
        /\ Ordered' /\ Deletions' /\ Reachable'
  BY <1>1, <1>2, AttemptGood DEF Others, Steady, Making, Sending
<1>4. \A u \in Threads : at'[u] = at[u] /\ (u # t => Steady(u))
  BY <1>1 DEF Others, Steady
<1>5. /\ past[b].sends \in Nat /\ req[b].rcount \in Nat
      /\ past'[b].sends = past[b].sends \/ past'[b].sends = past[b].sends + 1
  BY <1>1 DEF Typed, Requests, Pasts
<1>6. Attempts' /\ past'[b].sends <= 2 * Repeat
  <2>1. CASE t = Monitor
    <3>1. /\ ~MonitorAt(b, {"store"}) /\ Uncounted(b) = 0 /\ MonitorAt(b, Sending)
          /\ ~MonitorAt(b, {"store"})'
          /\ req[b].rcount <= Repeat /\ past[b].sends < 2 * Repeat
      BY <1>1, <1>2, <2>1 DEF MonitorAt, Uncounted, Sending, Good, Attempts, MonitorTried
    <3>2. /\ past'[b].sends = past[b].sends + Uncounted(b)'
          /\ MonitorTried'
      BY <1>1, <1>5, <2>1, <3>1 DEF MonitorAt, Uncounted, MonitorTried
    <3>3. ASSUME NEW c \in Clients, at[c] = b, pc'[c] \in Sending
          PROVE  Tried(c)'
      <4>1. pc'[c] = pc[c] /\ at'[c] = b /\ seen'[c] = seen[c]
        BY <1>0, <1>4, <2>1, <3>3 DEF Steady
      <4>2. /\ req[b].rcount <= Repeat
            /\ pc[c] = "store" => seen[c] <= req[b].rcount
            /\ req[b].rcount < Repeat
            /\ past[b].sends = req[b].rcount + 0 + (IF pc[c] = "send" THEN 0 ELSE 1)
        BY <3>1, <3>3, <4>1 DEF Good, Attempts, Tried
      <4>3. ~MonitorAt(at[c], {"store"})' /\ Uncounted(at[c])' = Uncounted(b)'
        BY <1>1, <2>1, <3>3, <4>1 DEF MonitorAt, Uncounted
      <4>4. Uncounted(b)' \in {0, 1}
        BY DEF Uncounted
      <4>5. past'[b].sends = req[b].rcount + Uncounted(b)' + (IF pc[c] = "send" THEN 0 ELSE 1)
        BY <1>5, <3>2, <4>2, <4>4
      <4>6. req'[b].rcount = req[b].rcount
        BY <1>1
      <4> QED
        BY <4>1, <4>2, <4>3, <4>5, <4>6 DEF Tried
    <3>4. ASSUME ~Constructed(b)' PROVE Spent(b)'
      <4>1. ~Constructed(b)
        BY <1>0, <1>4, <2>1, <3>4 DEF Constructed, Steady
      <4>2. past[b].sends <= Repeat + 0 + req[b].rcount
        BY <1>1, <3>1, <4>1 DEF Good, Attempts, Spent
      <4>3. Uncounted(b)' \in {0, 1} /\ (Uncounted(b)' = 0 => past'[b].sends = past[b].sends)
        BY <3>2, <1>5 DEF Uncounted
      <4> QED
        BY <1>0, <1>1, <1>5, <3>1, <3>2, <4>2, <4>3 DEF Spent
    <3>5. Attempts'
      BY <1>1, <1>4, <2>1, <3>2, <3>3, <3>4, AttemptsElsewhere DEF Good
    <3> QED
      BY <1>0, <1>5, <3>1, <3>5
  <2>2. CASE t \in Clients
    <3>1. Steady(Monitor) /\ t # Monitor
      BY <1>0, <1>4, <2>2
    <3>2. /\ MonitorAt(b, Sending)' <=> MonitorAt(b, Sending)
          /\ MonitorAt(b, {"store"})' <=> MonitorAt(b, {"store"})
          /\ Uncounted(b)' = Uncounted(b) /\ seen'[Monitor] = seen[Monitor]
      BY <1>1, <3>1 DEF MonitorAt, Uncounted, Steady
    <3>3. /\ req[b].rcount <= Repeat
          /\ MonitorAt(b, Sending) => req[b].rcount < Repeat
          /\ MonitorAt(b, {"store"}) => seen[Monitor] = req[b].rcount
          /\ past[b].sends = req[b].rcount + Uncounted(b)
      BY <1>1, <1>2, <1>5, <2>2 DEF Good, Attempts, Tried, Sending, Uncounted
    <3>4. Uncounted(b) \in {0, 1} /\ (Uncounted(b) = 1 => MonitorAt(b, Sending))
      BY DEF Uncounted, MonitorAt, Sending
    <3>5. ASSUME NEW c \in Clients, at[c] = b, pc'[c] \in Sending
          PROVE  Tried(c)'
      <4>1. c = t
        <5> SUFFICES ASSUME c # t PROVE FALSE
          OBVIOUS
        <5>1. pc[c] \in Making /\ at[c] = at[t]
          BY <1>0, <1>4, <3>5 DEF Steady, Making
        <5> QED
          BY <1>2, <2>2, <5>1 DEF Good, OneMaker
      <4>2. pc'[t] = "count" /\ past'[b].sends = past[b].sends + 1 /\ at'[t] = b
        BY <1>1, <3>1, <3>5, <4>1 DEF Sending
      <4>3. /\ MonitorAt(at[t], Sending)' <=> MonitorAt(b, Sending)
            /\ MonitorAt(at[t], {"store"})' <=> MonitorAt(b, {"store"})
            /\ Uncounted(at[t])' = Uncounted(b) /\ seen'[Monitor] = seen[Monitor]
        BY <3>2
      <4> QED
        BY <1>1, <1>5, <3>3, <3>4, <4>1, <4>2, <4>3 DEF Tried
    <3>6. ASSUME ~Constructed(b)' PROVE Spent(b)'
      <4>1. pc'[t] = "refuse" /\ past' = past
        BY <1>1, <2>2, <3>1, <3>6 DEF Constructed, Sending
      <4> QED
        BY <1>0, <1>1, <1>5, <3>2, <3>3, <3>4, <4>1 DEF Spent
    <3>7. at[Monitor] = b => MonitorTried'
      <4> SUFFICES ASSUME at[Monitor] = b PROVE MonitorTried'
        OBVIOUS
      <4>1. at'[Monitor] = b /\ pc'[Monitor] = pc[Monitor] /\ seen'[Monitor] = seen[Monitor]
        BY <3>1 DEF Steady
      <4>2. pc[Monitor] = "send" => MonitorAt(b, Sending) /\ Uncounted(b) = 0
        BY DEF MonitorAt, Sending, Uncounted
      <4> QED
        BY <1>0, <1>1, <1>5, <3>3, <4>1, <4>2 DEF Good, Attempts, MonitorTried
    <3>8. Attempts'
      BY <1>1, <1>4, <3>5, <3>6, <3>7, AttemptsElsewhere DEF Good
    <3>9. past[b].sends <= Repeat
      BY <1>0, <1>5, <3>3, <3>4
    <3> QED
      BY <1>0, <1>5, <3>8, <3>9
  <2> QED
    BY <1>2, <2>1, <2>2
<1>7. Bounds'
  <2>1. req[b].id \in 1 .. IdSpan
    BY <1>1 DEF Good, Numbered
  <2>2. \A x \in Blocks : past'[x].sends <= 2 * Repeat
    BY <1>1, <1>6 DEF Bounds
  <2> QED
    BY <1>1, <2>1, <2>2 DEF Bounds
<1> QED
  BY <1>1, <1>3, <1>6, <1>7 DEF Good

LEMMA CountGood == ASSUME Sound, Calm, NEW t \in Threads, Count(t) PROVE Sound'
<1> USE DEF Sound
<1> DEFINE b == at[t]
<1>0. Monitor \in Threads /\ Clients \subseteq Threads /\ Monitor \notin Clients /\ Repeat \in Nat \ {0}
  BY ResolverAssumption DEF Threads
<1>1. /\ pc[t] = "count" /\ b \in Blocks /\ Exists(b) /\ pc[t] \in Making
      /\ t # Worker /\ (t = Monitor \/ t \in Clients)
  BY AtRequest DEF Count, Good, Roles, EndPoints, Making, Sending, Threads
<1>2. req[b].rcount \in Nat /\ past[b].sends \in Nat
  BY <1>1 DEF Typed, Requests, Pasts
<1>3. /\ seen' = [seen EXCEPT ![t] = req[b].rcount] /\ pc' = [pc EXCEPT ![t] = "store"]
      /\ UNCHANGED <<req, shared, at, then, found, history>>
  BY DEF Count, Goto
<1>4. /\ pc' \in [Threads -> Points] /\ pc'[t] = "store"
      /\ seen' \in [Threads -> Nat] /\ seen'[t] = req[b].rcount
      /\ \A u \in Threads : u # t => pc'[u] = pc[u] /\ seen'[u] = seen[u]
  BY <1>2, <1>3 DEF Typed, Points
<1>5. Typed'
  BY <1>1, <1>3, <1>4 DEF Typed, shared, history
<1>6. \A u \in Threads : at'[u] = at[u] /\ (u # t => Steady(u))
  BY <1>3, <1>4 DEF Steady
<1>7. CancelSafe' /\ Roles' /\ Alive' /\ Numbered' /\ Queued' /\ OneMaker' /\ Counted'
        /\ Ordered' /\ Deletions' /\ Reachable'
  BY <1>1, <1>3, <1>4, <1>5, <1>6, AttemptGood DEF Steady, Making, Sending, shared, history
<1>8. Attempts'
  <2>1. CASE t = Monitor
    <3>1. req[b].rcount <= Repeat /\ Uncounted(b) = 1 /\ MonitorAt(b, Sending) /\ ~MonitorAt(b, {"store"})
          /\ Uncounted(b)' = 1 /\ MonitorAt(b, {"store"})' /\ MonitorTried'
      BY <1>1, <1>3, <1>4, <2>1 DEF Good, Attempts, MonitorTried, MonitorAt, Uncounted, Sending
    <3>2. ASSUME NEW c \in Clients, at[c] = b, pc'[c] \in Sending
          PROVE  Tried(c)'
      <4>1. pc'[c] = pc[c] /\ at'[c] = b /\ seen'[c] = seen[c]
        BY <1>0, <1>6, <2>1, <3>2 DEF Steady
      <4>2. /\ req[b].rcount <= Repeat
            /\ pc[c] = "store" => seen[c] <= req[b].rcount
            /\ req[b].rcount < Repeat
            /\ past[b].sends = req[b].rcount + 1 + (IF pc[c] = "send" THEN 0 ELSE 1)
        BY <3>1, <3>2, <4>1 DEF Good, Attempts, Tried
      <4>3. Uncounted(at[c])' = 1
        BY <1>4, <1>6, <2>1, <3>1, <4>1 DEF Uncounted, MonitorAt
      <4>4. req' = req /\ past' = past /\ seen'[Monitor] = req[b].rcount
        BY <1>3, <1>4, <2>1 DEF history
      <4> QED
        BY <4>1, <4>2, <4>3, <4>4 DEF Tried
    <3>3. ASSUME ~Constructed(b)' PROVE Spent(b)'
      <4>1. ~Constructed(b)
        BY <1>0, <1>6, <2>1, <3>3 DEF Constructed, Steady
      <4>2. past[b].sends <= Repeat + 1 + req[b].rcount
        BY <1>1, <3>1, <4>1 DEF Good, Attempts, Spent
      <4> QED
        BY <1>3, <1>4, <2>1, <3>1, <4>2 DEF Spent, history
    <3> QED
      BY <1>1, <1>3, <1>5, <1>6, <2>1, <3>1, <3>2, <3>3, AttemptsElsewhere DEF Good, history
  <2>2. CASE t \in Clients
    <3>1. Steady(Monitor) /\ t # Monitor
      BY <1>0, <1>6, <2>2
    <3>2. ASSUME NEW c \in Clients, at[c] = b, pc'[c] \in Sending
          PROVE  Tried(c)'
      <4>1. c = t
        <5> SUFFICES ASSUME c # t PROVE FALSE
          OBVIOUS
        <5>1. pc[c] \in Making /\ at[c] = at[t]
          BY <1>0, <1>6, <3>2 DEF Steady, Making
        <5> QED
          BY <1>1, <2>2, <5>1 DEF Good, OneMaker
      <4>2. /\ req[b].rcount <= Repeat
            /\ MonitorAt(b, Sending) => req[b].rcount < Repeat
            /\ MonitorAt(b, {"store"}) => seen[Monitor] = req[b].rcount
            /\ past[b].sends = req[b].rcount + Uncounted(b) + 1
        BY <1>1, <2>2 DEF Good, Attempts, Tried, Sending
      <4>3. /\ MonitorAt(at[t], Sending)' <=> MonitorAt(b, Sending)
            /\ MonitorAt(at[t], {"store"})' <=> MonitorAt(b, {"store"})
            /\ Uncounted(at[t])' = Uncounted(b) /\ seen'[Monitor] = seen[Monitor]
        BY <1>6, <3>1 DEF MonitorAt, Uncounted, Steady
      <4>4. req' = req /\ past' = past /\ at'[t] = b
        BY <1>3 DEF history
      <4> QED
        BY <1>2, <1>4, <4>1, <4>2, <4>3, <4>4 DEF Tried
    <3>3. Constructed(b)'
      BY <1>4, <1>6, <2>2 DEF Constructed, Sending
    <3>4. MonitorTried'
      BY <1>3, <3>1 DEF Good, Attempts, MonitorTried, Steady, history
    <3> QED
      BY <1>1, <1>3, <1>5, <1>6, <3>2, <3>3, <3>4, AttemptsElsewhere DEF Good, history
  <2> QED
    BY <1>1, <2>1, <2>2
<1>9. Bounds'
  BY <1>3 DEF Bounds, shared, history
<1> QED
  BY <1>5, <1>7, <1>8, <1>9 DEF Good

LEMMA StoreGood == ASSUME Sound, Calm, NEW t \in Threads, Store(t) PROVE Sound'
<1> USE DEF Sound
<1> DEFINE b == at[t]
<1>0. Monitor \in Threads /\ Clients \subseteq Threads /\ Monitor \notin Clients /\ Repeat \in Nat \ {0}
  BY ResolverAssumption DEF Threads
<1>1. /\ Typed' /\ Others(t) /\ at'[t] = at[t] /\ then'[t] = then[t] /\ seen'[t] = 0
      /\ UNCHANGED <<queue, stale, wire>>
      /\ b \in Blocks /\ Exists(b) /\ OtherBlocks(b)
      /\ req'[b].exists = req[b].exists /\ req'[b].id = req[b].id
      /\ req'[b].listed = req[b].listed /\ req'[b].refc = req[b].refc
      /\ req'[b].cancelled = req[b].cancelled /\ req'[b].rcount = seen[t] + 1
      /\ past'[b].calls = past[b].calls /\ past'[b].ends = past[b].ends
      /\ past'[b].sends = past[b].sends
      /\ \/ pc'[t] = "wake" /\ past' = past
         \/ FlushEnd(t)
  BY StoreEffect DEF Good
<1>2. pc[t] = "store" /\ pc[t] \in Making /\ t # Worker /\ (t = Monitor \/ t \in Clients)
  BY DEF Store, Good, Roles, EndPoints, Making, Sending, Threads
<1>3. /\ pc'[t] \in {"wake", "again", "idle"} /\ (pc'[t] = "again" => t = Monitor)
      /\ past'[b].known # past[b].known => t \in Clients /\ pc'[t] = "idle"
  BY <1>0, <1>1, <1>2 DEF FlushEnd, Typed, Pasts
<1>4. \A u \in Threads : at'[u] = at[u] /\ (u # t => Steady(u))
  BY <1>1 DEF Others, Steady
<1>5. CancelSafe' /\ Roles' /\ Alive' /\ Numbered' /\ Queued' /\ OneMaker' /\ Counted'
        /\ Ordered' /\ Deletions' /\ Reachable'
  <2>1. \A x \in Blocks :
           /\ req'[x].exists = req[x].exists /\ req'[x].id = req[x].id
           /\ req'[x].listed = req[x].listed /\ req'[x].refc = req[x].refc
           /\ req'[x].cancelled = req[x].cancelled
           /\ past'[x].calls = past[x].calls /\ past'[x].ends = past[x].ends
           /\ past'[x].known # past[x].known => t \in Clients /\ at[t] = x /\ pc'[t] = "idle"
    BY <1>1, <1>3 DEF OtherBlocks, Kept
  <2> QED
    BY <1>1, <1>2, <1>3, <1>4, <2>1, AttemptGood DEF Steady, Making, Sending
<1>6. /\ past[b].sends \in Nat /\ req[b].rcount \in Nat /\ seen[t] \in Nat
      /\ req'[b].rcount = seen[t] + 1 /\ past'[b].sends = past[b].sends
  BY <1>1 DEF Typed, Requests, Pasts
<1>7. pc'[t] \notin Sending
  BY <1>3 DEF Sending
<1>8. Attempts' /\ req'[b].rcount <= Repeat + 1
  <2>1. CASE t = Monitor
    <3>1. /\ seen[Monitor] <= Repeat /\ MonitorAt(b, {"store"}) /\ MonitorAt(b, Sending) /\ Uncounted(b) = 1
          /\ ~MonitorAt(b, {"store"})' /\ ~MonitorAt(b, Sending)' /\ Uncounted(b)' = 0 /\ MonitorTried'
      BY <1>1, <1>2, <1>3, <2>1 DEF Good, Attempts, MonitorTried, MonitorAt, Uncounted, Sending
    <3>2. ASSUME NEW c \in Clients, at[c] = b, pc'[c] \in Sending
          PROVE  Tried(c)'
      <4>1. pc'[c] = pc[c] /\ at'[c] = b /\ seen'[c] = seen[c]
        BY <1>0, <1>4, <2>1, <3>2 DEF Steady
      <4>2. /\ pc[c] = "store" => seen[c] <= req[b].rcount
            /\ req[b].rcount < Repeat /\ seen[Monitor] = req[b].rcount
            /\ past[b].sends = req[b].rcount + 1 + (IF pc[c] = "send" THEN 0 ELSE 1)
        BY <3>1, <3>2, <4>1 DEF Good, Attempts, Tried
      <4>3. ~MonitorAt(at[c], {"store"})' /\ ~MonitorAt(at[c], Sending)' /\ Uncounted(at[c])' = 0
        BY <1>7, <2>1, <4>1 DEF Sending, Uncounted, MonitorAt
      <4>4. seen[c] \in Nat
        BY <1>0 DEF Typed
      <4> QED
        BY <1>0, <1>6, <2>1, <4>1, <4>2, <4>3, <4>4 DEF Tried
    <3>3. ASSUME ~Constructed(b)' PROVE Spent(b)'
      <4>1. ~Constructed(b)
        BY <1>0, <1>4, <2>1, <3>3 DEF Constructed, Steady
      <4>2. past[b].sends <= Repeat + 1 + seen[Monitor]
        BY <1>1, <3>1, <4>1 DEF Good, Attempts, Spent
      <4> QED
        BY <1>0, <1>1, <1>6, <2>1, <3>1, <4>2 DEF Spent
    <3>4. Attempts'
      BY <1>1, <1>4, <2>1, <3>1, <3>2, <3>3, AttemptsElsewhere DEF Good, OtherBlocks, Kept
    <3> QED
      BY <1>0, <1>6, <2>1, <3>1, <3>4
  <2>2. CASE t \in Clients
    <3>1. Steady(Monitor) /\ t # Monitor
      BY <1>0, <1>4, <2>2
    <3>2. /\ MonitorAt(b, {"store"})' <=> MonitorAt(b, {"store"})
          /\ Uncounted(b)' = Uncounted(b) /\ seen'[Monitor] = seen[Monitor]
      BY <1>1, <3>1 DEF MonitorAt, Uncounted, Steady
    <3>3. /\ req[b].rcount <= Repeat /\ seen[t] <= req[b].rcount
          /\ MonitorAt(b, Sending) => req[b].rcount < Repeat
          /\ MonitorAt(b, {"store"}) => seen[Monitor] = req[b].rcount
          /\ past[b].sends = req[b].rcount + Uncounted(b) + 1
      BY <1>1, <1>2, <2>2 DEF Good, Attempts, Tried, Sending
    <3>4. /\ Uncounted(b) \in {0, 1} /\ (Uncounted(b) = 1 => MonitorAt(b, Sending))
          /\ MonitorAt(b, {"store"}) => Uncounted(b) = 1
      BY DEF Uncounted, MonitorAt, Sending
    <3>5. ASSUME NEW c \in Clients, at[c] = b, pc'[c] \in Sending PROVE FALSE
      <4>1. c # t
        BY <1>7, <3>5
      <4>2. pc[c] \in Making /\ at[c] = at[t]
        BY <1>0, <1>4, <3>5, <4>1 DEF Steady, Making
      <4> QED
        BY <1>2, <2>2, <4>1, <4>2 DEF Good, OneMaker
    <3>6. Spent(b)'
      <4>1. CASE MonitorAt(b, {"store"})
        BY <1>0, <1>1, <1>6, <3>2, <3>3, <3>4, <4>1 DEF Spent
      <4>2. CASE ~MonitorAt(b, {"store"})
        BY <1>0, <1>1, <1>6, <3>2, <3>3, <3>4, <4>2 DEF Spent
      <4> QED
        BY <4>1, <4>2
    <3>7. at[Monitor] = b => MonitorTried'
      <4> SUFFICES ASSUME at[Monitor] = b PROVE MonitorTried'
        OBVIOUS
      <4>1. at'[Monitor] = b /\ pc'[Monitor] = pc[Monitor] /\ seen'[Monitor] = seen[Monitor]
        BY <3>1 DEF Steady
      <4>2. pc[Monitor] \in {"send", "count"} => MonitorAt(b, Sending)
        BY DEF MonitorAt, Sending
      <4>3. pc[Monitor] \in {"send", "count"} => seen[t] + 1 <= Repeat
        BY <1>0, <1>6, <3>3, <4>2
      <4> QED
        BY <1>1, <1>6, <4>1, <4>3 DEF Good, Attempts, MonitorTried
    <3>8. Attempts'
      BY <1>1, <1>4, <3>5, <3>6, <3>7, AttemptsElsewhere DEF Good, OtherBlocks, Kept
    <3> QED
      BY <1>0, <1>6, <3>3, <3>8
  <2> QED
    BY <1>2, <2>1, <2>2
<1>9. Bounds'
  BY <1>1, <1>8 DEF Bounds, OtherBlocks, Kept
<1> QED
  BY <1>1, <1>5, <1>8, <1>9 DEF Good

LEMMA WakeGood == ASSUME Sound, Calm, NEW t \in Threads, Wake(t) PROVE Sound'
<1> USE DEF Sound
<1>0. Monitor \in Threads /\ Clients \subseteq Threads /\ Monitor \notin Clients
  BY ResolverAssumption DEF Threads
<1>1. /\ Typed' /\ at' = at /\ then' = then /\ seen' = seen
      /\ UNCHANGED <<req, queue, stale, wire>>
      /\ at[t] \in Blocks /\ Exists(at[t])
      /\ \A x \in Blocks \ {at[t]} : past'[x] = past[x]
      /\ past'[at[t]].calls = past[at[t]].calls /\ past'[at[t]].ends = past[at[t]].ends
      /\ past'[at[t]].sends = past[at[t]].sends
      /\ \A u \in Threads \ {t} :
           pc'[u] = pc[u] \/ (u = Monitor /\ pc[u] = "asleep" /\ pc'[u] = "cycle")
      /\ FlushEnd(t)
  BY WakeEffect DEF Good
<1>2. pc[t] = "wake" /\ pc[t] \in Making /\ (t = Monitor \/ t \in Clients)
  BY DEF Wake, Good, Roles, EndPoints, Making, Sending, Threads
<1>3. /\ pc'[t] \in {"again", "idle"} /\ (pc'[t] = "again" => t = Monitor)
      /\ past'[at[t]].known # past[at[t]].known => t \in Clients /\ pc'[t] = "idle"
  BY <1>0, <1>1, <1>2 DEF FlushEnd, Typed, Pasts
<1>4. CancelSafe' /\ Roles' /\ Alive' /\ Numbered' /\ Queued' /\ OneMaker' /\ Counted'
        /\ Ordered' /\ Deletions' /\ Reachable'
  <2>1. \A x \in Blocks :
           /\ req'[x].exists = req[x].exists /\ req'[x].id = req[x].id
           /\ req'[x].listed = req[x].listed /\ req'[x].refc = req[x].refc
           /\ req'[x].cancelled = req[x].cancelled
           /\ past'[x].calls = past[x].calls /\ past'[x].ends = past[x].ends
           /\ past'[x].known # past[x].known => t \in Clients /\ at[t] = x /\ pc'[t] = "idle"
    BY <1>1, <1>3
  <2> QED
    BY <1>1, <1>2, <1>3, <2>1, AttemptGood
<1>5. Attempts'
  <2>1. \A u \in Threads : pc'[u] \in Sending \/ pc[u] \in Sending => Steady(u)
    BY <1>1, <1>2, <1>3 DEF Sending, Steady
  <2>2. \A x \in Blocks : req'[x].rcount = req[x].rcount /\ past'[x].sends = past[x].sends
    BY <1>1
  <2> QED
    BY <1>1, <2>1, <2>2, AttemptsKept DEF Good
<1>6. Bounds'
  BY <1>1, BoundsKept
<1> QED
  BY <1>1, <1>4, <1>5, <1>6 DEF Good

LEMMA RefuseGood == ASSUME Sound, Calm, NEW c \in Clients, Refuse(c) PROVE Sound'
<1> USE DEF Sound
<1>0. Monitor \in Threads /\ Clients \subseteq Threads /\ c \in Threads /\ c # Monitor
      /\ c # Worker /\ Worker \in Threads /\ Monitor # Worker /\ Monitor \notin Clients
  BY ResolverAssumption DEF Threads
<1>1. /\ pc[c] = "refuse" /\ at[c] \in Blocks /\ Exists(at[c]) /\ c \notin stale /\ pc[c] \in Making
  BY <1>0, AtRequest DEF Refuse, Good, Making
<1>2. /\ pc' = [pc EXCEPT ![c] = "delete"] /\ then' = [then EXCEPT ![c] = "idle"]
      /\ UNCHANGED <<req, queue, mx, lastid, made, due, ns, wire, at, seen, found, past, stale, lost>>
  BY DEF Refuse, Goto, shared, history
<1>3. /\ pc' \in [Threads -> Points] /\ pc'[c] = "delete"
      /\ then' \in [Threads -> Points] /\ then'[c] = "idle"
      /\ \A u \in Threads : u # c => pc'[u] = pc[u] /\ then'[u] = then[u]
  BY <1>0, <1>2 DEF Typed, Points, EndPoints
<1>4. Typed' /\ Others(c)
  BY <1>1, <1>2, <1>3 DEF Typed, Others, Steady
<1>5. Numbered' /\ Queued' /\ Counted' /\ Ordered' /\ Reachable'
  <2>1. UNCHANGED <<req, queue, past>> /\ pc[c] = "refuse" /\ pc'[c] = "delete"
    BY <1>1, <1>2, <1>3
  <2>2. pc[c] \notin Holding /\ pc'[c] \notin Holding /\ pc[c] \notin {"drop", "delete"} /\ pc'[c] # "drop"
    BY <2>1 DEF Holding
  <2> QED
    BY <1>0, <1>4, <2>1, <2>2, Passing
<1>6. Roles'
  BY <1>0, <1>3 DEF Good, Roles, EndPoints, Making, Sending
<1>7. Alive'
  BY <1>1, <1>2, <1>3 DEF Good, Alive, Exists
<1>8. OneMaker'
  BY <1>0, <1>2, <1>3, OneMakerKept DEF Good, Making, Sending
<1>9. Deletions'
  <2>1. \A d \in Clients : pc'[d] \in Making => d # c /\ pc[d] \in Making /\ at'[d] = at[d]
    BY <1>0, <1>2, <1>3 DEF Making, Sending
  <2>2. \A d \in Clients : pc'[d] \in Holding => d # c /\ pc[d] \in Holding /\ at'[d] = at[d]
    BY <1>0, <1>2, <1>3 DEF Holding
  <2>3. ~past[at[c]].known /\ (\A d \in Clients : pc'[d] \in Making => at[d] # at[c])
    BY <1>1, <2>1 DEF Good, OneMaker
  <2>4. \A d \in Clients : pc'[d] \in Holding => at[d] # at[c] /\ past[at[d]].known
    BY <2>2, <2>3 DEF Good, Deletions
  <2>5. ASSUME NEW t \in Threads, pc'[t] = "delete"
        PROVE  /\ \A d \in Clients : at'[d] = at'[t] => pc'[d] \notin Holding
               /\ \/ past'[at'[t]].calls > 0
                  \/ ~past'[at'[t]].known /\ \A d \in Clients : at'[d] = at'[t] => pc'[d] \notin Making
    <3>1. CASE t = c
      BY <1>2, <2>3, <2>4, <3>1
    <3>2. CASE t # c
      <4>1. pc[t] = "delete"
        BY <1>3, <2>5, <3>2
      <4> QED
        BY <1>2, <2>1, <2>2, <4>1 DEF Good, Deletions
    <3> QED
      BY <3>1, <3>2
  <2> QED
    BY <1>2, <2>4, <2>5 DEF Deletions
<1>10. Attempts'
  <2>1. \A u \in Threads : pc'[u] \in Sending \/ pc[u] \in Sending => Steady(u)
    BY <1>1, <1>3, <1>4 DEF Others, Sending
  <2> QED
    BY <1>2, <1>4, <2>1, AttemptsKept DEF Good
<1>11. Bounds' /\ CancelSafe'
  <2>1. stale' \subseteq {Monitor}
    BY <1>2 DEF Calm
  <2> QED
    BY <1>2, <1>4, <1>7, <2>1, BoundsKept, SafeOfAlive
<1> QED
  BY <1>4, <1>5, <1>6, <1>7, <1>8, <1>9, <1>10, <1>11 DEF Good

LEMMA PickGood == ASSUME Sound, Calm, NEW b \in Blocks, Pick(b) PROVE Sound'
<1> USE DEF Sound
<1>0. Monitor \in Threads /\ Clients \subseteq Threads /\ Worker \in Threads
      /\ Monitor # Worker /\ Monitor \notin Clients /\ Worker \notin Clients
  BY ResolverAssumption DEF Threads
<1>1. /\ pc[Worker] = "idle" /\ pc' = [pc EXCEPT ![Worker] = "picked"]
      /\ at' = [at EXCEPT ![Worker] = b]
      /\ UNCHANGED <<req, queue, mx, lastid, made, due, ns, wire, then, seen, found, past, stale, lost>>
  BY DEF Pick, Goto, shared, history
<1>2. Exists(b)
  BY DEF Pick, Good, Queued, Within
<1>3. /\ pc' \in [Threads -> Points] /\ pc'[Worker] = "picked"
      /\ at' \in [Threads -> Blocks \cup {NoReq}] /\ at'[Worker] = b
      /\ \A u \in Threads : u # Worker => pc'[u] = pc[u] /\ at'[u] = at[u]
  BY <1>0, <1>1 DEF Typed, Points
<1>4. Typed' /\ Others(Worker)
  BY <1>0, <1>1, <1>3 DEF Typed, Others, Steady
<1>5. Numbered' /\ Queued' /\ Counted' /\ Ordered' /\ Reachable'
  BY <1>0, <1>1, <1>3, <1>4, Passing DEF Holding
<1>6. Roles'
  BY <1>0, <1>1, <1>3 DEF Good, Roles, EndPoints
<1>7. Alive'
  BY <1>1, <1>2, <1>3 DEF Good, Alive, Exists
<1>8. OneMaker'
  BY <1>0, <1>1, <1>3, OneMakerKept DEF Good
<1>9. Deletions'
  BY <1>0, <1>1, <1>3, DeletionsKept DEF Good
<1>10. Attempts'
  <2>1. \A u \in Threads : pc'[u] \in Sending \/ pc[u] \in Sending => Steady(u)
    BY <1>1, <1>3, <1>4 DEF Others, Sending
  <2> QED
    BY <1>1, <1>4, <2>1, AttemptsKept DEF Good
<1>11. Bounds' /\ CancelSafe'
  <2>1. stale' \subseteq {Monitor}
    BY <1>1 DEF Calm
  <2> QED
    BY <1>1, <1>4, <1>7, <2>1, BoundsKept, SafeOfAlive
<1> QED
  BY <1>4, <1>5, <1>6, <1>7, <1>8, <1>9, <1>10, <1>11 DEF Good

\* One more reference to a request that exists.
LEMMA TakeGood ==
  ASSUME Sound, Calm, NEW t \in Clients \cup {Worker}, NEW b \in Blocks, Exists(b),
         pc[t] \in {"idle", "picked"},
         t \in Clients => past[b].known /\ \A u \in Threads : at[u] = b => pc[u] # "delete",
         Set(b, "refc", req[b].refc + 1), at' = [at EXCEPT ![t] = b], Goto(t, "call"),
         UNCHANGED <<shared, then, seen, found, history>>
  PROVE  Sound'
<1> USE DEF Sound
<1>0. /\ Monitor \in Threads /\ Clients \cup {Worker} \subseteq Threads /\ t \in Threads /\ t # Monitor
      /\ Monitor # Worker /\ Monitor \notin Clients /\ Worker \notin Clients
  BY ResolverAssumption DEF Threads
<1>1. /\ Typed' /\ Others(t) /\ at'[t] = b /\ pc'[t] = "call" /\ then' = then /\ seen' = seen
      /\ UNCHANGED <<queue, wire, past, stale>>
      /\ OtherBlocks(b)
      /\ req'[b].exists = req[b].exists /\ req'[b].id = req[b].id
      /\ req'[b].listed = req[b].listed /\ req'[b].refc = req[b].refc + 1
      /\ req'[b].cancelled = req[b].cancelled /\ req'[b].rcount = req[b].rcount
  BY <1>0, IncrefEffect
<1>2. \A u \in Threads : u # t => pc'[u] = pc[u] /\ at'[u] = at[u]
  BY <1>1 DEF Others, Steady
<1>3. \A x \in Blocks : /\ req'[x].exists = req[x].exists /\ req'[x].id = req[x].id
                        /\ req'[x].listed = req[x].listed /\ req'[x].cancelled = req[x].cancelled
                        /\ req'[x].rcount = req[x].rcount
                        /\ x # b => req'[x].refc = req[x].refc
  BY <1>1 DEF OtherBlocks, Kept
<1>4. Numbered' /\ Queued'
  BY <1>1, <1>3 DEF Good, Numbered, Queued, Within, Exists
<1>5. /\ Holders(b)' = Holders(b) \cup {t} /\ t \notin Holders(b)
      /\ \A x \in Blocks \ {b} : Holders(x)' = Holders(x)
  BY <1>0, <1>1, <1>2 DEF Holders, Holding
<1>6. Counted'
  <2>1. IsFiniteSet(Holders(b)) /\ req[b].refc = Cardinality(Holders(b)) + (IF past[b].ends = 0 THEN 1 ELSE 0)
    BY DEF Good, Counted
  <2>2. /\ IsFiniteSet(Holders(b)') /\ Cardinality(Holders(b)') = Cardinality(Holders(b)) + 1
        /\ Cardinality(Holders(b)) \in Nat
    BY <1>5, <2>1, FS_AddElement, FS_CardinalityType
  <2>3. req'[b].refc = Cardinality(Holders(b)') + (IF past'[b].ends = 0 THEN 1 ELSE 0)
    BY <1>1, <2>1, <2>2
  <2>4. ASSUME NEW x \in Blocks, Exists(x)', x # b
        PROVE  /\ IsFiniteSet(Holders(x)')
               /\ req'[x].refc = Cardinality(Holders(x)') + (IF past'[x].ends = 0 THEN 1 ELSE 0)
    BY <1>1, <1>3, <1>5, <2>4 DEF Good, Counted, Exists
  <2> QED
    BY <2>2, <2>3, <2>4 DEF Counted
<1>7. Ordered'
  <2>1. \A u \in Threads : pc'[u] = "drop" => pc[u] = "drop" /\ at'[u] = at[u] /\ at[u] \in Blocks
    BY <1>1, <1>2 DEF Typed, Resting
  <2> QED
    BY <1>1, <1>3, <2>1 DEF Good, Ordered, Exists
<1>8. Reachable'
  <2> SUFFICES ASSUME NEW x \in Blocks, Exists(x), ~req[x].listed
               PROVE  (\/ \E u \in Threads : at[u] = x /\ pc[u] \in {"drop", "delete"}
                       \/ past[x].ends > 0 /\ Holders(x) # {})'
    BY <1>3 DEF Reachable, Exists
  <2>1. CASE \E u \in Threads : at[u] = x /\ pc[u] \in {"drop", "delete"}
    <3>1. PICK u \in Threads : at[u] = x /\ pc[u] \in {"drop", "delete"}
      BY <2>1
    <3> QED
      BY <1>2, <3>1
  <2>2. CASE past[x].ends > 0 /\ Holders(x) # {}
    BY <1>1, <1>5, <2>2
  <2> QED
    BY <2>1, <2>2 DEF Good, Reachable
<1>9. Roles'
  BY <1>0, <1>1, <1>2 DEF Good, Roles, EndPoints
<1>10. Alive'
  BY <1>1, <1>2, <1>3 DEF Good, Alive, Exists
<1>11. OneMaker'
  BY <1>0, <1>1, <1>2, OneMakerKept DEF Good, Making, Sending
<1>12. Deletions'
  <2>1. \A u \in Threads : pc'[u] = "delete" => u # t /\ pc[u] = "delete" /\ at'[u] = at[u]
    BY <1>1, <1>2
  <2>2. \A d \in Clients : pc'[d] \in Making => d # t /\ pc[d] \in Making /\ at'[d] = at[d]
    BY <1>0, <1>1, <1>2 DEF Making, Sending
  <2>3. \A d \in Clients : pc'[d] \in Holding /\ d # t => pc[d] \in Holding /\ at'[d] = at[d]
    BY <1>0, <1>2
  <2>4. ASSUME NEW u \in Threads, pc'[u] = "delete", NEW d \in Clients, at'[d] = at'[u]
        PROVE  pc'[d] \notin Holding
    BY <1>1, <2>1, <2>3, <2>4 DEF Good, Deletions
  <2> QED
    BY <1>1, <2>1, <2>2, <2>3, <2>4 DEF Good, Deletions
<1>13. Attempts'
  <2>1. \A u \in Threads : pc'[u] \in Sending \/ pc[u] \in Sending => Steady(u)
    BY <1>1 DEF Others, Sending
  <2> QED
    BY <1>1, <1>3, <2>1, AttemptsKept DEF Good
<1>14. Bounds' /\ CancelSafe'
  <2>1. stale' \subseteq {Monitor}
    BY <1>1 DEF Calm
  <2> QED
    BY <1>1, <1>3, <1>10, <2>1, BoundsKept, SafeOfAlive
<1> QED
  BY <1>1, <1>4, <1>6, <1>7, <1>8, <1>9, <1>10, <1>11, <1>12, <1>13, <1>14 DEF Good

\* rascal_cancel's reference ..
LEMMA LookupGood ==
  ASSUME Sound, Calm, NEW c \in Clients, NEW b \in Blocks, Lookup(c, b) PROVE Sound'
BY TakeGood DEF Lookup

\* .. and the worker's.
LEMMA IncrefGood == ASSUME Sound, Calm, Incref PROVE Sound'
<1>1. Worker \in Threads /\ Worker \notin Clients
  BY ResolverAssumption DEF Threads
<1>2. pc[Worker] = "picked" /\ at[Worker] \in Blocks /\ Exists(at[Worker])
  BY <1>1, AtRequest DEF Incref, Sound, Good
<1>3. at' = [at EXCEPT ![Worker] = at[Worker]]
  BY <1>1 DEF Incref, Sound, Typed
<1>4. /\ Set(at[Worker], "refc", req[at[Worker]].refc + 1) /\ Goto(Worker, "call")
      /\ UNCHANGED <<shared, then, seen, found, history>>
  BY DEF Incref
<1> QED
  BY <1>1, <1>2, <1>3, <1>4, TakeGood

\* The callback and unlist(): the thread is the one that will drop the
\* reference of the queue.
LEMMA CallGood == ASSUME Sound, Calm, NEW t \in Threads, Call(t) PROVE Sound'
<1> USE DEF Sound
<1> DEFINE b == at[t]
<1>0. /\ Monitor \in Threads /\ Worker \in Threads /\ Clients \subseteq Threads
      /\ Monitor # Worker /\ Monitor \notin Clients /\ Worker \notin Clients
  BY ResolverAssumption DEF Threads
<1>1. /\ Typed' /\ Queued' /\ Others(t)
      /\ at'[t] = b /\ pc'[t] = "drop" /\ then'[t] = then[t] /\ seen'[t] = seen[t]
      /\ UNCHANGED <<stale, wire>>
      /\ b \in Blocks /\ Exists(b) /\ OtherBlocks(b)
      /\ req'[b].exists = req[b].exists /\ req'[b].id = req[b].id
      /\ req'[b].listed = FALSE /\ req'[b].refc = req[b].refc
      /\ req'[b].cancelled = req[b].cancelled /\ req'[b].rcount = req[b].rcount
      /\ past'[b].calls = past[b].calls + 1 /\ past'[b].ends = past[b].ends
      /\ past'[b].sends = past[b].sends /\ past'[b].known = past[b].known
  BY CallEffect DEF Good
<1>2. pc[t] = "call" /\ past[b].calls \in Nat
  BY <1>1 DEF Call, Typed, Pasts
<1>3. \A u \in Threads : /\ at'[u] = at[u] /\ then'[u] = then[u] /\ seen'[u] = seen[u]
                         /\ u # t => pc'[u] = pc[u]
  BY <1>1 DEF Others, Steady
<1>4. \A x \in Blocks :
        /\ req'[x].exists = req[x].exists /\ req'[x].id = req[x].id /\ req'[x].refc = req[x].refc
        /\ req'[x].cancelled = req[x].cancelled /\ req'[x].rcount = req[x].rcount
        /\ req'[x].listed => req[x].listed
        /\ x # b => req'[x].listed = req[x].listed
        /\ past'[x].ends = past[x].ends /\ past'[x].sends = past[x].sends
        /\ past'[x].known = past[x].known
        /\ past[x].calls > 0 => past'[x].calls > 0
        /\ past'[b].calls > 0
  BY <1>1, <1>2 DEF OtherBlocks, Kept
<1> HIDE DEF b
<1>5. \A x : Holders(x)' = Holders(x)
  BY <1>0, <1>1, <1>2, <1>3, HoldersSame DEF Holding
<1>6. Roles'
  BY <1>0, <1>1, <1>2, <1>3 DEF Good, Roles, EndPoints
<1>7. Alive'
  <2>1. ASSUME NEW u \in Threads, u \notin stale', pc'[u] \notin Resting, at'[u] \in Blocks
        PROVE  req'[at'[u]].exists
    <3>1. pc[u] \notin Resting
      BY <1>2, <1>3, <2>1 DEF Resting
    <3> QED
      BY <1>1, <1>3, <1>4, <2>1, <3>1 DEF Good, Alive, Exists
  <2> QED
    BY <2>1 DEF Alive, Exists
<1>8. Numbered'
  BY <1>4 DEF Good, Numbered, Exists
<1>9. OneMaker'
  <2>1. ASSUME NEW c \in Clients, pc'[c] \in Making
        PROVE  pc[c] \in Making /\ at'[c] = at[c] /\ past'[at[c]].known = past[at[c]].known
    <3>1. c # t
      BY <1>1, <2>1 DEF Making, Sending
    <3>2. pc[c] \in Making /\ at'[c] = at[c]
      BY <1>0, <1>3, <2>1, <3>1
    <3>3. at[c] \in Blocks
      BY <1>0, <3>2 DEF Typed, Making, Sending, Resting
    <3> QED
      BY <1>4, <3>2, <3>3
  <2> QED
    BY <2>1, OneMakerKept DEF Good
<1>10. Counted'
  BY <1>4, <1>5 DEF Good, Counted, Exists
<1>11. Ordered'
  <2>1. ASSUME NEW u \in Threads, pc'[u] = "drop"
        PROVE  ~req'[at'[u]].listed /\ past'[at'[u]].calls > 0
    <3>1. CASE u = t
      BY <1>1, <1>4, <3>1
    <3>2. CASE u # t
      <4>1. pc[u] = "drop" /\ at'[u] = at[u] /\ at[u] \in Blocks
        BY <1>3, <2>1, <3>2 DEF Typed, Resting
      <4> QED
        BY <1>4, <4>1 DEF Good, Ordered
    <3> QED
      BY <3>1, <3>2
  <2> QED
    BY <1>4, <2>1 DEF Good, Ordered, Exists
<1>12. Deletions'
  <2>1. \A u \in Threads : pc'[u] = "delete" => pc[u] = "delete" /\ at'[u] = at[u] /\ at[u] \in Blocks
    BY <1>1, <1>3 DEF Typed, Resting
  <2>2. ASSUME NEW c \in Clients, pc'[c] \in Holding
        PROVE  pc[c] \in Holding /\ at'[c] = at[c] /\ (past[at[c]].known => past'[at[c]].known)
    <3>1. pc[c] \in Holding /\ at'[c] = at[c]
      BY <1>0, <1>2, <1>3, <2>2 DEF Holding
    <3>2. at[c] \in Blocks
      BY <1>0, <3>1 DEF Typed, Holding, Resting
    <3> QED
      BY <1>4, <3>1, <3>2
  <2>3. \A c \in Clients : pc'[c] \in Making => pc[c] \in Making /\ at'[c] = at[c]
    BY <1>0, <1>1, <1>3 DEF Making, Sending
  <2> QED
    BY <1>4, <2>1, <2>2, <2>3, DeletionsKept DEF Good
<1>13. Reachable'
  <2> SUFFICES ASSUME NEW x \in Blocks, req'[x].exists, ~req'[x].listed
               PROVE  (\/ \E u \in Threads : at[u] = x /\ pc[u] \in {"drop", "delete"}
                       \/ past[x].ends > 0 /\ Holders(x) # {})'
    BY DEF Reachable, Exists
  <2>1. CASE x = b
    BY <1>1, <2>1
  <2>2. CASE x # b
    <3>1. CASE \E u \in Threads : at[u] = x /\ pc[u] \in {"drop", "delete"}
      <4>1. PICK u \in Threads : at[u] = x /\ pc[u] \in {"drop", "delete"}
        BY <3>1
      <4>2. u # t
        BY <1>2, <4>1
      <4> QED
        BY <1>3, <4>1, <4>2
    <3>2. CASE past[x].ends > 0 /\ Holders(x) # {}
      BY <1>4, <1>5, <3>2
    <3> QED
      BY <1>4, <2>2, <3>1, <3>2 DEF Good, Reachable, Exists
  <2> QED
    BY <2>1, <2>2
<1>14. Attempts'
  <2>1. \A u \in Threads : pc'[u] \in Sending \/ pc[u] \in Sending => Steady(u)
    BY <1>1, <1>2 DEF Others, Sending
  <2> QED
    BY <1>1, <1>4, <2>1, AttemptsKept DEF Good
<1>15. Bounds' /\ CancelSafe'
  <2>1. stale' \subseteq {Monitor}
    BY <1>1 DEF Calm
  <2> QED
    BY <1>1, <1>4, <1>7, <2>1, BoundsKept, SafeOfAlive
<1> QED
  BY <1>1, <1>6, <1>7, <1>8, <1>9, <1>10, <1>11, <1>12, <1>13, <1>14, <1>15 DEF Good

\* The reference of the queue is given back once: with the counter, who still
\* holds one, and who deletes, are known.
LEMMA DropGood ==
  ASSUME Sound, Calm, NEW t \in Threads, Drop(t)
  PROVE  Typed' /\ Bounds' /\ CancelSafe' /\ (EndedTwice' \/ Good')
<1> USE DEF Sound
<1> DEFINE b == at[t]
<1>0. /\ Monitor \in Threads /\ Worker \in Threads /\ Clients \subseteq Threads
      /\ Monitor # Worker /\ Monitor \notin Clients /\ Worker \notin Clients
      /\ t # Monitor => t \in Clients \cup {Worker}
  BY ResolverAssumption DEF Threads
<1>1. /\ Typed' /\ Others(t) /\ at'[t] = b /\ seen'[t] = seen[t]
      /\ UNCHANGED <<queue, wire, stale>>
      /\ b \in Blocks /\ Exists(b) /\ OtherBlocks(b)
      /\ req'[b].exists = req[b].exists /\ req'[b].id = req[b].id
      /\ req'[b].listed = req[b].listed /\ req'[b].refc = req[b].refc - 1
      /\ req'[b].cancelled = TRUE /\ req'[b].rcount = req[b].rcount
      /\ past'[b].calls = past[b].calls /\ past'[b].ends = past[b].ends + 1
      /\ past'[b].sends = past[b].sends /\ past'[b].known = past[b].known
      /\ IF req[b].refc = 1
         THEN pc'[t] = "delete" /\ then'[t] = IF t = Monitor THEN "again" ELSE "release"
         ELSE pc'[t] = (IF t = Monitor THEN "again" ELSE "release") /\ then'[t] = then[t]
  BY DropEffect DEF Good
<1>2. pc[t] = "drop" /\ past[b].ends \in Nat
  BY <1>1 DEF Drop, Typed, Pasts
<1>3. \A u \in Threads : /\ at'[u] = at[u] /\ seen'[u] = seen[u]
                         /\ u # t => pc'[u] = pc[u] /\ then'[u] = then[u]
  BY <1>1 DEF Others, Steady
<1>4. \A x \in Blocks :
        /\ req'[x].exists = req[x].exists /\ req'[x].id = req[x].id /\ req'[x].listed = req[x].listed
        /\ req'[x].rcount = req[x].rcount
        /\ past'[x].calls = past[x].calls /\ past'[x].sends = past[x].sends
        /\ past'[x].known = past[x].known
        /\ x # b => /\ req'[x].refc = req[x].refc /\ req'[x].cancelled = req[x].cancelled
                    /\ past'[x].ends = past[x].ends
  BY <1>1 DEF OtherBlocks, Kept
<1> HIDE DEF b
<1>5. pc'[t] \in {"delete", "again", "release"}
  BY <1>1
<1>6. Alive'
  <2>1. ASSUME NEW u \in Threads, u \notin stale', pc'[u] \notin Resting, at'[u] \in Blocks
        PROVE  req'[at'[u]].exists
    <3>1. pc[u] \notin Resting
      BY <1>2, <1>3, <2>1 DEF Resting
    <3> QED
      BY <1>1, <1>3, <1>4, <2>1, <3>1 DEF Good, Alive, Exists
  <2> QED
    BY <2>1 DEF Alive, Exists
<1>7. Bounds' /\ CancelSafe'
  <2>1. stale' \subseteq {Monitor}
    BY <1>1 DEF Calm
  <2> QED
    BY <1>1, <1>4, <1>6, <2>1, BoundsKept, SafeOfAlive
<1>8. ASSUME past[b].ends = 0 PROVE Good'
  <2>1. /\ IsFiniteSet(Holders(b)) /\ Cardinality(Holders(b)) \in Nat
        /\ req[b].refc = Cardinality(Holders(b)) + 1
        /\ ~req[b].listed /\ past[b].calls > 0
    <3>1. IsFiniteSet(Holders(b)) /\ req[b].refc = Cardinality(Holders(b)) + 1
      BY <1>1, <1>8 DEF Good, Counted
    <3>2. ~req[b].listed /\ past[b].calls > 0
      BY <1>2 DEF Good, Ordered, b
    <3> QED
      BY <3>1, <3>2, FS_CardinalityType
  <2>2. Cardinality(Holders(b)) = 0 <=> Holders(b) = {}
    BY <2>1, FS_EmptySet
  <2>3. t # Monitor => t \in Holders(b)
    BY <1>0, <1>2 DEF Holders, Holding, b
  <2>4. /\ t # Monitor => pc'[t] = "release" /\ then'[t] = then[t] /\ Holders(b) # {}
        /\ t = Monitor => \/ pc'[t] = "delete" /\ then'[t] = "again" /\ Holders(b) = {}
                          \/ pc'[t] = "again" /\ then'[t] = then[t] /\ Holders(b) # {}
    BY <1>1, <2>1, <2>2, <2>3
  <2>5. \A x : Holders(x)' = Holders(x)
    BY <1>0, <1>2, <1>3, <2>4, HoldersSame DEF Holding
  <2>6. Roles'
    BY <1>0, <1>3, <2>4 DEF Good, Roles, EndPoints
  <2>7. Numbered' /\ Queued'
    BY <1>1, <1>4 DEF Good, Numbered, Queued, Within, Exists
  <2>8. OneMaker'
    <3>1. ASSUME NEW c \in Clients, pc'[c] \in Making
          PROVE  pc[c] \in Making /\ at'[c] = at[c] /\ past'[at[c]].known = past[at[c]].known
      <4>1. c # t
        BY <1>5, <3>1 DEF Making, Sending
      <4>2. pc[c] \in Making /\ at'[c] = at[c]
        BY <1>0, <1>3, <3>1, <4>1
      <4>3. at[c] \in Blocks
        BY <1>0, <4>2 DEF Typed, Making, Sending, Resting
      <4> QED
        BY <1>4, <4>2, <4>3
    <3> QED
      BY <3>1, OneMakerKept DEF Good
  <2>9. Counted'
    <3>1. ASSUME NEW x \in Blocks, req'[x].exists
          PROVE  /\ IsFiniteSet(Holders(x))
                 /\ req'[x].refc = Cardinality(Holders(x)) + (IF past'[x].ends = 0 THEN 1 ELSE 0)
      <4>1. CASE x = b
        BY <1>1, <1>8, <2>1, <4>1
      <4>2. CASE x # b
        BY <1>4, <3>1, <4>2 DEF Good, Counted, Exists
      <4> QED
        BY <4>1, <4>2
    <3> QED
      BY <2>5, <3>1 DEF Counted, Exists
  <2>10. Ordered'
    <3>1. \A u \in Threads : pc'[u] = "drop" => pc[u] = "drop" /\ at'[u] = at[u] /\ at[u] \in Blocks
      BY <1>3, <1>5 DEF Typed, Resting
    <3>2. past'[b].ends > 0 /\ req'[b].cancelled /\ ~req'[b].listed /\ past'[b].calls > 0
      BY <1>1, <1>8, <2>1
    <3>3. ASSUME NEW x \in Blocks
          PROVE  /\ req'[x].exists => (req'[x].cancelled <=> past'[x].ends > 0)
                 /\ req'[x].listed => past'[x].ends = 0
                 /\ past'[x].ends > 0 => past'[x].calls > 0
      <4>1. CASE x = b
        BY <3>2, <4>1
      <4>2. CASE x # b
        BY <1>4, <4>2 DEF Good, Ordered, Exists
      <4> QED
        BY <4>1, <4>2
    <3>4. ASSUME NEW u \in Threads, pc'[u] = "drop"
          PROVE  ~req'[at'[u]].listed /\ past'[at'[u]].calls > 0
      BY <1>4, <3>1, <3>4 DEF Good, Ordered
    <3> QED
      BY <3>3, <3>4 DEF Ordered, Exists
  <2>11. Deletions'
    <3>1. \A c \in Clients : pc'[c] \in Holding =>
             pc[c] \in Holding /\ at'[c] = at[c] /\ past[at[c]].known /\ at[c] \in Blocks
      BY <1>0, <1>2, <1>3 DEF Good, Deletions, Typed, Holding, Resting
    <3>2. \A c \in Clients : pc'[c] \in Making => pc[c] \in Making /\ at'[c] = at[c]
      BY <1>0, <1>3, <1>5 DEF Making, Sending
    <3>3. ASSUME NEW u \in Threads, pc'[u] = "delete"
          PROVE  /\ \A c \in Clients : at'[c] = at'[u] => pc'[c] \notin Holding
                 /\ \/ past'[at'[u]].calls > 0
                    \/ ~past'[at'[u]].known /\ \A c \in Clients : at'[c] = at'[u] => pc'[c] \notin Making
      <4>1. CASE u = t
        <5>1. Holders(b) = {}
          BY <2>4, <3>3, <4>1
        <5>2. \A c \in Clients : at[c] = b => pc[c] \notin Holding
          BY <5>1 DEF Holders
        <5> QED
          BY <1>1, <2>1, <3>1, <4>1, <5>2
      <4>2. CASE u # t
        <5>1. pc[u] = "delete" /\ at'[u] = at[u] /\ at[u] \in Blocks
          BY <1>3, <3>3, <4>2 DEF Typed, Resting
        <5>2. \A c \in Clients : at[c] = at[u] => pc[c] \notin Holding
          BY <5>1 DEF Good, Deletions
        <5>3. past[at[u]].calls > 0 \/ (~past[at[u]].known /\ \A c \in Clients : at[c] = at[u] => pc[c] \notin Making)
          BY <5>1 DEF Good, Deletions
        <5> QED
          BY <1>4, <3>1, <3>2, <5>1, <5>2, <5>3
      <4> QED
        BY <4>1, <4>2
    <3> QED
      BY <1>4, <3>1, <3>3 DEF Deletions
  <2>12. Reachable'
    <3> SUFFICES ASSUME NEW x \in Blocks, req'[x].exists, ~req'[x].listed
                 PROVE  (\/ \E u \in Threads : at[u] = x /\ pc[u] \in {"drop", "delete"}
                         \/ past[x].ends > 0 /\ Holders(x) # {})'
      BY DEF Reachable, Exists
    <3>1. CASE x = b
      <4>1. CASE pc'[t] = "delete"
        BY <1>1, <3>1, <4>1
      <4>2. CASE pc'[t] # "delete"
        <5>1. Holders(b) # {} /\ past'[b].ends > 0
          BY <1>1, <1>8, <2>4, <4>2
        <5> QED
          BY <2>5, <3>1, <5>1
      <4> QED
        BY <4>1, <4>2
    <3>2. CASE x # b
      <4>1. CASE \E u \in Threads : at[u] = x /\ pc[u] \in {"drop", "delete"}
        <5>1. PICK u \in Threads : at[u] = x /\ pc[u] \in {"drop", "delete"}
          BY <4>1
        <5>2. u # t
          BY <3>2, <5>1 DEF b
        <5> QED
          BY <1>3, <5>1, <5>2
      <4>2. CASE past[x].ends > 0 /\ Holders(x) # {}
        BY <1>4, <2>5, <3>2, <4>2
      <4> QED
        BY <1>4, <3>2, <4>1, <4>2 DEF Good, Reachable, Exists
    <3> QED
      BY <3>1, <3>2
  <2>13. Attempts'
    <3>1. ASSUME NEW u \in Threads, pc'[u] \in Sending \/ pc[u] \in Sending PROVE Steady(u)
      BY <1>1, <1>2, <1>5, <3>1 DEF Others, Sending
    <3> QED
      BY <1>1, <1>4, <3>1, AttemptsKept DEF Good
  <2> QED
    BY <1>6, <2>6, <2>7, <2>8, <2>9, <2>10, <2>11, <2>12, <2>13 DEF Good
<1>9. CASE past[b].ends # 0
  <2>1. past'[b].ends > 1 /\ b \in Blocks
    BY <1>1, <1>2, <1>9
  <2> QED
    BY <1>1, <1>7, <2>1 DEF EndedTwice
<1> QED
  BY <1>1, <1>7, <1>8, <1>9

\* The last reference of a request that was ended deletes it.
LEMMA ReleaseGood == ASSUME Sound, Calm, NEW t \in Threads, Release(t) PROVE Sound'
<1> USE DEF Sound
<1>0. /\ Monitor \in Threads /\ Worker \in Threads /\ Clients \subseteq Threads
      /\ Monitor # Worker /\ Monitor \notin Clients /\ Worker \notin Clients
      /\ t # Monitor => t \in Clients \cup {Worker}
  BY ResolverAssumption DEF Threads
<1>b. PICK b \in Blocks : b = at[t]
  BY AtRequest DEF Release, Good, EndPoints
<1>1. /\ Typed' /\ Others(t) /\ at'[t] = b /\ seen'[t] = seen[t]
      /\ UNCHANGED <<queue, wire, stale, past>>
      /\ b \in Blocks /\ Exists(b) /\ OtherBlocks(b)
      /\ req'[b].exists = req[b].exists /\ req'[b].id = req[b].id
      /\ req'[b].listed = req[b].listed /\ req'[b].refc = req[b].refc - 1
      /\ req'[b].cancelled = req[b].cancelled /\ req'[b].rcount = req[b].rcount
      /\ IF req[b].refc = 1 /\ req[b].cancelled
         THEN pc'[t] = "delete" /\ then'[t] = "idle"
         ELSE pc'[t] = "idle" /\ then'[t] = then[t]
  BY <1>b, ReleaseEffect DEF Good
<1>2. pc[t] = "release" /\ t \in Clients \cup {Worker}
  BY <1>0 DEF Release, Good, Roles, Sending, EndPoints
<1>3. \A u \in Threads : /\ at'[u] = at[u] /\ seen'[u] = seen[u]
                         /\ u # t => pc'[u] = pc[u] /\ then'[u] = then[u]
  BY <1>b, <1>1 DEF Others, Steady
<1>4. \A x \in Blocks :
        /\ req'[x].exists = req[x].exists /\ req'[x].id = req[x].id /\ req'[x].listed = req[x].listed
        /\ req'[x].rcount = req[x].rcount /\ req'[x].cancelled = req[x].cancelled
        /\ x # b => req'[x].refc = req[x].refc
  BY <1>1 DEF OtherBlocks, Kept
<1>5. pc'[t] \in {"delete", "idle"}
  BY <1>1
<1>6. /\ Holders(b)' = Holders(b) \ {t} /\ t \in Holders(b)
      /\ \A x : x # b => Holders(x)' = Holders(x)
  <2>1. \A x : Holders(x)' = Holders(x) \ {t}
    BY <1>0, <1>3, <1>5 DEF Holders, Holding
  <2>2. \A x : t \in Holders(x) <=> x = b
    BY <1>b, <1>2 DEF Holders, Holding
  <2> QED
    BY <2>1, <2>2
<1>7. /\ IsFiniteSet(Holders(b)) /\ Cardinality(Holders(b)) \in Nat
      /\ req[b].refc = Cardinality(Holders(b)) + (IF past[b].ends = 0 THEN 1 ELSE 0)
      /\ IsFiniteSet(Holders(b)') /\ Cardinality(Holders(b)') = Cardinality(Holders(b)) - 1
      /\ Cardinality(Holders(b)') \in Nat
      /\ Cardinality(Holders(b)') = 0 <=> Holders(b)' = {}
  <2>1. IsFiniteSet(Holders(b)) /\ req[b].refc = Cardinality(Holders(b)) + (IF past[b].ends = 0 THEN 1 ELSE 0)
    BY <1>1 DEF Good, Counted
  <2> DEFINE S == Holders(b)
             T == Holders(b)'
  <2>2. IsFiniteSet(S) /\ t \in S /\ T = S \ {t}
    BY <1>6, <2>1
  <2> HIDE DEF S, T
  <2>3. /\ Cardinality(S) \in Nat /\ IsFiniteSet(T) /\ Cardinality(T) = Cardinality(S) - 1
        /\ Cardinality(T) \in Nat /\ (Cardinality(T) = 0 <=> T = {})
    BY <2>2, FS_RemoveElement, FS_CardinalityType, FS_EmptySet
  <2> QED
    BY <2>1, <2>3 DEF S, T
<1>8. /\ past[b].ends \in Nat /\ past[b].calls \in Nat /\ (req[b].cancelled <=> past[b].ends > 0)
      /\ past[b].ends > 0 => past[b].calls > 0
  BY <1>1 DEF Typed, Pasts, Good, Ordered
<1>9. /\ pc'[t] = "delete" => Holders(b)' = {} /\ past[b].calls > 0 /\ then'[t] = "idle"
      /\ pc'[t] = "idle" => past[b].ends = 0 \/ Holders(b)' # {}
  BY <1>1, <1>7, <1>8
<1>10. Roles'
  BY <1>0, <1>2, <1>3, <1>5, <1>9 DEF Good, Roles, EndPoints
<1>11. Alive'
  <2>1. ASSUME NEW u \in Threads, u \notin stale', pc'[u] \notin Resting, at'[u] \in Blocks
        PROVE  req'[at'[u]].exists
    <3>1. pc[u] \notin Resting
      BY <1>2, <1>3, <2>1 DEF Resting
    <3> QED
      BY <1>1, <1>3, <1>4, <2>1, <3>1 DEF Good, Alive, Exists
  <2> QED
    BY <2>1 DEF Alive, Exists
<1>12. Numbered' /\ Queued'
  BY <1>1, <1>4 DEF Good, Numbered, Queued, Within, Exists
<1>13. OneMaker'
  <2>1. \A c \in Clients : pc'[c] \in Making => pc[c] \in Making /\ at'[c] = at[c]
    BY <1>0, <1>3, <1>5 DEF Making, Sending
  <2> QED
    BY <1>1, <2>1, OneMakerKept DEF Good
<1>14. Counted'
  <2>1. ASSUME NEW x \in Blocks, req'[x].exists
        PROVE  /\ IsFiniteSet(Holders(x)')
               /\ req'[x].refc = Cardinality(Holders(x)') + (IF past'[x].ends = 0 THEN 1 ELSE 0)
    <3>1. CASE x = b
      <4>1. req'[b].refc = Cardinality(Holders(b)') + (IF past'[b].ends = 0 THEN 1 ELSE 0)
        BY <1>1, <1>7
      <4> QED
        BY <1>7, <3>1, <4>1
    <3>2. CASE x # b
      BY <1>1, <1>4, <1>6, <2>1, <3>2 DEF Good, Counted, Exists
    <3> QED
      BY <3>1, <3>2
  <2> QED
    BY <2>1 DEF Counted, Exists
<1>15. Ordered'
  <2>1. \A u \in Threads : pc'[u] = "drop" => pc[u] = "drop" /\ at'[u] = at[u] /\ at[u] \in Blocks
    BY <1>3, <1>5 DEF Typed, Resting
  <2> QED
    BY <1>1, <1>4, <2>1 DEF Good, Ordered, Exists
<1>16. Deletions'
  <2>1. \A c \in Clients : pc'[c] \in Holding => pc[c] \in Holding /\ at'[c] = at[c] /\ past[at[c]].known
    BY <1>0, <1>3, <1>5 DEF Good, Deletions, Holding
  <2>2. \A c \in Clients : pc'[c] \in Making => pc[c] \in Making /\ at'[c] = at[c]
    BY <1>0, <1>3, <1>5 DEF Making, Sending
  <2>3. ASSUME NEW u \in Threads, pc'[u] = "delete"
        PROVE  /\ \A c \in Clients : at'[c] = at'[u] => pc'[c] \notin Holding
               /\ \/ past'[at'[u]].calls > 0
                  \/ ~past'[at'[u]].known /\ \A c \in Clients : at'[c] = at'[u] => pc'[c] \notin Making
    <3>1. CASE u = t
      <4>1. Holders(b)' = {} /\ past[b].calls > 0
        BY <1>9, <2>3, <3>1
      <4>2. \A c \in Clients : at'[c] = b => pc'[c] \notin Holding
        BY <4>1 DEF Holders
      <4> QED
        BY <1>1, <3>1, <4>1, <4>2
    <3>2. CASE u # t
      <4>1. pc[u] = "delete" /\ at'[u] = at[u]
        BY <1>3, <2>3, <3>2
      <4> QED
        BY <1>1, <1>3, <2>1, <2>2, <4>1 DEF Good, Deletions
    <3> QED
      BY <3>1, <3>2
  <2> QED
    BY <1>1, <2>1, <2>3 DEF Deletions
<1>17. Reachable'
  <2> SUFFICES ASSUME NEW x \in Blocks, req'[x].exists, ~req'[x].listed
               PROVE  (\/ \E u \in Threads : at[u] = x /\ pc[u] \in {"drop", "delete"}
                       \/ past[x].ends > 0 /\ Holders(x) # {})'
    BY DEF Reachable, Exists
  <2>1. CASE \E u \in Threads : at[u] = x /\ pc[u] \in {"drop", "delete"}
    <3>1. PICK u \in Threads : at[u] = x /\ pc[u] \in {"drop", "delete"}
      BY <2>1
    <3>2. u # t
      BY <1>2, <3>1
    <3> QED
      BY <1>3, <3>1, <3>2
  <2>2. CASE past[x].ends > 0 /\ Holders(x) # {}
    <3>1. CASE x = b /\ pc'[t] = "delete"
      BY <1>1, <3>1
    <3>2. CASE x = b /\ pc'[t] # "delete"
      <4>1. Holders(b)' # {}
        BY <1>5, <1>8, <1>9, <2>2, <3>2
      <4> QED
        BY <1>1, <2>2, <3>2, <4>1
    <3>3. CASE x # b
      BY <1>1, <1>6, <2>2, <3>3
    <3> QED
      BY <3>1, <3>2, <3>3
  <2> QED
    BY <1>4, <2>1, <2>2 DEF Good, Reachable, Exists
<1>18. Attempts'
  <2>1. ASSUME NEW u \in Threads, pc'[u] \in Sending \/ pc[u] \in Sending PROVE Steady(u)
    BY <1>1, <1>2, <1>5, <2>1 DEF Others, Sending
  <2> QED
    BY <1>1, <1>4, <2>1, AttemptsKept DEF Good
<1>19. Bounds' /\ CancelSafe'
  <2>1. stale' \subseteq {Monitor}
    BY <1>1 DEF Calm
  <2> QED
    BY <1>1, <1>4, <1>11, <2>1, BoundsKept, SafeOfAlive
<1> QED
  BY <1>1, <1>10, <1>11, <1>12, <1>13, <1>14, <1>15, <1>16, <1>17, <1>18, <1>19 DEF Good

\* The destructors.  No client holds the request that is freed; who else is at
\* it goes on with freed memory, and the state is corrupt but for the monitor.
LEMMA DeleteGood == ASSUME Sound, Calm, NEW t \in Threads, Delete(t) PROVE Sound'
<1> USE DEF Sound
<1> DEFINE b == at[t]
<1>0. /\ Monitor \in Threads /\ Worker \in Threads /\ Clients \subseteq Threads
      /\ Monitor # Worker /\ Monitor \notin Clients /\ Worker \notin Clients
  BY ResolverAssumption DEF Threads
<1>1. /\ Typed' /\ Queued'
      /\ at' = at /\ seen' = seen /\ pc'[t] = then[t] /\ then'[t] = "idle"
      /\ \A u \in Threads \ {t} : pc'[u] = pc[u] /\ then'[u] = then[u]
      /\ UNCHANGED <<wire, past>>
      /\ b \in Blocks /\ Exists(b) /\ OtherBlocks(b)
      /\ ~req'[b].exists /\ ~req'[b].listed /\ req'[b].rcount = req[b].rcount
      /\ \A u \in Threads \ {t} : u \in stale' <=> u \in stale \/ (at[u] = b /\ pc[u] \notin Resting)
      /\ t \notin stale' => pc'[t] = "idle"
  BY DeleteEffect DEF Good
<1>2. pc[t] = "delete" /\ pc'[t] \in {"idle", IF t = Monitor THEN "again" ELSE "idle"}
  BY <1>1 DEF Delete, Good, Roles
<1>3. \A x \in Blocks \ {b} :
        /\ req'[x].exists = req[x].exists /\ req'[x].id = req[x].id /\ req'[x].listed = req[x].listed
        /\ req'[x].refc = req[x].refc /\ req'[x].cancelled = req[x].cancelled
        /\ req'[x].rcount = req[x].rcount
  BY <1>1 DEF OtherBlocks, Kept
<1> HIDE DEF b
<1>4. \A x : Holders(x)' = Holders(x)
  <2>1. pc[t] \notin Holding /\ pc'[t] \notin Holding
    BY <1>2 DEF Holding
  <2> QED
    BY <1>0, <1>1, <2>1, HoldersSame
<1>5. Roles'
  BY <1>0, <1>1, <1>2 DEF Good, Roles, EndPoints
<1>6. Alive'
  <2>1. ASSUME NEW u \in Threads, u \notin stale', pc'[u] \notin Resting, at'[u] \in Blocks
        PROVE  req'[at'[u]].exists
    <3>1. u # t
      BY <1>1, <2>1 DEF Resting
    <3>2. pc[u] \notin Resting /\ u \notin stale /\ at[u] \in Blocks \ {b}
      BY <1>1, <2>1, <3>1
    <3> QED
      BY <1>1, <1>3, <3>2 DEF Good, Alive, Exists
  <2> QED
    BY <2>1 DEF Alive, Exists
<1>7. Numbered'
  BY <1>1, <1>3 DEF Good, Numbered, Exists
<1>8. OneMaker'
  <2>1. \A c \in Clients : pc'[c] \in Making => pc[c] \in Making
    BY <1>0, <1>1, <1>2 DEF Making, Sending
  <2> QED
    BY <1>1, <2>1, OneMakerKept DEF Good
<1>9. Counted'
  BY <1>1, <1>3, <1>4 DEF Good, Counted, Exists
<1>10. Ordered'
  <2>1. \A u \in Threads : pc'[u] = "drop" => pc[u] = "drop" /\ at[u] \in Blocks
    BY <1>1, <1>2 DEF Typed, Resting
  <2> QED
    BY <1>1, <1>3, <2>1 DEF Good, Ordered, Exists
<1>11. Deletions'
  <2>1. \A u \in Threads : pc'[u] = "delete" => pc[u] = "delete"
    BY <1>1, <1>2
  <2>2. \A c \in Clients : /\ pc'[c] \in Making => pc[c] \in Making
                           /\ pc'[c] \in Holding => pc[c] \in Holding
    BY <1>0, <1>1, <1>2 DEF Making, Sending, Holding
  <2> QED
    BY <1>1, <2>1, <2>2, DeletionsKept DEF Good
<1>12. Reachable'
  <2> SUFFICES ASSUME NEW x \in Blocks, req'[x].exists, ~req'[x].listed
               PROVE  (\/ \E u \in Threads : at[u] = x /\ pc[u] \in {"drop", "delete"}
                       \/ past[x].ends > 0 /\ Holders(x) # {})'
    BY DEF Reachable, Exists
  <2>0. x # b
    BY <1>1
  <2>1. CASE \E u \in Threads : at[u] = x /\ pc[u] \in {"drop", "delete"}
    <3>1. PICK u \in Threads : at[u] = x /\ pc[u] \in {"drop", "delete"}
      BY <2>1
    <3>2. u # t
      BY <2>0, <3>1 DEF b
    <3> QED
      BY <1>1, <3>1, <3>2
  <2>2. CASE past[x].ends > 0 /\ Holders(x) # {}
    BY <1>1, <1>4, <2>2
  <2> QED
    BY <1>3, <2>0, <2>1, <2>2 DEF Good, Reachable, Exists
<1>13. Attempts'
  <2>1. \A u \in Threads : pc'[u] \in Sending \/ pc[u] \in Sending => Steady(u)
    BY <1>1, <1>2 DEF Steady, Sending
  <2>2. \A x \in Blocks : req'[x].rcount = req[x].rcount /\ past'[x].sends = past[x].sends
    BY <1>1, <1>3
  <2> QED
    BY <1>1, <2>1, <2>2, AttemptsKept DEF Good
<1>14. Bounds'
  <2>1. \A x \in Blocks : req'[x].rcount = req[x].rcount /\ past'[x].sends = past[x].sends
    BY <1>1, <1>3
  <2> QED
    BY <1>1, <2>1, BoundsKept
<1>15. CancelSafe'
  <2> SUFFICES ASSUME NEW c \in Clients, pc'[c] \in Holding
               PROVE  req'[at'[c]].exists /\ c \notin stale'
    BY DEF CancelSafe, Exists, Holding
  <2>1. c \in Threads \ {t} /\ pc[c] \in Holding
    BY <1>0, <1>1, <1>2 DEF Holding
  <2>2. at[c] # b /\ c \notin stale
    BY <1>0, <1>2, <2>1 DEF Good, Deletions, Calm, b
  <2>3. c \notin stale' /\ at'[c] = at[c] /\ at[c] \in Blocks /\ pc[c] \notin Resting
    BY <1>1, <2>1, <2>2 DEF Typed, Holding, Resting
  <2> QED
    BY <1>3, <2>1, <2>2, <2>3 DEF Good, Alive, Exists
<1> QED
  BY <1>1, <1>5, <1>6, <1>7, <1>8, <1>9, <1>10, <1>11, <1>12, <1>13, <1>14, <1>15 DEF Good

\* The constructor: nobody is at a block that is free.
LEMMA NewGood ==
  ASSUME Sound, Calm, NEW c \in Clients, NEW b \in Blocks, New(c, b) PROVE Sound'
<1> USE DEF Sound
<1>0. /\ Monitor \in Threads /\ Worker \in Threads /\ Clients \subseteq Threads
      /\ Monitor # Worker /\ Monitor \notin Clients /\ Worker \notin Clients
      /\ Repeat \in Nat \ {0}
  BY ResolverAssumption DEF Threads
<1>1. /\ Typed' /\ Queued' /\ Others(c)
      /\ pc[c] = "idle" /\ ~Exists(b)
      /\ at'[c] = b /\ pc'[c] = "send" /\ then' = then /\ seen' = seen
      /\ UNCHANGED <<wire, stale>>
      /\ OtherBlocks(b)
      /\ req'[b].exists = TRUE /\ req'[b].id \in 1 .. IdSpan
      /\ req'[b].listed = TRUE /\ req'[b].refc = 1
      /\ req'[b].cancelled = FALSE /\ req'[b].rcount = 0
      /\ past'[b].calls = 0 /\ past'[b].ends = 0 /\ past'[b].sends = 0 /\ past'[b].known = FALSE
  BY NewEffect DEF Good
<1>2. \A u \in Threads : u # c => pc'[u] = pc[u] /\ at'[u] = at[u]
  BY <1>1 DEF Others, Steady
<1>3. \A x \in Blocks \ {b} :
        /\ req'[x].exists = req[x].exists /\ req'[x].id = req[x].id /\ req'[x].listed = req[x].listed
        /\ req'[x].refc = req[x].refc /\ req'[x].cancelled = req[x].cancelled
        /\ req'[x].rcount = req[x].rcount /\ past'[x] = past[x]
  BY <1>1 DEF OtherBlocks, Kept
<1>4. \A u \in Threads : pc[u] \in EndPoints \cup Making \cup {"picked"} => at[u] # b /\ at[u] \in Blocks
  BY <1>1, AtRequest DEF Good
<1>5. Holders(b)' = {} /\ \A x \in Blocks \ {b} : Holders(x)' = Holders(x)
  BY <1>0, <1>1, <1>2, <1>4 DEF Holders, Holding, EndPoints
<1>6. Roles'
  BY <1>0, <1>1, <1>2 DEF Good, Roles, EndPoints, Making, Sending
<1>7. Alive'
  <2>1. ASSUME NEW u \in Threads, u \notin stale', pc'[u] \notin Resting, at'[u] \in Blocks
        PROVE  req'[at'[u]].exists
    <3>1. CASE at'[u] = b
      BY <1>1, <3>1
    <3>2. CASE at'[u] # b
      <4>1. u # c
        BY <1>1, <3>2
      <4>2. pc[u] \notin Resting /\ u \notin stale /\ at'[u] = at[u] /\ at[u] \in Blocks \ {b}
        BY <1>1, <1>2, <2>1, <3>2, <4>1
      <4> QED
        BY <1>3, <4>2 DEF Good, Alive, Exists
    <3> QED
      BY <3>1, <3>2
  <2> QED
    BY <2>1 DEF Alive, Exists
<1>8. Numbered'
  BY <1>1, <1>3 DEF Good, Numbered, Exists
<1>9. OneMaker'
  <2>1. ASSUME NEW d \in Clients, d # c, pc'[d] \in Making
        PROVE  pc[d] \in Making /\ at'[d] = at[d] /\ at[d] \in Blocks \ {b} /\ past'[at[d]] = past[at[d]]
    BY <1>0, <1>2, <1>3, <1>4, <2>1
  <2>2. ASSUME NEW d \in Clients, NEW e \in Clients, pc'[d] \in Making, pc'[e] \in Making, at'[d] = at'[e]
        PROVE  d = e
    <3>1. CASE d # c /\ e # c
      BY <2>1, <2>2, <3>1 DEF Good, OneMaker
    <3>2. CASE d = c \/ e = c
      BY <1>1, <2>1, <2>2, <3>2
    <3> QED
      BY <3>1, <3>2
  <2>3. ASSUME NEW d \in Clients, pc'[d] \in Making PROVE ~past'[at'[d]].known
    <3>1. CASE d = c
      BY <1>1, <3>1
    <3>2. CASE d # c
      BY <2>1, <2>3, <3>2 DEF Good, OneMaker
    <3> QED
      BY <3>1, <3>2
  <2> QED
    BY <2>2, <2>3 DEF OneMaker
<1>10. Counted'
  <2>1. ASSUME NEW x \in Blocks, req'[x].exists
        PROVE  /\ IsFiniteSet(Holders(x)')
               /\ req'[x].refc = Cardinality(Holders(x)') + (IF past'[x].ends = 0 THEN 1 ELSE 0)
    <3>1. CASE x = b
      <4>1. IsFiniteSet(Holders(b)') /\ Cardinality(Holders(b)') = 0
        BY <1>5, FS_EmptySet
      <4>2. req'[b].refc = Cardinality(Holders(b)') + (IF past'[b].ends = 0 THEN 1 ELSE 0)
        BY <1>1, <4>1
      <4> QED
        BY <3>1, <4>1, <4>2
    <3>2. CASE x # b
      BY <1>3, <1>5, <2>1, <3>2 DEF Good, Counted, Exists
    <3> QED
      BY <3>1, <3>2
  <2> QED
    BY <2>1 DEF Counted, Exists
<1>11. Ordered'
  <2>1. \A u \in Threads : pc'[u] = "drop" => pc[u] = "drop" /\ at'[u] = at[u] /\ at[u] \in Blocks \ {b}
    BY <1>1, <1>2, <1>4 DEF EndPoints
  <2>2. \A x \in Blocks : /\ req'[x].exists => (req'[x].cancelled <=> past'[x].ends > 0)
                          /\ req'[x].listed => past'[x].ends = 0
                          /\ past'[x].ends > 0 => past'[x].calls > 0
    <3> SUFFICES ASSUME NEW x \in Blocks
                 PROVE  /\ req'[x].exists => (req'[x].cancelled <=> past'[x].ends > 0)
                        /\ req'[x].listed => past'[x].ends = 0
                        /\ past'[x].ends > 0 => past'[x].calls > 0
      OBVIOUS
    <3>1. CASE x = b
      BY <1>1, <3>1
    <3>2. CASE x # b
      BY <1>3, <3>2 DEF Good, Ordered, Exists
    <3> QED
      BY <3>1, <3>2
  <2>3. ASSUME NEW u \in Threads, pc'[u] = "drop"
        PROVE  ~req'[at'[u]].listed /\ past'[at'[u]].calls > 0
    BY <1>3, <2>1, <2>3 DEF Good, Ordered
  <2> QED
    BY <2>2, <2>3 DEF Ordered, Exists
<1>12. Deletions'
  <2>1. ASSUME NEW u \in Threads, pc'[u] = "delete"
        PROVE  pc[u] = "delete" /\ at'[u] = at[u] /\ at[u] \in Blocks \ {b} /\ past'[at[u]] = past[at[u]]
    BY <1>1, <1>2, <1>3, <1>4, <2>1 DEF EndPoints
  <2>2. ASSUME NEW d \in Clients, pc'[d] \in Holding
        PROVE  pc[d] \in Holding /\ at'[d] = at[d] /\ at[d] \in Blocks \ {b} /\ past'[at[d]] = past[at[d]]
    <3>1. d # c /\ d \in Threads
      BY <1>0, <1>1, <2>2 DEF Holding
    <3>2. pc[d] \in EndPoints
      BY <1>2, <2>2, <3>1 DEF Holding, EndPoints
    <3> QED
      BY <1>2, <1>3, <1>4, <2>2, <3>1, <3>2
  <2>3. \A d \in Clients : d # c => at'[d] = at[d] /\ (pc'[d] \in Making => pc[d] \in Making)
    BY <1>0, <1>2
  <2>4. ASSUME NEW u \in Threads, pc'[u] = "delete"
        PROVE  /\ \A d \in Clients : at'[d] = at'[u] => pc'[d] \notin Holding
               /\ \/ past'[at'[u]].calls > 0
                  \/ ~past'[at'[u]].known /\ \A d \in Clients : at'[d] = at'[u] => pc'[d] \notin Making
    <3>1. \A d \in Clients : at'[d] = at'[u] => pc'[d] \notin Holding
      BY <2>1, <2>2, <2>4 DEF Good, Deletions
    <3>2. CASE past[at[u]].calls > 0
      BY <2>1, <2>4, <3>1, <3>2
    <3>3. CASE ~(past[at[u]].calls > 0)
      <4>1. ~past[at[u]].known /\ \A d \in Clients : at[d] = at[u] => pc[d] \notin Making
        BY <2>1, <2>4, <3>3 DEF Good, Deletions
      <4>2. \A d \in Clients : at'[d] = at'[u] => pc'[d] \notin Making
        BY <1>1, <2>1, <2>3, <2>4, <4>1
      <4> QED
        BY <2>1, <2>4, <3>1, <4>1, <4>2
    <3> QED
      BY <3>2, <3>3
  <2>5. ASSUME NEW d \in Clients, pc'[d] \in Holding PROVE past'[at'[d]].known
    BY <2>2, <2>5 DEF Good, Deletions
  <2> QED
    BY <2>4, <2>5 DEF Deletions
<1>13. Reachable'
  <2> SUFFICES ASSUME NEW x \in Blocks, req'[x].exists, ~req'[x].listed
               PROVE  (\/ \E u \in Threads : at[u] = x /\ pc[u] \in {"drop", "delete"}
                       \/ past[x].ends > 0 /\ Holders(x) # {})'
    BY DEF Reachable, Exists
  <2>0. x # b
    BY <1>1
  <2>1. CASE \E u \in Threads : at[u] = x /\ pc[u] \in {"drop", "delete"}
    <3>1. PICK u \in Threads : at[u] = x /\ pc[u] \in {"drop", "delete"}
      BY <2>1
    <3>2. u # c
      BY <1>1, <3>1
    <3> QED
      BY <1>2, <3>1, <3>2
  <2>2. CASE past[x].ends > 0 /\ Holders(x) # {}
    BY <1>3, <1>5, <2>0, <2>2
  <2> QED
    BY <1>3, <2>0, <2>1, <2>2 DEF Good, Reachable, Exists
<1>14. Attempts'
  <2>1. pc'[Monitor] = pc[Monitor] /\ at'[Monitor] = at[Monitor] /\ seen'[Monitor] = seen[Monitor]
    BY <1>0, <1>1, <1>2
  <2>2. \A x : /\ MonitorAt(x, Sending)' <=> MonitorAt(x, Sending)
               /\ MonitorAt(x, {"store"})' <=> MonitorAt(x, {"store"})
               /\ MonitorAt(x, {"count", "store"})' <=> MonitorAt(x, {"count", "store"})
    BY <2>1 DEF MonitorAt
  <2>3. \A x : Uncounted(x)' = Uncounted(x)
    BY <2>2 DEF Uncounted
  <2>4. ~MonitorAt(b, Sending) /\ ~MonitorAt(b, {"store"}) /\ Uncounted(b) = 0
    BY <1>0, <1>4 DEF MonitorAt, Uncounted, Making, Sending
  <2>5. ASSUME NEW d \in Clients, pc'[d] \in Sending
        PROVE  Tried(d)'
    <3>1. CASE d = c
      <4>1. ~MonitorAt(at[d], Sending)' /\ ~MonitorAt(at[d], {"store"})' /\ Uncounted(at[d])' = 0
        BY <1>1, <2>1, <2>4, <3>1 DEF MonitorAt, Uncounted
      <4> QED
        BY <1>0, <1>1, <3>1, <4>1 DEF Tried
    <3>2. CASE d # c
      <4> DEFINE x == at[d]
      <4>1. pc'[d] = pc[d] /\ at'[d] = x /\ seen'[d] = seen[d] /\ x \in Blocks \ {b}
        BY <1>0, <1>1, <1>2, <1>4, <2>5, <3>2 DEF Making
      <4>2. /\ req[x].rcount <= Repeat
            /\ pc[d] = "store" => seen[d] <= req[x].rcount
            /\ MonitorAt(x, Sending) => req[x].rcount < Repeat
            /\ MonitorAt(x, {"store"}) => seen[Monitor] = req[x].rcount
            /\ past[x].sends = req[x].rcount + Uncounted(x) + (IF pc[d] = "send" THEN 0 ELSE 1)
        BY <2>5, <4>1 DEF Good, Attempts, Tried
      <4>3. /\ MonitorAt(at[d], Sending)' <=> MonitorAt(x, Sending)
            /\ MonitorAt(at[d], {"store"})' <=> MonitorAt(x, {"store"})
            /\ Uncounted(at[d])' = Uncounted(x)
        BY <2>1, <4>1 DEF MonitorAt, Uncounted
      <4>4. req'[x].rcount = req[x].rcount /\ past'[x].sends = past[x].sends
        BY <1>3, <4>1
      <4> HIDE DEF x
      <4> QED
        BY <2>1, <4>1, <4>2, <4>3, <4>4 DEF Tried
    <3> QED
      BY <3>1, <3>2
  <2>6. MonitorTried'
    <3>1. pc[Monitor] \in Sending => at[Monitor] \in Blocks \ {b}
      BY <1>0, <1>4 DEF Making
    <3> QED
      BY <1>3, <2>1, <3>1 DEF Good, Attempts, MonitorTried, Sending
  <2>7. ASSUME NEW x \in Blocks, ~Constructed(x)' PROVE Spent(x)'
    <3>1. x # b
      BY <1>1, <2>7 DEF Constructed, Sending
    <3>2. ~Constructed(x)
      <4>1. \A d \in Clients : pc[d] \in Sending => d # c
        BY <1>1 DEF Sending
      <4> QED
        BY <1>0, <1>2, <2>7, <4>1 DEF Constructed
    <3>3. past[x].sends <= Repeat + Uncounted(x)
                             + (IF MonitorAt(x, {"store"}) THEN seen[Monitor] ELSE req[x].rcount)
      BY <3>2 DEF Good, Attempts, Spent
    <3>4. req'[x].rcount = req[x].rcount /\ past'[x].sends = past[x].sends
      BY <1>3, <3>1
    <3> QED
      BY <2>1, <2>2, <2>3, <3>3, <3>4 DEF Spent
  <2> QED
    BY <2>5, <2>6, <2>7 DEF Attempts
<1>15. Bounds'
  <2>1. \A x \in Blocks : req'[x].rcount <= Repeat + 1 /\ past'[x].sends <= 2 * Repeat
    BY <1>0, <1>1, <1>3 DEF Bounds
  <2> QED
    BY <1>1, <2>1 DEF Bounds
<1>16. CancelSafe'
  <2>1. stale' \subseteq {Monitor}
    BY <1>1 DEF Calm
  <2> QED
    BY <1>1, <1>7, <2>1, SafeOfAlive
<1> QED
  BY <1>1, <1>6, <1>7, <1>8, <1>9, <1>10, <1>11, <1>12, <1>13, <1>14, <1>15, <1>16 DEF Good

\* Time passes, the name server goes, or nothing happens: none of this is in a
\* request.
LEMMA QuietGood ==
  ASSUME Sound, (\E b \in Blocks : Expire(b)) \/ NsCloses \/ UNCHANGED vars PROVE Sound'
<1> USE DEF Sound
<1>1. /\ UNCHANGED <<req, queue, mx, lastid, made, wire, pc, at, then, seen, found, past, stale, lost>>
      /\ due' \subseteq Blocks /\ ns' \in BOOLEAN
  BY DEF Expire, NsCloses, vars, shared, threads, history, Typed
<1>2. Typed'
  BY <1>1 DEF Typed
<1>3. Bounds' /\ CancelSafe'
  BY <1>1 DEF Bounds, CancelSafe, EndedTwice, Exists
<1>4. Roles' /\ Alive' /\ Numbered' /\ Queued' /\ OneMaker'
  BY <1>1 DEF Good, Roles, Alive, Numbered, Queued, OneMaker, Exists, Within
<1>5. \A b : Holders(b)' = Holders(b)
  BY <1>1, HoldersSame
<1>6. Counted' /\ Ordered' /\ Deletions' /\ Reachable'
  BY <1>1, <1>5 DEF Good, Counted, Ordered, Deletions, Reachable, Exists
<1>7. Attempts'
  <2>1. \A u \in Threads : Steady(u)
    BY <1>1 DEF Steady
  <2> QED
    BY <1>1, <1>2, <2>1, AttemptsKept DEF Good
<1> QED
  BY <1>2, <1>3, <1>4, <1>6, <1>7 DEF Good

----------------------------------------------------------------------------
(* The invariant.                                                          *)

LEMMA InvInit == Init => Inv
<1> SUFFICES ASSUME Init PROVE Inv
  OBVIOUS
<1>0. /\ IdSpan \in Nat \ {0} /\ Repeat \in Nat \ {0} /\ MaxNew \in Nat
      /\ Monitor \in Threads /\ Worker \in Threads /\ Clients \subseteq Threads
  BY ResolverAssumption DEF Threads
<1>1. /\ \A b \in Blocks : /\ req[b] = [exists |-> FALSE, id |-> 0, listed |-> FALSE, refc |-> 0,
                                        cancelled |-> FALSE, rcount |-> 0, next |-> NoReq, fits |-> FALSE]
                           /\ past[b] = [calls |-> 0, ends |-> 0, sends |-> 0, known |-> FALSE]
      /\ \A t \in Threads : pc[t] = "idle"
      /\ queue = << >> /\ wire = {} /\ stale = {}
  BY DEF Init
<1>2. Typed
  <2>1. req \in [Blocks -> Requests] /\ past \in [Blocks -> Pasts]
    BY <1>0 DEF Init, Requests, Pasts
  <2>2. /\ pc \in [Threads -> Points] /\ at \in [Threads -> Blocks \cup {NoReq}]
        /\ then \in [Threads -> Points] /\ seen \in [Threads -> Nat]
    BY DEF Init, Points
  <2>3. /\ queue \in Seq(Blocks) /\ mx \in BOOLEAN /\ due \subseteq Blocks
        /\ lastid \in 0 .. IdSpan /\ made \in 0 .. MaxNew /\ wire \subseteq 0 .. IdSpan /\ ns \in BOOLEAN
        /\ found \in BOOLEAN /\ stale \subseteq Threads /\ lost \in BOOLEAN
    <3>1. << >> \in Seq(Blocks) /\ {} \subseteq Blocks /\ {} \subseteq 0 .. IdSpan /\ {} \subseteq Threads
      OBVIOUS
    <3>2. 0 \in 0 .. IdSpan /\ 0 \in 0 .. MaxNew
      BY <1>0
    <3> QED
      BY <3>1, <3>2 DEF Init
  <2>4. \A t \in Threads : pc[t] \in Resting
    BY <1>1 DEF Resting
  <2> QED
    BY <2>1, <2>2, <2>3, <2>4 DEF Typed
<1>3. Bounds
  BY <1>0, <1>1 DEF Bounds
<1>4. Roles /\ Alive /\ Numbered
  BY <1>0, <1>1 DEF Roles, Alive, Numbered, Exists, Resting
<1>5. Queued
  BY <1>1 DEF Queued, Within
<1>6. OneMaker /\ CancelSafe
  BY <1>0, <1>1 DEF OneMaker, CancelSafe, Making, Sending
<1>7. Counted /\ Reachable
  BY <1>1 DEF Counted, Reachable, Exists
<1>8. Ordered /\ Deletions
  BY <1>0, <1>1 DEF Ordered, Deletions, Exists, Holding
<1>9. Attempts
  <2>1. \A b : ~MonitorAt(b, {"count", "store"}) /\ ~MonitorAt(b, {"store"})
    BY <1>0, <1>1 DEF MonitorAt
  <2>2. ASSUME NEW b \in Blocks PROVE Spent(b)
    BY <1>0, <1>1, <2>1 DEF Spent, Uncounted
  <2> QED
    BY <1>0, <1>1, <2>2 DEF Attempts, MonitorTried, Sending
<1> QED
  BY <1>2, <1>3, <1>4, <1>5, <1>6, <1>7, <1>8, <1>9 DEF Inv, Good

\* Each step is taken from a state that is not corrupt.
LEMMA StepGood ==
  ASSUME Inv, Next PROVE Sound /\ Calm /\ Typed' /\ Bounds' /\ CancelSafe' /\ (EndedTwice' \/ Good')
<1>1. Sound /\ Calm
  BY NotCorrupt DEF Next, Inv, Sound
<1>2. ASSUME NEW t \in Threads, Continue(t)
      PROVE  Typed' /\ Bounds' /\ CancelSafe' /\ (EndedTwice' \/ Good')
  <2>1. CASE Flush(t)
    <3>1. CASE Send(t)
      BY <1>1, <3>1, SendGood DEF Sound
    <3>2. CASE Count(t)
      BY <1>1, <3>2, CountGood DEF Sound
    <3>3. CASE Store(t)
      BY <1>1, <3>3, StoreGood DEF Sound
    <3>4. CASE Wake(t)
      BY <1>1, <3>4, WakeGood DEF Sound
    <3> QED
      BY <2>1, <3>1, <3>2, <3>3, <3>4 DEF Flush
  <2>2. CASE Ending(t)
    <3>1. CASE Call(t)
      BY <1>1, <3>1, CallGood DEF Sound
    <3>2. CASE Drop(t)
      BY <1>1, <3>2, DropGood
    <3>3. CASE Release(t)
      BY <1>1, <3>3, ReleaseGood DEF Sound
    <3>4. CASE Delete(t)
      BY <1>1, <3>4, DeleteGood DEF Sound
    <3> QED
      BY <2>2, <3>1, <3>2, <3>3, <3>4 DEF Ending
  <2>3. CASE t \in Clients /\ Refuse(t)
    BY <1>1, <2>3, RefuseGood DEF Sound
  <2>4. CASE t = Worker /\ Incref
    BY <1>1, <2>4, IncrefGood DEF Sound
  <2>5. CASE t = Monitor /\ (Sleep \/ ReadHead \/ Enter \/ Again \/ Visit \/ Leave)
    BY <1>1, <2>5, MonitorRests, VisitGood DEF Sound
  <2> QED
    BY <1>2, <2>1, <2>2, <2>3, <2>4, <2>5 DEF Continue
<1>3. ASSUME NEW c \in Clients, NEW b \in Blocks, New(c, b) \/ Lookup(c, b)
      PROVE  Typed' /\ Bounds' /\ CancelSafe' /\ (EndedTwice' \/ Good')
  BY <1>1, <1>3, NewGood, LookupGood DEF Sound
<1>4. ASSUME NEW b \in Blocks, Pick(b)
      PROVE  Typed' /\ Bounds' /\ CancelSafe' /\ (EndedTwice' \/ Good')
  BY <1>1, <1>4, PickGood DEF Sound
<1>5. ASSUME (\E b \in Blocks : Expire(b)) \/ NsCloses
      PROVE  Typed' /\ Bounds' /\ CancelSafe' /\ (EndedTwice' \/ Good')
  BY <1>1, <1>5, QuietGood DEF Sound
<1>6. ASSUME SpuriousWake
      PROVE  Typed' /\ Bounds' /\ CancelSafe' /\ (EndedTwice' \/ Good')
  BY <1>1, <1>6, MonitorRests DEF Sound
<1> QED
  BY <1>1, <1>2, <1>3, <1>4, <1>5, <1>6 DEF Next

LEMMA InvStep == Inv /\ [Next]_vars => Inv'
<1> SUFFICES ASSUME Inv, [Next]_vars PROVE Inv'
  OBVIOUS
<1>1. CASE Next
  BY <1>1, StepGood DEF Inv, Corrupt
<1>2. CASE UNCHANGED vars
  <2>1. UNCHANGED <<req, queue, mx, lastid, made, due, ns, wire, pc, at, then, seen, found, past, stale, lost>>
    BY <1>2 DEF vars, shared, threads, history
  <2>2. CASE Corrupt
    <3>1. Corrupt'
      BY <2>1, <2>2 DEF Corrupt, EndedTwice, Exists
    <3>2. Typed' /\ Bounds' /\ CancelSafe'
      BY <2>1 DEF Inv, Typed, Bounds, CancelSafe, EndedTwice, Exists
    <3> QED
      BY <3>1, <3>2 DEF Inv
  <2>3. CASE ~Corrupt
    <3>1. Sound
      BY <2>3 DEF Inv, Sound
    <3>2. Sound'
      BY <1>2, <3>1, QuietGood
    <3> QED
      BY <3>2 DEF Inv, Sound
  <2> QED
    BY <2>2, <2>3
<1> QED
  BY <1>1, <1>2 DEF Next

LEMMA Invariant == Spec => []Inv
<1> QED
  BY InvInit, InvStep, PTL DEF Spec

----------------------------------------------------------------------------
(* The theorems.                                                           *)

LEMMA TypesOfInv == Inv => TypeOK
<1> SUFFICES ASSUME Inv PROVE TypeOK
  OBVIOUS
<1>1. Typed /\ Bounds /\ Repeat \in Nat
  BY ResolverAssumption DEF Inv
<1>2. \A b \in Blocks :
        /\ req[b].exists \in BOOLEAN /\ req[b].id \in 0 .. IdSpan
        /\ req[b].listed \in BOOLEAN /\ req[b].cancelled \in BOOLEAN /\ req[b].fits \in BOOLEAN
        /\ req[b].refc \in Int /\ req[b].rcount \in 0 .. Repeat + 1 /\ req[b].next \in Blocks \cup {NoReq}
  BY <1>1 DEF Typed, Bounds, Requests
<1> QED
  BY <1>1, <1>2 DEF TypeOK, Typed, Bounds

\* request::queue holds each request that is listed once and none that was
\* freed (request.cc:20-44, 54-73), although the monitor leaves the mutex in
\* the middle of its walk (monitor.cc:68-70), requests unlist themselves from
\* three threads and the destructor of one is the last to do so.
THEOREM QueueIsSound == Spec => []QueueSound
<1>1. Inv => QueueSound
  <2> SUFFICES ASSUME Inv, ~Corrupt
               PROVE  /\ \A j, k \in 1 .. Len(queue) : queue[j] = queue[k] => j = k
                      /\ \A b \in Blocks : req[b].listed <=> \E k \in 1 .. Len(queue) : queue[k] = b
                      /\ \A k \in 1 .. Len(queue) : Exists(queue[k])
    BY TypesOfInv DEF QueueSound
  <2>1. Queued /\ queue \in Seq(Blocks)
    BY DEF Inv, Good, Typed
  <2> QED
    BY <2>1 DEF Queued, Within
<1> QED
  BY <1>1, Invariant, PTL

\* A request that is off the queue is on the way of a thread that will drop the
\* last reference: with every way a request ends (monitor.cc:59-71,
\* request.cc:144-147, 172-178, rascal_getaddr.cc, rascal_gethost.cc), none is left over.
THEOREM NoRequestLeaks == Spec => []NoLeak
<1>1. Inv => NoLeak
  <2> SUFFICES ASSUME Inv, ~Corrupt, NEW b \in Blocks, Exists(b), ~req[b].listed
               PROVE  \E t \in Threads : at[t] = b /\ pc[t] \in EndPoints
    BY DEF NoLeak
  <2>1. CASE \E t \in Threads : at[t] = b /\ pc[t] \in {"drop", "delete"}
    BY <2>1 DEF EndPoints
  <2>2. CASE Holders(b) # {}
    BY <2>2 DEF Holders, Holding, EndPoints, Threads
  <2> QED
    BY <2>1, <2>2 DEF Inv, Good, Reachable
<1> QED
  BY <1>1, Invariant, PTL

\* The reference that rascal_cancel takes keeps the request in memory until the
\* client has given it back, whichever thread ends the request meanwhile.
THEOREM CancelIsSafe == Spec => []CancelSafe
<1>1. Inv => CancelSafe
  BY DEF Inv
<1> QED
  BY <1>1, Invariant, PTL

\* RO_DNS_RETRY bounds what is sent for a request (monitor.cc:54-79), although
\* no mutex guards the rcount++ of flush() (request.cc:96-105), which the
\* constructor and the monitor may run at the same time.
THEOREM SendsAreBounded == Spec => []SendBound
<1>1. Inv => SendBound
  BY DEF Inv, Bounds, SendBound
<1> QED
  BY <1>1, Invariant, PTL

\* Only the destructor frees a request.
LEMMA OnlyDeletes ==
  ASSUME Sound, Calm, Next, NEW b \in Blocks, Exists(b), ~Exists(b)'
  PROVE  \E t \in Threads : pc[t] = "delete" /\ at[t] = b
<1> USE DEF Sound, Good
<1> SUFFICES ASSUME \A t \in Threads : ~(pc[t] = "delete" /\ at[t] = b)
             PROVE  req'[b].exists = req[b].exists
  BY DEF Exists
<1>1. ASSUME NEW t \in Threads, Continue(t)
      PROVE  req'[b].exists = req[b].exists
  <2>1. CASE Flush(t)
    <3>1. CASE Send(t)
      BY <3>1, SendEffect
    <3>2. CASE Count(t)
      BY <3>2 DEF Count
    <3>3. CASE Store(t)
      BY <3>3, StoreEffect DEF OtherBlocks, Kept
    <3>4. CASE Wake(t)
      BY <3>4, WakeEffect
    <3> QED
      BY <2>1, <3>1, <3>2, <3>3, <3>4 DEF Flush
  <2>2. CASE Ending(t)
    <3>1. CASE Call(t)
      BY <3>1, CallEffect DEF OtherBlocks, Kept
    <3>2. CASE Drop(t)
      BY <3>2, DropEffect DEF OtherBlocks, Kept
    <3>3. CASE Release(t)
      BY <3>3, ReleaseEffect DEF OtherBlocks, Kept
    <3>4. CASE Delete(t)
      <4>1. at[t] # b
        BY <3>4 DEF Delete
      <4> QED
        BY <3>4, <4>1, DeleteEffect DEF OtherBlocks, Kept
    <3> QED
      BY <2>2, <3>1, <3>2, <3>3, <3>4 DEF Ending
  <2>3. CASE Refuse(t)
    BY <2>3 DEF Refuse
  <2>4. CASE Incref
    <3>1. Worker \in Threads
      BY DEF Threads
    <3>2. pc[Worker] = "picked" /\ at[Worker] \in Blocks
      BY <2>4, <3>1, AtRequest DEF Incref
    <3>3. at' = [at EXCEPT ![Worker] = at[Worker]]
      BY <2>4, <3>1 DEF Incref, Typed
    <3> QED
      BY <2>4, <3>1, <3>2, <3>3, IncrefEffect DEF Incref, OtherBlocks, Kept
  <2>5. CASE Sleep \/ ReadHead \/ Enter \/ Again \/ Visit \/ Leave
    BY <2>5 DEF Sleep, ReadHead, Enter, Again, Visit, Leave
  <2> QED
    BY <1>1, <2>1, <2>2, <2>3, <2>4, <2>5 DEF Continue
<1>2. ASSUME NEW c \in Clients, NEW x \in Blocks, New(c, x)
      PROVE  req'[b].exists = req[b].exists
  BY <1>2, NewEffect DEF OtherBlocks, Kept, Exists
<1>3. ASSUME NEW c \in Clients, NEW x \in Blocks, Lookup(c, x)
      PROVE  req'[b].exists = req[b].exists
  <2>1. c \in Threads
    BY DEF Threads
  <2> QED
    BY <1>3, <2>1, IncrefEffect DEF Lookup, OtherBlocks, Kept
<1>4. ASSUME (\E x \in Blocks : Pick(x) \/ Expire(x)) \/ SpuriousWake \/ NsCloses
      PROVE  req'[b].exists = req[b].exists
  BY <1>4 DEF Pick, Expire, SpuriousWake, NsCloses
<1> QED
  BY <1>1, <1>2, <1>3, <1>4 DEF Next

\* A client that was told the id of its request is called back before the
\* request is gone (rascal_getaddr.cc, rascal_gethost.cc): the reply, the
\* monitor and rascal_cancel call it before they let go, and the constructor
\* that finds no name server has told nobody.
THEOREM NobodyIsForgotten == Spec => NoSilentEnd
<1>1. Inv /\ [Next]_vars =>
        [\A b \in Blocks : Exists(b) /\ ~Exists(b)' => past[b].calls > 0 \/ ~past[b].known]_vars
  <2> SUFFICES ASSUME Inv, Next, NEW b \in Blocks, Exists(b), ~Exists(b)'
               PROVE  past[b].calls > 0 \/ ~past[b].known
    OBVIOUS
  <2>1. Sound /\ Calm
    BY StepGood
  <2>2. PICK t \in Threads : pc[t] = "delete" /\ at[t] = b
    BY <2>1, OnlyDeletes
  <2> QED
    BY <2>1, <2>2 DEF Sound, Good, Deletions
<1> QED
  BY <1>1, Invariant, PTL DEF Spec, NoSilentEnd
=============================================================================
