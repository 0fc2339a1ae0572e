---------------------------- MODULE NtConnection ----------------------------
(***************************************************************************)
(* A connection of the NT port (nt/), its overlapped operations, and the   *)
(* threads that serve them.                                                *)
(*                                                                         *)
(* Whatever a connection does is an object of its own, derived from class  *)
(* overlapped, that holds a reference to the connection while it lives.    *)
(* Operations on stream sockets complete at a port that workers wait on    *)
(* (nt/iocp.cc).  Those on datagram sockets, and connection attempts, go   *)
(* through one more thread (nt/connectex.cc), which starts them, or        *)
(* watches them, and is where their completion routines run.               *)
(*                                                                         *)
(* `kind' is what the connection is: "stream" is made by rascal_connect or *)
(* accepted by a listener, "listener" by rascal_accept, "dgram" by         *)
(* rascal_connect with udp.                                                *)
(*                                                                         *)
(* A step is what a thread does under the connection's mutex, or between   *)
(* two accesses to what it shares.  The buffer of received data is left    *)
(* out (module Buffers).  External: the completion of an operation, and    *)
(* the outcome of a connection attempt.                                    *)
(*                                                                         *)
(* The thread that calls rascal_connect or rascal_accept holds no          *)
(* reference to what it makes.  That may be destroyed under it, or it may  *)
(* delete it under others; there the behaviour ends (Corrupt).             *)
(***************************************************************************)
EXTENDS Integers, Sequences, FiniteSets
LOCAL INSTANCE SequencesExt
LOCAL INSTANCE FiniteSetsExt

CONSTANTS Workers, Ex, Maker, App, Nobody,
          Kinds,        \* the kinds that are checked
          MaxBatch,     \* what one operation takes of a stream: 2048 bytes in the code
          MaxOps,       \* bound: operations at a time
          MaxOut        \* bound: what the application writes

ASSUME NtAssumption == /\ Kinds \subseteq {"stream", "listener", "dgram"}
                       /\ MaxBatch \in Nat \ {0} /\ MaxOut \in Nat
                       /\ MaxOps \in Nat \ {0, 1}        \* a listener begins two
                       /\ Ex # App /\ Maker \notin {Ex, App} /\ Nobody \notin {Ex, Maker, App}
                       /\ Workers \cap {Ex, Maker, App, Nobody} = {}

Threads == Workers \cup {Ex, Maker, App}
Ops     == 1 .. MaxOps

VARIABLES
  kind, alive,          \* "none", "live", "freed", or "deleted" by its maker
  refc, cancelled, sock,\* sock is "open" or "closed"
  writing, mx,          \* is_writing; who holds the mutex
  wrb, sent, written,   \* the buffer, what the kernel took, how much was written
  ops,                  \* the operations
  net, job,             \* the outcome of the attempt; the event that tells the thread of it
  pc, at, mine,         \* a thread, the operation it handles, one that it constructs
  opened                \* the dispatcher was told of the connection

conn    == <<kind, alive, refc, cancelled, sock>>
out     == <<writing, mx, wrb, sent, written>>
threads == <<pc, at, mine>>
vars    == <<conn, out, ops, net, job, threads, opened>>

NoOp == [type |-> "none", stage |-> "none", result |-> "none", data |-> << >>]
Op(type, stage, data) == [type |-> type, stage |-> stage, result |-> "none", data |-> data]

Init ==
  /\ kind \in Kinds /\ alive = "none" /\ refc = 0 /\ cancelled = FALSE /\ sock = "open"
  /\ writing = FALSE /\ mx = Nobody /\ wrb = << >> /\ sent = << >> /\ written = 0
  /\ ops = [o \in Ops |-> NoOp]
  /\ net = "none"
  /\ job \in (IF kind = "stream" THEN BOOLEAN ELSE {FALSE})   \* it is shared, and never reset
  /\ pc = [t \in Threads |-> "idle"] /\ at = [t \in Threads |-> 0] /\ mine = [t \in Threads |-> 0]
  /\ opened = FALSE

----------------------------------------------------------------------------
(* Helpers.                                                                *)

Goto(t, p) == pc' = [pc EXCEPT ![t] = p]
Free       == {o \in Ops : ops[o].type = "none"}
\* overlapped::overlapped.
Taken(o, op) == ops' = [ops EXCEPT ![o] = op] /\ refc' = refc + 1

\* Faulty: the count is not looked at.
DecrefEarly == refc' = refc - 1 /\ alive' = IF cancelled THEN "freed" ELSE alive

\* object::decref, with the rest of a destructor or of a pobject.
Decref == /\ refc' = refc - 1
          /\ alive' = IF refc = 1 /\ cancelled THEN "freed" ELSE alive

----------------------------------------------------------------------------
(* The birth.                                                              *)

Born(status) == alive = "none" /\ alive' = status /\ UNCHANGED <<kind, cancelled, sock, out, at, mine>>

\* connect() or accept() failed: the maker deletes what nobody else knows.
Unmade == Born("deleted") /\ UNCHANGED <<refc, ops, net, job, pc, opened>>

\* iocp::connect sends the attempt to the other thread.
Attempt == Op("connect", "message", << >>)

\* rascal_connect: it has yet to read the id of what may be gone by then.
Connect ==
  /\ kind = "stream"
  /\ \/ Unmade
     \/ Born("live") /\ Taken(1, Attempt) /\ Goto(Maker, "end") /\ UNCHANGED <<net, job, opened>>

\* on_accept: made by the worker that handles an acceptor of its listener; the
\* dispatcher takes the connection, or declines it.
OnAccept ==
  /\ kind = "stream" /\ Born("live") /\ opened' = TRUE
  /\ \E w \in Workers, p \in {"spawn_reader", "test"} : Goto(w, p)
  /\ net' = "ok" /\ job' = TRUE         \* connected: neither matters any more
  /\ UNCHANGED <<ops, refc>>

\* connection_st::accept starts several acceptors, 16 in the code; one is enough.
Listen ==
  /\ kind = "listener"
  /\ \/ Unmade
     \/ \E n \in 1 .. 2 :
          /\ Born("live") /\ refc' = n
          /\ ops' = [o \in Ops |-> IF o <= n THEN Op("accept", "kernel", << >>) ELSE ops[o]]
          /\ UNCHANGED <<net, job, pc, opened>>

\* connection_dg::connect asks the dispatcher, which gets the id, and starts to
\* read if it takes the connection.
ConnectDg ==
  /\ kind = "dgram"
  /\ \/ Unmade
     \/ /\ Born("live") /\ opened' = TRUE
        /\ \E p \in {"spawn_reader", "delete"} : Goto(Maker, p)
        /\ UNCHANGED <<refc, ops, net, job>>

\* If not, rascal_connect deletes it, whoever has found it meanwhile.
Delete ==
  /\ pc[Maker] = "delete" /\ Goto(Maker, "idle") /\ alive' = "deleted"
  /\ UNCHANGED <<kind, refc, cancelled, sock, out, ops, net, job, at, mine, opened>>

Create == Connect \/ OnAccept \/ Listen \/ ConnectDg

----------------------------------------------------------------------------
(* connection::cancel, by whoever calls it.                                *)

\* Where cancel() returns to: a constructor deletes what it constructs.
Returned(t) == IF mine[t] # 0 THEN "drop" ELSE "end"

\* The dispatcher gets rop_close before the flag is set ..
Test(t) ==
  /\ pc[t] = "test" /\ Goto(t, IF cancelled THEN Returned(t) ELSE "shut")
  /\ UNCHANGED <<conn, out, ops, net, job, at, mine, opened>>

\* .. and the socket closed.
Shut(t) ==
  /\ pc[t] = "shut" /\ Goto(t, Returned(t))
  /\ cancelled' = TRUE /\ sock' = "closed"
  /\ UNCHANGED <<kind, alive, refc, out, ops, net, job, at, mine, opened>>

\* `delete this' in a constructor.
Drop(t) ==
  /\ pc[t] = "drop" /\ Goto(t, "end")
  /\ Decref /\ ops' = [ops EXCEPT ![mine[t]] = NoOp] /\ mine' = [mine EXCEPT ![t] = 0]
  /\ UNCHANGED <<kind, cancelled, sock, out, net, job, at, opened>>

\* The worker, or the completion routine, deletes the operation; a call of the
\* application leaves the mutex and gives up its reference.
End(t) ==
  /\ pc[t] = "end" /\ Goto(t, "idle")
  /\ mx' = IF mx = t THEN Nobody ELSE mx
  /\ at' = [at EXCEPT ![t] = 0]
  /\ IF at[t] = 0 /\ t # App THEN UNCHANGED <<alive, refc, ops>>
     ELSE Decref /\ ops' = IF t = App THEN ops ELSE [ops EXCEPT ![at[t]] = NoOp]
  /\ UNCHANGED <<kind, cancelled, sock, writing, wrb, sent, written, net, job, mine, opened>>

----------------------------------------------------------------------------
(* Constructors of operations.                                             *)

\* Faulty: an operation that cannot begin is deleted, and that is all.
BegunQuiet(t, o, op, next) ==
  /\ Goto(t, next) /\ UNCHANGED mine
  /\ (sock = "open" /\ Taken(o, op)) \/ UNCHANGED <<ops, refc>>

\* An operation begins, or fails at once: then the constructor cancels the
\* connection and deletes the operation.
Begun(t, o, op, next) ==
  \/ sock = "open" /\ Taken(o, op) /\ Goto(t, next) /\ UNCHANGED mine
  \/ Taken(o, [op EXCEPT !.stage = "new"]) /\ Goto(t, "test") /\ mine' = [mine EXCEPT ![t] = o]

\* iocp::post_ex sends an operation to the other thread.  If that fails nobody
\* is told, and the operation stays as it is.
Posted == {"message", "leaked"}

\* oreader, oreader_dg.
SpawnReader(t) ==
  /\ pc[t] = "spawn_reader"
  /\ \E o \in Free : o = Min(Free) /\
       IF kind = "dgram"
       THEN \E s \in Posted : Taken(o, Op("read", s, << >>)) /\ Goto(t, "end") /\ UNCHANGED mine
       ELSE Begun(t, o, Op("read", "kernel", << >>), "end")
  /\ UNCHANGED <<kind, alive, cancelled, sock, out, net, job, at, opened>>

\* oaccept, in the handler of another one: a failure goes unnoticed.
SpawnAcceptor(t) ==
  /\ pc[t] = "spawn_acceptor" /\ Goto(t, "end")
  /\ \/ \E o \in Free : o = Min(Free) /\ sock = "open" /\ Taken(o, Op("accept", "kernel", << >>))
     \/ UNCHANGED <<refc, ops>>
  /\ UNCHANGED <<kind, alive, cancelled, sock, out, net, job, at, mine, opened>>

\* What one operation takes from the buffer: a stream's bytes, one datagram.
Batch == IF kind = "dgram" THEN 1 ELSE IF Len(wrb) < MaxBatch THEN Len(wrb) ELSE MaxBatch

\* Faulty: the flag is not tested.
SpawnWriterBusy(t) ==
  /\ pc[t] = "spawn_writer" /\ mx \in {t, Nobody}
  /\ IF wrb = << >> THEN Goto(t, "end") /\ UNCHANGED <<refc, ops, writing, wrb, mine>>
     ELSE \E o \in Free :
            /\ o = Min(Free) /\ Taken(o, Op("write", "new", SubSeq(wrb, 1, Batch)))
            /\ wrb' = SubSeq(wrb, Batch + 1, Len(wrb)) /\ writing' = TRUE
            /\ mine' = [mine EXCEPT ![t] = o] /\ Goto(t, "start")
  /\ UNCHANGED <<kind, alive, cancelled, sock, mx, sent, written, net, job, at, opened>>

\* owriter, owriter_dg, up to the end of the mutex: unless the connection is
\* being written to, or has nothing to write.
SpawnWriter(t) ==
  /\ pc[t] = "spawn_writer" /\ mx \in {t, Nobody}
  /\ IF writing \/ wrb = << >> THEN Goto(t, "end") /\ UNCHANGED <<refc, ops, writing, wrb, mine>>
     ELSE \E o \in Free :
            /\ o = Min(Free) /\ Taken(o, Op("write", "new", SubSeq(wrb, 1, Batch)))
            /\ wrb' = SubSeq(wrb, Batch + 1, Len(wrb)) /\ writing' = TRUE
            /\ mine' = [mine EXCEPT ![t] = o] /\ Goto(t, "start")
  /\ UNCHANGED <<kind, alive, cancelled, sock, mx, sent, written, net, job, at, opened>>

\* WriteFile, for which the socket must be connected.
StartWrite(t) ==
  /\ pc[t] = "start" /\ kind # "dgram"
  /\ \/ /\ sock = "open" /\ net = "ok" /\ ops' = [ops EXCEPT ![mine[t]].stage = "kernel"]
        /\ mine' = [mine EXCEPT ![t] = 0] /\ Goto(t, "end")
     \/ Goto(t, "test") /\ UNCHANGED <<ops, mine>>
  /\ UNCHANGED <<conn, out, net, job, at, opened>>

PostWrite(t) ==
  /\ pc[t] = "start" /\ kind = "dgram"
  /\ \E s \in Posted : ops' = [ops EXCEPT ![mine[t]].stage = s]
  /\ mine' = [mine EXCEPT ![t] = 0] /\ Goto(t, "end")
  /\ UNCHANGED <<conn, out, net, job, at, opened>>

----------------------------------------------------------------------------
(* Handlers: on_event of the operations, and the connection's on_connect,  *)
(* on_read and on_write.                                                   *)

\* iocp::peek gives a worker what completed; for datagrams the system calls the
\* completion routine in the thread that began the operation.
Dequeued(t, o, type) ==
  /\ pc[t] = "idle" /\ ops[o].stage = "done" /\ ops[o].type = type
  /\ t \in (IF kind = "dgram" THEN {Ex} ELSE Workers)
  /\ ops' = [ops EXCEPT ![o].stage = "run"] /\ at' = [at EXCEPT ![t] = o]
  /\ UNCHANGED <<conn, out, net, job, mine>>

Result(o) == ops[o].result

\* on_connect: the dispatcher takes the connection, or declines it.
OnConnect(t) == (Goto(t, "spawn_reader") \/ Goto(t, "test")) /\ opened' = TRUE

\* A failed operation cancels the connection.
TakeConnect(t, o) ==
  /\ Dequeued(t, o, "connect")
  /\ \/ Result(o) = "failed" /\ Goto(t, "test") /\ UNCHANGED opened
     \/ Result(o) = "ok" /\ OnConnect(t)

\* An acceptor begins the next one, whatever its result.
TakeAccept(t, o) == Dequeued(t, o, "accept") /\ Goto(t, "spawn_acceptor") /\ UNCHANGED opened

TakeRead(t, o) ==
  /\ kind = "stream" /\ Dequeued(t, o, "read") /\ UNCHANGED opened
  /\ Goto(t, IF Result(o) = "failed" THEN "test" ELSE "spawn_reader")

\* A datagram from somebody else is ignored.
TakeDatagram(t, o) ==
  /\ kind = "dgram" /\ Dequeued(t, o, "read") /\ UNCHANGED opened
  /\ \/ Result(o) = "failed" /\ Goto(t, "test")
     \/ Result(o) = "stray" /\ Goto(t, "end")
     \/ Result(o) = "ok" /\ Goto(t, "spawn_reader")

TakeWrite(t, o) ==
  /\ Dequeued(t, o, "write") /\ UNCHANGED opened
  /\ Goto(t, IF Result(o) = "failed" THEN "test" ELSE "written")

\* Faulty: the writer is not started again.
WrittenIdle(t) ==
  /\ pc[t] = "written" /\ mx = Nobody
  /\ writing' = FALSE /\ Goto(t, "end")
  /\ UNCHANGED <<conn, mx, wrb, sent, written, ops, net, job, at, mine, opened>>

\* The end of on_write: not busy any more, and a writer for what has come.
Written(t) ==
  /\ pc[t] = "written" /\ mx = Nobody
  /\ writing' = FALSE /\ Goto(t, "spawn_writer")
  /\ UNCHANGED <<conn, mx, wrb, sent, written, ops, net, job, at, mine, opened>>

----------------------------------------------------------------------------
(* The thread of connectex.cc.                                             *)

\* RM_BOUNCE: it begins a datagram operation.  One that fails cancels the
\* connection, and is never deleted.
Bounced(o, type) ==
  /\ pc[Ex] = "idle" /\ kind = "dgram" /\ ops[o].stage = "message" /\ ops[o].type = type
  /\ \/ sock = "open" /\ ops' = [ops EXCEPT ![o].stage = "kernel"] /\ UNCHANGED pc
     \/ ops' = [ops EXCEPT ![o].stage = "leaked"] /\ Goto(Ex, "test")
  /\ UNCHANGED <<conn, out, net, job, at, mine, opened>>

\* WSARecvFrom, WSASendTo
BounceRead(o)  == Bounced(o, "read")
BounceWrite(o) == Bounced(o, "write")

\* The outcome of an attempt goes to the port, or is lost if it cannot.  If the
\* socket does not tell, the attempt is deleted, and nobody is told.
Settle(o) ==
  \/ /\ sock = "open" /\ net # "none"
     /\ \E s \in {"done", "leaked"} : ops' = [ops EXCEPT ![o].stage = s, ![o].result = net]
     /\ UNCHANGED <<alive, refc>>
  \/ ops' = [ops EXCEPT ![o] = NoOp] /\ Decref

\* RM_CONNECTION: an attempt without an outcome goes to the list ..
WatchNew(o) ==
  /\ pc[Ex] = "idle" /\ ops[o].type = "connect" /\ ops[o].stage = "message"
  /\ \/ sock = "open" /\ net = "none"
        /\ ops' = [ops EXCEPT ![o].stage = "list"] /\ UNCHANGED <<alive, refc>>
     \/ Settle(o)
  /\ UNCHANGED <<kind, cancelled, sock, out, net, job, threads, opened>>

\* .. which is walked when the event is set.
WatchList(o) ==
  /\ pc[Ex] = "idle" /\ ops[o].type = "connect" /\ ops[o].stage = "list" /\ job
  /\ Settle(o)
  /\ UNCHANGED <<kind, cancelled, sock, out, net, job, threads, opened>>

----------------------------------------------------------------------------
(* The kernel.                                                             *)

Outcome ==
  /\ kind = "stream" /\ sock = "open" /\ net = "none" /\ \E o \in Ops : ops[o].type = "connect"
  /\ net' \in {"ok", "failed"} /\ job' = TRUE
  /\ UNCHANGED <<conn, out, ops, threads, opened>>

Complete(o) ==
  /\ ops[o].stage = "kernel"
  /\ \E r \in (IF sock = "closed" THEN {"failed"}
               ELSE {"ok", "failed"} \cup IF kind = "dgram" /\ ops[o].type = "read" THEN {"stray"} ELSE {}) :
       /\ ops' = [ops EXCEPT ![o].stage = "done", ![o].result = r]
       /\ sent' = IF r = "ok" THEN sent \o ops[o].data ELSE sent
  /\ UNCHANGED <<conn, writing, mx, wrb, written, net, job, threads, opened>>

----------------------------------------------------------------------------
(* The application.                                                        *)

\* It has the id from the call that made the connection, or its dispatcher has.
Known == alive = "live" /\ (opened \/ pc[Maker] = "idle")

\* rascal_write: a writer is spawned under the mutex, unless there is one.
Write ==
  /\ pc[App] = "idle" /\ Known /\ kind # "listener" /\ mx = Nobody /\ written < MaxOut
  /\ refc' = refc + 1 /\ mx' = App
  /\ written' = written + 1 /\ wrb' = Append(wrb, written')
  /\ Goto(App, IF writing THEN "end" ELSE "spawn_writer")
  /\ UNCHANGED <<kind, alive, cancelled, sock, writing, sent, ops, net, job, at, mine, opened>>

\* rascal_cancel.
Cancel ==
  /\ pc[App] = "idle" /\ Known /\ refc' = refc + 1 /\ Goto(App, "test")
  /\ UNCHANGED <<kind, alive, cancelled, sock, out, ops, net, job, at, mine, opened>>

----------------------------------------------------------------------------
\* A thread that goes on with a connection and holds no reference: the worker
\* that accepted it, until it has started to read, and its maker, until it has
\* returned the id.  The dispatcher has seen the id, so that anybody may cancel,
\* and destroy, the connection under it.  Or the maker deletes it under those
\* that have a reference.  What a thread does with what was destroyed is not
\* modelled: there the behaviour ends.
Unheld(t) == \/ t \in Workers /\ at[t] = 0 /\ mine[t] = 0 /\ pc[t] \notin {"idle", "end"}
             \/ t = Maker /\ pc[t] # "idle"
Corrupt   == \/ alive \in {"freed", "deleted"} /\ \E t \in Threads : Unheld(t)
             \/ alive = "deleted" /\ refc > 0

\* A thread that is in a handler, or in a call of the application.
Run(t) ==
  \/ Test(t) \/ Shut(t) \/ Drop(t) \/ End(t)
  \/ SpawnReader(t) \/ SpawnAcceptor(t) \/ SpawnWriter(t) \/ StartWrite(t) \/ PostWrite(t)
  \/ Written(t)

\* A thread that has nothing to do turns to an operation.
Serve(o) == \/ \E t \in Threads : \/ TakeConnect(t, o) \/ TakeAccept(t, o) \/ TakeRead(t, o)
                                   \/ TakeDatagram(t, o) \/ TakeWrite(t, o)
            \/ BounceRead(o) \/ BounceWrite(o) \/ WatchNew(o) \/ WatchList(o)

Next == /\ ~Corrupt
        /\ \/ Create \/ Delete \/ Write \/ Cancel \/ Outcome
           \/ \E t \in Threads : Run(t)
           \/ \E o \in Ops : Serve(o) \/ Complete(o)

Spec == Init /\ [][Next]_vars

----------------------------------------------------------------------------
(* Properties.                                                             *)

Stages == {"none", "new", "message", "list", "kernel", "done", "run", "leaked"}

\* The type invariant.
TypeOK ==
  /\ alive \in {"none", "live", "freed", "deleted"} /\ refc \in 0 .. MaxOps + 1
  /\ {cancelled, writing, job, opened} \subseteq BOOLEAN /\ sock \in {"open", "closed"}
  /\ mx \in {Nobody, App} /\ written \in 0 .. MaxOut /\ {wrb, sent} \subseteq Seq(1 .. MaxOut)
  /\ \A o \in Ops : /\ ops[o].type \in {"none", "connect", "accept", "read", "write"}
                    /\ ops[o].stage \in Stages /\ ops[o].data \in Seq(1 .. MaxOut)
                    /\ ops[o].result \in {"none", "ok", "failed", "stray"}
  /\ net \in {"none", "ok", "failed"}
  /\ at \in [Threads -> Ops \cup {0}] /\ mine \in [Threads -> Ops \cup {0}]

Live(type) == {o \in Ops : ops[o].type = type}

\* The references are those of the operations and of the application's call;
\* while there is one, and while a thread handles it, the connection is not
\* destroyed under them, whoever cancels it, and the only one that may delete it
\* without asking is the maker of a datagram connection that was declined.
\* (Threads that are Unheld have no reference, and are not protected: the worker
\* that accepted it, and the maker.  With the typing.)
RefsExact ==
  /\ TypeOK
  /\ refc = Cardinality({o \in Ops : ops[o].type # "none"}) + (IF pc[App] = "idle" THEN 0 ELSE 1)
  /\ refc > 0 \/ (\E t \in Threads : at[t] # 0 \/ mine[t] # 0) =>
       alive = "live" \/ (alive = "deleted" /\ kind = "dgram" /\ opened)

\* Operations that write, up to the moment when on_write clears the flag or the
\* connection is cancelled.
WriteEnds(o) == IF ops[o].result = "failed" THEN {"test", "shut"} ELSE {"written"}
Writers == {o \in Live("write") :
              ops[o].stage = "run" => \E t \in Threads : at[t] = o /\ pc[t] \in WriteEnds(o)}

Upto(n) == [i \in 1 .. n |-> i]

\* At most one operation writes, and the flag says so; what it carries, and
\* what waits, follows what the kernel took without a gap: nothing that is
\* written while the flag changes hands is lost, sent twice, or overtaken.
WrittenInOrder ==
  ~cancelled =>
    LET busy == {o \in Writers : ops[o].result \in {"none", "failed"}} IN
    /\ Cardinality(Writers) <= 1 /\ (writing <=> Writers # {} )
    /\ \A o \in busy : sent \o ops[o].data \o wrb = Upto(written)
    /\ busy = {} => sent \o wrb = Upto(written)

Ending == \E t \in Threads : pc[t] \in {"test", "shut"}

\* A stream that is open has one reader, or a thread that is about to post the
\* next: it does not go deaf, and no two threads read for it.
ReaderKept ==
  LET posted == {o \in Live("read") : ops[o].stage # "run"}
      coming == {t \in Threads : pc[t] = "spawn_reader" }
      n      == Cardinality(posted) + Cardinality(coming)
  IN  /\ n <= 1
      /\ kind = "stream" /\ opened /\ ~cancelled /\ ~Ending => n = 1

\* Nothing will happen any more, unless the peer or the application does it:
\* no thread is busy, no message or completion waits for one, and the kernel
\* holds nothing that it has to complete, as all it holds for a closed socket.
Settled == /\ \A t \in Threads : pc[t] = "idle"
           /\ \A o \in Ops : /\ ops[o].stage \notin {"new", "message", "done", "run"}
                             /\ ops[o].stage = "list" => ~job
                             /\ ops[o].stage = "kernel" => sock = "open" /\ ops[o].type # "write"

\* When things settle, a connection that works has nothing left to write,
\* however the writes met the completions (on_write, and the flag is_writing),
\* and a connection that was cancelled is destroyed.  The former is not so if
\* the message with the writer was lost (post_ex), for is_writing stays set.  The
\* latter stays if nobody held it when it was cancelled, as an accepted one that
\* the dispatcher declines, if an operation was lost on its way between the
\* threads or could not be begun by the other one, or if it was connecting and
\* nothing wakes the thread of connectex.cc.
Leaked == {o \in Ops : ops[o].stage = "leaked"}

Drained ==
  Settled =>
    IF ~cancelled THEN wrb = << >> \/ Leaked \cap Live("write") # {}
    ELSE alive # "live" \/ refc = 0 \/ Leaked # {} \/ \E o \in Ops : ops[o].stage = "list"
=============================================================================
