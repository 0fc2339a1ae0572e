----------------------------- MODULE Connection -----------------------------
(***************************************************************************)
(* A stream connection of the BSD port (bsd/connection.cc) from the return *)
(* of rascal_connect, or from an accepted socket, to its destruction.      *)
(*                                                                         *)
(*   - Workers run connection::work in a loop: pick the connection with    *)
(*     list(), select(), serve what is ready, release it.                  *)
(*   - The application reads, writes and cancels from any thread, inside   *)
(*     its dispatcher or outside.                                          *)
(*   - The network: the kernel's socket and the peer, as work() sees them. *)
(*                                                                         *)
(* A step is what runs under the mutex of the connection, one call of the  *)
(* dispatcher with the assignments that follow it, or one system call.     *)
(* Reference counting is that of Object: here the workers that picked the  *)
(* connection hold it, and a call of the application holds it for one      *)
(* step.  The filter of list() tests the connection, may call the          *)
(* dispatcher, and takes its reference last: until then nothing keeps the  *)
(* connection, and a cancellation destroys it under the filter.  A worker  *)
(* that goes on with freed memory is "astray": its behaviour is undefined, *)
(* and followed no further.  A byte is its number in the stream it belongs *)
(* to.  getsockopt() is taken not to fail on an open socket, so the branch *)
(* connection.cc:314-326 changes nothing.                                  *)
(***************************************************************************)
EXTENDS Integers, Sequences, FiniteSets

CONSTANTS Workers, Nobody,
          Chunk,          \* bytes offered to one send(): 4096 in the code
          SndBuf,         \* capacity of the socket's send buffer
          MaxOut, MaxIn,  \* bounds: bytes written by the application, by the peer
          Interrupts      \* whether select() may fail, with EINTR say

ASSUME ConnectionAssumption == /\ Nobody \notin Workers
                               /\ {Chunk, SndBuf} \subseteq Nat \ {0}
                               /\ {MaxOut, MaxIn} \subseteq Nat
                               /\ Interrupts \in BOOLEAN

VARIABLES
  \* the connection
  alive,        \* not destroyed
  cancelled, selected,
  mode,         \* cm_connect as "connect", cm_normal as "normal"
  cmx,          \* owner of connection::mx
  rd, wr,       \* the data buffers
  \* the workers
  pc,
  watch,        \* it asked select() for writability
  ready,        \* what select() reported: "r", "w"
  did,          \* on_read, on_write: `success', `closed', and an error
  \* the socket and the peer
  sock,         \* "connecting", "up", or "failed"
  inbox, eof,   \* received by the kernel, and the end of the peer's stream
  room,         \* free bytes of the send buffer
  expired,      \* RO_CONN_TIMEOUT has passed
  \* history
  written,      \* bytes the application wrote
  sent,         \* bytes the socket accepted
  arrived,      \* bytes the peer wrote
  taken,        \* bytes the application read
  log           \* which events the dispatcher got

conn == <<alive, cancelled, selected, mode, cmx, rd, wr>>
work == <<pc, watch, ready, did>>
net  == <<sock, inbox, eof, room, expired>>
hist == <<written, sent, arrived, taken, log>>
vars == <<conn, work, net, hist>>

First(s, n) == SubSeq(s, 1, n)
Rest(s, n)  == SubSeq(s, n + 1, Len(s))
Least(a, b) == IF a < b THEN a ELSE b

\* Where a worker has no reference: outside, inside the filter, or lost.
Filtering(w) == pc[w] \in {"pulse", "passed"}
Without      == {"idle", "pulse", "passed", "astray"}
Holders      == {w \in Workers : pc[w] \notin Without}

\* An outgoing connection, or an accepted one.
Init ==
  /\ \/ mode = "connect" /\ sock = "connecting"
     \/ mode = "normal" /\ sock = "up"
  /\ alive = TRUE /\ cancelled = FALSE /\ selected = FALSE
  /\ cmx = Nobody /\ rd = << >> /\ wr = << >>
  /\ pc = [w \in Workers |-> "idle"]
  /\ watch = [w \in Workers |-> FALSE]
  /\ ready = [w \in Workers |-> {}]
  /\ did = [w \in Workers |-> {}]
  /\ inbox = << >> /\ eof = FALSE /\ room = SndBuf /\ expired = FALSE
  /\ written = 0 /\ sent = << >> /\ arrived = 0 /\ taken = << >>
  /\ log = [open |-> mode = "normal", opens |-> 0, end |-> "no", after |-> {}, early |-> FALSE]

\* disp(..): the application's dispatcher gets an event.  The history keeps
\* whether the connection was reported open, how it was reported to end, and
\* what was reported afterwards.
Dispatch(event) ==
  log' = [open  |-> log.open \/ event = "connect",
          opens |-> IF event = "connect" THEN log.opens + 1 ELSE log.opens,
          end   |-> IF event \in {"timeout", "error", "close"} THEN event ELSE log.end,
          after |-> IF log.end = "no" THEN {} ELSE log.after \cup {<<log.end, event>>},
          early |-> log.early \/ (event \in {"read", "write"} /\ ~log.open)]

Goto(w, p) == pc' = [pc EXCEPT ![w] = p]

----------------------------------------------------------------------------
(* Faulty variants of the actions below: plausible slips, each of which    *)
(* some property of this module notices.  No specification uses them.      *)

\* Faulty: the filter does not look at `selected'.
FilterShared(w) ==
  /\ pc[w] = "idle" /\ \A v \in Workers : ~Filtering(v)
  /\ alive /\ ~cancelled
  /\ IF mode = "connect" /\ expired
     THEN Dispatch("timeout") /\ Goto(w, "pulse")
     ELSE Goto(w, "passed") /\ UNCHANGED log
  /\ UNCHANGED <<conn, watch, ready, did, net, written, sent, arrived, taken>>

\* Faulty: the filter does not call on_pulse().
FilterNoPulse(w) ==
  /\ pc[w] = "idle" /\ \A v \in Workers : ~Filtering(v)
  /\ alive /\ ~cancelled /\ ~selected
  /\ Goto(w, "passed")
  /\ UNCHANGED <<conn, watch, ready, did, net, hist>>

\* Faulty: only a connection attempt waits for writability.
PrepareConnecting(w) ==
  /\ pc[w] = "picked" /\ cmx = Nobody
  /\ watch' = [watch EXCEPT ![w] = mode = "connect"]
  /\ Goto(w, "select")
  /\ UNCHANGED <<conn, ready, did, net, hist>>

\* Faulty: the end of the stream is reported, and the connection not cancelled.
ReadCloseOnly(w) ==
  /\ pc[w] = "read close"
  /\ IF "closed" \in did[w] THEN Dispatch("close") ELSE UNCHANGED log
  /\ Goto(w, "write")
  /\ UNCHANGED <<conn, watch, ready, did, net, written, sent, arrived, taken>>

\* Faulty: a chunk that was sent in part is sent again.
SendRetries(w) ==
  LET size == Least(Chunk, Len(wr))
      k    == Least(size, room)
  IN
  /\ pc[w] = "send" /\ size > 0 /\ sock # "failed"
  /\ sent' = sent \o First(wr, k) /\ room' = room - k
  /\ wr' = IF k = size THEN Rest(wr, size) ELSE wr
  /\ did' = [did EXCEPT ![w] = @ \cup {"success"}]
  /\ UNCHANGED <<alive, cancelled, selected, mode, cmx, pc, rd, watch, ready, sock, inbox, eof, expired,
                 written, arrived, taken, log>>

\* Faulty: decref() does not delete a cancelled connection.
UnrefKeeps(w) ==
  /\ pc[w] = "unref"
  /\ Goto(w, "idle")
  /\ did' = [did EXCEPT ![w] = {}] /\ ready' = [ready EXCEPT ![w] = {}]
  /\ watch' = [watch EXCEPT ![w] = FALSE]
  /\ UNCHANGED <<alive, cancelled, selected, mode, cmx, rd, wr, net, hist>>

----------------------------------------------------------------------------
(* connection::work                                                        *)

\* list() with connection::filter, under the mutex of the list: one worker at
\* a time.  on_pulse reports a connection attempt that took too long ..
Filter(w) ==
  /\ pc[w] = "idle" /\ \A v \in Workers : ~Filtering(v)
  /\ alive /\ ~cancelled /\ ~selected
  /\ IF mode = "connect" /\ expired
     THEN Dispatch("timeout") /\ Goto(w, "pulse")
     ELSE Goto(w, "passed") /\ UNCHANGED log
  /\ UNCHANGED <<conn, watch, ready, did, net, written, sent, arrived, taken>>

\* .. and cancels it when the dispatcher returns; it is picked all the same.
Pulse(w) ==
  /\ pc[w] = "pulse"
  /\ IF alive THEN cancelled' = TRUE /\ Goto(w, "passed")
              ELSE Goto(w, "astray") /\ UNCHANGED cancelled
  /\ UNCHANGED <<alive, selected, mode, cmx, rd, wr, watch, ready, did, net, hist>>

\* The filter takes the reference, and sets the flag.
Take(w) ==
  /\ pc[w] = "passed"
  /\ IF alive THEN selected' = TRUE /\ Goto(w, "picked")
              ELSE Goto(w, "astray") /\ UNCHANGED selected
  /\ UNCHANGED <<alive, cancelled, mode, cmx, rd, wr, watch, ready, did, net, hist>>

\* need_to_write
Prepare(w) ==
  /\ pc[w] = "picked" /\ cmx = Nobody
  /\ watch' = [watch EXCEPT ![w] = mode = "connect" \/ wr # << >>]
  /\ Goto(w, "select")
  /\ UNCHANGED <<conn, ready, did, net, hist>>

Readable == inbox # << >> \/ eof \/ sock = "failed"
Writable == sock = "failed" \/ (sock = "up" /\ room > 0)

\* select() reports what is ready, or nothing after 100 ms.
Select(w) ==
  /\ pc[w] = "select"
  /\ ready' = [ready EXCEPT ![w] = {e \in {"r", "w"} : IF e = "r" THEN Readable
                                                      ELSE watch[w] /\ Writable}]
  /\ Goto(w, "read")
  /\ UNCHANGED <<conn, watch, did, net, hist>>

\* select() fails: work() returns, and leaves the connection as it is, still
\* selected and still referenced.  The worker is free, but has nothing to pick.
SelectFails(w) ==
  /\ Interrupts /\ pc[w] = "select"
  /\ Goto(w, "lost")
  /\ UNCHANGED <<conn, watch, ready, did, net, hist>>

\* on_read, under the mutex: recv() until there is nothing, the end of the
\* stream, or an error, which may come after some of the data.
OnRead(w) ==
  /\ pc[w] = "read" /\ cmx = Nobody
  /\ IF "r" \in ready[w] /\ ~cancelled
     THEN \E n \in IF sock = "failed" THEN 0 .. Len(inbox) ELSE {Len(inbox)} :
            /\ rd' = rd \o First(inbox, n)
            /\ inbox' = Rest(inbox, n)
            /\ did' = [did EXCEPT ![w] = (IF n > 0 THEN {"success"} ELSE {})
                          \cup (IF sock = "failed" THEN {"error"} ELSE IF eof THEN {"closed"} ELSE {})]
            /\ Goto(w, "read error")
     ELSE Goto(w, "write") /\ UNCHANGED <<rd, inbox, did>>
  /\ UNCHANGED <<alive, cancelled, selected, mode, cmx, wr, watch, ready, sock, eof, room, expired, hist>>

\* on_error: a rop_connect or a rop_close event with an error, then cancel().
OnError(w, here, next) ==
  /\ pc[w] = here
  /\ IF "error" \in did[w]
     THEN Dispatch("error") /\ cancelled' = TRUE
     ELSE UNCHANGED <<log, cancelled>>
  /\ Goto(w, next)
  /\ UNCHANGED <<alive, selected, mode, cmx, rd, wr, watch, ready, did, net, written, sent, arrived, taken>>

\* The first event of a connection attempt is rop_connect; the dispatcher may
\* refuse it, which cancels the connection and ends the handler.
Opened(w, here, when, next, out) ==
  /\ pc[w] = here
  /\ IF when /\ mode = "connect"
     THEN /\ Dispatch("connect")
          /\ \/ mode' = "normal" /\ Goto(w, next) /\ UNCHANGED cancelled
             \/ cancelled' = TRUE /\ Goto(w, out) /\ UNCHANGED mode
     ELSE Goto(w, next) /\ UNCHANGED <<log, mode, cancelled>>
  /\ UNCHANGED <<alive, selected, cmx, rd, wr, watch, ready, did, net, written, sent, arrived, taken>>

ReadOpened(w) == Opened(w, "read open", "success" \in did[w], "read data", "write")

\* rop_read, whether the data was all there was or not ..
ReadData(w) ==
  /\ pc[w] = "read data"
  /\ IF "success" \in did[w] THEN Dispatch("read") ELSE UNCHANGED log
  /\ Goto(w, "read close")
  /\ UNCHANGED <<conn, watch, ready, did, net, written, sent, arrived, taken>>

\* .. and a rop_close event at the end of the stream.
ReadClose(w) ==
  /\ pc[w] = "read close"
  /\ IF "closed" \in did[w]
     THEN Dispatch("close") /\ cancelled' = TRUE
     ELSE UNCHANGED <<log, cancelled>>
  /\ Goto(w, "write")
  /\ UNCHANGED <<alive, selected, mode, cmx, rd, wr, watch, ready, did, net, written, sent, arrived, taken>>

\* on_write takes the mutex ..
OnWrite(w) ==
  /\ pc[w] = "write" /\ cmx = Nobody
  /\ did' = [did EXCEPT ![w] = {}]
  /\ IF "w" \in ready[w] /\ ~cancelled
     THEN cmx' = w /\ Goto(w, "send")
     ELSE cmx' = cmx /\ Goto(w, "done")
  /\ UNCHANGED <<alive, cancelled, selected, mode, rd, wr, watch, ready, net, hist>>

\* .. and offers the socket one chunk after the other.  The socket takes what
\* it has room for, none of it if it is full (EWOULDBLOCK); the whole chunk
\* leaves the buffer.
Send(w) ==
  LET size == Least(Chunk, Len(wr))
      k    == Least(size, room)
  IN
  /\ pc[w] = "send"
  /\ \/ /\ size = 0
        /\ cmx' = Nobody /\ Goto(w, "write open")
        /\ UNCHANGED <<did, wr, sent, room>>
     \/ /\ size > 0 /\ sock = "failed"
        /\ did' = [did EXCEPT ![w] = @ \cup {"error"}]
        /\ cmx' = Nobody /\ Goto(w, "write error")
        /\ UNCHANGED <<wr, sent, room>>
     \/ /\ size > 0 /\ sock # "failed"
        /\ sent' = sent \o First(wr, k) /\ room' = room - k
        /\ wr' = Rest(wr, size)
        /\ did' = [did EXCEPT ![w] = @ \cup {"success"}]
        /\ UNCHANGED <<cmx, pc>>
  /\ UNCHANGED <<alive, cancelled, selected, mode, rd, watch, ready, sock, inbox, eof, expired,
                 written, arrived, taken, log>>

WriteOpened(w) == Opened(w, "write open", TRUE, "write data", "done")

\* rop_write: some of the data left the buffer.
WriteData(w) ==
  /\ pc[w] = "write data"
  /\ IF "success" \in did[w] THEN Dispatch("write") ELSE UNCHANGED log
  /\ Goto(w, "done")
  /\ UNCHANGED <<conn, watch, ready, did, net, written, sent, arrived, taken>>

\* "Release the connection to other threads": the flag first ..
Unselect(w) ==
  /\ pc[w] = "done"
  /\ selected' = FALSE
  /\ Goto(w, "unref")
  /\ UNCHANGED <<alive, cancelled, mode, cmx, rd, wr, watch, ready, did, net, hist>>

\* .. then the reference.
Unref(w) ==
  /\ pc[w] = "unref"
  /\ alive' = ~(cancelled /\ Holders = {w})
  /\ Goto(w, "idle")
  /\ did' = [did EXCEPT ![w] = {}] /\ ready' = [ready EXCEPT ![w] = {}]
  /\ watch' = [watch EXCEPT ![w] = FALSE]
  /\ UNCHANGED <<cancelled, selected, mode, cmx, rd, wr, net, hist>>

Worker(w) ==
  \/ Filter(w) \/ Pulse(w) \/ Take(w) \/ Prepare(w) \/ Select(w) \/ SelectFails(w)
  \/ OnRead(w) \/ OnError(w, "read error", "read open") \/ ReadOpened(w) \/ ReadData(w) \/ ReadClose(w)
  \/ OnWrite(w) \/ Send(w) \/ OnError(w, "write error", "write open") \/ WriteOpened(w) \/ WriteData(w)
  \/ Unselect(w) \/ Unref(w)

----------------------------------------------------------------------------
(* The application: the calls that find the connection by its id, and      *)
(* release it when they return.  A worker inside the filter keeps others   *)
(* from finding it, but not those that have, nor the dispatcher that it    *)
(* called itself.                                                          *)

\* The decref() of a call deletes a cancelled connection that nobody holds.
Return == alive' = ~(cancelled' /\ Holders = {})

\* rascal_write, one byte at a time
Write ==
  /\ alive /\ cmx = Nobody /\ written < MaxOut
  /\ written' = written + 1
  /\ wr' = Append(wr, written')
  /\ UNCHANGED <<cancelled, selected, mode, cmx, rd, work, net, sent, arrived, taken, log>>
  /\ Return

\* rascal_read with a large buffer
Read ==
  /\ alive /\ cmx = Nobody /\ rd # << >>
  /\ taken' = taken \o rd /\ rd' = << >>
  /\ UNCHANGED <<cancelled, selected, mode, cmx, wr, work, net, written, sent, arrived, log>>
  /\ Return

\* rascal_cancel: object::cancel, which connection does not override
Cancel ==
  /\ alive
  /\ cancelled' = TRUE
  /\ UNCHANGED <<selected, mode, cmx, rd, wr, work, net, hist>>
  /\ Return

App == Write \/ Read \/ Cancel

----------------------------------------------------------------------------
(* The network.                                                            *)

Establish == /\ sock = "connecting" /\ sock' = "up"
             /\ UNCHANGED <<conn, work, inbox, eof, room, expired, hist>>

\* The connection attempt is refused, or the connection is reset.
Break == /\ sock' = "failed" /\ sock # "failed"
         /\ UNCHANGED <<conn, work, inbox, eof, room, expired, hist>>

Arrive == /\ sock = "up" /\ ~eof /\ arrived < MaxIn
          /\ arrived' = arrived + 1
          /\ inbox' = Append(inbox, arrived')
          /\ UNCHANGED <<conn, work, sock, eof, room, expired, written, sent, taken, log>>

PeerCloses == /\ sock = "up" /\ ~eof /\ eof' = TRUE
              /\ UNCHANGED <<conn, work, sock, inbox, room, expired, hist>>

\* The send buffer empties.
Transmit == /\ sock = "up" /\ room < SndBuf /\ room' = SndBuf
            /\ UNCHANGED <<conn, work, sock, inbox, eof, expired, hist>>

Expire == /\ mode = "connect" /\ ~expired /\ expired' = TRUE
          /\ UNCHANGED <<conn, work, sock, inbox, eof, room, hist>>

Net == alive /\ (Establish \/ Break \/ Arrive \/ PeerCloses \/ Transmit \/ Expire)

----------------------------------------------------------------------------
Next == (\E w \in Workers : Worker(w)) \/ App \/ Net

Spec == Init /\ [][Next]_vars

\* A worker thread never stops (connection.cc:353-359), the clock goes on, and
\* a working socket transmits what it accepted.  Nothing else has to happen.
FairSpec == /\ Spec
            /\ \A w \in Workers : WF_vars(Worker(w))
            /\ WF_vars(alive /\ Expire) /\ WF_vars(alive /\ Transmit)

----------------------------------------------------------------------------
(* Properties.                                                             *)

Positions == {"idle", "pulse", "passed", "astray", "picked", "select", "lost", "read", "read error", "read open", "read data",
              "read close", "write", "send", "write error", "write open", "write data", "done", "unref"}

\* The type invariant.
TypeOK ==
  /\ {alive, cancelled, selected, eof, expired} \subseteq BOOLEAN
  /\ mode \in {"connect", "normal"} /\ sock \in {"connecting", "up", "failed"}
  /\ cmx \in Workers \cup {Nobody}
  /\ pc \in [Workers -> Positions] /\ watch \in [Workers -> BOOLEAN]
  /\ ready \in [Workers -> SUBSET {"r", "w"}]
  /\ did \in [Workers -> SUBSET {"success", "closed", "error"}]
  /\ room \in 0 .. SndBuf /\ written \in 0 .. MaxOut /\ arrived \in 0 .. MaxIn
  /\ \A s \in {wr, sent} : s \in Seq(1 .. MaxOut)
  /\ \A s \in {rd, inbox, taken} : s \in Seq(1 .. MaxIn)
  /\ log.open \in BOOLEAN /\ log.early \in BOOLEAN /\ log.opens \in Nat
  /\ log.end \in {"no", "timeout", "error", "close"}

Serving(w) == pc[w] \notin Without \cup {"unref"}

\* One worker at a time serves the connection, and runs its dispatcher: the
\* flag that filter() tests and sets under the list's mutex, and that work()
\* clears before it releases the connection, keeps the others away, inside the
\* filter too.  A worker inside send() owns the buffers.  From its incref() on,
\* the connection is not destroyed under a worker, whoever cancels it.  Before,
\* it may be: a worker is astray exactly where the connection it had tested was
\* cancelled and destroyed before the incref(), by the dispatcher that on_pulse
\* called or by a call that had found it before.  (With the typing.)
ServedByOne ==
  /\ TypeOK
  /\ \A v, w \in Workers : Serving(v) /\ (Serving(w) \/ Filtering(w)) => v = w
  /\ \A w \in Workers : (Serving(w) => selected) /\ (pc[w] = "send" => cmx = w)
  /\ (\E w \in Workers : Serving(w)) => alive
  /\ \A w \in Workers : pc[w] = "astray" => cancelled /\ ~alive

Upto(n) == [i \in 1 .. n |-> i]

\* What the peer wrote reaches the application whole and in order: what was
\* read, what waits in rd and what the kernel holds are the peer's stream.
\* What the socket took and what waits in wr keep the order of the calls to
\* write(), and no byte is sent twice, though chunks leave in parts.
InOrder ==
  /\ taken \o rd \o inbox = Upto(arrived)
  /\ LET out == sent \o wr IN \A i, j \in 1 .. Len(out) : i < j => out[i] < out[j]

\* The dispatcher is told of the connection at most once, and before any data;
\* after a timeout or the end of the peer's stream it hears no more of it,
\* although the worker that reported it goes on to its other handlers.
EventOrder ==
  /\ log.opens <= 1 /\ ~log.early
  /\ log.end \in {"timeout", "close"} => log.after = {}

\* A connection attempt ends: it succeeds, fails or times out.
ConnectSettles == mode = "connect" ~> mode = "normal" \/ cancelled

\* What the application wrote leaves the buffer, unless the connection ends,
\* however the workers pass the connection to each other.
Departs == wr # << >> ~> wr = << >> \/ cancelled

\* The end of the peer's stream, or a failure of the socket, is noticed by some
\* worker, and the connection it ends, or any that is cancelled, is destroyed.
Ends == (eof \/ sock = "failed" ~> cancelled) /\ (cancelled ~> ~alive)

----------------------------------------------------------------------------
(* What the documentation and the comments say, and the code does not do.  *)

\* rascal_write takes a "block of data [that] must be sent": the socket gets
\* the application's stream without a gap.
NoGap == sent = Upto(Len(sent))
=============================================================================
