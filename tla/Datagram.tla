------------------------------ MODULE Datagram ------------------------------
(***************************************************************************)
(* A datagram connection of the BSD port (bsd/connection_dg.cc), served by *)
(* whichever worker has it selected (bsd/connection.cc:254-350; that there *)
(* is one at a time is shown in Connection), with the application and the  *)
(* socket.  Datagrams are numbers, in the order they were sent; what a     *)
(* buffer does to one that is too large is in Buffers.                     *)
(***************************************************************************)
EXTENDS Integers, Sequences

CONSTANTS MaxDatagrams     \* bound: datagrams either way, and others at the socket

VARIABLES dg,       \* the worker's step; what select() said
          socket,   \* what recvfrom() will find
          came,     \* history: datagrams of the peer that reached the socket
          rd, got,  \* the buffer, and history: what the application read
          told,     \* history: what was in the buffer, or read, at the last rop_read
          wr, gone, \* the buffer, and history: what on_write() removed from it
          written, ended, closes

dgVars == <<dg, socket, came, rd, got, told, wr, gone, written, ended, closes>>

Arrival(from, n) == [from |-> from, n |-> n]
Datagrams(s)     == [k \in 1 .. Len(s) |-> s[k].n]
OfPeer           == {k \in 1 .. Len(socket) : socket[k].from = "peer"}

\* The loop of on_read() goes on for k datagrams from the peer at the head.
Run(k) == 1 .. k \subseteq OfPeer /\ k + 1 \notin OfPeer

DgInit == /\ dg = [pc |-> "idle", ready |-> {}, success |-> FALSE]
          /\ socket = << >> /\ came = 0 /\ rd = << >> /\ got = << >> /\ told = 0
          /\ wr = << >> /\ gone = << >> /\ written = 0 /\ ended = FALSE /\ closes = 0

----------------------------------------------------------------------------
(* The worker.                                                             *)

Goes(from, to) == dg.pc = from /\ dg' = [dg EXCEPT !.pc = to]

\* filter, need_to_write: datagrams written from here on wait for another pass
DgPick == /\ dg.pc = "idle" /\ ~ended
          /\ dg' = [pc |-> "select", ready |-> IF wr = << >> THEN {} ELSE {"write"}, success |-> FALSE]
          /\ UNCHANGED <<socket, came, rd, got, told, wr, gone, written, ended, closes>>

\* select: the socket is writable, or full.
DgSelect == /\ dg.pc = "select"
            /\ \E writable \in SUBSET dg.ready :
                 dg' = [dg EXCEPT !.pc = "read", !.ready = writable \cup IF socket = << >> THEN {} ELSE {"read"}]
            /\ UNCHANGED <<socket, came, rd, got, told, wr, gone, written, ended, closes>>

\* Where on_read() stops: at the end of what there is, or at an arrival.
StopOf(k) == IF k < Len(socket) THEN socket[k + 1].from ELSE "end"

Consume(k) == /\ rd' = rd \o Datagrams(SubSeq(socket, 1, k))
              /\ socket' = SubSeq(socket, k + 2, Len(socket))

\* Faulty: an error makes on_read() return.
OnReadReturns == \E k \in 0 .. Len(socket) :
  /\ Run(k) /\ Consume(k)
  /\ dg' = [dg EXCEPT !.pc = IF StopOf(k) = "error" THEN "error" ELSE IF k > 0 THEN "report" ELSE "write"]

\* on_read: until the socket is empty, fails, or gives an empty datagram or one
\* that is not from the peer, which is dropped.
OnRead == \E k \in 0 .. Len(socket) :
  /\ Run(k) /\ Consume(k)
  /\ dg' = [dg EXCEPT !.success = k > 0,
                      !.pc = IF StopOf(k) = "error" THEN "error" ELSE IF k > 0 THEN "report" ELSE "write"]

DgRead == /\ dg.pc = "read"
          /\ IF "read" \in dg.ready /\ ~ended THEN OnRead
             ELSE dg' = [dg EXCEPT !.pc = "write"] /\ UNCHANGED <<socket, rd>>
          /\ UNCHANGED <<came, got, told, wr, gone, written, ended, closes>>

\* on_error in on_read, which goes on to report what it has
ReadError == /\ Goes("error", IF dg.success THEN "report" ELSE "write")
             /\ closes' = closes + 1 /\ ended' = TRUE
             /\ UNCHANGED <<socket, came, rd, got, told, wr, gone, written>>

Report == /\ Goes("report", "write")
          /\ told' = Len(got) + Len(rd)
          /\ UNCHANGED <<socket, came, rd, got, wr, gone, written, ended, closes>>

\* on_write: what sendto() refuses with EWOULDBLOCK is removed with the rest; a
\* datagram that makes it fail stays.
OnWrite == \E k \in 0 .. Len(wr) :
             /\ gone' = gone \o SubSeq(wr, 1, k)
             /\ wr' = SubSeq(wr, k + 1, Len(wr))
             /\ dg' = [dg EXCEPT !.pc = IF k = Len(wr) THEN "idle" ELSE "failed"]

DgWrite == /\ dg.pc = "write"
           /\ IF "write" \in dg.ready /\ ~ended THEN OnWrite
              ELSE dg' = [dg EXCEPT !.pc = "idle"] /\ UNCHANGED <<wr, gone>>
           /\ UNCHANGED <<socket, came, rd, got, told, written, ended, closes>>

WriteError == /\ Goes("failed", "idle")
              /\ closes' = closes + 1 /\ ended' = TRUE
              /\ UNCHANGED <<socket, came, rd, got, told, wr, gone, written>>

----------------------------------------------------------------------------
(* The application, and the network.                                       *)

\* A cancelled connection exists until its worker lets it go.
Exists == ~ended \/ dg.pc # "idle"

\* rascal_write, rascal_read, rascal_cancel
Put == /\ Exists /\ written < MaxDatagrams
       /\ written' = written + 1 /\ wr' = Append(wr, written')
       /\ UNCHANGED <<dg, socket, came, rd, got, told, gone, ended, closes>>

Take == /\ Exists /\ rd # << >>
        /\ got' = Append(got, Head(rd)) /\ rd' = Tail(rd)
        /\ UNCHANGED <<dg, socket, came, told, wr, gone, written, ended, closes>>

DgCancel == /\ ~ended /\ ended' = TRUE
            /\ UNCHANGED <<dg, socket, came, rd, got, told, wr, gone, written, closes>>

Arrives == /\ Exists /\ came < MaxDatagrams /\ came' = came + 1
           /\ socket' = Append(socket, Arrival("peer", came'))
           /\ UNCHANGED <<dg, rd, got, told, wr, gone, written, ended, closes>>

\* An empty datagram, one from elsewhere, or an error, each a bounded number.
Disturbs == /\ Exists /\ Len(socket) < MaxDatagrams
            /\ \E from \in {"nothing", "stranger", "error"} : socket' = Append(socket, Arrival(from, 0))
            /\ UNCHANGED <<dg, came, rd, got, told, wr, gone, written, ended, closes>>

DgNext == \/ DgPick \/ DgSelect \/ DgRead \/ ReadError \/ Report \/ DgWrite \/ WriteError
          \/ Put \/ Take \/ DgCancel \/ Arrives \/ Disturbs

DgSpec == DgInit /\ [][DgNext]_dgVars

----------------------------------------------------------------------------
\* What the peer sends is read in order, each datagram once, with nothing from
\* anybody else between, whatever the socket mixes in and wherever a pass ends
\* (connection_dg.cc:53-73); when no worker is at it, all that is in the buffer
\* has been announced by a rop_read, even after an error, and a failure is
\* reported once (:59-63, :88, :107-111).  What is written leaves in its order.
DatagramsKept == /\ got \o rd = [n \in 1 .. Len(got \o rd) |-> n]
                 /\ {socket[k].n : k \in OfPeer} = Len(got \o rd) + 1 .. came
                 /\ \A j, k \in OfPeer : j < k => socket[j].n < socket[k].n
                 /\ gone \o wr = [n \in 1 .. written |-> n]
                 /\ dg.pc = "idle" => told = Len(got) + Len(rd)
                 /\ closes <= 1 /\ (closes = 1 => ended)
=============================================================================
