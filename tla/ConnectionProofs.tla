-------------------------- MODULE ConnectionProofs --------------------------
(***************************************************************************)
(* A stream connection of the BSD port with any number of workers, any     *)
(* chunk and send buffer, and any amount of data, failing select() calls   *)
(* included.                                                               *)
(***************************************************************************)
EXTENDS Connection, SequenceTheorems, TLAPS

USE ConnectionAssumption

----------------------------------------------------------------------------
(* Sequences.                                                              *)

\* A prefix and the rest of a sequence.
LEMMA Split ==
  ASSUME NEW S, NEW s \in Seq(S), NEW n \in 0 .. Len(s)
  PROVE  /\ First(s, n) \in Seq(S) /\ Len(First(s, n)) = n
         /\ Rest(s, n) \in Seq(S) /\ Len(Rest(s, n)) = Len(s) - n
         /\ \A i \in 1 .. n : First(s, n)[i] = s[i]
         /\ \A i \in 1 .. Len(s) - n : Rest(s, n)[i] = s[n + i]
         /\ First(s, n) \o Rest(s, n) = s
<1>1. Len(s) \in Nat /\ n \in Int /\ n + 1 \in Int /\ 1 \in Int
  OBVIOUS
<1>2. \A i \in 1 .. n : s[i] \in S
  BY <1>1
<1>3. \A i \in n + 1 .. Len(s) : s[i] \in S
  BY <1>1
<1> DEFINE f == SubSeq(s, 1, n)
           r == SubSeq(s, n + 1, Len(s))
<1>4. /\ f \in Seq(S) /\ Len(f) = (IF 1 <= n THEN n - 1 + 1 ELSE 0)
      /\ \A i \in 1 .. n - 1 + 1 : f[i] = s[1 + i - 1]
  BY <1>1, <1>2, SubSeqProperties
<1>5. /\ r \in Seq(S) /\ Len(r) = (IF n + 1 <= Len(s) THEN Len(s) - (n + 1) + 1 ELSE 0)
      /\ \A i \in 1 .. Len(s) - (n + 1) + 1 : r[i] = s[n + 1 + i - 1]
  BY <1>1, <1>3, SubSeqProperties
<1>6. First(s, n) = f /\ Rest(s, n) = r
  BY DEF First, Rest
<1> HIDE DEF f, r
<1>7. /\ Len(f) = n /\ \A i \in 1 .. n : f[i] = s[i]
      /\ Len(r) = Len(s) - n /\ \A i \in 1 .. Len(s) - n : r[i] = s[n + i]
  <2>1. Len(f) = n /\ Len(r) = Len(s) - n
    BY <1>1, <1>4, <1>5
  <2>2. \A i \in 1 .. n : 1 + i - 1 = i /\ i \in 1 .. n - 1 + 1
    BY <1>1
  <2>3. \A i \in 1 .. n : f[i] = s[i]
    BY <1>4, <2>2
  <2>4. \A i \in 1 .. Len(s) - n : n + 1 + i - 1 = n + i /\ i \in 1 .. Len(s) - (n + 1) + 1
    BY <1>1
  <2>5. \A i \in 1 .. Len(s) - n : r[i] = s[n + i]
    BY <1>5, <2>4
  <2> QED
    BY <2>1, <2>3, <2>5
<1>8. f \o r = s
  <2>1. /\ f \o r \in Seq(S) /\ Len(f \o r) = Len(f) + Len(r)
        /\ \A i \in 1 .. Len(f) + Len(r) : (f \o r)[i] = IF i <= Len(f) THEN f[i] ELSE r[i - Len(f)]
    BY <1>4, <1>5, ConcatProperties
  <2> DEFINE c == f \o r
  <2> HIDE DEF c
  <2>a. /\ c \in Seq(S) /\ Len(c) = Len(f) + Len(r)
        /\ \A i \in 1 .. Len(f) + Len(r) : c[i] = IF i <= Len(f) THEN f[i] ELSE r[i - Len(f)]
    BY <2>1 DEF c
  <2>b. Len(c) = Len(s)
    BY <1>1, <1>7, <2>a
  <2>c. ASSUME NEW i \in 1 .. Len(s) PROVE c[i] = s[i]
    <3>1. CASE i <= n
      BY <3>1, <1>1, <1>7, <2>a
    <3>2. CASE ~(i <= n)
      <4>1. i - n \in 1 .. Len(s) - n /\ n + (i - n) = i
        BY <3>2, <1>1
      <4>2. c[i] = r[i - n]
        BY <3>2, <1>1, <1>7, <2>a
      <4> QED
        BY <4>1, <4>2, <1>7
    <3> QED
      BY <3>1, <3>2
  <2>2. Len(f \o r) = Len(s) /\ \A i \in 1 .. Len(s) : (f \o r)[i] = s[i]
    BY <2>b, <2>c DEF c
  <2> QED
    BY <2>1, <2>2, SeqEqual
<1> QED
  BY <1>4, <1>5, <1>6, <1>7, <1>8

\* What Send takes from the buffer, and what it gives to the socket.
LEMMA Offered ==
  ASSUME NEW S, wr \in Seq(S), room \in 0 .. SndBuf,
         NEW size, NEW k, size = Least(Chunk, Len(wr)), k = Least(size, room)
  PROVE  size \in 0 .. Len(wr) /\ k \in 0 .. size /\ k \in 0 .. Len(wr) /\ room - k \in 0 .. SndBuf
<1>1. Len(wr) \in Nat /\ Chunk \in Nat \ {0} /\ SndBuf \in Nat \ {0}
  OBVIOUS
<1> QED
  BY <1>1 DEF Least

----------------------------------------------------------------------------
(* Types, in three parts.                                                  *)

Ready == {"r", "w"}
Did   == {"success", "closed", "error"}
Ended == {"no", "timeout", "error", "close"}

StateTyped ==
  /\ {alive, cancelled, selected, eof, expired} \subseteq BOOLEAN
  /\ mode \in {"connect", "normal"} /\ sock \in {"connecting", "up", "failed"}
  /\ cmx \in Workers \cup {Nobody}
  /\ pc \in [Workers -> Positions] /\ watch \in [Workers -> BOOLEAN]
  /\ ready \in [Workers -> SUBSET Ready] /\ did \in [Workers -> SUBSET Did]

DataTyped ==
  /\ room \in 0 .. SndBuf /\ written \in 0 .. MaxOut /\ arrived \in 0 .. MaxIn
  /\ wr \in Seq(1 .. MaxOut) /\ sent \in Seq(1 .. MaxOut)
  /\ rd \in Seq(1 .. MaxIn) /\ inbox \in Seq(1 .. MaxIn) /\ taken \in Seq(1 .. MaxIn)

LogTyped == log.open \in BOOLEAN /\ log.early \in BOOLEAN /\ log.opens \in Nat /\ log.end \in Ended

dataVars == <<room, written, arrived, wr, sent, rd, inbox, taken>>

LEMMA TypeParts ==
  /\ TypeOK <=> StateTyped /\ DataTyped /\ LogTyped
  /\ TypeOK' <=> StateTyped' /\ DataTyped' /\ LogTyped'
BY DEF TypeOK, StateTyped, DataTyped, LogTyped, Ready, Did, Ended

LEMMA DataKept == DataTyped /\ UNCHANGED dataVars => DataTyped'
BY DEF DataTyped, dataVars

Events == {"connect", "read", "write", "timeout", "error", "close"}

LEMMA LogStep ==
  ASSUME LogTyped, UNCHANGED log \/ \E event \in Events : Dispatch(event)
  PROVE  LogTyped'
<1>1. CASE UNCHANGED log
  BY <1>1 DEF LogTyped
<1>2. ASSUME NEW event \in Events, Dispatch(event) PROVE LogTyped'
  <2>1. /\ log'.open \in BOOLEAN /\ log'.early \in BOOLEAN
        /\ log'.opens = (IF event = "connect" THEN log.opens + 1 ELSE log.opens)
        /\ log'.end = (IF event \in {"timeout", "error", "close"} THEN event ELSE log.end)
    BY <1>2 DEF Dispatch
  <2>2. log'.opens \in Nat /\ log'.end \in Ended
    BY <2>1 DEF LogTyped, Ended
  <2> QED
    BY <2>1, <2>2 DEF LogTyped
<1> QED
  BY <1>1, <1>2

\* A worker's step: what it does to the log, and to the state.
LEMMA WorkerLog ==
  ASSUME NEW w \in Workers, Worker(w)
  PROVE  UNCHANGED log \/ \E event \in Events : Dispatch(event)
<1>1. CASE Filter(w) \/ ReadData(w) \/ ReadClose(w) \/ WriteData(w)
  BY <1>1 DEF Filter, ReadData, ReadClose, WriteData, Events
<1>2. CASE OnError(w, "read error", "read open") \/ OnError(w, "write error", "write open")
  BY <1>2 DEF OnError, Events
<1>3. CASE ReadOpened(w) \/ WriteOpened(w)
  BY <1>3 DEF ReadOpened, WriteOpened, Opened, Events
<1>4. CASE Pulse(w) \/ Take(w) \/ Prepare(w) \/ Select(w) \/ SelectFails(w) \/ OnRead(w) \/ OnWrite(w)
             \/ Send(w) \/ Unselect(w) \/ Unref(w)
  BY <1>4 DEF Pulse, Take, Prepare, Select, SelectFails, OnRead, OnWrite, Send, Unselect, Unref, hist
<1> QED
  BY <1>1, <1>2, <1>3, <1>4 DEF Worker

LEMMA WorkerState ==
  ASSUME StateTyped, NEW w \in Workers, Worker(w) PROVE StateTyped'
<1> USE DEF StateTyped, Goto
<1>p. {"idle", "pulse", "passed", "astray", "picked", "select", "lost", "read", "read error", "read open", "read data",
       "read close", "write", "send", "write error", "write open", "write data", "done", "unref"} = Positions
  BY DEF Positions
<1>1. CASE Filter(w) \/ Pulse(w) \/ Take(w)
  BY <1>1, <1>p DEF Filter, Pulse, Take, conn, net
<1>2. CASE Prepare(w)
  BY <1>2, <1>p DEF Prepare, conn, net
<1>3. CASE Select(w)
  <2>1. {e \in {"r", "w"} : IF e = "r" THEN Readable ELSE watch[w] /\ Writable} \in SUBSET Ready
    BY DEF Ready
  <2> QED
    BY <1>3, <1>p, <2>1 DEF Select, conn, net
<1>4. CASE SelectFails(w)
  BY <1>4, <1>p DEF SelectFails, conn, net
<1>5. CASE OnRead(w)
  <2>1. did' \in [Workers -> SUBSET Did]
    <3>1. \A x : (IF x THEN {"success"} ELSE {})
                   \cup (IF sock = "failed" THEN {"error"} ELSE IF eof THEN {"closed"} ELSE {}) \in SUBSET Did
      BY DEF Did
    <3>2. \/ \E d \in SUBSET Did : did' = [did EXCEPT ![w] = d]
          \/ did' = did
      BY <1>5, <3>1 DEF OnRead
    <3> QED
      BY <3>2
  <2>2. pc' \in [Workers -> Positions]
    BY <1>5, <1>p DEF OnRead
  <2>3. UNCHANGED <<alive, cancelled, selected, mode, cmx, watch, ready, sock, eof, expired>>
    BY <1>5 DEF OnRead
  <2> QED
    BY <2>1, <2>2, <2>3
<1>6. CASE OnError(w, "read error", "read open") \/ OnError(w, "write error", "write open")
  BY <1>6, <1>p DEF OnError, net
<1>7. CASE ReadOpened(w) \/ WriteOpened(w)
  BY <1>7, <1>p DEF ReadOpened, WriteOpened, Opened, net
<1>8. CASE ReadData(w) \/ WriteData(w)
  BY <1>8, <1>p DEF ReadData, WriteData, conn, net
<1>9. CASE ReadClose(w)
  BY <1>9, <1>p DEF ReadClose, net
<1>10. CASE OnWrite(w)
  BY <1>10, <1>p DEF OnWrite, net
<1>11. CASE Send(w)
  <2>1. did' \in [Workers -> SUBSET Did]
    <3>1. did[w] \cup {"error"} \in SUBSET Did /\ did[w] \cup {"success"} \in SUBSET Did
      BY DEF Did
    <3>2. did' = did \/ did' = [did EXCEPT ![w] = did[w] \cup {"error"}] \/ did' = [did EXCEPT ![w] = did[w] \cup {"success"}]
      BY <1>11 DEF Send
    <3> QED
      BY <3>1, <3>2
  <2>2. pc' \in [Workers -> Positions] /\ cmx' \in {cmx, Nobody}
    BY <1>11, <1>p DEF Send
  <2>3. UNCHANGED <<alive, cancelled, selected, mode, watch, ready, sock, eof, expired>>
    BY <1>11 DEF Send
  <2> QED
    BY <2>1, <2>2, <2>3
<1>12. CASE Unselect(w)
  BY <1>12, <1>p DEF Unselect, net
<1>13. CASE Unref(w)
  BY <1>13, <1>p DEF Unref, net
<1> QED
  BY <1>1, <1>2, <1>3, <1>4, <1>5, <1>6, <1>7, <1>8, <1>9, <1>10, <1>11, <1>12, <1>13 DEF Worker

\* What a worker's step does to the data: on_read moves what the kernel has to
\* the buffer, on_write a chunk from the buffer to the socket.
LEMMA WorkerMoves ==
  ASSUME DataTyped, NEW w \in Workers, Worker(w)
  PROVE  \/ UNCHANGED dataVars
         \/ /\ \E n \in 0 .. Len(inbox) : rd' = rd \o First(inbox, n) /\ inbox' = Rest(inbox, n)
            /\ UNCHANGED <<room, written, arrived, wr, sent, taken>>
         \/ /\ LET size == Least(Chunk, Len(wr))
                   k    == Least(size, room)
               IN  sent' = sent \o First(wr, k) /\ room' = room - k /\ wr' = Rest(wr, size)
            /\ UNCHANGED <<written, arrived, rd, inbox, taken>>
<1>1. CASE OnRead(w)
  <2>1. Len(inbox) \in Nat
    BY DEF DataTyped
  <2>2. \/ UNCHANGED <<rd, inbox>>
        \/ \E n \in 0 .. Len(inbox) : rd' = rd \o First(inbox, n) /\ inbox' = Rest(inbox, n)
    <3>1. CASE "r" \in ready[w] /\ ~cancelled
      <4> DEFINE N == IF sock = "failed" THEN 0 .. Len(inbox) ELSE {Len(inbox)}
      <4>1. \E n \in N : rd' = rd \o First(inbox, n) /\ inbox' = Rest(inbox, n)
        BY <1>1, <3>1 DEF OnRead
      <4>2. N \subseteq 0 .. Len(inbox)
        BY <2>1
      <4> QED
        BY <4>1, <4>2
    <3>2. CASE ~("r" \in ready[w] /\ ~cancelled)
      BY <1>1, <3>2 DEF OnRead
    <3> QED
      BY <3>1, <3>2
  <2>3. UNCHANGED <<room, written, arrived, wr, sent, taken>>
    BY <1>1 DEF OnRead, hist
  <2> QED
    BY <2>2, <2>3 DEF dataVars
<1>2. CASE Send(w)
  BY <1>2 DEF Send, dataVars
<1>3. CASE ~OnRead(w) /\ ~Send(w)
  BY <1>3 DEF Worker, Filter, Pulse, Take, Prepare, Select, SelectFails, OnError, ReadOpened, ReadData, ReadClose, OnWrite,
       WriteOpened, WriteData, Unselect, Unref, Opened, conn, net, hist, dataVars
<1> QED
  BY <1>1, <1>2, <1>3

LEMMA WorkerData ==
  ASSUME DataTyped, NEW w \in Workers, Worker(w) PROVE DataTyped'
<1>1. CASE UNCHANGED dataVars
  BY <1>1, DataKept
<1>2. ASSUME NEW n \in 0 .. Len(inbox), rd' = rd \o First(inbox, n), inbox' = Rest(inbox, n),
             UNCHANGED <<room, written, arrived, wr, sent, taken>>
      PROVE  DataTyped'
  <2>1. First(inbox, n) \in Seq(1 .. MaxIn) /\ Rest(inbox, n) \in Seq(1 .. MaxIn) /\ rd \in Seq(1 .. MaxIn)
    BY Split DEF DataTyped
  <2>2. rd' \in Seq(1 .. MaxIn) /\ inbox' \in Seq(1 .. MaxIn)
    BY <1>2, <2>1, ConcatProperties
  <2> QED
    BY <1>2, <2>2 DEF DataTyped
<1>3. ASSUME NEW size, NEW k, size = Least(Chunk, Len(wr)), k = Least(size, room),
             sent' = sent \o First(wr, k), room' = room - k, wr' = Rest(wr, size),
             UNCHANGED <<written, arrived, rd, inbox, taken>>
      PROVE  DataTyped'
  <2>1. size \in 0 .. Len(wr) /\ k \in 0 .. Len(wr) /\ room - k \in 0 .. SndBuf
    BY <1>3, Offered DEF DataTyped
  <2>2. First(wr, k) \in Seq(1 .. MaxOut) /\ Rest(wr, size) \in Seq(1 .. MaxOut) /\ sent \in Seq(1 .. MaxOut)
    BY <2>1, Split DEF DataTyped
  <2>3. sent' \in Seq(1 .. MaxOut) /\ wr' \in Seq(1 .. MaxOut)
    BY <1>3, <2>2, ConcatProperties
  <2> QED
    BY <1>3, <2>1, <2>3 DEF DataTyped
<1> QED
  BY <1>1, <1>2, <1>3, WorkerMoves

\* Every step keeps the types.
LEMMA TypeStep == TypeOK /\ [Next]_vars => TypeOK'
<1> SUFFICES ASSUME TypeOK, [Next]_vars PROVE TypeOK'
  OBVIOUS
<1>t. StateTyped /\ DataTyped /\ LogTyped
  BY TypeParts
<1>1. CASE UNCHANGED vars
  BY <1>1 DEF vars, conn, work, net, hist, TypeOK
<1>2. ASSUME NEW w \in Workers, Worker(w) PROVE TypeOK'
  BY <1>t, <1>2, WorkerState, WorkerData, WorkerLog, LogStep, TypeParts
<1>3. CASE Write
  <2>1. written' \in 1 .. MaxOut /\ wr' = Append(wr, written')
    BY <1>t, <1>3 DEF Write, DataTyped
  <2>2. wr' \in Seq(1 .. MaxOut)
    BY <1>t, <2>1, AppendProperties DEF DataTyped
  <2>3. DataTyped'
    BY <1>t, <1>3, <2>1, <2>2 DEF Write, DataTyped, net
  <2>4. StateTyped' /\ LogTyped'
    BY <1>t, <1>3 DEF Write, Return, StateTyped, LogTyped, work, net
  <2> QED
    BY <2>3, <2>4, TypeParts
<1>4. CASE Read
  <2>1. taken' \in Seq(1 .. MaxIn) /\ rd' \in Seq(1 .. MaxIn)
    BY <1>t, <1>4, ConcatProperties, EmptySeq DEF Read, DataTyped
  <2>2. DataTyped'
    BY <1>t, <1>4, <2>1 DEF Read, DataTyped, net
  <2>3. StateTyped' /\ LogTyped'
    BY <1>t, <1>4 DEF Read, Return, StateTyped, LogTyped, work, net
  <2> QED
    BY <2>2, <2>3, TypeParts
<1>5. CASE Cancel
  <2>1. DataTyped' /\ LogTyped'
    BY <1>t, <1>5 DEF Cancel, DataTyped, LogTyped, net, hist
  <2>2. StateTyped'
    BY <1>t, <1>5 DEF Cancel, Return, StateTyped, work, net
  <2> QED
    BY <2>1, <2>2, TypeParts
<1>6. CASE Arrive
  <2>1. arrived' \in 1 .. MaxIn /\ inbox' = Append(inbox, arrived')
    BY <1>t, <1>6 DEF Arrive, DataTyped
  <2>2. inbox' \in Seq(1 .. MaxIn)
    BY <1>t, <2>1, AppendProperties DEF DataTyped
  <2>3. DataTyped'
    BY <1>t, <1>6, <2>1, <2>2 DEF Arrive, DataTyped, conn
  <2>4. StateTyped' /\ LogTyped'
    BY <1>t, <1>6 DEF Arrive, StateTyped, LogTyped, conn, work
  <2> QED
    BY <2>3, <2>4, TypeParts
<1>7. CASE Establish \/ Break \/ PeerCloses \/ Transmit \/ Expire
  <2> USE DEF Establish, Break, PeerCloses, Transmit, Expire, conn, work, hist
  <2>1. LogTyped'
    BY <1>t, <1>7 DEF LogTyped
  <2>2. StateTyped'
    BY <1>t, <1>7 DEF StateTyped
  <2>3. room' \in {room, SndBuf} /\ UNCHANGED <<written, arrived, wr, sent, rd, inbox, taken>>
    BY <1>7
  <2>4. DataTyped'
    BY <1>t, <2>3 DEF DataTyped
  <2> QED
    BY <2>1, <2>2, <2>4, TypeParts
<1> QED
  BY <1>1, <1>2, <1>3, <1>4, <1>5, <1>6, <1>7 DEF Next, App, Net

LEMMA TypeInit == Init => TypeOK
<1> SUFFICES ASSUME Init PROVE TypeOK
  OBVIOUS
<1>1. StateTyped
  BY DEF Init, StateTyped, Positions
<1>2. DataTyped
  BY DEF Init, DataTyped
<1>3. LogTyped
  BY DEF Init, LogTyped, Ended
<1> QED
  BY <1>1, <1>2, <1>3, TypeParts

----------------------------------------------------------------------------
(* Exclusive service.                                                      *)

\* ServedByOne without the types, and with what keeps it: one worker at a time
\* is inside the filter, and only while nobody has the flag; a worker that has
\* not let go of the connection keeps it alive.
Excl ==
  /\ \A v, w \in Workers : Serving(v) /\ Serving(w) => v = w
  /\ \A v, w \in Workers : Filtering(v) /\ Filtering(w) => v = w
  /\ \A w \in Workers : /\ Serving(w) => selected
                        /\ Filtering(w) => ~selected
                        /\ pc[w] = "send" => cmx = w
                        /\ pc[w] = "astray" => ~alive
  /\ Holders # {} => alive
  /\ ~alive => cancelled

\* The steps of a worker that serves the connection.
Middle == Positions \ (Without \cup {"unref"})

LEMMA ExclStep == TypeOK /\ Excl /\ [Next]_vars => Excl'
<1> SUFFICES ASSUME TypeOK, Excl, [Next]_vars PROVE Excl'
  OBVIOUS
<1>t. /\ pc \in [Workers -> Positions] /\ Nobody \notin Workers
      /\ alive \in BOOLEAN /\ cancelled \in BOOLEAN /\ selected \in BOOLEAN
  BY DEF TypeOK
<1>1. ASSUME UNCHANGED <<pc, alive, selected>>, cancelled => cancelled',
             \A w \in Workers : pc[w] = "send" => cmx' = w
      PROVE  Excl'
  BY <1>1 DEF Excl, Serving, Filtering, Holders, Without
<1>2. ASSUME NEW w \in Workers, Worker(w) PROVE Excl'
  <2>1. CASE Filter(w) \/ Pulse(w) \/ Take(w)
    <3>1. CASE Filter(w)
      BY <1>t, <3>1 DEF Filter, conn, Excl, Serving, Filtering, Holders, Without, Goto, Positions
    <3>2. CASE Pulse(w)
      BY <1>t, <3>2 DEF Pulse, Excl, Serving, Filtering, Holders, Without, Goto, Positions
    <3>3. CASE Take(w)
      BY <1>t, <3>3 DEF Take, Excl, Serving, Filtering, Holders, Without, Goto, Positions
    <3> QED
      BY <2>1, <3>1, <3>2, <3>3
  <2>2. CASE Unselect(w)
    BY <1>t, <2>2 DEF Unselect, Excl, Serving, Filtering, Holders, Without, Goto, Positions
  <2>3. CASE Unref(w)
    BY <1>t, <2>3 DEF Unref, Excl, Serving, Filtering, Holders, Without, Goto, Positions
  <2>4. CASE OnWrite(w)
    BY <1>t, <2>4 DEF OnWrite, Excl, Serving, Filtering, Holders, Without, Goto, Positions
  <2>5. CASE Send(w)
    <3>1. /\ pc[w] = "send" /\ UNCHANGED <<alive, selected, cancelled>>
          /\ \E p \in {"send", "write open", "write error"} : pc' = [pc EXCEPT ![w] = p]
          /\ pc'[w] = "send" => cmx' = cmx
      BY <1>t, <2>5 DEF Send, Goto
    <3> QED
      BY <1>t, <3>1 DEF Excl, Serving, Filtering, Holders, Without, Positions
  <2>6. ASSUME NEW p \in Middle \ {"send"}, pc[w] \in Middle \ {"send"}, pc' = [pc EXCEPT ![w] = p],
               UNCHANGED <<alive, selected, cmx>>, cancelled => cancelled'
        PROVE  Excl'
    BY <1>t, <2>6 DEF Excl, Serving, Filtering, Holders, Without, Middle, Positions
  <2>7. CASE \/ Prepare(w) \/ Select(w) \/ SelectFails(w) \/ OnRead(w)
    <3>1. /\ pc[w] \in Middle \ {"send"} /\ UNCHANGED <<alive, selected, cmx>>
          /\ \E p \in Middle \ {"send"} : pc' = [pc EXCEPT ![w] = p]
      BY <2>7 DEF Prepare, Select, SelectFails, OnRead, Goto, conn, Middle, Without, Positions
    <3>2. UNCHANGED cancelled
      BY <2>7 DEF Prepare, Select, SelectFails, OnRead, conn
    <3> QED
      BY <3>1, <3>2, <2>6
  <2>8. CASE \/ OnError(w, "read error", "read open") \/ OnError(w, "write error", "write open")
             \/ ReadOpened(w) \/ WriteOpened(w) \/ ReadData(w) \/ ReadClose(w) \/ WriteData(w)
    <3>1. /\ pc[w] \in Middle \ {"send"} /\ UNCHANGED <<alive, selected, cmx>>
          /\ \E p \in Middle \ {"send"} : pc' = [pc EXCEPT ![w] = p]
      BY <2>8 DEF OnError, ReadOpened, WriteOpened, Opened, ReadData, ReadClose, WriteData, Goto, conn, Middle, Without, Positions
    <3>2. cancelled => cancelled'
      BY <2>8 DEF OnError, ReadOpened, WriteOpened, Opened, ReadData, ReadClose, WriteData, conn
    <3> QED
      BY <3>1, <3>2, <2>6
  <2> QED
    BY <1>2, <2>1, <2>2, <2>3, <2>4, <2>5, <2>7, <2>8 DEF Worker
<1>3. CASE App
  <2>1. /\ UNCHANGED <<pc, selected, cmx>> /\ (cancelled => cancelled')
        /\ alive' = ~(cancelled' /\ Holders = {})
    BY <1>3 DEF App, Write, Read, Cancel, Return, work
  <2>2. Holders' = Holders
    BY <2>1 DEF Holders
  <2> QED
    BY <1>3, <2>1, <2>2 DEF App, Write, Read, Cancel, Excl, Serving, Filtering, Holders, Without
<1>5. CASE Net \/ UNCHANGED vars
  BY <1>5, <1>1 DEF Net, Establish, Break, Arrive, PeerCloses, Transmit, Expire, vars, conn, work, Excl
<1> QED
  BY <1>2, <1>3, <1>5 DEF Next

LEMMA ExclInit == Init => Excl
BY DEF Init, Excl, Serving, Filtering, Holders, Without

LEMMA ServiceInvariant == Spec => [](TypeOK /\ Excl)
<1>1. Init => TypeOK /\ Excl
  BY TypeInit, ExclInit
<1>2. TypeOK /\ Excl /\ [Next]_vars => (TypeOK /\ Excl)'
  BY TypeStep, ExclStep
<1> QED
  BY <1>1, <1>2, PTL DEF Spec

\* The flag `selected' and the reference of list() (connection.cc:236-263,
\* 341-344): one worker at a time is in work() with a connection, and from the
\* incref() of the filter on it is not destroyed under the worker, however many
\* there are.  Between the test of the filter and its incref() it may be, and
\* then, the theorem says, it had been cancelled.
THEOREM ServedByOneWorker == Spec => []ServedByOne
<1>1. TypeOK /\ Excl => ServedByOne
  BY DEF Excl, ServedByOne, Serving, Filtering, Without, Holders
<1> QED
  BY <1>1, ServiceInvariant, PTL

----------------------------------------------------------------------------
(* The order of events.                                                    *)

\* Where a worker reports nothing any more, if the connection is cancelled.
Past    == {"idle", "pulse", "passed", "astray", "picked", "select", "lost", "read", "write", "done", "unref"}
AllPast == \A w \in Workers : pc[w] \in Past

Reading == {"read error", "read open", "read data", "read close"}

\* A connection whose end was reported is cancelled, but for the time that the
\* dispatcher takes that hears of it from the filter.
Ending == cancelled \/ \E w \in Workers : pc[w] = "pulse"

EventInv ==
  /\ mode = "normal" => log.open
  /\ log.opens \in {0, 1}
  /\ mode = "connect" /\ log.opens # 0 => cancelled /\ AllPast
  /\ ~log.early
  /\ log.end # "no" => Ending
  /\ log.end \in {"timeout", "close"} => log.after = {} /\ AllPast
  /\ \A w \in Workers : pc[w] = "read data" /\ "success" \in did[w] => log.open
  /\ \A w \in Workers : pc[w] = "write data" => log.open
  /\ \A w \in Workers : pc[w] \in Reading /\ "closed" \in did[w] => log.end = "no" /\ "error" \notin did[w]

LEMMA EventInit == Init => EventInv
<1> SUFFICES ASSUME Init PROVE EventInv
  OBVIOUS
<1>1. /\ log.open <=> mode = "normal"
      /\ log.opens = 0 /\ log.end = "no" /\ ~log.early
  BY DEF Init
<1>2. \A w \in Workers : pc[w] = "idle"
  BY DEF Init
<1> QED
  BY <1>1, <1>2 DEF EventInv, Reading

\* While a worker serves the connection the others are outside.
LEMMA Alone ==
  ASSUME TypeOK, Excl, NEW w \in Workers, Serving(w), NEW v \in Workers \ {w}
  PROVE  pc[v] \in {"idle", "unref", "astray"}
<1>1. ~Serving(v) /\ ~Filtering(v)
  <2>1. selected
    BY DEF Excl
  <2> QED
    BY <2>1 DEF Excl
<1> QED
  BY <1>1 DEF TypeOK, Positions, Serving, Filtering, Without

LEMMA Dispatched ==
  ASSUME NEW event \in Events, Dispatch(event)
  PROVE  /\ log'.open <=> (log.open \/ event = "connect")
         /\ log'.opens = IF event = "connect" THEN log.opens + 1 ELSE log.opens
         /\ log'.end = IF event \in {"timeout", "error", "close"} THEN event ELSE log.end
         /\ log.end = "no" => log'.after = {}
         /\ log'.early <=> (log.early \/ (event \in {"read", "write"} /\ ~log.open))
BY DEF Dispatch

\* A step that reports nothing, to a place where nothing has to hold.
LEMMA SilentStep ==
  ASSUME TypeOK, EventInv, NEW w \in Workers, NEW p \in Positions, pc' = [pc EXCEPT ![w] = p],
         p \notin Reading \cup {"write data"}, p \in Past \/ pc[w] \notin Past \/ ~Ending,
         UNCHANGED <<mode, log>>, cancelled => cancelled', Ending => Ending',
         \A v \in Workers \ {w} : did'[v] = did[v]
  PROVE  EventInv'
<1>1. p \in Past \/ pc[w] \notin Past \/ (log.end = "no" /\ ~cancelled)
  BY DEF EventInv, Ending
<1> QED
  BY <1>1 DEF TypeOK, EventInv, AllPast, Reading

LEMMA EventStep == TypeOK /\ Excl /\ EventInv /\ [Next]_vars => EventInv'
<1> SUFFICES ASSUME TypeOK, Excl, EventInv, [Next]_vars PROVE EventInv'
  OBVIOUS
<1>t. /\ pc \in [Workers -> Positions] /\ did \in [Workers -> SUBSET Did] /\ mode \in {"connect", "normal"}
      /\ log.end \in {"no", "timeout", "error", "close"} /\ log.opens \in Nat
  BY DEF TypeOK, Did
<1>1. ASSUME NEW w \in Workers, Worker(w) PROVE EventInv'
  <2> USE DEF Goto
  <2>1. CASE Filter(w)
    <3>1. ~selected /\ ~cancelled /\ pc[w] = "idle" /\ UNCHANGED <<mode, did, cancelled>>
      BY <2>1 DEF Filter, conn
    <3>2. \A v \in Workers : pc[v] \in {"idle", "unref", "astray"}
      BY <1>t, <2>1, <3>1 DEF Filter, Excl, Serving, Filtering, Without, Positions
    <3>3. log.end = "no"
      BY <3>1, <3>2 DEF EventInv, Ending
    <3>4. CASE UNCHANGED log /\ pc' = [pc EXCEPT ![w] = "passed"]
      <4>1. ~Ending
        BY <3>1, <3>2 DEF Ending
      <4> QED
        BY <3>1, <3>4, <4>1, SilentStep DEF Positions, Reading, Past
    <3>5. CASE mode = "connect" /\ Dispatch("timeout") /\ pc' = [pc EXCEPT ![w] = "pulse"]
      <4>1. /\ log'.open <=> log.open
            /\ log'.opens = log.opens /\ log'.end = "timeout" /\ log'.after = {} /\ (log'.early <=> log.early)
        BY <3>3, <3>5, Dispatched DEF Events
      <4>2. AllPast' /\ Ending'
        BY <1>t, <3>1, <3>2, <3>5 DEF AllPast, Past, Ending
      <4>3. log.opens = 0
        BY <3>1, <3>5 DEF EventInv
      <4> QED
        BY <1>t, <3>1, <3>2, <3>5, <4>1, <4>2, <4>3 DEF EventInv, Reading
    <3> QED
      BY <2>1, <3>4, <3>5 DEF Filter
  <2>2. CASE Pulse(w) \/ Take(w)
    <3>1. /\ UNCHANGED <<mode, log, did>> /\ (cancelled => cancelled')
          /\ \E p \in {"passed", "astray", "picked"} : pc' = [pc EXCEPT ![w] = p]
      BY <2>2 DEF Pulse, Take, hist
    <3>2. Ending => Ending'
      <4>1. CASE Pulse(w)
        <5>1. cancelled'
          BY <4>1 DEF Pulse, Excl
        <5> QED
          BY <5>1 DEF Ending
      <4>2. CASE Take(w)
        BY <1>t, <4>2 DEF Take, Ending
      <4> QED
        BY <2>2, <4>1, <4>2
    <3> QED
      BY <3>1, <3>2, SilentStep DEF Positions, Reading, Past
  <2>c. ASSUME pc[w] \notin {"idle", "pulse", "passed", "astray"}
        PROVE  pc[w] # "unref" => /\ \A v \in Workers \ {w} : pc[v] \in {"idle", "unref", "astray"}
                                  /\ Ending <=> cancelled
    <3>1. pc[w] # "unref" => Serving(w)
      BY <2>c DEF Serving, Without
    <3> QED
      BY <2>c, <3>1, Alone DEF Ending
  <2>k. ASSUME NEW p \in Positions, pc' = [pc EXCEPT ![w] = p], pc[w] # "pulse", UNCHANGED cancelled
        PROVE  Ending => Ending'
    BY <1>t, <2>k DEF Ending
  <2>3. CASE Prepare(w) \/ Select(w) \/ SelectFails(w) \/ OnWrite(w) \/ Unselect(w) \/ Unref(w)
    <3>1. /\ UNCHANGED <<mode, log, cancelled>> /\ \A v \in Workers \ {w} : did'[v] = did[v]
          /\ pc[w] \notin {"idle", "pulse", "passed", "astray"}
          /\ \E p \in {"select", "lost", "read", "send", "done", "unref", "idle"} :
               pc' = [pc EXCEPT ![w] = p] /\ (p = "send" => ~cancelled /\ pc[w] = "write")
      BY <1>t, <2>3 DEF Prepare, Select, SelectFails, OnWrite, Unselect, Unref, conn, hist
    <3>2. PICK p \in {"select", "lost", "read", "send", "done", "unref", "idle"} :
               pc' = [pc EXCEPT ![w] = p] /\ (p = "send" => ~cancelled /\ pc[w] = "write")
      BY <3>1
    <3>3. p \in Past \/ ~Ending
      BY <2>c, <3>1, <3>2 DEF Past
    <3> QED
      BY <2>k, <3>1, <3>2, <3>3, SilentStep DEF Positions, Reading
  <2>s. CASE Send(w)
    <3>1. /\ UNCHANGED <<mode, log, cancelled>> /\ \A v \in Workers \ {w} : did'[v] = did[v]
          /\ pc[w] = "send"
          /\ \E p \in {"send", "write open", "write error"} : pc' = [pc EXCEPT ![w] = p]
      BY <1>t, <2>s DEF Send
    <3> QED
      BY <2>k, <3>1, SilentStep DEF Positions, Reading, Past
  <2>4. CASE OnRead(w)
    <3>1. CASE "r" \in ready[w] /\ ~cancelled
      <4>1. /\ pc' = [pc EXCEPT ![w] = "read error"] /\ UNCHANGED <<mode, log, cancelled>>
            /\ \E n : did' = [did EXCEPT ![w] = (IF n > 0 THEN {"success"} ELSE {})
                       \cup (IF sock = "failed" THEN {"error"} ELSE IF eof THEN {"closed"} ELSE {})]
        BY <2>4, <3>1 DEF OnRead, hist
      <4>2. /\ ~("closed" \in did'[w] /\ "error" \in did'[w])
            /\ \A v \in Workers \ {w} : did'[v] = did[v]
        <5>1. PICK n : did' = [did EXCEPT ![w] = (IF n > 0 THEN {"success"} ELSE {})
                         \cup (IF sock = "failed" THEN {"error"} ELSE IF eof THEN {"closed"} ELSE {})]
          BY <4>1
        <5>2. \A v \in Workers \ {w} : did'[v] = did[v]
          BY <1>t, <5>1
        <5>3. did'[w] = (IF n > 0 THEN {"success"} ELSE {})
                         \cup (IF sock = "failed" THEN {"error"} ELSE IF eof THEN {"closed"} ELSE {})
          BY <1>t, <5>1
        <5>4. CASE sock = "failed"
          BY <5>2, <5>3, <5>4
        <5>5. CASE sock # "failed"
          BY <5>2, <5>3, <5>5
        <5> QED
          BY <5>4, <5>5
      <4>3. log.end = "no"
        BY <2>c, <2>4, <3>1 DEF OnRead, EventInv
      <4> QED
        BY <1>t, <3>1, <4>1, <4>2, <4>3 DEF EventInv, AllPast, Reading
    <3>2. CASE ~("r" \in ready[w] /\ ~cancelled)
      <4>1. pc' = [pc EXCEPT ![w] = "write"] /\ UNCHANGED <<mode, log, cancelled, did>>
        BY <2>4, <3>2 DEF OnRead, hist
      <4>2. Ending => Ending'
        <5>1. pc[w] = "read"
          BY <2>4 DEF OnRead
        <5> QED
          BY <2>k, <4>1, <5>1 DEF Positions
      <4> QED
        BY <4>1, <4>2, SilentStep DEF Positions, Reading, Past
    <3> QED
      BY <3>1, <3>2
  <2>5. ASSUME Serving(w) PROVE \A v \in Workers \ {w} : pc[v] \in {"idle", "unref", "astray"}
    BY <2>5, Alone
  <2>6. ASSUME NEW here, NEW next, OnError(w, here, next),
               <<here, next>> \in {<<"read error", "read open">>, <<"write error", "write open">>}
        PROVE  EventInv'
    <3>1. pc[w] = here /\ pc' = [pc EXCEPT ![w] = next] /\ UNCHANGED <<mode, did>> /\ pc[w] \notin Past
      BY <2>6 DEF OnError, Past
    <3>2. \A v \in Workers \ {w} : pc[v] \in {"idle", "unref", "astray"}
      BY <2>5, <2>6, <3>1 DEF Serving, Without
    <3>3. ~AllPast /\ (Ending <=> cancelled) /\ (cancelled' => Ending')
      BY <2>c, <2>6, <3>1 DEF AllPast, Ending
    <3>4. CASE "error" \notin did[w] /\ UNCHANGED <<log, cancelled>>
      BY <1>t, <2>6, <3>1, <3>2, <3>3, <3>4 DEF EventInv, Reading
    <3>5. CASE "error" \in did[w] /\ Dispatch("error") /\ cancelled'
      <4>1. (log'.open <=> log.open) /\ log'.opens = log.opens /\ log'.end = "error" /\ (log'.early <=> log.early)
        BY <3>5, Dispatched DEF Events
      <4> QED
        BY <1>t, <2>6, <3>1, <3>2, <3>3, <3>5, <4>1 DEF EventInv, Reading
    <3> QED
      BY <2>6, <3>4, <3>5 DEF OnError
  <2>7. ASSUME NEW here, NEW when, NEW next, NEW out, Opened(w, here, when, next, out),
               \/ <<here, when, next, out>> = <<"read open", "success" \in did[w], "read data", "write">>
               \/ <<here, when, next, out>> = <<"write open", TRUE, "write data", "done">>
        PROVE  EventInv'
    <3>1. pc[w] = here /\ UNCHANGED did /\ pc[w] \notin Past /\ next \notin Past
      BY <2>7 DEF Opened, Past
    <3>2. \A v \in Workers \ {w} : pc[v] \in {"idle", "unref", "astray"}
      BY <2>5, <2>7, <3>1 DEF Serving, Without
    <3>3. ~AllPast /\ (Ending <=> cancelled) /\ (cancelled' => Ending')
      BY <2>c, <2>7, <3>1 DEF AllPast, Ending
    <3>4. CASE ~(when /\ mode = "connect") /\ pc' = [pc EXCEPT ![w] = next] /\ UNCHANGED <<log, mode, cancelled>>
      <4>1. when => log.open
        BY <1>t, <3>4 DEF EventInv
      <4> QED
        BY <1>t, <2>7, <3>1, <3>2, <3>3, <3>4, <4>1 DEF EventInv, Reading
    <3>5. CASE when /\ mode = "connect"
      <4> Dispatch("connect")
        BY <2>7, <3>5 DEF Opened
      <4>1. /\ log'.open /\ log'.opens = log.opens + 1 /\ log'.end = log.end /\ (log'.early <=> log.early)
        BY <3>5, Dispatched DEF Events
      <4>2. log.opens = 0
        BY <3>3, <3>5 DEF EventInv
      <4>3. CASE mode' = "normal" /\ pc' = [pc EXCEPT ![w] = next] /\ UNCHANGED cancelled
        <5>1. pc'[w] = next /\ \A v \in Workers \ {w} : pc'[v] \in {"idle", "unref", "astray"}
          BY <1>t, <3>2, <4>3
        <5>2. next \in {"read data", "write data"} /\ did' = did
          BY <2>7, <3>1
        <5>3. ~(log'.end \in {"timeout", "close"})
          BY <3>3, <4>1 DEF EventInv
        <5>4. log'.opens = 1
          BY <4>1, <4>2
        <5>5. ~log'.early
          BY <4>1 DEF EventInv
        <5>6. log'.end # "no" => Ending'
          BY <3>3, <4>1, <4>3 DEF EventInv
        <5>7. log'.open
          BY <4>1
        <5>8. log'.end = log.end /\ mode' # "connect"
          BY <4>1, <4>3
        <5>9. \A v \in Workers : pc'[v] \in Reading /\ "closed" \in did'[v] =>
                                  log'.end = "no" /\ "error" \notin did'[v]
          BY <1>t, <2>7, <3>1, <5>1, <5>2, <5>8 DEF EventInv, Reading
        <5> QED
          BY <5>3, <5>4, <5>5, <5>6, <5>7, <5>8, <5>9 DEF EventInv
      <4>4. CASE cancelled' /\ pc' = [pc EXCEPT ![w] = out] /\ UNCHANGED mode
        <5>1. AllPast'
          BY <1>t, <2>7, <3>2, <4>4 DEF AllPast, Past
        <5>2. \A v \in Workers : pc'[v] \notin Reading \cup {"write data"}
          BY <5>1 DEF AllPast, Past, Reading
        <5>3. ~(log'.end \in {"timeout", "close"})
          BY <3>3, <4>1 DEF EventInv
        <5>4. log'.opens = 1
          BY <4>1, <4>2
        <5>5. ~log'.early
          BY <4>1 DEF EventInv
        <5> QED
          BY <3>3, <4>1, <4>4, <5>1, <5>2, <5>3, <5>4, <5>5 DEF EventInv
      <4> QED
        BY <2>7, <3>5, <4>3, <4>4 DEF Opened
    <3> QED
      BY <2>7, <3>4, <3>5 DEF Opened
  <2>8. CASE ReadData(w)
    <3>1. pc[w] = "read data" /\ pc' = [pc EXCEPT ![w] = "read close"] /\ UNCHANGED <<mode, did, cancelled>>
      BY <2>8 DEF ReadData, conn
    <3>2. /\ ~AllPast /\ \A v \in Workers \ {w} : pc[v] \in {"idle", "unref", "astray"}
          /\ (Ending <=> cancelled) /\ (cancelled' => Ending')
      BY <2>5, <2>c, <3>1 DEF Serving, Without, AllPast, Past, Ending
    <3>3. CASE UNCHANGED log
      BY <1>t, <3>1, <3>2, <3>3 DEF EventInv, Reading
    <3>4. CASE "success" \in did[w] /\ Dispatch("read")
      <4>1. log.open
        BY <3>1, <3>4 DEF EventInv
      <4>2. log'.open /\ log'.opens = log.opens /\ log'.end = log.end /\ (log'.early <=> log.early)
        BY <3>4, <4>1, Dispatched DEF Events
      <4> QED
        BY <1>t, <3>1, <3>2, <4>2 DEF EventInv, Reading
    <3> QED
      BY <2>8, <3>3, <3>4 DEF ReadData
  <2>9. CASE ReadClose(w)
    <3>1. pc[w] = "read close" /\ pc' = [pc EXCEPT ![w] = "write"] /\ UNCHANGED <<mode, did>>
      BY <2>9 DEF ReadClose
    <3>2. /\ ~AllPast /\ \A v \in Workers \ {w} : pc[v] \in {"idle", "unref", "astray"}
          /\ (Ending <=> cancelled) /\ (cancelled' => Ending')
      BY <2>5, <2>c, <3>1 DEF Serving, Without, AllPast, Past, Ending
    <3>3. CASE UNCHANGED <<log, cancelled>>
      BY <1>t, <3>1, <3>2, <3>3, SilentStep DEF Positions, Reading, Past
    <3>4. CASE "closed" \in did[w] /\ Dispatch("close") /\ cancelled'
      <4>1. log.end = "no"
        BY <3>1, <3>4 DEF EventInv, Reading
      <4>2. /\ log'.open <=> log.open
            /\ log'.opens = log.opens /\ log'.end = "close" /\ log'.after = {} /\ (log'.early <=> log.early)
        BY <3>4, <4>1, Dispatched DEF Events
      <4>3. AllPast'
        BY <1>t, <3>1, <3>2 DEF AllPast, Past
      <4> QED
        BY <1>t, <3>1, <3>2, <3>4, <4>2, <4>3 DEF EventInv, Reading
    <3> QED
      BY <2>9, <3>3, <3>4 DEF ReadClose
  <2>10. CASE WriteData(w)
    <3>1. pc[w] = "write data" /\ pc' = [pc EXCEPT ![w] = "done"] /\ UNCHANGED <<mode, did, cancelled>>
      BY <2>10 DEF WriteData, conn
    <3>2. /\ ~AllPast /\ \A v \in Workers \ {w} : pc[v] \in {"idle", "unref", "astray"}
          /\ (Ending <=> cancelled) /\ (cancelled' => Ending')
      BY <2>5, <2>c, <3>1 DEF Serving, Without, AllPast, Past, Ending
    <3>3. CASE UNCHANGED log
      BY <1>t, <3>1, <3>2, <3>3, SilentStep DEF Positions, Reading, Past
    <3>4. CASE Dispatch("write")
      <4>1. log.open
        BY <3>1 DEF EventInv
      <4>2. log'.open /\ log'.opens = log.opens /\ log'.end = log.end /\ (log'.early <=> log.early)
        BY <3>4, <4>1, Dispatched DEF Events
      <4> QED
        BY <1>t, <3>1, <3>2, <4>2 DEF EventInv, Reading
    <3> QED
      BY <2>10, <3>3, <3>4 DEF WriteData
  <2> QED
    BY <1>1, <2>1, <2>2, <2>3, <2>s, <2>4, <2>6, <2>7, <2>8, <2>9, <2>10 DEF Worker, ReadOpened, WriteOpened
<1>2. ASSUME UNCHANGED <<mode, log, pc, did>>, cancelled => cancelled' PROVE EventInv'
  BY <1>2 DEF EventInv, AllPast, Ending
<1>3. CASE App
  BY <1>2, <1>3 DEF App, Write, Read, Cancel, work, hist
<1>4. CASE Net \/ UNCHANGED vars
  BY <1>2, <1>4 DEF Net, Establish, Break, Arrive, PeerCloses, Transmit, Expire, vars, conn, work, hist
<1> QED
  BY <1>1, <1>3, <1>4 DEF Next

\* The dispatcher hears of the connection once, before its data, and nothing
\* after a time-out or the end of the stream, although work() goes on to its
\* other handlers (connection.cc:132-232).  The invariant says where a worker
\* may be once the end was reported.
THEOREM EventsOrdered == Spec => []EventOrder
<1>1. Init => EventInv
  BY EventInit
<1>2. EventInv /\ (TypeOK /\ Excl) /\ [Next]_vars => EventInv'
  BY EventStep
<1>3. EventInv => EventOrder
  <2> SUFFICES ASSUME EventInv PROVE EventOrder
    OBVIOUS
  <2>1. log.opens \in {0, 1}
    BY DEF EventInv
  <2>3. ~log.early
    BY DEF EventInv
  <2>4. log.opens <= 1
    BY <2>1
  <2>2. log.end \in {"timeout", "close"} => log.after = {}
    BY DEF EventInv
  <2> QED
    BY <2>2, <2>3, <2>4 DEF EventOrder
<1> QED
  BY <1>1, <1>2, <1>3, ServiceInvariant, PTL DEF Spec

----------------------------------------------------------------------------
(* The bytes.                                                              *)

\* Appending to the second of two sequences.
LEMMA AppendConcat ==
  ASSUME NEW S, NEW s \in Seq(S), NEW t \in Seq(S), NEW e \in S
  PROVE  s \o Append(t, e) = Append(s \o t, e)
<1>1. <<e>> \in Seq(S) /\ s \o t \in Seq(S)
  BY ConcatProperties
<1>2. Append(t, e) = t \o <<e>> /\ Append(s \o t, e) = (s \o t) \o <<e>>
  BY <1>1, AppendIsConcat
<1> QED
  BY <1>1, <1>2, ConcatAssociative

\* Sequences one after the other, named: as a fact about \o associativity leads
\* the solvers round in circles.
Cat(s, t)      == s \o t
Three(s, t, u) == Cat(Cat(s, t), u)

LEMMA CatAssociative ==
  ASSUME NEW S, NEW s \in Seq(S), NEW t \in Seq(S), NEW u \in Seq(S)
  PROVE  Cat(Cat(s, t), u) = Cat(s, Cat(t, u))
<1>1. (s \o t) \o u = s \o (t \o u)
  BY ConcatAssociative, SMTT(60)
<1> QED
  BY <1>1, Zenon DEF Cat

\* Moving the front of the third of three sequences to the end of the second.
LEMMA ThreeMove ==
  ASSUME NEW S, NEW s \in Seq(S), NEW t \in Seq(S), NEW u \in Seq(S), NEW n \in 0 .. Len(u)
  PROVE  Three(s, Cat(t, First(u, n)), Rest(u, n)) = Three(s, t, u)
<1> DEFINE f == First(u, n)
           r == Rest(u, n)
<1>1. f \in Seq(S) /\ r \in Seq(S) /\ Cat(f, r) = u
  BY Split DEF Cat
<1> HIDE DEF f, r
<1>2. Cat(s, t) \in Seq(S)
  BY ConcatProperties DEF Cat
<1>3. Cat(s, Cat(t, f)) = Cat(Cat(s, t), f)
  BY <1>1, CatAssociative
<1>4. Cat(Cat(Cat(s, t), f), r) = Cat(Cat(s, t), Cat(f, r))
  <2> DEFINE p == Cat(s, t)
  <2> HIDE DEF p
  <2>1. p \in Seq(S)
    BY <1>2 DEF p
  <2>2. Cat(Cat(p, f), r) = Cat(p, Cat(f, r))
    BY <1>1, <2>1, CatAssociative
  <2> QED
    BY <2>2 DEF p
<1>5. Three(s, Cat(t, f), r) = Three(s, t, u)
  BY <1>1, <1>3, <1>4 DEF Three
<1> QED
  BY <1>5 DEF f, r

LEMMA ThreeAppend ==
  ASSUME NEW S, NEW s \in Seq(S), NEW t \in Seq(S), NEW u \in Seq(S), NEW e \in S
  PROVE  Three(s, t, Append(u, e)) = Append(Three(s, t, u), e)
<1> DEFINE p == Cat(s, t)
<1>1. p \in Seq(S)
  BY ConcatProperties DEF Cat
<1> HIDE DEF p
<1>2. p \o Append(u, e) = Append(p \o u, e)
  BY <1>1, AppendConcat
<1> QED
  BY <1>2 DEF Three, Cat, p

\* The bytes of a stream rise, up to the last one written: what leaves out a
\* part of it rises as well.
Rises(out, last) ==
  /\ \A i, j \in 1 .. Len(out) : i < j => out[i] < out[j]
  /\ \A i \in 1 .. Len(out) : out[i] <= last

DataInv ==
  /\ Three(taken, rd, inbox) = Upto(arrived)
  /\ Rises(sent \o wr, written)

\* The peer's stream with one byte more.
LEMMA UptoAppend ==
  ASSUME NEW n \in Nat PROVE Upto(n + 1) = Append(Upto(n), n + 1)
<1> DEFINE S == 1 .. n + 1
           a == Append(Upto(n), n + 1)
<1>1. /\ Upto(n) \in Seq(S) /\ Len(Upto(n)) = n /\ \A i \in 1 .. n : Upto(n)[i] = i
      /\ Upto(n + 1) \in Seq(S) /\ Len(Upto(n + 1)) = n + 1 /\ \A i \in 1 .. n + 1 : Upto(n + 1)[i] = i
  BY IsASeq DEF Upto
<1>2. n + 1 \in S
  OBVIOUS
<1>3. /\ a \in Seq(S) /\ Len(a) = n + 1
      /\ \A i \in 1 .. n : a[i] = i
      /\ a[n + 1] = n + 1
  BY <1>1, <1>2, AppendProperties
<1> HIDE DEF a
<1>4. \A i \in 1 .. n + 1 : a[i] = i
  BY <1>3
<1>5. a = Upto(n + 1)
  BY <1>1, <1>3, <1>4, SeqEqual
<1> QED
  BY <1>5 DEF a

\* Send takes `size' bytes out of the buffer and passes on the first k of them:
\* what is left of the stream still rises.
LEMMA RisesAfterSend ==
  ASSUME NEW S, S \subseteq Nat, NEW s \in Seq(S), NEW t \in Seq(S), NEW last \in Nat,
         NEW size \in 0 .. Len(t), NEW k \in 0 .. size, Rises(s \o t, last)
  PROVE  Rises((s \o First(t, k)) \o Rest(t, size), last)
<1> DEFINE f == First(t, k)
           r == Rest(t, size)
           old == s \o t
           new == (s \o f) \o r
           at(i) == IF i <= Len(s) + k THEN i ELSE i + (size - k)
<1>1. Len(s) \in Nat /\ Len(t) \in Nat /\ size \in Nat /\ k \in Nat /\ k <= size /\ size <= Len(t) /\ k \in 0 .. Len(t)
  OBVIOUS
<1>2. /\ f \in Seq(S) /\ Len(f) = k /\ \A i \in 1 .. k : f[i] = t[i]
      /\ r \in Seq(S) /\ Len(r) = Len(t) - size /\ \A i \in 1 .. Len(t) - size : r[i] = t[size + i]
  BY <1>1, Split, ZenonT(60)
<1> HIDE DEF f, r
<1>3. /\ old \in Seq(S) /\ Len(old) = Len(s) + Len(t)
      /\ \A i \in 1 .. Len(s) + Len(t) : old[i] = IF i <= Len(s) THEN s[i] ELSE t[i - Len(s)]
  BY ConcatProperties
<1>4. /\ s \o f \in Seq(S) /\ Len(s \o f) = Len(s) + k
      /\ \A i \in 1 .. Len(s) + k : (s \o f)[i] = IF i <= Len(s) THEN s[i] ELSE f[i - Len(s)]
  <2>1. f \in Seq(S)
    BY <1>2
  <2>2. /\ s \o f \in Seq(S) /\ Len(s \o f) = Len(s) + Len(f)
        /\ \A i \in 1 .. Len(s) + Len(f) : (s \o f)[i] = IF i <= Len(s) THEN s[i] ELSE f[i - Len(s)]
    BY <2>1, ConcatProperties, ZenonT(60)
  <2>3. Len(f) = k
    BY <1>2
  <2> QED
    BY <2>2, <2>3, Zenon
<1>5. /\ Len(new) = Len(s) + k + (Len(t) - size)
      /\ \A i \in 1 .. Len(s) + k + (Len(t) - size) :
           new[i] = IF i <= Len(s) + k THEN (s \o f)[i] ELSE r[i - (Len(s) + k)]
  <2> DEFINE p == s \o f
  <2>1. p \in Seq(S) /\ Len(p) = Len(s) + k
    BY <1>4
  <2> HIDE DEF p
  <2>a. p \in Seq(S)
    BY <2>1
  <2>b. r \in Seq(S)
    BY <1>2
  <2> DEFINE q == p \o r
  <2>2. /\ Len(q) = Len(p) + Len(r)
        /\ \A i \in 1 .. Len(p) + Len(r) : q[i] = IF i <= Len(p) THEN p[i] ELSE r[i - Len(p)]
    BY <2>a, <2>b, ConcatProperties, ZenonT(60)
  <2> HIDE DEF q
  <2>3. Len(p) + Len(r) = Len(s) + k + (Len(t) - size)
    BY <1>2, <2>1
  <2>4. /\ Len(q) = Len(s) + k + (Len(t) - size)
        /\ \A i \in 1 .. Len(s) + k + (Len(t) - size) :
             q[i] = IF i <= Len(s) + k THEN p[i] ELSE r[i - (Len(s) + k)]
    BY <2>1, <2>2, <2>3, Zenon
  <2> QED
    BY <2>4 DEF p, q
<1> HIDE DEF new, old
<1>6. ASSUME NEW i \in 1 .. Len(new) PROVE at(i) \in 1 .. Len(old) /\ new[i] = old[at(i)]
  <2>1. i \in Nat /\ i >= 1 /\ i <= Len(s) + k + (Len(t) - size)
    BY <1>1, <1>5
  <2>2. CASE i <= Len(s)
    <3>1. at(i) = i /\ i \in 1 .. Len(s) + k /\ i \in 1 .. Len(s) + Len(t)
      BY <1>1, <2>1, <2>2
    <3>2. new[i] = s[i] /\ old[i] = s[i]
      BY <1>1, <1>3, <1>4, <1>5, <2>1, <2>2, <3>1
    <3> QED
      BY <1>3, <3>1, <3>2
  <2>3. CASE ~(i <= Len(s)) /\ i <= Len(s) + k
    <3>1. at(i) = i /\ i \in 1 .. Len(s) + k /\ i \in 1 .. Len(s) + Len(t) /\ i - Len(s) \in 1 .. k
      BY <1>1, <2>1, <2>3
    <3>2. new[i] = f[i - Len(s)] /\ old[i] = t[i - Len(s)]
      BY <1>1, <1>3, <1>4, <1>5, <2>1, <2>3, <3>1
    <3> QED
      BY <1>2, <1>3, <3>1, <3>2
  <2>4. CASE ~(i <= Len(s) + k)
    <3> DEFINE j == i - (Len(s) + k)
    <3>1. /\ at(i) = i + (size - k) /\ at(i) \in 1 .. Len(s) + Len(t) /\ ~(at(i) <= Len(s))
          /\ j \in 1 .. Len(t) - size /\ at(i) - Len(s) = size + j
      BY <1>1, <2>1, <2>4
    <3>2. new[i] = r[j]
      BY <1>5, <2>1, <2>4
    <3>3. old[at(i)] = t[size + j]
      BY <1>3, <3>1
    <3> QED
      BY <1>2, <1>3, <3>1, <3>2, <3>3
  <2> QED
    BY <2>2, <2>3, <2>4
<1>7. \A i, j \in 1 .. Len(new) : i < j => at(i) < at(j)
  BY <1>1, <1>5
<1> HIDE DEF at
<1>8. /\ \A i, j \in 1 .. Len(old) : i < j => old[i] < old[j]
      /\ \A i \in 1 .. Len(old) : old[i] <= last
  BY DEF Rises, old
<1>9. Rises(new, last)
  BY <1>6, <1>7, <1>8 DEF Rises
<1> QED
  BY <1>9 DEF new, f, r

\* write() appends a byte greater than the others.
LEMMA RisesAfterWrite ==
  ASSUME NEW S, S \subseteq Nat, NEW out \in Seq(S), NEW last \in Nat, last + 1 \in S, Rises(out, last)
  PROVE  Rises(Append(out, last + 1), last + 1)
<1> DEFINE new == Append(out, last + 1)
<1>1. /\ Len(out) \in Nat /\ Len(new) = Len(out) + 1
      /\ \A i \in 1 .. Len(out) : new[i] = out[i]
      /\ new[Len(out) + 1] = last + 1
  BY AppendProperties
<1>2. \A i \in 1 .. Len(out) : out[i] \in Nat /\ out[i] <= last
  BY ElementOfSeq DEF Rises
<1>3. \A i, j \in 1 .. Len(out) : i < j => out[i] < out[j]
  BY DEF Rises
<1> HIDE DEF new
<1>4. \A i \in 1 .. Len(new) : i \in 1 .. Len(out) \/ i = Len(out) + 1
  BY <1>1
<1>5. \A i \in 1 .. Len(new) : new[i] <= last + 1
  BY <1>1, <1>2, <1>4
<1>6. ASSUME NEW i \in 1 .. Len(new), NEW j \in 1 .. Len(new), i < j PROVE new[i] < new[j]
  <2>1. i \in 1 .. Len(out)
    BY <1>1, <1>6
  <2>2. CASE j \in 1 .. Len(out)
    BY <1>1, <1>3, <1>6, <2>1, <2>2
  <2>3. CASE j = Len(out) + 1
    BY <1>1, <1>2, <2>1, <2>3
  <2> QED
    BY <1>4, <2>2, <2>3
<1>7. Rises(new, last + 1)
  BY <1>5, <1>6 DEF Rises
<1> QED
  BY <1>7 DEF new

LEMMA DataStep == DataTyped /\ DataInv /\ [Next]_vars => DataInv'
<1> SUFFICES ASSUME DataTyped, DataInv, [Next]_vars PROVE DataInv'
  OBVIOUS
<1> DEFINE Inward  == 1 .. MaxIn
           Outward == 1 .. MaxOut
<1>t. /\ taken \in Seq(Inward) /\ rd \in Seq(Inward) /\ inbox \in Seq(Inward) /\ taken \o rd \in Seq(Inward)
      /\ sent \in Seq(Outward) /\ wr \in Seq(Outward) /\ sent \o wr \in Seq(Outward)
      /\ Inward \subseteq Nat /\ Outward \subseteq Nat /\ written \in Nat /\ arrived \in Nat
  BY ConcatProperties DEF DataTyped
<1> HIDE DEF Inward, Outward
<1>1. CASE UNCHANGED dataVars
  BY <1>1 DEF DataInv, dataVars
<1>2. ASSUME NEW n \in 0 .. Len(inbox), rd' = rd \o First(inbox, n), inbox' = Rest(inbox, n),
             UNCHANGED <<room, written, arrived, wr, sent, taken>>
      PROVE  DataInv'
  <2>1. Three(taken, Cat(rd, First(inbox, n)), Rest(inbox, n)) = Three(taken, rd, inbox)
    BY <1>t, ThreeMove, ZenonT(60)
  <2>2. rd' = Cat(rd, First(inbox, n)) /\ inbox' = Rest(inbox, n) /\ taken' = taken
    BY <1>2 DEF Cat
  <2>3. Three(taken, rd, inbox)' = Three(taken, rd, inbox)
    BY <2>1, <2>2
  <2> QED
    BY <1>2, <2>3 DEF DataInv
<1>3. ASSUME NEW size, NEW k, size = Least(Chunk, Len(wr)), k = Least(size, room),
             sent' = sent \o First(wr, k), wr' = Rest(wr, size),
             UNCHANGED <<written, arrived, rd, inbox, taken>>
      PROVE  DataInv'
  <2>1. size \in 0 .. Len(wr) /\ k \in 0 .. size
    BY <1>3, <1>t, Offered DEF DataTyped
  <2>2. Rises((sent \o First(wr, k)) \o Rest(wr, size), written)
    BY <1>t, <2>1, RisesAfterSend DEF DataInv
  <2> QED
    BY <1>3, <2>2 DEF DataInv
<1>4. CASE Write
  <2>1. /\ written' = written + 1 /\ wr' = Append(wr, written + 1) /\ written + 1 \in Outward
        /\ UNCHANGED <<sent, arrived, rd, inbox, taken>>
    BY <1>4, <1>t DEF Write, net, Outward, DataTyped
  <2>2. Rises(Append(sent \o wr, written + 1), written + 1)
    BY <1>t, <2>1, RisesAfterWrite DEF DataInv
  <2>3. sent' \o wr' = Append(sent \o wr, written + 1)
    BY <1>t, <2>1, AppendConcat
  <2> QED
    BY <2>1, <2>2, <2>3 DEF DataInv
<1>5. CASE Read
  <2>1. taken' = taken \o rd /\ rd' = << >> /\ UNCHANGED <<inbox, arrived, written, wr, sent>>
    BY <1>5 DEF Read, net
  <2>2. (taken \o rd) \o << >> = taken \o rd
    BY <1>t, ConcatEmptySeq
  <2> QED
    BY <2>1, <2>2 DEF DataInv, Three, Cat
<1>6. CASE Arrive
  <2>1. /\ arrived' = arrived + 1 /\ inbox' = Append(inbox, arrived + 1) /\ arrived + 1 \in Inward
        /\ UNCHANGED <<taken, rd, written, wr, sent>>
    BY <1>6, <1>t DEF Arrive, conn, Inward, DataTyped
  <2>2. Three(taken, rd, Append(inbox, arrived + 1)) = Append(Three(taken, rd, inbox), arrived + 1)
    <3> DEFINE next == arrived + 1
    <3>1. next \in Inward /\ taken \in Seq(Inward) /\ rd \in Seq(Inward) /\ inbox \in Seq(Inward)
      BY <1>t, <2>1
    <3> HIDE DEF next
    <3>2. Three(taken, rd, Append(inbox, next)) = Append(Three(taken, rd, inbox), next)
      BY <3>1, ThreeAppend
    <3> QED
      BY <3>2 DEF next
  <2>3. Three(taken, rd, inbox)' = Append(Upto(arrived), arrived + 1)
    BY <2>1, <2>2 DEF DataInv
  <2> QED
    BY <1>t, <2>1, <2>3, UptoAppend DEF DataInv
<1>7. CASE Cancel \/ Establish \/ Break \/ PeerCloses \/ Transmit \/ Expire \/ UNCHANGED vars
  <2>1. UNCHANGED <<taken, rd, inbox, arrived, sent, wr, written>>
    BY <1>7 DEF Cancel, Establish, Break, PeerCloses, Transmit, Expire, vars, conn, work, net, hist
  <2> QED
    BY <2>1 DEF DataInv
<1>8. ASSUME NEW w \in Workers, Worker(w) PROVE DataInv'
  BY <1>1, <1>2, <1>3, <1>8, WorkerMoves
<1> QED
  BY <1>4, <1>5, <1>6, <1>7, <1>8 DEF Next, App, Net

LEMMA DataInit == Init => DataInv
<1> SUFFICES ASSUME Init PROVE DataInv
  OBVIOUS
<1>1. taken = << >> /\ rd = << >> /\ inbox = << >> /\ sent = << >> /\ wr = << >> /\ arrived = 0
  BY DEF Init
<1>2. Upto(0) = << >> /\ << >> \o << >> = << >>
  BY ConcatEmptySeq, EmptySeq DEF Upto
<1> QED
  BY <1>1, <1>2 DEF DataInv, Rises, Three, Cat

\* No worker and no call loses, repeats or reorders a byte that is received,
\* and none that is sent leaves twice or out of order, whatever part of a chunk
\* the socket takes (connection.cc:71-130, 181-187): handing the connection
\* from worker to worker keeps both streams.
THEOREM StreamsInOrder == Spec => []InOrder
<1>1. Init => DataInv
  BY DataInit
<1>2. DataInv /\ TypeOK /\ [Next]_vars => DataInv'
  BY DataStep, TypeParts
<1>3. DataInv => InOrder
  BY DEF DataInv, InOrder, Rises, Three, Cat
<1> QED
  BY <1>1, <1>2, <1>3, ServiceInvariant, PTL DEF Spec
=============================================================================
