------------------------------- MODULE Buffers -------------------------------
(***************************************************************************)
(* A data buffer of a connection under the calls the connection makes on   *)
(* it, each within its mutex (bsd/connection.cc:187-232, 376-396,          *)
(* bsd/connection_dg.cc:41-116): a datachain for a stream, a packetchain   *)
(* for datagrams, which overrides append, peek and extract.  gets, which   *)
(* packetchain means to override (datachain.h:78), has one parameter less  *)
(* than datachain::gets (datachain.h:52), so the virtual call reaches the  *)
(* latter in both.  new never fails here.                                  *)
(***************************************************************************)
EXTENDS ChainOps

CONSTANTS MaxCall,        \* bound: the largest size passed to a call
          MaxQueue,       \* bound: bytes in a stream buffer
          MaxPackets      \* bound: packets in a datagram buffer

ASSUME BufferAssumption == MaxCall \in Nat /\ MaxQueue \in Nat /\ MaxPackets \in Nat

VARIABLES kind, chain, answer

vars == <<kind, chain, answer>>

Sizes  == 0 .. MaxCall
Blocks == UNION {[1 .. n -> Bytes] : n \in Sizes}
Flags  == SUBSET {"peek", "measure", "untrimmed"}

Init == /\ kind \in {"stream", "packet"}
        /\ chain = << >> /\ answer = <<"none">>

\* append
HasRoom(src) == \/ kind = "stream" /\ Len(Content(chain)) + Len(src) =< MaxQueue
                \/ kind = "packet" /\ Len(chain) < MaxPackets

Write(src) == /\ HasRoom(src)
              /\ chain' = IF kind = "stream" THEN AppendBytes(chain, src) ELSE AppendPacket(chain, src)
              /\ answer' = <<"append", src>>
              /\ UNCHANGED kind

Peeked(n) == IF kind = "stream" THEN PeekBytes(chain, n) ELSE PeekPacket(chain, n)

\* peek
Peek(n) == answer' = <<"data", n, Peeked(n)>> /\ UNCHANGED <<kind, chain>>

\* extract
Extract(n) == /\ answer' = <<"data", n, Peeked(n)>>
              /\ chain' = RemoveBytes(chain, Len(Peeked(n)))
              /\ UNCHANGED kind

\* peek and remove, as on_write does with what the socket took
Depart(n) == LET size == Len(Peeked(n)) IN
             /\ chain' = RemoveBytes(chain, size)
             /\ UNCHANGED <<kind, answer>>

\* gets.  The byte that datachain.cc:163 may read behind the end of an item is
\* taken for something else than LF.  Not for datagrams: "the gets function is
\* unavailable" (datachain.h:67).
Gets(n, flags) ==
  /\ kind = "stream"
  /\ UNCHANGED kind
  /\ \/ Lines(chain) = {} /\ answer' = <<"no data">> /\ UNCHANGED chain
     \/ /\ Lines(chain) # {} /\ "measure" \in flags
        /\ answer' = <<"size", LineSize(chain)>> /\ UNCHANGED chain
     \/ /\ Lines(chain) # {} /\ "measure" \notin flags
        /\ answer' = <<"line", n, flags, LineText(chain, n, flags)>>
        /\ chain' = IF "peek" \in flags THEN chain ELSE RemoveBytes(chain, LineSize(chain))

Next == \/ \E src \in Blocks : Write(src)
        \/ \E n \in Sizes : Peek(n) \/ Extract(n) \/ Depart(n)
        \/ \E n \in Sizes, flags \in Flags : Gets(n, flags)

Spec == Init /\ [][Next]_vars

----------------------------------------------------------------------------
\* The type invariant.  Only the head is partly consumed, and only the tail of
\* a stream partly filled, so a chain holds at most two items more than its
\* bytes need (datachain.cc:49-53, 93-108); an item without bytes is the only
\* one.
TypeOK == /\ kind \in {"stream", "packet"}
          /\ answer[1] \in {"none", "append", "data", "line", "no data", "size"}
          /\ \A k \in 1 .. Len(chain) :
               /\ chain[k] \in Items /\ chain[k].dead =< Used(chain[k])
               /\ k > 1 => chain[k].dead = 0
               /\ kind = "stream" /\ k < Len(chain) => Used(chain[k]) = ItemSize
               /\ Live(chain[k]) = << >> => Len(chain) = 1

Said(here) == IF kind = here THEN answer ELSE <<"none">>

\* Bytes come out of a stream buffer in the order they were written, each
\* once, across the borders of items and whatever calls are mixed; its lines
\* are the lines of the stream.
Q == INSTANCE ByteQueue WITH queue  <- IF kind = "stream" THEN Content(chain) ELSE << >>,
                             answer <- Said("stream")
IsByteQueue == Q!Spec

\* Datagrams stay apart: a read returns bytes of the oldest one only, and every
\* byte of a datagram that was not cut is read once (packetchain.cc:10-64).
P == INSTANCE PacketQueue WITH
       packets <- IF kind # "packet" \/ Content(chain) = << >> THEN << >>
                  ELSE [k \in 1 .. Len(chain) |-> Live(chain[k])],
       answer  <- Said("packet")
IsPacketQueue == P!Spec
=============================================================================
