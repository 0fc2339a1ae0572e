----------------------------- MODULE PacketQueue -----------------------------
(***************************************************************************)
(* What a datagram buffer promises (datachain.h:62-67): packets, each cut  *)
(* to the size of an item when it is queued, and read one at a time.       *)
(***************************************************************************)
EXTENDS Integers, Sequences

CONSTANTS Bytes, ItemSize, MaxCall

VARIABLES packets,        \* what is left of the packets in the buffer
          answer          \* the last call: what it was given and what it returned

vars == <<packets, answer>>

Sizes  == 0 .. MaxCall
Blocks == UNION {[1 .. n -> Bytes] : n \in Sizes}

First(s, n) == SubSeq(s, 1, IF n < Len(s) THEN n ELSE Len(s))

Init == packets = << >> /\ answer = <<"none">>

Write(src) == /\ answer' = <<"append", src>>
              /\ packets' = IF src = << >> THEN packets ELSE Append(packets, First(src, ItemSize))

Peek(n) == /\ answer' = <<"data", n, IF packets = << >> THEN << >> ELSE First(Head(packets), n)>>
           /\ UNCHANGED packets

\* One packet at most; what the caller has no room for can be read later.
Less(n) == IF packets = << >> THEN << >>
           ELSE IF n >= Len(Head(packets)) THEN Tail(packets)
           ELSE <<SubSeq(Head(packets), n + 1, Len(Head(packets)))>> \o Tail(packets)

Extract(n) == /\ answer' = <<"data", n, IF packets = << >> THEN << >> ELSE First(Head(packets), n)>>
              /\ packets' = Less(n)

Depart(n)  == packets' = Less(n) /\ UNCHANGED answer

Next == \/ \E src \in Blocks : Write(src)
        \/ \E n \in Sizes : Peek(n) \/ Extract(n) \/ Depart(n)

Spec == Init /\ [][Next]_vars
=============================================================================
