------------------------------- MODULE MCStock -------------------------------
(***************************************************************************)
(* Stock for TLC, with a history of the ids handed out last.               *)
(***************************************************************************)
EXTENDS Stock

VARIABLE recent     \* the ids of the last Serials - 1 objects stored, oldest first

MCInit == Init /\ recent = << >>

Remember == recent' = IF \E o \in Objects : Add(o)
                      THEN LET r == Append(recent, answer'[3])
                           IN  SubSeq(r, IF Len(r) < Serials THEN 1 ELSE 2, Len(r))
                      ELSE recent

MCNext == Next /\ Remember

MCSpec == MCInit /\ [][MCNext]_<<vars, recent>>

\* An id is not handed out again before Serials - 1 other objects got theirs,
\* however often its slot is freed and taken (stock.h:119): a client that
\* keeps the id of a removed object does not hit a newer one before that.
NoEarlyReuse ==
  [][cnt' < SlotSpan /\ recent' # recent => answer'[3] \notin {recent[n] : n \in 1 .. Len(recent)}]_<<vars, recent>>
=============================================================================
