------------------------------ MODULE ChainOps ------------------------------
(***************************************************************************)
(* The chains of fixed-size blocks that buffer the data of a connection:   *)
(* datachain (common/datachain.cc) for streams and packetchain             *)
(* (common/packetchain.cc) for datagrams, as functions on the value of a   *)
(* chain.  A chain is the sequence of its items from head to tail; an item *)
(* holds the `used' bytes of its data and counts how many of them are      *)
(* already consumed (`dead').                                              *)
(***************************************************************************)
EXTENDS Integers, Sequences, SequencesExt, FiniteSetsExt

CONSTANTS Bytes, CR, LF,
          ItemSize        \* sizeof(datachainitem::data): 2048 in the code

ASSUME ChainAssumption == CR \in Bytes /\ LF \in Bytes /\ ItemSize \in Nat \ {0}

Items == [data : UNION {[1 .. n -> Bytes] : n \in 0 .. ItemSize}, dead : 0 .. ItemSize]

Used(item) == Len(item.data)
Live(item) == SubSeq(item.data, item.dead + 1, Used(item))
Fresh      == [data |-> << >>, dead |-> 0]

\* What a walk from head to tail reads.
Content(c) == FlattenSeq([k \in 1 .. Len(c) |-> Live(c[k])])

\* append() makes the first item of an empty chain, whatever the size.
NonEmpty(c) == IF c = << >> THEN <<Fresh>> ELSE c

Filled(item, src) == [item EXCEPT !.data = @ \o src]

\* Faulty: the new items start from the first byte of the source again.
AppendRestarts(c, src) ==
  LET d     == NonEmpty(c)
      first == Min({ItemSize - Used(d[Len(d)]), Len(src)})
      size  == Len(src) - first
      more  == (size + ItemSize - 1) \div ItemSize
  IN  [d EXCEPT ![Len(d)] = Filled(@, SubSeq(src, 1, first))]
        \o [k \in 1 .. more |->
              Filled(Fresh, SubSeq(src, (k - 1) * ItemSize + 1, Min({k * ItemSize, size})))]

\* datachain::append: fill the tail, then as many new items as it takes.
AppendBytes(c, src) ==
  LET d     == NonEmpty(c)
      first == Min({ItemSize - Used(d[Len(d)]), Len(src)})
      rest  == SubSeq(src, first + 1, Len(src))
      more  == (Len(rest) + ItemSize - 1) \div ItemSize
  IN  [d EXCEPT ![Len(d)] = Filled(@, SubSeq(src, 1, first))]
        \o [k \in 1 .. more |->
              Filled(Fresh, SubSeq(rest, (k - 1) * ItemSize + 1, Min({k * ItemSize, Len(rest)})))]

\* Faulty: a packet that fits joins the item at the tail.
AppendMerged(c, src) ==
  LET d    == NonEmpty(c)
      e    == IF Used(d[Len(d)]) + Len(src) > ItemSize THEN d \o <<Fresh>> ELSE d
      part == SubSeq(src, 1, Min({ItemSize, Len(src)}))
  IN  IF src = << >> THEN d ELSE [e EXCEPT ![Len(e)] = Filled(@, part)]

\* packetchain::append: one item for one packet; what does not fit is dropped.
AppendPacket(c, src) ==
  LET d    == NonEmpty(c)
      e    == IF Used(d[Len(d)]) # 0 THEN d \o <<Fresh>> ELSE d
      part == SubSeq(src, 1, Min({ItemSize, Len(src)}))
  IN  IF src = << >> THEN d ELSE [e EXCEPT ![Len(e)] = Filled(@, part)]

\* datachain::peek goes through the chain, packetchain::peek stays in its head.
PeekBytes(c, n)  == SubSeq(Content(c), 1, Min({n, Len(Content(c))}))
PeekPacket(c, n) == IF c = << >> THEN << >> ELSE PeekBytes(<<c[1]>>, n)

\* Faulty: the items that have no byte left stay in the chain.
RemoveKeeps(c, n) ==
  LET before(k) == Len(Content(SubSeq(c, 1, k - 1)))
  IN  [k \in 1 .. Len(c) |->
         [c[k] EXCEPT !.dead = @ + Min({Len(Live(c[k])), Max({0, n - before(k)})})]]

\* datachain::remove: mark n bytes dead from the head on, then drop the items
\* at the head that have no byte left.
RemoveBytes(c, n) ==
  LET before(k) == Len(Content(SubSeq(c, 1, k - 1)))
      marked    == [k \in 1 .. Len(c) |->
                      [c[k] EXCEPT !.dead = @ + Min({Len(Live(c[k])), Max({0, n - before(k)})})]]
      alive     == {k \in 1 .. Len(c) : Used(marked[k]) # marked[k].dead}
  IN  IF alive = {} THEN << >> ELSE SubSeq(marked, Min(alive), Len(c))

----------------------------------------------------------------------------
\* datachain::gets.  The first loop counts the bytes up to the first LF.
Lines(c)    == {k \in 1 .. Len(Content(c)) : Content(c)[k] = LF}
LineSize(c) == Min(Lines(c))

\* "Back off and strip all trailing CR's."
Stripped(s) == LET kept == {k \in 1 .. Len(s) : s[k] \notin {CR, LF}}
               IN  SubSeq(s, 1, IF kept = {} THEN 0 ELSE Max(kept))

\* The string left in a buffer of n characters: copied, stripped, and cut by
\* one if that leaves no room for the NUL.
LineText(c, n, flags) ==
  LET copied == SubSeq(Content(c), 1, Min({n, LineSize(c)}))
      text   == IF "untrimmed" \in flags THEN copied ELSE Stripped(copied)
  IN  IF Len(text) = n /\ n > 0 THEN SubSeq(text, 1, n - 1) ELSE text
=============================================================================
