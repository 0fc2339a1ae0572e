------------------------------- MODULE Packet -------------------------------
(***************************************************************************)
(* The packets that the resolver writes and reads (resolver/header.cc, the *)
(* inline functions of class header in resolver/resolver.h), as operators. *)
(*                                                                         *)
(* A packet is a sequence of octets.  The pair `src' and `size' of the     *)
(* code is a position in it, one past the end when nothing is left; 0      *)
(* stands for the answer "false".  A text is a sequence of characters.     *)
(***************************************************************************)
EXTENDS Integers, Sequences, FiniteSets, SequencesExt, FiniteSetsExt

CONSTANTS NameSize,       \* sizeof(hostname_t::data): what get() may fill
          MaxFound,       \* the size of the array in on_event: 16
          MaxJumps        \* bound: pointers followed in one name

ASSUME PacketAssumption == NameSize \in Nat \ {0} /\ MaxFound \in Nat \ {0} /\ MaxJumps \in Nat \ {0}

Dot == 46
Bad == 256                \* no octet: a name that cannot be read

TypeA   == 1
TypePtr == 12
ClassIn == 1

----------------------------------------------------------------------------
\* get and put of a short, most significant octet first.
Short(p, i)  == p[i] * 256 + p[i + 1]
PutShort(n)  == <<n \div 256, n % 256>>

\* header::dump and header::parse.  The flags are bit fields of one short;
\* parse fails if there are less than twelve octets.
Unit  == [qr |-> 32768, opcode |-> 2048, aa |-> 1024, tc |-> 512, rd |-> 256, ra |-> 128, z |-> 16, rcode |-> 1]
Count == [qr |-> 2, opcode |-> 16, aa |-> 2, tc |-> 2, rd |-> 2, ra |-> 2, z |-> 8, rcode |-> 16]

Flag(n, f) == (n \div Unit[f]) % Count[f]
Together(v) == v.qr * Unit.qr + v.opcode * Unit.opcode + v.aa * Unit.aa + v.tc * Unit.tc
                 + v.rd * Unit.rd + v.ra * Unit.ra + v.z * Unit.z + v.rcode * Unit.rcode

Dump(h) == PutShort(h.id) \o PutShort(Together(h.flags))
             \o PutShort(h.qd) \o PutShort(h.an) \o PutShort(h.ns) \o PutShort(h.ar)

HeaderSize == 12
Parsed(p)  == Len(p) >= HeaderSize
Parse(p)   == [id |-> Short(p, 1), flags |-> [f \in DOMAIN Unit |-> Flag(Short(p, 3), f)],
               qd |-> Short(p, 5), an |-> Short(p, 7), ns |-> Short(p, 9), ar |-> Short(p, 11)]

----------------------------------------------------------------------------
(* Names.                                                                  *)

\* Faulty: an empty label is not noticed.
LabelEndLate(text, i) == Min({j \in i + 1 .. Len(text) : text[j] = Dot} \cup {Len(text) + 1})

\* The first dot from position i on, or one past the end.
LabelEnd(text, i) == Min({j \in i .. Len(text) : text[j] = Dot} \cup {Len(text) + 1})

\* header::put of a name: each label behind its length.  A dot at the end is
\* skipped, an empty label is an error, and so is a lack of room.
PutName(text, room) ==
  LET from[i \in 1 .. Len(text) + 2] ==
        IF i > Len(text) THEN <<0>>
        ELSE LET e == LabelEnd(text, i) IN
             IF e = i THEN <<Bad>> ELSE <<(e - i) % 256>> \o SubSeq(text, i, e - 1) \o from[e + 1]
      octets == from[1]
  IN  IF Last(octets) = Bad \/ Len(octets) > room THEN <<Bad>> ELSE octets

\* header::skip_name
SkipName(p, i) ==
  LET end == Len(p) + 1
      past[k \in 1 .. end] ==
        IF k = end THEN 0
        ELSE IF p[k] = 0 THEN k + 1
        ELSE IF p[k] \in 1 .. 63 THEN past[Min({k + p[k] + 1, end})]
        ELSE IF k + 1 < end THEN k + 2 ELSE 0
  IN  IF i = 0 THEN 0 ELSE past[i]

\* Faulty: the bits that mark a pointer are left in.
TargetMarked(p, k) == Short(p, k)

\* Where a pointer leads: an offset from the start of the packet.
Target(p, k) == Short(p, k) % 16384

\* How much of a label is copied: what there is of it, and what there is room for.
Held(p, k, room) == Min({p[k], Len(p) - k, room})

\* header::get of a name: the loop, and the recursion for a pointer, which the
\* code does not bound.  A label that does not fit is cut, and what follows is
\* taken for labels again, but not copied.
NameLoop(p, i, size) ==
  LET end == Len(p) + 1
      next[at \in (0 .. MaxJumps) \X (1 .. end) \X (0 .. size)] ==
        LET jumps == at[1]
            k     == at[2]
            room  == at[3]
            n     == Held(p, k, room)
        IN
        IF k = end \/ p[k] = 0 THEN << >>
        ELSE IF p[k] \in 1 .. 191 THEN
          SubSeq(p, k + 1, k + n)
            \o IF n = room THEN next[<<jumps, k + n + 1, 0>>]
               ELSE <<Dot>> \o next[<<jumps, k + n + 1, room - n - 1>>]
        ELSE IF k + 1 = end \/ room = 0 \/ jumps = 0 \/ Target(p, k) >= Len(p) THEN <<Bad>>
        ELSE next[<<jumps - 1, Target(p, k) + 1, room>>]
  IN  IF i = 0 THEN <<Bad>> ELSE next[<<MaxJumps, i, size>>]

\* The end of get(): dots go, and a text that fills the buffer loses its last
\* character to the NUL.
GetName(p, i, size) ==
  LET all  == NameLoop(p, i, size)
      kept == {k \in 1 .. Len(all) : all[k] # Dot}
      text == SubSeq(all, 1, IF kept = {} THEN 0 ELSE Max(kept))
  IN  IF all # << >> /\ Last(all) = Bad THEN <<Bad>>
      ELSE IF Len(text) = size THEN Front(text) ELSE text

----------------------------------------------------------------------------
(* Replies.                                                                *)

\* header::skip_echo: the position behind the questions, or 0.  Where the code
\* stops at a name it cannot skip, what is left cannot hold an answer either.
SkipEcho(p, n) ==
  LET behind[k \in 0 .. n] ==
        IF k = 0 THEN HeaderSize + 1
        ELSE LET i == SkipName(p, behind[k - 1]) IN IF i = 0 \/ i + 3 > Len(p) THEN 0 ELSE i + 4
  IN  behind[n]

\* The fixed part of an answer, when it is there, and its data is.
NoRecord == [type |-> 0, class |-> 0, length |-> 0, body |-> 0]
Record(p, i) ==
  LET j == SkipName(p, i) IN
  IF j = 0 \/ j + 9 > Len(p) THEN NoRecord
  ELSE LET r == [type |-> Short(p, j), class |-> Short(p, j + 2), length |-> Short(p, j + 8), body |-> j + 10]
       IN  IF r.body + r.length - 1 > Len(p) THEN NoRecord ELSE r

\* Both loops over the answers, which end at the first one that is not whole;
\* Behind(r, i) is where the next one is looked for.
Records(p, Behind(_, _)) ==
  LET h == Parse(p)
      at[n \in 1 .. h.an + 1] ==
        IF n = 1 THEN SkipEcho(p, h.qd)
        ELSE LET r == Record(p, at[n - 1]) IN IF r = NoRecord THEN 0 ELSE Behind(r, at[n - 1])
      all == [n \in 1 .. h.an |-> Record(p, at[n])]
      bad == {n \in 1 .. h.an : all[n] = NoRecord}
  IN  IF h.flags.rcode # 0 THEN << >>
      ELSE SubSeq(all, 1, IF bad = {} THEN h.an ELSE Min(bad) - 1)

IsAddr(r) == r.type = TypeA /\ r.class = ClassIn /\ r.length = 4
IsHost(r) == r.type = TypePtr /\ r.class = ClassIn

\* header::get_addrs
GetAddrs(p) ==
  LET Behind(r, i) == r.body + r.length
      seen  == Records(p, Behind)
      found == FlattenSeq([n \in 1 .. Len(seen) |->
                 IF IsAddr(seen[n]) THEN <<SubSeq(p, seen[n].body, seen[n].body + 3)>> ELSE << >>])
  IN  SubSeq(found, 1, Min({Len(found), MaxFound}))

\* header::get_hosts.  It steps by the length of the data from the start of the
\* record, not from that of its data, and fills the element with the number of
\* the record: this is what is left in the array, and the count.
GetHosts(p) ==
  LET Behind(r, i) == i + r.length
      seen  == Records(p, Behind)
      names == [n \in 1 .. Len(seen) |-> IF IsHost(seen[n]) THEN GetName(p, seen[n].body, NameSize) ELSE << >>]
      bad   == {n \in 1 .. Len(seen) : names[n] = <<Bad>>}
      good  == {n \in 1 .. Len(seen) : IsHost(seen[n]) /\ \A b \in bad : n < b}
  IN  [count |-> Min({Cardinality(good), MaxFound}), hostv |-> names]

----------------------------------------------------------------------------
(* Requests: getaddr::dump, gethost::dump.                                 *)

NoFlags == [f \in DOMAIN Unit |-> 0]
Asking(id) == [id |-> id, flags |-> [NoFlags EXCEPT !.rd = 1], qd |-> 1, an |-> 0, ns |-> 0, ar |-> 0]

Query(id, text, type, room) ==
  LET name == PutName(text, room - HeaderSize) IN
  IF name = <<Bad>> \/ HeaderSize + Len(name) + 4 > room THEN <<Bad>>
  ELSE Dump(Asking(id)) \o name \o PutShort(type) \o PutShort(ClassIn)
=============================================================================
