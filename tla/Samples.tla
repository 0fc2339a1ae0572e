------------------------------ MODULE Samples ------------------------------
(***************************************************************************)
(* The operators of Packet and Values in use.  They have no state: a       *)
(* behaviour is one sample, a reply that came, a text that is asked for,   *)
(* an address or two moments.  TLC tries a few samples; the proofs are     *)
(* about all that the assumption admits.                                   *)
(***************************************************************************)
EXTENDS Packet, Values

CONSTANTS Texts,          \* names as strings
          Rooms,          \* sizes of buffers
          Shorts,         \* ids and types of queries
          Encodings,      \* names in packets, compressed or not
          Replies,        \* what a name server answers
          Cuts,           \* how many octets of a reply do not come
          Quads,          \* addresses
          Times           \* milliseconds

VARIABLE sample

Byte   == 0 .. 255
Number == 0 .. 65535

\* Names have characters of seven bits, and a dot after 63 others: put() does
\* not refuse a longer label, whose length is then taken for a pointer.
IsName(t) == /\ t \in Seq(1 .. 127) /\ Len(t) < 256
             /\ \A i \in 1 .. Len(t) - 63 : \E j \in i .. i + 63 : t[j] = Dot

Answer == [name : Encodings, type : Number, class : Number, ttl : [1 .. 4 -> Byte], body : Seq(Byte)]

ASSUME SampleAssumption ==
  /\ \A t \in Texts : IsName(t)
  /\ Rooms \subseteq Nat /\ Shorts \subseteq Number /\ Cuts \subseteq Nat
  /\ \A e \in Encodings : e \in Seq(Byte) /\ SkipName(e, 1) = Len(e) + 1
  /\ \A r \in Replies : /\ r.id \in Number /\ r.flags \in [DOMAIN Unit -> Nat]
                        /\ \A f \in DOMAIN Unit : r.flags[f] \in 0 .. Count[f] - 1
                        /\ r.asked \in Texts /\ r.type \in Number
                        /\ r.as \in Seq(Answer) /\ Len(r.as) \in Number
                        /\ \A n \in 1 .. Len(r.as) : Len(r.as[n].body) \in Number
  /\ Quads \subseteq [Octets -> Byte] /\ Times \subseteq 0 .. Wrap - 1

SampleInit ==
  \/ sample \in [what : {"reply"}, of : Replies, cut : Cuts]
  \/ sample \in [what : {"text"}, of : Texts, id : Shorts, type : Shorts, room : Rooms]
  \/ sample \in [what : {"address"}, addr : Quads, prefix : 0 .. 32]
  \/ sample \in [what : {"times"}, a : Times, b : Times]

SampleSpec == SampleInit /\ [][FALSE]_sample

----------------------------------------------------------------------------
(* Queries.                                                                *)

Proper(text) == text # << >> /\ text[1] # Dot /\ \A n \in 2 .. Len(text) : text[n] = Dot => text[n - 1] # Dot

\* A name without the dot that may end it, and what a buffer shows of it.
Bare(text)     == IF text # << >> /\ Last(text) = Dot THEN Front(text) ELSE text
Shown(name, n) == SubSeq(name, 1, Min({Len(name), n - 1}))

\* The octets that a name takes.
Encoded(text) == PutName(text, Len(text) + 2)
Extent(text)  == IF text = << >> THEN 1 ELSE Len(Bare(text)) + 2

\* A request carries the header that was meant, and the name that was asked
\* for, as much of it as the reader has room for; it is refused if it does not
\* fit, and for an empty label (header.cc:24-64, 100-172).
QueryRead ==
  sample.what = "text" =>
    LET text == sample.of
        q    == Query(sample.id, text, sample.type, sample.room)
    IN  /\ q = <<Bad>> <=> \/ text # << >> /\ ~Proper(text)
                          \/ HeaderSize + Extent(text) + 4 > sample.room
        /\ q # <<Bad>> =>
             /\ Len(q) =< sample.room /\ Parse(q) = Asking(sample.id)
             /\ GetName(q, HeaderSize + 1, NameSize) = Shown(Bare(text), NameSize)
             /\ SkipName(q, HeaderSize + 1) = Len(q) - 3
             /\ Short(q, Len(q) - 3) = sample.type /\ Short(q, Len(q) - 1) = ClassIn

----------------------------------------------------------------------------
(* Replies.                                                                *)

Head0(r) == [id |-> r.id, flags |-> r.flags, qd |-> 1, an |-> Len(r.as), ns |-> 0, ar |-> 0]
Wire(a)  == a.name \o PutShort(a.type) \o PutShort(a.class) \o a.ttl \o PutShort(Len(a.body)) \o a.body

\* The reply with its first n answers.
Until(r, n) == Dump(Head0(r)) \o Encoded(r.asked) \o PutShort(r.type) \o PutShort(ClassIn)
                 \o FlattenSeq([k \in 1 .. n |-> Wire(r.as[k])])

\* What came of it: everything, or all but a few octets.
Came(s) == LET whole == Until(s.of, Len(s.of.as)) IN SubSeq(whole, 1, Len(whole) - s.cut)

\* The header is read as it was written, and get_addrs finds the addresses of a
\* reply, in their order, whatever the other answers are and however names are
\* compressed; of a reply that was cut, those that came as a whole; of an
\* error, none.
AddrsFound ==
  LET p     == Came(sample)
      r     == sample.of
      whole == Max({0} \cup {n \in 1 .. Len(r.as) : Len(Until(r, n)) =< Len(p)})
      addrs == FlattenSeq([n \in 1 .. whole |->
                 IF r.as[n].type = TypeA /\ r.as[n].class = ClassIn /\ Len(r.as[n].body) = 4
                 THEN <<r.as[n].body>> ELSE << >>])
  IN  /\ Parse(p) = Head0(r)
      /\ GetAddrs(p) = IF r.flags.rcode = 0 THEN SubSeq(addrs, 1, Min({Len(addrs), MaxFound})) ELSE << >>

\* A pointer to the label of the question that begins with character i of its
\* name, and a label with such a pointer behind it.
Pointer(i)           == LET offset == HeaderSize + i - 1 IN <<192 + offset \div 256, offset % 256>>
Compressed(label, i) == <<Len(label)>> \o label \o Pointer(i)

\* Of a reply with one answer, which is a name, get_hosts gives that name, also if
\* it ends in labels of the question.  With more answers the code takes its steps
\* from the wrong place.
HostFound(hosts) ==
  LET r == sample.of
      a == r.as[1]
      Gives(name) == hosts = [count |-> 1, hostv |-> <<Shown(name, NameSize)>>]
  IN  sample.cut = 0 /\ r.flags.rcode = 0 /\ Len(r.as) = 1 /\ a.type = TypePtr /\ a.class = ClassIn =>
        /\ \A text \in Texts : Proper(text) /\ a.body = Encoded(text) => Gives(Bare(text))
        /\ \A label \in Texts, i \in 1 .. Len(Bare(r.asked)) :
             /\ Proper(label) /\ (\A n \in 1 .. Len(label) : label[n] # Dot) /\ Len(label) + 1 < NameSize
             /\ i > 1 => r.asked[i - 1] = Dot
             /\ a.body = Compressed(label, i)
             => Gives(label \o <<Dot>> \o SubSeq(Bare(r.asked), i, Len(Bare(r.asked))))

\* What the parsers find in a reply is what the name server put there, at the
\* end of a packet and through compression (header.cc:67-97, 120-337).
ReplyRead == sample.what = "reply" /\ Proper(sample.of.asked) /\ Parsed(Came(sample)) =>
  AddrsFound /\ HostFound(GetHosts(Came(sample)))

----------------------------------------------------------------------------
(* Addresses and moments.                                                  *)

\* The bits of an octet that are set, from the most significant one on.
Weight      == <<128, 64, 32, 16, 8, 4, 2, 1>>
Ones(octet) == {b \in 1 .. 8 : (octet \div Weight[b]) % 2 = 1}

\* An address with a prefix is read as it is written, with a mask of that many
\* leading ones, which may be written as an address too; and without one.
AddressRead ==
  sample.what = "address" =>
    LET a == sample.addr
        r == Aton(Ntoa(a) \o <<Slash, sample.prefix>>)
    IN  /\ r.ok /\ r.addr = a
        /\ UNION {{8 * (k - 1) + b : b \in Ones(r.mask[k])} : k \in Octets} = 1 .. sample.prefix
        /\ Aton(Ntoa(a)) = [ok |-> TRUE, addr |-> a, mask |-> Prefix(32)]
        /\ Aton(Ntoa(a) \o <<Slash>> \o Ntoa(Prefix(sample.prefix))) = r

\* Time-outs are as long as they should be: differences of moments, and their
\* order, are those of the milliseconds, as on_pulse and the monitor of the
\* resolver need them.
TimeKept ==
  sample.what = "times" =>
    LET a == Moment(sample.a)
        b == Moment(sample.b)
    IN  /\ Minus(Plus(a, b), a) = b /\ Mseconds(b) = sample.b
        /\ Before(a, b) <=> sample.a < sample.b
        /\ sample.a >= sample.b => Mseconds(Minus(a, b)) = sample.a - sample.b

\* Addresses and moments mean what their parts mean, at the borders of octets
\* and of seconds (rascal_aton.cc:28-100, ftspec.cc:29-108).
ValuesKept == AddressRead /\ TimeKept
=============================================================================
