------------------------------- MODULE MCData -------------------------------
(***************************************************************************)
(* The parts that handle data, for TLC, each on its own: a behaviour is    *)
(* about one `part', and the others stay as they are.                      *)
(***************************************************************************)
EXTENDS Buffers, PageMan, Startup, Datagram, Samples

VARIABLE part

All == <<vars, pageVars, startVars, dgVars, part, sample>>

----------------------------------------------------------------------------
(* Packets, addresses and moments to try.                                  *)

Ab  == <<97, 98>>         \* "ab"
Abc == <<97, 98, Dot, 99>>
Cd  == <<99, 99, 99, Dot, 100, 100, Dot, 101>>

MCTexts   == {<<122>>, Ab, Abc, Cd, Abc \o <<Dot>>, <<Dot>>, << >>, <<97, Dot, Dot, 98>>}
MCRooms   == {16, 20, 30, 99}
MCShorts  == {1, 772}

\* The question is at the first octet behind the header: pointers lead there,
\* past the first label, or past one pointer.
MCEncodings == {Encoded(Ab), Pointer(1), <<1, 120>> \o Pointer(1)}
MCBodies    == {<<1, 2, 3, 4>>, Encoded(Cd), Compressed(<<122>>, 4)}
MCAnswers   == [name : MCEncodings, type : {1, 12, 16}, class : {1}, ttl : {<<0, 0, 1, 0>>}, body : MCBodies]
                 \cup [name : {Pointer(1)}, type : {1, 12}, class : {3}, ttl : {<<0, 0, 1, 0>>}, body : MCBodies]

MCFlags(rcode) == [f \in DOMAIN Unit |-> CASE f = "qr" -> 1 [] f = "rcode" -> rcode [] f = "z" -> 5 [] OTHER -> 0]
MCReply(as, rcode) == [id |-> 515, flags |-> MCFlags(rcode), asked |-> Abc, type |-> 1, as |-> as]
MCReplies == {MCReply(as, 0) : as \in {<< >>} \cup {<<a>> : a \in MCAnswers} \cup {<<a, b>> : a, b \in MCAnswers}}
               \cup {MCReply(<<a>>, 3) : a \in MCAnswers}
MCCuts    == {0, 1, 2, 18}

MCQuads == [Octets -> {0, 10, 255}]
MCTimes == {0, 1, 999, 1000, 1001, 2500, 4999}

----------------------------------------------------------------------------
MCInit ==
  /\ Init /\ PageInit /\ StartInit /\ DgInit
  /\ \/ part \in {"buffers", "pages", "startup", "datagrams"} /\ sample = [what |-> "none"]
     \/ part = "samples" /\ SampleInit
  /\ part # "buffers" => kind = "stream"
  /\ part # "startup" => port = "bsd"

MCNext ==
  /\ UNCHANGED <<part, sample>>
  /\ \/ part = "buffers"   /\ Next      /\ UNCHANGED <<pageVars, startVars, dgVars>>
     \/ part = "pages"     /\ PageNext  /\ UNCHANGED <<vars, startVars, dgVars>>
     \/ part = "startup"   /\ StartNext /\ UNCHANGED <<vars, pageVars, dgVars>>
     \/ part = "datagrams" /\ DgNext    /\ UNCHANGED <<vars, pageVars, startVars>>

MCSpec == MCInit /\ [][MCNext]_All
=============================================================================
