------------------------------ MODULE MCGetSrv ------------------------------
(* Service location for TLC: three hosts, one of them with two addresses, two *)
(* with names too long for a record, one of which is kept like the third.     *)
EXTENDS GetSrv
CONSTANTS h1, h2, h3, cut, a1, a2, b1, c1

MCAddressesOf == (h1 :> <<a1, a2>>) @@ (h2 :> <<b1>>) @@ (h3 :> <<c1>>)
MCKept        == (h1 :> cut) @@ (h2 :> h2) @@ (h3 :> h2)

Rec(kind, host, priority, weight) == [kind |-> kind, host |-> host, priority |-> priority, weight |-> weight]

Usual   == <<Rec("srv", h1, 1, 1), Rec("srv", h2, 2, 1)>>
Partial == <<Rec("other", h1, 0, 0), Rec("srv", h2, 1, 0), Rec("srv", h2, 1, 2), Rec("cut", h1, 0, 0)>>
Alike   == <<Rec("srv", h3, 2, 1), Rec("srv", h2, 1, 1)>>
MCAnswers == {Usual, Partial, Alike, <<Rec("dot", h1, 0, 0)>>, << >>}
=============================================================================
