------------------------------- MODULE GetSrv -------------------------------
(***************************************************************************)
(* Service location: one request of rascal_connect_service or              *)
(* rascal_accept_service (common/resolver/rascal_getsrv.cc).               *)
(*                                                                         *)
(* The request asks for SRV records, looks up the address of each host     *)
(* they name, sorts the addresses, and connects to one after the other     *)
(* until an attempt succeeds.  Until then it stays in the resolver's       *)
(* queue: it is sent again, answered again, and ended when its own time is *)
(* over, whatever stage it is at.  rascal_accept_service is the same       *)
(* request with a filter that listens on each address and declines it.     *)
(*                                                                         *)
(* An action is a whole handler.  Nothing in the code keeps the handlers   *)
(* of one request apart, for they run in workers and in the monitor; this  *)
(* module is about executions where they do not overlap.  The lookups of   *)
(* hosts are requests of their own (module Resolver), the attempts are     *)
(* connections (module Connection).                                        *)
(***************************************************************************)
EXTENDS Integers, Sequences, FiniteSets, SequencesExt, FiniteSetsExt

CONSTANTS Hosts,
          AddressesOf,   \* the addresses a name server has for each host, a sequence
          Kept,          \* what a record keeps of the name of a host: 63 characters
          Answers,       \* the replies to the SRV query: sequences of records
          MaxReplies     \* bound: replies to one request

\* A record of a reply is an SRV record, one with "." for a host, one that is
\* cut short, or one of another type.
Kinds == {"srv", "dot", "cut", "other"}

Names == {Kept[h] : h \in Hosts}

ASSUME GetSrvAssumption ==
  /\ MaxReplies \in Nat
  /\ \A h \in Hosts : AddressesOf[h] \in Seq(ToSet(AddressesOf[h]))
  /\ Answers \subseteq Seq([kind : Kinds, host : Hosts, priority : Nat, weight : Nat])

VARIABLES
  service,      \* "connect" or "accept"
  arc4,         \* the build: whether random.cc has arc4random()
  req,          \* the request: "new", "queued", "ended", or "died", the process with it
  srv,          \* its SRV records, the last one first
  ina,          \* its addresses
  lookups,      \* rascal_getaddr calls that have not called back: the id and the host
  conns,        \* connections that have not reported rop_connect or rop_close
  ris,          \* what the events of listeners are routed by: "none", "live", "freed"
  listeners,    \* addresses that are listened on
  \* history
  told,         \* what the client's dispatcher was told
  replies, added, tried,
  ended,        \* what ended the request
  timedout      \* an attempt timed out

ways    == <<service, arc4, ris, listeners>>
history == <<told, replies, added, tried, ended, timedout>>
vars    == <<service, arc4, req, srv, ina, lookups, conns, ris, listeners, history>>

Init ==
  /\ service \in {"connect", "accept"} /\ arc4 \in BOOLEAN /\ req = "new"
  /\ srv = << >> /\ ina = << >> /\ lookups = << >> /\ conns = << >>
  /\ ris = "none" /\ listeners = {}
  /\ told = << >> /\ replies = 0 /\ added = << >> /\ tried = << >> /\ ended = "no" /\ timedout = FALSE

----------------------------------------------------------------------------
(* The list of addresses.                                                  *)

Address == [priority : Nat, weight : Nat, host : Names, addr : UNION {ToSet(AddressesOf[h]) : h \in Hosts}]

\* Faulty: it takes the place of that one.
InsertOver(l, a) ==
  LET lower == {k \in DOMAIN l : l[k].priority >= a.priority}
  IN  IF lower = {} THEN Append(l, a) ELSE ReplaceAt(l, Min(lower), a)

\* An address goes before the first one that has not a higher priority, which
\* is a smaller number.
Insert(l, a) ==
  LET lower == {k \in DOMAIN l : l[k].priority >= a.priority}
  IN  InsertAt(l, IF lower = {} THEN Len(l) + 1 ELSE Min(lower), a)

InsertAll(l, addrs) ==
  LET f[n \in 0 .. Len(addrs)] == IF n = 0 THEN l ELSE Insert(f[n - 1], addrs[n]) IN f[Len(addrs)]

\* Faulty: priorities are not compared.
GroupAll(l, left) == left

\* getsrv::sort: of those left it takes one that has the priority of the first,
\* by a random number, and so on.  The number is below the sum of their weights,
\* and with arc4random(), which is taken modulo the sum less one, not the last
\* below it.  If the sum is 1 that is a division by zero: there is no number.
Group(l, left)  == {k \in left : l[k].priority = l[Min(left)].priority}
Weight(l, ks)   == MapThenSumSet(LAMBDA k : l[k].weight, ks)
Randoms(l, ks)  == LET sum == Weight(l, ks)
                   IN  IF sum = 0 THEN {0} ELSE 0 .. sum - (IF arc4 THEN 2 ELSE 1)

Chosen(l, left) ==
  LET group == Group(l, left)
      Suits(k, rnd) == LET before == {j \in group : j < k}
                       IN  rnd = Weight(l, before) \/ rnd < Weight(l, before \cup {k})
  IN  {k \in group : \E rnd \in Randoms(l, group) :
                       Suits(k, rnd) /\ \A j \in group : j < k => ~Suits(j, rnd)}

\* The loop: the orders in which it may have taken n of them.
Taken(l) ==
  LET taken[n \in 0 .. Len(l)] ==
        IF n = 0 THEN {<< >>}
        ELSE UNION {{Append(o, k) : k \in Chosen(l, DOMAIN l \ ToSet(o))} : o \in taken[n - 1]}
  IN  taken

\* It takes all of them, or the division kills the process before.
Orders(l) == Taken(l)[Len(l)]
Dies(l)   == \E n \in 0 .. Len(l) - 1 : \E o \in Taken(l)[n] : Chosen(l, DOMAIN l \ ToSet(o)) = {}

Arranged(l, o) == [n \in DOMAIN l |-> l[o[n]]]

----------------------------------------------------------------------------
(* What handlers have in common.                                           *)

\* The request leaves the queue; its destructor frees what it has.
End(why) == req' = "ended" /\ ended' = why /\ srv' = << >> /\ ina' = << >>

\* The client's dispatcher.  That of rascal_accept_service frees its data.
Tell(code) == /\ told' = Append(told, code)
              /\ ris' = IF service = "accept" THEN "freed" ELSE ris

\* try_next_server: some addresses are declined by the filter, or refused by
\* rascal_connect at once.  If one is left, a connection to it begins, and the
\* records that are still looked up are kept.
TryNext(l, c, records) ==
  \E k \in 0 .. Len(l) :
    LET declined == SubSeq(l, 1, k) IN
    /\ service = "accept" => k = Len(l)
    /\ IF service = "accept"
       THEN \E on \in SUBSET {a.addr : a \in ToSet(declined)} : listeners' = listeners \cup on
       ELSE UNCHANGED listeners
    /\ IF k = Len(l)
       THEN /\ tried' = tried \o l
            /\ Tell("unavailable") /\ End("told") /\ conns' = c
       ELSE /\ tried' = tried \o SubSeq(l, 1, k + 1)
            /\ conns' = Append(c, l[k + 1])
            /\ ina' = SubSeq(l, k + 2, Len(l)) /\ srv' = records
            /\ UNCHANGED <<req, ris, told, ended>>

----------------------------------------------------------------------------
(* The client.                                                             *)

\* The request is queued and sent; without a name server it ends at once, and
\* the client gets the error as the result of its call.
Begin ==
  /\ req = "new"
  /\ \/ req' = "queued" /\ ris' = (IF service = "accept" THEN "live" ELSE ris)
        /\ UNCHANGED <<srv, ina, ended>>
     \/ End("refused") /\ ris' = (IF service = "accept" THEN "freed" ELSE ris)
  /\ UNCHANGED <<service, arc4, lookups, conns, listeners, told, replies, added, tried, timedout>>

\* rascal_cancel, and the monitor when the query was repeated often enough:
\* request::cancel, for getsrv has no cancel() of its own.
Quiet(why) ==
  /\ req = "queued" /\ End(why)
  /\ UNCHANGED <<ways, lookups, conns, told, replies, added, tried, timedout>>

Cancel == Quiet("cancelled")
Expire == Quiet("expired")

----------------------------------------------------------------------------
(* Replies to the SRV query: getsrv::on_event, getsrv::on_record.          *)

Known(st, h) == \E k \in DOMAIN st.srv : st.srv[k].host = h

\* An SRV record: its id is the length of the list (srv::depth), and its host
\* is looked up unless a record in the list has the same, as far as it is kept:
\* a long name is never known.  A lookup that fails at once takes its record
\* with it.
Record(st, r, failing) ==
  LET new  == [id |-> Len(st.srv) + 1, host |-> Kept[r.host], priority |-> r.priority,
           weight |-> r.weight]
      with == [st EXCEPT !.srv = <<new>> \o @]
  IN  IF Known(st, r.host) THEN with
      ELSE IF r.host \in failing THEN st
      ELSE [with EXCEPT !.lookups = Append(@, [id |-> new.id, host |-> r.host])]

\* One record of a reply.
Seen(st, r, failing) ==
  CASE st.stop \/ r.kind = "other" -> st
    [] ~st.stop /\ r.kind = "srv"  -> Record(st, r, failing)
    [] ~st.stop /\ r.kind = "dot"  -> [st EXCEPT !.stop = TRUE, !.rc = "unavailable"]
    [] ~st.stop /\ r.kind = "cut"  -> [st EXCEPT !.stop = TRUE]

\* The loop over them, from the result rc.
Walk(answer, failing, rc) ==
  LET st[n \in 0 .. Len(answer)] ==
        IF n = 0 THEN [srv |-> srv, lookups |-> lookups, rc |-> rc, stop |-> FALSE]
        ELSE Seen(st[n - 1], answer[n], failing)
  IN  st[Len(answer)]

Absorbed(answer, failing) == Walk(answer, failing, "not found")

\* A reply to the query, which may be repeated, at any stage.  If there is no
\* record after it the request ends.
Reply(answer) ==
  /\ req = "queued" /\ replies < MaxReplies /\ replies' = replies + 1
  /\ \E failing \in SUBSET Hosts :
       LET st == Absorbed(answer, failing) IN
       /\ lookups' = st.lookups
       /\ IF st.srv = << >>
          THEN Tell(st.rc) /\ End("answered")
          ELSE srv' = st.srv /\ UNCHANGED <<req, ina, ris, told, ended>>
  /\ UNCHANGED <<service, arc4, conns, listeners, added, tried, timedout>>

----------------------------------------------------------------------------
(* The addresses of a host: getsrv::on_getaddr.                            *)

\* A record and its addresses: they are inserted if it is one of the host, as
\* far as the names are kept, else it waits, before those seen so far.
Addresses(r, addrs) ==
  [i \in DOMAIN addrs |-> [priority |-> r.priority, weight |-> r.weight, host |-> r.host, addr |-> addrs[i]]]

Replaced(st, r, host, addrs) ==
  IF r.host # host THEN [st EXCEPT !.srv = <<r>> \o @]
  ELSE [st EXCEPT !.ina = InsertAll(@, Addresses(r, addrs)), !.added = @ \o Addresses(r, addrs)]

\* The loop over the records.
Expanded(host, addrs) ==
  LET st[n \in 0 .. Len(srv)] ==
        IF n = 0 THEN [srv |-> << >>, ina |-> ina, added |-> added]
        ELSE Replaced(st[n - 1], srv[n], host, addrs)
  IN  st[Len(srv)]

Same == UNCHANGED <<req, srv, ina, conns, ris, listeners, told, tried, ended, added>>

\* The records of the host are replaced by its addresses.  When no record
\* waits any more the addresses are sorted and tried, if the sort survives.
Apply(host, addrs) ==
  \E st \in {Expanded(host, addrs)} :
  /\ added' = st.added
  /\ IF st.srv = << >>
     THEN \/ \E o \in Orders(st.ina) : TryNext(Arranged(st.ina, o), conns, << >>)
          \/ Dies(st.ina) /\ req' = "died" /\ UNCHANGED <<srv, ina, conns, ris, listeners, told, tried, ended>>
     ELSE /\ srv' = st.srv /\ ina' = st.ina
          /\ UNCHANGED <<req, conns, ris, listeners, told, tried, ended>>

\* The records with the id of a lookup; the first one counts.
Named(lookup) == {k \in DOMAIN srv : srv[k].id = lookup.id}

\* Faulty: a host without addresses keeps its records.
ResolvedSome(i, addrs) ==
  /\ lookups' = RemoveAt(lookups, i)
  /\ IF Named(lookups[i]) = {} \/ addrs = << >> THEN Same ELSE Apply(srv[Min(Named(lookups[i]))].host, addrs)
  /\ UNCHANGED <<service, arc4, replies, timedout>>

\* rascal_getaddr calls back, with some of the host's addresses, or none when
\* its time was over.  A request that has ended is not found.
Resolved(i, addrs) ==
  /\ lookups' = RemoveAt(lookups, i)
  /\ IF Named(lookups[i]) = {} THEN Same ELSE Apply(srv[Min(Named(lookups[i]))].host, addrs)
  /\ UNCHANGED <<service, arc4, replies, timedout>>

----------------------------------------------------------------------------
(* The connections: getsrv::try_next_server_disp.                          *)

Reported(i) == conns' = RemoveAt(conns, i)

\* Faulty: the request is not deleted.
ConnectedKeeps(i) ==
  /\ Reported(i)
  /\ IF req = "queued" THEN Tell("connected") /\ UNCHANGED <<req, srv, ina, ended>>
     ELSE UNCHANGED <<req, srv, ina, ris, told, ended>>
  /\ UNCHANGED <<service, arc4, lookups, listeners, replies, added, tried, timedout>>

\* rop_connect with a connection: it is handed to the client, and the request
\* deleted; the connection is dropped if the request was gone.
Connected(i) ==
  /\ Reported(i)
  /\ IF req = "queued" THEN Tell("connected") /\ End("told")
     ELSE UNCHANGED <<req, srv, ina, ris, told, ended>>
  /\ UNCHANGED <<service, arc4, lookups, listeners, replies, added, tried, timedout>>

\* rop_connect with an error: the next address.
Failed(i) ==
  /\ IF req = "queued" THEN TryNext(ina, RemoveAt(conns, i), srv)
     ELSE Reported(i) /\ UNCHANGED <<req, srv, ina, ris, listeners, told, tried, ended>>
  /\ UNCHANGED <<service, arc4, lookups, replies, added, timedout>>

\* Any other event, which is the rop_close of an attempt that timed out
\* (bsd/connection.cc:124): nothing follows.
Closed(i) ==
  /\ Reported(i) /\ timedout' = (timedout \/ req = "queued")
  /\ UNCHANGED <<ways, req, srv, ina, lookups, told, replies, added, tried, ended>>

----------------------------------------------------------------------------
Lookup  == /\ req # "died"
           /\ \E i \in DOMAIN lookups : \E n \in 0 .. Len(AddressesOf[lookups[i].host]) :
                Resolved(i, SubSeq(AddressesOf[lookups[i].host], 1, n))
Attempt == req # "died" /\ \E i \in DOMAIN conns : Connected(i) \/ Failed(i) \/ Closed(i)

Next == Begin \/ Cancel \/ Expire \/ (\E a \in Answers : Reply(a)) \/ Lookup \/ Attempt

Spec == Init /\ [][Next]_vars

\* A lookup calls back in the end, and a connection attempt settles.  These are
\* assumptions: Connection!ConnectSettles shows the second, and Resolver!Finishes
\* the first while the name server is there and no wake-up of the monitor is
\* lost.  Nobody has to answer.
FairSpec == Spec /\ WF_vars(Lookup) /\ WF_vars(Attempt)

----------------------------------------------------------------------------
(* Properties.                                                             *)

Stages == {"new", "queued", "ended", "died"}
Service == [id : Nat, host : Names, priority : Nat, weight : Nat]

\* The type invariant.
TypeOK ==
  /\ req \in Stages /\ arc4 \in BOOLEAN /\ service \in {"connect", "accept"} /\ ris \in {"none", "live", "freed"}
  /\ srv \in Seq(Service) /\ {ina, conns, added, tried} \subseteq Seq(Address)
  /\ lookups \in Seq([id : Nat, host : Hosts])
  /\ told \in Seq({"connected", "unavailable", "not found"})
  /\ ended \in {"no", "told", "answered", "expired", "cancelled", "refused"}

\* The client is told once, of a connection or of the failure, however many
\* replies, lookups and attempts are under way when the request ends; and the
\* data of rascal_accept_service is freed then and only then (or by the caller
\* whose request was refused).  (With the typing.)
ToldOnce ==
  /\ TypeOK
  /\ Len(told) <= 1 /\ (told # << >> <=> ended \in {"told", "answered"})
  /\ service = "accept" => (ris = "freed" <=> ended \in {"told", "answered", "refused"})

Times(l, a) == Cardinality({k \in DOMAIN l : l[k] = a})

\* No address is lost and none is tried twice, through insertion, sorting and
\* failover, repeated replies included: those that were resolved are the ones
\* that were tried and the ones that wait.  So when the attempts end with the
\* report that the service is unavailable, all of them were tried.  (A second
\* reply without records, though, ends a request whose addresses still wait:
\* on_event takes the empty list for an answer without a service.)
NoneSkipped ==
  /\ req = "queued" => \A a \in ToSet(added \o tried \o ina) : Times(added, a) = Times(tried, a) + Times(ina, a)
  /\ told = <<"unavailable">> /\ ended = "told" => \A a \in ToSet(added) : Times(added, a) = Times(tried, a)

\* A comment of on_getaddr (rascal_getsrv.cc:316): "Add resolved addresses to all
\* SRV records with the resolved host name."  Hosts whose names are kept as the
\* same one are the same to it.
ResolvedHost == \A a \in ToSet(added) : \E h \in Hosts : Kept[h] = a.host /\ a.addr \in ToSet(AddressesOf[h])

Ascending(l) == \A i, j \in DOMAIN l : i < j => l[i].priority <= l[j].priority

\* As long as the query is answered once: attempts go from the first priority
\* to the last, at most one is under way, and an address is tried for the
\* records of the host it belongs to, whatever the order of the lookups.
InPriority ==
  replies <= 1 =>
    /\ Ascending(tried)
    /\ Len(conns) <= 1
    /\ ResolvedHost

\* A lookup of a service does not stop half-way: after the reply the request
\* ends (by a report to the client, as ToldOnce says, or because its own time
\* is over or it is cancelled), unless an attempt timed out, the query is
\* answered again, or the sort of the addresses divided by zero, which takes
\* the process with it, in the build with arc4random() only.
Progresses ==
  req = "queued" /\ replies = 1 ~> req = "ended" \/ timedout \/ replies > 1 \/ (arc4 /\ req = "died")
=============================================================================
