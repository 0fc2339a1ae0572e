-------------------------------- MODULE Setup --------------------------------
(***************************************************************************)
(* The birth of a connection of the BSD port against workers that already  *)
(* run: rascal_connect (bsd/rascal_connect.cc) for tcp and udp, a listener *)
(* (bsd/rascal_accept.cc), and a connection that a listener accepts         *)
(* (bsd/connection_in.cc:58-75).                                            *)
(*                                                                         *)
(* The constructor of object puts the connection into the stock before the *)
(* constructor of connection gives its members a value, and the creator    *)
(* works on without a reference.  A worker may pick the connection as soon *)
(* as it is recognised as one.  The creator deletes it with `delete' when  *)
(* connect() fails, or when the dispatcher refuses what was accepted.      *)
(***************************************************************************)
EXTENDS Integers, FiniteSets

CONSTANTS Workers

VARIABLES status,       \* the memory: "none", "live", "freed"
          class,        \* what get_object_ot() answers: "object", "connection"
          selected, cancelled, refc,
          sock,         \* "fresh", "connecting", "bound", "up", "failed"
          step,         \* of the creator
          pc,           \* of each worker
          origin        \* "tcp", "udp", "listen" or "accept"

vars == <<status, class, selected, cancelled, refc, sock, step, pc, origin>>

Init == /\ status = "none" /\ class = "object"
        /\ selected \in BOOLEAN          \* memory that pmalloc() hands out again
        /\ cancelled = FALSE /\ refc = 0
        /\ \/ origin \in {"tcp", "udp", "listen"} /\ sock = "fresh"
           \/ origin = "accept" /\ sock = "up"
        /\ step = "new"
        /\ pc = [w \in Workers |-> "idle"]

Step(from, to) == step = from /\ step' = to

----------------------------------------------------------------------------
\* object::object
Register == /\ Step("new", "registered")
            /\ status' = "live" /\ cancelled' = FALSE /\ refc' = 0
            /\ UNCHANGED <<class, selected, sock, pc, origin>>

\* Between the two constructors the object becomes a connection.
Derive == /\ Step("registered", "derived")
          /\ class' = "connection"
          /\ UNCHANGED <<status, selected, cancelled, refc, sock, pc, origin>>

\* connection::connection; what a worker has destroyed before is written to,
\* and nothing is said of what follows.
Construct == /\ Step("derived", IF origin = "accept" THEN "ask" ELSE "connect") /\ status = "live"
             /\ selected' = FALSE
             /\ UNCHANGED <<status, class, cancelled, refc, sock, pc, origin>>

\* connection::connect, connection_dg::connect, connection_in::connect: the
\* attempt begins, the socket is bound, or it fails at once.
Connect == /\ \/ origin = "tcp" /\ Step("connect", "return") /\ sock' = "connecting"
              \/ origin \in {"udp", "listen"} /\ Step("connect", "ask") /\ sock' = "bound"
              \/ Step("connect", "delete") /\ UNCHANGED sock
           /\ UNCHANGED <<status, class, selected, cancelled, refc, pc, origin>>

\* The dispatcher gets rop_accept, rop_listen or the rop_connect of a datagram
\* connection, and takes the connection or refuses it.
Ask == /\ Step("ask", IF origin = "accept" THEN "done" ELSE "return") \/ Step("ask", "delete")
       /\ UNCHANGED <<status, class, selected, cancelled, refc, sock, pc, origin>>

\* The dispatcher, which now knows the id, cancels the connection.
Cancel == /\ step = "ask" /\ status = "live" /\ ~cancelled
          /\ cancelled' = TRUE
          /\ status' = IF refc = 0 THEN "freed" ELSE "live"
          /\ UNCHANGED <<class, selected, refc, sock, step, pc, origin>>

\* `delete tmp', `delete conn'
Delete == /\ Step("delete", "done")
          /\ status' = "freed"
          /\ UNCHANGED <<class, selected, cancelled, refc, sock, pc, origin>>

\* return tmp->get_id()
Return == /\ Step("return", "done")
          /\ UNCHANGED <<status, class, selected, cancelled, refc, sock, pc, origin>>

Creator == Register \/ Derive \/ Construct \/ Connect \/ Ask \/ Cancel \/ Delete \/ Return

----------------------------------------------------------------------------
\* list() with connection::filter
Pick(w) == /\ pc[w] = "idle" /\ status = "live"
           /\ class = "connection" /\ ~cancelled /\ ~selected
           /\ selected' = TRUE /\ refc' = refc + 1
           /\ pc' = [pc EXCEPT ![w] = "serve"]
           /\ UNCHANGED <<status, class, cancelled, sock, step, origin>>

\* A stream socket that is not connecting yet, or failed, makes recv() fail,
\* and on_error cancels the connection; another may stay silent, or end.
\* accept() that fails is ignored, and a datagram socket is silent until bound.
\* Before the constructor of connection the socket, the mode and the buffers are
\* what was in the memory, and the worker may do the one or the other.
Serve(w) == /\ pc[w] = "serve" /\ status = "live"
            /\ \/ step = "derived" /\ cancelled' \in {cancelled, TRUE}
               \/ cancelled' = TRUE /\ origin # "listen" /\ (origin = "udp" => sock = "bound")
               \/ (sock \in {"fresh", "failed"} => origin \in {"udp", "listen"}) /\ UNCHANGED cancelled
            /\ pc' = [pc EXCEPT ![w] = "release"]
            /\ UNCHANGED <<status, class, selected, refc, sock, step, origin>>

\* selected = false, then decref()
Release(w) == /\ pc[w] = "release" /\ status = "live"
              /\ selected' = FALSE /\ refc' = refc - 1
              /\ status' = IF cancelled /\ refc = 1 THEN "freed" ELSE "live"
              /\ pc' = [pc EXCEPT ![w] = "idle"]
              /\ UNCHANGED <<class, cancelled, sock, step, origin>>

Fail == /\ sock = "connecting" /\ sock' = "failed"
        /\ UNCHANGED <<status, class, selected, cancelled, refc, step, pc, origin>>

Next == Creator \/ Fail \/ \E w \in Workers : Pick(w) \/ Serve(w) \/ Release(w)

Spec == Init /\ [][Next]_vars

----------------------------------------------------------------------------
(* "ensure that objects are only deleted when they are not used by the     *)
(* library.  Objects must never be deleted using the `delete' operator"    *)
(* (object.h:14-17).                                                       *)

\* rascal_connect does not go on with a stream connection that a worker has
\* destroyed, whole as its constructors left it.  (The others fail in more ways:
\* a dispatcher that is asked may cancel them.)
CreatorSafe == origin = "tcp" /\ step \in {"connect", "delete", "return"} => status # "freed"
=============================================================================
