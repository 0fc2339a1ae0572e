------------------------------ MODULE Registry ------------------------------
(***************************************************************************)
(* What the id table of the library promises to its users (stock.h:7-11):  *)
(* a protected map from ids to objects.  An id that was handed out denotes *)
(* its object until the object is removed, and no other id does.           *)
(***************************************************************************)
EXTENDS Integers

CONSTANTS Objects,    \* the objects that can be stored
          Ids,        \* every id the table can hand out
          NoId,       \* the id of an object that could not be stored
          NoObject    \* the answer for an id that denotes nothing

VARIABLES live,       \* the map from ids to objects
          answer      \* the last call: what it was given and what it returned

vars == <<live, answer>>

Init == /\ live = [i \in {} |-> NoObject]
        /\ answer = <<"none">>

\* A stored object gets an id that denotes nothing else.
Add(o) ==
  \E i \in Ids \ DOMAIN live :
    /\ live' = [j \in DOMAIN live \cup {i} |-> IF j = i THEN o ELSE live[j]]
    /\ answer' = <<"add", o, i>>

\* There may be no room for it.
Refuse(o) == /\ answer' = <<"add", o, NoId>>
          /\ UNCHANGED live

\* Only the id of a stored object is found, and it finds that object.
Get(i) == /\ answer' = <<"get", i, IF i \in DOMAIN live THEN live[i] ELSE NoObject>>
          /\ UNCHANGED live

\* Removing an id frees that id only.
Remove(i) == /\ live' = [j \in DOMAIN live \ {i} |-> live[j]]
             /\ answer' = <<"remove", i, i \in DOMAIN live>>

Next == \/ \E o \in Objects : Add(o) \/ Refuse(o)
        \/ \E i \in Ids \cup {NoId} : Get(i) \/ Remove(i)

Spec == Init /\ [][Next]_vars
=============================================================================
