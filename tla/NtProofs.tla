------------------------------ MODULE NtProofs ------------------------------
(***************************************************************************)
(* Proofs about NtConnection: the typing and the references (RefsExact),   *)
(* the flag is_writing and the order of what is written (WrittenInOrder),  *)
(* the one reader (ReaderKept), and what is left when a connection has     *)
(* settled (Drained), for any number of workers and operations and any     *)
(* amount of data.                                                         *)
(*                                                                         *)
(* The invariants come in three layers, each on top of the one before: who *)
(* handles which operation, and the references (Base); writing (Writing);  *)
(* reading (Reading).                                                      *)
(***************************************************************************)
EXTENDS NtConnection, TLAPS, FiniteSetTheorems, SequenceTheorems

Places  == {"idle", "test", "shut", "drop", "end", "spawn_reader", "spawn_acceptor",
            "spawn_writer", "start", "written", "delete"}
Types   == {"none", "connect", "accept", "read", "write"}
Results == {"none", "ok", "failed", "stray"}
OpSet   == [type : Types, stage : Stages, result : Results, data : Seq(1 .. MaxOut)]

Typed ==
  /\ kind \in {"stream", "listener", "dgram"} /\ alive \in {"none", "live", "freed", "deleted"}
  /\ refc \in Int /\ cancelled \in BOOLEAN /\ sock \in {"open", "closed"}
  /\ writing \in BOOLEAN /\ mx \in {Nobody, App}
  /\ wrb \in Seq(1 .. MaxOut) /\ sent \in Seq(1 .. MaxOut) /\ written \in 0 .. MaxOut
  /\ ops \in [Ops -> OpSet]
  /\ net \in {"none", "ok", "failed"} /\ job \in BOOLEAN
  /\ pc \in [Threads -> Places]
  /\ at \in [Threads -> Ops \cup {0}] /\ mine \in [Threads -> Ops \cup {0}]
  /\ opened \in BOOLEAN

\* Before the birth there is nothing.
Unborn ==
  alive = "none" =>
    /\ \A o \in Ops : ops[o] = NoOp
    /\ \A t \in Threads : pc[t] = "idle"
    /\ ~cancelled /\ ~writing /\ ~opened /\ refc = 0
    /\ wrb = << >> /\ sent = << >> /\ written = 0

\* The fields of an operation agree.
Formed(o) ==
  /\ ops[o].type = "none" <=> ops[o].stage = "none"
  /\ ops[o].stage \in {"new", "message", "list", "kernel"} => ops[o].result = "none"
  /\ ops[o].stage \in {"done", "run"} => ops[o].result # "none"
  /\ ops[o].type # "write" => ops[o].data = << >>
  /\ ops[o].stage = "list" => ops[o].type = "connect"

\* What a thread has in its hands.
Hands(t) ==
  /\ at[t] # 0 => ops[at[t]].stage = "run"
  /\ mine[t] # 0 => ops[mine[t]].stage = "new"
  /\ pc[t] = "idle" => at[t] = 0
  /\ pc[t] \in {"drop", "start"} => mine[t] # 0
  /\ pc[t] \notin {"drop", "start", "test", "shut"} => mine[t] = 0
  /\ pc[t] \in {"spawn_acceptor", "written"} => at[t] # 0
  /\ pc[t] = "spawn_writer" => t = App \/ at[t] # 0
  /\ pc[t] = "spawn_reader" => t \in Workers \cup {Maker} \/ at[t] # 0
  /\ pc[t] = "delete" => t = Maker
  /\ t = App => at[t] = 0
  /\ t = Maker => at[t] = 0 /\ mine[t] = 0 /\ pc[t] \in {"idle", "spawn_reader", "delete", "end"}

Apart(t, u) == /\ at[t] = at[u] /\ at[t] # 0 => t = u
               /\ mine[t] = mine[u] /\ mine[t] # 0 => t = u

Owned == /\ \A t \in Threads : Hands(t)
         /\ \A t, u \in Threads : Apart(t, u)

Used    == {o \in Ops : ops[o].type # "none"}
Counted == refc = Cardinality(Used) + (IF pc[App] = "idle" THEN 0 ELSE 1)
Held    == refc > 0 => alive = "live" \/ (alive = "deleted" /\ kind = "dgram" /\ opened)
Closed  == (cancelled <=> sock = "closed") /\ \A t \in Threads : pc[t] = "drop" => cancelled

\* The maker of a datagram connection asks the dispatcher before it goes on.
Asked == pc[Maker] \in {"spawn_reader", "delete"} => kind = "dgram" /\ opened

Base == Typed /\ Unborn /\ (\A o \in Ops : Formed(o)) /\ Owned /\ Counted /\ Held /\ Closed /\ Asked

----------------------------------------------------------------------------
(* The parts, from one state to the next.                                  *)

Same(t)   == pc'[t] = pc[t] /\ at'[t] = at[t] /\ mine'[t] = mine[t]
Rest(t)   == \A u \in Threads \ {t} : Same(u)
Others(o) == \A p \in Ops \ {o} : ops'[p] = ops[p]
\* The step of a thread that is not the maker asking.
Onward(t) == kind' = kind /\ (opened => opened') /\ (t = Maker => pc'[t] \in {"idle", "end"})

LEMMA ThreadFacts == /\ Ex \in Threads /\ App \in Threads /\ Maker \in Threads /\ Workers \subseteq Threads
                     /\ Ex # App /\ Ex \notin Workers /\ App \notin Workers
                     /\ Maker \notin Workers /\ Maker # Ex /\ Maker # App
                     /\ 1 \in Ops /\ 2 \in Ops /\ 0 \notin Ops /\ Ops \subseteq Nat
BY NtAssumption DEF Threads, Ops

LEMMA UsedFinite == IsFiniteSet(Used) /\ Cardinality(Used) \in Nat /\ Cardinality(Used) <= MaxOps
<1>1. IsFiniteSet(1 .. MaxOps) /\ Cardinality(1 .. MaxOps) = MaxOps
  BY NtAssumption, FS_Interval
<1>2. Used \subseteq 1 .. MaxOps
  BY DEF Used, Ops
<1> QED
  BY <1>1, <1>2, FS_Subset, FS_CardinalityType

\* The count, as a number.
LEMMA CountedIs ==
  ASSUME Counted
  PROVE  \E n \in 0 .. MaxOps : n = Cardinality(Used) /\ refc = n + (IF pc[App] = "idle" THEN 0 ELSE 1)
<1> DEFINE n == Cardinality(Used)
<1>1. n \in Nat /\ n <= MaxOps /\ refc = n + (IF pc[App] = "idle" THEN 0 ELSE 1)
  BY UsedFinite DEF Counted
<1> HIDE DEF n
<1>2. n \in 0 .. MaxOps
  BY <1>1, NtAssumption
<1> QED
  BY <1>1, <1>2 DEF n

LEMMA UsedSame ==
  ASSUME \A o \in Ops : ops'[o].type = "none" <=> ops[o].type = "none"
  PROVE  Used' = Used
BY DEF Used, Ops

LEMMA UsedMore ==
  ASSUME NEW o \in Ops, ops[o].type = "none", ops'[o].type # "none", Others(o)
  PROVE  Cardinality(Used') = Cardinality(Used) + 1
<1>1. Used' = Used \cup {o} /\ o \notin Used
  BY DEF Used, Others, Ops
<1> DEFINE S == Used
           T == Used'
<1>2. IsFiniteSet(S) /\ T = S \cup {o} /\ o \notin S
  BY <1>1, UsedFinite
<1> HIDE DEF S, T
<1>3. Cardinality(T) = Cardinality(S) + 1
  BY <1>2, FS_AddElement
<1> QED
  BY <1>3 DEF S, T

LEMMA UsedLess ==
  ASSUME NEW o \in Ops, ops[o].type # "none", ops'[o].type = "none", Others(o)
  PROVE  Cardinality(Used') = Cardinality(Used) - 1 /\ Cardinality(Used) >= 1
<1>1. Used' = Used \ {o} /\ o \in Used
  BY DEF Used, Others, Ops
<1> DEFINE S == Used
           T == Used'
<1>2. IsFiniteSet(S) /\ T = S \ {o} /\ o \in S
  BY <1>1, UsedFinite
<1> HIDE DEF S, T
<1>3. Cardinality(T) = Cardinality(S) - 1 /\ IsFiniteSet(T)
  BY <1>2, FS_RemoveElement
<1>4. Cardinality(T) \in Nat /\ Cardinality(S) \in Nat
  BY <1>2, <1>3, FS_CardinalityType
<1> QED
  BY <1>3, <1>4 DEF S, T

\* What has references is alive, until the behaviour ends.
LEMMA HeldLives ==
  ASSUME Base, ~Corrupt, refc > 0
  PROVE  alive = "live"
BY DEF Base, Held, Corrupt

\* A thread that goes on with a constructor has a connection that lives.
LEMMA Lives ==
  ASSUME Base, ~Corrupt, NEW t \in Threads,
         pc[t] \in {"spawn_reader", "spawn_acceptor", "spawn_writer", "start", "written"}
  PROVE  alive = "live"
<1>1. alive # "none"
  BY DEF Base, Unborn
<1>2. CASE at[t] # 0 \/ mine[t] # 0
  <2>1. PICK o \in Ops : ops[o].stage \in {"run", "new"}
    BY <1>2 DEF Base, Typed, Owned, Hands
  <2>2. o \in Used
    BY <2>1 DEF Base, Formed, Used
  <2>3. Cardinality(Used) # 0
    BY <2>2, UsedFinite, FS_EmptySet
  <2>4. PICK n \in 0 .. MaxOps : n = Cardinality(Used) /\ refc = n + (IF pc[App] = "idle" THEN 0 ELSE 1)
    BY CountedIs DEF Base
  <2>5. n \in Nat \ {0} /\ refc \in {n, n + 1}
    BY <2>3, <2>4, NtAssumption
  <2>6. refc > 0
    BY <2>5
  <2> QED
    BY <2>6, HeldLives
<1>3. CASE at[t] = 0 /\ mine[t] = 0
  <2>1. CASE t = App
    <3>1. PICK n \in 0 .. MaxOps : refc = n + (IF pc[App] = "idle" THEN 0 ELSE 1)
      BY CountedIs DEF Base
    <3>2. n \in Nat /\ refc = n + 1
      BY <2>1, <3>1, NtAssumption
    <3>3. refc > 0
      BY <3>2
    <3> QED
      BY <3>3, HeldLives
  <2>2. CASE t \in Workers \cup {Maker}
    <3>1. Unheld(t)
      BY <1>3, <2>2 DEF Unheld
    <3> QED
      BY <1>1, <2>2, <3>1 DEF Corrupt, Base, Typed
  <2>3. CASE t = Ex
    BY <1>3, <2>3, ThreadFacts DEF Base, Owned, Hands
  <2> QED
    BY <2>1, <2>2, <2>3 DEF Threads
<1> QED
  BY <1>2, <1>3

\* A step of one thread that changes one operation at most.
LEMMA OwnedKept ==
  ASSUME Owned, Typed, Typed', NEW t \in Threads, Rest(t), NEW o, Others(o),
         o \in Ops => ops[o].stage \notin {"run", "new"} \/ o \in {at[t], mine[t]},
         Hands(t)', at'[t] \in {0, at[t], o}, mine'[t] \in {0, mine[t], o}
  PROVE  Owned'
<1>0. \A u \in Threads : at'[u] \in Ops \cup {0} /\ mine'[u] \in Ops \cup {0}
                         /\ at[u] \in Ops \cup {0} /\ mine[u] \in Ops \cup {0}
  BY DEF Typed
<1>1. \A u \in Threads \ {t} : (at[u] # 0 => at[u] \in Ops \ {o}) /\ (mine[u] # 0 => mine[u] \in Ops \ {o})
  <2> SUFFICES ASSUME NEW u \in Threads \ {t}
               PROVE  (at[u] # 0 => at[u] \in Ops \ {o}) /\ (mine[u] # 0 => mine[u] \in Ops \ {o})
    OBVIOUS
  <2>1. Hands(u) /\ Hands(t) /\ Apart(u, t)
    BY DEF Owned
  <2>2. ASSUME at[u] # 0 PROVE at[u] \in Ops \ {o}
    BY <1>0, <2>1, <2>2 DEF Hands, Apart
  <2>3. ASSUME mine[u] # 0 PROVE mine[u] \in Ops \ {o}
    BY <1>0, <2>1, <2>3 DEF Hands, Apart
  <2> QED
    BY <2>2, <2>3
<1>2. ASSUME NEW u \in Threads, u # t PROVE Hands(u)'
  <2>1. /\ pc'[u] = pc[u] /\ at'[u] = at[u] /\ mine'[u] = mine[u]
        /\ at[u] # 0 => ops'[at'[u]] = ops[at[u]]
        /\ mine[u] # 0 => ops'[mine'[u]] = ops[mine[u]]
    BY <1>1, <1>2 DEF Rest, Same, Others
  <2>2. Hands(u)
    BY DEF Owned
  <2>3. at'[u] # 0 => ops'[at'[u]].stage = "run"
    BY <2>1, <2>2 DEF Hands
  <2>4. mine'[u] # 0 => ops'[mine'[u]].stage = "new"
    BY <2>1, <2>2 DEF Hands
  <2> QED
    BY <2>1, <2>2, <2>3, <2>4 DEF Hands
<1>3. ASSUME NEW u \in Threads, NEW v \in Threads PROVE Apart(u, v)'
  <2>1. \A w \in Threads \ {t} : at'[w] = at[w] /\ mine'[w] = mine[w]
    BY DEF Rest, Same
  <2>2. \A w \in Threads \ {t} : /\ at'[w] # 0 => at'[w] # at'[t]
                                 /\ mine'[w] # 0 => mine'[w] # mine'[t]
    <3> SUFFICES ASSUME NEW w \in Threads \ {t}
                 PROVE  /\ at'[w] # 0 => at'[w] # at'[t]
                        /\ mine'[w] # 0 => mine'[w] # mine'[t]
      OBVIOUS
    <3>1. Apart(w, t) /\ at'[w] = at[w] /\ mine'[w] = mine[w]
      BY <2>1 DEF Owned
    <3> QED
      BY <1>1, <3>1 DEF Apart
  <2> QED
    BY <2>1, <2>2 DEF Owned, Apart
<1> QED
  BY <1>2, <1>3 DEF Owned

LEMMA BaseKept ==
  ASSUME Base, Typed', NEW t \in Threads, Rest(t), NEW o, Others(o),
         o \in Ops => ops[o].stage \notin {"run", "new"} \/ o \in {at[t], mine[t]},
         Hands(t)', at'[t] \in {0, at[t], o}, mine'[t] \in {0, mine[t], o},
         alive' # "none", Onward(t), o \in Ops => Formed(o)',
         UNCHANGED <<cancelled, sock>> \/ (cancelled' /\ sock' = "closed"),
         pc[t] \in {"test", "shut"} => pc'[t] \in {"test", "shut"} \/ cancelled',
         pc'[t] = "drop" => cancelled',
         Counted', Held'
  PROVE  Base'
<1>1. Owned'
  BY OwnedKept DEF Base
<1>2. Unborn'
  BY DEF Unborn
<1>3. \A p \in Ops : Formed(p)'
  BY DEF Base, Formed, Others
<1>4. Asked'
  <2>1. t # Maker => pc'[Maker] = pc[Maker]
    BY ThreadFacts DEF Rest, Same
  <2> QED
    BY <2>1 DEF Onward, Base, Asked
<1>5. Closed'
  BY DEF Base, Closed, Rest, Same
<1> QED
  BY <1>1, <1>2, <1>3, <1>4, <1>5 DEF Base, Ops

LEMMA CountKept ==
  ASSUME Counted, refc' = refc, \A o \in Ops : ops'[o].type = "none" <=> ops[o].type = "none",
         pc'[App] = "idle" <=> pc[App] = "idle"
  PROVE  Counted'
<1>1. Used' = Used
  BY UsedSame
<1> QED
  BY <1>1 DEF Counted

LEMMA CountMore ==
  ASSUME Counted, refc' = refc + 1, NEW o \in Ops, ops[o].type = "none", ops'[o].type # "none", Others(o),
         pc'[App] = "idle" <=> pc[App] = "idle"
  PROVE  Counted'
<1>1. Cardinality(Used') = Cardinality(Used) + 1 /\ Cardinality(Used) \in Nat
  BY UsedMore, UsedFinite
<1> DEFINE m == Cardinality(Used)
           n == Cardinality(Used')
           a == IF pc[App] = "idle" THEN 0 ELSE 1
           b == IF pc'[App] = "idle" THEN 0 ELSE 1
<1>2. m \in Nat /\ n = m + 1 /\ a \in {0, 1} /\ b = a /\ refc = m + a
  BY <1>1 DEF Counted
<1> HIDE DEF m, n, a, b
<1>3. refc' = n + b
  BY <1>2
<1> QED
  BY <1>3 DEF Counted, n, b

LEMMA CountLess ==
  ASSUME Counted, refc' = refc - 1, NEW o \in Ops, ops[o].type # "none", ops'[o].type = "none", Others(o),
         pc'[App] = "idle" <=> pc[App] = "idle"
  PROVE  Counted' /\ refc >= 1
<1>1. /\ Cardinality(Used') = Cardinality(Used) - 1 /\ Cardinality(Used) >= 1
      /\ Cardinality(Used) \in Nat
  BY UsedLess, UsedFinite
<1> DEFINE m == Cardinality(Used)
           n == Cardinality(Used')
           a == IF pc[App] = "idle" THEN 0 ELSE 1
           b == IF pc'[App] = "idle" THEN 0 ELSE 1
<1>2. m \in Nat /\ m >= 1 /\ n = m - 1 /\ a \in {0, 1} /\ b = a /\ refc = m + a
  BY <1>1 DEF Counted
<1> HIDE DEF m, n, a, b
<1>3. refc' = n + b /\ refc >= 1
  BY <1>2
<1> QED
  BY <1>3 DEF Counted, n, b

\* The step of a thread that leaves the operations alone.
LEMMA QuietKept ==
  ASSUME Base, Typed', NEW t \in Threads, Rest(t), ops' = ops, refc' = refc, alive' = alive, alive # "none",
         t = App => (pc'[t] = "idle" <=> pc[t] = "idle"),
         Hands(t)', Onward(t), at'[t] \in {0, at[t]}, mine'[t] = mine[t],
         UNCHANGED <<cancelled, sock>> \/ (cancelled' /\ sock' = "closed"),
         pc[t] \in {"test", "shut"} => pc'[t] \in {"test", "shut"} \/ cancelled',
         pc'[t] = "drop" => cancelled'
  PROVE  Base'
<1>1. pc'[App] = "idle" <=> pc[App] = "idle"
  BY ThreadFacts DEF Rest, Same
<1>2. Counted'
  BY <1>1, CountKept DEF Base
<1>3. Held'
  BY DEF Base, Held, Onward
<1>4. Others(0) /\ 0 \notin Ops
  BY ThreadFacts DEF Others
<1> QED
  BY <1>2, <1>3, <1>4, BaseKept

\* .. that has an operation go on.
LEMMA RestagedKept ==
  ASSUME Base, Typed', NEW t \in Threads, Rest(t), NEW o \in Ops, Others(o), refc' = refc, alive' = alive,
         ops[o].type # "none", ops'[o].type # "none",
         t = App => (pc'[t] = "idle" <=> pc[t] = "idle"), Hands(t)', Onward(t),
         ops[o].stage \notin {"run", "new"} \/ o \in {at[t], mine[t]},
         at'[t] \in {0, at[t], o}, mine'[t] \in {0, mine[t], o}, Formed(o)',
         UNCHANGED <<cancelled, sock>>,
         pc[t] \in {"test", "shut"} => pc'[t] = pc[t], pc'[t] = "drop" => cancelled'
  PROVE  Base'
<1>1. pc'[App] = "idle" <=> pc[App] = "idle"
  BY ThreadFacts DEF Rest, Same
<1>2. Counted'
  BY <1>1, CountKept DEF Base, Others
<1>3. Held'
  BY DEF Base, Held, Onward
<1>4. alive' # "none"
  BY DEF Base, Unborn, NoOp
<1> QED
  BY <1>2, <1>3, <1>4, BaseKept

\* .. that begins one.
LEMMA BegunKept ==
  ASSUME Base, Typed', NEW t \in Threads, Rest(t), NEW o \in Ops, Others(o), refc' = refc + 1,
         alive = "live", alive' = alive, ops[o].type = "none", ops'[o].type # "none",
         pc'[t] # "idle", pc[t] # "idle", Hands(t)', Onward(t),
         at'[t] = at[t], mine'[t] \in {0, mine[t], o}, Formed(o)',
         UNCHANGED <<cancelled, sock>>, pc[t] \notin {"test", "shut"}, pc'[t] = "drop" => cancelled'
  PROVE  Base'
<1>1. pc'[App] = "idle" <=> pc[App] = "idle"
  BY ThreadFacts DEF Rest, Same
<1>2. Counted'
  BY <1>1, CountMore DEF Base
<1>3. Held'
  BY DEF Held
<1>4. ops[o].stage \notin {"run", "new"}
  BY DEF Base, Formed
<1> QED
  BY <1>2, <1>3, <1>4, BaseKept

\* .. that deletes one.
LEMMA DeletedKept ==
  ASSUME Base, ~Corrupt, Typed', NEW t \in Threads, Rest(t), NEW o \in Ops, Others(o), Decref,
         ops[o].type # "none", ops'[o] = NoOp,
         t = App => (pc'[t] = "idle" <=> pc[t] = "idle"), Hands(t)', Onward(t),
         ops[o].stage \notin {"run", "new"} \/ o \in {at[t], mine[t]},
         at'[t] \in {0, at[t]}, mine'[t] \in {0, mine[t]},
         UNCHANGED <<cancelled, sock>>,
         pc[t] \in {"test", "shut"} => pc'[t] = pc[t], pc'[t] = "drop" => cancelled'
  PROVE  Base'
<1>1. pc'[App] = "idle" <=> pc[App] = "idle"
  BY ThreadFacts DEF Rest, Same
<1>2. Counted' /\ refc >= 1
  BY <1>1, CountLess DEF Base, Decref, NoOp
<1>3. alive = "live" /\ refc \in Int
  BY <1>2, HeldLives DEF Base, Typed
<1>4. Held' /\ alive' # "none"
  BY <1>3 DEF Held, Decref
<1>5. Formed(o)'
  BY DEF Formed, NoOp
<1> QED
  BY <1>2, <1>4, <1>5, BaseKept

----------------------------------------------------------------------------
(* What a step writes.                                                     *)

Moves(t, p) == pc' \in [Threads -> Places] /\ pc'[t] = p /\ \A u \in Threads \ {t} : pc'[u] = pc[u]

LEMMA GotoMoves ==
  ASSUME Typed, NEW t \in Threads, NEW p \in Places, Goto(t, p)
  PROVE  Moves(t, p)
BY DEF Typed, Goto, Moves

Put(o, op)  == ops' = [ops EXCEPT ![o] = op]
Stage(o, s) == ops' = [ops EXCEPT ![o].stage = s]
Finish(o, s, r) == ops' = [ops EXCEPT ![o].stage = s, ![o].result = r]

LEMMA OpsIn == /\ NoOp \in OpSet
               /\ \A type \in Types, s \in Stages, d \in Seq(1 .. MaxOut) : Op(type, s, d) \in OpSet
               /\ << >> \in Seq(1 .. MaxOut)
<1>1. << >> \in Seq(1 .. MaxOut)
  OBVIOUS
<1> QED
  BY <1>1 DEF NoOp, Op, OpSet, Types, Stages, Results

LEMMA PutDoes ==
  ASSUME Typed, NEW o \in Ops, NEW op \in OpSet, Put(o, op)
  PROVE  ops' \in [Ops -> OpSet] /\ ops'[o] = op /\ Others(o)
<1>1. ops \in [Ops -> OpSet] /\ ops' = [ops EXCEPT ![o] = op]
  BY DEF Typed, Put
<1> QED
  BY <1>1 DEF Others

LEMMA StageDoes ==
  ASSUME Typed, NEW o \in Ops, NEW s \in Stages, Stage(o, s)
  PROVE  /\ ops' \in [Ops -> OpSet] /\ Others(o) /\ ops'[o].stage = s /\ ops'[o].type = ops[o].type
         /\ ops'[o].result = ops[o].result /\ ops'[o].data = ops[o].data
<1>1. ops \in [Ops -> OpSet] /\ ops' = [ops EXCEPT ![o].stage = s]
  BY DEF Typed, Stage
<1>2. ops'[o] = [ops[o] EXCEPT !.stage = s] /\ Others(o) /\ ops[o] \in OpSet
  BY <1>1 DEF Others
<1>3. ops'[o] \in OpSet
  BY <1>2 DEF OpSet
<1> QED
  BY <1>1, <1>2, <1>3 DEF OpSet

LEMMA FinishDoes ==
  ASSUME Typed, NEW o \in Ops, NEW s \in Stages, NEW r \in Results, Finish(o, s, r)
  PROVE  /\ ops' \in [Ops -> OpSet] /\ Others(o) /\ ops'[o].stage = s /\ ops'[o].type = ops[o].type
         /\ ops'[o].result = r /\ ops'[o].data = ops[o].data
<1>1. ops \in [Ops -> OpSet] /\ ops' = [ops EXCEPT ![o].stage = s, ![o].result = r]
  BY DEF Typed, Finish
<1>2. ops'[o] = [ops[o] EXCEPT !.stage = s, !.result = r] /\ Others(o) /\ ops[o] \in OpSet
  BY <1>1 DEF Others
<1>3. ops'[o] \in OpSet
  BY <1>2 DEF OpSet, Stages
<1> QED
  BY <1>1, <1>2, <1>3 DEF OpSet

----------------------------------------------------------------------------
(* connection::cancel.                                                     *)

LEMMA TestGood ==
  ASSUME Base, NEW t \in Threads, Test(t)
  PROVE  Base'
<1>0. /\ pc[t] = "test" /\ at' = at /\ mine' = mine /\ ops' = ops
      /\ kind' = kind /\ alive' = alive /\ refc' = refc /\ cancelled' = cancelled /\ sock' = sock
      /\ Typed /\ Hands(t) /\ Onward(t)
  BY DEF Test, conn, out, Base, Owned, Hands, Onward
<1> DEFINE p == IF cancelled THEN Returned(t) ELSE "shut"
<1>1. p \in Places /\ p # "idle" /\ (p = "drop" => cancelled /\ mine[t] # 0) /\ (p = "end" => mine[t] = 0)
      /\ (p = "shut" \/ cancelled) /\ p \in {"drop", "end", "shut"}
  BY DEF Returned, Places
<1>2. Goto(t, p)
  BY DEF Test
<1> HIDE DEF p
<1>3. Moves(t, p)
  BY <1>0, <1>1, <1>2, GotoMoves
<1>4. Typed'
  BY <1>0, <1>3 DEF Test, Typed, conn, out, Moves
<1>5. Rest(t)
  BY <1>0, <1>3 DEF Rest, Same, Moves
<1>6. Hands(t)'
  BY <1>0, <1>1, <1>3 DEF Hands, Moves
<1>7. alive # "none"
  BY <1>0 DEF Base, Unborn
<1> QED
  BY <1>0, <1>1, <1>3, <1>4, <1>5, <1>6, <1>7, QuietKept DEF Moves

LEMMA ShutGood ==
  ASSUME Base, NEW t \in Threads, Shut(t)
  PROVE  Base'
<1>0. /\ pc[t] = "shut" /\ at' = at /\ mine' = mine /\ ops' = ops
      /\ kind' = kind /\ alive' = alive /\ refc' = refc /\ cancelled' = TRUE /\ sock' = "closed"
      /\ Typed /\ Hands(t) /\ Onward(t)
  BY DEF Shut, Base, Owned, Hands, Onward
<1> DEFINE p == Returned(t)
<1>1. p \in Places /\ p \in {"drop", "end"} /\ (p = "drop" <=> mine[t] # 0)
  BY DEF Returned, Places
<1>2. Goto(t, p)
  BY DEF Shut
<1> HIDE DEF p
<1>3. Moves(t, p)
  BY <1>0, <1>1, <1>2, GotoMoves
<1>4. Typed'
  BY <1>0, <1>3 DEF Shut, Typed, out, Moves
<1>5. Rest(t)
  BY <1>0, <1>3 DEF Rest, Same, Moves
<1>6. Hands(t)'
  BY <1>0, <1>1, <1>3 DEF Hands, Moves
<1>7. alive # "none"
  BY <1>0 DEF Base, Unborn
<1> QED
  BY <1>0, <1>1, <1>3, <1>4, <1>5, <1>6, <1>7, QuietKept DEF Moves

LEMMA DecrefTyped ==
  ASSUME Typed, Decref
  PROVE  refc' \in Int /\ alive' \in {"none", "live", "freed", "deleted"}
BY DEF Typed, Decref

LEMMA DropGood ==
  ASSUME Base, ~Corrupt, NEW t \in Threads, Drop(t)
  PROVE  Base'
<1>0. /\ pc[t] = "drop" /\ at' = at /\ Decref /\ Put(mine[t], NoOp)
      /\ kind' = kind /\ cancelled' = cancelled /\ sock' = sock
      /\ Typed /\ Hands(t) /\ mine' \in [Threads -> Ops \cup {0}] /\ mine'[t] = 0
      /\ \A u \in Threads \ {t} : mine'[u] = mine[u]
      /\ Onward(t)
  BY ThreadFacts DEF Drop, Base, Owned, Put, Typed, Hands, Onward
<1>1. Moves(t, "end")
  BY <1>0, GotoMoves DEF Drop, Places
<1>2. PICK o \in Ops : o = mine[t]
  BY <1>0 DEF Typed, Hands
<1>3. ops' \in [Ops -> OpSet] /\ ops'[o] = NoOp /\ Others(o)
  BY <1>0, <1>2, PutDoes, OpsIn
<1>4. Typed'
  BY <1>0, <1>1, <1>3, DecrefTyped DEF Drop, Typed, out, Moves
<1>5. Rest(t)
  BY <1>0, <1>1 DEF Rest, Same, Moves
<1>6. Hands(t)'
  <2>1. at[t] # 0 => at[t] \in Ops \ {o}
    BY <1>0, <1>2 DEF Hands, Typed
  <2>2. at'[t] # 0 => ops'[at'[t]].stage = "run"
    BY <1>0, <1>3, <2>1 DEF Hands, Others
  <2> QED
    BY <1>0, <1>1, <2>2 DEF Hands, Moves
<1>7. ops[o].type # "none"
  BY <1>0, <1>2 DEF Hands, Base, Formed
<1> QED
  BY <1>0, <1>1, <1>2, <1>3, <1>4, <1>5, <1>6, <1>7, DeletedKept DEF Moves

LEMMA EndGood ==
  ASSUME Base, ~Corrupt, NEW t \in Threads, End(t)
  PROVE  Base'
<1>0. /\ pc[t] = "end" /\ mine' = mine /\ mine[t] = 0
      /\ kind' = kind /\ cancelled' = cancelled /\ sock' = sock
      /\ Typed /\ Hands(t) /\ at' \in [Threads -> Ops \cup {0}] /\ at'[t] = 0
      /\ \A u \in Threads \ {t} : at'[u] = at[u]
      /\ mx' \in {Nobody, App}
  BY ThreadFacts DEF End, Base, Owned, Typed, Hands
<1>1. Moves(t, "idle")
  BY <1>0, GotoMoves DEF End, Places
<1>2. Rest(t) /\ Onward(t)
  BY <1>0, <1>1 DEF Rest, Same, Moves, Onward, End
<1>3. Hands(t)'
  BY <1>0, <1>1 DEF Hands, Moves
<1>4. CASE at[t] = 0 /\ t # App
  <2>1. alive' = alive /\ refc' = refc /\ ops' = ops
    BY <1>4 DEF End
  <2>2. Typed'
    BY <1>0, <1>1, <2>1 DEF End, Typed, Moves
  <2>3. alive # "none"
    BY <1>0 DEF Base, Unborn
  <2> QED
    BY <1>0, <1>1, <1>2, <1>3, <1>4, <2>1, <2>2, <2>3, QuietKept DEF Moves
<1>5. CASE t = App
  <2>1. Decref /\ ops' = ops
    BY <1>5 DEF End
  <2>2. Typed'
    BY <1>0, <1>1, <2>1, DecrefTyped DEF End, Typed, Moves
  <2>3. PICK n \in 0 .. MaxOps : n = Cardinality(Used) /\ refc = n + (IF pc[App] = "idle" THEN 0 ELSE 1)
    BY CountedIs DEF Base
  <2>4. n \in Nat /\ refc = n + 1 /\ refc' = n
    BY <1>0, <1>5, <2>1, <2>3, NtAssumption DEF Decref
  <2>5. Counted'
    <3>1. Used' = Used
      BY <2>1 DEF Used
    <3>2. refc' = Cardinality(Used') + 0 /\ pc'[App] = "idle"
      BY <1>1, <1>5, <2>3, <2>4, <3>1 DEF Moves
    <3> QED
      BY <3>2 DEF Counted
  <2>6. Held' /\ alive' # "none"
    <3>1. alive = "live"
      BY <2>4, HeldLives
    <3> QED
      BY <2>1, <2>4, <3>1 DEF Held, Decref
  <2>7. Others(0) /\ 0 \notin Ops
    BY <2>1, ThreadFacts DEF Others
  <2> QED
    BY <1>0, <1>1, <1>2, <1>3, <2>2, <2>5, <2>6, <2>7, BaseKept DEF Moves
<1>6. CASE at[t] # 0 /\ t # App
  <2>1. PICK o \in Ops : o = at[t]
    BY <1>0, <1>6 DEF Typed
  <2>2. Decref /\ Put(o, NoOp)
    BY <1>6, <2>1 DEF End, Put
  <2>3. ops' \in [Ops -> OpSet] /\ ops'[o] = NoOp /\ Others(o)
    BY <1>0, <2>2, PutDoes, OpsIn
  <2>4. Typed'
    BY <1>0, <1>1, <2>2, <2>3, DecrefTyped DEF End, Typed, Moves
  <2>5. ops[o].type # "none"
    BY <1>0, <1>6, <2>1 DEF Hands, Base, Formed
  <2> QED
    BY <1>0, <1>1, <1>2, <1>3, <1>6, <2>1, <2>2, <2>3, <2>4, <2>5, DeletedKept DEF Moves
<1> QED
  BY <1>4, <1>5, <1>6

----------------------------------------------------------------------------
(* Constructors.                                                           *)

LEMMA FreeFacts == \A o \in Free : o \in Ops /\ ops[o].type = "none"
BY DEF Free

\* A thread that starts an operation, which begins at once.
LEMMA StartsGood ==
  ASSUME Base, alive = "live", NEW t \in Threads, NEW o \in Free, NEW op \in OpSet, NEW p \in Places,
         pc[t] \notin {"idle", "test", "shut"}, mine[t] = 0,
         Taken(o, op), op.type # "none", op.stage \in {"kernel", "message", "leaked"}, op.result = "none",
         op.type # "write" => op.data = << >>,
         Goto(t, p), p = "end", UNCHANGED <<mine, at, alive, kind, cancelled, sock, out, net, job, opened>>
  PROVE  Base'
<1>0. o \in Ops /\ ops[o].type = "none" /\ Put(o, op) /\ refc' = refc + 1 /\ Typed /\ Hands(t)
  BY FreeFacts DEF Taken, Put, Base, Owned
<1>1. Moves(t, "end")
  BY <1>0, GotoMoves
<1>2. ops' \in [Ops -> OpSet] /\ ops'[o] = op /\ Others(o)
  BY <1>0, PutDoes
<1>3. Typed'
  BY <1>0, <1>1, <1>2 DEF Typed, out, Moves
<1>4. Rest(t) /\ Onward(t)
  BY <1>1 DEF Rest, Same, Moves, Onward
<1>5. ops[o].stage = "none"
  BY <1>0 DEF Base, Formed
<1>6. Hands(t)'
  <2>1. at[t] # 0 => at[t] \in Ops \ {o}
    BY <1>0, <1>5 DEF Hands, Typed
  <2>2. at'[t] # 0 => ops'[at'[t]].stage = "run"
    BY <1>0, <1>2, <2>1 DEF Hands, Others
  <2> QED
    BY <1>0, <1>1, <2>2 DEF Hands, Moves
<1>7. Formed(o)'
  BY <1>2 DEF Formed
<1> QED
  BY <1>0, <1>1, <1>2, <1>3, <1>4, <1>5, <1>6, <1>7, BegunKept DEF Moves

\* .. which it has yet to begin, or to delete.
LEMMA MakesGood ==
  ASSUME Base, alive = "live", NEW t \in Threads, NEW o \in Free, NEW op \in OpSet, NEW p \in {"test", "start"},
         pc[t] \notin {"idle", "test", "shut"}, mine[t] = 0, t # Maker,
         Taken(o, op), op.type # "none", op.stage = "new", op.result = "none",
         op.type # "write" => op.data = << >>,
         Goto(t, p), mine' = [mine EXCEPT ![t] = o],
         UNCHANGED <<at, alive, kind, cancelled, sock, mx, sent, written, net, job, opened>>,
         writing' \in BOOLEAN, wrb' \in Seq(1 .. MaxOut)
  PROVE  Base'
<1>0. o \in Ops /\ ops[o].type = "none" /\ Put(o, op) /\ refc' = refc + 1 /\ Typed /\ Hands(t)
  BY FreeFacts DEF Taken, Put, Base, Owned
<1>1. Moves(t, p)
  BY <1>0, GotoMoves DEF Places
<1>2. ops' \in [Ops -> OpSet] /\ ops'[o] = op /\ Others(o)
  BY <1>0, PutDoes
<1>3. mine' \in [Threads -> Ops \cup {0}] /\ mine'[t] = o /\ \A u \in Threads \ {t} : mine'[u] = mine[u]
  BY <1>0 DEF Typed
<1>4. Typed'
  BY <1>0, <1>1, <1>2, <1>3 DEF Typed, Moves
<1>5. Rest(t) /\ Onward(t)
  BY <1>1, <1>3 DEF Rest, Same, Moves, Onward
<1>6. ops[o].stage = "none"
  BY <1>0 DEF Base, Formed
<1>7. Hands(t)'
  <2>1. at[t] # 0 => at[t] \in Ops \ {o}
    BY <1>0, <1>6 DEF Hands, Typed
  <2>2. at'[t] # 0 => ops'[at'[t]].stage = "run"
    BY <1>0, <1>2, <2>1 DEF Hands, Others
  <2>3. mine'[t] # 0 /\ ops'[mine'[t]].stage = "new"
    BY <1>0, <1>2, <1>3, ThreadFacts
  <2> QED
    BY <1>0, <1>1, <2>2, <2>3 DEF Hands, Moves
<1>8. Formed(o)'
  BY <1>2 DEF Formed
<1> QED
  BY <1>0, <1>1, <1>2, <1>3, <1>4, <1>5, <1>6, <1>7, <1>8, BegunKept DEF Moves

\* .. that goes on without one.
LEMMA GoesGood ==
  ASSUME Base, alive # "none", NEW t \in Threads, NEW p \in Places,
         pc[t] \notin {"idle", "test", "shut"}, p \notin {"idle", "start", "drop", "delete"}, t # Maker,
         mine[t] # 0 => p = "test", 
         p \in {"spawn_acceptor", "written"} => at[t] # 0,
         p = "spawn_writer" => t = App \/ at[t] # 0, p = "spawn_reader" => t \in Workers \/ at[t] # 0,
         Goto(t, p), UNCHANGED <<mine, at, alive, refc, ops, kind, cancelled, sock, mx, net, job, opened>>,
         UNCHANGED <<wrb, sent, written>>, writing' \in BOOLEAN
  PROVE  Base'
<1>0. Typed /\ Hands(t)
  BY DEF Base, Owned
<1>1. Moves(t, p)
  BY <1>0, GotoMoves
<1>2. Typed'
  BY <1>0, <1>1 DEF Typed, Moves
<1>3. Rest(t) /\ Onward(t)
  BY <1>1 DEF Rest, Same, Moves, Onward
<1>4. Hands(t)'
  BY <1>0, <1>1 DEF Hands, Moves
<1> QED
  BY <1>0, <1>1, <1>2, <1>3, <1>4, QuietKept DEF Moves

LEMMA SpawnReaderGood ==
  ASSUME Base, ~Corrupt, NEW t \in Threads, SpawnReader(t)
  PROVE  Base'
<1>0. /\ pc[t] = "spawn_reader" /\ alive = "live" /\ mine[t] = 0 /\ Typed
      /\ UNCHANGED <<kind, alive, cancelled, sock, out, net, job, at, opened>>
  BY Lives DEF SpawnReader, Base, Owned, Hands
<1>1. PICK o \in Free, s \in Posted :
        IF kind = "dgram" THEN Taken(o, Op("read", s, << >>)) /\ Goto(t, "end") /\ UNCHANGED mine
        ELSE Begun(t, o, Op("read", "kernel", << >>), "end")
  BY DEF SpawnReader, Posted
<1> DEFINE posted == Op("read", s, << >>)
           begun  == Op("read", "kernel", << >>)
           failed == [Op("read", "kernel", << >>) EXCEPT !.stage = "new"]
<1>2. /\ posted \in OpSet /\ begun \in OpSet
      /\ posted.type = "read" /\ posted.stage \in {"message", "leaked"} /\ posted.result = "none" /\ posted.data = << >>
      /\ begun.type = "read" /\ begun.stage = "kernel" /\ begun.result = "none" /\ begun.data = << >>
  BY OpsIn DEF Op, Types, Stages, Posted
<1>3. /\ failed \in OpSet
      /\ failed.type = "read" /\ failed.stage = "new" /\ failed.result = "none" /\ failed.data = << >>
  BY <1>2 DEF Op, OpSet, Stages
<1>4. "end" \in Places
  BY DEF Places
<1>5. \/ Taken(o, posted) /\ Goto(t, "end") /\ UNCHANGED mine
      \/ Taken(o, begun) /\ Goto(t, "end") /\ UNCHANGED mine
      \/ kind # "dgram" /\ Taken(o, failed) /\ Goto(t, "test") /\ mine' = [mine EXCEPT ![t] = o]
  BY <1>1 DEF Begun
<1> HIDE DEF posted, begun, failed
<1>6. CASE Taken(o, posted) /\ Goto(t, "end") /\ UNCHANGED mine
  BY <1>0, <1>2, <1>4, <1>6, StartsGood
<1>7. CASE Taken(o, begun) /\ Goto(t, "end") /\ UNCHANGED mine
  BY <1>0, <1>2, <1>4, <1>7, StartsGood
<1>8. CASE kind # "dgram" /\ Taken(o, failed) /\ Goto(t, "test") /\ mine' = [mine EXCEPT ![t] = o]
  <2>1. t # Maker
    BY <1>0, <1>8 DEF Base, Asked
  <2> QED
    BY <1>0, <1>3, <1>8, <2>1, MakesGood DEF out, Typed
<1> QED
  BY <1>5, <1>6, <1>7, <1>8

LEMMA SpawnAcceptorGood ==
  ASSUME Base, ~Corrupt, NEW t \in Threads, SpawnAcceptor(t)
  PROVE  Base'
<1>0. /\ pc[t] = "spawn_acceptor" /\ alive = "live" /\ mine[t] = 0 /\ Typed /\ t # Maker /\ Goto(t, "end")
      /\ UNCHANGED <<kind, alive, cancelled, sock, out, net, job, at, mine, opened>>
  BY Lives DEF SpawnAcceptor, Base, Owned, Hands
<1> DEFINE begun == Op("accept", "kernel", << >>)
<1>2. /\ begun \in OpSet
      /\ begun.type = "accept" /\ begun.stage = "kernel" /\ begun.result = "none" /\ begun.data = << >>
  BY OpsIn DEF Op, Types, Stages
<1>4. "end" \in Places
  BY DEF Places
<1>5. \/ \E o \in Free : Taken(o, begun)
      \/ UNCHANGED <<refc, ops>>
  BY DEF SpawnAcceptor
<1> HIDE DEF begun
<1>6. CASE \E o \in Free : Taken(o, begun)
  BY <1>0, <1>2, <1>4, <1>6, StartsGood
<1>7. CASE UNCHANGED <<refc, ops>>
  BY <1>0, <1>4, <1>7, GoesGood DEF out, Typed
<1> QED
  BY <1>5, <1>6, <1>7

\* A writer takes the beginning of what waits.
LEMMA BatchSplits ==
  ASSUME Typed, wrb # << >>
  PROVE  /\ SubSeq(wrb, 1, Batch) \in Seq(1 .. MaxOut)
         /\ SubSeq(wrb, Batch + 1, Len(wrb)) \in Seq(1 .. MaxOut)
         /\ SubSeq(wrb, 1, Batch) \o SubSeq(wrb, Batch + 1, Len(wrb)) = wrb
<1>0. wrb \in Seq(1 .. MaxOut) /\ Len(wrb) \in Nat /\ Len(wrb) >= 1
  BY DEF Typed
<1>1. wrb \in Seq(1 .. MaxOut) /\ Len(wrb) \in Nat /\ \A i \in 1 .. Len(wrb) : wrb[i] \in 1 .. MaxOut
  BY <1>0, ElementOfSeq
<1> DEFINE b == Batch
<1>2. b \in 1 .. Len(wrb)
  <2> DEFINE n == Len(wrb)
  <2>1. n \in Nat /\ n >= 1 /\ b \in {1, n, MaxBatch} /\ b <= n /\ MaxBatch \in Nat \ {0}
    BY <1>0, NtAssumption DEF Batch
  <2> HIDE DEF n, b
  <2>2. b \in 1 .. n
    BY <2>1
  <2> QED
    BY <2>2 DEF n
<1> HIDE DEF b
<1>3. SubSeq(wrb, 1, b) \in Seq(1 .. MaxOut)
  BY <1>1, <1>2, SubSeqProperties
<1>4. SubSeq(wrb, b + 1, Len(wrb)) \in Seq(1 .. MaxOut)
  BY <1>1, <1>2, SubSeqProperties
<1>5. SubSeq(wrb, 1, b) \o SubSeq(wrb, b + 1, Len(wrb)) = SubSeq(wrb, 1, Len(wrb))
  BY <1>1, <1>2, ConcatAdjacentSubSeq
<1>6. SubSeq(wrb, 1, Len(wrb)) = wrb
  BY <1>1, SubSeqFull
<1> QED
  BY <1>3, <1>4, <1>5, <1>6 DEF b

LEMMA SpawnWriterGood ==
  ASSUME Base, ~Corrupt, NEW t \in Threads, SpawnWriter(t)
  PROVE  Base'
<1>0. /\ pc[t] = "spawn_writer" /\ alive = "live" /\ mine[t] = 0 /\ Typed /\ t # Maker
      /\ UNCHANGED <<kind, alive, cancelled, sock, mx, sent, written, net, job, at, opened>>
  BY Lives DEF SpawnWriter, Base, Owned, Hands
<1>1. CASE writing \/ wrb = << >>
  <2>1. Goto(t, "end") /\ UNCHANGED <<refc, ops, writing, wrb, mine>>
    BY <1>1 DEF SpawnWriter
  <2>2. "end" \in Places
    BY DEF Places
  <2> QED
    BY <1>0, <2>1, <2>2, GoesGood DEF out, Typed
<1>2. CASE ~(writing \/ wrb = << >>)
  <2> DEFINE made == Op("write", "new", SubSeq(wrb, 1, Batch))
  <2>1. PICK o \in Free : /\ Taken(o, made)
                          /\ wrb' = SubSeq(wrb, Batch + 1, Len(wrb)) /\ writing' = TRUE
                          /\ mine' = [mine EXCEPT ![t] = o] /\ Goto(t, "start")
    BY <1>2 DEF SpawnWriter
  <2>2. /\ made \in OpSet /\ made.type = "write" /\ made.stage = "new" /\ made.result = "none"
        /\ wrb' \in Seq(1 .. MaxOut)
    BY <1>0, <1>2, <2>1, BatchSplits, OpsIn DEF Op, Types, Stages
  <2> HIDE DEF made
  <2> QED
    BY <1>0, <2>1, <2>2, MakesGood
<1> QED
  BY <1>1, <1>2

LEMMA StartWriteGood ==
  ASSUME Base, ~Corrupt, NEW t \in Threads, StartWrite(t)
  PROVE  Base'
<1>0. /\ pc[t] = "start" /\ Typed /\ mine[t] # 0 /\ Hands(t) /\ t # Maker
      /\ UNCHANGED <<conn, out, net, job, at, opened>>
  BY DEF StartWrite, Base, Owned, Hands
<1>1. PICK o \in Ops : o = mine[t]
  BY <1>0 DEF Typed
<1>2. ops[o].stage = "new" /\ ops[o].type # "none" /\ Formed(o)
  BY <1>0, <1>1 DEF Base, Formed, Hands
<1>3. CASE Stage(o, "kernel") /\ mine' = [mine EXCEPT ![t] = 0] /\ Goto(t, "end")
  <2>1. Moves(t, "end")
    BY <1>0, <1>3, GotoMoves DEF Places
  <2>2. /\ ops' \in [Ops -> OpSet] /\ Others(o) /\ ops'[o].stage = "kernel" /\ ops'[o].type = ops[o].type
        /\ ops'[o].result = ops[o].result /\ ops'[o].data = ops[o].data
    BY <1>0, <1>3, StageDoes DEF Stages
  <2>3. mine' \in [Threads -> Ops \cup {0}] /\ mine'[t] = 0 /\ \A u \in Threads \ {t} : mine'[u] = mine[u]
    BY <1>0, <1>3 DEF Typed
  <2>4. Typed'
    BY <1>0, <2>1, <2>2, <2>3 DEF Typed, conn, out, Moves
  <2>5. Rest(t) /\ Onward(t)
    BY <1>0, <2>1, <2>3 DEF Rest, Same, Moves, Onward, conn
  <2>6. at'[t] # 0 => ops'[at'[t]].stage = "run"
    BY <1>0, <1>2, <2>2 DEF Hands, Others, Typed
  <2>7. Hands(t)'
    BY <1>0, <2>1, <2>3, <2>6 DEF Hands, Moves
  <2>8. Formed(o)'
    BY <1>2, <2>2 DEF Formed
  <2> QED
    BY <1>0, <1>1, <1>2, <2>1, <2>2, <2>3, <2>4, <2>5, <2>7, <2>8, RestagedKept DEF Moves, conn
<1>4. CASE Goto(t, "test") /\ UNCHANGED <<ops, mine>>
  <2>1. "test" \in Places /\ alive # "none"
    BY <1>0 DEF Places, Base, Unborn
  <2> QED
    BY <1>0, <1>4, <2>1, GoesGood DEF conn, out, Typed
<1> QED
  BY <1>1, <1>3, <1>4 DEF StartWrite, Stage

LEMMA PostWriteGood ==
  ASSUME Base, ~Corrupt, NEW t \in Threads, PostWrite(t)
  PROVE  Base'
<1>0. /\ pc[t] = "start" /\ Typed /\ mine[t] # 0 /\ Hands(t) /\ t # Maker
      /\ UNCHANGED <<conn, out, net, job, at, opened>>
  BY DEF PostWrite, Base, Owned, Hands
<1>1. PICK o \in Ops : o = mine[t]
  BY <1>0 DEF Typed
<1>2. ops[o].stage = "new" /\ ops[o].type # "none" /\ Formed(o)
  BY <1>0, <1>1 DEF Base, Formed, Hands
<1>3. PICK s \in Posted : Stage(o, s) /\ mine' = [mine EXCEPT ![t] = 0] /\ Goto(t, "end")
  BY <1>1 DEF PostWrite, Stage
<1>4. Moves(t, "end")
  BY <1>0, <1>3, GotoMoves DEF Places
<1>5. /\ ops' \in [Ops -> OpSet] /\ Others(o) /\ ops'[o].stage = s /\ ops'[o].type = ops[o].type
      /\ ops'[o].result = ops[o].result /\ ops'[o].data = ops[o].data
  BY <1>0, <1>3, StageDoes DEF Stages, Posted
<1>6. mine' \in [Threads -> Ops \cup {0}] /\ mine'[t] = 0 /\ \A u \in Threads \ {t} : mine'[u] = mine[u]
  BY <1>0, <1>3 DEF Typed
<1>7. Typed'
  BY <1>0, <1>4, <1>5, <1>6 DEF Typed, conn, out, Moves
<1>8. Rest(t) /\ Onward(t)
  BY <1>0, <1>4, <1>6 DEF Rest, Same, Moves, Onward, conn
<1>9. at'[t] # 0 => ops'[at'[t]].stage = "run"
  BY <1>0, <1>2, <1>5 DEF Hands, Others, Typed
<1>10. Hands(t)'
  BY <1>0, <1>4, <1>6, <1>9 DEF Hands, Moves
<1>11. Formed(o)'
  BY <1>2, <1>5 DEF Formed, Posted
<1> QED
  BY <1>0, <1>1, <1>2, <1>4, <1>5, <1>6, <1>7, <1>8, <1>10, <1>11, RestagedKept DEF Moves, conn

LEMMA WrittenGood ==
  ASSUME Base, ~Corrupt, NEW t \in Threads, Written(t)
  PROVE  Base'
<1>0. /\ pc[t] = "written" /\ Typed /\ mine[t] = 0 /\ at[t] # 0 /\ t # Maker /\ writing' = FALSE /\ Goto(t, "spawn_writer")
      /\ UNCHANGED <<conn, mx, wrb, sent, written, ops, net, job, at, mine, opened>>
  BY DEF Written, Base, Owned, Hands
<1>1. "spawn_writer" \in Places /\ alive # "none"
  BY <1>0 DEF Places, Base, Unborn
<1> QED
  BY <1>0, <1>1, GoesGood DEF conn

----------------------------------------------------------------------------
(* Handlers.                                                               *)

LEMMA DequeuedGood ==
  ASSUME Base, NEW t \in Threads, NEW o \in Ops, NEW type \in Types \ {"none"}, Dequeued(t, o, type),
         NEW p \in {"test", "spawn_reader", "spawn_acceptor", "written", "end"}, Goto(t, p),
         opened' \in {opened, TRUE}
  PROVE  Base' /\ t # App
<1>0. /\ pc[t] = "idle" /\ Typed /\ mine[t] = 0 /\ Hands(t) /\ t # App /\ t # Maker /\ at[t] = 0
      /\ ops[o].stage = "done" /\ ops[o].type = type /\ Formed(o) /\ Stage(o, "run")
      /\ UNCHANGED <<conn, out, net, job, mine>>
  BY ThreadFacts DEF Dequeued, Base, Owned, Hands, Stage
<1>01. opened' \in BOOLEAN /\ (opened => opened') /\ kind' = kind
  BY <1>0 DEF Typed, conn
<1>1. Moves(t, p)
  BY <1>0, GotoMoves DEF Places
<1>2. /\ ops' \in [Ops -> OpSet] /\ Others(o) /\ ops'[o].stage = "run" /\ ops'[o].type = ops[o].type
      /\ ops'[o].result = ops[o].result /\ ops'[o].data = ops[o].data
  BY <1>0, StageDoes DEF Stages
<1>3. at' \in [Threads -> Ops \cup {0}] /\ at'[t] = o /\ \A u \in Threads \ {t} : at'[u] = at[u]
  BY <1>0 DEF Typed, Dequeued
<1>4. Typed'
  BY <1>0, <1>01, <1>1, <1>2, <1>3 DEF Typed, conn, out, Moves
<1>5. Rest(t) /\ Onward(t)
  BY <1>0, <1>01, <1>1, <1>3 DEF Rest, Same, Moves, Onward
<1>6. at'[t] # 0 /\ ops'[at'[t]].stage = "run"
  BY <1>2, <1>3, ThreadFacts
<1>7. Hands(t)'
  BY <1>0, <1>1, <1>6 DEF Hands, Moves
<1>8. Formed(o)'
  BY <1>0, <1>2 DEF Formed
<1> QED
  BY <1>0, <1>1, <1>2, <1>3, <1>4, <1>5, <1>7, <1>8, RestagedKept DEF Moves, conn

LEMMA TakesGood ==
  ASSUME Base, NEW t \in Threads, NEW o \in Ops,
         \/ TakeConnect(t, o) \/ TakeAccept(t, o) \/ TakeRead(t, o) \/ TakeDatagram(t, o) \/ TakeWrite(t, o)
  PROVE  Base'
<1>0. {"connect", "accept", "read", "write"} \subseteq Types \ {"none"}
  BY DEF Types
<1>1. CASE TakeConnect(t, o)
  BY <1>0, <1>1, DequeuedGood DEF TakeConnect, OnConnect
<1>2. CASE TakeAccept(t, o)
  BY <1>0, <1>2, DequeuedGood DEF TakeAccept
<1>3. CASE TakeRead(t, o)
  BY <1>0, <1>3, DequeuedGood DEF TakeRead
<1>4. CASE TakeDatagram(t, o)
  BY <1>0, <1>4, DequeuedGood DEF TakeDatagram
<1>5. CASE TakeWrite(t, o)
  BY <1>0, <1>5, DequeuedGood DEF TakeWrite
<1> QED
  BY <1>1, <1>2, <1>3, <1>4, <1>5

----------------------------------------------------------------------------
(* The thread of connectex.cc, and the kernel.                             *)

LEMMA StillRest ==
  ASSUME Base, UNCHANGED threads, NEW t \in Threads
  PROVE  Rest(t) /\ Same(t) /\ (pc[t] = "drop" => cancelled)
BY DEF threads, Rest, Same, Base, Closed

LEMMA ExOnward ==
  ASSUME UNCHANGED <<kind, opened>>
  PROVE  Onward(Ex)
BY ThreadFacts DEF Onward

LEMMA BouncedGood ==
  ASSUME Base, NEW o \in Ops, NEW type \in Types \ {"none"}, Bounced(o, type)
  PROVE  Base'
<1>0. /\ pc[Ex] = "idle" /\ Typed /\ Hands(Ex) /\ ops[o].stage = "message" /\ ops[o].type = type /\ Formed(o)
      /\ UNCHANGED <<conn, out, net, job, at, mine, opened>> /\ Ex \in Threads /\ Ex # App /\ Ex # Maker /\ Onward(Ex)
  BY ThreadFacts, ExOnward DEF Bounced, Base, Owned, conn
<1>1. CASE Stage(o, "kernel") /\ UNCHANGED pc
  <2>1. /\ ops' \in [Ops -> OpSet] /\ Others(o) /\ ops'[o].stage = "kernel" /\ ops'[o].type = ops[o].type
        /\ ops'[o].result = ops[o].result /\ ops'[o].data = ops[o].data
    BY <1>0, <1>1, StageDoes DEF Stages
  <2>2. Typed'
    BY <1>0, <1>1, <2>1 DEF Typed, conn, out
  <2>3. Rest(Ex)
    BY <1>0, <1>1 DEF Rest, Same
  <2>4. Hands(Ex)'
    BY <1>0, <1>1 DEF Hands
  <2>5. Formed(o)'
    BY <1>0, <2>1 DEF Formed
  <2> QED
    BY <1>0, <1>1, <2>1, <2>2, <2>3, <2>4, <2>5, RestagedKept DEF conn
<1>2. CASE Stage(o, "leaked") /\ Goto(Ex, "test")
  <2>1. /\ ops' \in [Ops -> OpSet] /\ Others(o) /\ ops'[o].stage = "leaked" /\ ops'[o].type = ops[o].type
        /\ ops'[o].result = ops[o].result /\ ops'[o].data = ops[o].data
    BY <1>0, <1>2, StageDoes DEF Stages
  <2>2. Moves(Ex, "test")
    BY <1>0, <1>2, GotoMoves DEF Places
  <2>3. Typed'
    BY <1>0, <2>1, <2>2 DEF Typed, conn, out, Moves
  <2>4. Rest(Ex)
    BY <1>0, <2>2 DEF Rest, Same, Moves
  <2>5. Hands(Ex)'
    BY <1>0, <2>2 DEF Hands, Moves
  <2>6. Formed(o)'
    BY <1>0, <2>1 DEF Formed
  <2> QED
    BY <1>0, <2>1, <2>2, <2>3, <2>4, <2>5, <2>6, RestagedKept DEF Moves, conn
<1> QED
  BY <1>1, <1>2 DEF Bounced, Stage

LEMMA SettleGood ==
  ASSUME Base, ~Corrupt, NEW o \in Ops, ops[o].type = "connect", ops[o].stage \in {"message", "list"}, Settle(o),
         UNCHANGED <<kind, cancelled, sock, out, net, job, threads, opened>>
  PROVE  Base'
<1>0. /\ Typed /\ Hands(Ex) /\ Formed(o) /\ Ex \in Threads /\ Ex # App /\ Onward(Ex)
      /\ Rest(Ex) /\ Same(Ex) /\ (pc[Ex] = "drop" => cancelled)
  BY ThreadFacts, StillRest, ExOnward DEF Base, Owned
<1>1. CASE net # "none" /\ (\E s \in {"done", "leaked"} : Finish(o, s, net)) /\ UNCHANGED <<alive, refc>>
  <2>1. /\ ops' \in [Ops -> OpSet] /\ Others(o) /\ ops'[o].stage \in {"done", "leaked"} /\ ops'[o].type = ops[o].type
        /\ ops'[o].result = net /\ ops'[o].data = ops[o].data
    BY <1>0, <1>1, FinishDoes DEF Typed, Results, Stages
  <2>2. Typed'
    BY <1>0, <1>1, <2>1 DEF Typed, out, threads
  <2>3. Hands(Ex)'
    BY <1>0, <2>1 DEF Hands, Same, Others, Typed
  <2>4. Formed(o)'
    BY <1>0, <1>1, <2>1 DEF Formed
  <2> QED
    BY <1>0, <1>1, <2>1, <2>2, <2>3, <2>4, RestagedKept DEF Same
<1>2. CASE Put(o, NoOp) /\ Decref
  <2>1. ops' \in [Ops -> OpSet] /\ ops'[o] = NoOp /\ Others(o)
    BY <1>0, <1>2, PutDoes, OpsIn
  <2>2. Typed'
    BY <1>0, <1>2, <2>1, DecrefTyped DEF Typed, out, threads
  <2>3. Hands(Ex)'
    BY <1>0, <2>1 DEF Hands, Same, Others, Typed
  <2> QED
    BY <1>0, <1>2, <2>1, <2>2, <2>3, DeletedKept DEF Same
<1> QED
  BY <1>1, <1>2 DEF Settle, Put, Finish

LEMMA WatchesGood ==
  ASSUME Base, ~Corrupt, NEW o \in Ops, WatchNew(o) \/ WatchList(o)
  PROVE  Base'
<1>1. CASE WatchNew(o) /\ Stage(o, "list") /\ UNCHANGED <<alive, refc>>
  <2>0. /\ Typed /\ Hands(Ex) /\ Formed(o) /\ Ex \in Threads /\ Ex # App /\ Onward(Ex)
        /\ Rest(Ex) /\ Same(Ex) /\ (pc[Ex] = "drop" => cancelled)
        /\ ops[o].type = "connect" /\ ops[o].stage = "message"
        /\ UNCHANGED <<kind, cancelled, sock, out, net, job, threads, opened>>
    BY <1>1, ThreadFacts, StillRest, ExOnward DEF Base, Owned, WatchNew
  <2>1. /\ ops' \in [Ops -> OpSet] /\ Others(o) /\ ops'[o].stage = "list" /\ ops'[o].type = ops[o].type
        /\ ops'[o].result = ops[o].result /\ ops'[o].data = ops[o].data
    BY <1>1, <2>0, StageDoes DEF Stages
  <2>2. Typed'
    BY <1>1, <2>0, <2>1 DEF Typed, out, threads
  <2>3. Hands(Ex)'
    BY <2>0, <2>1 DEF Hands, Same, Others, Typed
  <2>4. Formed(o)'
    BY <2>0, <2>1 DEF Formed
  <2> QED
    BY <1>1, <2>0, <2>1, <2>2, <2>3, <2>4, RestagedKept DEF Same
<1>2. CASE WatchNew(o) /\ Settle(o)
  BY <1>2, SettleGood DEF WatchNew
<1>3. CASE WatchList(o)
  BY <1>3, SettleGood DEF WatchList
<1> QED
  BY <1>1, <1>2, <1>3 DEF WatchNew, Stage

LEMMA OutcomeGood ==
  ASSUME Base, Outcome
  PROVE  Base'
<1>0. /\ Typed /\ Hands(Ex) /\ Ex \in Threads /\ Rest(Ex) /\ Same(Ex) /\ (pc[Ex] = "drop" => cancelled)
      /\ UNCHANGED <<conn, out, ops, threads, opened>> /\ Onward(Ex)
  BY ThreadFacts, StillRest, ExOnward DEF Base, Owned, Outcome, conn
<1>1. Typed'
  BY <1>0 DEF Typed, Outcome, conn, out, threads
<1>2. alive # "none"
  BY DEF Base, Unborn, Outcome, NoOp
<1>3. Hands(Ex)'
  BY <1>0 DEF Hands, Same
<1> QED
  BY <1>0, <1>1, <1>2, <1>3, QuietKept DEF Same, conn

LEMMA CompleteGood ==
  ASSUME Base, NEW o \in Ops, Complete(o)
  PROVE  Base'
<1>0. /\ Typed /\ Hands(Ex) /\ Formed(o) /\ Ex \in Threads /\ Ex # App /\ Onward(Ex)
      /\ Rest(Ex) /\ Same(Ex) /\ (pc[Ex] = "drop" => cancelled)
      /\ ops[o].stage = "kernel"
      /\ UNCHANGED <<conn, writing, mx, wrb, written, net, job, threads, opened>>
  BY ThreadFacts, StillRest, ExOnward DEF Base, Owned, Complete, conn
<1>1. PICK r \in {"ok", "failed", "stray"} :
        Finish(o, "done", r) /\ sent' = IF r = "ok" THEN sent \o ops[o].data ELSE sent
  BY DEF Complete, Finish
<1>2. /\ ops' \in [Ops -> OpSet] /\ Others(o) /\ ops'[o].stage = "done" /\ ops'[o].type = ops[o].type
      /\ ops'[o].result = r /\ ops'[o].data = ops[o].data
  BY <1>0, <1>1, FinishDoes DEF Results, Stages
<1>3. sent' \in Seq(1 .. MaxOut)
  <2>1. ops[o].data \in Seq(1 .. MaxOut) /\ sent \in Seq(1 .. MaxOut)
    BY <1>0 DEF Typed, OpSet
  <2>2. sent \o ops[o].data \in Seq(1 .. MaxOut)
    BY <2>1, ConcatProperties
  <2> QED
    BY <1>1, <2>1, <2>2
<1>4. Typed'
  BY <1>0, <1>2, <1>3 DEF Typed, conn, threads
<1>5. Hands(Ex)'
  BY <1>0, <1>2 DEF Hands, Same, Others, Typed
<1>6. Formed(o)' /\ ops[o].type # "none"
  BY <1>0, <1>1, <1>2 DEF Formed
<1> QED
  BY <1>0, <1>2, <1>4, <1>5, <1>6, RestagedKept DEF Same, conn

----------------------------------------------------------------------------
(* The application.                                                        *)

LEMMA CallGood ==
  ASSUME Base, alive = "live", pc[App] = "idle", NEW p \in {"test", "end", "spawn_writer"}, Goto(App, p),
         refc' = refc + 1, UNCHANGED <<kind, alive, cancelled, sock, writing, sent, ops, net, job, at, mine, opened>>,
         mx' \in {Nobody, App}, wrb' \in Seq(1 .. MaxOut), written' \in 0 .. MaxOut
  PROVE  Base'
<1>0. Typed /\ Hands(App) /\ App \in Threads /\ Ex # App /\ App # Maker /\ Onward(App)
  BY ThreadFacts DEF Base, Owned, Onward
<1>1. Moves(App, p)
  BY <1>0, GotoMoves DEF Places
<1>2. Typed'
  BY <1>0, <1>1 DEF Typed, Moves
<1>3. Rest(App)
  BY <1>1 DEF Rest, Same, Moves
<1>4. Hands(App)'
  BY <1>0, <1>1 DEF Hands, Moves
<1>5. PICK n \in 0 .. MaxOps : n = Cardinality(Used) /\ refc = n + (IF pc[App] = "idle" THEN 0 ELSE 1)
  BY CountedIs DEF Base
<1>6. n \in Nat /\ refc' = n + 1 /\ Used' = Used
  BY <1>5, NtAssumption DEF Used
<1>7. Counted'
  <2>1. refc' = Cardinality(Used') + 1 /\ pc'[App] # "idle"
    BY <1>1, <1>5, <1>6 DEF Moves
  <2> QED
    BY <2>1 DEF Counted
<1>8. Held' /\ alive' # "none"
  BY DEF Held
<1>9. Others(0) /\ 0 \notin Ops
  BY ThreadFacts DEF Others
<1> QED
  BY <1>0, <1>1, <1>2, <1>3, <1>4, <1>7, <1>8, <1>9, BaseKept DEF Moves

LEMMA WriteTyped ==
  ASSUME Typed, Write
  PROVE  wrb' = Append(wrb, written') /\ wrb' \in Seq(1 .. MaxOut) /\ written' \in 1 .. MaxOut /\ written' = written + 1
<1>1. written \in 0 .. MaxOut /\ written < MaxOut /\ written' = written + 1 /\ wrb' = Append(wrb, written')
      /\ wrb \in Seq(1 .. MaxOut)
  BY DEF Typed, Write
<1>2. written' \in 1 .. MaxOut
  BY <1>1, NtAssumption
<1> QED
  BY <1>1, <1>2, AppendProperties

LEMMA WriteGood ==
  ASSUME Base, Write
  PROVE  Base'
<1>1. Typed
  BY DEF Base
<1>2. wrb' \in Seq(1 .. MaxOut) /\ written' \in 0 .. MaxOut
  BY <1>1, WriteTyped, NtAssumption
<1>3. PICK p \in {"end", "spawn_writer"} : Goto(App, p)
  BY DEF Write
<1> QED
  BY <1>2, <1>3, CallGood DEF Write, Known

LEMMA CancelGood ==
  ASSUME Base, Cancel
  PROVE  Base'
BY CallGood DEF Cancel, Known, out, Base, Typed

----------------------------------------------------------------------------
(* The birth.                                                              *)

LEMMA BirthGood ==
  ASSUME Base, alive = "none", Typed', UNCHANGED <<at, mine, cancelled, sock>>, alive' # "none",
         \A t \in Threads : \/ pc'[t] = "idle"
                           \/ (t \in Workers /\ pc'[t] \in {"spawn_reader", "test"})
                           \/ (t = Maker /\ pc'[t] \in {"spawn_reader", "delete", "end"}),
         \A o \in Ops : Formed(o)',
         Counted', Held', Asked'
  PROVE  Base'
<1>1. \A t \in Threads : at'[t] = 0 /\ mine'[t] = 0
  BY DEF Base, Unborn, Owned, Hands
<1>2. \A t \in Threads : Hands(t)'
  BY <1>1, ThreadFacts DEF Hands
<1>3. Owned'
  BY <1>1, <1>2 DEF Owned, Apart
<1>4. Unborn' /\ Closed'
  <2>1. \A t \in Threads : pc'[t] # "drop"
    OBVIOUS
  <2> QED
    BY <2>1 DEF Unborn, Closed, Base
<1> QED
  BY <1>3, <1>4 DEF Base, Ops

LEMMA BirthFacts ==
  ASSUME Base, alive = "none"
  PROVE  /\ \A o \in Ops : ops[o] = NoOp /\ ops[o].type = "none" /\ ops[o].stage = "none" /\ ops[o].data = << >>
         /\ \A t \in Threads : pc[t] = "idle"
         /\ refc = 0 /\ Used = {} /\ Counted /\ Typed /\ \A o \in Ops : Formed(o)
BY DEF Base, Unborn, NoOp, Used

\* The maker deletes what it made, or goes on with it and has no operation.
LEMMA AloneGood ==
  ASSUME Base, alive = "none", alive' \in {"live", "deleted"},
         UNCHANGED <<kind, cancelled, sock, out, at, mine, refc, ops>>,
         pc' \in [Threads -> Places], net' \in {"none", "ok", "failed"}, job' \in BOOLEAN, opened' \in BOOLEAN,
         pc'[App] = "idle", Asked',
         \A t \in Threads : \/ pc'[t] = "idle"
                           \/ (t \in Workers /\ pc'[t] \in {"spawn_reader", "test"})
                           \/ (t = Maker /\ pc'[t] \in {"spawn_reader", "delete", "end"})
  PROVE  Base'
<1>1. Typed'
  BY BirthFacts DEF Typed, out
<1>2. Counted'
  BY BirthFacts, CountKept, ThreadFacts
<1>3. Held'
  BY BirthFacts DEF Held
<1>4. \A o \in Ops : Formed(o)'
  BY BirthFacts DEF Formed
<1> QED
  BY <1>1, <1>2, <1>3, <1>4, BirthGood

LEMMA UnmadeGood ==
  ASSUME Base, Unmade
  PROVE  Base'
<1>1. /\ alive = "none" /\ alive' = "deleted" /\ UNCHANGED <<kind, cancelled, sock, out, at, mine>>
      /\ UNCHANGED <<refc, ops, net, job, pc, opened>>
  BY DEF Unmade, Born
<1>2. \A t \in Threads : pc'[t] = "idle"
  BY <1>1, BirthFacts
<1>3. pc' \in [Threads -> Places] /\ net' \in {"none", "ok", "failed"} /\ job' \in BOOLEAN /\ opened' \in BOOLEAN
  BY <1>1 DEF Base, Typed
<1>4. Asked' /\ pc'[App] = "idle"
  BY <1>2, ThreadFacts DEF Asked
<1> QED
  BY <1>1, <1>2, <1>3, <1>4, AloneGood

LEMMA ConnectGood ==
  ASSUME Base, Born("live"), Taken(1, Attempt), Goto(Maker, "end"), UNCHANGED <<net, job, opened>>
  PROVE  Base'
<1>0. /\ alive = "none" /\ alive' = "live" /\ UNCHANGED <<kind, cancelled, sock, out, at, mine>>
      /\ 1 \in Ops /\ Put(1, Attempt) /\ refc' = refc + 1
  BY ThreadFacts DEF Born, Taken, Put
<1>1. /\ Attempt \in OpSet /\ Attempt.type = "connect" /\ Attempt.stage = "message"
      /\ Attempt.result = "none" /\ Attempt.data = << >>
  BY OpsIn DEF Attempt, Op, Types, Stages
<1>2. ops' \in [Ops -> OpSet] /\ ops'[1] = Attempt /\ Others(1)
  BY <1>0, <1>1, BirthFacts, PutDoes
<1>3. Moves(Maker, "end") /\ Maker \in Threads /\ Maker # App
  BY <1>0, BirthFacts, GotoMoves, ThreadFacts DEF Places
<1>4. Typed'
  BY <1>0, <1>2, <1>3, BirthFacts DEF Typed, out, Moves
<1>5. Counted'
  <2>1. pc'[App] = "idle" <=> pc[App] = "idle"
    BY <1>3, ThreadFacts DEF Moves
  <2> QED
    BY <1>0, <1>1, <1>2, <2>1, BirthFacts, CountMore
<1>6. Formed(1)'
  BY <1>1, <1>2 DEF Formed
<1>7. \A o \in Ops : Formed(o)'
  BY <1>0, <1>2, <1>6, BirthFacts DEF Formed, Others
<1>8. Held' /\ Asked'
  BY <1>0, <1>3 DEF Held, Asked, Moves
<1>9. \A t \in Threads : pc'[t] = "idle" \/ (t = Maker /\ pc'[t] = "end")
  BY <1>0, <1>3, BirthFacts DEF Moves
<1> QED
  BY <1>0, <1>4, <1>5, <1>7, <1>8, <1>9, BirthGood

\* As many acceptors as there are references.
LEMMA ListenGood ==
  ASSUME Base, Listen, ~Unmade
  PROVE  Base'
<1> DEFINE op == Op("accept", "kernel", << >>)
<1>0. PICK n \in 1 .. 2 :
        /\ alive = "none" /\ alive' = "live" /\ UNCHANGED <<kind, cancelled, sock, out, at, mine>>
        /\ UNCHANGED <<net, job, pc, opened>> /\ refc' = n
        /\ ops' = [o \in Ops |-> IF o <= n THEN op ELSE ops[o]]
  BY DEF Listen, Born
<1>1. op \in OpSet /\ op.type = "accept" /\ op.stage = "kernel" /\ op.result = "none" /\ op.data = << >>
  BY OpsIn DEF Op, Types, Stages
<1> HIDE DEF op
<1>2. ops \in [Ops -> OpSet] /\ \A o \in Ops : ops[o].type = "none" /\ Formed(o)
  BY <1>0, BirthFacts DEF Typed
<1>3. ops' \in [Ops -> OpSet] /\ \A o \in Ops : ops'[o] = IF o <= n THEN op ELSE ops[o]
  BY <1>0, <1>1, <1>2
<1>4. Typed'
  BY <1>0, <1>3, BirthFacts DEF Typed, out
<1>5. \A o \in Ops : Formed(o)'
  BY <1>1, <1>2, <1>3 DEF Formed
<1>6. Used' = 1 .. n
  <2>1. n \in Nat /\ n <= MaxOps /\ MaxOps \in Nat
    BY NtAssumption
  <2>2. \A o \in Ops : ops'[o].type # "none" <=> o <= n
    BY <1>1, <1>2, <1>3
  <2>3. Used' = {o \in Ops : ops'[o].type # "none"}
    BY DEF Used, Ops
  <2>4. 1 .. n = {o \in 1 .. MaxOps : o <= n}
    BY <2>1
  <2> QED
    BY <2>2, <2>3, <2>4 DEF Ops
<1>7. Cardinality(1 .. n) = n
  <2>1. n \in Nat /\ 1 \in Int /\ n \in Int
    OBVIOUS
  <2>2. Cardinality(1 .. n) = IF 1 > n THEN 0 ELSE n - 1 + 1
    BY <2>1, FS_Interval
  <2> QED
    BY <2>1, <2>2
<1>8. Counted'
  <2>1. refc' = Cardinality(Used') + 0 /\ pc'[App] = "idle"
    BY <1>0, <1>6, <1>7, BirthFacts, ThreadFacts
  <2> QED
    BY <2>1 DEF Counted
<1>9. Held' /\ Asked'
  BY <1>0, BirthFacts, ThreadFacts DEF Held, Asked
<1> QED
  BY <1>0, <1>4, <1>5, <1>8, <1>9, BirthFacts, BirthGood

LEMMA CreateGood ==
  ASSUME Base, Create
  PROVE  Base'
<1>1. CASE Unmade
  BY <1>1, UnmadeGood
<1>2. CASE Connect /\ ~Unmade
  BY <1>2, ConnectGood DEF Connect
<1>3. CASE OnAccept
  <2>0. /\ alive = "none" /\ alive' = "live" /\ UNCHANGED <<kind, cancelled, sock, out, at, mine, ops, refc>>
        /\ opened' = TRUE /\ net' = "ok" /\ job' = TRUE
    BY <1>3 DEF OnAccept, Born
  <2>1. PICK w \in Workers, p \in {"spawn_reader", "test"} : Goto(w, p)
    BY <1>3 DEF OnAccept
  <2>2. Moves(w, p) /\ w \in Threads /\ w # App /\ w # Maker
    BY <2>0, <2>1, BirthFacts, GotoMoves, ThreadFacts DEF Places
  <2>3. \A t \in Threads : pc'[t] = "idle" \/ (t \in Workers /\ pc'[t] \in {"spawn_reader", "test"})
    BY <2>0, <2>2, BirthFacts DEF Moves
  <2>4. Asked' /\ pc'[App] = "idle"
    BY <2>0, <2>2, BirthFacts, ThreadFacts DEF Asked, Moves
  <2> QED
    BY <2>0, <2>2, <2>3, <2>4, AloneGood DEF Moves
<1>4. CASE Listen /\ ~Unmade
  BY <1>4, ListenGood
<1>5. CASE ConnectDg /\ ~Unmade
  <2>0. /\ alive = "none" /\ alive' = "live" /\ UNCHANGED <<kind, cancelled, sock, out, at, mine, ops, refc>>
        /\ opened' = TRUE /\ UNCHANGED <<net, job>> /\ kind = "dgram"
    BY <1>5 DEF ConnectDg, Born
  <2>1. PICK p \in {"spawn_reader", "delete"} : Goto(Maker, p)
    BY <1>5 DEF ConnectDg
  <2>2. Moves(Maker, p) /\ Maker # App
    BY <2>0, <2>1, BirthFacts, GotoMoves, ThreadFacts DEF Places
  <2>3. \A t \in Threads : pc'[t] = "idle" \/ (t = Maker /\ pc'[t] \in {"spawn_reader", "delete", "end"})
    BY <2>0, <2>2, BirthFacts DEF Moves
  <2>4. Asked' /\ pc'[App] = "idle" /\ net' \in {"none", "ok", "failed"} /\ job' \in BOOLEAN
    BY <2>0, <2>2, BirthFacts, ThreadFacts DEF Asked, Moves, Typed
  <2> QED
    BY <2>0, <2>2, <2>3, <2>4, AloneGood DEF Moves
<1> QED
  BY <1>1, <1>2, <1>3, <1>4, <1>5 DEF Create

\* The maker does not ask whether anybody has a reference.
LEMMA DeleteGood ==
  ASSUME Base, ~Corrupt, Delete
  PROVE  Base'
<1>0. /\ pc[Maker] = "delete" /\ alive' = "deleted" /\ Maker \in Threads /\ Maker # App /\ Typed /\ Hands(Maker)
      /\ UNCHANGED <<kind, refc, cancelled, sock, out, ops, net, job, at, mine, opened>>
  BY ThreadFacts DEF Delete, Base, Owned
<1>1. Moves(Maker, "idle")
  BY <1>0, GotoMoves DEF Delete, Places
<1>2. Rest(Maker) /\ Onward(Maker)
  BY <1>0, <1>1 DEF Rest, Same, Moves, Onward
<1>3. Typed'
  BY <1>0, <1>1 DEF Typed, out, Moves
<1>4. Hands(Maker)'
  BY <1>0, <1>1 DEF Hands, Moves
<1>5. Counted'
  <2>1. pc'[App] = "idle" <=> pc[App] = "idle"
    BY <1>0, <1>1, ThreadFacts DEF Moves
  <2> QED
    BY <1>0, <2>1, CountKept DEF Base
<1>6. Held'
  BY <1>0 DEF Held, Base, Asked
<1>7. Others(0) /\ 0 \notin Ops
  BY <1>0, ThreadFacts DEF Others
<1> QED
  BY <1>0, <1>1, <1>2, <1>3, <1>4, <1>5, <1>6, <1>7, BaseKept DEF Moves

----------------------------------------------------------------------------
(* Together.                                                               *)

LEMMA BaseInit == Init => Base
<1> SUFFICES ASSUME Init PROVE Base
  OBVIOUS
<1>1. NoOp \in OpSet /\ << >> \in Seq(1 .. MaxOut)
  BY OpsIn
<1>2. Typed
  <2>1. ops \in [Ops -> OpSet] /\ at \in [Threads -> Ops \cup {0}] /\ mine \in [Threads -> Ops \cup {0}]
    BY <1>1 DEF Init
  <2>2. pc \in [Threads -> Places] /\ job \in BOOLEAN /\ kind \in {"stream", "listener", "dgram"}
    BY NtAssumption DEF Init, Places
  <2>3. wrb \in Seq(1 .. MaxOut) /\ sent \in Seq(1 .. MaxOut) /\ written \in 0 .. MaxOut
    BY <1>1, NtAssumption DEF Init
  <2>4. /\ alive \in {"none", "live", "freed", "deleted"} /\ refc \in Int /\ sock \in {"open", "closed"}
        /\ mx \in {Nobody, App} /\ net \in {"none", "ok", "failed"}
    BY DEF Init
  <2>5. cancelled \in BOOLEAN /\ writing \in BOOLEAN /\ opened \in BOOLEAN
    BY Zenon DEF Init
  <2> QED
    BY <2>1, <2>2, <2>3, <2>4, <2>5 DEF Typed
<1>3. \A o \in Ops : ops[o] = NoOp /\ Formed(o) /\ ops[o].type = "none"
  BY DEF Init, Formed, NoOp
<1>4. Owned
  BY DEF Init, Owned, Hands, Apart
<1>5. Counted
  <2>1. Used = {}
    BY <1>3 DEF Used
  <2>2. Cardinality(Used) = 0
    BY <2>1, FS_EmptySet
  <2>3. refc = Cardinality(Used) + 0 /\ pc[App] = "idle"
    BY <2>2, ThreadFacts DEF Init
  <2> QED
    BY <2>3 DEF Counted
<1>6. Unborn /\ Held /\ Closed /\ Asked
  BY <1>3, ThreadFacts DEF Init, Unborn, Held, Closed, Asked
<1> QED
  BY <1>2, <1>3, <1>4, <1>5, <1>6 DEF Base

LEMMA RunGood ==
  ASSUME Base, ~Corrupt, NEW t \in Threads, Run(t)
  PROVE  Base'
BY TestGood, ShutGood, DropGood, EndGood, SpawnReaderGood, SpawnAcceptorGood, SpawnWriterGood,
   StartWriteGood, PostWriteGood, WrittenGood DEF Run

LEMMA ServeGood ==
  ASSUME Base, ~Corrupt, NEW o \in Ops, Serve(o)
  PROVE  Base'
<1>1. CASE \E t \in Threads : \/ TakeConnect(t, o) \/ TakeAccept(t, o) \/ TakeRead(t, o)
                               \/ TakeDatagram(t, o) \/ TakeWrite(t, o)
  BY <1>1, TakesGood
<1>2. CASE BounceRead(o) \/ BounceWrite(o)
  BY <1>2, BouncedGood DEF BounceRead, BounceWrite, Types
<1>3. CASE WatchNew(o) \/ WatchList(o)
  BY <1>3, WatchesGood
<1> QED
  BY <1>1, <1>2, <1>3 DEF Serve

LEMMA BaseStep ==
  ASSUME Base, [Next]_vars
  PROVE  Base'
<1>1. CASE Next
  BY <1>1, CreateGood, DeleteGood, WriteGood, CancelGood, OutcomeGood, RunGood, ServeGood, CompleteGood DEF Next
<1>2. CASE UNCHANGED vars
  <2>1. /\ UNCHANGED <<kind, alive, refc, cancelled, sock, writing, mx, wrb, sent, written, ops, net, job>>
        /\ UNCHANGED <<pc, at, mine, opened>>
    BY <1>2 DEF vars, conn, out, threads
  <2> QED
    BY <2>1 DEF Base, Typed, Unborn, Formed, Owned, Hands, Apart, Counted, Used, Held, Closed, Asked
<1> QED
  BY <1>1, <1>2

LEMMA BaseAlways == Spec => []Base
BY BaseInit, BaseStep, PTL DEF Spec

\* What a thread has in hand is counted.
LEMMA HandsCounted ==
  ASSUME Base, NEW t \in Threads, at[t] # 0 \/ mine[t] # 0
  PROVE  refc > 0
<1>1. PICK o \in Ops : ops[o].stage \in {"run", "new"}
  BY DEF Base, Typed, Owned, Hands
<1>2. o \in Used
  BY <1>1 DEF Base, Formed, Used
<1>3. Cardinality(Used) # 0
  BY <1>2, UsedFinite, FS_EmptySet
<1>4. PICK n \in 0 .. MaxOps : n = Cardinality(Used) /\ refc = n + (IF pc[App] = "idle" THEN 0 ELSE 1)
  BY CountedIs DEF Base
<1>5. n \in Nat \ {0} /\ refc \in {n, n + 1}
  BY <1>3, <1>4, NtAssumption
<1> QED
  BY <1>5

\* overlapped::overlapped and ~overlapped (nt/overlapped.cc:12-29) keep the
\* count of the connection equal to the number of its operations, with one
\* more while the application is in a call: a connection that any of them
\* refers to, or that a thread works on for one, has not been destroyed; but
\* rascal_connect may delete a datagram connection that its dispatcher declined.
THEOREM ReferencesAreExact == Spec => []RefsExact
<1>1. ASSUME Base PROVE RefsExact
  <2>1. PICK n \in 0 .. MaxOps : n = Cardinality(Used) /\ refc = n + (IF pc[App] = "idle" THEN 0 ELSE 1)
    BY <1>1, CountedIs DEF Base
  <2>2. refc \in 0 .. MaxOps + 1
    BY <2>1, NtAssumption
  <2>3. Typed
    BY <1>1 DEF Base
  <2>4. \A o \in Ops : /\ ops[o].type \in {"none", "connect", "accept", "read", "write"}
                       /\ ops[o].stage \in Stages /\ ops[o].data \in Seq(1 .. MaxOut)
                       /\ ops[o].result \in {"none", "ok", "failed", "stray"}
    BY <2>3 DEF Typed, OpSet, Types, Results
  <2>5. TypeOK
    BY <2>2, <2>3, <2>4 DEF TypeOK, Typed
  <2>6. refc = Cardinality({o \in Ops : ops[o].type # "none"}) + (IF pc[App] = "idle" THEN 0 ELSE 1)
    BY <1>1 DEF Base, Counted, Used
  <2>7. refc > 0 \/ (\E t \in Threads : at[t] # 0 \/ mine[t] # 0) =>
          alive = "live" \/ (alive = "deleted" /\ kind = "dgram" /\ opened)
    BY <1>1, HandsCounted DEF Base, Held
  <2> QED
    BY <2>5, <2>6, <2>7 DEF RefsExact
<1> QED
  BY <1>1, BaseAlways, PTL

----------------------------------------------------------------------------
(* What the steps do, thread by thread and operation by operation.         *)

Keeps(t)  == Rest(t) /\ at'[t] = at[t] /\ mine'[t] = mine[t]
Silent    == UNCHANGED <<wrb, sent, written, writing>>

LEMMA TestDoes ==
  ASSUME Base, NEW t \in Threads, Test(t)
  PROVE  /\ pc[t] = "test" /\ Keeps(t) /\ ops' = ops /\ Silent /\ UNCHANGED <<kind, cancelled, opened>>
         /\ pc'[t] \in {"drop", "end", "shut"} /\ (~cancelled => pc'[t] = "shut")
<1> DEFINE p == IF cancelled THEN Returned(t) ELSE "shut"
<1>1. p \in {"drop", "end", "shut"} /\ (~cancelled => p = "shut")
  BY DEF Returned
<1>2. Goto(t, p) /\ pc[t] = "test" /\ UNCHANGED <<conn, out, ops, at, mine, opened>>
  BY DEF Test
<1> HIDE DEF p
<1>3. Moves(t, p)
  BY <1>1, <1>2, GotoMoves DEF Places, Base
<1> QED
  BY <1>1, <1>2, <1>3 DEF Moves, Keeps, Rest, Same, Silent, conn, out

LEMMA ShutDoes ==
  ASSUME Base, NEW t \in Threads, Shut(t)
  PROVE  /\ pc[t] = "shut" /\ Keeps(t) /\ ops' = ops /\ Silent /\ UNCHANGED <<kind, opened>> /\ cancelled'
         /\ pc'[t] \in {"drop", "end"}
<1> DEFINE p == Returned(t)
<1>1. p \in {"drop", "end"}
  BY DEF Returned
<1>2. Goto(t, p) /\ pc[t] = "shut" /\ UNCHANGED <<kind, out, ops, at, mine, opened>> /\ cancelled'
  BY DEF Shut
<1> HIDE DEF p
<1>3. Moves(t, p)
  BY <1>1, <1>2, GotoMoves DEF Places, Base
<1> QED
  BY <1>1, <1>2, <1>3 DEF Moves, Keeps, Rest, Same, Silent, out

LEMMA DropDoes ==
  ASSUME Base, NEW t \in Threads, Drop(t)
  PROVE  /\ pc[t] = "drop" /\ pc'[t] = "end" /\ Rest(t) /\ at'[t] = at[t] /\ mine'[t] = 0
         /\ Silent /\ UNCHANGED <<kind, cancelled, opened>> /\ cancelled
         /\ mine[t] \in Ops /\ ops[mine[t]].stage = "new" /\ ops'[mine[t]] = NoOp /\ Others(mine[t])
<1>0. /\ pc[t] = "drop" /\ at' = at /\ Put(mine[t], NoOp) /\ Goto(t, "end")
      /\ Typed /\ Hands(t) /\ mine'[t] = 0 /\ cancelled
      /\ \A u \in Threads \ {t} : mine'[u] = mine[u]
      /\ UNCHANGED <<kind, cancelled, out, opened>>
  BY DEF Drop, Base, Owned, Put, Typed, Closed
<1>1. Moves(t, "end")
  BY <1>0, GotoMoves DEF Places
<1>2. mine[t] \in Ops
  BY <1>0 DEF Typed, Hands
<1>3. ops'[mine[t]] = NoOp /\ Others(mine[t])
  BY <1>0, <1>2, PutDoes, OpsIn
<1> QED
  BY <1>0, <1>1, <1>2, <1>3 DEF Rest, Same, Moves, Hands, Silent, out

LEMMA EndDoes ==
  ASSUME Base, NEW t \in Threads, End(t)
  PROVE  /\ pc[t] = "end" /\ pc'[t] = "idle" /\ Rest(t) /\ at'[t] = 0 /\ mine'[t] = 0
         /\ Silent /\ UNCHANGED <<kind, cancelled, opened>>
         /\ \/ ops' = ops /\ at[t] = 0
            \/ at[t] \in Ops /\ ops[at[t]].stage = "run" /\ ops'[at[t]] = NoOp /\ Others(at[t])
<1>0. /\ pc[t] = "end" /\ mine' = mine /\ mine[t] = 0 /\ Goto(t, "idle")
      /\ Typed /\ Hands(t) /\ at'[t] = 0
      /\ \A u \in Threads \ {t} : at'[u] = at[u]
      /\ UNCHANGED <<kind, cancelled, opened, writing, wrb, sent, written>>
  BY DEF End, Base, Owned, Typed, Hands
<1>1. Moves(t, "idle")
  BY <1>0, GotoMoves DEF Places
<1>2. \/ ops' = ops /\ at[t] = 0
      \/ at[t] \in Ops /\ ops[at[t]].stage = "run" /\ ops'[at[t]] = NoOp /\ Others(at[t])
  <2>1. CASE at[t] = 0
    <3>1. ops' = ops
      <4>1. CASE t = App
        BY <4>1 DEF End
      <4>2. CASE t # App
        BY <2>1, <4>2 DEF End
      <4> QED
        BY <4>1, <4>2
    <3> QED
      BY <2>1, <3>1
  <2>2. CASE at[t] # 0
    <3>1. t # App /\ at[t] \in Ops /\ ops[at[t]].stage = "run"
      BY <1>0, <2>2 DEF Hands, Typed
    <3>2. Put(at[t], NoOp)
      BY <2>2, <3>1 DEF End, Put
    <3> QED
      BY <1>0, <3>1, <3>2, PutDoes, OpsIn
  <2> QED
    BY <2>1, <2>2
<1> QED
  BY <1>0, <1>1, <1>2 DEF Rest, Same, Moves, Silent

LEMMA TakenDoes ==
  ASSUME Typed, NEW o \in Free, NEW op \in OpSet, Taken(o, op)
  PROVE  o \in Ops /\ ops[o].type = "none" /\ ops'[o] = op /\ Others(o)
BY FreeFacts, PutDoes DEF Taken, Put

LEMMA SpawnReaderDoes ==
  ASSUME Base, NEW t \in Threads, SpawnReader(t)
  PROVE  /\ pc[t] = "spawn_reader" /\ Rest(t) /\ at'[t] = at[t] /\ Silent /\ UNCHANGED <<kind, cancelled, opened>>
         /\ pc'[t] \in {"end", "test"}
         /\ \E o \in Ops : /\ ops[o].type = "none" /\ ops'[o].type = "read" /\ ops'[o].stage # "run"
                           /\ ops'[o].data = << >> /\ ops'[o].result = "none"
                           /\ Others(o) /\ mine'[t] \in {0, o}
<1>0. /\ pc[t] = "spawn_reader" /\ mine[t] = 0 /\ Typed
      /\ UNCHANGED <<kind, alive, cancelled, sock, out, net, job, at, opened>>
  BY DEF SpawnReader, Base, Owned, Hands
<1> DEFINE posted(s) == Op("read", s, << >>)
           begun  == Op("read", "kernel", << >>)
           failed == [Op("read", "kernel", << >>) EXCEPT !.stage = "new"]
<1>1. PICK o \in Free, s \in Posted :
        \/ Taken(o, posted(s)) /\ Goto(t, "end") /\ UNCHANGED mine
        \/ Taken(o, begun) /\ Goto(t, "end") /\ UNCHANGED mine
        \/ Taken(o, failed) /\ Goto(t, "test") /\ mine' = [mine EXCEPT ![t] = o]
  BY DEF SpawnReader, Begun, Posted
<1>2. /\ posted(s) \in OpSet /\ begun \in OpSet
      /\ posted(s).type = "read" /\ posted(s).stage \in {"message", "leaked"} /\ posted(s).result = "none" /\ posted(s).data = << >>
      /\ begun.type = "read" /\ begun.stage = "kernel" /\ begun.result = "none" /\ begun.data = << >>
  BY OpsIn DEF Op, Types, Stages, Posted
<1>3. /\ failed \in OpSet
      /\ failed.type = "read" /\ failed.stage = "new" /\ failed.result = "none" /\ failed.data = << >>
  BY <1>2 DEF Op, OpSet, Stages
<1> HIDE DEF posted, begun, failed
<1>4. PICK op \in {posted(s), begun, failed} : Taken(o, op)
  BY <1>1
<1>5. o \in Ops /\ ops[o].type = "none" /\ ops'[o] = op /\ Others(o)
  BY <1>0, <1>2, <1>3, <1>4, TakenDoes
<1>6. PICK p \in {"end", "test"} : Goto(t, p)
  BY <1>1
<1>7. Moves(t, p)
  BY <1>0, <1>6, GotoMoves DEF Places
<1>8. mine'[t] \in {0, o} /\ \A u \in Threads \ {t} : mine'[u] = mine[u]
  BY <1>0, <1>1 DEF Typed
<1> QED
  BY <1>0, <1>2, <1>3, <1>5, <1>7, <1>8 DEF Rest, Same, Moves, Silent, out

LEMMA SpawnAcceptorDoes ==
  ASSUME Base, NEW t \in Threads, SpawnAcceptor(t)
  PROVE  /\ pc[t] = "spawn_acceptor" /\ Keeps(t) /\ Silent /\ UNCHANGED <<kind, cancelled, opened>>
         /\ pc'[t] = "end" /\ mine[t] = 0
         /\ \/ ops' = ops
            \/ \E o \in Ops : /\ ops[o].type = "none" /\ ops'[o].type = "accept" /\ ops'[o].stage # "run"
                              /\ ops'[o].data = << >> /\ ops'[o].result = "none" /\ Others(o)
<1>0. /\ pc[t] = "spawn_acceptor" /\ mine[t] = 0 /\ Typed /\ Goto(t, "end")
      /\ UNCHANGED <<kind, alive, cancelled, sock, out, net, job, at, mine, opened>>
  BY DEF SpawnAcceptor, Base, Owned, Hands
<1> DEFINE begun == Op("accept", "kernel", << >>)
<1>1. /\ begun \in OpSet
      /\ begun.type = "accept" /\ begun.stage = "kernel" /\ begun.result = "none" /\ begun.data = << >>
  BY OpsIn DEF Op, Types, Stages
<1>2. (\E o \in Free : Taken(o, begun)) \/ ops' = ops
  BY DEF SpawnAcceptor
<1> HIDE DEF begun
<1>3. \/ ops' = ops
      \/ \E o \in Ops : ops[o].type = "none" /\ ops'[o] = begun /\ Others(o)
  BY <1>0, <1>1, <1>2, TakenDoes
<1>4. Moves(t, "end")
  BY <1>0, GotoMoves DEF Places
<1> QED
  BY <1>0, <1>1, <1>3, <1>4 DEF Rest, Same, Moves, Silent, Keeps, out

LEMMA SpawnWriterDoes ==
  ASSUME Base, NEW t \in Threads, SpawnWriter(t)
  PROVE  /\ pc[t] = "spawn_writer" /\ Rest(t) /\ at'[t] = at[t] /\ UNCHANGED <<kind, cancelled, opened, sent, written>>
         /\ \/ /\ writing \/ wrb = << >>
               /\ ops' = ops /\ Silent /\ mine'[t] = 0 /\ pc'[t] = "end"
            \/ /\ ~writing /\ writing' = TRUE /\ pc'[t] = "start"
               /\ \E o \in Ops : /\ ops[o].type = "none" /\ ops'[o].type = "write" /\ ops'[o].stage = "new"
                                 /\ ops'[o].result = "none" /\ ops'[o].data \in Seq(1 .. MaxOut)
                                 /\ wrb' \in Seq(1 .. MaxOut) /\ ops'[o].data \o wrb' = wrb
                                 /\ Others(o) /\ mine'[t] = o
<1>0. /\ pc[t] = "spawn_writer" /\ mine[t] = 0 /\ Typed
      /\ UNCHANGED <<kind, alive, cancelled, sock, mx, sent, written, net, job, at, opened>>
  BY DEF SpawnWriter, Base, Owned, Hands
<1>1. CASE writing \/ wrb = << >>
  <2>1. Goto(t, "end") /\ UNCHANGED <<refc, ops, writing, wrb, mine>>
    BY <1>1 DEF SpawnWriter
  <2>2. Moves(t, "end")
    BY <1>0, <2>1, GotoMoves DEF Places
  <2> QED
    BY <1>0, <1>1, <2>1, <2>2 DEF Rest, Same, Moves, Silent
<1>2. CASE ~(writing \/ wrb = << >>)
  <2> DEFINE made == Op("write", "new", SubSeq(wrb, 1, Batch))
  <2>1. PICK o \in Free : /\ Taken(o, made)
                          /\ wrb' = SubSeq(wrb, Batch + 1, Len(wrb)) /\ writing' = TRUE
                          /\ mine' = [mine EXCEPT ![t] = o] /\ Goto(t, "start")
    BY <1>2 DEF SpawnWriter
  <2>2. /\ made \in OpSet /\ made.type = "write" /\ made.stage = "new" /\ made.result = "none"
        /\ wrb' \in Seq(1 .. MaxOut) /\ made.data \in Seq(1 .. MaxOut) /\ made.data \o wrb' = wrb
    BY <1>0, <1>2, <2>1, BatchSplits, OpsIn DEF Op, Types, Stages
  <2> HIDE DEF made
  <2>3. o \in Ops /\ ops[o].type = "none" /\ ops'[o] = made /\ Others(o)
    BY <1>0, <2>1, <2>2, TakenDoes
  <2>4. Moves(t, "start")
    BY <1>0, <2>1, GotoMoves DEF Places
  <2>5. mine'[t] = o /\ \A u \in Threads \ {t} : mine'[u] = mine[u]
    BY <1>0, <2>1 DEF Typed
  <2> QED
    BY <1>0, <1>2, <2>1, <2>2, <2>3, <2>4, <2>5 DEF Rest, Same, Moves
<1> QED
  BY <1>1, <1>2

LEMMA StartsDo ==
  ASSUME Base, NEW t \in Threads, StartWrite(t) \/ PostWrite(t)
  PROVE  /\ pc[t] = "start" /\ Rest(t) /\ at'[t] = at[t] /\ Silent /\ UNCHANGED <<kind, cancelled, opened>>
         /\ mine[t] \in Ops /\ ops[mine[t]].stage = "new"
         /\ \/ ops' = ops /\ pc'[t] = "test" /\ mine'[t] = mine[t]
            \/ /\ pc'[t] = "end" /\ mine'[t] = 0 /\ Others(mine[t])
               /\ ops'[mine[t]].stage \in {"kernel", "message", "leaked"} /\ ops'[mine[t]].type = ops[mine[t]].type
               /\ ops'[mine[t]].result = ops[mine[t]].result /\ ops'[mine[t]].data = ops[mine[t]].data
<1>0. /\ pc[t] = "start" /\ Typed /\ mine[t] # 0 /\ Hands(t)
      /\ UNCHANGED <<conn, out, net, job, at, opened>>
  BY DEF StartWrite, PostWrite, Base, Owned, Hands
<1>1. PICK o \in Ops : o = mine[t]
  BY <1>0 DEF Typed
<1>2. ops[o].stage = "new"
  BY <1>0, <1>1 DEF Hands
<1>3. CASE \E s \in {"kernel", "message", "leaked"} : Stage(o, s) /\ mine' = [mine EXCEPT ![t] = 0] /\ Goto(t, "end")
  <2>1. Moves(t, "end")
    BY <1>0, <1>3, GotoMoves DEF Places
  <2>2. /\ Others(o) /\ ops'[o].stage \in {"kernel", "message", "leaked"} /\ ops'[o].type = ops[o].type
        /\ ops'[o].result = ops[o].result /\ ops'[o].data = ops[o].data
    BY <1>0, <1>3, StageDoes DEF Stages
  <2>3. mine'[t] = 0 /\ \A u \in Threads \ {t} : mine'[u] = mine[u]
    BY <1>0, <1>3 DEF Typed
  <2> QED
    BY <1>0, <1>1, <1>2, <2>1, <2>2, <2>3 DEF Rest, Same, Moves, Silent, conn, out
<1>4. CASE Goto(t, "test") /\ UNCHANGED <<ops, mine>>
  <2>1. Moves(t, "test")
    BY <1>0, <1>4, GotoMoves DEF Places
  <2> QED
    BY <1>0, <1>1, <1>2, <1>4, <2>1 DEF Rest, Same, Moves, Silent, conn, out
<1> QED
  BY <1>1, <1>3, <1>4 DEF StartWrite, PostWrite, Stage, Posted

LEMMA WrittenDoes ==
  ASSUME Base, NEW t \in Threads, Written(t)
  PROVE  /\ pc[t] = "written" /\ pc'[t] = "spawn_writer" /\ Keeps(t) /\ ops' = ops
         /\ UNCHANGED <<kind, cancelled, opened, wrb, sent, written>> /\ writing' = FALSE /\ at[t] \in Ops
<1>0. /\ pc[t] = "written" /\ Typed /\ at[t] # 0 /\ writing' = FALSE /\ Goto(t, "spawn_writer")
      /\ UNCHANGED <<conn, mx, wrb, sent, written, ops, net, job, at, mine, opened>>
  BY DEF Written, Base, Owned, Hands
<1>1. Moves(t, "spawn_writer")
  BY <1>0, GotoMoves DEF Places
<1> QED
  BY <1>0, <1>1 DEF Rest, Same, Moves, Keeps, conn, Typed

\* A thread turns to an operation that has completed.
LEMMA TakesDo ==
  ASSUME Base, NEW t \in Threads, NEW o \in Ops,
         \/ TakeConnect(t, o) \/ TakeAccept(t, o) \/ TakeRead(t, o) \/ TakeDatagram(t, o) \/ TakeWrite(t, o)
  PROVE  /\ pc[t] = "idle" /\ Rest(t) /\ at[t] = 0 /\ at'[t] = o /\ mine'[t] = 0 /\ mine[t] = 0
         /\ Silent /\ UNCHANGED <<kind, cancelled>>
         /\ Others(o) /\ ops[o].stage = "done" /\ ops'[o].stage = "run" /\ ops'[o].type = ops[o].type
         /\ ops'[o].result = ops[o].result /\ ops'[o].data = ops[o].data
         /\ \/ /\ ops[o].type = "connect" /\ opened' \in BOOLEAN /\ pc'[t] \in {"test", "spawn_reader"}
               /\ (pc'[t] = "spawn_reader" => opened') /\ (opened => opened')
            \/ ops[o].type = "accept" /\ opened' = opened /\ pc'[t] = "spawn_acceptor"
            \/ /\ ops[o].type = "read" /\ opened' = opened /\ pc'[t] \in {"test", "spawn_reader", "end"}
               /\ (kind = "stream" => pc'[t] # "end")
            \/ /\ ops[o].type = "write" /\ opened' = opened
               /\ pc'[t] = IF ops[o].result = "failed" THEN "test" ELSE "written"
<1>0. Typed /\ Hands(t)
  BY DEF Base, Owned
<1>1. PICK p \in {"test", "spawn_reader", "spawn_acceptor", "written", "end"} :
        /\ Goto(t, p)
        /\ \/ /\ Dequeued(t, o, "connect") /\ opened' \in BOOLEAN /\ p \in {"test", "spawn_reader"}
              /\ (p = "spawn_reader" => opened') /\ (opened => opened')
           \/ Dequeued(t, o, "accept") /\ opened' = opened /\ p = "spawn_acceptor"
           \/ /\ Dequeued(t, o, "read") /\ opened' = opened /\ p \in {"test", "spawn_reader", "end"}
              /\ (kind = "stream" => p # "end")
           \/ Dequeued(t, o, "write") /\ opened' = opened
              /\ p = IF ops[o].result = "failed" THEN "test" ELSE "written"
  <2>1. CASE TakeConnect(t, o)
    <3>1. Dequeued(t, o, "connect") /\ opened \in BOOLEAN
      BY <1>0, <2>1 DEF TakeConnect, Typed
    <3>2. CASE Goto(t, "test") /\ opened' = opened
      BY <3>1, <3>2
    <3>3. CASE Goto(t, "test") /\ opened' = TRUE
      BY <3>1, <3>3
    <3>4. CASE Goto(t, "spawn_reader") /\ opened' = TRUE
      BY <3>1, <3>4
    <3> QED
      BY <2>1, <3>2, <3>3, <3>4 DEF TakeConnect, OnConnect
  <2>2. CASE TakeAccept(t, o)
    BY <2>2 DEF TakeAccept
  <2>3. CASE TakeRead(t, o)
    BY <2>3 DEF TakeRead
  <2>4. CASE TakeDatagram(t, o)
    BY <2>4 DEF TakeDatagram
  <2>5. CASE TakeWrite(t, o)
    BY <2>5 DEF TakeWrite, Result
  <2> QED
    BY <2>1, <2>2, <2>3, <2>4, <2>5
<1>2. PICK type : Dequeued(t, o, type)
  BY <1>1
<1>3. /\ pc[t] = "idle" /\ at[t] = 0 /\ mine[t] = 0 /\ Stage(o, "run") /\ ops[o].stage = "done"
      /\ UNCHANGED <<conn, out, mine>>
  BY <1>0, <1>2 DEF Dequeued, Stage, Hands
<1>4. Moves(t, p)
  BY <1>0, <1>1, GotoMoves DEF Places
<1>5. /\ Others(o) /\ ops'[o].stage = "run" /\ ops'[o].type = ops[o].type
      /\ ops'[o].result = ops[o].result /\ ops'[o].data = ops[o].data
  BY <1>0, <1>3, StageDoes DEF Stages
<1>6. at'[t] = o /\ \A u \in Threads \ {t} : at'[u] = at[u]
  BY <1>0, <1>2 DEF Typed, Dequeued
<1>7. /\ pc[t] = "idle" /\ Rest(t) /\ at[t] = 0 /\ at'[t] = o /\ mine'[t] = 0 /\ mine[t] = 0
      /\ Silent /\ UNCHANGED <<kind, cancelled>> /\ pc'[t] = p
  BY <1>3, <1>4, <1>6 DEF Rest, Same, Moves, Silent, conn, out
<1>8. \A ty : Dequeued(t, o, ty) => ops[o].type = ty
  BY DEF Dequeued
<1> QED
  BY <1>1, <1>3, <1>5, <1>7, <1>8

LEMMA BouncedDoes ==
  ASSUME Base, NEW o \in Ops, NEW type \in {"read", "write"}, Bounced(o, type)
  PROVE  /\ Keeps(Ex) /\ pc[Ex] = "idle" /\ at[Ex] = 0 /\ Silent /\ UNCHANGED <<kind, cancelled, opened>> /\ kind = "dgram"
         /\ Others(o) /\ ops[o].stage = "message" /\ ops[o].type = type
         /\ ops'[o].stage \in {"kernel", "leaked"} /\ ops'[o].type = ops[o].type
         /\ ops'[o].result = ops[o].result /\ ops'[o].data = ops[o].data
         /\ pc'[Ex] \in {"idle", "test"}
<1>0. /\ pc[Ex] = "idle" /\ Typed /\ Hands(Ex) /\ Ex \in Threads /\ ops[o].stage = "message" /\ ops[o].type = type
      /\ UNCHANGED <<conn, out, at, mine, opened>> /\ kind = "dgram"
  BY ThreadFacts DEF Bounced, Base, Owned
<1>1. PICK s \in {"kernel", "leaked"} : Stage(o, s)
  BY DEF Bounced, Stage
<1>2. /\ Others(o) /\ ops'[o].stage = s /\ ops'[o].type = ops[o].type
      /\ ops'[o].result = ops[o].result /\ ops'[o].data = ops[o].data
  BY <1>0, <1>1, StageDoes DEF Stages
<1>3. pc'[Ex] \in {"idle", "test"} /\ \A u \in Threads \ {Ex} : pc'[u] = pc[u]
  BY <1>0 DEF Bounced, Goto, Typed
<1> QED
  BY <1>0, <1>1, <1>2, <1>3 DEF Rest, Same, Keeps, Silent, Hands, conn, out

LEMMA WatchesDo ==
  ASSUME Base, NEW o \in Ops, WatchNew(o) \/ WatchList(o)
  PROVE  /\ UNCHANGED threads /\ Silent /\ UNCHANGED <<kind, cancelled, opened>>
         /\ Others(o) /\ ops[o].type = "connect" /\ ops[o].stage \in {"message", "list"}
         /\ \/ ops'[o] = NoOp
            \/ ops'[o].type = "connect" /\ ops'[o].stage \in {"list", "done", "leaked"} /\ ops'[o].result # "stray"
<1>0. /\ Typed /\ ops[o].type = "connect" /\ ops[o].stage \in {"message", "list"} /\ Formed(o)
      /\ UNCHANGED <<kind, cancelled, sock, out, net, job, threads, opened>>
  BY DEF Base, WatchNew, WatchList
<1>1. CASE Stage(o, "list")
  <2>1. Others(o) /\ ops'[o].stage = "list" /\ ops'[o].type = ops[o].type /\ ops'[o].result = ops[o].result
    BY <1>0, <1>1, StageDoes DEF Stages
  <2> QED
    BY <1>0, <2>1 DEF Silent, out, Formed
<1>2. CASE \E s \in {"done", "leaked"} : Finish(o, s, net)
  <2>1. Others(o) /\ ops'[o].stage \in {"done", "leaked"} /\ ops'[o].type = ops[o].type /\ ops'[o].result = net
    BY <1>0, <1>2, FinishDoes DEF Typed, Results, Stages
  <2> QED
    BY <1>0, <2>1 DEF Silent, out, Typed
<1>3. CASE Put(o, NoOp)
  <2>1. ops'[o] = NoOp /\ Others(o)
    BY <1>0, <1>3, PutDoes, OpsIn
  <2> QED
    BY <1>0, <2>1 DEF Silent, out
<1> QED
  BY <1>1, <1>2, <1>3 DEF WatchNew, WatchList, Settle, Stage, Finish, Put

LEMMA CompleteDoes ==
  ASSUME Base, NEW o \in Ops, Complete(o)
  PROVE  /\ UNCHANGED threads /\ UNCHANGED <<kind, cancelled, opened, wrb, written, writing>>
         /\ Others(o) /\ ops[o].stage = "kernel" /\ ops[o].result = "none" /\ ops'[o].stage = "done"
         /\ ops'[o].type = ops[o].type /\ ops'[o].data = ops[o].data
         /\ ops'[o].result \in {"ok", "failed", "stray"} /\ (ops'[o].result = "stray" => ops[o].type = "read")
         /\ sent' = IF ops'[o].result = "ok" THEN sent \o ops[o].data ELSE sent
<1>0. /\ Typed /\ Formed(o) /\ ops[o].stage = "kernel"
      /\ UNCHANGED <<conn, writing, mx, wrb, written, net, job, threads, opened>>
  BY DEF Base, Complete
<1>1. PICK r \in {"ok", "failed", "stray"} :
        /\ Finish(o, "done", r) /\ sent' = IF r = "ok" THEN sent \o ops[o].data ELSE sent
        /\ (r = "stray" => ops[o].type = "read")
  BY DEF Complete, Finish
<1>2. /\ Others(o) /\ ops'[o].stage = "done" /\ ops'[o].type = ops[o].type
      /\ ops'[o].result = r /\ ops'[o].data = ops[o].data
  BY <1>0, <1>1, FinishDoes DEF Results, Stages
<1> QED
  BY <1>0, <1>1, <1>2 DEF Formed, conn

LEMMA CallsDo ==
  ASSUME Base, Write \/ Cancel
  PROVE  /\ Keeps(App) /\ pc[App] = "idle" /\ at[App] = 0 /\ ops' = ops
         /\ UNCHANGED <<kind, cancelled, opened, writing, sent>>
         /\ \/ /\ Write /\ pc'[App] = IF writing THEN "end" ELSE "spawn_writer"
            \/ /\ Cancel /\ pc'[App] = "test" /\ UNCHANGED <<wrb, written>>
<1>0. Typed /\ Hands(App) /\ App \in Threads
  BY ThreadFacts DEF Base, Owned
<1>1. CASE Write
  <2> DEFINE p == IF writing THEN "end" ELSE "spawn_writer"
  <2>1. Goto(App, p) /\ p \in {"end", "spawn_writer"} /\ pc[App] = "idle"
        /\ UNCHANGED <<kind, cancelled, opened, writing, sent, ops, at, mine>>
    BY <1>1 DEF Write
  <2> HIDE DEF p
  <2>2. Moves(App, p)
    BY <1>0, <2>1, GotoMoves DEF Places
  <2>3. Keeps(App) /\ pc'[App] = p /\ at[App] = 0
    BY <1>0, <2>1, <2>2 DEF Moves, Keeps, Rest, Same, Hands
  <2> QED
    BY <1>1, <2>1, <2>3 DEF p
<1>2. CASE Cancel
  <2>1. /\ Goto(App, "test") /\ pc[App] = "idle"
        /\ UNCHANGED <<kind, cancelled, opened, out, ops, at, mine>>
    BY <1>2 DEF Cancel
  <2>2. Moves(App, "test")
    BY <1>0, <2>1, GotoMoves DEF Places
  <2> QED
    BY <1>0, <1>2, <2>1, <2>2 DEF Moves, Keeps, Rest, Same, Hands, out
<1> QED
  BY <1>1, <1>2

LEMMA CreateDoes ==
  ASSUME Base, Create
  PROVE  /\ \A t \in Threads : at'[t] = 0 /\ mine'[t] = 0
         /\ wrb' = << >> /\ sent' = << >> /\ written' = 0 /\ writing' = FALSE
         /\ UNCHANGED <<kind, cancelled>> /\ ~cancelled
         /\ \/ /\ (\E w \in Workers, p \in {"spawn_reader", "test"} : Moves(w, p)) /\ opened'
               /\ \A t \in Threads : pc[t] = "idle"
               /\ \A o \in Ops : ops'[o] = NoOp
            \/ /\ \A t \in Threads : pc[t] = "idle" /\ pc'[t] \in {"idle", "end"}
               /\ ~opened' /\ ops'[1] = Attempt /\ \A o \in Ops \ {1} : ops'[o] = NoOp
            \/ /\ \A t \in Threads : pc[t] = "idle" /\ pc'[t] = "idle"
               /\ ~opened' /\ \A o \in Ops : ops'[o] = NoOp \/ ops'[o] = Op("accept", "kernel", << >>)
            \/ /\ kind = "dgram" /\ \A o \in Ops : ops'[o] = NoOp
               /\ \A t \in Threads : pc'[t] \in (IF t = Maker THEN {"spawn_reader", "delete"} ELSE {"idle"})
<1>0. /\ alive = "none" /\ UNCHANGED <<kind, cancelled, out, at, mine>>
  BY DEF Create, Connect, OnAccept, Listen, ConnectDg, Unmade, Born
<1>1. /\ \A t \in Threads : at[t] = 0 /\ mine[t] = 0 /\ pc[t] = "idle"
      /\ wrb = << >> /\ sent = << >> /\ written = 0 /\ ~writing /\ ~cancelled /\ ~opened
      /\ \A o \in Ops : ops[o] = NoOp
      /\ Typed /\ ops \in [Ops -> OpSet] /\ 1 \in Ops /\ 2 \in Ops
  BY <1>0, ThreadFacts DEF Base, Unborn, Owned, Hands, Typed
<1>2. /\ \A t \in Threads : at'[t] = 0 /\ mine'[t] = 0
      /\ wrb' = << >> /\ sent' = << >> /\ written' = 0
  BY <1>0, <1>1 DEF out
<1>3. writing' = FALSE
  BY <1>0, <1>1 DEF out, Typed
<1>4. CASE Connect /\ ~Unmade
  <2>1. ops' = [ops EXCEPT ![1] = Attempt] /\ Goto(Maker, "end") /\ opened' = opened
    BY <1>4 DEF Connect, Taken
  <2>2. ops'[1] = Attempt /\ \A o \in Ops \ {1} : ops'[o] = NoOp
    BY <1>1, <2>1
  <2>3. \A t \in Threads : pc'[t] \in {"idle", "end"}
    BY <1>1, <2>1, GotoMoves, ThreadFacts DEF Places, Moves
  <2> QED
    BY <1>0, <1>1, <1>2, <1>3, <2>1, <2>2, <2>3
<1>5. CASE OnAccept
  <2>1. PICK w \in Workers, p \in {"spawn_reader", "test"} : Goto(w, p)
    BY <1>5 DEF OnAccept
  <2>2. Moves(w, p)
    BY <1>1, <2>1, GotoMoves, ThreadFacts DEF Places
  <2>3. ops' = ops /\ opened'
    BY <1>5 DEF OnAccept
  <2> QED
    BY <1>0, <1>1, <1>2, <1>3, <2>2, <2>3
<1>6. CASE Listen /\ ~Unmade
  <2> DEFINE op == Op("accept", "kernel", << >>)
  <2>1. PICK n \in 1 .. 2 : ops' = [o \in Ops |-> IF o <= n THEN op ELSE ops[o]] /\ UNCHANGED <<pc, opened>>
    BY <1>6 DEF Listen
  <2> HIDE DEF op
  <2>2. \A o \in Ops : ops'[o] = NoOp \/ ops'[o] = op
    BY <1>1, <2>1
  <2> QED
    BY <1>0, <1>1, <1>2, <1>3, <2>1, <2>2 DEF op
<1>7. CASE ConnectDg /\ ~Unmade
  <2>1. PICK p \in {"spawn_reader", "delete"} : Goto(Maker, p)
    BY <1>7 DEF ConnectDg
  <2>2. Moves(Maker, p)
    BY <1>1, <2>1, GotoMoves, ThreadFacts DEF Places
  <2>3. kind = "dgram" /\ ops' = ops
    BY <1>7 DEF ConnectDg
  <2>4. \A t \in Threads : pc'[t] \in (IF t = Maker THEN {"spawn_reader", "delete"} ELSE {"idle"})
    BY <1>1, <2>2 DEF Moves
  <2> QED
    BY <1>0, <1>1, <1>2, <1>3, <2>3, <2>4
<1>8. CASE Unmade
  BY <1>0, <1>1, <1>2, <1>3, <1>8 DEF Unmade
<1> QED
  BY <1>4, <1>5, <1>6, <1>7, <1>8 DEF Create

LEMMA DeleteDoes ==
  ASSUME Base, Delete
  PROVE  /\ pc[Maker] = "delete" /\ pc'[Maker] = "idle" /\ Keeps(Maker) /\ ops' = ops /\ Silent
         /\ UNCHANGED <<kind, cancelled, opened>> /\ Maker \in Threads /\ at[Maker] = 0
<1>0. /\ pc[Maker] = "delete" /\ Maker \in Threads /\ Typed /\ Hands(Maker)
      /\ UNCHANGED <<kind, cancelled, out, ops, at, mine, opened>>
  BY ThreadFacts DEF Delete, Base, Owned
<1>1. Moves(Maker, "idle")
  BY <1>0, GotoMoves DEF Delete, Places
<1> QED
  BY <1>0, <1>1 DEF Moves, Keeps, Rest, Same, Silent, out, Hands

----------------------------------------------------------------------------
(* Writing.                                                                *)

Busy == {o \in Writers : ops[o].result \in {"none", "failed"}}

OneWriter == ~cancelled => /\ \A o, p \in Writers : o = p
                           /\ writing <=> Writers # {}

InOrder == ~cancelled => /\ \A o \in Busy : sent \o ops[o].data \o wrb = Upto(written)
                         /\ Busy = {} => sent \o wrb = Upto(written)

\* What waits has a writer, or gets one.
Waits == ~cancelled /\ wrb # << >> => writing \/ \E t \in Threads : pc[t] = "spawn_writer"

\* Only one that was carried out goes on to the next.
Handling(t) ==
  /\ pc[t] = "start" => ops[mine[t]].type = "write"
  /\ pc[t] = "written" => ops[at[t]].type = "write"
  /\ /\ pc[t] \in {"spawn_reader", "spawn_acceptor", "spawn_writer", "start", "written"}
     /\ at[t] # 0 /\ ops[at[t]].type = "write"
     => ops[at[t]].result = "ok"

Strays == \A o \in Ops : ops[o].result = "stray" => ops[o].type = "read"

Writing == OneWriter /\ InOrder /\ Waits /\ (\A t \in Threads : Handling(t)) /\ Strays

LEMMA InWriters ==
  ASSUME NEW o \in Ops
  PROVE  /\ o \in Writers <=> /\ ops[o].type = "write"
                              /\ ops[o].stage = "run" => \E t \in Threads : at[t] = o /\ pc[t] \in WriteEnds(o)
         /\ o \in Busy <=> o \in Writers /\ ops[o].result \in {"none", "failed"}
BY DEF Writers, Live, Busy

LEMMA WritersIn == Writers \subseteq Ops /\ Busy \subseteq Writers
BY DEF Writers, Live, Busy

\* What the step of a thread does to the operations it does not change.
LEMMA OthersWrite ==
  ASSUME NEW t \in Threads, Rest(t), NEW o, Others(o), NEW p \in Ops \ {o},
         ops[p].type = "write" =>
           ((at'[t] = p /\ pc'[t] \in WriteEnds(p)) <=> (at[t] = p /\ pc[t] \in WriteEnds(p)))
  PROVE  (p \in Writers' <=> p \in Writers) /\ (p \in Busy' <=> p \in Busy) /\ ops'[p] = ops[p]
<1>1. ops'[p] = ops[p]
  BY DEF Others
<1>2. WriteEnds(p)' = WriteEnds(p)
  BY <1>1 DEF WriteEnds
<1>3. ops[p].type = "write" => 
        \A u \in Threads : (at'[u] = p /\ pc'[u] \in WriteEnds(p)) <=> (at[u] = p /\ pc[u] \in WriteEnds(p))
  BY DEF Rest, Same
<1>4. p \in Writers' <=> /\ ops'[p].type = "write"
                         /\ ops'[p].stage = "run" => \E u \in Threads : at'[u] = p /\ pc'[u] \in WriteEnds(p)'
  BY DEF Writers, Live, Ops
<1>5. p \in Writers' <=> p \in Writers
  BY <1>1, <1>2, <1>3, <1>4, InWriters
<1>6. p \in Busy' <=> p \in Writers' /\ ops'[p].result \in {"none", "failed"}
  BY DEF Busy
<1> QED
  BY <1>1, <1>5, <1>6, InWriters

\* .. and to the operations in other hands.
LEMMA OthersHold ==
  ASSUME Base, NEW t \in Threads, Rest(t), NEW o, Others(o), NEW u \in Threads \ {t},
         o \in Ops => ops[o].stage \notin {"run", "new"} \/ o \in {at[t], mine[t]}
  PROVE  /\ pc'[u] = pc[u] /\ at'[u] = at[u] /\ mine'[u] = mine[u]
         /\ at[u] # 0 => ops'[at'[u]] = ops[at[u]]
         /\ mine[u] # 0 => ops'[mine'[u]] = ops[mine[u]]
<1>0. at[u] \in Ops \cup {0} /\ mine[u] \in Ops \cup {0} /\ at[t] \in Ops \cup {0} /\ mine[t] \in Ops \cup {0}
  BY DEF Base, Typed
<1>1. Hands(u) /\ Hands(t) /\ Apart(u, t)
  BY DEF Base, Owned
<1>2. pc'[u] = pc[u] /\ at'[u] = at[u] /\ mine'[u] = mine[u]
  BY DEF Rest, Same
<1>3. ASSUME at[u] # 0 PROVE at[u] \in Ops \ {o}
  BY <1>0, <1>1, <1>3 DEF Hands, Apart
<1>4. ASSUME mine[u] # 0 PROVE mine[u] \in Ops \ {o}
  BY <1>0, <1>1, <1>4 DEF Hands, Apart
<1> QED
  BY <1>2, <1>3, <1>4 DEF Others

LEMMA HandlingKept ==
  ASSUME Base, Writing, NEW t \in Threads, Rest(t), NEW o, Others(o),
         o \in Ops => ops[o].stage \notin {"run", "new"} \/ o \in {at[t], mine[t]},
         Handling(t)'
  PROVE  \A u \in Threads : Handling(u)'
<1> SUFFICES ASSUME NEW u \in Threads \ {t} PROVE Handling(u)'
  OBVIOUS
<1>1. /\ pc'[u] = pc[u] /\ at'[u] = at[u] /\ mine'[u] = mine[u]
      /\ at[u] # 0 => ops'[at'[u]] = ops[at[u]]
      /\ mine[u] # 0 => ops'[mine'[u]] = ops[mine[u]]
  BY OthersHold
<1>2. Handling(u) /\ Hands(u)
  BY DEF Writing, Base, Owned
<1>3. pc'[u] = "start" => ops'[mine'[u]].type = "write"
  BY <1>1, <1>2 DEF Handling, Hands
<1>4. pc'[u] = "written" => ops'[at'[u]].type = "write"
  BY <1>1, <1>2 DEF Handling, Hands
<1>5. /\ pc'[u] \in {"spawn_reader", "spawn_acceptor", "spawn_writer", "start", "written"}
      /\ at'[u] # 0 /\ ops'[at'[u]].type = "write"
      => ops'[at'[u]].result = "ok"
  BY <1>1, <1>2 DEF Handling
<1> QED
  BY <1>3, <1>4, <1>5 DEF Handling

\* A step that concerns no writing.
LEMMA StepWrites ==
  ASSUME Base, Writing, NEW t \in Threads, Rest(t), NEW o, Others(o),
         o \in Ops => ops[o].stage \notin {"run", "new"} \/ o \in {at[t], mine[t]},
         Handling(t)', o \in Ops => (ops'[o].result = "stray" => ops'[o].type = "read"),
         cancelled => cancelled',
         ~cancelled' =>
           /\ Silent
           /\ o \in Ops => /\ (o \in Writers' <=> o \in Writers) /\ (o \in Busy' <=> o \in Busy)
                           /\ o \in Busy => ops'[o].data = ops[o].data
           /\ \A p \in Ops \ {o} : ops[p].type = "write" =>
                ((at'[t] = p /\ pc'[t] \in WriteEnds(p)) <=> (at[t] = p /\ pc[t] \in WriteEnds(p)))
           /\ pc[t] = "spawn_writer" => pc'[t] = pc[t] \/ writing \/ wrb = << >>
  PROVE  Writing'
<1>1. \A u \in Threads : Handling(u)'
  BY HandlingKept
<1>2. Strays'
  BY DEF Writing, Strays, Others, Ops
<1>3. CASE cancelled'
  BY <1>1, <1>2, <1>3 DEF Writing, OneWriter, InOrder, Waits
<1>4. CASE ~cancelled'
  <2>0. ~cancelled /\ Silent
    BY <1>4
  <2>1. \A p \in Ops \ {o} : (p \in Writers' <=> p \in Writers) /\ (p \in Busy' <=> p \in Busy) /\ ops'[p] = ops[p]
    BY <1>4, OthersWrite
  <2>2. /\ Writers' \subseteq Ops /\ Busy' \subseteq Writers' /\ Writers \subseteq Ops /\ Busy \subseteq Writers
    BY WritersIn DEF Writers, Live, Busy, Ops
  <2>3. Writers' = Writers /\ Busy' = Busy
    <3>1. o \in Ops => (o \in Writers' <=> o \in Writers) /\ (o \in Busy' <=> o \in Busy)
      BY <1>4
    <3>2. \A p \in Ops : (p \in Writers' <=> p \in Writers) /\ (p \in Busy' <=> p \in Busy)
      BY <2>1, <3>1
    <3> DEFINE A == Writers
               B == Writers'
               C == Busy
               D == Busy'
    <3>3. /\ \A p \in Ops : (p \in B <=> p \in A) /\ (p \in D <=> p \in C)
          /\ A \subseteq Ops /\ B \subseteq Ops /\ C \subseteq A /\ D \subseteq B
      BY <2>2, <3>2
    <3> HIDE DEF A, B, C, D
    <3>4. B = A /\ D = C
      BY <3>3
    <3> QED
      BY <3>4 DEF A, B, C, D
  <2>4. \A p \in Busy : ops'[p].data = ops[p].data
    BY <1>4, <2>1, <2>2
  <2>5. OneWriter'
    BY <2>0, <2>3 DEF Writing, OneWriter, Silent
  <2>6. Upto(written)' = Upto(written)
    BY <2>0 DEF Silent, Upto
  <2>7. InOrder'
    <3>1. \A p \in Busy' : sent' \o ops'[p].data \o wrb' = Upto(written)'
      BY <2>0, <2>3, <2>4, <2>6 DEF Writing, InOrder, Silent
    <3>2. Busy' = {} => sent' \o wrb' = Upto(written)'
      BY <2>0, <2>3, <2>6 DEF Writing, InOrder, Silent
    <3> QED
      BY <3>1, <3>2 DEF InOrder
  <2>8. Waits'
    <3>1. \A u \in Threads \ {t} : pc'[u] = pc[u]
      BY DEF Rest, Same
    <3> QED
      BY <1>4, <2>0, <3>1 DEF Writing, Waits, Silent
  <2> QED
    BY <1>1, <1>2, <2>5, <2>7, <2>8 DEF Writing
<1> QED
  BY <1>3, <1>4

LEMMA NotWriter ==
  ASSUME Base, NEW t \in Threads, at[t] \in Ops, pc[t] \notin {"test", "shut", "written"}
  PROVE  at[t] \notin Writers
<1>1. ops[at[t]].stage = "run" /\ \A u \in Threads : at[u] = at[t] => u = t
  BY ThreadFacts DEF Base, Owned, Hands, Apart
<1> QED
  BY <1>1, InWriters DEF WriteEnds

LEMMA TestWrites ==
  ASSUME Base, Writing, NEW t \in Threads, Test(t)
  PROVE  Writing'
<1>1. /\ pc[t] = "test" /\ Keeps(t) /\ ops' = ops /\ Silent /\ cancelled' = cancelled
      /\ pc'[t] \in {"drop", "end", "shut"} /\ (~cancelled => pc'[t] = "shut")
  BY TestDoes
<1>2. Rest(t) /\ Others(0) /\ 0 \notin Ops /\ Handling(t)'
  BY <1>1, ThreadFacts DEF Keeps, Others, Handling
<1>3. ~cancelled => \A p \in Ops : (at'[t] = p /\ pc'[t] \in WriteEnds(p)) <=> (at[t] = p /\ pc[t] \in WriteEnds(p))
  BY <1>1 DEF WriteEnds, Keeps
<1> QED
  BY <1>1, <1>2, <1>3, StepWrites

LEMMA ShutWrites ==
  ASSUME Base, Writing, NEW t \in Threads, Shut(t)
  PROVE  Writing'
<1>1. /\ Keeps(t) /\ ops' = ops /\ cancelled' /\ pc'[t] \in {"drop", "end"}
  BY ShutDoes
<1>2. Rest(t) /\ Others(0) /\ 0 \notin Ops /\ Handling(t)'
  BY <1>1, ThreadFacts DEF Keeps, Others, Handling
<1> QED
  BY <1>1, <1>2, StepWrites

LEMMA DropWrites ==
  ASSUME Base, Writing, NEW t \in Threads, Drop(t)
  PROVE  Writing'
<1>1. /\ pc'[t] = "end" /\ Rest(t) /\ cancelled' = cancelled /\ cancelled
      /\ mine[t] \in Ops /\ ops[mine[t]].stage = "new" /\ ops'[mine[t]] = NoOp /\ Others(mine[t])
  BY DropDoes
<1>2. Handling(t)' /\ ops'[mine[t]].result # "stray"
  BY <1>1 DEF Handling, NoOp
<1> QED
  BY <1>1, <1>2, StepWrites

LEMMA EndWrites ==
  ASSUME Base, Writing, NEW t \in Threads, End(t)
  PROVE  Writing'
<1>1. /\ pc[t] = "end" /\ pc'[t] = "idle" /\ Rest(t) /\ at'[t] = 0 /\ mine'[t] = 0
      /\ Silent /\ UNCHANGED <<kind, cancelled, opened>>
      /\ \/ ops' = ops /\ at[t] = 0
         \/ at[t] \in Ops /\ ops[at[t]].stage = "run" /\ ops'[at[t]] = NoOp /\ Others(at[t])
  BY EndDoes
<1>2. Handling(t)'
  BY <1>1 DEF Handling
<1>3. Others(at[t])
  BY <1>1 DEF Others
<1>4. ASSUME at[t] \in Ops
      PROVE  /\ ops'[at[t]] = NoOp /\ ops'[at[t]].result # "stray"
             /\ at[t] \notin Writers' /\ at[t] \notin Busy' /\ at[t] \notin Writers /\ at[t] \notin Busy
  <2>1. ops'[at[t]] = NoOp
    BY <1>1, <1>4, ThreadFacts
  <2>2. PICK o \in Ops : o = at[t]
    BY <1>4
  <2>3. ops'[o].type = "none" /\ ops'[o].result = "none"
    BY <2>1, <2>2 DEF NoOp
  <2>4. o \notin Writers' /\ o \notin Busy'
    BY <2>3 DEF Writers, Live, Busy
  <2>5. o \notin Writers /\ o \notin Busy
    BY <1>1, <1>4, <2>2, NotWriter, WritersIn
  <2> QED
    BY <2>1, <2>2, <2>3, <2>4, <2>5
<1>5. \A p \in Ops \ {at[t]} : (at'[t] = p /\ pc'[t] \in WriteEnds(p)) <=> (at[t] = p /\ pc[t] \in WriteEnds(p))
  BY <1>1, ThreadFacts
<1> QED
  BY <1>1, <1>2, <1>3, <1>4, <1>5, StepWrites

\* A thread that holds an operation that was carried out goes on to the next one.
LEMMA GoesOn ==
  ASSUME Writing, NEW t \in Threads, pc[t] \in {"spawn_reader", "spawn_acceptor", "spawn_writer", "start"},
         at'[t] = at[t], pc'[t] \notin {"shut", "written"}, NEW p \in Ops, ops[p].type = "write", p # 0
  PROVE  (at'[t] = p /\ pc'[t] \in WriteEnds(p)) <=> (at[t] = p /\ pc[t] \in WriteEnds(p))
<1>1. Handling(t)
  BY DEF Writing
<1> QED
  BY <1>1 DEF Handling, WriteEnds

\* Somebody else's operation begins.
LEMMA NewRead ==
  ASSUME NEW o \in Ops, ops[o].type = "none", ops'[o].type \notin {"none", "write"}
  PROVE  o \notin Writers /\ o \notin Busy /\ o \notin Writers' /\ o \notin Busy'
BY DEF Writers, Live, Busy

LEMMA SpawnReaderWrites ==
  ASSUME Base, Writing, NEW t \in Threads, SpawnReader(t)
  PROVE  Writing'
<1>1. /\ pc[t] = "spawn_reader" /\ Rest(t) /\ at'[t] = at[t] /\ Silent /\ UNCHANGED <<kind, cancelled, opened>>
      /\ pc'[t] \in {"end", "test"}
  BY SpawnReaderDoes
<1>2. PICK o \in Ops : /\ ops[o].type = "none" /\ ops'[o].type = "read" /\ ops'[o].stage # "run"
                       /\ ops'[o].data = << >> /\ ops'[o].result = "none"
                       /\ Others(o) /\ mine'[t] \in {0, o}
  BY SpawnReaderDoes
<1>3. Handling(t)' /\ ops[o].stage = "none"
  BY <1>1, <1>2 DEF Handling, Base, Formed
<1>4. o \notin Writers /\ o \notin Busy /\ o \notin Writers' /\ o \notin Busy'
  BY <1>2, NewRead
<1>5. \A p \in Ops \ {o} : ops[p].type = "write" =>
        ((at'[t] = p /\ pc'[t] \in WriteEnds(p)) <=> (at[t] = p /\ pc[t] \in WriteEnds(p)))
  BY <1>1, GoesOn, ThreadFacts
<1> QED
  BY <1>1, <1>2, <1>3, <1>4, <1>5, StepWrites

LEMMA SpawnAcceptorWrites ==
  ASSUME Base, Writing, NEW t \in Threads, SpawnAcceptor(t)
  PROVE  Writing'
<1>1. /\ pc[t] = "spawn_acceptor" /\ Keeps(t) /\ Silent /\ UNCHANGED <<kind, cancelled, opened>>
      /\ pc'[t] = "end"
      /\ \/ ops' = ops
         \/ \E o \in Ops : /\ ops[o].type = "none" /\ ops'[o].type = "accept" /\ ops'[o].stage # "run"
                           /\ ops'[o].data = << >> /\ ops'[o].result = "none" /\ Others(o)
  BY SpawnAcceptorDoes
<1>2. Handling(t)' /\ Rest(t) /\ at'[t] = at[t]
  BY <1>1 DEF Handling, Keeps
<1>3. \A p \in Ops : ops[p].type = "write" =>
        ((at'[t] = p /\ pc'[t] \in WriteEnds(p)) <=> (at[t] = p /\ pc[t] \in WriteEnds(p)))
  BY <1>1, <1>2, GoesOn, ThreadFacts
<1>4. CASE ops' = ops
  <2>1. Others(0) /\ 0 \notin Ops
    BY <1>4, ThreadFacts DEF Others
  <2> QED
    BY <1>1, <1>2, <1>3, <2>1, StepWrites
<1>5. CASE \E o \in Ops : /\ ops[o].type = "none" /\ ops'[o].type = "accept" /\ ops'[o].stage # "run"
                          /\ ops'[o].data = << >> /\ ops'[o].result = "none" /\ Others(o)
  <2>1. PICK o \in Ops : /\ ops[o].type = "none" /\ ops'[o].type = "accept" /\ ops'[o].stage # "run"
                         /\ ops'[o].data = << >> /\ ops'[o].result = "none" /\ Others(o)
    BY <1>5
  <2>2. ops[o].stage = "none"
    BY <2>1 DEF Base, Formed
  <2>3. o \notin Writers /\ o \notin Busy /\ o \notin Writers' /\ o \notin Busy'
    BY <2>1, NewRead
  <2> QED
    BY <1>1, <1>2, <1>3, <2>1, <2>2, <2>3, StepWrites
<1> QED
  BY <1>1, <1>4, <1>5

LEMMA SpawnWriterWrites ==
  ASSUME Base, Writing, NEW t \in Threads, SpawnWriter(t)
  PROVE  Writing'
<1>0. pc[t] = "spawn_writer" /\ Rest(t) /\ at'[t] = at[t] /\ UNCHANGED <<kind, cancelled, opened, sent, written>>
  BY SpawnWriterDoes
<1>1. CASE (writing \/ wrb = << >>) /\ ops' = ops /\ Silent /\ mine'[t] = 0 /\ pc'[t] = "end"
  <2>1. Others(0) /\ 0 \notin Ops /\ Handling(t)'
    BY <1>1, ThreadFacts DEF Others, Handling
  <2>2. \A p \in Ops : ops[p].type = "write" =>
          ((at'[t] = p /\ pc'[t] \in WriteEnds(p)) <=> (at[t] = p /\ pc[t] \in WriteEnds(p)))
    BY <1>0, <1>1, GoesOn, ThreadFacts
  <2> QED
    BY <1>0, <1>1, <2>1, <2>2, StepWrites
<1>2. CASE /\ ~writing /\ writing' = TRUE /\ pc'[t] = "start"
           /\ \E o \in Ops : /\ ops[o].type = "none" /\ ops'[o].type = "write" /\ ops'[o].stage = "new"
                             /\ ops'[o].result = "none" /\ ops'[o].data \in Seq(1 .. MaxOut)
                             /\ wrb' \in Seq(1 .. MaxOut) /\ ops'[o].data \o wrb' = wrb
                             /\ Others(o) /\ mine'[t] = o
  <2>1. PICK o \in Ops : /\ ops[o].type = "none" /\ ops'[o].type = "write" /\ ops'[o].stage = "new"
                         /\ ops'[o].result = "none" /\ ops'[o].data \in Seq(1 .. MaxOut)
                         /\ wrb' \in Seq(1 .. MaxOut) /\ ops'[o].data \o wrb' = wrb
                         /\ Others(o) /\ mine'[t] = o
    BY <1>2
  <2>2. ops[o].stage = "none"
    BY <2>1 DEF Base, Formed
  <2>3. at[t] # 0 => at[t] \in Ops \ {o}
    BY <2>2 DEF Base, Typed, Owned, Hands
  <2>4. Handling(t)'
    <3>1. Handling(t)
      BY DEF Writing
    <3>2. at'[t] # 0 => ops'[at'[t]] = ops[at[t]]
      BY <1>0, <2>1, <2>3 DEF Others
    <3>3. at'[t] # 0 /\ ops'[at'[t]].type = "write" => ops'[at'[t]].result = "ok"
      BY <1>0, <3>1, <3>2 DEF Handling
    <3>4. ops'[mine'[t]].type = "write" /\ pc'[t] = "start"
      BY <1>2, <2>1
    <3> QED
      BY <3>3, <3>4 DEF Handling
  <2>5. \A u \in Threads : Handling(u)'
    BY <1>0, <2>1, <2>2, <2>4, HandlingKept
  <2>6. Strays'
    BY <2>1 DEF Writing, Strays, Others, Ops
  <2>7. CASE cancelled'
    BY <2>5, <2>6, <2>7 DEF Writing, OneWriter, InOrder, Waits
  <2>8. CASE ~cancelled'
    <3>0. ~cancelled
      BY <1>0, <2>8
    <3>1. \A p \in Ops \ {o} : p \in Writers' <=> p \in Writers
      BY <1>0, <1>2, <2>1, OthersWrite, GoesOn, ThreadFacts
    <3>2. Writers = {}
      BY <1>2, <3>0 DEF Writing, OneWriter
    <3>3. o \in Writers' /\ o \in Busy'
      BY <2>1 DEF Writers, Live, Busy
    <3>4. Writers' \subseteq Ops /\ Busy' \subseteq Writers'
      BY DEF Writers, Live, Busy, Ops
    <3>5. Writers' = {o} /\ Busy' = {o}
      BY <3>1, <3>2, <3>3, <3>4
    <3>6. OneWriter'
      BY <1>2, <3>5 DEF OneWriter
    <3>7. sent' \o ops'[o].data \o wrb' = Upto(written)'
      <4>1. sent \in Seq(1 .. MaxOut) /\ sent' = sent
        BY <1>0 DEF Base, Typed
      <4> DEFINE d == ops'[o].data
                 w == wrb'
      <4>2. d \in Seq(1 .. MaxOut) /\ w \in Seq(1 .. MaxOut) /\ d \o w = wrb
        BY <2>1
      <4> HIDE DEF d, w
      <4>3. sent \o d \o w = sent \o wrb
        <5>1. \A a, b, c \in Seq(1 .. MaxOut) : (a \o b) \o c = a \o (b \o c)
          BY ConcatAssociative
        <5>2. (sent \o d) \o w = sent \o (d \o w)
          BY <4>1, <4>2, <5>1, Zenon
        <5> QED
          BY <4>2, <5>2
      <4>4. Busy = {}
        BY <3>2, WritersIn
      <4>5. sent \o wrb = Upto(written)
        BY <3>0, <4>4 DEF Writing, InOrder
      <4>6. Upto(written)' = Upto(written)
        BY <1>0 DEF Upto
      <4> QED
        BY <4>1, <4>3, <4>5, <4>6 DEF d, w
    <3>8. InOrder'
      BY <3>5, <3>7 DEF InOrder
    <3>9. Waits'
      BY <1>2 DEF Waits
    <3> QED
      BY <2>5, <2>6, <3>6, <3>8, <3>9 DEF Writing
  <2> QED
    BY <2>7, <2>8
<1> QED
  BY <1>1, <1>2, SpawnWriterDoes

LEMMA StartsWrite ==
  ASSUME Base, Writing, NEW t \in Threads, StartWrite(t) \/ PostWrite(t)
  PROVE  Writing'
<1>0. /\ pc[t] = "start" /\ Rest(t) /\ at'[t] = at[t] /\ Silent /\ UNCHANGED <<kind, cancelled, opened>>
      /\ mine[t] \in Ops /\ ops[mine[t]].stage = "new"
  BY StartsDo
<1>1. \A p \in Ops : pc'[t] \in {"test", "end"} => (ops[p].type = "write" =>
        ((at'[t] = p /\ pc'[t] \in WriteEnds(p)) <=> (at[t] = p /\ pc[t] \in WriteEnds(p))))
  BY <1>0, GoesOn, ThreadFacts
<1>2. CASE ops' = ops /\ pc'[t] = "test" /\ mine'[t] = mine[t]
  <2>1. Others(0) /\ 0 \notin Ops /\ Handling(t)'
    BY <1>2, ThreadFacts DEF Others, Handling
  <2> QED
    BY <1>0, <1>1, <1>2, <2>1, StepWrites
<1>3. CASE /\ pc'[t] = "end" /\ mine'[t] = 0 /\ Others(mine[t])
           /\ ops'[mine[t]].stage \in {"kernel", "message", "leaked"} /\ ops'[mine[t]].type = ops[mine[t]].type
           /\ ops'[mine[t]].result = ops[mine[t]].result /\ ops'[mine[t]].data = ops[mine[t]].data
  <2>1. PICK o \in Ops : o = mine[t]
    BY <1>0
  <2>2. Handling(t)'
    BY <1>3 DEF Handling
  <2>3. (o \in Writers' <=> o \in Writers) /\ (o \in Busy' <=> o \in Busy)
    BY <1>0, <1>3, <2>1 DEF Writers, Live, Busy
  <2>4. ops'[o].result = "stray" => ops'[o].type = "read"
    BY <1>3, <2>1 DEF Writing, Strays
  <2> QED
    BY <1>0, <1>1, <1>3, <2>1, <2>2, <2>3, <2>4, StepWrites
<1> QED
  BY <1>2, <1>3, StartsDo

\* The flag is cleared when the only writer has written.
LEMMA WrittenWrites ==
  ASSUME Base, Writing, NEW t \in Threads, Written(t)
  PROVE  Writing'
<1>1. /\ pc[t] = "written" /\ pc'[t] = "spawn_writer" /\ Keeps(t) /\ ops' = ops
      /\ UNCHANGED <<kind, cancelled, opened, wrb, sent, written>> /\ writing' = FALSE /\ at[t] \in Ops
  BY WrittenDoes
<1>2. PICK o \in Ops : o = at[t]
  BY <1>1
<1>3. ops[o].type = "write" /\ ops[o].result = "ok" /\ ops[o].stage = "run"
  BY <1>1, <1>2, ThreadFacts DEF Writing, Handling, Base, Owned, Hands
<1>4. Handling(t)'
  BY <1>1, <1>2, <1>3 DEF Handling, Keeps
<1>5. Rest(t) /\ Others(0) /\ 0 \notin Ops
  BY <1>1, ThreadFacts DEF Keeps, Others
<1>6. \A u \in Threads : Handling(u)'
  BY <1>4, <1>5, HandlingKept
<1>7. Strays'
  BY <1>1 DEF Writing, Strays
<1>8. CASE cancelled'
  BY <1>6, <1>7, <1>8 DEF Writing, OneWriter, InOrder, Waits
<1>9. CASE ~cancelled'
  <2>0. ~cancelled
    BY <1>1, <1>9
  <2>1. o \in Writers
    BY <1>1, <1>2, <1>3, InWriters DEF WriteEnds
  <2>2. Writers = {o}
    BY <2>0, <2>1 DEF Writing, OneWriter
  <2>3. Busy = {}
    BY <1>3, <2>2 DEF Busy
  <2>4. \A p \in Ops \ {o} : p \notin Writers'
    <3> SUFFICES ASSUME NEW p \in Ops \ {o} PROVE p \notin Writers'
      OBVIOUS
    <3>1. p \in Ops \ {0} /\ Others(0) /\ at[t] # p /\ at'[t] # p
      BY <1>1, <1>2, <1>5 DEF Keeps
    <3>2. p \in Writers' <=> p \in Writers
      BY <1>5, <3>1, OthersWrite
    <3> QED
      BY <2>2, <3>2
  <2>5. o \notin Writers'
    <3>1. \A u \in Threads : at[u] = o => u = t
      BY <1>2, ThreadFacts DEF Base, Owned, Apart
    <3>2. \A u \in Threads : at'[u] = o => u = t
      BY <1>1, <3>1 DEF Keeps, Rest, Same
    <3>3. ~\E u \in Threads : at'[u] = o /\ pc'[u] \in WriteEnds(o)'
      BY <1>1, <3>2 DEF WriteEnds
    <3>4. ops'[o].stage = "run"
      BY <1>1, <1>3
    <3> QED
      BY <3>3, <3>4 DEF Writers, Live
  <2>6. Writers' = {} /\ Busy' = {}
    <3>1. Writers' \subseteq Ops /\ Busy' \subseteq Writers'
      BY DEF Writers, Live, Busy, Ops
    <3> QED
      BY <2>4, <2>5, <3>1
  <2>7. OneWriter'
    BY <1>1, <2>6 DEF OneWriter
  <2>8. InOrder'
    <3>1. sent' \o wrb' = Upto(written)'
      BY <1>1, <2>0, <2>3 DEF Writing, InOrder, Upto
    <3> QED
      BY <2>6, <3>1 DEF InOrder
  <2>9. Waits'
    BY <1>1 DEF Waits
  <2> QED
    BY <1>6, <1>7, <2>7, <2>8, <2>9 DEF Writing
<1> QED
  BY <1>8, <1>9

LEMMA TakesWrite ==
  ASSUME Base, Writing, NEW t \in Threads, NEW o \in Ops,
         \/ TakeConnect(t, o) \/ TakeAccept(t, o) \/ TakeRead(t, o) \/ TakeDatagram(t, o) \/ TakeWrite(t, o)
  PROVE  Writing'
<1>1. /\ pc[t] = "idle" /\ Rest(t) /\ at[t] = 0 /\ at'[t] = o /\ mine'[t] = 0
      /\ Silent /\ UNCHANGED <<kind, cancelled>>
      /\ Others(o) /\ ops[o].stage = "done" /\ ops'[o].stage = "run" /\ ops'[o].type = ops[o].type
      /\ ops'[o].result = ops[o].result /\ ops'[o].data = ops[o].data
  BY TakesDo
<1>2. \/ ops[o].type \in {"connect", "accept", "read"} /\ pc'[t] \notin {"start", "written"}
      \/ ops[o].type = "write" /\ pc'[t] = IF ops[o].result = "failed" THEN "test" ELSE "written"
  BY TakesDo
<1>3. ops[o].result # "none" /\ (ops[o].result = "stray" => ops[o].type = "read")
      /\ ops[o].result \in Results
  BY <1>1 DEF Base, Formed, Writing, Strays, Typed, OpSet
<1>4. Handling(t)'
  BY <1>1, <1>2, <1>3 DEF Handling, Results
<1>5. o \in Writers' <=> o \in Writers
  <2>1. CASE ops[o].type # "write"
    BY <1>1, <2>1 DEF Writers, Live
  <2>2. CASE ops[o].type = "write"
    <3>1. pc'[t] \in WriteEnds(o)'
      BY <1>1, <1>2, <2>2 DEF WriteEnds
    <3>2. o \in Writers'
      BY <1>1, <2>2, <3>1 DEF Writers, Live
    <3>3. o \in Writers
      BY <1>1, <2>2, InWriters
    <3> QED
      BY <3>2, <3>3
  <2> QED
    BY <2>1, <2>2
<1>6. o \in Busy' <=> o \in Busy
  BY <1>1, <1>5 DEF Busy
<1>7. \A p \in Ops \ {o} : (at'[t] = p /\ pc'[t] \in WriteEnds(p)) <=> (at[t] = p /\ pc[t] \in WriteEnds(p))
  BY <1>1, ThreadFacts
<1> QED
  BY <1>1, <1>3, <1>4, <1>5, <1>6, <1>7, StepWrites

\* An operation that no thread handles changes.
LEMMA StillHandling ==
  ASSUME Base, Writing, NEW t \in Threads, at'[t] = at[t], mine'[t] = mine[t], pc'[t] = pc[t],
         NEW o, Others(o), o \in Ops => ops[o].stage \notin {"run", "new"}
  PROVE  Handling(t)'
<1>1. Handling(t) /\ Hands(t) /\ at[t] \in Ops \cup {0} /\ mine[t] \in Ops \cup {0}
  BY DEF Writing, Base, Owned, Typed
<1>2. (at[t] # 0 => ops'[at'[t]] = ops[at[t]]) /\ (mine[t] # 0 => ops'[mine'[t]] = ops[mine[t]])
  BY <1>1 DEF Others, Hands
<1>3. pc'[t] = "start" => ops'[mine'[t]].type = "write"
  BY <1>1, <1>2 DEF Handling, Hands
<1>4. pc'[t] = "written" => ops'[at'[t]].type = "write"
  BY <1>1, <1>2 DEF Handling, Hands
<1>5. /\ pc'[t] \in {"spawn_reader", "spawn_acceptor", "spawn_writer", "start", "written"}
      /\ at'[t] # 0 /\ ops'[at'[t]].type = "write"
      => ops'[at'[t]].result = "ok"
  BY <1>1, <1>2 DEF Handling
<1> QED
  BY <1>3, <1>4, <1>5 DEF Handling

LEMMA BouncedWrites ==
  ASSUME Base, Writing, NEW o \in Ops, NEW type \in {"read", "write"}, Bounced(o, type)
  PROVE  Writing'
<1>1. /\ Keeps(Ex) /\ pc[Ex] = "idle" /\ at[Ex] = 0 /\ Silent /\ UNCHANGED <<kind, cancelled, opened>>
      /\ Others(o) /\ ops[o].stage = "message"
      /\ ops'[o].stage \in {"kernel", "leaked"} /\ ops'[o].type = ops[o].type
      /\ ops'[o].result = ops[o].result /\ ops'[o].data = ops[o].data
      /\ pc'[Ex] \in {"idle", "test"}
  BY BouncedDoes
<1>2. Rest(Ex) /\ Ex \in Threads /\ Handling(Ex)' /\ at'[Ex] = 0
  BY <1>1, ThreadFacts DEF Keeps, Handling
<1>3. (o \in Writers' <=> o \in Writers) /\ (o \in Busy' <=> o \in Busy)
  BY <1>1 DEF Writers, Live, Busy
<1>4. ops'[o].result = "stray" => ops'[o].type = "read"
  BY <1>1 DEF Writing, Strays
<1> QED
  BY <1>1, <1>2, <1>3, <1>4, StepWrites, ThreadFacts

LEMMA WatchesWrite ==
  ASSUME Base, Writing, NEW o \in Ops, WatchNew(o) \/ WatchList(o)
  PROVE  Writing'
<1>1. /\ UNCHANGED threads /\ Silent /\ UNCHANGED <<kind, cancelled, opened>>
      /\ Others(o) /\ ops[o].type = "connect" /\ ops[o].stage \in {"message", "list"}
      /\ \/ ops'[o] = NoOp
         \/ ops'[o].type = "connect" /\ ops'[o].stage \in {"list", "done", "leaked"} /\ ops'[o].result # "stray"
  BY WatchesDo
<1>2. Ex \in Threads /\ Rest(Ex) /\ at'[Ex] = at[Ex] /\ mine'[Ex] = mine[Ex] /\ pc'[Ex] = pc[Ex]
  BY <1>1, ThreadFacts, StillRest DEF Same
<1>3. Handling(Ex)'
  BY <1>1, <1>2, StillHandling
<1>4. ops'[o].type # "write" /\ ops'[o].result # "stray"
  BY <1>1 DEF NoOp
<1>5. o \notin Writers' /\ o \notin Writers /\ o \notin Busy' /\ o \notin Busy
  BY <1>1, <1>4 DEF Writers, Live, Busy
<1>6. \A p \in Ops \ {o} : ops[p].type = "write" =>
        ((at'[Ex] = p /\ pc'[Ex] \in WriteEnds(p)) <=> (at[Ex] = p /\ pc[Ex] \in WriteEnds(p)))
  BY <1>2
<1> QED
  BY <1>1, <1>2, <1>3, <1>4, <1>5, <1>6, StepWrites

LEMMA OutcomeWrites ==
  ASSUME Base, Writing, Outcome
  PROVE  Writing'
<1>1. /\ UNCHANGED threads /\ Silent /\ cancelled' = cancelled /\ ops' = ops
  BY DEF Outcome, conn, out, Silent
<1>2. /\ Ex \in Threads /\ Rest(Ex) /\ at'[Ex] = at[Ex] /\ mine'[Ex] = mine[Ex] /\ pc'[Ex] = pc[Ex]
      /\ Others(0) /\ 0 \notin Ops
  BY <1>1, ThreadFacts, StillRest DEF Same, Others
<1>3. Handling(Ex)'
  BY <1>1, <1>2, StillHandling
<1> QED
  BY <1>1, <1>2, <1>3, StepWrites

\* What the kernel takes moves from the operation to what was sent.
LEMMA CompleteWrites ==
  ASSUME Base, Writing, NEW o \in Ops, Complete(o)
  PROVE  Writing'
<1>1. /\ UNCHANGED threads /\ UNCHANGED <<kind, cancelled, opened, wrb, written, writing>>
      /\ Others(o) /\ ops[o].stage = "kernel" /\ ops[o].result = "none" /\ ops'[o].stage = "done"
      /\ ops'[o].type = ops[o].type /\ ops'[o].data = ops[o].data
      /\ ops'[o].result \in {"ok", "failed", "stray"} /\ (ops'[o].result = "stray" => ops[o].type = "read")
      /\ sent' = IF ops'[o].result = "ok" THEN sent \o ops[o].data ELSE sent
  BY CompleteDoes
<1>2. Ex \in Threads /\ Rest(Ex) /\ at'[Ex] = at[Ex] /\ mine'[Ex] = mine[Ex] /\ pc'[Ex] = pc[Ex]
  BY <1>1, ThreadFacts, StillRest DEF Same
<1>3. Handling(Ex)'
  BY <1>1, <1>2, StillHandling
<1>4. \A p \in Ops \ {o} : ops[p].type = "write" =>
        ((at'[Ex] = p /\ pc'[Ex] \in WriteEnds(p)) <=> (at[Ex] = p /\ pc[Ex] \in WriteEnds(p)))
  BY <1>2
<1>5. sent \in Seq(1 .. MaxOut) /\ wrb \in Seq(1 .. MaxOut) /\ ops[o].data \in Seq(1 .. MaxOut)
  BY DEF Base, Typed, OpSet
<1>6. CASE ops[o].type # "write"
  <2>1. ops[o].data = << >>
    BY <1>6 DEF Base, Formed
  <2>2. sent \o << >> = sent
    BY <1>5, ConcatEmptySeq
  <2>3. Silent
    BY <1>1, <2>1, <2>2 DEF Silent
  <2>4. o \notin Writers' /\ o \notin Writers /\ o \notin Busy' /\ o \notin Busy
    BY <1>1, <1>6 DEF Writers, Live, Busy
  <2> QED
    BY <1>1, <1>2, <1>3, <1>4, <2>3, <2>4, StepWrites
<1>7. CASE ops[o].type = "write" /\ ops'[o].result = "failed"
  <2>1. Silent
    BY <1>1, <1>7 DEF Silent
  <2>2. o \in Writers' /\ o \in Writers /\ o \in Busy' /\ o \in Busy
    BY <1>1, <1>7 DEF Writers, Live, Busy
  <2> QED
    BY <1>1, <1>2, <1>3, <1>4, <1>7, <2>1, <2>2, StepWrites
<1>8. CASE ops[o].type = "write" /\ ops'[o].result = "ok"
  <2>1. \A u \in Threads : Handling(u)'
    BY <1>1, <1>2, <1>3, HandlingKept
  <2>2. Strays'
    BY <1>1, <1>8 DEF Writing, Strays, Others, Ops
  <2>3. CASE cancelled'
    BY <2>1, <2>2, <2>3 DEF Writing, OneWriter, InOrder, Waits
  <2>4. CASE ~cancelled'
    <3>0. ~cancelled
      BY <1>1, <2>4
    <3>1. o \in Writers /\ o \in Busy /\ o \in Writers'
      BY <1>1, <1>8 DEF Writers, Live, Busy
    <3>2. \A p \in Ops \ {o} : p \in Writers' <=> p \in Writers
      BY <1>1, <1>2, <1>4, OthersWrite
    <3>3. Writers = {o} /\ writing
      BY <3>0, <3>1 DEF Writing, OneWriter
    <3>4. Writers' = {o}
      <4>1. Writers' \subseteq Ops
        BY DEF Writers, Live, Ops
      <4> QED
        BY <3>1, <3>2, <3>3, <4>1
    <3>5. Busy' = {}
      BY <1>8, <3>4 DEF Busy
    <3>6. OneWriter' /\ Waits'
      BY <1>1, <3>3, <3>4 DEF OneWriter, Waits
    <3>7. sent' \o wrb' = Upto(written)'
      <4>1. sent \o ops[o].data \o wrb = Upto(written)
        BY <3>0, <3>1 DEF Writing, InOrder
      <4>2. Upto(written)' = Upto(written)
        BY <1>1 DEF Upto
      <4> QED
        BY <1>1, <1>8, <4>1, <4>2
    <3>8. InOrder'
      BY <3>5, <3>7 DEF InOrder
    <3> QED
      BY <2>1, <2>2, <3>6, <3>8 DEF Writing
  <2> QED
    BY <2>3, <2>4
<1> QED
  BY <1>1, <1>6, <1>7, <1>8

LEMMA UptoFacts ==
  /\ Upto(0) = << >>
  /\ \A n \in Nat : Upto(n) \in Seq(Nat) /\ Upto(n + 1) = Upto(n) \o << n + 1 >>
<1>1. Upto(0) = << >>
  BY DEF Upto
<1>2. ASSUME NEW n \in Nat PROVE Upto(n) \in Seq(Nat) /\ Upto(n + 1) = Upto(n) \o << n + 1 >>
  <2>1. \A m \in Nat : Upto(m) \in Seq(Nat) /\ Len(Upto(m)) = m /\ \A i \in 1 .. m : Upto(m)[i] = i
    BY DEF Upto
  <2> DEFINE s == Upto(n)
             e == << n + 1 >>
             r == Upto(n + 1)
  <2>2. /\ s \in Seq(Nat) /\ Len(s) = n /\ \A i \in 1 .. n : s[i] = i
        /\ r \in Seq(Nat) /\ Len(r) = n + 1 /\ \A i \in 1 .. n + 1 : r[i] = i
    BY <2>1
  <2>3. e \in Seq(Nat) /\ Len(e) = 1 /\ e[1] = n + 1
    OBVIOUS
  <2> HIDE DEF s, e, r
  <2>4. /\ s \o e \in Seq(Nat) /\ Len(s \o e) = n + 1
        /\ \A i \in 1 .. n + 1 : (s \o e)[i] = IF i <= n THEN s[i] ELSE e[i - n]
    <3>1. s \in Seq(Nat) /\ e \in Seq(Nat)
      BY <2>2, <2>3
    <3>2. /\ s \o e \in Seq(Nat) /\ Len(s \o e) = Len(s) + Len(e)
          /\ \A i \in 1 .. Len(s) + Len(e) : (s \o e)[i] = IF i <= Len(s) THEN s[i] ELSE e[i - Len(s)]
      BY <3>1, ConcatProperties
    <3>3. Len(s) = n /\ Len(e) = 1
      BY <2>2, <2>3
    <3> QED
      BY <3>2, <3>3
  <2>5. \A i \in 1 .. n + 1 : r[i] = (s \o e)[i]
    BY <2>2, <2>3, <2>4
  <2>6. r = s \o e
    BY <2>2, <2>4, <2>5, SeqEqual
  <2> QED
    BY <2>2, <2>6 DEF s, e, r
<1> QED
  BY <1>1, <1>2

LEMMA CallsWrite ==
  ASSUME Base, Writing, Write \/ Cancel
  PROVE  Writing'
<1>1. /\ Keeps(App) /\ pc[App] = "idle" /\ at[App] = 0 /\ ops' = ops /\ App \in Threads
      /\ UNCHANGED <<kind, cancelled, opened, writing, sent>>
      /\ \/ /\ Write /\ pc'[App] = IF writing THEN "end" ELSE "spawn_writer"
         \/ /\ Cancel /\ pc'[App] = "test" /\ UNCHANGED <<wrb, written>>
  BY CallsDo, ThreadFacts
<1>2. Rest(App) /\ at'[App] = 0 /\ Others(0) /\ 0 \notin Ops
  BY <1>1, ThreadFacts DEF Keeps, Others
<1>3. Handling(App)'
  BY <1>1, <1>2 DEF Handling
<1>4. CASE Cancel /\ pc'[App] = "test" /\ UNCHANGED <<wrb, written>>
  <2>1. Silent
    BY <1>1, <1>4 DEF Silent
  <2> QED
    BY <1>1, <1>2, <1>3, <1>4, <2>1, StepWrites, ThreadFacts
<1>5. CASE Write /\ pc'[App] = IF writing THEN "end" ELSE "spawn_writer"
  <2>1. \A u \in Threads : Handling(u)'
    BY <1>2, <1>3, <1>1, HandlingKept
  <2>2. Strays'
    BY <1>1 DEF Writing, Strays
  <2>3. CASE cancelled'
    BY <2>1, <2>2, <2>3 DEF Writing, OneWriter, InOrder, Waits
  <2>4. CASE ~cancelled'
    <3>0. ~cancelled
      BY <1>1, <2>4
    <3>1. \A p \in Ops : (p \in Writers' <=> p \in Writers) /\ (p \in Busy' <=> p \in Busy)
      <4> SUFFICES ASSUME NEW p \in Ops
                   PROVE  (p \in Writers' <=> p \in Writers) /\ (p \in Busy' <=> p \in Busy)
        OBVIOUS
      <4>1. p \in Ops \ {0} /\ at[App] # p /\ at'[App] # p
        BY <1>1, <1>2
      <4> QED
        BY <1>1, <1>2, <4>1, OthersWrite
    <3>2. Writers' = Writers /\ Busy' = Busy
      <4>1. Writers' \subseteq Ops /\ Busy' \subseteq Ops /\ Writers \subseteq Ops /\ Busy \subseteq Ops
        BY DEF Writers, Live, Busy, Ops
      <4> QED
        BY <3>1, <4>1
    <3>3. OneWriter'
      BY <1>1, <3>0, <3>2 DEF Writing, OneWriter
    <3>4. Waits'
      BY <1>1, <1>5 DEF Waits
    <3>5. written \in Nat /\ written' = written + 1 /\ wrb' = Append(wrb, written') /\ written' \in 1 .. MaxOut
          /\ wrb \in Seq(1 .. MaxOut) /\ sent \in Seq(1 .. MaxOut) /\ ops \in [Ops -> OpSet]
      BY <1>5, WriteTyped DEF Base, Typed
    <3> DEFINE e == << written' >>
    <3>6. e \in Seq(1 .. MaxOut) /\ wrb' = wrb \o e
      BY <3>5, AppendIsConcat
    <3>7. Upto(written)' = Upto(written) \o e
      <4>1. Upto(written)' = Upto(written + 1)
        BY <3>5 DEF Upto
      <4> QED
        BY <3>5, <4>1, UptoFacts
    <3> HIDE DEF e
    <3>8. \A a, b, c \in Seq(1 .. MaxOut) : (a \o b) \o c = a \o (b \o c) /\ a \o b \in Seq(1 .. MaxOut)
      BY ConcatAssociative, ConcatProperties
    <3>9. \A o \in Busy' : sent' \o ops'[o].data \o wrb' = Upto(written)'
      <4> SUFFICES ASSUME NEW o \in Busy PROVE sent' \o ops'[o].data \o wrb' = Upto(written)'
        BY <3>2
      <4>1. sent \o ops[o].data \o wrb = Upto(written)
        BY <3>0 DEF Writing, InOrder
      <4> DEFINE d == sent \o ops[o].data
      <4>2. d \in Seq(1 .. MaxOut)
        BY <3>5, <3>8, WritersIn DEF OpSet
      <4>3. sent' \o ops'[o].data = d
        BY <1>1
      <4> HIDE DEF d
      <4>4. (d \o wrb) \o e = d \o (wrb \o e)
        BY <3>5, <3>6, <3>8, <4>2
      <4>5. d \o wrb = Upto(written)
        BY <4>1 DEF d
      <4> QED
        BY <3>6, <3>7, <4>3, <4>4, <4>5
    <3>10. Busy' = {} => sent' \o wrb' = Upto(written)'
      <4>1. (sent \o wrb) \o e = sent \o (wrb \o e)
        BY <3>5, <3>6, <3>8
      <4>2. Busy' = {} => sent \o wrb = Upto(written)
        BY <3>0, <3>2 DEF Writing, InOrder
      <4> QED
        BY <1>1, <3>6, <3>7, <4>1, <4>2
    <3>11. InOrder'
      BY <3>9, <3>10 DEF InOrder
    <3> QED
      BY <2>1, <2>2, <3>3, <3>4, <3>11 DEF Writing
  <2> QED
    BY <2>3, <2>4
<1> QED
  BY <1>1, <1>4, <1>5

\* There is nothing to write yet.
LEMMA NothingWritten ==
  ASSUME \A o \in Ops : ops[o].type # "write" /\ ops[o].result # "stray", writing = FALSE,
         wrb = << >>, sent = << >>, written = 0,
         \A t \in Threads : at[t] = 0 /\ pc[t] \notin {"start", "written"}
  PROVE  Writing
<1>1. Writers = {} /\ Busy = {}
  BY DEF Writers, Live, Busy
<1>2. sent \o wrb = Upto(written)
  BY UptoFacts, ConcatEmptySeq
<1>3. \A t \in Threads : Handling(t)
  BY DEF Handling
<1> QED
  BY <1>1, <1>2, <1>3 DEF Writing, OneWriter, InOrder, Waits, Strays

LEMMA CreateWrites ==
  ASSUME Base, Create
  PROVE  Writing'
<1>1. /\ \A t \in Threads : at'[t] = 0 /\ mine'[t] = 0
      /\ wrb' = << >> /\ sent' = << >> /\ written' = 0 /\ writing' = FALSE
  BY CreateDoes
<1>2. \A t \in Threads : pc'[t] \notin {"start", "written"}
  BY CreateDoes DEF Moves
<1>3. \A o \in Ops : ops'[o] \in {NoOp, Attempt, Op("accept", "kernel", << >>)}
  BY CreateDoes
<1>4. \A o \in Ops : ops'[o].type # "write" /\ ops'[o].result # "stray"
  BY <1>3 DEF NoOp, Attempt, Op
<1>5. Writers' = {} /\ Busy' = {}
  BY <1>4 DEF Writers, Live, Busy, Ops
<1>6. sent' \o wrb' = Upto(written')
  BY <1>1, UptoFacts, ConcatEmptySeq
<1>7. Upto(written)' = Upto(written')
  BY DEF Upto
<1>8. \A t \in Threads : Handling(t)'
  BY <1>1, <1>2 DEF Handling
<1>9. OneWriter' /\ Waits' /\ Strays'
  BY <1>1, <1>4, <1>5 DEF OneWriter, Waits, Strays, Ops
<1>10. InOrder'
  BY <1>5, <1>6, <1>7 DEF InOrder
<1> QED
  BY <1>8, <1>9, <1>10 DEF Writing

LEMMA DeleteWrites ==
  ASSUME Base, Writing, Delete
  PROVE  Writing'
<1>1. /\ Keeps(Maker) /\ pc[Maker] = "delete" /\ pc'[Maker] = "idle" /\ at[Maker] = 0 /\ ops' = ops
      /\ Silent /\ Maker \in Threads /\ UNCHANGED <<kind, cancelled, opened>>
  BY DeleteDoes
<1>2. Rest(Maker) /\ at'[Maker] = 0 /\ Others(0) /\ 0 \notin Ops
  BY <1>1, ThreadFacts DEF Keeps, Others
<1>3. Handling(Maker)'
  BY <1>1, <1>2 DEF Handling
<1> QED
  BY <1>1, <1>2, <1>3, StepWrites

LEMMA WritingInit == Init => Writing
<1> SUFFICES ASSUME Init PROVE Writing
  OBVIOUS
<1>1. \A o \in Ops : ops[o].type # "write" /\ ops[o].result # "stray"
  BY DEF Init, NoOp
<1>2. \A t \in Threads : at[t] = 0 /\ pc[t] \notin {"start", "written"}
  BY DEF Init
<1> QED
  BY <1>1, <1>2, NothingWritten DEF Init

LEMMA WritingStep ==
  ASSUME Base, Writing, [Next]_vars
  PROVE  Writing'
<1>1. ASSUME NEW t \in Threads, Run(t) PROVE Writing'
  BY <1>1, TestWrites, ShutWrites, DropWrites, EndWrites, SpawnReaderWrites, SpawnAcceptorWrites,
     SpawnWriterWrites, StartsWrite, WrittenWrites DEF Run
<1>2. ASSUME NEW o \in Ops, Serve(o) PROVE Writing'
  BY <1>2, TakesWrite, BouncedWrites, WatchesWrite DEF Serve, BounceRead, BounceWrite
<1>3. CASE Next
  BY <1>1, <1>2, <1>3, CreateWrites, DeleteWrites, CallsWrite, OutcomeWrites, CompleteWrites DEF Next
<1>4. CASE UNCHANGED vars
  <2>1. UNCHANGED threads /\ Silent /\ UNCHANGED <<cancelled, ops>>
    BY <1>4 DEF vars, conn, out, threads, Silent
  <2>2. /\ Ex \in Threads /\ Rest(Ex) /\ at'[Ex] = at[Ex] /\ mine'[Ex] = mine[Ex] /\ pc'[Ex] = pc[Ex]
        /\ Others(0) /\ 0 \notin Ops
    BY <2>1, ThreadFacts, StillRest DEF Same, Others
  <2>3. Handling(Ex)'
    BY <2>1, <2>2, StillHandling
  <2> QED
    BY <2>1, <2>2, <2>3, StepWrites
<1> QED
  BY <1>3, <1>4

LEMMA WritingAlways == Spec => [](Base /\ Writing)
<1>1. Init => Base /\ Writing
  BY BaseInit, WritingInit
<1>2. Base /\ Writing /\ [Next]_vars => Base' /\ Writing'
  BY BaseStep, WritingStep
<1> QED
  BY <1>1, <1>2, PTL DEF Spec

\* A set of which any two elements are one.
LEMMA AtMostOne ==
  ASSUME NEW S, \A x, y \in S : x = y
  PROVE  IsFiniteSet(S) /\ Cardinality(S) \in {0, 1} /\ (S # {} => Cardinality(S) = 1)
<1>1. CASE S = {}
  BY <1>1, FS_EmptySet
<1>2. CASE S # {}
  <2>1. PICK x \in S : TRUE
    BY <1>2
  <2>2. S = {x}
    BY <2>1
  <2> QED
    BY <1>2, <2>2, FS_Singleton
<1> QED
  BY <1>1, <1>2

\* The flag is_writing (nt/owriter.cc:22-42, nt/connection.cc:57 and 92-101)
\* changes hands between the application, which may find it set, the worker
\* that serves a completed write, and the constructor of the next one.
\* Until the connection is cancelled one operation writes at a time, and what
\* the kernel took, what that operation carries and what waits are, in this
\* order, all that was written.
THEOREM WritesAreInOrder == Spec => []WrittenInOrder
<1>1. ASSUME Base, Writing PROVE WrittenInOrder
  <2>1. ~cancelled => Cardinality(Writers) <= 1
    BY <1>1, AtMostOne DEF Writing, OneWriter
  <2> QED
    BY <1>1, <2>1 DEF WrittenInOrder, Writing, OneWriter, InOrder, Busy
<1> QED
  BY <1>1, WritingAlways, PTL

\* When nothing moves any more, nothing waits to be written: the writer that
\* found the flag set left the data to the one that clears it (on_write,
\* nt/connection.cc:92-101), unless a writer was lost in post_ex; and a
\* cancelled connection has lost its last reference, but for the operations
\* that nt/connectex.cc and nt/iocp.cc forget.
THEOREM NothingIsLeft == Spec => []Drained
<1>1. ASSUME Base, Writing PROVE Drained
  <2> SUFFICES ASSUME Settled
               PROVE  IF ~cancelled THEN wrb = << >> \/ Leaked \cap Live("write") # {}
                      ELSE alive # "live" \/ refc = 0 \/ Leaked # {} \/ \E o \in Ops : ops[o].stage = "list"
    BY DEF Drained
  <2>1. CASE ~cancelled
    <3> SUFFICES ASSUME wrb # << >> PROVE Leaked \cap Live("write") # {}
      BY <2>1
    <3>1. writing
      BY <1>1, <2>1 DEF Writing, Waits, Settled
    <3>2. PICK o \in Writers : TRUE
      BY <1>1, <2>1, <3>1 DEF Writing, OneWriter
    <3>3. o \in Ops /\ ops[o].type = "write" /\ ops[o].stage \in Stages
      BY <1>1, WritersIn, InWriters DEF Base, Typed, OpSet
    <3>4. ops[o].stage \notin {"none", "list"}
      BY <1>1, <3>3 DEF Base, Formed
    <3>5. ops[o].stage = "leaked"
      BY <3>3, <3>4 DEF Settled, Stages
    <3> QED
      BY <3>3, <3>5 DEF Leaked, Live
  <2>2. CASE cancelled
    <3> SUFFICES ASSUME \A o \in Ops : ops[o].stage \notin {"leaked", "list"} PROVE refc = 0
      BY <2>2 DEF Leaked
    <3>1. sock = "closed"
      BY <1>1, <2>2 DEF Base, Closed
    <3>2. ASSUME NEW o \in Ops PROVE o \notin Used
      <4>1. ops[o].stage = "none"
        BY <1>1, <3>1 DEF Settled, Base, Typed, OpSet, Stages
      <4> QED
        BY <1>1, <4>1 DEF Base, Formed, Used
    <3>3. Used = {}
      BY <3>2 DEF Used
    <3>4. Cardinality(Used) = 0
      BY <3>3, FS_EmptySet
    <3>5. refc = Cardinality(Used) + 0
      BY <1>1, ThreadFacts DEF Base, Counted, Settled
    <3> QED
      BY <3>4, <3>5
  <2> QED
    BY <2>1, <2>2
<1> QED
  BY <1>1, WritingAlways, PTL

----------------------------------------------------------------------------
(* Reading.                                                                *)

Readers  == {o \in Live("read") : ops[o].stage # "run"}
Coming  == {t \in Threads : pc[t] = "spawn_reader"}
Pending == {o \in Live("connect") : ops[o].stage # "run"}

OneReader == /\ \A o, p \in Readers : o = p
             /\ \A t, u \in Coming : t = u
             /\ Readers = {} \/ Coming = {}

\* Nobody reads while the attempt is under way, and there is no other one.
Connecting == \A o \in Pending : /\ ~opened /\ Readers = {} /\ Coming = {}
                                 /\ \A p \in Live("connect") : o = p

Heard == kind = "stream" /\ opened /\ ~cancelled /\ ~Ending => Readers # {} \/ Coming # {}

Reading == OneReader /\ Connecting /\ Heard

LEMMA InReaders ==
  ASSUME NEW o \in Ops
  PROVE  /\ o \in Readers <=> ops[o].type = "read" /\ ops[o].stage # "run"
         /\ o \in Readers' <=> ops'[o].type = "read" /\ ops'[o].stage # "run"
         /\ o \in Pending <=> ops[o].type = "connect" /\ ops[o].stage # "run"
         /\ o \in Pending' <=> ops'[o].type = "connect" /\ ops'[o].stage # "run"
         /\ o \in Live("connect") <=> ops[o].type = "connect"
         /\ o \in Live("connect")' <=> ops'[o].type = "connect"
BY DEF Readers, Pending, Live, Ops

LEMMA ReadersIn ==
  /\ Readers \subseteq Ops /\ Pending \subseteq Live("connect") /\ Live("connect") \subseteq Ops /\ Coming \subseteq Threads
  /\ Readers' \subseteq Ops /\ Pending' \subseteq Live("connect")' /\ Live("connect")' \subseteq Ops /\ Coming' \subseteq Threads
BY DEF Readers, Pending, Live, Coming, Ops, Threads

LEMMA InComing ==
  ASSUME NEW t \in Threads
  PROVE  (t \in Coming <=> pc[t] = "spawn_reader") /\ (t \in Coming' <=> pc'[t] = "spawn_reader")
BY DEF Coming, Threads

\* A step that begins no reader.
LEMMA StepReads ==
  ASSUME Reading, NEW t \in Threads, Rest(t), NEW o, Others(o),
         o \in Ops => /\ o \in Readers' => o \in Readers
                      /\ ops'[o].type = "connect" => ops[o].type = "connect"
                      /\ o \in Pending' => o \in Pending,
         pc'[t] = "spawn_reader" => pc[t] = "spawn_reader",
         opened' = opened, kind' = kind, cancelled => cancelled',
         \/ cancelled' \/ kind # "stream" \/ pc'[t] \in {"test", "shut"}
         \/ /\ o \in Readers => o \in Readers'
            /\ pc[t] = "spawn_reader" => pc'[t] = "spawn_reader"
            /\ pc[t] \notin {"test", "shut"}
  PROVE  Reading'
<1>1. /\ \A p \in Ops \ {o} : /\ (p \in Readers' <=> p \in Readers) /\ (p \in Pending' <=> p \in Pending)
                              /\ (p \in Live("connect")' <=> p \in Live("connect"))
      /\ \A u \in Threads \ {t} : pc'[u] = pc[u] /\ (u \in Coming' <=> u \in Coming)
  BY InReaders, InComing DEF Others, Rest, Same
<1>2. /\ Readers' \subseteq Readers /\ Coming' \subseteq Coming /\ Pending' \subseteq Pending
      /\ Live("connect")' \subseteq Live("connect")
  BY <1>1, InReaders, InComing, ReadersIn
<1>3. OneReader'
  BY <1>2 DEF Reading, OneReader
<1>4. Connecting'
  <2>1. \A p \in Pending' : /\ ~opened' /\ Readers' = {} /\ Coming' = {}
                            /\ \A q \in Live("connect")' : p = q
    BY <1>2 DEF Reading, Connecting
  <2> QED
    BY <2>1 DEF Connecting
<1>5. Heard'
  <2>1. CASE cancelled' \/ kind # "stream"
    BY <2>1 DEF Heard
  <2>2. CASE pc'[t] \in {"test", "shut"}
    BY <2>2 DEF Heard, Ending
  <2>3. CASE /\ o \in Readers => o \in Readers'
             /\ pc[t] = "spawn_reader" => pc'[t] = "spawn_reader"
             /\ pc[t] \notin {"test", "shut"}
    <3>1. Readers' = Readers /\ Coming' = Coming
      BY <1>1, <1>2, <2>3, InComing, ReadersIn
    <3>2. Ending => Ending'
      BY <1>1, <2>3 DEF Ending
    <3> QED
      BY <3>1, <3>2 DEF Reading, Heard
  <2> QED
    BY <2>1, <2>2, <2>3
<1> QED
  BY <1>3, <1>4, <1>5 DEF Reading

LEMMA SpawnReaderReads ==
  ASSUME Base, Reading, NEW t \in Threads, SpawnReader(t)
  PROVE  Reading'
<1>1. pc[t] = "spawn_reader" /\ Rest(t) /\ pc'[t] \in {"end", "test"}
  BY SpawnReaderDoes
<1>2. PICK o \in Ops : /\ ops[o].type = "none" /\ ops'[o].type = "read" /\ ops'[o].stage # "run" /\ Others(o)
  BY SpawnReaderDoes
<1>3. t \in Coming /\ t \notin Coming' /\ \A u \in Threads \ {t} : u \in Coming' <=> u \in Coming
  BY <1>1, InComing DEF Rest, Same
<1>4. Readers = {} /\ Pending = {} /\ Coming' = {}
  BY <1>3, ReadersIn DEF Reading, OneReader, Connecting
<1>5. o \in Readers' /\ o \notin Pending' /\ \A p \in Ops \ {o} : p \notin Readers' /\ p \notin Pending'
  BY <1>2, <1>4, InReaders DEF Others
<1>6. Readers' = {o} /\ Pending' = {}
  BY <1>5, ReadersIn
<1> QED
  BY <1>4, <1>6 DEF Reading, OneReader, Connecting, Heard

LEMMA TakesRead ==
  ASSUME Base, Reading, NEW t \in Threads, NEW o \in Ops,
         \/ TakeConnect(t, o) \/ TakeAccept(t, o) \/ TakeRead(t, o) \/ TakeDatagram(t, o) \/ TakeWrite(t, o)
  PROVE  Reading'
<1>1. /\ pc[t] = "idle" /\ Rest(t) /\ UNCHANGED <<kind, cancelled>> /\ Others(o)
      /\ ops[o].stage = "done" /\ ops'[o].stage = "run" /\ ops'[o].type = ops[o].type
  BY TakesDo
<1>2. \/ /\ ops[o].type = "connect" /\ opened' \in BOOLEAN /\ pc'[t] \in {"test", "spawn_reader"}
      \/ ops[o].type = "accept" /\ opened' = opened /\ pc'[t] = "spawn_acceptor"
      \/ /\ ops[o].type = "read" /\ opened' = opened /\ pc'[t] \in {"test", "spawn_reader", "end"}
         /\ (kind = "stream" => pc'[t] # "end")
      \/ ops[o].type = "write" /\ opened' = opened /\ pc'[t] \in {"test", "written"}
  BY TakesDo
<1>3. o \notin Readers' /\ o \notin Pending'
  BY <1>1, InReaders
<1>4. CASE opened' = opened /\ pc'[t] # "spawn_reader" /\ ops[o].type # "connect"
  <2>1. ops[o].type = "read" \/ o \notin Readers
    BY InReaders
  <2>2. \/ kind # "stream" \/ pc'[t] \in {"test", "shut"} \/ o \notin Readers
    BY <1>2, <1>4, <2>1
  <2>3. pc[t] \notin {"test", "shut", "spawn_reader"}
    BY <1>1
  <2>4. ops'[o].type # "connect"
    BY <1>1, <1>4
  <2> QED
    BY <1>1, <1>3, <1>4, <2>2, <2>3, <2>4, StepReads
<1>5. \A p \in Ops \ {o} : (p \in Readers' <=> p \in Readers) /\ (p \in Pending' <=> p \in Pending)
  BY <1>1, InReaders DEF Others
<1>6. \A u \in Threads \ {t} : u \in Coming' <=> u \in Coming
  BY <1>1, InComing DEF Rest, Same
<1>7. CASE ops[o].type = "read" /\ pc'[t] = "spawn_reader"
  <2>1. o \in Readers /\ t \in Coming'
    BY <1>1, <1>7, InReaders, InComing
  <2>2. Readers = {o} /\ Coming = {} /\ Pending = {}
    BY <2>1 DEF Reading, OneReader, Connecting
  <2>3. Readers' = {} /\ Pending' = {}
    BY <1>3, <1>5, <2>2, ReadersIn
  <2>4. Coming' = {t}
    BY <1>6, <2>1, <2>2, ReadersIn
  <2> QED
    BY <2>3, <2>4 DEF Reading, OneReader, Connecting, Heard
<1>8. CASE ops[o].type = "connect" /\ pc'[t] \in {"test", "spawn_reader"}
  <2>1. o \in Pending
    BY <1>1, <1>8, InReaders
  <2>2. Readers = {} /\ Coming = {} /\ Pending \subseteq {o}
    BY <2>1, ReadersIn DEF Reading, Connecting
  <2>3. Readers' = {} /\ Pending' = {}
    BY <1>3, <1>5, <2>2, ReadersIn
  <2>4. Coming' \subseteq {t} /\ (t \in Coming' <=> pc'[t] = "spawn_reader")
    BY <1>6, <2>2, ReadersIn, InComing
  <2>5. OneReader' /\ Connecting'
    BY <2>3, <2>4 DEF OneReader, Connecting
  <2>6. Heard'
    BY <1>8, <2>4 DEF Heard, Ending
  <2> QED
    BY <2>5, <2>6 DEF Reading
<1> QED
  BY <1>2, <1>4, <1>7, <1>8

LEMMA CreateReads ==
  ASSUME Base, Create
  PROVE  Reading'
<1>1. CASE /\ (\E w \in Workers, p \in {"spawn_reader", "test"} : Moves(w, p)) /\ opened'
           /\ \A t \in Threads : pc[t] = "idle"
           /\ \A o \in Ops : ops'[o] = NoOp
  <2>1. PICK w \in Workers, p \in {"spawn_reader", "test"} : Moves(w, p)
    BY <1>1
  <2>2. w \in Threads /\ pc'[w] = p /\ \A t \in Threads \ {w} : pc'[t] = "idle"
    BY <1>1, <2>1, ThreadFacts DEF Moves
  <2>3. Readers' = {} /\ Pending' = {}
    BY <1>1, InReaders, ReadersIn DEF NoOp
  <2>4. Coming' \subseteq {w} /\ (w \in Coming' <=> p = "spawn_reader")
    BY <2>2, InComing, ReadersIn
  <2>5. OneReader' /\ Connecting'
    BY <2>3, <2>4 DEF OneReader, Connecting
  <2>6. Heard'
    BY <2>2, <2>4 DEF Heard, Ending
  <2> QED
    BY <2>5, <2>6 DEF Reading
<1>2. CASE /\ \A t \in Threads : pc[t] = "idle" /\ pc'[t] \in {"idle", "end"}
           /\ ~opened' /\ ops'[1] = Attempt /\ \A o \in Ops \ {1} : ops'[o] = NoOp
  <2>1. Coming' = {} /\ Heard'
    BY <1>2, InComing, ReadersIn DEF Heard
  <2>2. \A o \in Ops : ops'[o].type \in {"none", "connect"} /\ (ops'[o].type = "connect" => o = 1)
    BY <1>2, ThreadFacts DEF Attempt, Op, NoOp
  <2>3. Readers' = {} /\ \A o, p \in Live("connect")' : o = p
    BY <2>2, InReaders, ReadersIn
  <2> QED
    BY <1>2, <2>1, <2>3, ReadersIn DEF Reading, OneReader, Connecting
<1>3. CASE /\ \A t \in Threads : pc[t] = "idle" /\ pc'[t] = "idle"
           /\ ~opened' /\ \A o \in Ops : ops'[o] = NoOp \/ ops'[o] = Op("accept", "kernel", << >>)
  <2>1. Coming' = {} /\ Heard'
    BY <1>3, InComing, ReadersIn DEF Heard
  <2>2. \A o \in Ops : ops'[o].type \notin {"read", "connect"}
    BY <1>3 DEF NoOp, Op
  <2>3. Readers' = {} /\ Pending' = {}
    BY <2>2, InReaders, ReadersIn
  <2> QED
    BY <2>1, <2>3 DEF Reading, OneReader, Connecting
<1>4. CASE /\ kind = "dgram" /\ \A o \in Ops : ops'[o] = NoOp
           /\ \A t \in Threads : pc'[t] \in (IF t = Maker THEN {"spawn_reader", "delete"} ELSE {"idle"})
  <2>1. Coming' \subseteq {Maker}
    BY <1>4, InComing, ReadersIn
  <2>2. Readers' = {} /\ Pending' = {}
    BY <1>4, InReaders, ReadersIn DEF NoOp
  <2>3. Heard'
    BY <1>4, CreateDoes DEF Heard
  <2> QED
    BY <2>1, <2>2, <2>3 DEF Reading, OneReader, Connecting
<1> QED
  BY <1>1, <1>2, <1>3, <1>4, CreateDoes

LEMMA DeleteReads ==
  ASSUME Base, Reading, Delete
  PROVE  Reading'
<1>1. /\ Rest(Maker) /\ pc[Maker] = "delete" /\ pc'[Maker] = "idle" /\ ops' = ops
      /\ Maker \in Threads /\ UNCHANGED <<kind, cancelled, opened>>
  BY DeleteDoes DEF Keeps
<1>2. Others(0) /\ 0 \notin Ops /\ 0 \notin Readers
  BY <1>1, ThreadFacts, ReadersIn DEF Others
<1> QED
  BY <1>1, <1>2, StepReads

LEMMA ReadingInit == Init => Reading
<1> SUFFICES ASSUME Init PROVE Reading
  OBVIOUS
<1>1. (\A o \in Ops : ops[o].type = "none") /\ (\A t \in Threads : pc[t] = "idle")
  BY DEF Init, NoOp
<1>2. Readers = {} /\ Pending = {} /\ Coming = {}
  BY <1>1 DEF Readers, Pending, Coming, Live
<1>3. ~opened
  BY DEF Init
<1> QED
  BY <1>2, <1>3 DEF Reading, OneReader, Connecting, Heard

\* The steps that neither begin nor end a read.
LEMMA RunReads ==
  ASSUME Base, Reading, NEW t \in Threads,
         Test(t) \/ Shut(t) \/ Drop(t) \/ End(t)
  PROVE  Reading'
<1>1. CASE Test(t)
  <2>1. /\ pc[t] = "test" /\ Rest(t) /\ ops' = ops /\ UNCHANGED <<kind, cancelled, opened>>
        /\ pc'[t] \in {"drop", "end", "shut"} /\ (~cancelled => pc'[t] = "shut")
    BY <1>1, TestDoes DEF Keeps
  <2>2. Others(0) /\ 0 \notin Ops
    BY <2>1, ThreadFacts DEF Others
  <2> QED
    BY <2>1, <2>2, StepReads
<1>2. CASE Shut(t)
  <2>1. /\ pc[t] = "shut" /\ Rest(t) /\ ops' = ops /\ UNCHANGED <<kind, opened>> /\ cancelled'
        /\ pc'[t] \in {"drop", "end"}
    BY <1>2, ShutDoes DEF Keeps
  <2>2. Others(0) /\ 0 \notin Ops
    BY <2>1, ThreadFacts DEF Others
  <2> QED
    BY <2>1, <2>2, StepReads
<1>3. CASE Drop(t)
  <2>1. PICK o \in Ops : o = mine[t]
    BY <1>3, DropDoes
  <2>2. /\ pc'[t] = "end" /\ Rest(t) /\ UNCHANGED <<kind, opened>> /\ cancelled' /\ cancelled
        /\ ops'[o] = NoOp /\ Others(o)
    BY <1>3, <2>1, DropDoes
  <2>3. o \notin Readers' /\ o \notin Pending' /\ ops'[o].type # "connect"
    BY <2>2, InReaders DEF NoOp
  <2> QED
    BY <2>2, <2>3, StepReads
<1>4. CASE End(t)
  <2>1. /\ pc[t] = "end" /\ pc'[t] = "idle" /\ Rest(t) /\ UNCHANGED <<kind, cancelled, opened>>
        /\ \/ ops' = ops
           \/ at[t] \in Ops /\ ops[at[t]].stage = "run" /\ ops'[at[t]] = NoOp /\ Others(at[t])
    BY <1>4, EndDoes
  <2>2. CASE ops' = ops
    <3>1. Others(0) /\ 0 \notin Ops /\ 0 \notin Readers
      BY <2>2, ThreadFacts, ReadersIn DEF Others
    <3> QED
      BY <2>1, <3>1, StepReads
  <2>3. CASE at[t] \in Ops /\ ops[at[t]].stage = "run" /\ ops'[at[t]] = NoOp /\ Others(at[t])
    <3>1. PICK o \in Ops : o = at[t]
      BY <2>3
    <3>2. ops[o].stage = "run" /\ ops'[o] = NoOp /\ Others(o)
      BY <2>3, <3>1
    <3>3. o \notin Readers /\ o \notin Readers' /\ o \notin Pending' /\ ops'[o].type # "connect"
      BY <3>2, InReaders DEF NoOp
    <3> QED
      BY <2>1, <3>2, <3>3, StepReads
  <2> QED
    BY <2>1, <2>2, <2>3
<1> QED
  BY <1>1, <1>2, <1>3, <1>4

LEMMA SpawnsRead ==
  ASSUME Base, Reading, NEW t \in Threads,
         SpawnAcceptor(t) \/ SpawnWriter(t) \/ StartWrite(t) \/ PostWrite(t) \/ Written(t)
  PROVE  Reading'
<1>1. ASSUME NEW o \in Ops, ops[o].type = "none", ops'[o].type \in {"accept", "write"}
      PROVE  o \notin Readers /\ o \notin Readers' /\ o \notin Pending' /\ ops'[o].type # "connect"
  BY <1>1, InReaders
<1>2. ASSUME ops' = ops, Rest(t), UNCHANGED <<kind, cancelled, opened>>,
             pc'[t] # "spawn_reader", pc[t] \notin {"test", "shut", "spawn_reader"}
      PROVE  Reading'
  <2>1. Others(0) /\ 0 \notin Ops /\ 0 \notin Readers
    BY <1>2, ThreadFacts, ReadersIn DEF Others
  <2> QED
    BY <1>2, <2>1, StepReads
<1>3. CASE SpawnAcceptor(t)
  <2>1. /\ pc[t] = "spawn_acceptor" /\ pc'[t] = "end" /\ Rest(t) /\ UNCHANGED <<kind, cancelled, opened>>
        /\ \/ ops' = ops
           \/ \E o \in Ops : ops[o].type = "none" /\ ops'[o].type = "accept" /\ Others(o)
    BY <1>3, SpawnAcceptorDoes DEF Keeps
  <2>2. CASE ops' = ops
    BY <1>2, <2>1, <2>2
  <2>3. CASE \E o \in Ops : ops[o].type = "none" /\ ops'[o].type = "accept" /\ Others(o)
    <3>1. PICK o \in Ops : ops[o].type = "none" /\ ops'[o].type = "accept" /\ Others(o)
      BY <2>3
    <3>2. o \notin Readers /\ o \notin Readers' /\ o \notin Pending' /\ ops'[o].type # "connect"
      BY <1>1, <3>1
    <3> QED
      BY <2>1, <3>1, <3>2, StepReads
  <2> QED
    BY <2>1, <2>2, <2>3
<1>4. CASE SpawnWriter(t)
  <2>1. /\ pc[t] = "spawn_writer" /\ pc'[t] \in {"end", "start"} /\ Rest(t) /\ UNCHANGED <<kind, cancelled, opened>>
        /\ \/ ops' = ops
           \/ \E o \in Ops : ops[o].type = "none" /\ ops'[o].type = "write" /\ Others(o)
    BY <1>4, SpawnWriterDoes
  <2>2. CASE ops' = ops
    BY <1>2, <2>1, <2>2
  <2>3. CASE \E o \in Ops : ops[o].type = "none" /\ ops'[o].type = "write" /\ Others(o)
    <3>1. PICK o \in Ops : ops[o].type = "none" /\ ops'[o].type = "write" /\ Others(o)
      BY <2>3
    <3>2. o \notin Readers /\ o \notin Readers' /\ o \notin Pending' /\ ops'[o].type # "connect"
      BY <1>1, <3>1
    <3> QED
      BY <2>1, <3>1, <3>2, StepReads
  <2> QED
    BY <2>1, <2>2, <2>3
<1>5. CASE StartWrite(t) \/ PostWrite(t)
  <2>1. /\ pc[t] = "start" /\ pc'[t] \in {"end", "test"} /\ Rest(t) /\ UNCHANGED <<kind, cancelled, opened>>
    BY <1>5, StartsDo
  <2>2. PICK o \in Ops : o = mine[t]
    BY <1>5, StartsDo
  <2>3. /\ ops[o].stage = "new"
        /\ \/ ops' = ops
           \/ /\ Others(o) /\ ops'[o].stage \in {"kernel", "message", "leaked"} /\ ops'[o].type = ops[o].type
    BY <1>5, <2>2, StartsDo
  <2>4. CASE ops' = ops
    BY <1>2, <2>1, <2>4
  <2>5. CASE Others(o) /\ ops'[o].stage \in {"kernel", "message", "leaked"} /\ ops'[o].type = ops[o].type
    <3>1. (o \in Readers' <=> o \in Readers) /\ (o \in Pending' <=> o \in Pending)
      BY <2>3, <2>5, InReaders
    <3> QED
      BY <2>1, <2>5, <3>1, StepReads
  <2> QED
    BY <2>3, <2>4, <2>5
<1>6. CASE Written(t)
  BY <1>2, <1>6, WrittenDoes DEF Keeps
<1> QED
  BY <1>3, <1>4, <1>5, <1>6

\* The thread of connectex.cc, the kernel, the application.
LEMMA OthersRead ==
  ASSUME Base, Reading,
         \/ \E o \in Ops : \/ BounceRead(o) \/ BounceWrite(o) \/ WatchNew(o) \/ WatchList(o) \/ Complete(o)
         \/ Outcome \/ Write \/ Cancel \/ UNCHANGED vars
  PROVE  Reading'
<1>0. Ex \in Threads /\ App \in Threads /\ 0 \notin Ops /\ 0 \notin Readers
  BY ThreadFacts, ReadersIn
<1>1. ASSUME NEW o \in Ops, NEW type \in {"read", "write"}, Bounced(o, type) PROVE Reading'
  <2>1. /\ Rest(Ex) /\ Others(o) /\ UNCHANGED <<kind, cancelled, opened>> /\ kind = "dgram"
        /\ pc'[Ex] \in {"idle", "test"} /\ ops[o].stage = "message" /\ ops[o].type = type
        /\ ops'[o].type = ops[o].type
    BY <1>1, BouncedDoes DEF Keeps
  <2>2. (o \in Readers' => o \in Readers) /\ (o \in Pending' => o \in Pending)
    BY <2>1, InReaders
  <2> QED
    BY <1>0, <2>1, <2>2, StepReads
<1>2. ASSUME NEW o \in Ops, UNCHANGED threads, UNCHANGED <<kind, cancelled, opened>>, Others(o),
             o \in Readers' <=> o \in Readers, ops'[o].type = "connect" => ops[o].type = "connect",
             o \in Pending' => o \in Pending
      PROVE  Reading'
  <2>1. Rest(Ex) /\ pc'[Ex] = pc[Ex]
    BY <1>0, <1>2, StillRest DEF Same
  <2>2. CASE pc[Ex] \notin {"test", "shut"}
    BY <1>0, <1>2, <2>1, <2>2, StepReads
  <2>3. CASE pc'[Ex] \in {"test", "shut"}
    BY <1>0, <1>2, <2>1, <2>3, StepReads
  <2> QED
    BY <2>1, <2>2, <2>3
<1>3. ASSUME NEW o \in Ops, WatchNew(o) \/ WatchList(o) PROVE Reading'
  <2>1. /\ UNCHANGED threads /\ UNCHANGED <<kind, cancelled, opened>> /\ Others(o)
        /\ ops[o].type = "connect" /\ ops[o].stage \in {"message", "list"}
        /\ ops'[o] = NoOp \/ ops'[o].type = "connect"
    BY <1>3, WatchesDo
  <2>2. o \notin Readers' /\ o \notin Readers /\ o \in Pending
    BY <2>1, InReaders DEF NoOp
  <2> QED
    BY <1>2, <2>1, <2>2
<1>4. ASSUME NEW o \in Ops, Complete(o) PROVE Reading'
  <2>1. /\ UNCHANGED threads /\ UNCHANGED <<kind, cancelled, opened>> /\ Others(o)
        /\ ops[o].stage = "kernel" /\ ops'[o].stage = "done" /\ ops'[o].type = ops[o].type
    BY <1>4, CompleteDoes
  <2>2. (o \in Readers' <=> o \in Readers) /\ (o \in Pending' => o \in Pending)
    BY <2>1, InReaders
  <2> QED
    BY <1>2, <2>1, <2>2
<1>5. CASE Outcome \/ UNCHANGED vars
  <2>1. UNCHANGED threads /\ UNCHANGED <<kind, cancelled, opened>> /\ ops' = ops
    BY <1>5 DEF Outcome, vars, conn
  <2>2. 1 \in Ops /\ Others(1) /\ (1 \in Readers' <=> 1 \in Readers) /\ (1 \in Pending' <=> 1 \in Pending)
    BY <2>1, ThreadFacts, InReaders DEF Others
  <2> QED
    BY <1>2, <2>1, <2>2
<1>6. CASE Write \/ Cancel
  <2>1. /\ Rest(App) /\ pc[App] = "idle" /\ ops' = ops /\ UNCHANGED <<kind, cancelled, opened>>
        /\ pc'[App] \in {"end", "spawn_writer", "test"}
    BY <1>6, CallsDo DEF Keeps
  <2>2. Others(0)
    BY <2>1 DEF Others
  <2> QED
    BY <1>0, <2>1, <2>2, StepReads
<1> QED
  BY <1>1, <1>3, <1>4, <1>5, <1>6 DEF BounceRead, BounceWrite

LEMMA ReadingStep ==
  ASSUME Base, Reading, [Next]_vars
  PROVE  Reading'
<1>1. ASSUME NEW t \in Threads, Run(t) PROVE Reading'
  BY <1>1, RunReads, SpawnsRead, SpawnReaderReads DEF Run
<1>2. ASSUME NEW o \in Ops, Serve(o) PROVE Reading'
  BY <1>2, TakesRead, OthersRead DEF Serve
<1> QED
  BY <1>1, <1>2, CreateReads, DeleteReads, OthersRead DEF Next

LEMMA ReadingAlways == Spec => [](Base /\ Reading)
<1>1. Init => Base /\ Reading
  BY BaseInit, ReadingInit
<1>2. Base /\ Reading /\ [Next]_vars => Base' /\ Reading'
  BY BaseStep, ReadingStep
<1> QED
  BY <1>1, <1>2, PTL DEF Spec

\* A reader that completes posts the next one in its handler (on_read,
\* nt/connection.cc:81-87), as the handler of the connection attempt posts the
\* first; the next one may complete in another worker before the handler that
\* posted it ends.  Still there is one at most, and an open stream that nobody
\* cancels has one, or a thread on its way to it: it goes on hearing its peer.
THEOREM OneReaderIsKept == Spec => []ReaderKept
<1>1. ASSUME Base, Reading PROVE ReaderKept
  <2> DEFINE P == Readers
             C == Coming
             n == Cardinality(P) + Cardinality(C)
  <2>1. /\ \A o, p \in P : o = p
        /\ \A t, u \in C : t = u
        /\ P = {} \/ C = {}
        /\ kind = "stream" /\ opened /\ ~cancelled /\ ~Ending => P # {} \/ C # {}
    BY <1>1 DEF Reading, OneReader, Heard
  <2> HIDE DEF P, C
  <2>2. Cardinality(P) \in {0, 1} /\ (P # {} => Cardinality(P) = 1)
    BY <2>1, AtMostOne
  <2>3. Cardinality(C) \in {0, 1} /\ (C # {} => Cardinality(C) = 1)
    BY <2>1, AtMostOne
  <2>4. (P = {} => Cardinality(P) = 0) /\ (C = {} => Cardinality(C) = 0)
    BY FS_EmptySet
  <2>5. n <= 1 /\ (kind = "stream" /\ opened /\ ~cancelled /\ ~Ending => n = 1)
    BY <2>1, <2>2, <2>3, <2>4
  <2> QED
    BY <2>5 DEF P, C, ReaderKept, Readers, Coming
<1> QED
  BY <1>1, ReadingAlways, PTL
=============================================================================
