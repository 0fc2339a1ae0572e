------------------------------ MODULE Startup ------------------------------
(***************************************************************************)
(* The options (common/rascal_options.cc) and rascal_init of both ports    *)
(* (bsd/rascal_init.cc, nt/rascal_init.cc, nt/iocp.cc:27-72).  The option  *)
(* RO_THREAD_POLICY becomes read-only when it is set, which is how         *)
(* rascal_init knows that it ran before: then it returns REC_SUCCESS at    *)
(* once.  Nothing is locked, so that the test and the assignment in        *)
(* rascal_set_option are steps of their own.                               *)
(* External: what the calls of the system answer.                          *)
(***************************************************************************)
EXTENDS Integers, Sequences

CONSTANTS Callers,        \* threads that initialise the library
          Processors      \* bound: dwNumberOfProcessors

ASSUME StartAssumption == Processors \in Nat \ {0}

VARIABLES port,           \* "bsd" or "nt"
          policy,         \* the value of RO_THREAD_POLICY
          readonly,
          at,             \* per caller: where it is
          asked,          \* per caller: the policy it passed
          rc,             \* per caller: what rascal_init returned
          hPort,          \* the completion port exists
          running,        \* the workers that were started
          raced, failed   \* history: two callers passed the test; a part failed

startVars == <<port, policy, readonly, at, asked, rc, hPort, running, raced, failed>>

Policies == {"single", "multi", "manual"}

\* The parts of rascal_init, in their order.
Parts == IF port = "bsd" THEN <<"store", "dns", "threads", "end">>
         ELSE <<"store", "port", "threads", "watcher", "dns", "end">>

StartInit ==
  /\ port \in {"bsd", "nt"} /\ policy = "single" /\ readonly = FALSE
  /\ at = [c \in Callers |-> "idle"] /\ asked = [c \in Callers |-> "none"]
  /\ rc = [c \in Callers |-> "none"]
  /\ hPort = FALSE /\ running = 0 /\ raced = FALSE /\ failed = FALSE

Returns(c, code) == at' = [at EXCEPT ![c] = "idle"] /\ rc' = [rc EXCEPT ![c] = code]

\* A part is done; after the last one the caller is told so.
Passes(c, part) ==
  /\ at[c] = part
  /\ \E k \in 1 .. Len(Parts) - 1 :
       /\ Parts[k] = part
       /\ IF Parts[k + 1] = "end" THEN Returns(c, "REC_SUCCESS")
          ELSE at' = [at EXCEPT ![c] = Parts[k + 1]] /\ UNCHANGED rc

Fails(c, part) == at[c] = part /\ Returns(c, "error") /\ failed' = TRUE

\* rascal_init calls rascal_set_option, which looks at the flag ..
Claim(c, p) ==
  /\ at[c] = "idle" /\ rc[c] = "none"
  /\ IF readonly
     THEN Returns(c, "REC_SUCCESS") /\ UNCHANGED <<asked, raced>>
     ELSE /\ at' = [at EXCEPT ![c] = "store"] /\ asked' = [asked EXCEPT ![c] = p]
          /\ raced' = (raced \/ \E d \in Callers : at[d] = "store")
          /\ UNCHANGED rc
  /\ UNCHANGED <<port, policy, readonly, hPort, running, failed>>

\* .. and later sets it.
Store(c) ==
  /\ Passes(c, "store")
  /\ policy' = asked[c] /\ readonly' = TRUE
  /\ UNCHANGED <<port, asked, hPort, running, raced, failed>>

\* rascal_initres and the name servers, unless RIP_NO_DNS.
Dns(c) ==
  /\ \/ Passes(c, "dns") /\ UNCHANGED failed
     \/ Fails(c, "dns")
  /\ UNCHANGED <<port, policy, readonly, asked, hPort, running, raced>>

\* iocp::init makes the port.  If the system refuses, "return false" is
\* REC_SUCCESS for its caller: the workers are skipped, and nothing is said.
Port(c) ==
  /\ \/ Passes(c, "port") /\ ~hPort /\ hPort' = TRUE /\ UNCHANGED failed
     \/ Fails(c, "port") /\ UNCHANGED hPort
     \/ /\ at[c] = "port" /\ ~hPort /\ at' = [at EXCEPT ![c] = "watcher"]
        /\ failed' = TRUE /\ UNCHANGED <<rc, hPort>>
  /\ UNCHANGED <<port, policy, readonly, asked, running, raced>>

\* Faulty: the answer of pthread_create is not looked at.
ThreadsMute(c) ==
  /\ Passes(c, "threads")
  /\ running' \in {running, running + 1}
  /\ UNCHANGED <<port, policy, readonly, asked, hPort, raced, failed>>

\* The policy that counts: on NT the value of the option.
Wanted(c) == IF port = "bsd" THEN asked[c] ELSE policy
Most(c)   == IF port = "nt" /\ policy = "multi" THEN Processors ELSE 1

\* The workers, unless the application works itself: one, or on NT, where it
\* suffices that some can be started, one for each processor.
Threads(c) ==
  /\ \/ /\ Wanted(c) = "manual" /\ Passes(c, "threads") /\ UNCHANGED <<running, failed>>
     \/ /\ Wanted(c) # "manual" /\ Passes(c, "threads") /\ UNCHANGED failed
        /\ \E n \in 1 .. Most(c) : running' = running + n
     \/ /\ Wanted(c) # "manual" /\ Fails(c, "threads") /\ UNCHANGED running
  /\ UNCHANGED <<port, policy, readonly, asked, hPort, raced>>

\* connect_ex_init
Watcher(c) ==
  /\ \/ Passes(c, "watcher") /\ UNCHANGED failed
     \/ Fails(c, "watcher")
  /\ UNCHANGED <<port, policy, readonly, asked, hPort, running, raced>>

StartNext == \E c \in Callers : \/ \E p \in Policies : Claim(c, p)
                                \/ Store(c) \/ Dns(c) \/ Port(c) \/ Threads(c) \/ Watcher(c)

StartSpec == StartInit /\ [][StartNext]_startVars

----------------------------------------------------------------------------
\* The library is started once, and when nobody is in rascal_init any more a
\* caller that was told REC_SUCCESS has a library that works: a worker runs, or
\* the policy is that there is none.  Not after a part failed: the flag stays
\* set, and who tries again is told REC_SUCCESS.  Not if two threads passed the
\* test of the flag together.
StartedOnce ==
  /\ raced \/ running <= IF port = "nt" /\ policy = "multi" THEN Processors ELSE 1
  /\ (\A c \in Callers : at[c] = "idle") /\ (\E c \in Callers : rc[c] = "REC_SUCCESS") /\ ~failed
       => policy = "manual" \/ running > 0
=============================================================================
