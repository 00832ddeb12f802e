---------------------------- MODULE ActiveChecks ----------------------------
(***************************************************************************)
(* The active checks between two jobs: the epilog script and its client    *)
(* (healthagent/client.py), the server's handler that runs the checks one  *)
(* after the other (healthagent/healthagent.py, healthmodule.py) and the   *)
(* two checks of the gpu module, of which only the diagnostics wait for    *)
(* the scheduler's lock (see Scheduler for the lock itself).  The prolog   *)
(* runs the same checks before a job and is not told apart.                *)
(***************************************************************************)
EXTENDS Naturals, Sequences

CONSTANTS
    Slots,       \* places of the node's jobs, each with a client of its own
    Gpus         \* the GPUs of each slot: the gpu_id its script passes

(* Jobs that share the node hold GPUs of their own. *)
ASSUME ActiveAssumption ==
    \A s, t \in Slots : s # t => Gpus[s] \cap Gpus[t] = {}

VARIABLES
    job,      \* per slot: a job is "running", its "epilog" script is, or the
              \* script "released" or "drained" the node
    handler,  \* of the slot's request: "none", "memory" (the subprocess runs),
              \* "queued" (for the lock), "diag", "hung" or "answer"
    found,    \* what its checks found so far: "healthy" or "error"
    lock,     \* requests at _pool_lock, the holder first
    agent,    \* "up", "stopping" (after Scheduler.stop) or "down"
    unheard,  \* history: slots whose last epilog got no answer, or not all of it
    faulty    \* history: slots in whose GPUs the last tests found an error

vars == <<job, handler, found, lock, agent, unheard, faulty>>

Init ==
    /\ job = [s \in Slots |-> "running"]
    /\ handler = [s \in Slots |-> "none"]
    /\ found = [s \in Slots |-> "healthy"]
    /\ lock = <<>>
    /\ agent = "up"
    /\ unheard = {} /\ faulty = {}

-----------------------------------------------------------------------------
(* The epilog script without a response, or with one that shows no error,  *)
(* exits with 0; any other exit drains the node.                           *)
Exits(response) == IF response = "error" THEN "drained" ELSE "released"

(* The job ends and the script calls health -e; an agent that is stopping  *)
(* may have closed its server already.  The bound: a slot makes no new     *)
(* request while an old one is still being handled.                        *)
JobEnds(s) ==
    /\ job[s] = "running" /\ handler[s] = "none"
    /\ \/ /\ agent # "down"
          /\ job' = [job EXCEPT ![s] = "epilog"]
          /\ handler' = [handler EXCEPT ![s] = IF agent = "up" THEN "memory" ELSE "answer"]
          /\ found' = [found EXCEPT ![s] = "healthy"]
          /\ unheard' = unheard \ {s} /\ faulty' = faulty \ {s}
       \/ /\ agent # "up"
          /\ job' = [job EXCEPT ![s] = Exits("none")]
          /\ unheard' = unheard \cup {s}
          /\ UNCHANGED <<handler, found, faulty>>
    /\ UNCHANGED <<lock, agent>>

(* Variant: the last check alone decides. *)
OnlyLast(s, result) == [found EXCEPT ![s] = result]

(* The response shows what every check found: one error is enough. *)
Worse(s, result) == [found EXCEPT ![s] = IF @ = "error" THEN @ ELSE result]

(* A check returns its result; but after stop() the report of one that     *)
(* ends cannot be published, update_report raises, and execute leaves the  *)
(* check out of the response.                                              *)
TestEnds(s) ==
    \E result \in {"healthy", "error"} :
        /\ faulty' = IF result = "error" THEN faulty \cup {s} ELSE faulty
        /\ \/ found' = Worse(s, result) /\ UNCHANGED unheard
           \/ agent = "stopping" /\ unheard' = unheard \cup {s} /\ UNCHANGED found

(* Variant: the diagnostics are started and not waited for. *)
AfterMemoryNoWait(s) ==
    /\ lock' = Append(lock, s)
    /\ handler' = [handler EXCEPT ![s] = IF lock = <<>> THEN "diag" ELSE "queued"]
    /\ job' = [job EXCEPT ![s] = IF @ = "epilog" THEN Exits(found[s]) ELSE @]

(* run_diag is the next check.  After stop() its task is not created and   *)
(* awaiting None raises: execute leaves the check out of the response.     *)
AfterMemory(s) ==
    /\ IF agent = "up"
       THEN /\ lock' = Append(lock, s)
            /\ handler' = [handler EXCEPT ![s] = IF lock = <<>> THEN "diag" ELSE "queued"]
       ELSE /\ handler' = [handler EXCEPT ![s] = "answer"]
            /\ UNCHANGED lock
    /\ UNCHANGED job

(* memory_allocation_test ends; a test that could not run is a warning. *)
MemoryEnds(s) ==
    /\ handler[s] = "memory"
    /\ TestEnds(s)
    /\ AfterMemory(s)
    /\ UNCHANGED agent

(* Variant: the lock is not handed to a request that waits for it. *)
ReleaseLost(s) ==
    /\ lock' = Tail(lock)
    /\ handler' = [handler EXCEPT ![s] = "answer"]

(* Variant: the lock goes to the request that came last. *)
ReleaseToLast(s) ==
    /\ lock' = IF Len(lock) < 3 THEN Tail(lock)
               ELSE <<lock[Len(lock)]>> \o SubSeq(lock, 2, Len(lock) - 1)
    /\ handler' = [t \in Slots |->
           IF t = s THEN "answer"
           ELSE IF lock' # <<>> /\ t = Head(lock') THEN "diag" ELSE handler[t]]

(* The lock goes to the request that has waited longest. *)
Release(s) ==
    /\ lock' = Tail(lock)
    /\ handler' = [t \in Slots |->
           IF t = s THEN "answer"
           ELSE IF lock' # <<>> /\ t = Head(lock') THEN "diag" ELSE handler[t]]

(* The diagnostics return, or raise because their process died, which      *)
(* leaves the check out of the response.                                   *)
DiagEnds(s) ==
    /\ handler[s] = "diag"
    /\ TestEnds(s)
    /\ Release(s)
    /\ UNCHANGED <<job, agent>>

(* Nothing ends diagnostics that hang: they keep the lock while the        *)
(* process lives.                                                          *)
DiagHangs(s) ==
    /\ handler[s] = "diag"
    /\ handler' = [handler EXCEPT ![s] = "hung"]
    /\ UNCHANGED <<job, found, lock, agent, unheard, faulty>>

(* handle_client answers and closes; to a client that is gone the answer   *)
(* raises and is logged.                                                   *)
Respond(s) ==
    /\ handler[s] = "answer"
    /\ handler' = [handler EXCEPT ![s] = "none"]
    /\ job' = [job EXCEPT ![s] = IF @ = "epilog" THEN Exits(found[s]) ELSE @]
    /\ UNCHANGED <<found, lock, agent, unheard, faulty>>

(* The client gives up; nothing tells the server. *)
Timeout(s) ==
    /\ job[s] = "epilog"
    /\ job' = [job EXCEPT ![s] = Exits("none")]
    /\ unheard' = unheard \cup {s}
    /\ UNCHANGED <<handler, found, lock, agent, faulty>>

(* The workload manager gives a released slot to another job, an operator  *)
(* a drained one.                                                          *)
NextJob(s) ==
    /\ job[s] \in {"released", "drained"}
    /\ job' = [job EXCEPT ![s] = "running"]
    /\ UNCHANGED <<handler, found, lock, agent, unheard, faulty>>

-----------------------------------------------------------------------------
Stop ==
    /\ agent = "up"
    /\ agent' = "stopping"
    /\ UNCHANGED <<job, handler, found, lock, unheard, faulty>>

(* The process ends, orderly or not, and systemd kills the tests it left   *)
(* in the control group; clients that wait read an empty response.         *)
Exit ==
    /\ agent # "down"
    /\ agent' = "down"
    /\ lock' = <<>>
    /\ handler' = [s \in Slots |-> "none"]
    /\ job' = [s \in Slots |-> IF job[s] = "epilog" THEN Exits("none") ELSE job[s]]
    /\ unheard' = unheard \cup {s \in Slots : job[s] = "epilog"}
    /\ UNCHANGED <<found, faulty>>

Restart ==
    /\ agent = "down"
    /\ agent' = "up"
    /\ UNCHANGED <<job, handler, found, lock, unheard, faulty>>

Next ==
    \/ Stop \/ Exit \/ Restart
    \/ \E s \in Slots :
        \/ JobEnds(s) \/ MemoryEnds(s) \/ DiagEnds(s) \/ DiagHangs(s) \/ Respond(s)
        \/ Timeout(s) \/ NextJob(s)

Spec == Init /\ [][Next]_vars

Hanging == \E s \in Slots : handler[s] = "hung"

(* Tests that do not hang end before their client's timeout; the server    *)
(* has none.                                                               *)
FairSpec ==
    /\ Spec
    /\ \A s \in Slots :
          /\ WF_vars(MemoryEnds(s)) /\ WF_vars(DiagEnds(s)) /\ WF_vars(Respond(s))
          /\ WF_vars(Hanging /\ Timeout(s))

-----------------------------------------------------------------------------
TypeOK ==
    /\ job \in [Slots -> {"running", "epilog", "released", "drained"}]
    /\ handler \in [Slots -> {"none", "memory", "queued", "diag", "hung", "answer"}]
    /\ found \in [Slots -> {"healthy", "error"}]
    /\ lock \in Seq(Slots)
    /\ \A s \in Slots : handler[s] \in {"diag", "hung"} <=> lock # <<>> /\ Head(lock) = s
    /\ agent \in {"up", "stopping", "down"}
    /\ unheard \subseteq Slots /\ faulty \subseteq Slots

Testing(s) == handler[s] \in {"memory", "diag", "hung"}

(* No job runs on a GPU that is being tested: a slot gets its next job     *)
(* only when the tests of the last one's GPUs are over, wherever stops,    *)
(* deaths and restarts of the agent fall.  Only a client that reached its  *)
(* timeout leaves tests behind.                                            *)
JobsExclusive ==
    \A s, t \in Slots :
        Testing(s) /\ job[t] = "running" /\ s \notin unheard => Gpus[s] \cap Gpus[t] = {}

(* A slot whose epilog found an error is not released, whichever of the    *)
(* checks found it, if the agent answered in full and the client heard it. *)
ErrorDrains ==
    \A s \in faulty : job[s] = "released" => s \in unheard

(* The lock as this module has it, handed over in the step that releases   *)
(* it, and the scheduler's, which is free until the next holder runs, keep *)
(* one promise: first come, first served, until the process ends.          *)
Lock == INSTANCE FifoLock WITH
    Users <- Slots,
    line <- lock,
    using <- {s \in Slots : handler[s] \in {"diag", "hung"}}

ServedInOrder == Lock!SpecWithExit

(* Every epilog comes to an end, however many wait for the lock and        *)
(* whatever happens to the agent, and if diagnostics hang when its client  *)
(* gives up: then for every slot that waits behind them.                   *)
EveryEpilogEnds == \A s \in Slots : job[s] = "epilog" ~> job[s] # "epilog"
=============================================================================
