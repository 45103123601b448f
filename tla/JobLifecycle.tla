---------------------------- MODULE JobLifecycle ----------------------------
(***************************************************************************)
(* What lightcron promises about a job, whoever runs it and whatever       *)
(* fails: a job waits for its dependencies, is claimed by one worker, ends *)
(* once, and nothing changes after its end.  No scheduler, agent, lock or  *)
(* process appears here; Lightcron implements this specification.          *)
(***************************************************************************)
CONSTANTS Jobs, Workers, NULL

VARIABLES
    status,      \* "absent" before the job is submitted
    depends_on,
    worker_id,
    outcome      \* [exit_code, kill_reason] of the job

vars == <<status, depends_on, worker_id, outcome>>

Terminal  == {"completed", "failed", "cancelled", "lost"}
NoOutcome == [exit_code |-> NULL, kill_reason |-> NULL]

Init ==
    /\ status = [j \in Jobs |-> "absent"]
    /\ depends_on = [j \in Jobs |-> {}]
    /\ worker_id = [j \in Jobs |-> NULL]
    /\ outcome = [j \in Jobs |-> NoOutcome]

Submit(j, deps) ==
    /\ status[j] = "absent"
    /\ \A d \in deps : status[d] # "absent"
    /\ status' = [status EXCEPT ![j] = "pending"]
    /\ depends_on' = [depends_on EXCEPT ![j] = deps]
    /\ UNCHANGED <<worker_id, outcome>>

\* Jobs whose dependencies have all completed become ready, together.
MakeReady(ready) ==
    /\ \A j \in ready :
          /\ status[j] = "pending"
          /\ \A d \in depends_on[j] : status[d] = "completed"
    /\ status' = [j \in Jobs |-> IF j \in ready THEN "ready" ELSE status[j]]
    /\ UNCHANGED <<depends_on, worker_id, outcome>>

Claim(w, j) ==
    /\ status[j] = "ready"
    /\ status' = [status EXCEPT ![j] = "assigned"]
    /\ worker_id' = [worker_id EXCEPT ![j] = w]
    /\ UNCHANGED <<depends_on, outcome>>

Start(j) ==
    /\ status[j] = "assigned"
    /\ status' = [status EXCEPT ![j] = "running"]
    /\ UNCHANGED <<depends_on, worker_id, outcome>>

\* A process is over: with exit code 0 it completed, else it failed.
Exit(j, code) ==
    /\ status[j] = "running"
    /\ status' = [status EXCEPT ![j] = IF code = "zero" THEN "completed" ELSE "failed"]
    /\ outcome' = [outcome EXCEPT ![j].exit_code = code]
    /\ UNCHANGED <<depends_on, worker_id>>

\* A job exceeded a limit and was stopped.
Exceed(j, reason) ==
    /\ status[j] = "running"
    /\ status' = [status EXCEPT ![j] = "failed"]
    /\ outcome' = [outcome EXCEPT ![j].kill_reason = reason]
    /\ UNCHANGED <<depends_on, worker_id>>

Cancel(j) ==
    /\ status[j] \notin Terminal \cup {"absent"}
    /\ status' = [status EXCEPT ![j] = "cancelled"]
    /\ UNCHANGED <<depends_on, worker_id, outcome>>

\* A worker is given up: everything it holds is lost, at once.
Lose(w) ==
    /\ status' = [j \in Jobs |->
          IF worker_id[j] = w /\ status[j] \in {"assigned", "running"}
            THEN "lost" ELSE status[j]]
    /\ UNCHANGED <<depends_on, worker_id, outcome>>

Next ==
    \/ \E j \in Jobs : \/ \E deps \in SUBSET Jobs : Submit(j, deps)
                       \/ Start(j)
                       \/ \E code \in {"zero", "nonzero"} : Exit(j, code)
                       \/ \E r \in {"max_runtime_exceeded", "max_memory_exceeded"} :
                             Exceed(j, r)
                       \/ Cancel(j)
    \/ \E ready \in SUBSET Jobs : MakeReady(ready)
    \/ \E w \in Workers : Lose(w) \/ \E j \in Jobs : Claim(w, j)

Spec == Init /\ [][Next]_vars
=============================================================================
