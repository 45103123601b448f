----------------------------- MODULE Scheduler ------------------------------
(***************************************************************************)
(* The scheduler process: the job endpoints of its REST API and the two    *)
(* background loops of DispatchService.  A step ends where the code awaits *)
(* the database or a worker; what a coroutine keeps across an await is     *)
(* state of this module.                                                   *)
(***************************************************************************)
EXTENDS Database

VARIABLES
    cancelling,  \* jobs a cancel request has read and not yet updated
    stage1,      \* stage1[s]: stale workers s has still to probe
    stage2,      \* stage2[s]: workers s will mark offline without a probe
    unanswered   \* unanswered[s]: the worker whose probe has just failed

healthVars    == <<stage1, stage2, unanswered>>
schedulerVars == <<cancelling, healthVars>>

SchedulerTypeOK ==
    /\ cancelling \in SUBSET Jobs
    /\ stage1 \in [Schedulers -> SUBSET Workers]
    /\ stage2 \in [Schedulers -> SUBSET Workers]
    /\ unanswered \in [Schedulers -> Workers \cup {NULL}]

SchedulerInit ==
    /\ cancelling = {}
    /\ stage1 = [s \in Schedulers |-> {}]
    /\ stage2 = [s \in Schedulers |-> {}]
    /\ unanswered = [s \in Schedulers |-> NULL]

-----------------------------------------------------------------------------
Submitted(j, start, deps) ==
    /\ ~Exists(j)
    /\ start > now
    /\ InsertJob(j, start, deps)
    /\ UNCHANGED <<clockVars, workerRows, locked, schedulerVars>>

\* Mutant of ScheduleJob: depends_on is not looked up.
ScheduleJobUnchecked(j, start, deps) == Submitted(j, start, deps)

(* POST /jobs.  exists_all and the INSERT are two statements; rows are     *)
(* never deleted, so what the first saw still holds at the second.         *)
ScheduleJob(j, start, deps) ==
    /\ \A d \in deps : Exists(d)
    /\ Submitted(j, start, deps)

(* POST /jobs/{id}/cancel: the read, which answers 404 or 409 ...          *)
CancelRead(j) ==
    /\ status[j] \in JobStatus \ Terminal
    /\ j \notin cancelling
    /\ cancelling' = cancelling \cup {j}
    /\ UNCHANGED <<dbVars, healthVars>>

(* ... and the guarded write.  It waits for a claim's row lock.            *)
CancelWrite(j) ==
    /\ j \in cancelling
    /\ UpdateStatus(j, "cancelled")
    /\ cancelling' = cancelling \ {j}
    /\ UNCHANGED <<depends_on, start_time, worker_id, exit_code, kill_reason>>
    /\ UNCHANGED <<clockVars, workerRows, locked, healthVars>>

(* The write raises without having committed: the request ends with 500.   *)
CancelFails(j) ==
    /\ "db" \in Faults
    /\ j \in cancelling
    /\ cancelling' = cancelling \ {j}
    /\ UNCHANGED <<dbVars, healthVars>>

(* One pass of the ready-transition loop: one UPDATE, serialised over the  *)
(* scheduler instances by the advisory lock.                               *)
ReadyTransition ==
    /\ status' = [j \in Jobs |-> IF Eligible(j) THEN "ready" ELSE status[j]]
    /\ UNCHANGED <<depends_on, start_time, worker_id, exit_code, kill_reason>>
    /\ UNCHANGED <<clockVars, workerRows, locked, schedulerVars>>

-----------------------------------------------------------------------------
(* One pass of the health-check loop, between two sleeps.                  *)
PassIdle(s) == stage1[s] = {} /\ stage2[s] = {} /\ unanswered[s] = NULL

\* list_stale: its query, and its split into the two stages.
Stale(w)     == worker_status[w] = "online" /\ age[w] >= ProbeAge
SkipProbe(w) == age[w] >= OfflineAge

(* The lists of both stages are made here and used after the awaits that   *)
(* follow.                                                                 *)
HealthSnapshot(s) ==
    /\ PassIdle(s)
    /\ stage1' = [stage1 EXCEPT ![s] = {w \in Workers : Stale(w) /\ ~SkipProbe(w)}]
    /\ stage2' = [stage2 EXCEPT ![s] = {w \in Workers : Stale(w) /\ SkipProbe(w)}]
    /\ UNCHANGED <<dbVars, cancelling, unanswered>>

\* Mutant of Probe: an answer does not keep the worker either.
ProbeUnheeded(s, w, alive) ==
    /\ w \in stage1[s]
    /\ unanswered[s] = NULL
    /\ stage1' = [stage1 EXCEPT ![s] = @ \ {w}]
    /\ unanswered' = [unanswered EXCEPT ![s] = w]
    /\ UNCHANGED <<dbVars, cancelling, stage2>>

(* Stage 1: GET /health on w is answered, or not.                          *)
Probe(s, w, alive) ==
    /\ w \in stage1[s]
    /\ unanswered[s] = NULL
    /\ stage1' = [stage1 EXCEPT ![s] = @ \ {w}]
    /\ unanswered' = [unanswered EXCEPT ![s] = IF alive THEN NULL ELSE w]
    /\ UNCHANGED <<dbVars, cancelling, stage2>>

\* The two UPDATEs of one transaction: w's row and some of the jobs it holds.
UpdateTogether(w, flag, held, mark) ==
    /\ worker_status' = [worker_status EXCEPT ![w] = IF @ = "online" THEN flag ELSE @]
    /\ status' = [j \in Jobs |-> IF j \in held THEN mark ELSE status[j]]
    /\ UNCHANGED <<depends_on, start_time, worker_id, exit_code, kill_reason, age>>

\* Mutants of MarkOffline: the jobs are queued again; assigned jobs are
\* forgotten; the literals of the two statements are mixed up.
MarkOfflineRequeues(w) == UpdateTogether(w, "offline", ActiveJobs(w), "ready")
MarkOfflineRunningOnly(w) ==
    UpdateTogether(w, "offline", {j \in ActiveJobs(w) : status[j] = "running"}, "lost")
MarkOfflineMixedUp(w)  == UpdateTogether(w, "lost", ActiveJobs(w), "offline")

(* The transaction of _mark_worker_offline_and_jobs_lost.                  *)
MarkOffline(w) == UpdateTogether(w, "offline", ActiveJobs(w), "lost")

MarkUnanswered(s) ==
    /\ unanswered[s] # NULL
    /\ MarkOffline(unanswered[s])
    /\ unanswered' = [unanswered EXCEPT ![s] = NULL]
    /\ UNCHANGED <<clockVars, locked, cancelling, stage1, stage2>>

(* Stage 2, after the last worker of stage 1.                              *)
MarkStage2(s, w) ==
    /\ stage1[s] = {}
    /\ unanswered[s] = NULL
    /\ w \in stage2[s]
    /\ MarkOffline(w)
    /\ stage2' = [stage2 EXCEPT ![s] = @ \ {w}]
    /\ UNCHANGED <<clockVars, locked, cancelling, stage1, unanswered>>

\* The rest of a pass is never done.
AbandonPass(s) ==
    /\ ~PassIdle(s)
    /\ stage1' = [stage1 EXCEPT ![s] = {}]
    /\ stage2' = [stage2 EXCEPT ![s] = {}]
    /\ unanswered' = [unanswered EXCEPT ![s] = NULL]
    /\ UNCHANGED <<dbVars, cancelling>>

(* A statement raises, and the loop logs it; ...                           *)
HealthPassFails(s) == "db" \in Faults /\ AbandonPass(s)

(* ... or the instance is shut down, which cancels its loops at their next *)
(* await, and started again.                                               *)
Shutdown(s) == "shutdown" \in Faults /\ AbandonPass(s)
=============================================================================
