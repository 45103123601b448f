------------------------------ MODULE Database ------------------------------
(***************************************************************************)
(* The PostgreSQL tables jobs and worker_status, through which everything  *)
(* in lightcron communicates: the scheduler and the worker agents share no *)
(* other state.  The statements both of them issue are operators here; one *)
(* transaction is one step, except the claim, whose row lock is visible    *)
(* between its SELECT ... FOR UPDATE and its COMMIT.                       *)
(*                                                                         *)
(* Time: now is the clock that start_time is compared with.  age[w] counts *)
(* the whole heartbeat intervals (30 s) since last_seen of w, and stays at *)
(* OfflineAge once there, beyond which the code draws no distinction.      *)
(***************************************************************************)
EXTENDS Integers, FiniteSets

CONSTANTS
    Jobs,           \* rows the jobs table may come to hold
    Workers,        \* hostnames, the keys of worker_status
    Agents,         \* processes of the worker agent
    WorkerOf,       \* WorkerOf[a]: the hostname a registers under
    Schedulers,     \* scheduler instances
    NULL,           \* the SQL NULL
    MaxTime,        \* bound on the clock
    Concurrency,    \* WORKER_CONCURRENCY
    RuntimeLimited, \* jobs submitted with a max_runtime
    MemoryLimited,  \* jobs submitted with a max_memory
    ForkingJobs,    \* jobs whose processes start processes of their own
    HealthPort,     \* WORKER_HEALTH_PORT, where an agent serves GET /health
    Faults          \* which failures happen: see FaultKinds

(***************************************************************************)
(* "crash":     an agent process or its host dies                          *)
(* "restart":   an agent starts under a hostname whose row is there, its   *)
(*              own from before it died, or another agent's                *)
(* "heartbeat": an UPDATE of last_seen fails or is late                    *)
(* "probe":     GET /health fails although the agent is alive              *)
(* "db":        any other statement raises, committed or not               *)
(* "spawn":     Popen or shlex raises                                      *)
(* "instant":   a child ends before Popen's own destructor runs            *)
(* "shutdown":  a scheduler instance is shut down and started again        *)
(***************************************************************************)
FaultKinds == {"crash", "restart", "heartbeat", "probe", "db", "spawn", "instant",
               "shutdown"}

ASSUME WorkerOfAssumption    == WorkerOf \in [Agents -> Workers]
ASSUME ConcurrencyAssumption == Concurrency \in Nat
ASSUME TimeAssumption        == MaxTime \in Nat
ASSUME FiniteJobsAssumption  == IsFiniteSet(Jobs)
ASSUME AgentsAssumption      == IsFiniteSet(Agents)
ASSUME FaultAssumption       == Faults \subseteq FaultKinds

VARIABLES
    now,
    status,       \* jobs.status, or "absent" while there is no such row
    depends_on,
    start_time,
    worker_id,
    exit_code,
    kill_reason,
    worker_status,
    age,
    locked        \* locked[a]: the row a's open claim transaction holds

clockVars  == <<now>>
jobRows    == <<status, depends_on, start_time, worker_id, exit_code, kill_reason>>
workerRows == <<worker_status, age>>
dbVars     == <<clockVars, jobRows, workerRows, locked>>

JobStatus  == {"pending", "ready", "assigned", "running",
               "completed", "failed", "cancelled", "lost"}
Terminal   == {"completed", "failed", "cancelled", "lost"}
Active     == {"assigned", "running"}
ExitCodes  == {"zero", "nonzero"}   \* a signal is a nonzero exit
KillReason == {"max_runtime_exceeded", "max_memory_exceeded"}

ASSUME NullAssumption == NULL \notin Jobs \cup Workers \cup ExitCodes \cup KillReason

\* WORKER_HEALTH_PROBE_THRESHOLD_SECONDS and WORKER_OFFLINE_THRESHOLD_SECONDS
\* in units of LAST_SEEN_UPDATE_INTERVAL_SECONDS.
ProbeAge   == 2
OfflineAge == 3

-----------------------------------------------------------------------------
Exists(j)     == status[j] # "absent"
ActiveJobs(w) == {j \in Jobs : worker_id[j] = w /\ status[j] \in Active}
Unlocked(j)   == \A a \in Agents : locked[a] # j

\* Mutant of Eligible: a dependency that ended in any way will do.
EligibleAfterAnyEnd(j) ==
    /\ status[j] = "pending"
    /\ start_time[j] <= now
    /\ \A d \in depends_on[j] : status[d] \in Terminal \cup {"absent"}

\* What the ready-transition UPDATE selects: no dependency has a row that is not
\* completed.
Eligible(j) ==
    /\ status[j] = "pending"
    /\ start_time[j] <= now
    /\ \A d \in depends_on[j] : status[d] \in {"completed", "absent"}

\* Mutant of UpdateStatus: without AND status NOT IN (terminal statuses).
UpdateStatusUnguarded(j, new) ==
    /\ Unlocked(j)
    /\ status' = [status EXCEPT ![j] = new]

\* The guarded UPDATE both update_status functions issue: it waits for a row
\* lock, and does nothing to a job that is already terminal.
UpdateStatus(j, new) ==
    /\ Unlocked(j)
    /\ status' = [status EXCEPT ![j] = IF @ \in Terminal THEN @ ELSE new]

\* The same UPDATE with an exit_code or a kill_reason among its columns.
UpdateOutcome(j, new, code, reason) ==
    /\ UpdateStatus(j, new)
    /\ exit_code' = [exit_code EXCEPT ![j] =
           IF status[j] \in Terminal \/ code = NULL THEN @ ELSE code]
    /\ kill_reason' = [kill_reason EXCEPT ![j] =
           IF status[j] \in Terminal \/ reason = NULL THEN @ ELSE reason]
    /\ UNCHANGED <<depends_on, start_time, worker_id>>

\* INSERT of a pending job.
InsertJob(j, start, deps) ==
    /\ status' = [status EXCEPT ![j] = "pending"]
    /\ start_time' = [start_time EXCEPT ![j] = start]
    /\ depends_on' = [depends_on EXCEPT ![j] = deps]
    /\ UNCHANGED <<worker_id, exit_code, kill_reason>>

\* The row SELECT ... ORDER BY start_time LIMIT 1 FOR UPDATE SKIP LOCKED may
\* return: an earliest one among the ready rows nobody has locked.
Claimable(j) ==
    LET open == {k \in Jobs : status[k] = "ready" /\ Unlocked(k)}
    IN  j \in open /\ \A k \in open : start_time[j] <= start_time[k]

\* Mutant of AssignTo: the SET clause leaves worker_id out.
AssignToNobody(w, j) ==
    /\ status' = [status EXCEPT ![j] = IF @ = "ready" THEN "assigned" ELSE @]
    /\ UNCHANGED <<worker_id, depends_on, start_time, exit_code, kill_reason>>

\* UPDATE ... SET status = 'assigned' WHERE status = 'ready'.
AssignTo(w, j) ==
    /\ status' = [status EXCEPT ![j] = IF @ = "ready" THEN "assigned" ELSE @]
    /\ worker_id' = [worker_id EXCEPT ![j] = IF status[j] = "ready" THEN w ELSE @]
    /\ UNCHANGED <<depends_on, start_time, exit_code, kill_reason>>

\* The INSERT ... ON CONFLICT of upsert_worker.
UpsertWorker(w) ==
    /\ worker_status' = [worker_status EXCEPT ![w] = "online"]
    /\ age' = [age EXCEPT ![w] = 0]

\* update_last_seen: the status column is not touched.
UpdateLastSeen(w) ==
    /\ age' = [age EXCEPT ![w] = 0]
    /\ UNCHANGED worker_status

\* GET /workers: the rows of worker_status, each with the running jobs that its
\* running_job_count counts.
Fleet          == {w \in Workers : worker_status[w] # "absent"}
RunningJobs(w) == {j \in Jobs : worker_id[j] = w /\ status[j] = "running"}

-----------------------------------------------------------------------------
DbTypeOK ==
    /\ now \in 0 .. MaxTime
    /\ status \in [Jobs -> JobStatus \cup {"absent"}]
    /\ depends_on \in [Jobs -> SUBSET Jobs]
    /\ start_time \in [Jobs -> 0 .. MaxTime]
    /\ worker_id \in [Jobs -> Workers \cup {NULL}]
    /\ exit_code \in [Jobs -> ExitCodes \cup {NULL}]
    /\ kill_reason \in [Jobs -> KillReason \cup {NULL}]
    /\ worker_status \in [Workers -> {"absent", "online", "offline"}]
    /\ age \in [Workers -> 0 .. OfflineAge]
    /\ locked \in [Agents -> Jobs \cup {NULL}]

DbInit ==
    /\ now = 0
    /\ status = [j \in Jobs |-> "absent"]
    /\ depends_on = [j \in Jobs |-> {}]
    /\ start_time = [j \in Jobs |-> 0]
    /\ worker_id = [j \in Jobs |-> NULL]
    /\ exit_code = [j \in Jobs |-> NULL]
    /\ kill_reason = [j \in Jobs |-> NULL]
    /\ worker_status = [w \in Workers |-> "absent"]
    /\ age = [w \in Workers |-> 0]
    /\ locked = [a \in Agents |-> NULL]
=============================================================================
