# Lightcron in TLA+

Lightcron runs shell commands on a fleet of machines. Users submit jobs to a
*scheduler* (a FastAPI service); *worker agents* on other hosts pull jobs from
a PostgreSQL database, run them as child processes and record how they ended.
Scheduler and agents share nothing but the database: there is no broker, and
the only direct call between them is a `GET /health` probe.

This directory holds TLA+ models of that system, TLC configurations that check
them on small instances, and proofs, checked by TLAPS, for every instance. Paths
below are relative to the repository; the Python code is under
`src/lightcron/`.

## 1. Inventory

| Component | Code | State | Operations |
|---|---|---|---|
| Job database | `scheduler/adapters/db/`, `worker/adapters/db/`, `migrations/versions/001_initial_schema.py` | tables `jobs` and `worker_status`; row locks of open transactions | guarded status UPDATE, INSERT, claim (SELECT FOR UPDATE SKIP LOCKED, then UPDATE), upsert of a worker, update of `last_seen`, stale-worker query |
| Job service, job endpoints | `scheduler/domain/jobs/services/job_service.py`, `adapters/http/jobs_router.py` | none of its own; what a request has read before an await | schedule, get, list, cancel |
| Request validation | `adapters/http/schemas.py`, `JobService.schedule_job` | what a request has read before an await | schema, checks of command and start time, lookup of the dependencies, INSERT |
| Ready-transition loop | `DispatchService.run_ready_transition_loop` | none (advisory lock) | every 10 s, one UPDATE: pending to ready |
| Health-check loop | `DispatchService.run_health_check_loop`, `adapters/health/worker_health_client.py` | the two stage lists of one pass | every 30 s: snapshot, probes (60 s <= age < 90 s), marking (age >= 90 s, or probe failed) |
| Claim loop | `worker/.../claim_service.py` | the agent's set of tasks | every 5 s: prune, count, claim, create the task |
| Execution service | `worker/.../execution_service.py`, `adapters/process/subprocess_adapter.py` | one coroutine per job; the job's process | start, confirm, monitor every 5 s, cancel / limit kill with 30 s grace, record the end |
| Registration, heartbeat | `registration_service.py`, `worker/main.py` | `worker_id` of the agent | upsert by hostname; `last_seen` every 30 s |
| Health endpoint | `worker/adapters/http/health_api.py` | none | answers while the agent is up, on `WORKER_HEALTH_PORT` |
| Worker fleet listing | `worker_service.py`, `workers_router.py`, `worker_repo.py` | none | one query: the workers, each with its number of running jobs |
| Application wiring | `app.py`, `deps.py` | the two loop tasks of an instance | start the loops, cancel them at shutdown |
| Clock and id ports | `shared/ports/determinism/` | none | wrappers of the clock and of `uuid4` |
| Job submission form | `frontend/src/features/schedule-job/` | fields, client errors, the mutation's result | edit, validate, submit, show the answer or its errors |
| Dashboard | `frontend/src/widgets/`, `frontend/src/shared/api/`, `frontend/src/app/` | the chosen filter; the query cache and its requests in flight | polls the two listings every 10 s, filters the jobs |

A job goes through `pending -> ready -> assigned -> running -> completed | failed`;
`cancelled` and `lost` can interrupt it anywhere before its end (`lost` only once
it is assigned). The four last are terminal.

### How the parts interact, and what makes that hard

Everything of interest happens between transactions:

* **Agents against agents.** Several agents select the same ready row. The row
  lock of the claim, held from its SELECT to its COMMIT, and `SKIP LOCKED` decide.
* **Scheduler against agents.** A cancellation or a loss can be written between any
  two statements of `run_job`. The scheduler never talks to the agent about it; the
  `status NOT IN (terminal)` guard of every UPDATE and the agent's next
  `check_status` are all there is.
* **Count, then claim.** The number of active jobs is read in one transaction and a
  job claimed in a later one. Meanwhile jobs are cancelled, lost, or finished.
* **The agent against its own processes.** A process may exit between the poll,
  the status check and the write. `SubprocessAdapter.start` drops its `Popen`
  object, which hands the zombie to CPython's clean-up list: the next `Popen` of the
  agent reaps it, whoever was going to poll it. The process group of a job is found by
  the pid of its leader, and so only until that is reaped.
* **Two agents on one host.** An agent is known by its hostname alone. A second one there
  gets the same `worker_id`, beats for the first, and counts and claims for the same rows.
* **Snapshot, then mark.** A health-check pass takes its list of stale workers once
  and uses it after probes of up to five seconds each. Several scheduler instances do
  this at the same time (only the ready transition takes the advisory lock).
* **Crashes and restarts.** An agent dies with claims open, processes running (they
  have a session of their own and survive it) and tasks half-way; it comes back under
  its old `worker_id`, before or after anybody has noticed.
* **Lost answers.** Any statement may raise, having committed or not.
* **Browser against API.** The form checks the start time by its own clock, the service
  later by another, and stores the job later still. A connection breaks while the
  handler goes on; the user submits again, and two submissions are under way.
* **Dashboard against everything.** A listing is read in eight transactions; the filter is
  changed, the page left and the cache dropped while requests are in flight; requests fail.

What makes each component correct: *database* - one winner per row, terminal rows frozen; *ready
transition* - nothing starts before its dependencies have completed; *claim loop* - one
executor, never more than `WORKER_CONCURRENCY` jobs or processes; *execution service* - task and
row agree, no process is left unwatched, a killed process is gone before the row says so, the
recorded exit is the real one, a cancelled process stops; *health check* - dead workers' jobs
are lost, live workers are left alone; *listings* - no job is missed, none is uncounted;
*dashboard* - rows stay under their filter, refreshes never go back, and the end of a job comes
to be shown; *submission* - only valid jobs are stored, the answer agrees with the table, and
the page with the answer. `PROJECT.json` lists the hazards at the lines where they bite, with
the properties that cover each.

## 2. Modules

| Module | Models |
|---|---|
| `Database` | the two tables, row locks, and each statement as an operator |
| `Scheduler` | submit, cancel, ready transition, health-check pass |
| `WorkerAgent` | register, heartbeat, crash, claim, `run_job` and its process |
| `Lightcron` | the composition, time, fairness |
| `LightcronProperties` | all properties, the inductive invariant, the refinement |
| `JobLifecycle` | abstract: what is promised of a job, without any component |
| `LightcronProofs` | theorems about `Lightcron` |
| `LifecycleProofs` | theorem: `Lightcron` implements `JobLifecycle` |
| `ListJobs` | `GET /jobs`, eight queries, against any behaviour of `JobLifecycle` |
| `Dashboard` | the jobs panel in a browser: filter, refreshes, query cache, over `ListJobs` |
| `ExecutionProofs` | theorems about tasks, processes, their starts and their ends |
| `CapacityProofs` | theorems about the concurrency limit, of a hostname and of an agent |
| `OutcomeProofs` | theorems about recorded ends, about who holds active jobs, which live workers are kept, and the fleet listing |
| `ListJobsProofs` | theorem: a listing misses no job |
| `DashboardProofs` | theorems about the panel; `Dashboard` implements `ListJobs` |
| `JobSubmission` | the web form, the request, the schema, `schedule_job` up to the INSERT |
| `JobSubmissionProofs` | theorems about what is stored, answered and shown; `JobSubmission` implements `JobLifecycle` |
| `MCLightcron`, `MCDashboard`, `MCJobSubmission` | the constants of the TLC instances |

`Scheduler` and `WorkerAgent` both extend `Database` and name the same row variables;
`Lightcron` joins them. An action of one leaves the other's variables alone. `Workers` are
hostnames, the keys of `worker_status`; `Agents` are agent processes, and `WorkerOf` says under
which hostname each registers. `DashboardPage`'s fleet panel shows `Fleet` and `RunningJobs` of
`Database`, as late as its last refresh. A step of the model runs from one `await` to the next:
each coroutine's position between two awaits is a variable (`cancelling`, `stage1`, `stage2`,
`unanswered`, `counted`, `locked`, `task`).

| Variable | Code |
|---|---|
| `status`, `depends_on`, `start_time`, `worker_id`, `exit_code`, `kill_reason` | columns of `jobs` (`status = "absent"`: no such row) |
| `worker_status`, `age` | `worker_status.status`; whole 30 s intervals since `last_seen` |
| `locked[a]` | the row that `claim_job` of a has selected FOR UPDATE and not yet committed |
| `cancelling` | `cancel_job` has read the job and not yet written |
| `stage1[s]`, `stage2[s]`, `unanswered[s]` | local variables of `_run_health_check_once` |
| `up` | agents whose process runs |
| `counted` | `_try_claim` has had its two counts answered |
| `task[a][j]`, `hand[a][j]` | where `run_job` stands, and the exit code or kill reason it holds |
| `proc[a][j]`, `exited[a][j]` | the job's process, and the code it really exited with |
| `forked[a]` | the jobs of a whose process group has live members besides its leader |
| `overdue` | `max_runtime` has passed since `started_at` |

`JobSubmission` takes apart the step that `Scheduler!ScheduleJob` is for the other components.
Both implement `Submit` of `JobLifecycle`: `SubmissionsAreAtomic` maps a stored row to a pending
job with the dependencies of its content, and everything else a handler, a form or a clock does
to no step.

| Variable | Code |
|---|---|
| `fields[f]`, `errors[f]` | `fields` and `clientErrors` of `ScheduleJobForm`; an error is absent, cleared (`""`, which hides the server's) or a message |
| `last[f]`, `answer[f]` | the form's mutation: its last request, and `data` or `error`; pending while there is none |
| `touched[f]` | history: the fields edited since the last click |
| `body[r]`, `stage[r]`, `created_at[r]`, `reply[r]` | the handler of request r: its input, the statement it is at, its `now`, its answer |
| `jobs[id]` | the stored row, with the request it comes from |

`Dashboard` extends `ListJobs`, whose jobs behave in any way `JobLifecycle` allows:

| Variable | Code |
|---|---|
| `cursor`, `known`, `listed` | the loop of `list_jobs`: queries answered, jobs there at its start, rows so far |
| `filter` | `statusFilter` of `JobsPanel`, or `NULL` on the page without the panel |
| `fetching`, `answer[f]` | keys `["jobs", f]` with a request in flight, and what its query has read |
| `cached[f]` | `data` of that key in the query cache |

Definitions under a comment "Mutant of" are plausible bugs of the
definition that follows; they are no part of the specification. They show that each
property can fail.

### Abstractions

* One transaction is one step, except the claim, whose lock is visible from outside.
  A statement that raises is an action of its own, before or after its commit.
* `age` stops at 3 (90 s), beyond which the code makes no distinction. The thresholds
  60 s and 90 s are 2 and 3. A live agent beats in every interval unless the fault
  `"heartbeat"` is on.
* The clock `now` and start times are bounded by `MaxTime`; a job's start time is its
  only meeting with the clock, so 1 is enough for "not yet"
  and "due".
* Exit codes are `"zero"` and `"nonzero"` (signals included). Memory and runtime are
  sets of limited jobs. Samples of memory are not modelled: whether one exceeds the limit is a
  free choice, and no property is about it.
* SIGKILL works at once and always. The code sleeps for a second after it and does not look
  again, and `kill_group` lets a `PermissionError` through, which would end `run_job`; neither is
  modelled, so `KilledBeforeReported` relies on that second being enough.
* A claim that is open when its agent dies is rolled back, or commits, before the agent is up
  again: a COMMIT that reaches the database after the next count of its own agent is left out,
  and `CapacityInDatabase` says nothing of it.
* In `Scheduler`, `exists_all` and the INSERT are one step: rows are never deleted, so the
  answer of the first still holds at the second. `JobSubmission` separates them.
* In `JobSubmission`, `max_runtime` and `max_memory`, which form, schema, service and table
  treat alike, are one `limit` of four kinds: fine (or absent), not positive, fractional,
  wider than the column's 32 bits. A command is empty, blank or a text.
* `ForkingJobs` have processes that start others in their group. The SIGTERM that begins a
  grace period may end any of them or none (`ProcessExits`, `DescendantsExit`, which are
  always possible), so it is no action of its own.
* In `Dashboard`, TanStack Query is modelled from how `useJobs` and `main.tsx` configure it:
  one request per key at a time, the answer stored under the key it was asked for, old rows
  kept when a request and its one retry fail, unshown rows dropped some time later.
* `Faults` selects the failures of an instance: agent crash (with the host or without; a
  graceful shutdown of the agent does less than a crash, and is among its behaviours), restart
  (under its own hostname, or another agent's), failed heartbeat, failed probe, database error,
  failed spawn, a child that ends before `Popen` returns, shutdown of a scheduler instance in
  the middle of a pass. No fault is forced: with all of them enabled, all fault-free behaviours
  are still there.
* Bounds: `MaxTime` and the finite sets of the instances are the only ones. Each job
  can be submitted once per run.

## 3. What TLC checks

| Run | Instance | Result |
|---|---|---|
| `failures` | 1 job, 2 agents, every fault | 523 000 states. Types, `SingleExecutor`, `TaskMatchesRow`, `KilledBeforeReported`, `FleetCountsEveryJob`, `RecordedEndsHappened`, `StartedOnce`, and the refinement `LifecycleImplemented` |
| `capacity` | 2 jobs, one of which forks, 1 slot, crash, restart and failed heartbeats | 432 000 states. `CapacityInDatabase`, `CapacityInProcesses`, `NoUnwatchedProcess`, `DependenciesHonoured`, `DependenciesAcyclic`, `StartsInTurn`, `ExitRecordedTruthfully`, `TaskEndsWithItsJob`, `KillLeavesNothing` |
| `progress` | 2 limited jobs, 1 agent, crash and failed heartbeats, fair | 213 000 states. `ActiveJobsAreHeld`, `EveryJobSettles` |
| `recovery` | 1 limited job, 1 agent, 2 schedulers, crash and failed heartbeats, fair | 18 000 states. `ProbeKeepsLiveWorker`, `WithdrawnProcessStops`, `WatchedWorkersJobsAreLost` |
| `dashboard` | 1 job, filters `all` and `running`, fair | 310 000 states. `DashTypeOK`, `ListComplete`, `OnlyTheFilteredShown`, `NoJobVanishes`, `ShownNeverGoesBack`, `DashboardCatchesUp` |
| `job_submission` | 1 form, 2 requests, 2 ids, `MaxTime` 2, broken connections, failing statements | 878 000 states. `SubmitTypeOK`, `StoredJobsAreValid`, `RepliesAreTrue`, `OneJobPerRequest`, `SuccessIsTheForms`, `FailureIsShown`, and the refinement `SubmissionsAreAtomic` |

The other six runs look for a statement of the repository's documents that the code
contradicts, and find it:

| Run | The documents say | The code does |
|---|---|---|
| `fresh_worker` | a worker with a fresh `last_seen` is left alone | the stale list is used after awaits: a worker that re-registered during the pass is marked offline and its new jobs lost |
| `spawn_failure` | `run_job` returns when the job is terminal | if `Popen` raises, the task ends and the job stays assigned while its agent lives |
| `exit_code` | a job with a non-zero exit is marked failed | with two slots, the start of one job reaps the zombie of another, `poll_exit` answers 0 and the job is completed |
| `forgotten_worker` | dead workers' jobs are marked lost | a live worker once marked offline stays offline, goes on claiming, and its death is never seen |
| `quick_restart` | stuck jobs are recovered | an agent that restarts within the threshold leaves its former jobs active for ever |
| `shared_hostname` | `WORKER_CONCURRENCY` is the maximum of concurrent jobs per worker node | two agents on one host share its row, both count before either claims, and the host has more active jobs than the limit |

Where the cause is absent, these hold: `ExitRecordedTruthfully` (and `KillLeavesNothing`) with
one slot and no child that ends before `Popen` returns, `CapacityInDatabase` with a hostname per
agent, and `TaskEndsWithItsJob` without failing spawns and statements are checked by `capacity`.
`recovery` checks what is left of the other two. `WatchedWorkersJobsAreLost` is
`DeadWorkersJobsAreLost` for a worker that is still online when it dies. `FreshWorkerLeftAlone`
cannot hold as long as the lists of a pass outlive its awaits: one late heartbeat is enough. What
the documents promise of the probe does: `ProbeKeepsLiveWorker`, for a live worker that was late
enough to be suspected, by two schedulers at once, provided that it is not down during the pass
(`fresh_worker`) and not so late that it is not probed. That run sets `HealthPort` to 80.

Met while modelling, and in the models, without a run each:

* the scheduler probes `http://{hostname}`, port 80 (`dispatch_service.py:132`), while an agent
  serves `/health` on `WORKER_HEALTH_PORT`, 8001 unless configured otherwise (`worker/main.py:33`):
  by default no live worker answers. With `HealthPort = 8001`, `ProbeKeepsLiveWorker` fails at the
  first probe, although `worker-registration.feature:41` says "Scheduler can confirm worker is
  alive via worker REST health endpoint";
* a process that exits with 0 after `poll_exit` has found it alive (`execution_service.py:69`), and
  whose `max_runtime` elapses before the check that follows (line 87), is recorded as failed with
  `max_runtime_exceeded`, although `job-lifecycle-completion.feature:13` says "Job process exits with
  code 0 and is marked completed"; `RecordedEndsHappened` allows it;
* a listing can show one job several times, under each status it was caught in; the table of
  the dashboard then has several rows with one React key;
* a filter that was shown before comes up with its cached rows, up to five minutes old, until
  its refresh is answered; and "Failed to load jobs" stands beside the old rows, not instead;
* with two slots `KillLeavesNothing` fails for the same reason as `ExitRecordedTruthfully`:
  another job's start reaps the leader, and `kill_group` no longer finds the group of a job
  that was cancelled or lost before its confirmation;
* a process that ends in its grace period ends the kill: descendants that ignore the SIGTERM
  live on, although `process_manager.py` promises to reach forked children;
* `exists_all` promises "True if every job_id in the list exists"; it compares a count of
  rows with the length of the list, so a repeated dependency is refused as unknown;
* a limit of more than 32 bits passes the schema and the service and fails in the INSERT,
  with a 500;
* a dependency that is no UUID is reported at an index inside `depends_on`, which the form
  has no place for: nothing is shown (`FailureIsShown` excepts exactly this);
* the success of a submission stays on the page when the next one is stopped by the form's
  own checks: it stands beside their errors (`SuccessIsTheForms` excepts exactly this).

**Why the bounds are enough.** One job and two agents is the smallest instance with a race for a
row, and faults act on one agent and one job at a time. Two jobs on one slot is the smallest
with something left to wait for, with a dependency, and with a cycle of dependencies to be
prevented; longer chains are covered by the theorems. In `dashboard`, what the panel shows of
one job does not depend on the others, and `all` and one status are the smallest set of filters
with something to mix up; the theorems have any number of both. In `job_submission`, two
requests are a submission and the one after its connection broke, or the form's and another
client's; two ids a job and one that depends on it; three instants, a start that passes between
two checks. In `recovery`, two schedulers are the smallest number with passes that overlap; one job and
one agent are all that a pass is about. The symmetry sets are used only in runs whose properties are not liveness properties
and whose instances treat the members alike.

**Fairness** (`FairSpec`). Every loop sleeps a fixed time and runs again whatever its last
pass raised, so each loop's actions are weakly fair, as are the steps of a `run_job`
task and the passing of time. In `progress` and `recovery` agents crash but do not restart, so a
job may also stay unclaimed because nobody is up: that is the `up = {}` of `EveryJobSettles`.
Heartbeats may fail any number of times in a row, but not for ever. Nothing is assumed of users, of processes (a job
may run for ever, which is why `EveryJobSettles` gives each job a `max_runtime`), of crashes or of
restarts.

In `dashboard` (`FairDashSpec`) TanStack Query refetches at every interval while the panel is
mounted and its tab visible, so `Fetch` is weakly fair, as are the queries. A request may fail,
but not every request for the same rows for ever: `Receive` is strongly fair, and it has to be,
because a failure takes it away again. The user may change the filter at any moment;
`DashboardCatchesUp` promises something only while they stay.

## 4. What TLAPS proves

For all sets of jobs, workers and schedulers, any concurrency limit, any faults unless said
otherwise. Assumptions: the `ASSUME`s of `Database` (finiteness of `Jobs` and `Agents`, numbers are
naturals, every agent has a hostname, `NULL` is no job or worker), those of `JobSubmission` (the contents
are contents, a malformed id is no id, `NULL` is no value) and those of `Dashboard` (filters are
statuses, or `all`). `OwnHostnames`, a hypothesis of two theorems, is that no two agents go by one
hostname; `shared_hostname` shows that it is needed. "Without" in the table means that the
failure is not among `Faults`.

**The invariant** (`LightcronProofs`). `Inv` is inductive. Its conjuncts:

* `TypeOK`;
* `HandOK` - a task about to write has a proper exit code or reason in hand, and a
  zombie has an exit code; without it the types of the columns are not preserved;
* `LockHeldOnce` - a locked row is ready, and locked by one agent only;
* `OneRunner` - at most one agent has a task or process for a job, also among agents of one
  hostname, which the row cannot tell apart;
* `CancellingExists` - a row being cancelled exists, so that the guarded UPDATE cannot
  turn an absent row into a cancelled one;
* `TaskMatchesRow`, `ProcessMatchesRow` - a task or process of a for j implies that the row
  names the hostname of a and has been claimed;
* `DependenciesExist` - submitted jobs depend on submitted jobs, so that the `NOT EXISTS` of the
  ready transition, for which a dependency without a row is no obstacle, means completion;
* `DependenciesHonoured`.

`SingleExecutor` is not inductive alone: a second claim is excluded because a ready row has
no task or process anywhere, which the two `...MatchesRow` say, and a second lock because of
`LockHeldOnce`. The proof follows the code: one lemma per kind of step
(`RelatedScheduler`, `RelatedClaim`, `RelatedCrash`, `RelatedJobTask`, `RelatedMishap`),
with `TaskStep` as the common argument for everything a `run_job` task does. A by-product:
by `LockHeldOnce` the row of an open claim is still ready when it commits, so the branch of
`ClaimCommit` in which the UPDATE finds nothing is never taken.

**The other theorems** rest on `Inv`.

| Theorem | Says | Argument |
|---|---|---|
| `TypeCorrect`, `NoDoubleExecution`, `TasksAgreeWithRows`, `NoEarlyStart` | `TypeOK`, `SingleExecutor`, `TaskMatchesRow`, `DependenciesHonoured` | consequences of `Inv` |
| `Refinement` (`LifecycleProofs`) | the system implements `JobLifecycle` | each action is one abstract step or none; the guard of each UPDATE is what makes the blocked ones stutter |
| `ProcessesAreWatched` (`ExecutionProofs`) | `NoUnwatchedProcess`, without `"db"` faults | `ProcessFollowsTask`: what the process may be doing in each phase of the task |
| `ReportsFollowKills` | `KilledBeforeReported` | `EndIsFinal`: a completed or failed row has no process any more, a kill reason stands only in a failed row, and gone processes stay so |
| `ProcessStartsOnce` | `StartedOnce` | by `ProcessFollowsTask` a starting task has no process yet; by `OneRunner` nobody else has one, not even an orphan |
| `ProcessesStartInTurn` | `StartsInTurn` | `ClaimedWhenDue`: a claimed job was due and its dependencies had completed, also where it has been cancelled since; by `EndIsFinal` a completed dependency has no process |
| `EndedRowsAreFrozen` | `EndedRowsStay`: no column of a terminal row changes | the refinement for status and outcome; the other columns are written only where the status is |
| `TasksEndWithTheirJobs` | `TaskEndsWithItsJob`, without `"db"` and `"spawn"` faults | `StoppedWereCancelled`: only the processes of cancelled jobs are stopped without an UPDATE, and a terminal row stays terminal |
| `NoDependencyCycle` (`LifecycleProofs`) | `DependenciesAcyclic` | by the refinement only a submission writes `depends_on`, with jobs that exist, so by `DependenciesExist` no job there already depends on the new one, and the member of the rest of a set that waits for none of the rest waits for none of the set |
| `CapacityOfHosts` (`CapacityProofs`) | `CapacityOfHost`: a hostname of n agents has at most `Concurrency + n - 1` active jobs | `HostRoom`: of the agents of a hostname, those between count and claim are counted with its rows. A count that answers below the limit adds one to a sum that leaves room for it, since the agents that do not claim number at least one; a claim turns an agent of the sum into a row of it |
| `CapacityInTable` | `CapacityInDatabase`, with `OwnHostnames` | `CapacityOfHosts` for n = 1 |
| `CapacityOfAgents` | `CapacityInProcesses`, without `"db"` faults | `TaskRoom`: an agent between count and claim has room for one more task, because its tasks meanwhile only end; running processes have tasks |
| `FleetIsComplete` (`OutcomeProofs`) | `FleetCountsEveryJob` | `FleetKnown`: an agent that is up, counts or holds a row has a row of its own, rows of workers stay, and active jobs name a worker |
| `NoEndIsInvented` | `RecordedEndsHappened` | `HandIsTrue`: a task that reports has a process that has exited, a nonzero code in its hand is that process's, a `max_runtime` has elapsed; `EndsStay`: the row keeps what was written, and a process that has ended is not started again |
| `OnlyCrashesLoseTasks` | `ActiveJobsAreHeld`, without `"db"`, `"spawn"` and `"restart"` faults | a task ends with its job, a claim that commits has its task at once, and a crash takes down the agent the row names, whose hostname nobody else registers under while its row is there (`FleetKnown`) |
| `ProbesKeepLiveWorkers` | `ProbeKeepsLiveWorker`, without `"restart"` and `"probe"` faults, with `OwnHostnames` and `HealthPort = ProbePort` | `UnansweredAreDown`: whoever has not answered is down, and by `ProbedExist` has a row, so nobody comes up under its name before it is marked |
| `ListingIsComplete` (`ListJobsProofs`) | `ListComplete` | `StillAhead`: a job not yet seen has a status still to be queried, since statuses are queried in an order no job moves against |
| `DashboardLists` (`DashboardProofs`) | `DashSpec` implements `ListSpec` | a step of the page starts, ends or leaves alone the request for all jobs |
| `DashboardComplete` | `ListComplete` of the dashboard | from the two above |
| `DashTypeCorrect`, `FilterIsKept` | `DashTypeOK`, `OnlyTheFilteredShown` | `OneStatusRead`: an answer waiting for a status has rows of that status |
| `NoneVanishes`, `NoneGoesBack` | `NoJobVanishes`, `ShownNeverGoesBack` | `NeverAhead`: shown rows are no further than their jobs, and a request in flight knows every job shown and has read nothing behind what is shown, because there is one request at a time for a key |
| `SubmissionInvariance` (`JobSubmissionProofs`) | `SubmitInv` | `HandlersOK`: what a handler past its checks holds; `RowsMatchReplies`: a row's request has been answered with that id or with a 500 |
| `OnlyValidJobsAreStored`, `AnswersAgreeWithTable` | `StoredJobsAreValid`, `RepliesAreTrue` | the former also needs `CountedMeansStored`: the count of `exists_all` is reached only if every id is stored, whatever is repeated |
| `SubmitTypeCorrect` | `SubmitTypeOK` | a consequence of `SubmitInv` |
| `SuccessIsGenuine`, `FailuresAreShown` | `SuccessIsTheForms`, `FailureIsShown` | `FormsOK`: a form and its last request agree until the form is edited or its own checks stop it; `Carries`: what a request was sent with is what its handler holds and its row contains; `Kept`: a sent request keeps its reply |

| `RequestsStoreOnce` | `OneJobPerRequest` | by `RowsMatchReplies` a request whose row is there has been answered, and an answered request inserts nothing |
| `SubmissionRefinement` | `SubmissionsAreAtomic` | only `Insert` writes a row, where there was none, and by `HandlersOK` its dependencies, looked up in an earlier transaction, are still there |

So the safety properties of the passing runs are stated by theorems, but for two:
`ExitRecordedTruthfully` and `KillLeavesNothing` are model-checked only. They hold with one slot and
without children that end inside `Popen`, and a theorem under these hypotheses would exclude just
the reaping they are about. Model-checked only are the liveness properties too (`EveryJobSettles`,
`WithdrawnProcessStops`, `WatchedWorkersJobsAreLost`, `DashboardCatchesUp`): liveness under fairness
is out of the prover's reach.

Some theorems have hypotheses that the code does not enforce, and the runs show what happens
without them: `OwnHostnames` (`CapacityInTable`, `ProbesKeepLiveWorkers`; run `shared_hostname`), no
failing spawn (`TasksEndWithTheirJobs`, `OnlyCrashesLoseTasks`; `spawn_failure`), no worker that comes
back (`OnlyCrashesLoseTasks`, `ProbesKeepLiveWorkers`; `quick_restart`, `fresh_worker`). That probes
are answered, and on the port that is probed (`ProbesKeepLiveWorkers`), is up to the deployment. Where
no statement may raise (`"db"`), it is because a task that raises ends without a trace, as it does
when `Popen` raises. None of the theorems excludes crashes, late heartbeats, cancellations or losses.

## 5. Not modelled

* Process ids and their reuse: a job names its process.
* Which descendants survive a SIGTERM: all may or none, and no property is about those of a
  process that ends in its grace period.
* Connection pools and pgBouncer: a statement is answered or raises. Neither a full pool nor
  a late answer adds a behaviour to that.
* Jumps of an agent's wall clock, by which `max_runtime` is measured: `RuntimeElapses` may
  come at any time after the start, so an early one is a behaviour of the model; one that
  never comes is not.
* How late the fleet panel shows what `Fleet` and `RunningJobs` say: one query under one key without
  a filter, a special case of the jobs panel.
* The clock and id ports, the construction of the services, logging, layout.
* That a user submits once: `POST /jobs` is not idempotent, and whoever submits again after a
  lost answer has two jobs. `OneJobPerRequest` says that nothing else makes two.

## 6. Plan

1. Two scheduler instances in more runs than `recovery`, and two slots, where the state space
   allows (the theorems have any number of both).
2. Proofs: the composition of `ListJobs` with `Lightcron` in one module, its listings reading the
   rows themselves. What there is composes already: `ListJobs` stands over any behaviour of
   `JobLifecycle`, and `Refinement` says that `Lightcron` has no others.
3. Which of the theorems survive a restart, with hypotheses weaker than its absence: the agent's
   former jobs are the only ones concerned.
