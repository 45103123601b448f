------------------------ MODULE LightcronProperties -------------------------
(***************************************************************************)
(* What is claimed of the composed system.                                 *)
(***************************************************************************)
EXTENDS Lightcron

\* The type invariant: every column and every variable of the coroutines
\* holds a value of its domain.
TypeOK == DbTypeOK /\ SchedulerTypeOK /\ AgentTypeOK

-----------------------------------------------------------------------------
(* Safety.                                                                 *)

\* a has, or has had, a task or a process for j; or it holds the row as well.
Runs(a, j)    == task[a][j] # "none" \/ proc[a][j] # "none"
Engaged(a, j) == locked[a] = j \/ Runs(a, j)

\* No job is ever in the hands of two agents, not even one after the other or
\* under one hostname: the claim of AsyncpgJobDB.claim_job has one winner, and
\* no crash, restart, cancellation or loss puts a job back where another agent
\* may claim it.
SingleExecutor ==
    \A j \in Jobs : \A a, b \in Agents : Engaged(a, j) /\ Engaged(b, j) => a = b

\* A run_job task agrees with its job's row: the row names the hostname of the
\* task's agent, and as long as nobody has cancelled or lost the job, its status
\* is the one the task last wrote.  So the only writer an agent's guarded UPDATE
\* can lose to is the scheduler.
TaskMatchesRow ==
    \A a \in Agents : \A j \in Jobs :
        task[a][j] # "none" =>
            /\ worker_id[j] = WorkerOf[a]
            /\ status[j] \in {"cancelled", "lost"} \cup
                   (IF task[a][j] \in {"starting", "confirming"}
                      THEN {"assigned"} ELSE {"running"})

\* A job that got past pending, other than by cancellation, had every one of
\* its dependencies completed, and they still are: the condition of the
\* ready-transition UPDATE survives everything that happens afterwards.
DependenciesHonoured ==
    \A j \in Jobs :
        status[j] \notin {"absent", "pending", "cancelled"} =>
            \A d \in depends_on[j] : status[d] = "completed"

\* No set of submitted jobs waits for itself: schedule_job accepts only
\* existing jobs as dependencies and nothing edits depends_on, so a dependency
\* cycle, which would leave its jobs pending for ever, cannot be built.
DependenciesAcyclic ==
    \A S \in SUBSET {j \in Jobs : Exists(j)} :
        S # {} => \E j \in S : depends_on[j] \cap S = {}

\* Where every agent has a hostname of its own, the jobs table never shows a
\* worker with more assigned and running jobs than WORKER_CONCURRENCY, although
\* _try_claim counts them in one transaction and claims in another, and whatever
\* crashes, restarts or loses its answer in between.
CapacityInDatabase ==
    \A w \in Workers : Cardinality(ActiveJobs(w)) <= Concurrency

\* The agents that go by a hostname, and those of them between count and claim.
AgentsOf(w) == {a \in Agents : WorkerOf[a] = w}
Claiming(w) == {a \in AgentsOf(w) : a \in counted \/ locked[a] # NULL}

\* Where several agents go by one hostname, each but one of them may put the
\* table over WORKER_CONCURRENCY by one job, and no more.
CapacityOfHost ==
    \A w \in Workers : ActiveJobs(w) # {} =>
        Cardinality(ActiveJobs(w)) < Concurrency + Cardinality(AgentsOf(w))

\* A live agent never has more than WORKER_CONCURRENCY child processes
\* running: a cancelled job leaves the count of the database at once, and its
\* process, in its grace period, is still counted among the agent's tasks.
CapacityInProcesses ==
    \A a \in Agents : Cardinality({j \in Jobs : proc[a][j] = "running"}) <= Concurrency

\* Unless a statement of its task has raised, a process that an agent has started
\* and that still runs has a run_job task watching it, so a cancellation, a
\* limit or a loss reaches it, whatever phase the task is in when it is written.
NoUnwatchedProcess ==
    \A a \in Agents : \A j \in Jobs :
        proc[a][j] = "running" => task[a][j] # "none"

\* The fleet listing counts every running job, for one of the workers it shows:
\* a job runs only under the name of a worker that has a row, and the two tables
\* are read in one statement.
FleetCountsEveryJob ==
    \A j \in Jobs : status[j] = "running" => \E w \in Fleet : j \in RunningJobs(w)

\* With one slot, what the row says of the exit is what a process did: a completed
\* job's process exited with 0, and a recorded exit code is a process's own.
ExitRecordedTruthfully ==
    \A j \in Jobs :
        /\ status[j] = "completed" => \E a \in Agents : exited[a][j] = "zero"
        /\ exit_code[j] # NULL => \E a \in Agents : exited[a][j] = exit_code[j]

\* No end of a job is invented: a completed or failed job's process has ended, one
\* that failed by itself did exit with a nonzero code, and one that is reported for
\* its max_runtime has run longer.  So an exit code that poll_exit has lost never
\* makes a failure of a success.  (A limit does: a process that exits with 0
\* after a poll has found it alive, and whose max_runtime elapses before the check
\* that follows, is reported as killed.  Samples of memory are not modelled, and
\* nothing is said of how much a job reported for its max_memory had used.)
RecordedEndsHappened ==
    \A j \in Jobs :
        /\ status[j] \in {"completed", "failed"} => \E a \in Agents : exited[a][j] # NULL
        /\ status[j] = "failed" /\ kill_reason[j] = NULL =>
              /\ exit_code[j] = "nonzero"
              /\ \E a \in Agents : exited[a][j] = "nonzero"
        /\ kill_reason[j] = "max_runtime_exceeded" => j \in RuntimeLimited \cap overdue

\* A killed job's row is written only after its process is gone: once a
\* max_runtime or max_memory violation is visible, no agent runs it any more.
\* (What the process has forked may: a process that ends in its grace period
\* ends the kill, and its group is not signalled again.)
KilledBeforeReported ==
    \A j \in Jobs : kill_reason[j] # NULL =>
        \A a \in Agents : proc[a][j] \notin {"running", "orphan"}

\* A job's process starts neither before its start_time nor before the processes
\* of all the jobs it depends on are gone: the dependencies are completed, and
\* the agent that completed one had waited for its process.
StartsInTurn ==
    \A a \in Agents : \A j \in Jobs :
        proc[a][j] # "none" =>
            /\ start_time[j] <= now
            /\ \A d \in depends_on[j] : \A b \in Agents : proc[b][d] \notin {"running", "orphan"}

\* An active job has a task, unless the agent that claimed it is down: where no
\* statement and no spawn raises and no agent comes back to its old row, nothing
\* that agents, users and schedulers do, in any order, leaves a live agent's job
\* without one.
ActiveJobsAreHeld ==
    \A j \in Jobs : status[j] \in Active =>
        \E a \in Agents : WorkerOf[a] = worker_id[j] /\ (task[a][j] # "none" \/ a \notin up)

-----------------------------------------------------------------------------
(* What the proofs add to these to make an inductive invariant.            *)

\* A task that is about to write has the right kind of value in hand, and a
\* process that can be waited for has an exit code.
HandOK ==
    \A a \in Agents : \A j \in Jobs :
        /\ task[a][j] = "recording" => hand[a][j] \in ExitCodes
        /\ task[a][j] \in {"killing", "failing"} => hand[a][j] \in KillReason
        /\ proc[a][j] = "zombie" => exited[a][j] \in ExitCodes

\* A row lock is held by one claim, and nothing moves the row meanwhile.
LockHeldOnce ==
    \A a \in Agents : \A j \in Jobs :
        locked[a] = j =>
            /\ status[j] = "ready"
            /\ \A b \in Agents : locked[b] = j => b = a

\* Agents that go by one hostname still do not run one job.
OneRunner ==
    \A j \in Jobs : \A a, b \in Agents : Runs(a, j) /\ Runs(b, j) => a = b

\* Only rows that exist are being cancelled.
CancellingExists == \A j \in cancelling : Exists(j)

\* Only an agent that goes by the name in a row can have a process for the job.
ProcessMatchesRow ==
    \A a \in Agents : \A j \in Jobs :
        proc[a][j] # "none" =>
            /\ worker_id[j] = WorkerOf[a]
            /\ status[j] \in Active \cup Terminal

\* Submitted jobs depend on submitted jobs.
DependenciesExist == \A j \in Jobs : Exists(j) => \A d \in depends_on[j] : Exists(d)

Inv == /\ TypeOK
       /\ HandOK
       /\ LockHeldOnce
       /\ OneRunner
       /\ CancellingExists
       /\ TaskMatchesRow
       /\ ProcessMatchesRow
       /\ DependenciesExist
       /\ DependenciesHonoured

\* A process follows its task: it exists from the confirmation on, is gone when
\* its end is being written, and runs without a task only after a statement of
\* the task has raised.
ProcessFollowsTask ==
    \A a \in Agents : \A j \in Jobs :
        /\ task[a][j] = "starting" => proc[a][j] = "none"
        /\ task[a][j] \in {"recording", "failing"} => proc[a][j] \in {"zombie", "reaped"}
        /\ task[a][j] \notin {"none", "starting"} => proc[a][j] \in {"running", "zombie", "reaped"}
        /\ "db" \notin Faults /\ proc[a][j] = "running" => task[a][j] # "none"

\* Only the processes of cancelled jobs are being stopped without a report.
StoppedWereCancelled ==
    \A a \in Agents : \A j \in Jobs : task[a][j] = "stopping" => status[j] = "cancelled"

\* What a task is about to write is so: the process it has waited for has exited,
\* with the code in its hand unless that is 0; the max_runtime has elapsed.
HandIsTrue ==
    \A a \in Agents : \A j \in Jobs :
        /\ task[a][j] \notin {"none", "starting"} /\ proc[a][j] = "reaped" => exited[a][j] # NULL
        /\ task[a][j] = "recording" /\ hand[a][j] = "nonzero" => exited[a][j] = "nonzero"
        /\ task[a][j] \in {"killing", "failing"} /\ hand[a][j] = "max_runtime_exceeded" =>
              j \in RuntimeLimited \cap overdue

\* RecordedEndsHappened, of processes that will not run again.
Gone(a, j) == proc[a][j] \in {"zombie", "reaped"} /\ exited[a][j] # NULL

EndsStay ==
    \A j \in Jobs :
        /\ status[j] \in {"completed", "failed"} => \E a \in Agents : Gone(a, j)
        /\ status[j] = "failed" /\ kill_reason[j] = NULL =>
              /\ exit_code[j] = "nonzero"
              /\ \E a \in Agents : Gone(a, j) /\ exited[a][j] = "nonzero"
        /\ kill_reason[j] = "max_runtime_exceeded" => j \in RuntimeLimited \cap overdue

\* A job that has ended by itself, or been stopped at a limit, has no process any
\* more, and a kill reason is there only in a failed row.
EndIsFinal ==
    \A j \in Jobs :
        /\ kill_reason[j] # NULL => status[j] = "failed"
        /\ status[j] \in {"completed", "failed"} =>
              \A a \in Agents : proc[a][j] \notin {"running", "orphan"}

\* A job that is ready, or has been claimed, was due, and its dependencies had
\* completed: also where it has been cancelled since.
ClaimedWhenDue ==
    \A j \in Jobs : status[j] = "ready" \/ worker_id[j] # NULL =>
        /\ start_time[j] <= now
        /\ \A d \in depends_on[j] : status[d] = "completed"

\* A row nobody has claimed names no worker.
UnclaimedByNobody ==
    \A j \in Jobs : status[j] \in {"absent", "pending", "ready"} => worker_id[j] = NULL

\* An agent that has counted, or holds a row, has room for one more task, and a
\* counted agent holds no row.
TaskRoom ==
    \A a \in Agents :
        /\ a \in counted => locked[a] = NULL
        /\ TasksBelow(a, Concurrency + 1)
        /\ a \in counted \/ locked[a] # NULL => TasksBelow(a, Concurrency)

\* The agents that go by one hostname count and claim for the same rows, each
\* at most one that the others have not counted.
HostRoom ==
    \A w \in Workers : AgentsOf(w) # {} =>
        Cardinality(ActiveJobs(w)) + Cardinality(Claiming(w)) < Concurrency + Cardinality(AgentsOf(w))

\* An agent that is up, or is claiming, has a row, and only workers with a row
\* are named in a job's; an active job names one.
FleetKnown ==
    /\ \A a \in Agents : a \in up \/ a \in counted \/ locked[a] # NULL => WorkerOf[a] \in Fleet
    /\ \A j \in Jobs : worker_id[j] # NULL => worker_id[j] \in Fleet
    /\ \A j \in Jobs : status[j] \in Active => worker_id[j] # NULL

\* Where nobody comes back, a worker whose probe has failed is down.
UnansweredAreDown ==
    \A s \in Schedulers, w \in Workers : unanswered[s] = w => ~Live(w)

-----------------------------------------------------------------------------
(* Refinement: the system implements the lifecycle of JobLifecycle.        *)
Lifecycle == INSTANCE JobLifecycle WITH
    outcome <- [j \in Jobs |-> [exit_code |-> exit_code[j], kill_reason |-> kill_reason[j]]]

\* Every step of schedulers, agents and failures is, seen from the jobs table,
\* one step of the job lifecycle or none: in particular a terminal row never
\* changes again, and the jobs of a worker given up are lost in one step.
LifecycleImplemented == Lifecycle!Spec

-----------------------------------------------------------------------------
(* Action properties.                                                      *)

\* "Worker with fresh last_seen is left completely alone": a worker is marked
\* offline only while its last_seen is stale.
FreshWorkerLeftAlone ==
    [][\A w \in Workers :
          worker_status[w] = "online" /\ worker_status'[w] = "offline" => age[w] >= ProbeAge]_vars

\* "Worker with stale last_seen but healthy /health endpoint stays online": where
\* GET /health is answered on the port that is probed, by every agent that is up,
\* and no agent comes back in the middle of a pass, a live worker that is taken
\* offline was on the list of those that are not probed.
ProbeKeepsLiveWorker ==
    [][\A w \in Workers :
          worker_status[w] = "online" /\ worker_status'[w] = "offline" /\ Live(w) =>
              \E s \in Schedulers : w \in stage2[s] \ stage2'[s]]_vars

\* A job's process is started at most once, by any agent: not again after it
\* has ended, been orphaned or been killed, whatever becomes of its row, and not
\* even one that ends before Popen returns.
StartedOnce ==
    [][\A a \in Agents, j \in Jobs :
          \/ proc'[a][j] = "running" /\ proc[a][j] # "running"
          \/ task[a][j] = "starting" /\ task'[a][j] = "confirming" =>
              \A b \in Agents : proc[b][j] = "none"]_vars

\* Nothing is written to a job's row after its end, whatever was under way when it
\* ended: neither its status nor any other of its columns.
EndedRowsStay ==
    [][\A j \in Jobs : status[j] \in Terminal =>
          /\ status'[j] = status[j] /\ worker_id'[j] = worker_id[j]
          /\ exit_code'[j] = exit_code[j] /\ kill_reason'[j] = kill_reason[j]
          /\ start_time'[j] = start_time[j] /\ depends_on'[j] = depends_on[j]]_vars

\* "This coroutine returns when the job reaches a terminal state": as long as
\* its agent lives and neither Popen nor a statement raises, a run_job task leaves
\* no active job behind.
TaskEndsWithItsJob ==
    [][\A a \in up \cap up', j \in Jobs :
          task[a][j] # "none" /\ task'[a][j] = "none" => status'[j] \in Terminal]_vars

\* With one slot, a job that was lost, or ended before it was confirmed, is killed
\* with all it has started: when its task returns at once, neither its process nor
\* what that forked is left.  It takes the process, alive or zombie, to find the
\* group, and awaits lie between seeing it alive and killing it.  (With two slots
\* another job's Popen may have reaped it by then.)
KillLeavesNothing ==
    [][\A a \in up \cap up', j \in Jobs :
          task[a][j] \in {"confirming", "checking"} /\ task'[a][j] = "none" =>
              proc'[a][j] # "running" /\ j \notin forked'[a]]_vars

-----------------------------------------------------------------------------
(* Liveness.                                                               *)

Settled(j) == status[j] \in Terminal

\* d is j or one of the jobs j waits for, directly or not: it is in every set
\* that contains j and the dependencies of its members.
Ancestor(d, j) ==
    \A S \in SUBSET Jobs :
        j \in S /\ (\A k \in S : depends_on[k] \subseteq S) => d \in S

\* As long as an agent is up, a submitted job ends, unless one of the jobs it waits
\* for ended without completing, which the code leaves pending by design.
EveryJobSettles ==
    \A j \in Jobs :
        Exists(j) /\ up # {} ~>
            \/ Settled(j)
            \/ up = {}
            \/ \E d \in Jobs : Ancestor(d, j) /\ status[d] \in Terminal \ {"completed"}

\* The process of a job that was cancelled, or lost with a worker that was only
\* late, stops: the agent sees it at one of its polls, whatever the task was doing
\* when it was written.  (Or the agent dies first: a process that survives its
\* agent is nobody's, here as in the code.)
WithdrawnProcessStops ==
    \A a \in Agents : \A j \in Jobs :
        status[j] \in {"cancelled", "lost"} /\ task[a][j] # "none" ~>
            proc[a][j] # "running" /\ task[a][j] = "none"

\* The jobs of a worker that is down are marked lost (or end otherwise), or an
\* agent of its name comes back.
DeadWorkersJobsAreLost ==
    \A w \in Workers : \A j \in Jobs :
        ~Live(w) /\ j \in ActiveJobs(w) ~> Settled(j) \/ Live(w)

\* So they are where the worker is still online when it goes down, however many
\* schedulers go over the workers at the same time.
WatchedWorkersJobsAreLost ==
    \A w \in Workers : \A j \in Jobs :
        worker_status[w] = "online" /\ ~Live(w) /\ j \in ActiveJobs(w) ~> Settled(j) \/ Live(w)

\* An active job that no task is running any more ends: "stuck jobs are
\* recovered", also when its worker has come back in the meantime.
StuckJobsAreRecovered ==
    \A w \in Workers : \A j \in Jobs :
        Live(w) /\ j \in ActiveJobs(w) /\ (\A a \in Agents : task[a][j] = "none") ~> Settled(j)
=============================================================================
