---------------------------- MODULE WorkerAgent -----------------------------
(***************************************************************************)
(* The worker agent: registration and heartbeat, the claim loop, and one   *)
(* run_job task per claimed job, over the operating system's processes.    *)
(* All of an agent's coroutines share one event loop, so a step runs from  *)
(* one await to the next.                                                  *)
(*                                                                         *)
(* task[a][j] is where the run_job task of a for j stands:                 *)
(*   "none"       there is no task, or it has returned or raised           *)
(*   "starting"   created, Popen not yet called                            *)
(*   "confirming" awaiting the UPDATE to running                           *)
(*   "watching"   asleep in _monitor_job                                   *)
(*   "checking"   poll_exit gave None; awaiting check_status               *)
(*   "recording"  awaiting the UPDATE of _record_natural_exit              *)
(*   "killing"    in the grace period of _kill_for_limit                   *)
(*   "failing"    awaiting the UPDATE of _kill_for_limit                   *)
(*   "stopping"   in the grace period of _stop_process                     *)
(***************************************************************************)
EXTENDS Database

VARIABLES
    up,        \* agents that are running
    counted,   \* agents whose count_active_jobs was below the limit
    task,      \* task[a][j]: phase of the run_job task
    hand,      \* hand[a][j]: exit code or kill reason the task will write
    proc,      \* proc[a][j]: the job's process
    exited,    \* exited[a][j]: the code that process really exited with
    forked,    \* forked[a]: jobs whose process group has other live members
    overdue    \* jobs whose max_runtime has elapsed since started_at

taskVars  == <<task, hand>>
procVars  == <<proc, exited, forked>>
agentVars == <<up, counted, taskVars, procVars, overdue>>

Phases == {"none", "starting", "confirming", "watching", "checking",
           "recording", "killing", "failing", "stopping"}

\* "orphan": running, but its parent agent is gone; a "zombie" has exited and
\* has not been waited for, a "reaped" process has left the process table.
ProcStates == {"none", "running", "orphan", "zombie", "reaped"}

AgentTypeOK ==
    /\ up \in SUBSET Agents
    /\ counted \in SUBSET Agents
    /\ task \in [Agents -> [Jobs -> Phases]]
    /\ hand \in [Agents -> [Jobs -> ExitCodes \cup KillReason \cup {NULL}]]
    /\ proc \in [Agents -> [Jobs -> ProcStates]]
    /\ exited \in [Agents -> [Jobs -> ExitCodes \cup {NULL}]]
    /\ forked \in [Agents -> SUBSET Jobs]
    /\ overdue \in SUBSET Jobs

AgentInit ==
    /\ up = {}
    /\ counted = {}
    /\ task = [a \in Agents |-> [j \in Jobs |-> "none"]]
    /\ hand = [a \in Agents |-> [j \in Jobs |-> NULL]]
    /\ proc = [a \in Agents |-> [j \in Jobs |-> "none"]]
    /\ exited = [a \in Agents |-> [j \in Jobs |-> NULL]]
    /\ forked = [a \in Agents |-> {}]
    /\ overdue = {}

\* Mutant of ActiveTasks: finished tasks are not pruned.
AllTasks(a) == {j \in Jobs : task[a][j] # "none" \/ proc[a][j] # "none"}

\* ClaimService._active_tasks after the prune.
ActiveTasks(a) == {j \in Jobs : task[a][j] # "none"}

Goto(a, j, phase, value) ==
    /\ task' = [task EXCEPT ![a][j] = phase]
    /\ hand' = [hand EXCEPT ![a][j] = value]

-----------------------------------------------------------------------------
(* Start of the agent, under a new hostname or one whose row is there.     *)
Register(a) ==
    /\ a \notin up
    /\ worker_status[WorkerOf[a]] = "absent" \/ "restart" \in Faults
    /\ up' = up \cup {a}
    /\ UpsertWorker(WorkerOf[a])
    /\ UNCHANGED <<clockVars, jobRows, locked, counted, taskVars, procVars, overdue>>

Heartbeat(a) ==
    /\ a \in up
    /\ UpdateLastSeen(WorkerOf[a])
    /\ UNCHANGED <<clockVars, jobRows, locked, agentVars>>

(* The agent goes down, with its host or without it.  Its tasks are gone;  *)
(* its processes have their own session and survive it unless the host     *)
(* dies too.  An open claim is rolled back, or commits after all, before   *)
(* anybody else moves: a COMMIT under way when the agent dies is taken to  *)
(* be through before the agent is up again and counts.  (An agent that is  *)
(* shut down loses its tasks at an await as well, and does no more: the    *)
(* loops end in the finally of main.)                                      *)
Crash(a) ==
    /\ "crash" \in Faults
    /\ a \in up
    /\ up' = up \ {a}
    /\ counted' = counted \ {a}
    /\ task' = [task EXCEPT ![a] = [j \in Jobs |-> "none"]]
    /\ hand' = [hand EXCEPT ![a] = [j \in Jobs |-> NULL]]
    /\ \E survives \in {"orphan", "reaped"} :
          /\ proc' = [proc EXCEPT ![a] = [j \in Jobs |->
                 CASE proc[a][j] \in {"running", "orphan"} -> survives
                   [] proc[a][j] = "zombie" -> "reaped"
                   [] OTHER -> proc[a][j]]]
          /\ forked' = [forked EXCEPT ![a] = IF survives = "orphan" THEN @ ELSE {}]
    /\ \/ UNCHANGED jobRows
       \/ locked[a] # NULL /\ AssignTo(WorkerOf[a], locked[a])
    /\ locked' = [locked EXCEPT ![a] = NULL]
    /\ UNCHANGED <<clockVars, workerRows, exited, overdue>>

-----------------------------------------------------------------------------
ClaimIf(a, room) ==
    /\ a \in up
    /\ a \notin counted
    /\ locked[a] = NULL
    /\ room
    /\ counted' = counted \cup {a}
    /\ UNCHANGED <<dbVars, up, taskVars, procVars, overdue>>

TasksBelow(a, limit) == Cardinality(ActiveTasks(a)) < limit
RowsBelow(a, limit)  == Cardinality(ActiveJobs(WorkerOf[a])) < limit

\* Mutants of ClaimCount: only the tasks are counted; only the rows are; one
\* too many is let through.
ClaimCountTasksOnly(a) == ClaimIf(a, TasksBelow(a, Concurrency))
ClaimCountRowsOnly(a)  == ClaimIf(a, RowsBelow(a, Concurrency))
ClaimCountOffByOne(a)  ==
    ClaimIf(a, TasksBelow(a, Concurrency + 1) /\ RowsBelow(a, Concurrency + 1))

(* _try_claim, up to the answer of count_active_jobs.                      *)
ClaimCount(a) == ClaimIf(a, TasksBelow(a, Concurrency) /\ RowsBelow(a, Concurrency))

(* claim_job, first statement: a row is found and locked.                  *)
ClaimSelect(a, j) ==
    /\ a \in counted
    /\ Claimable(j)
    /\ locked' = [locked EXCEPT ![a] = j]
    /\ counted' = counted \ {a}
    /\ UNCHANGED <<clockVars, jobRows, workerRows, up, taskVars, procVars, overdue>>

(* No row is found, or an await raises: the loop sleeps.                   *)
ClaimNothing(a) ==
    /\ a \in counted
    /\ (\A j \in Jobs : ~Claimable(j)) \/ "db" \in Faults
    /\ counted' = counted \ {a}
    /\ UNCHANGED <<dbVars, up, taskVars, procVars, overdue>>

(* Second statement and COMMIT; the task is created if a row was updated.  *)
ClaimCommit(a) ==
    /\ locked[a] # NULL
    /\ AssignTo(WorkerOf[a], locked[a])
    /\ locked' = [locked EXCEPT ![a] = NULL]
    /\ IF status[locked[a]] = "ready"
         THEN Goto(a, locked[a], "starting", NULL)
         ELSE UNCHANGED taskVars
    /\ UNCHANGED <<clockVars, workerRows, up, counted, procVars, overdue>>

(* The transaction raises: rolled back, or committed with the answer lost. *)
ClaimFails(a) ==
    /\ "db" \in Faults
    /\ a \in up
    /\ locked[a] # NULL
    /\ UNCHANGED jobRows \/ AssignTo(WorkerOf[a], locked[a])
    /\ locked' = [locked EXCEPT ![a] = NULL]
    /\ UNCHANGED <<clockVars, workerRows, agentVars>>

-----------------------------------------------------------------------------
(* pm.start.  Popen first waits for every child whose Popen object was     *)
(* dropped earlier (CPython's subprocess._cleanup), so other jobs' zombies *)
(* are reaped here; and a child that ends at once is reaped by the         *)
(* destructor of its own Popen object.                                     *)
Reaped(a) == [k \in Jobs |-> IF proc[a][k] = "zombie" THEN "reaped" ELSE proc[a][k]]

Popen(a, j, state) == proc' = [proc EXCEPT ![a] = [Reaped(a) EXCEPT ![j] = state]]

\* What a process of j leaves behind by the time anybody looks at it.
MayFork(a, j) ==
    \E left \in SUBSET (ForkingJobs \cap {j}) : forked' = [forked EXCEPT ![a] = @ \cup left]

StartProcess(a, j) ==
    /\ task[a][j] = "starting"
    /\ \/ Popen(a, j, "running") /\ UNCHANGED <<exited, forked>>
       \/ /\ "instant" \in Faults
          /\ Popen(a, j, "reaped")
          /\ \E code \in ExitCodes : exited' = [exited EXCEPT ![a][j] = code]
          /\ MayFork(a, j)
    /\ Goto(a, j, "confirming", NULL)
    /\ UNCHANGED <<dbVars, up, counted, overdue>>

\* SIGKILL to the process of j, and to the others that are reached.  It works at
\* once and always: the code sleeps for a second after it and does not look
\* again, and a signal that may not be sent (PermissionError) is left out.
KillReaching(a, j, others) ==
    /\ proc' = [proc EXCEPT ![a][j] = IF @ = "running" THEN "zombie" ELSE @]
    /\ exited' = [exited EXCEPT ![a][j] = IF proc[a][j] = "running" THEN "nonzero" ELSE @]
    /\ forked' = [forked EXCEPT ![a] = @ \ others]

\* Mutant of Kill: os.kill instead of os.killpg.
KillLeaderOnly(a, j) == KillReaching(a, j, {})

\* kill_group with SIGKILL.  The group is looked up by the pid of the process,
\* alive or zombie; once that is reaped nothing is signalled.
Kill(a, j) == KillReaching(a, j, IF proc[a][j] \in {"running", "zombie"} THEN {j} ELSE {})

\* Mutant of ConfirmRunning: the blocked UPDATE is not acted on.
ConfirmRunningWithoutKill(a, j) ==
    /\ task[a][j] = "confirming"
    /\ UpdateStatus(j, "running")
    /\ Goto(a, j, IF status[j] \in Terminal THEN "none" ELSE "watching", NULL)
    /\ UNCHANGED <<depends_on, start_time, worker_id, exit_code, kill_reason>>
    /\ UNCHANGED <<clockVars, workerRows, locked, up, counted, procVars, overdue>>

(* The UPDATE to running; when the guard blocks it the process is killed.  *)
ConfirmRunning(a, j) ==
    /\ task[a][j] = "confirming"
    /\ UpdateStatus(j, "running")
    /\ \/ /\ status[j] \notin Terminal
          /\ Goto(a, j, "watching", NULL)
          /\ UNCHANGED procVars
       \/ /\ status[j] \in Terminal
          /\ Goto(a, j, "none", NULL)
          /\ Kill(a, j)
    /\ UNCHANGED <<depends_on, start_time, worker_id, exit_code, kill_reason>>
    /\ UNCHANGED <<clockVars, workerRows, locked, up, counted, overdue>>

(* poll_exit in _monitor_job: a zombie is waited for; a process that has   *)
(* left the process table counts as exited with 0.                         *)
PollExit(a, j) ==
    /\ task[a][j] = "watching"
    /\ \/ proc[a][j] = "running" /\ Goto(a, j, "checking", NULL) /\ UNCHANGED proc
       \/ /\ proc[a][j] = "zombie"
          /\ Goto(a, j, "recording", exited[a][j])
          /\ proc' = [proc EXCEPT ![a][j] = "reaped"]
       \/ proc[a][j] = "reaped" /\ Goto(a, j, "recording", "zero") /\ UNCHANGED proc
    /\ UNCHANGED <<dbVars, up, counted, exited, forked, overdue>>

\* get_rss_mb of a running process is any number, of any other it is 0.0.
MayExceedMemory(a, j) == j \in MemoryLimited /\ proc[a][j] = "running"

(* The answer of check_status and what the loop does with it, up to the    *)
(* next await.                                                             *)
CheckStatus(a, j) ==
    /\ task[a][j] = "checking"
    /\ \/ status[j] = "cancelled" /\ Goto(a, j, "stopping", NULL) /\ UNCHANGED procVars
       \/ status[j] = "lost" /\ Goto(a, j, "none", NULL) /\ Kill(a, j)
       \/ /\ status[j] \notin {"cancelled", "lost"}
          /\ j \in RuntimeLimited \cap overdue
          /\ Goto(a, j, "killing", "max_runtime_exceeded")
          /\ UNCHANGED procVars
       \/ /\ status[j] \notin {"cancelled", "lost"}
          /\ j \notin RuntimeLimited \cap overdue
          /\ MayExceedMemory(a, j)
          /\ Goto(a, j, "killing", "max_memory_exceeded")
          /\ UNCHANGED procVars
       \/ /\ status[j] \notin {"cancelled", "lost"}
          /\ j \notin RuntimeLimited \cap overdue
          /\ Goto(a, j, "watching", NULL)
          /\ UNCHANGED procVars
    /\ UNCHANGED <<dbVars, up, counted, overdue>>

RecordExit(a, j) ==
    /\ task[a][j] = "recording"
    /\ UpdateOutcome(j, IF hand[a][j] = "zero" THEN "completed" ELSE "failed", hand[a][j], NULL)
    /\ Goto(a, j, "none", NULL)
    /\ UNCHANGED <<clockVars, workerRows, locked, up, counted, procVars, overdue>>

\* Mutant of AfterGrace: _kill_for_limit returns without its UPDATE.
AfterGraceUnreported(a, j) ==
    /\ task[a][j] \in {"killing", "stopping"}
    /\ Goto(a, j, "none", NULL)

(* End of a grace period: the process has exited, or the deadline passes   *)
(* and it is killed.  _kill_for_limit goes on to its UPDATE, _stop_process *)
(* returns.                                                                *)
AfterGrace(a, j) ==
    \/ task[a][j] = "killing" /\ Goto(a, j, "failing", hand[a][j])
    \/ task[a][j] = "stopping" /\ Goto(a, j, "none", NULL)

GraceExit(a, j) ==
    /\ proc[a][j] \in {"zombie", "reaped"}
    /\ AfterGrace(a, j)
    /\ proc' = [proc EXCEPT ![a][j] = "reaped"]
    /\ UNCHANGED <<dbVars, up, counted, exited, forked, overdue>>

\* Mutant of GraceExpires: the SIGKILL at the deadline is missing.
GraceExpiresWithoutKill(a, j) ==
    /\ AfterGrace(a, j)
    /\ UNCHANGED <<dbVars, up, counted, procVars, overdue>>

GraceExpires(a, j) ==
    /\ AfterGrace(a, j)
    /\ Kill(a, j)
    /\ UNCHANGED <<dbVars, up, counted, overdue>>

\* Mutant of RecordKill: the kill reason is not passed on.
RecordKillWithoutReason(a, j) ==
    /\ task[a][j] = "failing"
    /\ UpdateOutcome(j, "failed", NULL, NULL)
    /\ Goto(a, j, "none", NULL)
    /\ UNCHANGED <<clockVars, workerRows, locked, up, counted, procVars, overdue>>

RecordKill(a, j) ==
    /\ task[a][j] = "failing"
    /\ UpdateOutcome(j, "failed", NULL, hand[a][j])
    /\ Goto(a, j, "none", NULL)
    /\ UNCHANGED <<clockVars, workerRows, locked, up, counted, procVars, overdue>>

-----------------------------------------------------------------------------
(* run_job raises, and nothing awaits its task: shlex raises, or Popen     *)
(* does after it has reaped, ...                                           *)
SpawnFails(a, j) ==
    /\ "spawn" \in Faults
    /\ task[a][j] = "starting"
    /\ Goto(a, j, "none", NULL)
    /\ proc' = [proc EXCEPT ![a] = Reaped(a)] \/ UNCHANGED proc
    /\ UNCHANGED <<dbVars, up, counted, exited, forked, overdue>>

(* ... or a statement raises before it has committed (a statement that     *)
(* commits and whose answer is lost is the next action).                   *)
TaskFails(a, j) ==
    /\ "db" \in Faults
    /\ task[a][j] \in {"confirming", "checking", "recording", "failing"}
    /\ Goto(a, j, "none", NULL)
    /\ UNCHANGED <<dbVars, up, counted, procVars, overdue>>

ConfirmAnswerLost(a, j) ==
    /\ "db" \in Faults
    /\ task[a][j] = "confirming"
    /\ UpdateStatus(j, "running")
    /\ Goto(a, j, "none", NULL)
    /\ UNCHANGED <<depends_on, start_time, worker_id, exit_code, kill_reason>>
    /\ UNCHANGED <<clockVars, workerRows, locked, up, counted, procVars, overdue>>

-----------------------------------------------------------------------------
(* The environment: a job's process exits, which leaves its descendants    *)
(* alone; it forks; they exit; its max_runtime elapses.                    *)
ProcessExits(a, j) ==
    /\ proc[a][j] \in {"running", "orphan"}
    /\ proc' = [proc EXCEPT ![a][j] = IF @ = "running" THEN "zombie" ELSE "reaped"]
    /\ \E code \in ExitCodes : exited' = [exited EXCEPT ![a][j] = code]
    /\ UNCHANGED <<dbVars, up, counted, taskVars, forked, overdue>>

ProcessForks(a, j) ==
    /\ j \in ForkingJobs \ forked[a]
    /\ proc[a][j] \in {"running", "orphan"}
    /\ forked' = [forked EXCEPT ![a] = @ \cup {j}]
    /\ UNCHANGED <<dbVars, up, counted, taskVars, proc, exited, overdue>>

DescendantsExit(a, j) ==
    /\ j \in forked[a]
    /\ forked' = [forked EXCEPT ![a] = @ \ {j}]
    /\ UNCHANGED <<dbVars, up, counted, taskVars, proc, exited, overdue>>

RuntimeElapses(j) ==
    /\ j \in RuntimeLimited \ overdue
    /\ \E a \in Agents : task[a][j] \in {"confirming", "watching", "checking"}
    /\ overdue' = overdue \cup {j}
    /\ UNCHANGED <<dbVars, up, counted, taskVars, procVars>>
=============================================================================
