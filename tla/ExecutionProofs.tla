-------------------------- MODULE ExecutionProofs ---------------------------
(***************************************************************************)
(* Theorems about run_job tasks and the processes they watch, for every    *)
(* instance of Lightcron.  They rest on the invariant Inv and on the       *)
(* refinement, and add ProcessFollowsTask, EndIsFinal and ClaimedWhenDue.  *)
(***************************************************************************)
EXTENDS LifecycleProofs

-----------------------------------------------------------------------------
(* ProcessFollowsTask.                                                     *)

\* A process that nobody's task is touching stays as it is, or is reaped.
Elsewhere(a, j) ==
    \A b \in Agents : \A k \in Jobs :
        ~(b = a /\ k = j) =>
            proc'[b][k] = proc[b][k] \/ (proc[b][k] = "zombie" /\ proc'[b][k] = "reaped")

\* A step of the task of a for j to phase.
LEMMA FollowStep ==
  ASSUME TypeOK, ProcessFollowsTask,
         NEW a \in Agents, NEW j \in Jobs, NEW phase \in Phases,
         task' = [task EXCEPT ![a][j] = phase],
         Elsewhere(a, j),
         phase = "starting" => proc'[a][j] = "none",
         phase \in {"recording", "failing"} => proc'[a][j] \in {"zombie", "reaped"},
         phase \notin {"none", "starting"} => proc'[a][j] \in {"running", "zombie", "reaped"},
         "db" \notin Faults /\ phase = "none" => proc'[a][j] # "running"
  PROVE  ProcessFollowsTask'
<1> SUFFICES ASSUME NEW b \in Agents, NEW k \in Jobs
             PROVE  /\ task'[b][k] = "starting" => proc'[b][k] = "none"
                    /\ task'[b][k] \in {"recording", "failing"} => proc'[b][k] \in {"zombie", "reaped"}
                    /\ task'[b][k] \notin {"none", "starting"} =>
                          proc'[b][k] \in {"running", "zombie", "reaped"}
                    /\ "db" \notin Faults /\ proc'[b][k] = "running" => task'[b][k] # "none"
  BY DEF ProcessFollowsTask
<1>1. CASE b = a /\ k = j
  <2>1. task'[b][k] = phase
    BY <1>1 DEF TypeOK, AgentTypeOK
  <2> QED
    BY <1>1, <2>1
<1>2. CASE ~(b = a /\ k = j)
  <2>1. task'[b][k] = task[b][k]
    BY <1>2 DEF TypeOK, AgentTypeOK
  <2>2. proc'[b][k] = proc[b][k] \/ (proc[b][k] = "zombie" /\ proc'[b][k] = "reaped")
    BY <1>2 DEF Elsewhere
  <2> QED
    BY <2>1, <2>2 DEF ProcessFollowsTask
<1> QED
  BY <1>1, <1>2

LEMMA KillElsewhere ==
  ASSUME TypeOK, NEW a \in Agents, NEW j \in Jobs, Kill(a, j)
  PROVE  /\ Elsewhere(a, j)
         /\ proc'[a][j] = IF proc[a][j] = "running" THEN "zombie" ELSE proc[a][j]
  BY DEF Kill, KillReaching, Elsewhere, TypeOK, AgentTypeOK

\* Popen touches j, and reaps the zombies of its host.
LEMMA PopenElsewhere ==
  ASSUME TypeOK, NEW a \in Agents, NEW j \in Jobs, NEW state \in ProcStates, Popen(a, j, state)
  PROVE  Elsewhere(a, j) /\ proc'[a][j] = state
<1> DEFINE row == [Reaped(a) EXCEPT ![j] = state]
<1>1. \A k \in Jobs : row[k] = IF k = j THEN state
                               ELSE IF proc[a][k] = "zombie" THEN "reaped" ELSE proc[a][k]
  BY DEF Reaped
<1>2. proc' = [proc EXCEPT ![a] = row]
  BY DEF Popen
<1> HIDE DEF row
<1>3. \A b \in Agents : proc'[b] = IF b = a THEN row ELSE proc[b]
  BY <1>2 DEF TypeOK, AgentTypeOK
<1> QED
  BY <1>1, <1>3 DEF Elsewhere

LEMMA FollowJobTask ==
  ASSUME TypeOK, Related, ProcessFollowsTask, NEW a \in Agents, NEW j \in Jobs, JobTask(a, j)
  PROVE  ProcessFollowsTask'
<1> USE DEF taskVars, procVars
<1>0. {"none", "starting", "confirming", "watching", "checking",
       "recording", "killing", "failing", "stopping"} \subseteq Phases
  BY DEF Phases
<1>1. CASE StartProcess(a, j)
  <2>1. PICK state \in {"running", "reaped"} : Popen(a, j, state)
    BY <1>1 DEF StartProcess
  <2>2. Elsewhere(a, j) /\ proc'[a][j] \in {"running", "reaped"}
    BY <2>1, PopenElsewhere DEF ProcStates
  <2>3. PICK phase \in Phases : phase = "confirming" /\ task' = [task EXCEPT ![a][j] = phase]
    BY <1>0, <1>1 DEF StartProcess, Goto
  <2> QED
    BY <2>2, <2>3, FollowStep
<1>2. CASE ConfirmRunning(a, j)
  <2>1. proc[a][j] \in {"running", "zombie", "reaped"}
    BY <1>2 DEF ConfirmRunning, ProcessFollowsTask
  <2>2. CASE Goto(a, j, "watching", NULL) /\ UNCHANGED procVars
    <3>1. PICK phase \in Phases : phase = "watching" /\ task' = [task EXCEPT ![a][j] = phase]
      BY <1>0, <2>2 DEF Goto
    <3>2. Elsewhere(a, j) /\ proc'[a][j] = proc[a][j]
      BY <2>2 DEF Elsewhere
    <3> QED
      BY <2>1, <3>1, <3>2, FollowStep
  <2>3. CASE Goto(a, j, "none", NULL) /\ Kill(a, j)
    <3>1. PICK phase \in Phases : phase = "none" /\ task' = [task EXCEPT ![a][j] = phase]
      BY <1>0, <2>3 DEF Goto
    <3>2. Elsewhere(a, j) /\ proc'[a][j] \in {"zombie", "reaped"}
      BY <2>1, <2>3, KillElsewhere
    <3> QED
      BY <3>1, <3>2, FollowStep
  <2> QED
    BY <1>2, <2>2, <2>3 DEF ConfirmRunning
<1>3. CASE PollExit(a, j)
  <2>1. PICK phase \in Phases :
            /\ task' = [task EXCEPT ![a][j] = phase]
            /\ \/ phase = "checking" /\ proc[a][j] = "running" /\ UNCHANGED proc
               \/ phase = "recording" /\ proc' = [proc EXCEPT ![a][j] = "reaped"]
               \/ phase = "recording" /\ proc[a][j] = "reaped" /\ UNCHANGED proc
    BY <1>0, <1>3 DEF PollExit, Goto
  <2>2. /\ Elsewhere(a, j)
        /\ \/ phase = "checking" /\ proc'[a][j] = "running"
           \/ phase = "recording" /\ proc'[a][j] = "reaped"
    BY <2>1 DEF Elsewhere, TypeOK, AgentTypeOK
  <2> QED
    BY <2>1, <2>2, FollowStep
<1>4. CASE CheckStatus(a, j)
  <2>1. proc[a][j] \in {"running", "zombie", "reaped"}
    BY <1>4 DEF CheckStatus, ProcessFollowsTask
  <2>2. CASE Goto(a, j, "none", NULL) /\ Kill(a, j)
    <3>1. PICK phase \in Phases : phase = "none" /\ task' = [task EXCEPT ![a][j] = phase]
      BY <1>0, <2>2 DEF Goto
    <3>2. Elsewhere(a, j) /\ proc'[a][j] \in {"zombie", "reaped"}
      BY <2>1, <2>2, KillElsewhere
    <3> QED
      BY <3>1, <3>2, FollowStep
  <2>3. ASSUME UNCHANGED procVars,
               NEW phase \in {"stopping", "killing", "watching"},
               task' = [task EXCEPT ![a][j] = phase]
        PROVE  ProcessFollowsTask'
    <3>1. Elsewhere(a, j) /\ proc'[a][j] \in {"running", "zombie", "reaped"}
      BY <2>1, <2>3 DEF Elsewhere
    <3>2. phase \in Phases
      BY <1>0
    <3> QED
      BY <2>3, <3>1, <3>2, FollowStep
  <2> QED
    BY <1>4, <2>2, <2>3 DEF CheckStatus, Goto
<1>5. CASE RecordExit(a, j) \/ RecordKill(a, j)
  <2>1. PICK phase \in Phases : phase = "none" /\ task' = [task EXCEPT ![a][j] = phase]
    BY <1>0, <1>5 DEF RecordExit, RecordKill, Goto
  <2>2. Elsewhere(a, j) /\ proc'[a][j] \in {"zombie", "reaped"}
    BY <1>5 DEF RecordExit, RecordKill, ProcessFollowsTask, Elsewhere
  <2> QED
    BY <2>1, <2>2, FollowStep
<1>6. CASE GraceExit(a, j) \/ GraceExpires(a, j)
  <2>1. AfterGrace(a, j)
    BY <1>6 DEF GraceExit, GraceExpires
  <2>2. PICK phase \in Phases : phase \in {"failing", "none"} /\ task' = [task EXCEPT ![a][j] = phase]
    BY <1>0, <2>1 DEF AfterGrace, Goto
  <2>3. Elsewhere(a, j) /\ proc'[a][j] \in {"zombie", "reaped"}
    <3>1. CASE GraceExit(a, j)
      BY <3>1 DEF GraceExit, Elsewhere, TypeOK, AgentTypeOK
    <3>2. CASE GraceExpires(a, j)
      <4>1. proc[a][j] \in {"running", "zombie", "reaped"}
        BY <2>1 DEF AfterGrace, ProcessFollowsTask
      <4> QED
        BY <3>2, <4>1, KillElsewhere DEF GraceExpires
    <3> QED
      BY <1>6, <3>1, <3>2
  <2> QED
    BY <2>2, <2>3, FollowStep
<1> QED
  BY <1>1, <1>2, <1>3, <1>4, <1>5, <1>6 DEF JobTask

LEMMA FollowAgent ==
  ASSUME TypeOK, Related, ProcessFollowsTask, AgentNext
  PROVE  ProcessFollowsTask'
<1> USE DEF taskVars, procVars
<1>1. ASSUME UNCHANGED <<task, proc>>
      PROVE  ProcessFollowsTask'
  BY <1>1 DEF ProcessFollowsTask
<1>2. ASSUME NEW a \in Agents,
             \/ Register(a) \/ Heartbeat(a) \/ ClaimCount(a) \/ ClaimNothing(a) \/ ClaimFails(a)
             \/ \E j \in Jobs : ClaimSelect(a, j)
      PROVE  UNCHANGED <<task, proc>>
  BY <1>2 DEF Register, Heartbeat, ClaimCount, ClaimIf, ClaimNothing, ClaimFails, ClaimSelect, agentVars
<1>3. ASSUME NEW j \in Jobs,
             \/ RuntimeElapses(j)
             \/ \E a \in Agents : ProcessForks(a, j) \/ DescendantsExit(a, j)
      PROVE  UNCHANGED <<task, proc>>
  BY <1>3 DEF RuntimeElapses, ProcessForks, DescendantsExit
<1>4. ASSUME NEW a \in Agents, ClaimCommit(a)
      PROVE  ProcessFollowsTask'
  <2>1. PICK j \in Jobs : j = locked[a]
    BY <1>4 DEF ClaimCommit, TypeOK, DbTypeOK
  <2>2. status[j] = "ready"
    BY <2>1 DEF Related, LockHeldOnce
  <2>3. proc[a][j] = "none"
    BY <2>2 DEF Related, ProcessMatchesRow, Active, Terminal
  <2>4. PICK phase \in Phases : phase = "starting" /\ task' = [task EXCEPT ![a][j] = phase]
    BY <1>4, <2>1, <2>2 DEF ClaimCommit, Goto, Phases
  <2>5. Elsewhere(a, j) /\ proc'[a][j] = "none"
    BY <1>4, <2>3 DEF ClaimCommit, Elsewhere
  <2> QED
    BY <2>4, <2>5, FollowStep
<1>5. ASSUME NEW a \in Agents, Crash(a)
      PROVE  ProcessFollowsTask'
  <2>1. \A b \in Agents, j \in Jobs :
          /\ task'[b][j] = IF b = a THEN "none" ELSE task[b][j]
          /\ b # a => proc'[b][j] = proc[b][j]
    BY <1>5 DEF Crash, TypeOK, AgentTypeOK
  <2>2. \A j \in Jobs : proc'[a][j] # "running"
    <3>1. PICK survives \in {"orphan", "reaped"} :
             proc' = [proc EXCEPT ![a] = [j \in Jobs |->
                 CASE proc[a][j] \in {"running", "orphan"} -> survives
                   [] proc[a][j] = "zombie" -> "reaped"
                   [] OTHER -> proc[a][j]]]
      BY <1>5 DEF Crash
    <3> QED
      BY <3>1 DEF TypeOK, AgentTypeOK
  <2> QED
    BY <2>1, <2>2 DEF ProcessFollowsTask
<1>6. ASSUME NEW a \in Agents, NEW j \in Jobs, SpawnFails(a, j)
      PROVE  ProcessFollowsTask'
  <2>1. PICK phase \in Phases : phase = "none" /\ task' = [task EXCEPT ![a][j] = phase]
    BY <1>6 DEF SpawnFails, Goto, Phases
  <2>2. proc[a][j] = "none"
    BY <1>6 DEF SpawnFails, ProcessFollowsTask
  <2>3. Elsewhere(a, j) /\ proc'[a][j] = "none"
    <3>1. CASE UNCHANGED proc
      BY <2>2, <3>1 DEF Elsewhere
    <3>2. CASE proc' = [proc EXCEPT ![a] = Reaped(a)]
      BY <2>2, <3>2 DEF Elsewhere, Reaped, TypeOK, AgentTypeOK
    <3> QED
      BY <1>6, <3>1, <3>2 DEF SpawnFails
  <2> QED
    BY <2>1, <2>3, FollowStep
<1>7. ASSUME NEW a \in Agents, NEW j \in Jobs, TaskFails(a, j) \/ ConfirmAnswerLost(a, j)
      PROVE  ProcessFollowsTask'
  <2>1. PICK phase \in Phases : phase = "none" /\ task' = [task EXCEPT ![a][j] = phase]
    BY <1>7 DEF TaskFails, ConfirmAnswerLost, Goto, Phases
  <2>2. Elsewhere(a, j) /\ "db" \in Faults
    BY <1>7 DEF TaskFails, ConfirmAnswerLost, Elsewhere
  <2> QED
    BY <2>1, <2>2, FollowStep
<1>8. ASSUME NEW a \in Agents, NEW j \in Jobs, ProcessExits(a, j)
      PROVE  ProcessFollowsTask'
  <2>1. UNCHANGED task
    BY <1>8 DEF ProcessExits
  <2>2. proc' = [proc EXCEPT ![a][j] = IF proc[a][j] = "running" THEN "zombie" ELSE "reaped"]
    BY <1>8 DEF ProcessExits
  <2>3. proc[a][j] \in {"running", "orphan"}
    BY <1>8 DEF ProcessExits
  <2> QED
    BY <2>1, <2>2, <2>3 DEF ProcessFollowsTask, TypeOK, AgentTypeOK
<1> QED
  BY <1>1, <1>2, <1>3, <1>4, <1>5, <1>6, <1>7, <1>8, FollowJobTask DEF AgentNext

LEMMA FollowInvariant == Spec => []ProcessFollowsTask
<1>1. Init => ProcessFollowsTask
  BY DEF Init, AgentInit, ProcessFollowsTask
<1>2. Inv /\ ProcessFollowsTask /\ [Next]_vars => ProcessFollowsTask'
  <2> SUFFICES ASSUME Inv, ProcessFollowsTask, [Next]_vars
               PROVE  ProcessFollowsTask'
    OBVIOUS
  <2>1. CASE AgentNext
    BY <2>1, FollowAgent DEF Inv, Related
  <2>2. CASE UNCHANGED <<task, proc>>
    BY <2>2 DEF ProcessFollowsTask
  <2> QED
    BY <2>1, <2>2
       DEF Next, Tick, LastSeenAges, SchedulerNext, vars, agentVars, taskVars, procVars
<1> QED
  BY <1>1, <1>2, Invariance, PTL DEF Spec

\* As long as no database statement raises, every process that an agent has
\* started and that still runs is watched by a run_job task, whatever crashes,
\* restarts, cancellations and failed spawns there are.
THEOREM ProcessesAreWatched ==
  ASSUME "db" \notin Faults
  PROVE  Spec => []NoUnwatchedProcess
<1>1. ProcessFollowsTask => NoUnwatchedProcess
  BY DEF ProcessFollowsTask, NoUnwatchedProcess
<1> QED
  BY <1>1, FollowInvariant, PTL

-----------------------------------------------------------------------------
(* EndIsFinal.                                                             *)

\* A terminal row does not move, nor does the worker it names.
LEMMA TerminalStays ==
  ASSUME TypeOK, [Lifecycle!Next]_(Lifecycle!vars), NEW j \in Jobs, status[j] \in Terminal
  PROVE  status'[j] = status[j] /\ worker_id'[j] = worker_id[j]
<1> USE DEF TypeOK, DbTypeOK, Terminal
<1>1. CASE Lifecycle!Next
  BY <1>1 DEF Lifecycle!Next, Lifecycle!Submit, Lifecycle!MakeReady, Lifecycle!Claim,
              Lifecycle!Start, Lifecycle!Exit, Lifecycle!Exceed, Lifecycle!Cancel,
              Lifecycle!Lose, Lifecycle!Terminal
<1>2. CASE UNCHANGED Lifecycle!vars
  BY <1>2 DEF Lifecycle!vars
<1> QED
  BY <1>1, <1>2

\* No process of b for k comes to run, or is left by its agent, that did not run.
NoNewProcess(b, k) ==
    /\ proc'[b][k] = "running" => proc[b][k] = "running"
    /\ proc'[b][k] = "orphan" => proc[b][k] \in {"running", "orphan"}

\* Only a task at "starting" starts a process.
LEMMA OnlyStartStarts ==
  ASSUME TypeOK, [Next]_vars, NEW b \in Agents, NEW k \in Jobs, task[b][k] # "starting"
  PROVE  NoNewProcess(b, k)
<1> USE DEF taskVars, procVars, NoNewProcess
<1>1. ASSUME NEW a \in Agents, NEW j \in Jobs, StartProcess(a, j)
      PROVE  NoNewProcess(b, k)
  <2>1. PICK state \in {"running", "reaped"} : Popen(a, j, state)
    BY <1>1 DEF StartProcess
  <2>2. Elsewhere(a, j)
    BY <2>1, PopenElsewhere DEF ProcStates
  <2>3. ~(b = a /\ k = j)
    BY <1>1 DEF StartProcess
  <2> QED
    BY <2>2, <2>3 DEF Elsewhere
<1>2. ASSUME NEW a \in Agents, NEW j \in Jobs, Kill(a, j)
      PROVE  NoNewProcess(b, k)
  BY <1>2, KillElsewhere DEF Elsewhere
<1>3. ASSUME NEW a \in Agents, NEW j \in Jobs,
             \/ proc' = [proc EXCEPT ![a][j] = "reaped"]
             \/ proc' = [proc EXCEPT ![a] = Reaped(a)]
             \/ ProcessExits(a, j)
             \/ UNCHANGED proc
      PROVE  NoNewProcess(b, k)
  <2>1. CASE proc' = [proc EXCEPT ![a][j] = "reaped"]
    BY <2>1 DEF TypeOK, AgentTypeOK
  <2>2. CASE proc' = [proc EXCEPT ![a] = Reaped(a)]
    BY <2>2 DEF Reaped, TypeOK, AgentTypeOK
  <2>3. CASE ProcessExits(a, j)
    <3>1. /\ proc' = [proc EXCEPT ![a][j] = IF proc[a][j] = "running" THEN "zombie" ELSE "reaped"]
          /\ proc[a][j] \in {"running", "orphan"}
      BY <2>3 DEF ProcessExits
    <3> QED
      BY <3>1 DEF TypeOK, AgentTypeOK
  <2> QED
    BY <1>3, <2>1, <2>2, <2>3
<1>4. ASSUME NEW a \in Agents, Crash(a)
      PROVE  NoNewProcess(b, k)
  <2>1. PICK survives \in {"orphan", "reaped"} :
           proc' = [proc EXCEPT ![a] = [j \in Jobs |->
               CASE proc[a][j] \in {"running", "orphan"} -> survives
                 [] proc[a][j] = "zombie" -> "reaped"
                 [] OTHER -> proc[a][j]]]
    BY <1>4 DEF Crash
  <2> QED
    BY <2>1 DEF TypeOK, AgentTypeOK
<1>5. ASSUME NEW a \in Agents,
             \/ Register(a) \/ Heartbeat(a) \/ ClaimCount(a) \/ ClaimNothing(a) \/ ClaimFails(a)
             \/ ClaimCommit(a) \/ \E j \in Jobs : ClaimSelect(a, j)
      PROVE  UNCHANGED proc
  BY <1>5 DEF Register, Heartbeat, ClaimCount, ClaimIf, ClaimNothing, ClaimFails, ClaimSelect,
              ClaimCommit, agentVars
<1>6. ASSUME NEW j \in Jobs,
             \/ RuntimeElapses(j)
             \/ \E a \in Agents : ProcessForks(a, j) \/ DescendantsExit(a, j)
      PROVE  UNCHANGED proc
  BY <1>6 DEF RuntimeElapses, ProcessForks, DescendantsExit
<1>7. ASSUME NEW a \in Agents, NEW j \in Jobs,
             JobTask(a, j) \/ SpawnFails(a, j) \/ TaskFails(a, j) \/ ConfirmAnswerLost(a, j)
      PROVE  NoNewProcess(b, k)
  BY <1>1, <1>2, <1>3, <1>7
     DEF JobTask, ConfirmRunning, PollExit, CheckStatus, RecordExit, RecordKill, GraceExit,
         GraceExpires, SpawnFails, TaskFails, ConfirmAnswerLost
<1>8. ASSUME Tick \/ (\E w \in Workers : LastSeenAges(w)) \/ SchedulerNext \/ UNCHANGED vars
      PROVE  UNCHANGED proc
  BY <1>8 DEF Tick, LastSeenAges, SchedulerNext, vars, agentVars
<1> QED
  BY <1>4, <1>5, <1>6, <1>7, <1>8, <1>3 DEF Next, AgentNext

\* Only RecordExit and RecordKill end a job by itself or at a limit, and write an
\* exit code or a kill reason, and only into a row they end.
LEMMA OutcomeWritten ==
  ASSUME TypeOK, [Next]_vars, NEW j \in Jobs,
         \/ exit_code'[j] # exit_code[j] \/ kill_reason'[j] # kill_reason[j]
         \/ status'[j] \in {"completed", "failed"} /\ status'[j] # status[j]
  PROVE  /\ status[j] \notin Terminal
         /\ \E a \in Agents :
               \/ /\ RecordExit(a, j)
                  /\ status'[j] = IF hand[a][j] = "zero" THEN "completed" ELSE "failed"
                  /\ exit_code'[j] = IF hand[a][j] = NULL THEN exit_code[j] ELSE hand[a][j]
                  /\ kill_reason'[j] = kill_reason[j]
               \/ /\ RecordKill(a, j)
                  /\ status'[j] = "failed"
                  /\ exit_code'[j] = exit_code[j]
                  /\ kill_reason'[j] = IF hand[a][j] = NULL THEN kill_reason[j] ELSE hand[a][j]
<1> USE DEF jobRows
<1>1. ASSUME NEW k \in Jobs, NEW new \in JobStatus, NEW code, NEW reason, UpdateOutcome(k, new, code, reason)
      PROVE  /\ k = j /\ status[j] \notin Terminal
             /\ status'[j] = new
             /\ exit_code'[j] = IF code = NULL THEN exit_code[j] ELSE code
             /\ kill_reason'[j] = IF reason = NULL THEN kill_reason[j] ELSE reason
  BY <1>1 DEF UpdateOutcome, UpdateStatus, TypeOK, DbTypeOK
<1>2. ASSUME NEW a \in Agents, NEW k \in Jobs, RecordExit(a, k)
      PROVE  /\ k = j /\ status[j] \notin Terminal
             /\ status'[j] = IF hand[a][j] = "zero" THEN "completed" ELSE "failed"
             /\ exit_code'[j] = IF hand[a][j] = NULL THEN exit_code[j] ELSE hand[a][j]
             /\ kill_reason'[j] = kill_reason[j]
  BY <1>1, <1>2 DEF RecordExit, JobStatus
<1>3. ASSUME NEW a \in Agents, NEW k \in Jobs, RecordKill(a, k)
      PROVE  /\ k = j /\ status[j] \notin Terminal
             /\ status'[j] = "failed"
             /\ exit_code'[j] = exit_code[j]
             /\ kill_reason'[j] = IF hand[a][j] = NULL THEN kill_reason[j] ELSE hand[a][j]
  BY <1>1, <1>3 DEF RecordKill, JobStatus
<1>4. ASSUME NEW a, NEW k \in Jobs, ConfirmRunning(a, k) \/ ConfirmAnswerLost(a, k) \/ CancelWrite(k)
      PROVE  FALSE
  BY <1>4 DEF ConfirmRunning, ConfirmAnswerLost, CancelWrite, UpdateStatus, TypeOK, DbTypeOK
<1>5. ASSUME NEW w, NEW k, AssignTo(w, k)
      PROVE  FALSE
  BY <1>5 DEF AssignTo, TypeOK, DbTypeOK
<1>6. ASSUME NEW w \in Workers, MarkOffline(w)
      PROVE  FALSE
  BY <1>6 DEF MarkOffline, UpdateTogether, TypeOK, DbTypeOK
<1>7. ASSUME NEW k \in Jobs, NEW start, NEW deps, ScheduleJob(k, start, deps)
      PROVE  FALSE
  BY <1>7 DEF ScheduleJob, Submitted, InsertJob, TypeOK, DbTypeOK
<1>8. ASSUME ReadyTransition
      PROVE  FALSE
  BY <1>8 DEF ReadyTransition, TypeOK, DbTypeOK
<1>9. \E a \in Agents, k \in Jobs : RecordExit(a, k) \/ RecordKill(a, k)
  BY <1>4, <1>5, <1>6, <1>7, <1>8, RowMoves
<1> QED
  BY <1>2, <1>3, <1>9

LEMMA EndInvariant == Spec => []EndIsFinal
<1>1. Init => EndIsFinal
  BY DEF Init, DbInit, EndIsFinal
<1>2. Inv /\ ProcessFollowsTask /\ EndIsFinal /\ [Next]_vars => EndIsFinal'
  <2> SUFFICES ASSUME Inv, ProcessFollowsTask, EndIsFinal, [Next]_vars, NEW j \in Jobs
               PROVE  /\ kill_reason'[j] # NULL => status'[j] = "failed"
                      /\ status'[j] \in {"completed", "failed"} =>
                            \A a \in Agents : proc'[a][j] \notin {"running", "orphan"}
    BY DEF EndIsFinal
  <2>1. TypeOK /\ Related /\ [Lifecycle!Next]_(Lifecycle!vars)
    BY LifecycleStep DEF Inv, Related
  <2>2. ASSUME kill_reason'[j] # NULL
        PROVE  status'[j] = "failed"
    <3>1. CASE kill_reason'[j] # kill_reason[j]
      BY <2>1, <3>1, OutcomeWritten
    <3>2. CASE kill_reason'[j] = kill_reason[j]
      <4>1. status[j] = "failed"
        BY <2>2, <3>2 DEF EndIsFinal
      <4> QED
        BY <2>1, <4>1, TerminalStays DEF Terminal
    <3> QED
      BY <3>1, <3>2
  <2>3. ASSUME status'[j] \in {"completed", "failed"}, NEW a \in Agents
        PROVE  proc'[a][j] \notin {"running", "orphan"}
    <3>1. CASE status[j] \notin {"completed", "failed"}
      <4>1. PICK b \in Agents : RecordExit(b, j) \/ RecordKill(b, j)
        BY <2>1, <2>3, <3>1, OutcomeWritten
      <4>2. task[b][j] \in {"recording", "failing"} /\ UNCHANGED proc
        BY <4>1 DEF RecordExit, RecordKill, procVars
      <4> QED
        BY <2>1, <4>2 DEF Related, OneRunner, Runs, ProcessFollowsTask
    <3>2. CASE status[j] \in {"completed", "failed"}
      <4>1. proc[a][j] \notin {"running", "orphan"} /\ task[a][j] # "starting"
        BY <2>1, <3>2 DEF EndIsFinal, Related, TaskMatchesRow
      <4> QED
        BY <2>1, <4>1, OnlyStartStarts DEF NoNewProcess
    <3> QED
      BY <3>1, <3>2
  <2> QED
    BY <2>2, <2>3
<1> QED
  BY <1>1, <1>2, Invariance, FollowInvariant, PTL DEF Spec

\* Once a max_runtime or max_memory violation is visible, no agent runs the
\* job's process any more: the SIGKILL of the deadline precedes the report.
THEOREM ReportsFollowKills == Spec => []KilledBeforeReported
<1>1. EndIsFinal => KilledBeforeReported
  BY DEF EndIsFinal, KilledBeforeReported
<1> QED
  BY <1>1, EndInvariant, PTL

\* A job's process is started at most once, by whichever agent, and whatever
\* raises, crashes, restarts or is given up: a claim is never followed by
\* another one, and a task starts a process only while there has been none.
THEOREM ProcessStartsOnce == Spec => StartedOnce
<1>1. Inv /\ ProcessFollowsTask /\ [Next]_vars =>
        [\A a \in Agents, j \in Jobs :
            \/ proc'[a][j] = "running" /\ proc[a][j] # "running"
            \/ task[a][j] = "starting" /\ task'[a][j] = "confirming" =>
                \A b \in Agents : proc[b][j] = "none"]_vars
  <2> SUFFICES ASSUME Inv, ProcessFollowsTask, [Next]_vars, NEW a \in Agents, NEW j \in Jobs,
                      \/ proc'[a][j] = "running" /\ proc[a][j] # "running"
                      \/ task[a][j] = "starting" /\ task'[a][j] = "confirming",
                      NEW b \in Agents
               PROVE  proc[b][j] = "none"
    OBVIOUS
  <2>1. task[a][j] = "starting"
    BY OnlyStartStarts DEF Inv, NoNewProcess
  <2>2. proc[a][j] = "none"
    BY <2>1 DEF ProcessFollowsTask
  <2> QED
    BY <2>1, <2>2 DEF Inv, OneRunner, Runs
<1> QED
  BY <1>1, Invariance, FollowInvariant, PTL DEF Spec, StartedOnce

-----------------------------------------------------------------------------
(* ClaimedWhenDue.                                                         *)

\* Only a pass of the ready-transition loop makes a job ready.
LEMMA ReadyWritten ==
  ASSUME TypeOK, [Next]_vars, NEW j \in Jobs, status'[j] = "ready", status[j] # "ready"
  PROVE  Eligible(j) /\ UNCHANGED <<now, start_time, depends_on, worker_id>>
<1> USE DEF jobRows
<1>1. ASSUME NEW k \in Jobs, NEW new \in {"running", "cancelled", "completed", "failed"}, UpdateStatus(k, new)
      PROVE  FALSE
  BY <1>1 DEF UpdateStatus, TypeOK, DbTypeOK
<1>2. ASSUME NEW a, NEW k \in Jobs,
             \/ ConfirmRunning(a, k) \/ ConfirmAnswerLost(a, k) \/ CancelWrite(k)
             \/ RecordExit(a, k) \/ RecordKill(a, k)
      PROVE  FALSE
  BY <1>1, <1>2 DEF ConfirmRunning, ConfirmAnswerLost, CancelWrite, RecordExit, RecordKill, UpdateOutcome
<1>3. ASSUME NEW w, NEW k, AssignTo(w, k)
      PROVE  FALSE
  BY <1>3 DEF AssignTo, TypeOK, DbTypeOK
<1>4. ASSUME NEW w \in Workers, MarkOffline(w)
      PROVE  FALSE
  BY <1>4 DEF MarkOffline, UpdateTogether, TypeOK, DbTypeOK
<1>5. ASSUME NEW k \in Jobs, NEW start, NEW deps, ScheduleJob(k, start, deps)
      PROVE  FALSE
  BY <1>5 DEF ScheduleJob, Submitted, InsertJob, TypeOK, DbTypeOK
<1>6. ASSUME ~ReadyTransition
      PROVE  FALSE
  BY <1>2, <1>3, <1>4, <1>5, <1>6, RowMoves
<1> QED
  BY <1>6 DEF ReadyTransition, TypeOK, DbTypeOK, clockVars

\* start_time and depends_on are written by a submission only.
LEMMA SubmissionWritten ==
  ASSUME TypeOK, [Next]_vars, NEW j \in Jobs
  PROVE  \/ start_time'[j] = start_time[j] /\ depends_on'[j] = depends_on[j]
         \/ status[j] = "absent" /\ status'[j] = "pending" /\ UNCHANGED worker_id
<1> USE DEF jobRows
<1>1. ASSUME NEW k \in Jobs, NEW start, NEW deps, ScheduleJob(k, start, deps)
      PROVE  \/ start_time'[j] = start_time[j] /\ depends_on'[j] = depends_on[j]
             \/ status[j] = "absent" /\ status'[j] = "pending" /\ UNCHANGED worker_id
  BY <1>1 DEF ScheduleJob, Submitted, InsertJob, Exists, TypeOK, DbTypeOK
<1>2. ASSUME NEW w, NEW k, AssignTo(w, k) \/ MarkOffline(w) \/ CancelWrite(k) \/ ReadyTransition
      PROVE  UNCHANGED <<start_time, depends_on>>
  BY <1>2 DEF AssignTo, MarkOffline, UpdateTogether, CancelWrite, ReadyTransition
<1>3. ASSUME NEW a \in Agents, NEW k \in Jobs,
             \/ ConfirmRunning(a, k) \/ ConfirmAnswerLost(a, k) \/ RecordExit(a, k) \/ RecordKill(a, k)
      PROVE  UNCHANGED <<start_time, depends_on>>
  BY <1>3 DEF ConfirmRunning, ConfirmAnswerLost, RecordExit, RecordKill, UpdateOutcome
<1> QED
  BY <1>1, <1>2, <1>3, RowMoves

\* Only the claim of a ready job writes a worker_id.
LEMMA ClaimWritten ==
  ASSUME TypeOK, [Lifecycle!Next]_(Lifecycle!vars), NEW j \in Jobs, worker_id'[j] # worker_id[j]
  PROVE  status[j] = "ready"
<1> USE DEF TypeOK, DbTypeOK
<1>1. CASE UNCHANGED Lifecycle!vars
  BY <1>1 DEF Lifecycle!vars
<1> QED
  BY <1>1 DEF Lifecycle!Next, Lifecycle!Submit, Lifecycle!MakeReady, Lifecycle!Claim, Lifecycle!Start,
              Lifecycle!Exit, Lifecycle!Exceed, Lifecycle!Cancel, Lifecycle!Lose

LEMMA DueInvariant == Spec => []ClaimedWhenDue
<1>1. Init => ClaimedWhenDue
  BY DEF Init, DbInit, ClaimedWhenDue
<1>2. Inv /\ UnclaimedByNobody /\ ClaimedWhenDue /\ [Next]_vars => ClaimedWhenDue'
  <2> SUFFICES ASSUME Inv, UnclaimedByNobody, ClaimedWhenDue, [Next]_vars,
                      NEW j \in Jobs, status'[j] = "ready" \/ worker_id'[j] # NULL
               PROVE  /\ start_time'[j] <= now'
                      /\ \A d \in depends_on'[j] : status'[d] = "completed"
    BY DEF ClaimedWhenDue
  <2>1. TypeOK /\ [Lifecycle!Next]_(Lifecycle!vars)
    BY LifecycleStep DEF Inv
  <2>2. /\ now \in Int /\ now' \in Int /\ now <= now'
        /\ start_time[j] \in Int
        /\ depends_on[j] \subseteq Jobs
    <3>1. now' \in {now, now + 1}
      BY <2>1, RowMoves
    <3> QED
      BY <2>1, <3>1, TimeAssumption DEF TypeOK, DbTypeOK
  <2>3. start_time'[j] = start_time[j] /\ depends_on'[j] = depends_on[j]
    <3>1. CASE status[j] = "absent" /\ status'[j] = "pending" /\ UNCHANGED worker_id
      BY <3>1 DEF UnclaimedByNobody
    <3> QED
      BY <2>1, <3>1, SubmissionWritten
  <2>4. start_time[j] <= now /\ \A d \in depends_on[j] : status[d] = "completed"
    <3>1. CASE status[j] = "ready" \/ worker_id[j] # NULL
      BY <3>1 DEF ClaimedWhenDue
    <3>2. CASE status[j] # "ready" /\ worker_id[j] = NULL
      <4>1. worker_id'[j] = worker_id[j]
        BY <2>1, <3>2, ClaimWritten
      <4>2. Eligible(j)
        BY <2>1, <3>2, <4>1, ReadyWritten
      <4> QED
        BY <4>2, EligibleMeansCompleted DEF Eligible, Inv
    <3> QED
      BY <3>1, <3>2
  <2>5. \A d \in depends_on[j] : status'[d] = "completed"
    BY <2>1, <2>2, <2>4, TerminalStays DEF Terminal
  <2> QED
    BY <2>2, <2>3, <2>4, <2>5
<1> QED
  BY <1>1, <1>2, Invariance, UnclaimedInvariant, PTL DEF Spec

\* No process starts before the start time of its job, nor before those of its
\* dependencies are gone, also where the job is cancelled or lost between the
\* claim and the start: what the ready-transition pass saw is still so then.
THEOREM ProcessesStartInTurn == Spec => []StartsInTurn
<1>1. Inv /\ EndIsFinal /\ ClaimedWhenDue => StartsInTurn
  <2> SUFFICES ASSUME Inv, EndIsFinal, ClaimedWhenDue,
                      NEW a \in Agents, NEW j \in Jobs, proc[a][j] # "none"
               PROVE  /\ start_time[j] <= now
                      /\ \A d \in depends_on[j] : \A b \in Agents : proc[b][d] \notin {"running", "orphan"}
    BY DEF StartsInTurn
  <2>1. worker_id[j] # NULL
    BY NullAssumption, WorkerOfAssumption DEF Inv, ProcessMatchesRow
  <2>2. start_time[j] <= now /\ \A d \in depends_on[j] : status[d] = "completed"
    BY <2>1 DEF ClaimedWhenDue
  <2>3. depends_on[j] \subseteq Jobs
    BY DEF Inv, TypeOK, DbTypeOK
  <2> QED
    BY <2>2, <2>3 DEF EndIsFinal
<1> QED
  BY <1>1, Invariance, EndInvariant, DueInvariant, PTL

-----------------------------------------------------------------------------
(* How a run_job task ends.                                                *)

\* What moves the task of a for j, or what it has in hand.
LEMMA TaskMoves ==
  ASSUME TypeOK, Next, NEW a \in Agents, NEW j \in Jobs,
         task'[a][j] # task[a][j] \/ hand'[a][j] # hand[a][j]
  PROVE  \/ Crash(a) /\ task'[a][j] = "none"
         \/ ClaimCommit(a) /\ task'[a][j] = "starting"
         \/ JobTask(a, j) \/ SpawnFails(a, j)
         \/ TaskFails(a, j) \/ ConfirmAnswerLost(a, j)
<1> USE DEF taskVars
<1>1. ASSUME NEW b \in Agents, NEW k \in Jobs, NEW phase, NEW value, Goto(b, k, phase, value)
      PROVE  b = a /\ k = j
  BY <1>1 DEF Goto, TypeOK, AgentTypeOK
<1>2. ASSUME NEW b \in Agents, NEW k \in Jobs,
             JobTask(b, k) \/ SpawnFails(b, k) \/ TaskFails(b, k) \/ ConfirmAnswerLost(b, k)
      PROVE  b = a /\ k = j
  BY <1>1, <1>2 DEF JobTask, StartProcess, ConfirmRunning, PollExit, CheckStatus, RecordExit,
                    RecordKill, GraceExit, GraceExpires, AfterGrace, SpawnFails, TaskFails,
                    ConfirmAnswerLost
<1>3. ASSUME NEW b \in Agents, Crash(b)
      PROVE  b = a /\ task'[a][j] = "none"
  BY <1>3 DEF Crash, TypeOK, AgentTypeOK
<1>4. ASSUME NEW b \in Agents, ClaimCommit(b)
      PROVE  b = a /\ task'[a][j] = "starting"
  <2>1. PICK k \in Jobs : k = locked[b]
    BY <1>4 DEF ClaimCommit, TypeOK, DbTypeOK
  <2>2. Goto(b, k, "starting", NULL)
    BY <1>4, <2>1 DEF ClaimCommit
  <2> QED
    BY <2>2 DEF Goto, TypeOK, AgentTypeOK
<1>5. ASSUME NEW b \in Agents,
             \/ Register(b) \/ Heartbeat(b) \/ ClaimCount(b) \/ ClaimNothing(b) \/ ClaimFails(b)
             \/ \E k \in Jobs : \/ ClaimSelect(b, k) \/ ProcessExits(b, k)
                               \/ ProcessForks(b, k) \/ DescendantsExit(b, k)
      PROVE  UNCHANGED taskVars
  BY <1>5 DEF Register, Heartbeat, ClaimCount, ClaimIf, ClaimNothing, ClaimFails, ClaimSelect,
              ProcessExits, ProcessForks, DescendantsExit, agentVars
<1>6. ASSUME NEW k \in Jobs, RuntimeElapses(k)
      PROVE  UNCHANGED taskVars
  BY <1>6 DEF RuntimeElapses
<1>7. ASSUME Tick \/ (\E w \in Workers : LastSeenAges(w)) \/ SchedulerNext
      PROVE  UNCHANGED taskVars
  BY <1>7 DEF Tick, LastSeenAges, SchedulerNext, agentVars
<1> QED
  BY <1>2, <1>3, <1>4, <1>5, <1>6, <1>7 DEF Next, AgentNext

\* Where a step of the task leads, and what the row is then.
LEMMA TaskLeads ==
  ASSUME TypeOK, TaskMatchesRow, StoppedWereCancelled,
         NEW a \in Agents, NEW j \in Jobs, JobTask(a, j),
         task'[a][j] \in {"none", "stopping"}
  PROVE  /\ status'[j] \in Terminal
         /\ task'[a][j] = "stopping" => status'[j] = "cancelled"
<1> USE DEF dbVars, jobRows
<1>1. ASSUME NEW phase, NEW value, Goto(a, j, phase, value)
      PROVE  task'[a][j] = phase
  BY <1>1 DEF Goto, TypeOK, AgentTypeOK
<1>2. ASSUME ~(task[a][j] \in {"starting", "confirming", "none"})
      PROVE  status[j] \in {"cancelled", "lost", "running"}
  BY <1>2 DEF TaskMatchesRow
<1>3. CASE StartProcess(a, j) \/ PollExit(a, j)
  BY <1>1, <1>3 DEF StartProcess, PollExit
<1>4. CASE ConfirmRunning(a, j)
  <2>1. status[j] \in Terminal
    BY <1>1, <1>4 DEF ConfirmRunning
  <2> QED
    BY <1>1, <1>4, <2>1, GuardBlocks DEF ConfirmRunning
<1>5. CASE CheckStatus(a, j)
  BY <1>1, <1>5 DEF CheckStatus, Terminal
<1>6. ASSUME NEW end \in {"completed", "failed"}, UpdateStatus(j, end),
             Goto(a, j, "none", NULL), status[j] \in {"cancelled", "lost", "running"}
      PROVE  status'[j] \in Terminal /\ task'[a][j] = "none"
  <2>1. task'[a][j] = "none"
    BY <1>1, <1>6
  <2>2. status'[j] = IF status[j] \in Terminal THEN status[j] ELSE end
    BY <1>6 DEF UpdateStatus, TypeOK, DbTypeOK
  <2> QED
    BY <2>1, <2>2 DEF Terminal
<1>7. CASE RecordExit(a, j) \/ RecordKill(a, j)
  <2>1. status[j] \in {"cancelled", "lost", "running"} /\ Goto(a, j, "none", NULL)
    BY <1>2, <1>7 DEF RecordExit, RecordKill
  <2>2. \E end \in {"completed", "failed"} : UpdateStatus(j, end)
    BY <1>7 DEF RecordExit, RecordKill, UpdateOutcome
  <2> QED
    BY <1>6, <2>1, <2>2
<1>8. CASE GraceExit(a, j) \/ GraceExpires(a, j)
  <2>1. AfterGrace(a, j) /\ UNCHANGED status
    BY <1>8 DEF GraceExit, GraceExpires
  <2>2. task[a][j] = "stopping" /\ task'[a][j] = "none"
    BY <1>1, <2>1 DEF AfterGrace
  <2> QED
    BY <2>1, <2>2 DEF StoppedWereCancelled, Terminal
<1> QED
  BY <1>3, <1>4, <1>5, <1>7, <1>8 DEF JobTask

LEMMA StoppedInvariant == Spec => []StoppedWereCancelled
<1>1. Init => StoppedWereCancelled
  BY DEF Init, AgentInit, StoppedWereCancelled
<1>2. Inv /\ StoppedWereCancelled /\ [Next]_vars => StoppedWereCancelled'
  <2> SUFFICES ASSUME Inv, StoppedWereCancelled, [Next]_vars,
                      NEW a \in Agents, NEW j \in Jobs, task'[a][j] = "stopping"
               PROVE  status'[j] = "cancelled"
    BY DEF StoppedWereCancelled
  <2>1. TypeOK /\ TaskMatchesRow
    BY DEF Inv
  <2>2. CASE task[a][j] = "stopping"
    <3>1. status[j] = "cancelled"
      BY <2>2 DEF StoppedWereCancelled
    <3>2. [Lifecycle!Next]_(Lifecycle!vars)
      BY LifecycleStep
    <3> QED
      BY <2>1, <3>1, <3>2, TerminalStays DEF Terminal
  <2>3. CASE task[a][j] # "stopping"
    <3>1. Next
      BY <2>3 DEF vars, agentVars, taskVars
    <3>2. task'[a][j] # task[a][j]
      BY <2>3
    <3>3. \/ JobTask(a, j) \/ SpawnFails(a, j)
          \/ TaskFails(a, j) \/ ConfirmAnswerLost(a, j)
      BY <2>1, <3>1, <3>2, TaskMoves
    <3>4. ~(SpawnFails(a, j) \/ TaskFails(a, j) \/ ConfirmAnswerLost(a, j))
      BY <2>1 DEF SpawnFails, TaskFails, ConfirmAnswerLost, Goto, TypeOK, AgentTypeOK
    <3> QED
      BY <2>1, <3>3, <3>4, TaskLeads
  <2> QED
    BY <2>2, <2>3
<1> QED
  BY <1>1, <1>2, Invariance, PTL DEF Spec

\* A task that returns leaves a terminal row.
LEMMA TaskEnds ==
  ASSUME "db" \notin Faults, "spawn" \notin Faults,
         Inv, StoppedWereCancelled, [Next]_vars,
         NEW a \in Agents, NEW j \in Jobs, a \in up',
         task[a][j] # "none", task'[a][j] = "none"
  PROVE  status'[j] \in Terminal
<1>1. TypeOK /\ TaskMatchesRow
  BY DEF Inv
<1>2. Next /\ ~Crash(a)
  BY DEF Crash, vars, agentVars, taskVars
<1>3. JobTask(a, j)
  BY <1>1, <1>2, TaskMoves DEF SpawnFails, TaskFails, ConfirmAnswerLost
<1> QED
  BY <1>1, <1>3, TaskLeads

\* As long as its agent lives and no spawn or database statement raises, a
\* run_job task returns only when its job's row is terminal.
THEOREM TasksEndWithTheirJobs ==
  ASSUME "db" \notin Faults, "spawn" \notin Faults
  PROVE  Spec => TaskEndsWithItsJob
<1>1. Inv /\ StoppedWereCancelled /\ [Next]_vars =>
        [\A a \in up \cap up', j \in Jobs :
            task[a][j] # "none" /\ task'[a][j] = "none" => status'[j] \in Terminal]_vars
  BY TaskEnds DEF Inv, TypeOK, AgentTypeOK
<1> QED
  BY <1>1, Invariance, StoppedInvariant, PTL DEF Spec, TaskEndsWithItsJob

-----------------------------------------------------------------------------
(* What has ended.                                                         *)

\* Nothing is written to a row after its end: every writer is guarded, or
\* names rows that have not ended.
THEOREM EndedRowsAreFrozen == Spec => EndedRowsStay
<1>1. Inv /\ [Next]_vars =>
        [\A j \in Jobs : status[j] \in Terminal =>
            /\ status'[j] = status[j] /\ worker_id'[j] = worker_id[j]
            /\ exit_code'[j] = exit_code[j] /\ kill_reason'[j] = kill_reason[j]
            /\ start_time'[j] = start_time[j] /\ depends_on'[j] = depends_on[j]]_vars
  <2> SUFFICES ASSUME Inv, [Next]_vars, NEW j \in Jobs, status[j] \in Terminal
               PROVE  /\ status'[j] = status[j] /\ worker_id'[j] = worker_id[j]
                      /\ exit_code'[j] = exit_code[j] /\ kill_reason'[j] = kill_reason[j]
                      /\ start_time'[j] = start_time[j] /\ depends_on'[j] = depends_on[j]
    OBVIOUS
  <2>1. TypeOK /\ [Lifecycle!Next]_(Lifecycle!vars)
    BY LifecycleStep DEF Inv
  <2>2. status'[j] = status[j] /\ worker_id'[j] = worker_id[j]
    BY <2>1, TerminalStays
  <2>3. exit_code'[j] = exit_code[j] /\ kill_reason'[j] = kill_reason[j]
    BY <2>1, OutcomeWritten
  <2>4. start_time'[j] = start_time[j] /\ depends_on'[j] = depends_on[j]
    BY <2>1, SubmissionWritten DEF Terminal
  <2> QED
    BY <2>2, <2>3, <2>4
<1> QED
  BY <1>1, Invariance, PTL DEF Spec, EndedRowsStay
=============================================================================
