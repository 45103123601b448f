-------------------------- MODULE LightcronProofs ---------------------------
(***************************************************************************)
(* Theorems about Lightcron for every number of jobs, agents, schedulers   *)
(* and slots, and every choice of failures.  The inductive invariant is    *)
(* Inv of LightcronProperties.                                             *)
(***************************************************************************)
EXTENDS LightcronProperties, TLAPS

-----------------------------------------------------------------------------
(* Type correctness: what the recurring parts of an action return.         *)

LEMMA UpdateStatusType ==
  ASSUME DbTypeOK, NEW j \in Jobs, NEW new \in JobStatus, UpdateStatus(j, new)
  PROVE  status' \in [Jobs -> JobStatus \cup {"absent"}]
  BY DEF UpdateStatus, DbTypeOK

LEMMA UpdateOutcomeType ==
  ASSUME DbTypeOK, NEW j \in Jobs, NEW new \in JobStatus,
         NEW code \in ExitCodes \cup {NULL}, NEW reason \in KillReason \cup {NULL},
         UpdateOutcome(j, new, code, reason)
  PROVE  /\ status' \in [Jobs -> JobStatus \cup {"absent"}]
         /\ exit_code' \in [Jobs -> ExitCodes \cup {NULL}]
         /\ kill_reason' \in [Jobs -> KillReason \cup {NULL}]
         /\ UNCHANGED <<depends_on, start_time, worker_id>>
  BY UpdateStatusType DEF UpdateOutcome, DbTypeOK

LEMMA AssignToType ==
  ASSUME DbTypeOK, NEW w \in Workers, NEW j \in Jobs, AssignTo(w, j)
  PROVE  /\ status' \in [Jobs -> JobStatus \cup {"absent"}]
         /\ worker_id' \in [Jobs -> Workers \cup {NULL}]
         /\ UNCHANGED <<depends_on, start_time, exit_code, kill_reason>>
  BY DEF AssignTo, DbTypeOK, JobStatus

\* What EXCEPT writes two levels deep keeps its type.
LEMMA CellType ==
  ASSUME NEW S, NEW f \in [Agents -> [Jobs -> S]], NEW a \in Agents, NEW j \in Jobs, NEW v \in S
  PROVE  [f EXCEPT ![a][j] = v] \in [Agents -> [Jobs -> S]]
OBVIOUS

LEMMA GotoType ==
  ASSUME AgentTypeOK, NEW a \in Agents, NEW j \in Jobs, NEW phase \in Phases,
         NEW value \in ExitCodes \cup KillReason \cup {NULL}, Goto(a, j, phase, value)
  PROVE  /\ task' \in [Agents -> [Jobs -> Phases]]
         /\ hand' \in [Agents -> [Jobs -> ExitCodes \cup KillReason \cup {NULL}]]
  BY DEF Goto, AgentTypeOK

LEMMA KillType ==
  ASSUME AgentTypeOK, NEW a \in Agents, NEW j \in Jobs, Kill(a, j)
  PROVE  /\ proc' \in [Agents -> [Jobs -> ProcStates]]
         /\ exited' \in [Agents -> [Jobs -> ExitCodes \cup {NULL}]]
         /\ forked' \in [Agents -> SUBSET Jobs]
  BY DEF Kill, KillReaching, AgentTypeOK, ProcStates, ExitCodes

LEMMA ReapedType ==
  ASSUME AgentTypeOK, NEW a \in Agents
  PROVE  Reaped(a) \in [Jobs -> ProcStates]
  BY DEF Reaped, AgentTypeOK, ProcStates

LEMMA PopenType ==
  ASSUME AgentTypeOK, NEW a \in Agents, NEW j \in Jobs, NEW state \in ProcStates,
         Popen(a, j, state)
  PROVE  proc' \in [Agents -> [Jobs -> ProcStates]]
<1>1. [Reaped(a) EXCEPT ![j] = state] \in [Jobs -> ProcStates]
  BY ReapedType
<1> QED
  BY <1>1 DEF Popen, AgentTypeOK

LEMMA MayForkType ==
  ASSUME AgentTypeOK, NEW a \in Agents, NEW j \in Jobs, MayFork(a, j)
  PROVE  forked' \in [Agents -> SUBSET Jobs]
<1>1. PICK left \in SUBSET (ForkingJobs \cap {j}) : forked' = [forked EXCEPT ![a] = @ \cup left]
  BY DEF MayFork
<1> QED
  BY <1>1 DEF AgentTypeOK

-----------------------------------------------------------------------------
LEMMA TypeInit == Init => TypeOK
  BY TimeAssumption, WorkerOfAssumption DEF Init, DbInit, SchedulerInit, AgentInit,
     TypeOK, DbTypeOK, SchedulerTypeOK, AgentTypeOK, OfflineAge, Phases, ProcStates

LEMMA TypeTime ==
  ASSUME TypeOK, Tick \/ \E w \in Workers : LastSeenAges(w)
  PROVE  TypeOK'
<1> USE DEF TypeOK, DbTypeOK, SchedulerTypeOK, AgentTypeOK,
            clockVars, jobRows, workerRows, schedulerVars, healthVars,
            agentVars, taskVars, procVars
<1>1. CASE Tick
  BY <1>1, TimeAssumption DEF Tick
<1> HIDE DEF SchedulerTypeOK, AgentTypeOK
<1>2. ASSUME NEW w \in Workers, LastSeenAges(w)
      PROVE  TypeOK'
  <2>1. age[w] + 1 \in 0 .. OfflineAge
    BY <1>2 DEF LastSeenAges, OfflineAge
  <2>2. age' \in [Workers -> 0 .. OfflineAge]
    BY <1>2, <2>1 DEF LastSeenAges
  <2>3. SchedulerTypeOK' /\ AgentTypeOK'
    BY <1>2 DEF LastSeenAges, SchedulerTypeOK, AgentTypeOK
  <2> QED
    BY <1>2, <2>2, <2>3 DEF LastSeenAges
<1> QED
  BY <1>1, <1>2

LEMMA TypeScheduler ==
  ASSUME TypeOK, SchedulerNext
  PROVE  TypeOK'
<1> USE DEF TypeOK, DbTypeOK, SchedulerTypeOK,
            dbVars, clockVars, jobRows, workerRows, schedulerVars, healthVars
<1>1. AgentTypeOK'
  BY DEF SchedulerNext, AgentTypeOK, agentVars, taskVars, procVars
<1>2. ASSUME NEW j \in Jobs, NEW start \in 0 .. MaxTime, NEW deps \in SUBSET Jobs,
             ScheduleJob(j, start, deps)
      PROVE  TypeOK'
  BY <1>1, <1>2 DEF ScheduleJob, Submitted, InsertJob, JobStatus
<1>3. ASSUME NEW j \in Jobs, CancelRead(j) \/ CancelFails(j)
      PROVE  TypeOK'
  BY <1>1, <1>3 DEF CancelRead, CancelFails
<1>4. ASSUME NEW j \in Jobs, CancelWrite(j)
      PROVE  TypeOK'
  BY <1>1, <1>4, UpdateStatusType DEF CancelWrite, JobStatus
<1>5. CASE ReadyTransition
  BY <1>1, <1>5 DEF ReadyTransition, JobStatus
<1>6. ASSUME NEW s \in Schedulers, HealthSnapshot(s)
      PROVE  TypeOK'
  BY <1>1, <1>6 DEF HealthSnapshot
<1>7. ASSUME NEW s \in Schedulers, MarkUnanswered(s)
      PROVE  TypeOK'
  BY <1>1, <1>7 DEF MarkUnanswered, MarkOffline, UpdateTogether, JobStatus
<1>8. ASSUME NEW s \in Schedulers, HealthPassFails(s) \/ Shutdown(s)
      PROVE  TypeOK'
  BY <1>1, <1>8 DEF HealthPassFails, Shutdown, AbandonPass
<1>9. ASSUME NEW s \in Schedulers, NEW w \in Workers, MarkStage2(s, w)
      PROVE  TypeOK'
  BY <1>1, <1>9 DEF MarkStage2, MarkOffline, UpdateTogether, JobStatus
<1>10. ASSUME NEW s \in Schedulers, NEW w \in Workers, NEW alive \in BOOLEAN,
              Probe(s, w, alive)
       PROVE  TypeOK'
  BY <1>1, <1>10 DEF Probe
<1> QED
  BY <1>2, <1>3, <1>4, <1>5, <1>6, <1>7, <1>8, <1>9, <1>10 DEF SchedulerNext

LEMMA TypeJobTask ==
  ASSUME TypeOK, HandOK, SchedulerTypeOK',
         NEW a \in Agents, NEW j \in Jobs, JobTask(a, j)
  PROVE  TypeOK'
<1> USE DEF TypeOK, dbVars, clockVars, jobRows, workerRows, taskVars, procVars
<1>1. /\ {"none", "starting", "confirming", "watching", "checking",
          "recording", "killing", "failing", "stopping"} \subseteq Phases
      /\ {"running", "completed", "failed"} \subseteq JobStatus
      /\ {"running", "zombie", "reaped"} \subseteq ProcStates
  BY DEF Phases, JobStatus, ProcStates
<1>2. CASE StartProcess(a, j)
  <2>1. proc' \in [Agents -> [Jobs -> ProcStates]]
    BY <1>1, <1>2, PopenType DEF StartProcess
  <2>2. exited' \in [Agents -> [Jobs -> ExitCodes \cup {NULL}]]
    <3>1. CASE UNCHANGED exited
      BY <3>1 DEF AgentTypeOK
    <3>2. ASSUME NEW code \in ExitCodes, exited' = [exited EXCEPT ![a][j] = code]
          PROVE  exited' \in [Agents -> [Jobs -> ExitCodes \cup {NULL}]]
      BY <3>2 DEF AgentTypeOK
    <3> QED
      BY <1>2, <3>1, <3>2 DEF StartProcess
  <2>3. forked' \in [Agents -> SUBSET Jobs]
    BY <1>2, MayForkType DEF StartProcess, AgentTypeOK
  <2> QED
    BY <1>1, <1>2, <2>1, <2>2, <2>3, GotoType DEF StartProcess, DbTypeOK, AgentTypeOK
<1>3. CASE ConfirmRunning(a, j)
  BY <1>1, <1>3, GotoType, KillType, UpdateStatusType
     DEF ConfirmRunning, DbTypeOK, AgentTypeOK
<1>4. CASE PollExit(a, j)
  <2>1. exited[a][j] \in ExitCodes \cup {NULL} /\ "zero" \in ExitCodes
    BY DEF AgentTypeOK, ExitCodes
  <2>2. proc' \in [Agents -> [Jobs -> ProcStates]]
    <3>1. proc' = proc \/ proc' = [proc EXCEPT ![a][j] = "reaped"]
      BY <1>4 DEF PollExit
    <3>2. proc \in [Agents -> [Jobs -> ProcStates]] /\ "reaped" \in ProcStates
      BY <1>1 DEF AgentTypeOK
    <3> QED
      BY <3>1, <3>2
  <2>3. PICK phase \in Phases, value \in ExitCodes \cup {NULL} : Goto(a, j, phase, value)
    BY <1>1, <1>4, <2>1 DEF PollExit
  <2> QED
    BY <1>4, <2>2, <2>3, GotoType DEF PollExit, DbTypeOK, AgentTypeOK
<1>5. CASE CheckStatus(a, j)
  BY <1>1, <1>5, GotoType, KillType DEF CheckStatus, DbTypeOK, AgentTypeOK, KillReason
<1>6. CASE RecordExit(a, j)
  <2>1. hand[a][j] \in ExitCodes
    BY <1>6 DEF RecordExit, HandOK
  <2> QED
    BY <1>1, <1>6, <2>1, GotoType, UpdateOutcomeType DEF RecordExit, DbTypeOK, AgentTypeOK
<1>7. CASE GraceExit(a, j) \/ GraceExpires(a, j)
  <2>1. hand[a][j] \in ExitCodes \cup KillReason \cup {NULL}
    BY DEF AgentTypeOK
  <2>2. PICK phase \in Phases, value \in ExitCodes \cup KillReason \cup {NULL} :
            Goto(a, j, phase, value)
    BY <1>1, <1>7, <2>1 DEF GraceExit, GraceExpires, AfterGrace
  <2>3. CASE GraceExit(a, j)
    BY <1>1, <2>2, <2>3, GotoType DEF GraceExit, DbTypeOK, AgentTypeOK
  <2>4. CASE GraceExpires(a, j)
    BY <2>2, <2>4, GotoType, KillType DEF GraceExpires, DbTypeOK, AgentTypeOK
  <2> QED
    BY <1>7, <2>3, <2>4
<1>8. CASE RecordKill(a, j)
  <2>1. hand[a][j] \in KillReason
    BY <1>8 DEF RecordKill, HandOK
  <2> QED
    BY <1>1, <1>8, <2>1, GotoType, UpdateOutcomeType DEF RecordKill, DbTypeOK, AgentTypeOK
<1> QED
  BY <1>2, <1>3, <1>4, <1>5, <1>6, <1>7, <1>8 DEF JobTask

LEMMA TypeAgent ==
  ASSUME TypeOK, HandOK, AgentNext
  PROVE  TypeOK'
<1> USE DEF TypeOK, dbVars, clockVars, jobRows, workerRows, agentVars, taskVars, procVars
<1>1. SchedulerTypeOK'
  BY DEF AgentNext, SchedulerTypeOK, schedulerVars, healthVars
<1>2. {"none", "starting"} \subseteq Phases /\ {"orphan", "reaped", "zombie"} \subseteq ProcStates
  BY DEF Phases, ProcStates
<1>3. ASSUME NEW a \in Agents, Register(a)
      PROVE  TypeOK'
  BY <1>1, <1>3, WorkerOfAssumption DEF Register, UpsertWorker, DbTypeOK, AgentTypeOK, OfflineAge
<1>4. ASSUME NEW a \in Agents, Heartbeat(a)
      PROVE  TypeOK'
  BY <1>1, <1>4, WorkerOfAssumption DEF Heartbeat, UpdateLastSeen, DbTypeOK, AgentTypeOK, OfflineAge
<1>5. ASSUME NEW a \in Agents, Crash(a)
      PROVE  TypeOK'
  <2>1. DbTypeOK'
    BY <1>5, AssignToType, WorkerOfAssumption DEF Crash, DbTypeOK
  <2>2. proc' \in [Agents -> [Jobs -> ProcStates]] /\ forked' \in [Agents -> SUBSET Jobs]
    BY <1>2, <1>5 DEF Crash, AgentTypeOK
  <2>3. AgentTypeOK'
    BY <1>2, <1>5, <2>2 DEF Crash, AgentTypeOK
  <2> QED
    BY <1>1, <2>1, <2>3
<1>6. ASSUME NEW a \in Agents, ClaimCount(a) \/ ClaimNothing(a)
      PROVE  TypeOK'
  BY <1>1, <1>6 DEF ClaimCount, ClaimIf, ClaimNothing, DbTypeOK, AgentTypeOK
<1>7. ASSUME NEW a \in Agents, ClaimCommit(a)
      PROVE  TypeOK'
  <2>1. locked[a] \in Jobs
    BY <1>7 DEF ClaimCommit, DbTypeOK
  <2> QED
    BY <1>1, <1>2, <1>7, <2>1, AssignToType, GotoType, WorkerOfAssumption DEF ClaimCommit, DbTypeOK, AgentTypeOK
<1>8. ASSUME NEW a \in Agents, ClaimFails(a)
      PROVE  TypeOK'
  BY <1>1, <1>8, AssignToType, WorkerOfAssumption DEF ClaimFails, DbTypeOK, AgentTypeOK
<1>9. ASSUME NEW a \in Agents, NEW j \in Jobs, ClaimSelect(a, j)
      PROVE  TypeOK'
  BY <1>1, <1>9 DEF ClaimSelect, DbTypeOK, AgentTypeOK
<1>10. ASSUME NEW a \in Agents, NEW j \in Jobs, JobTask(a, j)
       PROVE  TypeOK'
  BY <1>1, <1>10, TypeJobTask
<1>11. ASSUME NEW a \in Agents, NEW j \in Jobs, SpawnFails(a, j) \/ TaskFails(a, j)
       PROVE  TypeOK'
  <2>1. Goto(a, j, "none", NULL)
    BY <1>11 DEF SpawnFails, TaskFails
  <2>2. proc' \in [Agents -> [Jobs -> ProcStates]]
    BY <1>11, ReapedType DEF SpawnFails, TaskFails, AgentTypeOK
  <2> QED
    BY <1>1, <1>2, <1>11, <2>1, <2>2, GotoType DEF SpawnFails, TaskFails, DbTypeOK, AgentTypeOK
<1>12. ASSUME NEW a \in Agents, NEW j \in Jobs, ConfirmAnswerLost(a, j)
       PROVE  TypeOK'
  BY <1>1, <1>2, <1>12, GotoType, UpdateStatusType
     DEF ConfirmAnswerLost, DbTypeOK, AgentTypeOK, JobStatus
<1>13. ASSUME NEW a \in Agents, NEW j \in Jobs,
              ProcessExits(a, j) \/ ProcessForks(a, j) \/ DescendantsExit(a, j)
       PROVE  TypeOK'
  <2>1. CASE ProcessExits(a, j)
    <3>1. proc' \in [Agents -> [Jobs -> ProcStates]]
      <4>1. /\ proc \in [Agents -> [Jobs -> ProcStates]]
            /\ proc' = [proc EXCEPT ![a][j] = IF @ = "running" THEN "zombie" ELSE "reaped"]
        BY <1>1, <2>1 DEF ProcessExits, AgentTypeOK
      <4> QED
        BY <4>1 DEF ProcStates
    <3>2. exited' \in [Agents -> [Jobs -> ExitCodes \cup {NULL}]]
      <4>1. /\ exited \in [Agents -> [Jobs -> ExitCodes \cup {NULL}]]
            /\ \E code \in ExitCodes : exited' = [exited EXCEPT ![a][j] = code]
        BY <1>1, <2>1 DEF ProcessExits, AgentTypeOK
      <4>2. PICK code \in ExitCodes \cup {NULL} : exited' = [exited EXCEPT ![a][j] = code]
        BY <4>1
      <4>3. [exited EXCEPT ![a][j] = code] \in [Agents -> [Jobs -> ExitCodes \cup {NULL}]]
        BY <4>1, CellType
      <4> QED
        BY <4>2, <4>3
    <3>3. UNCHANGED <<dbVars, up, counted, taskVars, forked, overdue>>
      BY <2>1 DEF ProcessExits
    <3> QED
      BY <1>1, <3>1, <3>2, <3>3 DEF DbTypeOK, AgentTypeOK
  <2>2. CASE ProcessForks(a, j) \/ DescendantsExit(a, j)
    <3>1. forked' \in [Agents -> SUBSET Jobs]
      BY <1>1, <2>2 DEF ProcessForks, DescendantsExit, AgentTypeOK
    <3>2. UNCHANGED <<dbVars, up, counted, taskVars, proc, exited, overdue>>
      BY <2>2 DEF ProcessForks, DescendantsExit
    <3> QED
      BY <1>1, <3>1, <3>2 DEF DbTypeOK, AgentTypeOK
  <2> QED
    BY <1>13, <2>1, <2>2
<1>14. ASSUME NEW j \in Jobs, RuntimeElapses(j)
       PROVE  TypeOK'
  BY <1>1, <1>14 DEF RuntimeElapses, DbTypeOK, AgentTypeOK
<1> QED
  BY <1>3, <1>4, <1>5, <1>6, <1>7, <1>8, <1>9, <1>10, <1>11, <1>12, <1>13, <1>14
     DEF AgentNext

-----------------------------------------------------------------------------
(* The rest of the invariant, but for DependenciesExist.                   *)

Related == /\ HandOK
           /\ LockHeldOnce
           /\ OneRunner
           /\ CancellingExists
           /\ TaskMatchesRow
           /\ ProcessMatchesRow
           /\ DependenciesHonoured

LEMMA RelatedInit == Init => Related
  BY NullAssumption
     DEF Init, DbInit, SchedulerInit, AgentInit, Related, HandOK, LockHeldOnce,
         OneRunner, Runs, CancellingExists, TaskMatchesRow, ProcessMatchesRow, DependenciesHonoured

\* A step that leaves alone what Related speaks of.
LEMMA RelatedStable ==
  ASSUME Related,
         UNCHANGED <<status, worker_id, depends_on, locked, task, hand, proc, exited>>,
         cancelling' \subseteq cancelling
  PROVE  Related'
  BY DEF Related, HandOK, LockHeldOnce, OneRunner, Runs, CancellingExists, TaskMatchesRow,
         ProcessMatchesRow, DependenciesHonoured, Exists

\* The NOT EXISTS of the ready-transition UPDATE, which would pass over a
\* dependency without a row, finds every dependency completed.
LEMMA EligibleMeansCompleted ==
  ASSUME DependenciesExist, NEW j \in Jobs, Eligible(j), NEW d \in depends_on[j]
  PROVE  status[d] = "completed"
  BY DEF DependenciesExist, Exists, Eligible

LEMMA RelatedScheduler ==
  ASSUME TypeOK, Related, DependenciesExist, SchedulerNext
  PROVE  Related'
<1> USE DEF dbVars, clockVars, jobRows, workerRows, schedulerVars, healthVars,
            agentVars, taskVars, procVars
<1>0. UNCHANGED <<task, hand, proc, exited>>
  BY DEF SchedulerNext
<1>1. HandOK' /\ OneRunner'
  BY <1>0 DEF Related, HandOK, OneRunner, Runs
<1>2. ASSUME NEW j \in Jobs, NEW start \in 0 .. MaxTime, NEW deps \in SUBSET Jobs,
             ScheduleJob(j, start, deps)
      PROVE  Related'
  <2>1. /\ status[j] = "absent"
        /\ status' = [status EXCEPT ![j] = "pending"]
        /\ depends_on' = [depends_on EXCEPT ![j] = deps]
        /\ UNCHANGED <<worker_id, locked, cancelling>>
    BY <1>2 DEF ScheduleJob, Submitted, InsertJob, Exists
  <2>2. LockHeldOnce' /\ CancellingExists'
    BY <2>1 DEF Related, LockHeldOnce, CancellingExists, Exists, TypeOK, DbTypeOK
  <2>3. TaskMatchesRow' /\ ProcessMatchesRow'
    BY <1>0, <2>1 DEF Related, TaskMatchesRow, ProcessMatchesRow, Active, Terminal,
                      TypeOK, DbTypeOK
  <2>4. DependenciesHonoured'
    BY <2>1 DEF Related, DependenciesHonoured, TypeOK, DbTypeOK
  <2> QED
    BY <1>1, <2>2, <2>3, <2>4 DEF Related
<1>3. ASSUME NEW j \in Jobs, CancelRead(j)
      PROVE  Related'
  <2>1. UNCHANGED <<status, worker_id, depends_on, locked>> /\ cancelling' = cancelling \cup {j}
    BY <1>3 DEF CancelRead
  <2>2. CancellingExists'
    BY <1>3, <2>1 DEF CancelRead, Related, CancellingExists, Exists, JobStatus
  <2> QED
    BY <1>0, <1>1, <2>1, <2>2
       DEF Related, LockHeldOnce, TaskMatchesRow, ProcessMatchesRow, DependenciesHonoured
<1>4. ASSUME NEW j \in Jobs, CancelWrite(j)
      PROVE  Related'
  <2>1. /\ Unlocked(j)
        /\ status' = [status EXCEPT ![j] = IF @ \in Terminal THEN @ ELSE "cancelled"]
        /\ cancelling' = cancelling \ {j}
        /\ UNCHANGED <<worker_id, depends_on, locked>>
    BY <1>4 DEF CancelWrite, UpdateStatus
  <2>2. LockHeldOnce' /\ CancellingExists'
    BY <2>1 DEF Related, LockHeldOnce, CancellingExists, Exists, Unlocked, TypeOK, DbTypeOK
  <2>3. TaskMatchesRow' /\ ProcessMatchesRow'
    BY <1>0, <2>1 DEF Related, TaskMatchesRow, ProcessMatchesRow, Active, Terminal,
                      TypeOK, DbTypeOK
  <2>4. DependenciesHonoured'
    BY <2>1 DEF Related, DependenciesHonoured, Terminal, TypeOK, DbTypeOK
  <2> QED
    BY <1>1, <2>2, <2>3, <2>4 DEF Related
<1>5. CASE ReadyTransition
  <2>1. /\ status' = [j \in Jobs |-> IF Eligible(j) THEN "ready" ELSE status[j]]
        /\ UNCHANGED <<worker_id, depends_on, locked, cancelling>>
    BY <1>5 DEF ReadyTransition
  <2>2. LockHeldOnce' /\ CancellingExists'
    BY <2>1 DEF Related, LockHeldOnce, CancellingExists, Exists, Eligible, TypeOK,
                DbTypeOK, SchedulerTypeOK
  <2>3. TaskMatchesRow' /\ ProcessMatchesRow'
    BY <1>0, <2>1 DEF Related, TaskMatchesRow, ProcessMatchesRow, Active, Terminal, Eligible
  <2>4. DependenciesHonoured'
    <3>1. \A j \in Jobs : Eligible(j) => status[j] = "pending" /\ \A d \in depends_on[j] : status[d] = "completed"
      BY EligibleMeansCompleted DEF Eligible
    <3> QED
      BY <2>1, <3>1 DEF Related, DependenciesHonoured, TypeOK, DbTypeOK
  <2> QED
    BY <1>1, <2>2, <2>3, <2>4 DEF Related
<1>6. ASSUME NEW w \in Workers, MarkOffline(w), UNCHANGED <<locked, cancelling>>
      PROVE  Related'
  <2>1. /\ status' = [j \in Jobs |-> IF j \in ActiveJobs(w) THEN "lost" ELSE status[j]]
        /\ UNCHANGED <<worker_id, depends_on>>
    BY <1>6 DEF MarkOffline, UpdateTogether
  <2>2. LockHeldOnce' /\ CancellingExists'
    BY <1>6, <2>1 DEF Related, LockHeldOnce, CancellingExists, Exists, ActiveJobs, Active,
                      TypeOK, DbTypeOK, SchedulerTypeOK
  <2>3. TaskMatchesRow' /\ ProcessMatchesRow'
    BY <1>0, <2>1 DEF Related, TaskMatchesRow, ProcessMatchesRow, Active, Terminal, ActiveJobs
  <2>4. DependenciesHonoured'
    BY <2>1 DEF Related, DependenciesHonoured, ActiveJobs, Active, TypeOK, DbTypeOK
  <2> QED
    BY <1>1, <2>2, <2>3, <2>4 DEF Related
<1>7. ASSUME NEW s \in Schedulers, MarkUnanswered(s)
      PROVE  Related'
  BY <1>6, <1>7 DEF MarkUnanswered, TypeOK, SchedulerTypeOK
<1>8. ASSUME NEW s \in Schedulers, NEW w \in Workers, MarkStage2(s, w)
      PROVE  Related'
  BY <1>6, <1>8 DEF MarkStage2
<1>9. ASSUME NEW j \in Jobs, CancelFails(j)
      PROVE  Related'
  BY <1>0, <1>9, RelatedStable DEF CancelFails
<1>10. ASSUME NEW s \in Schedulers, HealthSnapshot(s) \/ HealthPassFails(s) \/ Shutdown(s)
       PROVE  Related'
  BY <1>0, <1>10, RelatedStable DEF HealthSnapshot, HealthPassFails, Shutdown, AbandonPass
<1>11. ASSUME NEW s \in Schedulers, NEW w \in Workers, NEW alive \in BOOLEAN,
              Probe(s, w, alive)
       PROVE  Related'
  BY <1>0, <1>11, RelatedStable DEF Probe
<1> QED
  BY <1>2, <1>3, <1>4, <1>5, <1>7, <1>8, <1>9, <1>10, <1>11 DEF SchedulerNext

-----------------------------------------------------------------------------
(* Steps of a run_job task.                                                *)

\* What a row may be while a task stands at phase.
Matches(st, phase) ==
    st \in {"cancelled", "lost"} \cup
              (IF phase \in {"starting", "confirming"} THEN {"assigned"} ELSE {"running"})

\* A step of the task of a for j that moves the row from status[j] to st and
\* the task to phase keeps the invariant, whatever else the task does.
LEMMA TaskStep ==
  ASSUME TypeOK, Related,
         NEW a \in Agents, NEW j \in Jobs, NEW st \in JobStatus, NEW phase \in Phases,
         task[a][j] # "none",
         status' = [status EXCEPT ![j] = st],
         st \in Active \cup Terminal,
         status[j] \in Terminal => st = status[j],
         UNCHANGED <<worker_id, depends_on, locked, cancelling>>,
         task' = [task EXCEPT ![a][j] = phase],
         phase # "none" => Matches(st, phase),
         \A b \in Agents, k \in Jobs :
            proc'[b][k] # "none" => proc[b][k] # "none" \/ (b = a /\ k = j),
         HandOK'
  PROVE  Related'
<1>1. worker_id[j] = WorkerOf[a] /\ status[j] \in Active \cup Terminal
  BY DEF Related, TaskMatchesRow, Active, Terminal
<1>2. Unlocked(j)
  BY <1>1 DEF Related, LockHeldOnce, Unlocked, Active, Terminal
<1>3. \A b \in Agents : task[b][j] # "none" => b = a
  BY DEF Related, OneRunner, Runs
<1>4. LockHeldOnce' /\ CancellingExists'
  BY <1>2 DEF Related, LockHeldOnce, CancellingExists, Unlocked, Exists, Active, Terminal,
              TypeOK, DbTypeOK, SchedulerTypeOK
<1>5. TaskMatchesRow'
  <2> SUFFICES ASSUME NEW b \in Agents, NEW k \in Jobs, task'[b][k] # "none"
               PROVE  worker_id'[k] = WorkerOf[b] /\ Matches(status'[k], task'[b][k])
    BY DEF TaskMatchesRow, Matches
  <2>1. CASE k = j
    BY <1>1, <1>3, <2>1 DEF TypeOK, DbTypeOK, AgentTypeOK
  <2>2. CASE k # j
    BY <2>2 DEF Related, TaskMatchesRow, Matches, TypeOK, DbTypeOK, AgentTypeOK
  <2> QED
    BY <2>1, <2>2
<1>6. ProcessMatchesRow'
  BY <1>1 DEF Related, ProcessMatchesRow, TypeOK, DbTypeOK
<1>7. DependenciesHonoured'
  BY <1>1 DEF Related, DependenciesHonoured, Active, Terminal, TypeOK, DbTypeOK
<1>8. \A b \in Agents, k \in Jobs : Runs(b, k)' => Runs(b, k)
  BY DEF Runs, TypeOK, AgentTypeOK
<1>9. OneRunner'
  BY <1>8 DEF Related, OneRunner
<1> QED
  BY <1>4, <1>5, <1>6, <1>7, <1>9 DEF Related

\* What a task may count on.
LEMMA TaskFacts ==
  ASSUME TypeOK, Related, NEW a \in Agents, NEW j \in Jobs, task[a][j] # "none"
  PROVE  /\ status[j] \in JobStatus
         /\ status[j] \in Active \cup Terminal
         /\ Matches(status[j], task[a][j])
         /\ status = [status EXCEPT ![j] = status[j]]
  BY DEF Related, TaskMatchesRow, Matches, Active, Terminal, JobStatus, TypeOK, DbTypeOK

\* A step of the task that leaves the row alone.
LEMMA TaskQuietStep ==
  ASSUME TypeOK, Related,
         NEW a \in Agents, NEW j \in Jobs, NEW phase \in Phases,
         task[a][j] # "none",
         UNCHANGED <<status, worker_id, depends_on, locked, cancelling>>,
         task' = [task EXCEPT ![a][j] = phase],
         phase # "none" => Matches(status[j], phase),
         \A b \in Agents, k \in Jobs :
            proc'[b][k] # "none" => proc[b][k] # "none" \/ (b = a /\ k = j),
         HandOK'
  PROVE  Related'
<1>1. /\ status[j] \in JobStatus
      /\ status[j] \in Active \cup Terminal
      /\ status = [status EXCEPT ![j] = status[j]]
  BY TaskFacts
<1>2. status' = [status EXCEPT ![j] = status[j]]
  BY <1>1
<1> QED
  BY <1>1, <1>2, TaskStep

\* HandOK speaks of one task and one process at a time.
LEMMA HandStep ==
  ASSUME TypeOK, HandOK, NEW a \in Agents, NEW j \in Jobs,
         NEW phase \in Phases, NEW value \in ExitCodes \cup KillReason \cup {NULL},
         Goto(a, j, phase, value),
         phase = "recording" => value \in ExitCodes,
         phase \in {"killing", "failing"} => value \in KillReason,
         \A b \in Agents, k \in Jobs : proc'[b][k] = "zombie" => exited'[b][k] \in ExitCodes
  PROVE  HandOK'
  BY DEF HandOK, Goto, TypeOK, AgentTypeOK

LEMMA KillHand ==
  ASSUME TypeOK, HandOK, NEW a \in Agents, NEW j \in Jobs, Kill(a, j)
  PROVE  /\ \A b \in Agents, k \in Jobs :
               proc'[b][k] = "zombie" => exited'[b][k] \in ExitCodes
         /\ \A b \in Agents, k \in Jobs : proc'[b][k] # "none" => proc[b][k] # "none"
  BY DEF Kill, KillReaching, HandOK, ExitCodes, TypeOK, AgentTypeOK

\* Popen reaps the other zombies of its host and adds one process.
LEMMA PopenProc ==
  ASSUME TypeOK, NEW a \in Agents, NEW j \in Jobs,
         NEW state \in {"running", "reaped"}, Popen(a, j, state)
  PROVE  \A b \in Agents, k \in Jobs :
          /\ proc'[b][k] = "zombie" => proc[b][k] = "zombie" /\ ~(b = a /\ k = j)
          /\ proc'[b][k] # "none" => proc[b][k] # "none" \/ (b = a /\ k = j)
<1>1. /\ Reaped(a) \in [Jobs -> ProcStates]
      /\ \A k \in Jobs : /\ Reaped(a)[k] # "zombie"
                         /\ Reaped(a)[k] # "none" => proc[a][k] # "none"
  BY ReapedType DEF Reaped, TypeOK
<1> DEFINE row == [Reaped(a) EXCEPT ![j] = state]
<1>2. \A k \in Jobs : /\ row[k] # "zombie"
                      /\ row[k] # "none" => proc[a][k] # "none" \/ k = j
  BY <1>1
<1>3. proc' = [proc EXCEPT ![a] = row]
  BY DEF Popen
<1> HIDE DEF row
<1>4. \A b \in Agents : proc'[b] = IF b = a THEN row ELSE proc[b]
  BY <1>3 DEF TypeOK, AgentTypeOK
<1> QED
  BY <1>2, <1>4

LEMMA RelatedJobTask ==
  ASSUME TypeOK, Related, UNCHANGED cancelling,
         NEW a \in Agents, NEW j \in Jobs, JobTask(a, j)
  PROVE  Related'
<1> USE DEF dbVars, clockVars, jobRows, workerRows, taskVars, procVars
<1>1. /\ {"none", "starting", "confirming", "watching", "checking",
          "recording", "killing", "failing", "stopping"} \subseteq Phases
      /\ Terminal \subseteq JobStatus
      /\ {"running", "completed", "failed"} \subseteq JobStatus
      /\ NULL \in ExitCodes \cup KillReason \cup {NULL}
  BY DEF Phases, JobStatus, Terminal
<1>2. HandOK
  BY DEF Related
<1>3. CASE StartProcess(a, j)
  <2>1. /\ UNCHANGED <<status, worker_id, depends_on, locked>>
        /\ task[a][j] = "starting"
        /\ Goto(a, j, "confirming", NULL)
    BY <1>3 DEF StartProcess
  <2>2. PICK state \in {"running", "reaped"} : Popen(a, j, state)
    BY <1>3 DEF StartProcess
  <2>3. \A b \in Agents, k \in Jobs :
          /\ proc'[b][k] = "zombie" => proc[b][k] = "zombie" /\ ~(b = a /\ k = j)
          /\ proc'[b][k] # "none" => proc[b][k] # "none" \/ (b = a /\ k = j)
    BY <2>2, PopenProc
  <2>4. \A b \in Agents, k \in Jobs : ~(b = a /\ k = j) => exited'[b][k] = exited[b][k]
    <3>1. CASE UNCHANGED exited
      BY <3>1
    <3>2. ASSUME NEW code \in ExitCodes, exited' = [exited EXCEPT ![a][j] = code]
          PROVE  \A b \in Agents, k \in Jobs :
                    ~(b = a /\ k = j) => exited'[b][k] = exited[b][k]
      BY <3>2 DEF TypeOK, AgentTypeOK
    <3> QED
      BY <1>3, <3>1, <3>2 DEF StartProcess
  <2>5. \A b \in Agents, k \in Jobs : proc'[b][k] = "zombie" => exited'[b][k] \in ExitCodes
    BY <1>2, <2>3, <2>4 DEF HandOK
  <2>6. HandOK'
    BY <1>1, <1>2, <2>1, <2>5, HandStep
  <2>7. Matches(status[j], "confirming")
    BY <2>1, TaskFacts DEF Matches
  <2>8. task' = [task EXCEPT ![a][j] = "confirming"]
    BY <2>1 DEF Goto
  <2> QED
    <3>1. \A b \in Agents, k \in Jobs :
             proc'[b][k] # "none" => proc[b][k] # "none" \/ (b = a /\ k = j)
      BY <2>3
    <3>2. "confirming" \in Phases
      BY <1>1
    <3> QED
      BY <2>1, <2>6, <2>7, <2>8, <3>1, <3>2, TaskQuietStep
<1>4. CASE ConfirmRunning(a, j)
  <2>1. task[a][j] # "none" /\ UNCHANGED <<worker_id, depends_on, locked>>
    BY <1>4 DEF ConfirmRunning
  <2>2. CASE status[j] \notin Terminal
    <3>1. /\ status' = [status EXCEPT ![j] = "running"]
          /\ Goto(a, j, "watching", NULL)
          /\ UNCHANGED procVars
      BY <1>4, <2>2 DEF ConfirmRunning, UpdateStatus
    <3>2. HandOK'
      BY <1>1, <1>2, <3>1, HandStep DEF HandOK
    <3> QED
      BY <1>1, <2>1, <2>2, <3>1, <3>2, TaskStep DEF Goto, Matches, Active
  <2>3. CASE status[j] \in Terminal
    <3>1. /\ status' = [status EXCEPT ![j] = status[j]]
          /\ Goto(a, j, "none", NULL)
          /\ Kill(a, j)
      BY <1>4, <2>3 DEF ConfirmRunning, UpdateStatus
    <3>2. HandOK'
      BY <1>1, <1>2, <3>1, HandStep, KillHand
    <3>3. UNCHANGED status
      BY <2>1, <3>1, TaskFacts
    <3>4. PICK phase \in Phases : phase = "none" /\ task' = [task EXCEPT ![a][j] = phase]
      BY <1>1, <3>1 DEF Goto
    <3>5. \A b \in Agents, k \in Jobs : proc'[b][k] # "none" => proc[b][k] # "none"
      BY <1>2, <3>1, KillHand
    <3>6. phase # "none" => Matches(status[j], phase)
      BY <3>4
    <3>7. \A b \in Agents, k \in Jobs :
             proc'[b][k] # "none" => proc[b][k] # "none" \/ (b = a /\ k = j)
      BY <3>5
    <3> QED
      BY <2>1, <3>2, <3>3, <3>4, <3>6, <3>7, TaskQuietStep
  <2> QED
    BY <2>2, <2>3
<1>5. CASE PollExit(a, j)
  <2>1. UNCHANGED <<status, worker_id, depends_on, locked, exited>> /\ task[a][j] = "watching"
    BY <1>5 DEF PollExit
  <2>2. PICK phase \in {"checking", "recording"}, value \in ExitCodes \cup {NULL} :
            /\ Goto(a, j, phase, value)
            /\ phase = "recording" => value \in ExitCodes
    BY <1>2, <1>5 DEF PollExit, HandOK, ExitCodes
  <2>3. \A b \in Agents, k \in Jobs :
          /\ proc'[b][k] = "zombie" => proc[b][k] = "zombie"
          /\ proc'[b][k] # "none" => proc[b][k] # "none"
    BY <1>5 DEF PollExit, TypeOK, AgentTypeOK
  <2>4. \A b \in Agents, k \in Jobs : proc'[b][k] = "zombie" => exited'[b][k] \in ExitCodes
    BY <1>2, <2>1, <2>3 DEF HandOK
  <2>5. HandOK'
    BY <1>1, <1>2, <2>2, <2>4, HandStep
  <2>6. Matches(status[j], phase)
    BY <2>1, <2>2, TaskFacts DEF Matches
  <2>7. task' = [task EXCEPT ![a][j] = phase]
    BY <2>2 DEF Goto
  <2> QED
    <3>1. \A b \in Agents, k \in Jobs : proc'[b][k] # "none" => proc[b][k] # "none"
      BY <2>3
    <3>2. phase \in Phases
      BY <1>1
    <3> QED
      BY <2>1, <2>5, <2>6, <2>7, <3>1, <3>2, TaskQuietStep
<1>6. CASE CheckStatus(a, j)
  <2>1. UNCHANGED <<status, worker_id, depends_on, locked>> /\ task[a][j] = "checking"
    BY <1>6 DEF CheckStatus
  <2>2. PICK phase \in {"none", "stopping", "killing", "watching"}, value \in KillReason \cup {NULL} :
            /\ Goto(a, j, phase, value)
            /\ phase = "killing" => value \in KillReason
    BY <1>6 DEF CheckStatus, KillReason
  <2>3. Kill(a, j) \/ UNCHANGED procVars
    BY <1>6 DEF CheckStatus
  <2>4. HandOK'
    BY <1>1, <1>2, <2>2, <2>3, HandStep, KillHand DEF HandOK
  <2>5. Matches(status[j], phase)
    BY <2>1, <2>2, TaskFacts DEF Matches
  <2>6. task' = [task EXCEPT ![a][j] = phase]
    BY <2>2 DEF Goto
  <2>7. \A b \in Agents, k \in Jobs : proc'[b][k] # "none" => proc[b][k] # "none"
    BY <1>2, <2>3, KillHand
  <2>8. task[a][j] # "none" /\ phase \in Phases
    BY <2>1 DEF Phases
  <2> QED
    BY <2>1, <2>4, <2>5, <2>6, <2>7, <2>8, TaskQuietStep
<1>7. ASSUME NEW st \in {"completed", "failed"}, NEW code, NEW reason,
             task[a][j] \in {"recording", "failing"},
             UpdateOutcome(j, st, code, reason),
             Goto(a, j, "none", NULL), UNCHANGED <<locked, proc, exited>>
      PROVE  Related'
  <2>1. PICK to \in JobStatus :
            /\ status' = [status EXCEPT ![j] = to]
            /\ to \in Active \cup Terminal
            /\ status[j] \in Terminal => to = status[j]
    BY <1>1, <1>7, TaskFacts DEF UpdateOutcome, UpdateStatus, Terminal
  <2>2. HandOK'
    BY <1>1, <1>2, <1>7, HandStep DEF HandOK
  <2> QED
    BY <1>1, <1>7, <2>1, <2>2, TaskStep DEF UpdateOutcome, Goto
<1>8. CASE RecordExit(a, j)
  BY <1>7, <1>8 DEF RecordExit
<1>9. CASE RecordKill(a, j)
  BY <1>7, <1>9 DEF RecordKill
<1>10. CASE GraceExit(a, j) \/ GraceExpires(a, j)
  <2>1. UNCHANGED <<status, worker_id, depends_on, locked>>
    BY <1>10 DEF GraceExit, GraceExpires
  <2>2. AfterGrace(a, j)
    BY <1>10 DEF GraceExit, GraceExpires
  <2>3. PICK phase \in {"failing", "none"}, value \in KillReason \cup {NULL} :
            /\ Goto(a, j, phase, value)
            /\ phase = "failing" => value \in KillReason /\ task[a][j] = "killing"
    BY <1>2, <2>2 DEF AfterGrace, HandOK
  <2>4. task[a][j] \in {"killing", "stopping"}
    BY <2>2 DEF AfterGrace
  <2>5. \A b \in Agents, k \in Jobs :
          /\ proc'[b][k] = "zombie" => exited'[b][k] \in ExitCodes
          /\ proc'[b][k] # "none" => proc[b][k] # "none"
    <3>1. CASE GraceExit(a, j)
      BY <1>2, <3>1 DEF GraceExit, HandOK, TypeOK, AgentTypeOK
    <3>2. CASE GraceExpires(a, j)
      BY <1>2, <3>2, KillHand DEF GraceExpires
    <3> QED
      BY <1>10, <3>1, <3>2
  <2>6. HandOK'
    BY <1>1, <1>2, <2>3, <2>5, HandStep
  <2>7. phase # "none" => Matches(status[j], phase)
    BY <2>3, TaskFacts DEF Matches
  <2>8. task' = [task EXCEPT ![a][j] = phase]
    BY <2>3 DEF Goto
  <2> QED
    BY <1>1, <2>1, <2>3, <2>4, <2>5, <2>6, <2>7, <2>8, TaskQuietStep
<1> QED
  BY <1>3, <1>4, <1>5, <1>6, <1>8, <1>9, <1>10 DEF JobTask

-----------------------------------------------------------------------------
(* The other steps.                                                        *)

LEMMA RelatedTime ==
  ASSUME TypeOK, Related, Tick \/ \E w \in Workers : LastSeenAges(w)
  PROVE  Related'
  BY RelatedStable
     DEF Tick, LastSeenAges, dbVars, clockVars, jobRows, workerRows,
         schedulerVars, healthVars, agentVars, taskVars, procVars

\* The second statement of a claim, on the row it holds.
LEMMA AssignStep ==
  ASSUME TypeOK, Related, NEW a \in Agents, locked[a] # NULL,
         AssignTo(WorkerOf[a], locked[a]),
         locked' = [locked EXCEPT ![a] = NULL],
         UNCHANGED cancelling
  PROVE  /\ LockHeldOnce' /\ CancellingExists' /\ DependenciesHonoured'
         /\ status[locked[a]] = "ready"
         /\ status' = [status EXCEPT ![locked[a]] = "assigned"]
         /\ worker_id' = [worker_id EXCEPT ![locked[a]] = WorkerOf[a]]
         /\ \A b \in Agents : task[b][locked[a]] = "none" /\ proc[b][locked[a]] = "none"
<1>1. PICK j \in Jobs : j = locked[a]
  BY DEF TypeOK, DbTypeOK
<1>2. status[j] = "ready" /\ \A b \in Agents : locked[b] = j => b = a
  BY <1>1 DEF Related, LockHeldOnce
<1>3. /\ status' = [status EXCEPT ![j] = "assigned"]
      /\ worker_id' = [worker_id EXCEPT ![j] = WorkerOf[a]]
      /\ UNCHANGED depends_on
  BY <1>1, <1>2 DEF AssignTo
<1>4. \A b \in Agents : task[b][j] = "none" /\ proc[b][j] = "none"
  BY <1>2 DEF Related, TaskMatchesRow, ProcessMatchesRow, Active, Terminal
<1>5. LockHeldOnce'
  BY <1>1, <1>2, <1>3, NullAssumption DEF Related, LockHeldOnce, TypeOK, DbTypeOK
<1>6. CancellingExists'
  BY <1>3 DEF Related, CancellingExists, Exists, TypeOK, DbTypeOK, SchedulerTypeOK
<1>7. DependenciesHonoured'
  BY <1>2, <1>3 DEF Related, DependenciesHonoured, TypeOK, DbTypeOK
<1> QED
  BY <1>1, <1>2, <1>3, <1>4, <1>5, <1>6, <1>7

LEMMA RelatedClaim ==
  ASSUME TypeOK, Related, UNCHANGED cancelling, NEW a \in Agents,
         \/ \E j \in Jobs : ClaimSelect(a, j)
         \/ ClaimCommit(a)
         \/ ClaimFails(a)
  PROVE  Related'
<1> USE DEF dbVars, clockVars, jobRows, workerRows, agentVars, taskVars, procVars
<1>1. ASSUME NEW j \in Jobs, ClaimSelect(a, j)
      PROVE  Related'
  <2>1. /\ status[j] = "ready"
        /\ \A b \in Agents : locked[b] # j
        /\ locked' = [locked EXCEPT ![a] = j]
        /\ UNCHANGED <<status, worker_id, depends_on, task, hand, proc, exited>>
    BY <1>1 DEF ClaimSelect, Claimable, Unlocked
  <2>2. LockHeldOnce'
    BY <2>1 DEF Related, LockHeldOnce, TypeOK, DbTypeOK
  <2> QED
    BY <2>1, <2>2 DEF Related, HandOK, OneRunner, Runs, CancellingExists, Exists,
                      TaskMatchesRow, ProcessMatchesRow, DependenciesHonoured
<1>2. CASE ClaimCommit(a)
  <2>1. /\ locked[a] # NULL
        /\ AssignTo(WorkerOf[a], locked[a])
        /\ locked' = [locked EXCEPT ![a] = NULL]
        /\ UNCHANGED procVars
    BY <1>2 DEF ClaimCommit
  <2>2. /\ LockHeldOnce' /\ CancellingExists' /\ DependenciesHonoured'
        /\ status[locked[a]] = "ready"
        /\ status' = [status EXCEPT ![locked[a]] = "assigned"]
        /\ worker_id' = [worker_id EXCEPT ![locked[a]] = WorkerOf[a]]
        /\ \A b \in Agents : task[b][locked[a]] = "none" /\ proc[b][locked[a]] = "none"
    BY <2>1, AssignStep
  <2>3. PICK j \in Jobs : j = locked[a]
    BY <2>1 DEF TypeOK, DbTypeOK
  <2>4. Goto(a, j, "starting", NULL)
    BY <1>2, <2>2, <2>3 DEF ClaimCommit
  <2>5. HandOK'
    BY <2>1, <2>4, HandStep DEF Related, HandOK, Phases
  <2>6. task' = [task EXCEPT ![a][j] = "starting"]
    BY <2>4 DEF Goto
  <2>7. TaskMatchesRow'
    BY <2>2, <2>3, <2>6 DEF Related, TaskMatchesRow, TypeOK, DbTypeOK, AgentTypeOK
  <2>8. ProcessMatchesRow'
    BY <2>1, <2>2, <2>3 DEF Related, ProcessMatchesRow, TypeOK, DbTypeOK
  <2>9. OneRunner'
    <3>1. \A b \in Agents, k \in Jobs : Runs(b, k)' => Runs(b, k) \/ (b = a /\ k = j)
      BY <2>1, <2>6 DEF Runs, TypeOK, AgentTypeOK
    <3>2. \A b \in Agents : ~Runs(b, j)
      BY <2>2, <2>3 DEF Runs
    <3> QED
      BY <3>1, <3>2 DEF Related, OneRunner
  <2> QED
    BY <2>2, <2>5, <2>7, <2>8, <2>9 DEF Related
<1>3. CASE ClaimFails(a)
  <2>1. /\ locked[a] # NULL
        /\ locked' = [locked EXCEPT ![a] = NULL]
        /\ UNCHANGED <<task, hand, proc, exited>>
    BY <1>3 DEF ClaimFails
  <2>2. HandOK' /\ OneRunner'
    BY <2>1 DEF Related, HandOK, OneRunner, Runs
  <2>3. CASE UNCHANGED jobRows
    <3>1. LockHeldOnce'
      BY <2>1, <2>3, NullAssumption DEF Related, LockHeldOnce, TypeOK, DbTypeOK
    <3> QED
      BY <2>1, <2>2, <2>3, <3>1 DEF Related, CancellingExists, Exists, TaskMatchesRow,
                                    ProcessMatchesRow, DependenciesHonoured
  <2>4. CASE AssignTo(WorkerOf[a], locked[a])
    <3>1. /\ LockHeldOnce' /\ CancellingExists' /\ DependenciesHonoured'
          /\ status' = [status EXCEPT ![locked[a]] = "assigned"]
          /\ worker_id' = [worker_id EXCEPT ![locked[a]] = WorkerOf[a]]
          /\ \A b \in Agents : task[b][locked[a]] = "none" /\ proc[b][locked[a]] = "none"
      BY <2>1, <2>4, AssignStep
    <3>2. TaskMatchesRow' /\ ProcessMatchesRow'
      BY <2>1, <3>1 DEF Related, TaskMatchesRow, ProcessMatchesRow, TypeOK, DbTypeOK
    <3> QED
      BY <2>2, <3>1, <3>2 DEF Related
  <2> QED
    BY <1>3, <2>3, <2>4 DEF ClaimFails
<1> QED
  BY <1>1, <1>2, <1>3

LEMMA RelatedCrash ==
  ASSUME TypeOK, Related, UNCHANGED cancelling, NEW a \in Agents, Crash(a)
  PROVE  Related'
<1>1. /\ task' = [task EXCEPT ![a] = [j \in Jobs |-> "none"]]
      /\ locked' = [locked EXCEPT ![a] = NULL]
      /\ UNCHANGED exited
  BY DEF Crash
<1>2. PICK survives \in {"orphan", "reaped"} :
         proc' = [proc EXCEPT ![a] = [j \in Jobs |->
              CASE proc[a][j] \in {"running", "orphan"} -> survives
                [] proc[a][j] = "zombie" -> "reaped"
                [] OTHER -> proc[a][j]]]
  BY DEF Crash
<1>3. \A b \in Agents, j \in Jobs :
        /\ task'[b][j] = IF b = a THEN "none" ELSE task[b][j]
        /\ b # a => hand'[b][j] = hand[b][j]
  BY <1>1 DEF Crash, TypeOK, AgentTypeOK
<1>4. \A b \in Agents, j \in Jobs :
        /\ proc'[b][j] = "zombie" => b # a /\ proc[b][j] = "zombie"
        /\ proc'[b][j] # "none" => proc[b][j] # "none"
  BY <1>2 DEF TypeOK, AgentTypeOK
<1>5. HandOK' /\ OneRunner'
  BY <1>1, <1>3, <1>4 DEF Related, HandOK, OneRunner, Runs
<1>6. CASE UNCHANGED jobRows
  <2>1. LockHeldOnce'
    BY <1>1, <1>6, NullAssumption DEF jobRows, Related, LockHeldOnce, TypeOK, DbTypeOK
  <2>2. TaskMatchesRow' /\ ProcessMatchesRow'
    BY <1>3, <1>4, <1>6 DEF jobRows, Related, TaskMatchesRow, ProcessMatchesRow
  <2> QED
    BY <1>5, <1>6, <2>1, <2>2 DEF jobRows, Related, CancellingExists, Exists,
                                   DependenciesHonoured
<1>7. CASE locked[a] # NULL /\ AssignTo(WorkerOf[a], locked[a])
  <2>1. /\ LockHeldOnce' /\ CancellingExists' /\ DependenciesHonoured'
        /\ status' = [status EXCEPT ![locked[a]] = "assigned"]
        /\ worker_id' = [worker_id EXCEPT ![locked[a]] = WorkerOf[a]]
        /\ \A b \in Agents : task[b][locked[a]] = "none" /\ proc[b][locked[a]] = "none"
    BY <1>1, <1>7, AssignStep
  <2>2. \A b \in Agents, j \in Jobs :
          task[b][j] # "none" \/ proc[b][j] # "none" =>
             /\ j # locked[a]
             /\ status'[j] = status[j]
             /\ worker_id'[j] = worker_id[j]
    BY <2>1 DEF TypeOK, DbTypeOK
  <2>3. TaskMatchesRow'
    BY <1>3, <2>2 DEF Related, TaskMatchesRow
  <2>4. ProcessMatchesRow'
    BY <1>4, <2>2 DEF Related, ProcessMatchesRow
  <2> QED
    BY <1>5, <2>1, <2>3, <2>4 DEF Related
<1> QED
  BY <1>6, <1>7 DEF Crash

\* What else can befall a task or its process.
LEMMA RelatedMishap ==
  ASSUME TypeOK, Related, UNCHANGED cancelling, NEW a \in Agents, NEW j \in Jobs,
         SpawnFails(a, j) \/ TaskFails(a, j) \/ ConfirmAnswerLost(a, j) \/ ProcessExits(a, j)
  PROVE  Related'
<1> USE DEF dbVars, clockVars, jobRows, workerRows, taskVars, procVars
<1>1. CASE SpawnFails(a, j) \/ TaskFails(a, j)
  <2>1. /\ task[a][j] # "none"
        /\ Goto(a, j, "none", NULL)
        /\ UNCHANGED <<status, worker_id, depends_on, locked, exited>>
    BY <1>1 DEF SpawnFails, TaskFails
  <2>2. \A b \in Agents, k \in Jobs :
          /\ proc'[b][k] = "zombie" => proc[b][k] = "zombie"
          /\ proc'[b][k] # "none" => proc[b][k] # "none"
    <3>1. CASE UNCHANGED proc
      BY <3>1
    <3>2. CASE proc' = [proc EXCEPT ![a] = Reaped(a)]
      BY <3>2 DEF Reaped, TypeOK, AgentTypeOK
    <3> QED
      BY <1>1, <3>1, <3>2 DEF SpawnFails, TaskFails
  <2>3. HandOK'
    BY <2>1, <2>2, HandStep DEF Related, HandOK, Phases
  <2>4. PICK phase \in Phases : phase = "none" /\ task' = [task EXCEPT ![a][j] = phase]
    BY <2>1 DEF Goto, Phases
  <2>5. phase # "none" => Matches(status[j], phase)
    BY <2>4
  <2>6. \A b \in Agents, k \in Jobs :
          proc'[b][k] # "none" => proc[b][k] # "none" \/ (b = a /\ k = j)
    BY <2>2
  <2> QED
    BY <2>1, <2>3, <2>4, <2>5, <2>6, TaskQuietStep
<1>2. CASE ConfirmAnswerLost(a, j)
  <2>1. /\ task[a][j] = "confirming"
        /\ Goto(a, j, "none", NULL)
        /\ UNCHANGED <<worker_id, depends_on, locked, proc, exited>>
    BY <1>2 DEF ConfirmAnswerLost
  <2>2. PICK st \in JobStatus : /\ status' = [status EXCEPT ![j] = st]
                                /\ st \in Active \cup Terminal
                                /\ status[j] \in Terminal => st = status[j]
    <3>1. status' = [status EXCEPT ![j] = IF status[j] \in Terminal THEN status[j] ELSE "running"]
      BY <1>2 DEF ConfirmAnswerLost, UpdateStatus
    <3>2. status[j] \in JobStatus
      BY <2>1, TaskFacts
    <3>3. "running" \in JobStatus /\ "running" \in Active
      BY DEF JobStatus, Active
    <3> QED
      BY <3>1, <3>2, <3>3
  <2>3. HandOK'
    BY <2>1, HandStep DEF Related, HandOK, Phases
  <2>4. PICK phase \in Phases : phase = "none" /\ task' = [task EXCEPT ![a][j] = phase]
    BY <2>1 DEF Goto, Phases
  <2>5. phase # "none" => Matches(st, phase)
    BY <2>4
  <2>6. \A b \in Agents, k \in Jobs :
          proc'[b][k] # "none" => proc[b][k] # "none" \/ (b = a /\ k = j)
    BY <2>1
  <2> QED
    BY <2>1, <2>2, <2>3, <2>4, <2>5, <2>6, TaskStep
<1>3. CASE ProcessExits(a, j)
  <2>1. /\ UNCHANGED <<status, worker_id, depends_on, locked, task, hand>>
        /\ proc[a][j] # "none"
    BY <1>3 DEF ProcessExits
  <2>2. HandOK' /\ OneRunner' /\ ProcessMatchesRow'
    BY <1>3, <2>1 DEF ProcessExits, Related, HandOK, OneRunner, Runs, ProcessMatchesRow,
                      TypeOK, AgentTypeOK
  <2> QED
    BY <2>1, <2>2 DEF Related, LockHeldOnce, CancellingExists, Exists, TaskMatchesRow,
                      DependenciesHonoured
<1> QED
  BY <1>1, <1>2, <1>3

LEMMA RelatedAgent ==
  ASSUME TypeOK, Related, AgentNext
  PROVE  Related'
<1>1. UNCHANGED cancelling
  BY DEF AgentNext, schedulerVars
<1>2. ASSUME NEW a \in Agents,
             Register(a) \/ Heartbeat(a) \/ ClaimCount(a) \/ ClaimNothing(a)
      PROVE  Related'
  BY <1>1, <1>2, RelatedStable
     DEF Register, Heartbeat, ClaimCount, ClaimIf, ClaimNothing, dbVars, clockVars, jobRows,
         workerRows, agentVars, taskVars, procVars
<1>3. ASSUME NEW j \in Jobs,
             \/ RuntimeElapses(j)
             \/ \E a \in Agents : ProcessForks(a, j) \/ DescendantsExit(a, j)
      PROVE  Related'
  BY <1>1, <1>3, RelatedStable
     DEF RuntimeElapses, ProcessForks, DescendantsExit, dbVars, jobRows, taskVars, procVars
<1> QED
  BY <1>1, <1>2, <1>3, RelatedClaim, RelatedCrash, RelatedJobTask, RelatedMishap
     DEF AgentNext

-----------------------------------------------------------------------------
(* The invariant and what follows from it.                                 *)

\* What writes to the jobs table; only time moves the clock.
LEMMA RowMoves ==
  ASSUME TypeOK, [Next]_vars
  PROVE  \/ UNCHANGED jobRows /\ now' \in {now, now + 1}
         \/ /\ UNCHANGED now
            /\ \/ \E j \in Jobs, start \in 0 .. MaxTime, deps \in SUBSET Jobs : ScheduleJob(j, start, deps)
               \/ \E j \in Jobs : CancelWrite(j)
               \/ ReadyTransition
               \/ \E w \in Workers : MarkOffline(w)
               \/ \E a \in Agents : locked[a] # NULL /\ AssignTo(WorkerOf[a], locked[a])
               \/ \E a \in Agents, j \in Jobs :
                     \/ ConfirmRunning(a, j) \/ ConfirmAnswerLost(a, j)
                     \/ RecordExit(a, j) \/ RecordKill(a, j)
<1> USE DEF dbVars, clockVars
<1>1. CASE Tick \/ (\E w \in Workers : LastSeenAges(w)) \/ UNCHANGED vars
  BY <1>1 DEF Tick, LastSeenAges, vars
<1>2. CASE SchedulerNext
  <2>1. ASSUME NEW s \in Schedulers, MarkUnanswered(s) \/ \E w \in Workers : MarkStage2(s, w)
        PROVE  UNCHANGED now /\ \E w \in Workers : MarkOffline(w)
    BY <2>1 DEF MarkUnanswered, MarkStage2, TypeOK, SchedulerTypeOK
  <2>2. ASSUME NEW s \in Schedulers,
               \/ HealthSnapshot(s) \/ HealthPassFails(s) \/ Shutdown(s)
               \/ \E w \in Workers, alive \in BOOLEAN : Probe(s, w, alive)
        PROVE  UNCHANGED jobRows /\ UNCHANGED now
    BY <2>2 DEF HealthSnapshot, HealthPassFails, Shutdown, AbandonPass, Probe
  <2>3. ASSUME NEW j \in Jobs, CancelRead(j) \/ CancelFails(j)
        PROVE  UNCHANGED jobRows /\ UNCHANGED now
    BY <2>3 DEF CancelRead, CancelFails
  <2>4. ASSUME NEW j \in Jobs, NEW start, NEW deps,
               ScheduleJob(j, start, deps) \/ CancelWrite(j) \/ ReadyTransition
        PROVE  UNCHANGED now
    BY <2>4 DEF ScheduleJob, Submitted, CancelWrite, ReadyTransition
  <2>5. CASE ReadyTransition
    BY <2>5 DEF ReadyTransition
  <2> QED
    BY <1>2, <2>1, <2>2, <2>3, <2>4, <2>5 DEF SchedulerNext
<1>3. CASE AgentNext
  <2>1. ASSUME NEW a \in Agents, ClaimCommit(a) \/ ClaimFails(a) \/ Crash(a)
        PROVE  /\ UNCHANGED now
               /\ UNCHANGED jobRows \/ (locked[a] # NULL /\ AssignTo(WorkerOf[a], locked[a]))
    BY <2>1 DEF ClaimCommit, ClaimFails, Crash
  <2>2. ASSUME NEW a \in Agents, NEW j \in Jobs,
               \/ ConfirmRunning(a, j) \/ ConfirmAnswerLost(a, j) \/ RecordExit(a, j) \/ RecordKill(a, j)
        PROVE  UNCHANGED now
    BY <2>2 DEF ConfirmRunning, ConfirmAnswerLost, RecordExit, RecordKill
  <2>3. ASSUME NEW a \in Agents, NEW j \in Jobs,
               \/ ClaimSelect(a, j) \/ StartProcess(a, j) \/ PollExit(a, j) \/ CheckStatus(a, j)
               \/ GraceExit(a, j) \/ GraceExpires(a, j) \/ SpawnFails(a, j) \/ TaskFails(a, j)
               \/ ProcessExits(a, j) \/ ProcessForks(a, j) \/ DescendantsExit(a, j)
        PROVE  UNCHANGED jobRows /\ UNCHANGED now
    BY <2>3 DEF ClaimSelect, StartProcess, PollExit, CheckStatus, GraceExit, GraceExpires, SpawnFails,
                TaskFails, ProcessExits, ProcessForks, DescendantsExit
  <2>4. ASSUME NEW a \in Agents, Register(a) \/ Heartbeat(a) \/ ClaimCount(a) \/ ClaimNothing(a)
        PROVE  UNCHANGED jobRows /\ UNCHANGED now
    BY <2>4 DEF Register, Heartbeat, ClaimCount, ClaimIf, ClaimNothing
  <2>5. ASSUME NEW j \in Jobs, RuntimeElapses(j)
        PROVE  UNCHANGED jobRows /\ UNCHANGED now
    BY <2>5 DEF RuntimeElapses
  <2> QED
    BY <1>3, <2>1, <2>2, <2>3, <2>4, <2>5 DEF AgentNext, JobTask
<1> QED
  BY <1>1, <1>2, <1>3 DEF Next

\* A dependency that exists stays, and only existing jobs are depended upon.
LEMMA DependenciesStep ==
  ASSUME TypeOK, Related, DependenciesExist, [Next]_vars
  PROVE  DependenciesExist'
<1> USE DEF TypeOK, DbTypeOK, Exists, jobRows
<1>1. ASSUME NEW j \in Jobs, NEW start, NEW deps, ScheduleJob(j, start, deps)
      PROVE  DependenciesExist'
  BY <1>1 DEF ScheduleJob, Submitted, InsertJob, DependenciesExist
<1> DEFINE Quiet == depends_on' = depends_on /\ \A j \in Jobs : Exists(j)' <=> Exists(j)
<1>2. ASSUME NEW j \in Jobs, NEW new \in JobStatus, UpdateStatus(j, new), Exists(j),
             UNCHANGED depends_on
      PROVE  Quiet
  BY <1>2 DEF UpdateStatus, JobStatus
<1>3. ASSUME NEW j \in Jobs, CancelWrite(j)
      PROVE  Quiet
  BY <1>2, <1>3 DEF CancelWrite, Related, CancellingExists, JobStatus
<1>4. ASSUME NEW a \in Agents, NEW j \in Jobs,
             \/ ConfirmRunning(a, j) \/ ConfirmAnswerLost(a, j)
             \/ RecordExit(a, j) \/ RecordKill(a, j)
      PROVE  Quiet
  <2>1. Exists(j)
    BY <1>4 DEF ConfirmRunning, ConfirmAnswerLost, RecordExit, RecordKill, Related, TaskMatchesRow
  <2> QED
    BY <1>2, <1>4, <2>1 DEF ConfirmRunning, ConfirmAnswerLost, RecordExit, RecordKill, UpdateOutcome, JobStatus
<1>5. ASSUME ReadyTransition
      PROVE  Quiet
  BY <1>5 DEF ReadyTransition, Eligible
<1>6. ASSUME NEW w \in Workers, MarkOffline(w)
      PROVE  Quiet
  BY <1>6 DEF MarkOffline, UpdateTogether, ActiveJobs, Active
<1>7. ASSUME NEW a \in Agents, AssignTo(WorkerOf[a], locked[a])
      PROVE  Quiet
  BY <1>7 DEF AssignTo
<1>8. ASSUME Quiet
      PROVE  DependenciesExist'
  BY <1>8 DEF DependenciesExist
<1>9. CASE UNCHANGED jobRows
  BY <1>8, <1>9
<1> QED
  BY <1>1, <1>3, <1>4, <1>5, <1>6, <1>7, <1>8, <1>9, RowMoves

LEMMA InvStep == Inv /\ [Next]_vars => Inv'
<1> SUFFICES ASSUME TypeOK, Related, DependenciesExist, [Next]_vars
             PROVE  TypeOK' /\ Related'
  BY DependenciesStep DEF Inv, Related
<1>1. HandOK
  BY DEF Related
<1>2. CASE Next
  BY <1>1, <1>2, TypeTime, TypeScheduler, TypeAgent, RelatedTime, RelatedScheduler, RelatedAgent
     DEF Next
<1>3. CASE UNCHANGED vars
  <2>1. TypeOK'
    BY <1>3 DEF vars, dbVars, clockVars, jobRows, workerRows, schedulerVars, healthVars,
                agentVars, taskVars, procVars, TypeOK, DbTypeOK, SchedulerTypeOK, AgentTypeOK
  <2>2. Related'
    BY <1>3, RelatedStable
       DEF vars, dbVars, clockVars, jobRows, workerRows, schedulerVars, healthVars,
           agentVars, taskVars, procVars
  <2> QED
    BY <2>1, <2>2
<1> QED
  BY <1>2, <1>3

\* Every reachable state of the system satisfies the inductive invariant.
THEOREM Invariance == Spec => []Inv
<1>1. Init => Inv
  BY TypeInit, RelatedInit DEF Inv, Related, Init, DbInit, DependenciesExist, Exists
<1> QED
  BY <1>1, InvStep, PTL DEF Spec

\* Every column and every coroutine variable keeps to its domain: no statement
\* of either component can leave a status or a phase outside its vocabulary.
THEOREM TypeCorrect == Spec => []TypeOK
<1>1. Inv => TypeOK
  BY DEF Inv
<1> QED
  BY <1>1, Invariance, PTL

\* The rows never contradict the run_job tasks: whatever is cancelled, lost,
\* crashed or restarted, a task's row names its worker and shows the status
\* the task last wrote unless the scheduler has ended the job.
THEOREM TasksAgreeWithRows == Spec => []TaskMatchesRow
<1>1. Inv => TaskMatchesRow
  BY DEF Inv
<1> QED
  BY <1>1, Invariance, PTL

\* For any number of agents claiming concurrently, and through their crashes
\* and restarts, a job is only ever in the hands of one of them, even when
\* several go by one hostname.
THEOREM NoDoubleExecution == Spec => []SingleExecutor
<1>1. ASSUME Inv
      PROVE  SingleExecutor
  <2> SUFFICES ASSUME NEW j \in Jobs, NEW a \in Agents, NEW b \in Agents,
                      Engaged(a, j), Engaged(b, j)
               PROVE  a = b
    BY DEF SingleExecutor
  <2>1. \A c \in Agents : locked[c] = j => \A d \in Agents : ~Runs(d, j)
    BY <1>1 DEF Inv, LockHeldOnce, TaskMatchesRow, ProcessMatchesRow, Runs, Active, Terminal
  <2>2. CASE locked[a] = j \/ locked[b] = j
    BY <1>1, <2>1, <2>2 DEF Inv, LockHeldOnce, Engaged
  <2>3. CASE Runs(a, j) /\ Runs(b, j)
    BY <1>1, <2>3 DEF Inv, OneRunner
  <2> QED
    BY <2>2, <2>3 DEF Engaged
<1> QED
  BY <1>1, Invariance, PTL

\* For any dependency graph the users submit, no job gets past pending before
\* all it depends on has completed, and completed jobs stay completed.
THEOREM NoEarlyStart == Spec => []DependenciesHonoured
<1>1. Inv => DependenciesHonoured
  BY DEF Inv
<1> QED
  BY <1>1, Invariance, PTL
=============================================================================
