---------------------------- MODULE OutcomeProofs ----------------------------
(***************************************************************************)
(* What the rows and the fleet listing tell is what happened, for every    *)
(* instance of Lightcron: whom a running job is counted for, who holds the *)
(* active jobs, which live workers the health-check loop takes offline,    *)
(* and that no end of a job is invented.                                   *)
(***************************************************************************)
EXTENDS CapacityProofs

-----------------------------------------------------------------------------
(* The fleet listing.                                                      *)

\* Rows of worker_status are never deleted.
LEMMA FleetGrows ==
  ASSUME TypeOK, [Next]_vars
  PROVE  Fleet \subseteq Fleet'
<1> USE DEF dbVars, workerRows
<1>1. ASSUME UNCHANGED worker_status
      PROVE  Fleet \subseteq Fleet'
  BY <1>1 DEF Fleet
<1>2. ASSUME NEW w \in Workers, NEW v \in {"online", "offline"},
             worker_status' = [worker_status EXCEPT ![w] = v]
      PROVE  Fleet \subseteq Fleet'
  BY <1>2 DEF Fleet, TypeOK, DbTypeOK
<1>3. ASSUME NEW a \in Agents, Register(a)
      PROVE  Fleet \subseteq Fleet'
  BY <1>2, <1>3, WorkerOfAssumption DEF Register, UpsertWorker
<1>4. ASSUME NEW w \in Workers, MarkOffline(w)
      PROVE  Fleet \subseteq Fleet'
  BY <1>4 DEF MarkOffline, UpdateTogether, Fleet, TypeOK, DbTypeOK
<1>5. CASE SchedulerNext
  <2>1. ASSUME NEW s \in Schedulers, MarkUnanswered(s)
        PROVE  Fleet \subseteq Fleet'
    BY <1>4, <2>1 DEF MarkUnanswered, TypeOK, SchedulerTypeOK
  <2>2. ASSUME NEW s \in Schedulers, NEW w \in Workers, MarkStage2(s, w)
        PROVE  Fleet \subseteq Fleet'
    BY <1>4, <2>2 DEF MarkStage2
  <2> QED
    BY <1>1, <1>5, <2>1, <2>2
       DEF SchedulerNext, ScheduleJob, Submitted, CancelRead, CancelWrite, CancelFails,
           ReadyTransition, HealthSnapshot, HealthPassFails, Shutdown, AbandonPass, Probe
<1>6. ASSUME NEW a \in Agents,
             \/ Heartbeat(a) \/ Crash(a) \/ ClaimCount(a) \/ ClaimNothing(a)
             \/ ClaimCommit(a) \/ ClaimFails(a)
      PROVE  UNCHANGED worker_status
  BY <1>6 DEF Heartbeat, UpdateLastSeen, Crash, ClaimCount, ClaimIf, ClaimNothing, ClaimCommit, ClaimFails
<1>7. ASSUME NEW a \in Agents, NEW j \in Jobs,
             \/ ClaimSelect(a, j) \/ JobTask(a, j) \/ SpawnFails(a, j)
             \/ TaskFails(a, j) \/ ConfirmAnswerLost(a, j)
             \/ ProcessExits(a, j) \/ ProcessForks(a, j) \/ DescendantsExit(a, j)
      PROVE  UNCHANGED worker_status
  BY <1>7 DEF ClaimSelect, JobTask, StartProcess, ConfirmRunning, PollExit, CheckStatus,
              RecordExit, RecordKill, GraceExit, GraceExpires, SpawnFails,
              TaskFails, ConfirmAnswerLost, ProcessExits, ProcessForks, DescendantsExit
<1>8. ASSUME NEW j \in Jobs, RuntimeElapses(j)
      PROVE  UNCHANGED worker_status
  BY <1>8 DEF RuntimeElapses
<1>9. ASSUME Tick \/ (\E w \in Workers : LastSeenAges(w)) \/ UNCHANGED vars
      PROVE  UNCHANGED worker_status
  BY <1>9 DEF Tick, LastSeenAges, vars
<1> QED
  BY <1>1, <1>3, <1>5, <1>6, <1>7, <1>8, <1>9 DEF Next, AgentNext

\* An agent comes up by registering, which writes its row.
LEMMA UpRegisters ==
  ASSUME TypeOK, [Next]_vars, NEW a \in Agents, a \in up', a \notin up
  PROVE  Register(a) /\ WorkerOf[a] \in Fleet'
<1> USE DEF agentVars
<1>1. ASSUME NEW b \in Agents, Register(b)
      PROVE  Register(a) /\ WorkerOf[a] \in Fleet'
  <2>1. b = a
    BY <1>1 DEF Register
  <2>2. worker_status' = [worker_status EXCEPT ![WorkerOf[a]] = "online"]
    BY <1>1, <2>1 DEF Register, UpsertWorker
  <2> QED
    BY <1>1, <2>1, <2>2, WorkerOfAssumption DEF Fleet, TypeOK, DbTypeOK
<1>2. ASSUME NEW b \in Agents,
             \/ Heartbeat(b) \/ Crash(b) \/ ClaimCount(b) \/ ClaimNothing(b)
             \/ ClaimCommit(b) \/ ClaimFails(b)
      PROVE  up' \subseteq up
  BY <1>2 DEF Heartbeat, Crash, ClaimCount, ClaimIf, ClaimNothing, ClaimCommit, ClaimFails
<1>3. ASSUME NEW b \in Agents, NEW j \in Jobs,
             \/ ClaimSelect(b, j) \/ JobTask(b, j) \/ SpawnFails(b, j)
             \/ TaskFails(b, j) \/ ConfirmAnswerLost(b, j)
             \/ ProcessExits(b, j) \/ ProcessForks(b, j) \/ DescendantsExit(b, j)
      PROVE  up' \subseteq up
  BY <1>3 DEF ClaimSelect, JobTask, StartProcess, ConfirmRunning, PollExit, CheckStatus,
              RecordExit, RecordKill, GraceExit, GraceExpires, SpawnFails,
              TaskFails, ConfirmAnswerLost, ProcessExits, ProcessForks, DescendantsExit
<1>4. ASSUME NEW j \in Jobs, RuntimeElapses(j)
      PROVE  up' \subseteq up
  BY <1>4 DEF RuntimeElapses
<1>5. ASSUME Tick \/ (\E w \in Workers : LastSeenAges(w)) \/ SchedulerNext \/ UNCHANGED vars
      PROVE  up' \subseteq up
  BY <1>5 DEF Tick, LastSeenAges, SchedulerNext, vars
<1> QED
  BY <1>1, <1>2, <1>3, <1>4, <1>5 DEF Next, AgentNext

\* An active job names a worker.
LEMMA ActiveNamed ==
  ASSUME TypeOK, FleetKnown, [Lifecycle!Next]_(Lifecycle!vars), NEW j \in Jobs,
         status'[j] \in Active
  PROVE  worker_id'[j] # NULL
<1> USE DEF TypeOK, DbTypeOK, FleetKnown, Active
<1>1. ASSUME NEW w \in Workers, NEW k \in Jobs, Lifecycle!Claim(w, k)
      PROVE  worker_id'[j] # NULL
  BY <1>1, NullAssumption DEF Lifecycle!Claim
<1>2. ASSUME UNCHANGED worker_id, status[j] \in Active
      PROVE  worker_id'[j] # NULL
  BY <1>2
<1>3. ASSUME NEW k \in Jobs,
             \/ Lifecycle!Start(k) \/ Lifecycle!Cancel(k)
             \/ \E deps \in SUBSET Jobs : Lifecycle!Submit(k, deps)
             \/ \E code : Lifecycle!Exit(k, code) \/ Lifecycle!Exceed(k, code)
      PROVE  worker_id'[j] # NULL
  BY <1>2, <1>3 DEF Lifecycle!Start, Lifecycle!Cancel, Lifecycle!Submit, Lifecycle!Exit, Lifecycle!Exceed
<1>4. ASSUME NEW ready, Lifecycle!MakeReady(ready)
      PROVE  worker_id'[j] # NULL
  BY <1>2, <1>4 DEF Lifecycle!MakeReady
<1>5. ASSUME NEW w \in Workers, Lifecycle!Lose(w)
      PROVE  worker_id'[j] # NULL
  BY <1>2, <1>5 DEF Lifecycle!Lose
<1>6. CASE UNCHANGED Lifecycle!vars
  BY <1>2, <1>6 DEF Lifecycle!vars
<1> QED
  BY <1>1, <1>3, <1>4, <1>5, <1>6 DEF Lifecycle!Next

LEMMA FleetInvariant == Spec => []FleetKnown
<1>1. Init => FleetKnown
  BY DEF Init, DbInit, AgentInit, FleetKnown, Active
<1>2. Inv /\ FleetKnown /\ [Next]_vars => FleetKnown'
  <2> SUFFICES ASSUME Inv, FleetKnown, [Next]_vars
               PROVE  FleetKnown'
    OBVIOUS
  <2>1. TypeOK /\ Fleet \subseteq Fleet'
    BY FleetGrows DEF Inv
  <2>2. ASSUME NEW a \in Agents, a \in up' \/ a \in counted' \/ locked'[a] # NULL
        PROVE  WorkerOf[a] \in Fleet'
    <3>1. CASE a \in up \/ a \in counted \/ locked[a] # NULL
      BY <2>1, <3>1 DEF FleetKnown
    <3>2. CASE a \in up' /\ a \notin up
      BY <2>1, <3>2, UpRegisters
    <3>3. CASE a \notin up /\ a \notin counted /\ locked[a] = NULL /\ a \notin up'
      <4>1. ASSUME NEW b \in Agents,
                   \/ ClaimCount(b) \/ ClaimNothing(b) \/ ClaimCommit(b) \/ ClaimFails(b) \/ Crash(b)
                   \/ \E j \in Jobs : ClaimSelect(b, j)
            PROVE  a \notin counted' /\ locked'[a] = NULL
        BY <2>1, <3>3, <4>1
           DEF ClaimCount, ClaimIf, ClaimNothing, ClaimCommit, ClaimFails, Crash, ClaimSelect,
               dbVars, agentVars, TypeOK, DbTypeOK
      <4>2. CASE UNCHANGED <<counted, locked>>
        BY <2>2, <3>3, <4>2
      <4> QED
        BY <2>2, <3>3, <4>1, <4>2, ClaimMoves
    <3> QED
      BY <3>1, <3>2, <3>3
  <2>3. ASSUME NEW j \in Jobs, worker_id'[j] # NULL
        PROVE  worker_id'[j] \in Fleet'
    <3>1. CASE UNCHANGED worker_id
      BY <2>1, <2>3, <3>1 DEF FleetKnown
    <3>2. ASSUME NEW a \in Agents, locked[a] # NULL, AssignTo(WorkerOf[a], locked[a])
          PROVE  worker_id'[j] \in Fleet'
      <4>1. worker_id'[j] = worker_id[j] \/ worker_id'[j] = WorkerOf[a]
        BY <2>1, <3>2 DEF AssignTo, TypeOK, DbTypeOK
      <4> QED
        BY <2>1, <2>3, <3>2, <4>1 DEF FleetKnown
    <3> QED
      BY <3>1, <3>2, WorkerIdWritten
  <2>4. ASSUME NEW j \in Jobs, status'[j] \in Active
        PROVE  worker_id'[j] # NULL
    BY <2>1, <2>4, ActiveNamed, LifecycleStep
  <2> QED
    BY <2>2, <2>3, <2>4 DEF FleetKnown
<1> QED
  BY <1>1, <1>2, Invariance, PTL DEF Spec

\* GET /workers shows the worker of every running job, and counts the job for
\* it, whoever has been given up, has restarted or shares its hostname.
THEOREM FleetIsComplete == Spec => []FleetCountsEveryJob
<1>1. FleetKnown => FleetCountsEveryJob
  BY DEF FleetKnown, FleetCountsEveryJob, Fleet, RunningJobs, Active
<1> QED
  BY <1>1, FleetInvariant, PTL

-----------------------------------------------------------------------------
(* Who holds an active job.                                                *)

\* A job becomes active by being claimed, and unless the agent that claims it
\* goes down with the commit or loses its answer, it has a task at once.
LEMMA ClaimLeads ==
  ASSUME "db" \notin Faults, Inv, UnclaimedByNobody, [Next]_vars,
         NEW j \in Jobs, status[j] \notin Active, status'[j] \in Active
  PROVE  \E a \in Agents : WorkerOf[a] = worker_id'[j] /\ (task'[a][j] # "none" \/ a \notin up')
<1>1. TypeOK /\ LockHeldOnce /\ [Lifecycle!Next]_(Lifecycle!vars)
  BY LifecycleStep DEF Inv
<1>2. worker_id'[j] # worker_id[j]
  <2> USE DEF Active, TypeOK, DbTypeOK
  <2>1. ASSUME NEW w \in Workers, NEW k \in Jobs, Lifecycle!Claim(w, k)
        PROVE  worker_id'[j] # worker_id[j]
    <3>1. j = k /\ status[j] = "ready" /\ worker_id'[j] = w
      BY <1>1, <2>1 DEF Lifecycle!Claim
    <3> QED
      BY <3>1, NullAssumption DEF UnclaimedByNobody
  <2>2. ASSUME ~\E w \in Workers, k \in Jobs : Lifecycle!Claim(w, k)
        PROVE  status'[j] \notin Active
    BY <1>1, <2>2 DEF Lifecycle!Next, Lifecycle!vars, Lifecycle!Submit, Lifecycle!MakeReady,
           Lifecycle!Start, Lifecycle!Exit, Lifecycle!Exceed, Lifecycle!Cancel, Lifecycle!Lose
  <2> QED
    BY <2>1, <2>2
<1>3. PICK a \in Agents :
        /\ locked[a] # NULL
        /\ AssignTo(WorkerOf[a], locked[a])
        /\ ClaimCommit(a) \/ Crash(a)
  BY <1>2, WorkerIdWritten DEF ClaimFails
<1>4. locked[a] = j /\ worker_id'[j] = WorkerOf[a]
  BY <1>1, <1>2, <1>3, WorkerOfAssumption DEF AssignTo, TypeOK, DbTypeOK
<1>5. CASE ClaimCommit(a)
  <2>1. Goto(a, j, "starting", NULL)
    BY <1>1, <1>4, <1>5 DEF ClaimCommit, LockHeldOnce
  <2>2. task'[a][j] = "starting"
    BY <1>1, <2>1 DEF Goto, TypeOK, AgentTypeOK
  <2> QED
    BY <1>4, <2>2
<1>6. CASE Crash(a)
  <2>1. a \notin up'
    BY <1>6 DEF Crash
  <2> QED
    BY <1>4, <2>1
<1> QED
  BY <1>3, <1>5, <1>6

\* As long as no statement and no spawn raises and no agent comes back to a row
\* of its own, every assigned or running job has a task, or its agent is down
\* and the health-check loop has yet to find that out.
THEOREM OnlyCrashesLoseTasks ==
  ASSUME "db" \notin Faults, "spawn" \notin Faults, "restart" \notin Faults
  PROVE  Spec => []ActiveJobsAreHeld
<1>1. Init => ActiveJobsAreHeld
  BY DEF Init, DbInit, ActiveJobsAreHeld, Active
<1>2. Inv /\ UnclaimedByNobody /\ StoppedWereCancelled /\ FleetKnown /\ ActiveJobsAreHeld /\ [Next]_vars
        => ActiveJobsAreHeld'
  <2> SUFFICES ASSUME Inv, UnclaimedByNobody, StoppedWereCancelled, FleetKnown, ActiveJobsAreHeld,
                      [Next]_vars, NEW j \in Jobs, status'[j] \in Active
               PROVE  \E a \in Agents : WorkerOf[a] = worker_id'[j] /\ (task'[a][j] # "none" \/ a \notin up')
    BY DEF ActiveJobsAreHeld
  <2>1. TypeOK /\ [Lifecycle!Next]_(Lifecycle!vars)
    BY LifecycleStep DEF Inv
  <2>2. CASE status[j] \in Active
    <3>1. PICK a \in Agents : WorkerOf[a] = worker_id[j] /\ (task[a][j] # "none" \/ a \notin up)
      BY <2>2 DEF ActiveJobsAreHeld
    <3>2. worker_id'[j] = worker_id[j]
      BY <2>1, <2>2, ClaimWritten DEF Active
    <3>3. CASE a \notin up
      <4>1. worker_status[WorkerOf[a]] # "absent"
        BY <2>2, <3>1 DEF FleetKnown, Fleet
      <4>2. a \notin up'
        BY <2>1, <3>3, <4>1, UpRegisters DEF Register
      <4> QED
        BY <3>1, <3>2, <4>2
    <3>4. CASE task[a][j] # "none"
      <4>1. task'[a][j] = "none" /\ a \in up' => status'[j] \in Terminal
        BY <3>4, TaskEnds
      <4> QED
        BY <3>1, <3>2, <4>1 DEF Active, Terminal
    <3> QED
      BY <3>1, <3>3, <3>4
  <2>3. CASE status[j] \notin Active
    BY <2>3, ClaimLeads
  <2> QED
    BY <2>2, <2>3
<1> QED
  BY <1>1, <1>2, Invariance, UnclaimedInvariant, StoppedInvariant, FleetInvariant, PTL DEF Spec

-----------------------------------------------------------------------------
(* Who is given up.                                                        *)

\* What a step can do to workers, agents and the lists of suspects.
LEMMA WorkerMoves ==
  ASSUME [Next]_vars
  PROVE  \/ UNCHANGED <<workerRows, healthVars, up>>
         \/ \E w \in Workers : LastSeenAges(w)
         \/ /\ UNCHANGED up
            /\ \E s \in Schedulers :
                  \/ HealthSnapshot(s) \/ MarkUnanswered(s) \/ HealthPassFails(s) \/ Shutdown(s)
                  \/ \E w \in Workers :
                        MarkStage2(s, w) \/ \E alive \in BOOLEAN : ProbeFinds(w, alive) /\ Probe(s, w, alive)
         \/ /\ UNCHANGED healthVars
            /\ \E a \in Agents : Register(a) \/ Heartbeat(a) \/ Crash(a)
<1> USE DEF dbVars, schedulerVars, agentVars
<1>1. CASE Tick \/ (\E w \in Workers : LastSeenAges(w)) \/ UNCHANGED vars
  BY <1>1 DEF Tick, vars
<1>2. CASE SchedulerNext
  BY <1>2 DEF SchedulerNext, ScheduleJob, Submitted, CancelRead, CancelWrite, CancelFails, ReadyTransition
<1>3. ASSUME NEW a \in Agents,
             ClaimCount(a) \/ ClaimNothing(a) \/ ClaimCommit(a) \/ ClaimFails(a)
      PROVE  UNCHANGED <<workerRows, up>>
  BY <1>3 DEF ClaimCount, ClaimIf, ClaimNothing, ClaimCommit, ClaimFails
<1>4. ASSUME NEW a \in Agents, NEW j \in Jobs,
             \/ ClaimSelect(a, j) \/ JobTask(a, j) \/ SpawnFails(a, j)
             \/ TaskFails(a, j) \/ ConfirmAnswerLost(a, j)
             \/ ProcessExits(a, j) \/ ProcessForks(a, j) \/ DescendantsExit(a, j)
      PROVE  UNCHANGED <<workerRows, up>>
  BY <1>4 DEF ClaimSelect, JobTask, StartProcess, ConfirmRunning, PollExit, CheckStatus,
              RecordExit, RecordKill, GraceExit, GraceExpires, SpawnFails,
              TaskFails, ConfirmAnswerLost, ProcessExits, ProcessForks, DescendantsExit
<1>5. ASSUME NEW j \in Jobs, RuntimeElapses(j)
      PROVE  UNCHANGED <<workerRows, up>>
  BY <1>5 DEF RuntimeElapses
<1>6. CASE AgentNext
  BY <1>3, <1>4, <1>5, <1>6 DEF AgentNext
<1> QED
  BY <1>1, <1>2, <1>6 DEF Next

\* The workers that are probed have a row.
ProbedExist ==
    \A s \in Schedulers : stage1[s] \subseteq Fleet /\ unanswered[s] \in Fleet \cup {NULL}

LEMMA ProbedStep ==
  ASSUME TypeOK, ProbedExist, [Next]_vars
  PROVE  ProbedExist'
<1> USE DEF TypeOK, SchedulerTypeOK, ProbedExist
<1>1. Fleet \subseteq Fleet'
  BY FleetGrows
<1>2. ASSUME \A s \in Schedulers :
                stage1'[s] \subseteq Fleet /\ unanswered'[s] \in Fleet \cup {NULL}
      PROVE  ProbedExist'
  BY <1>1, <1>2
<1>3. CASE UNCHANGED healthVars
  BY <1>2, <1>3 DEF healthVars
<1>4. ASSUME NEW w \in Workers, LastSeenAges(w)
      PROVE  UNCHANGED healthVars
  BY <1>4 DEF LastSeenAges, schedulerVars
<1>5. ASSUME NEW s \in Schedulers, HealthSnapshot(s)
      PROVE  ProbedExist'
  BY <1>2, <1>5 DEF HealthSnapshot, Stale, Fleet
<1>6. ASSUME NEW s \in Schedulers, HealthPassFails(s) \/ Shutdown(s) \/ MarkUnanswered(s)
      PROVE  ProbedExist'
  BY <1>2, <1>6 DEF HealthPassFails, Shutdown, AbandonPass, MarkUnanswered
<1>7. ASSUME NEW s \in Schedulers, NEW w \in Workers, MarkStage2(s, w)
      PROVE  ProbedExist'
  BY <1>2, <1>7 DEF MarkStage2
<1>8. ASSUME NEW s \in Schedulers, NEW w \in Workers, NEW alive \in BOOLEAN, Probe(s, w, alive)
      PROVE  ProbedExist'
  BY <1>2, <1>8 DEF Probe
<1> QED
  BY <1>3, <1>4, <1>5, <1>6, <1>7, <1>8, WorkerMoves

\* A probe that nobody answers finds nobody, and nobody comes up to a name that
\* has a row.
LEMMA UnansweredStep ==
  ASSUME "restart" \notin Faults, "probe" \notin Faults, HealthPort = ProbePort, OwnHostnames,
         TypeOK, ProbedExist, UnansweredAreDown, [Next]_vars
  PROVE  UnansweredAreDown'
<1> SUFFICES ASSUME NEW s \in Schedulers, NEW w \in Workers, unanswered'[s] = w
             PROVE  ~Live(w)'
  BY DEF UnansweredAreDown
<1> USE DEF TypeOK, SchedulerTypeOK
<1>1. ~Live(w)
  <2>1. CASE unanswered[s] = w
    BY <2>1 DEF UnansweredAreDown
  <2>2. CASE unanswered[s] # w
    <3>1. ASSUME NEW v \in Workers, LastSeenAges(v)
          PROVE  FALSE
      BY <2>2, <3>1 DEF LastSeenAges, schedulerVars, healthVars
    <3>2. ASSUME NEW t \in Schedulers,
                 \/ HealthSnapshot(t) \/ MarkUnanswered(t) \/ HealthPassFails(t) \/ Shutdown(t)
                 \/ \E v \in Workers : MarkStage2(t, v)
          PROVE  FALSE
      BY <2>2, <3>2, NullAssumption
         DEF HealthSnapshot, MarkUnanswered, HealthPassFails, Shutdown, AbandonPass, MarkStage2
    <3>3. ASSUME NEW t \in Schedulers, NEW v \in Workers, NEW alive \in BOOLEAN,
                 ProbeFinds(v, alive), Probe(t, v, alive)
          PROVE  ~Live(w)
      <4>1. v = w /\ ~alive
        BY <2>2, <3>3, NullAssumption DEF Probe
      <4>2. PICK a \in Agents : WorkerOf[a] = w /\ a \notin up
        BY <3>3, <4>1 DEF ProbeFinds, HealthServed
      <4> QED
        BY <4>2 DEF Live, OwnHostnames, AgentTypeOK
    <3> QED
      BY <2>2, <3>1, <3>2, <3>3, WorkerMoves DEF healthVars
  <2> QED
    BY <2>1, <2>2
<1>2. CASE up' \subseteq up
  BY <1>1, <1>2 DEF Live
<1>3. ASSUME NEW a \in Agents, Register(a), UNCHANGED healthVars
      PROVE  ~Live(w)'
  <2>1. w \in Fleet
    BY <1>3, NullAssumption DEF ProbedExist, healthVars
  <2>2. WorkerOf[a] # w /\ up' = up \cup {a}
    BY <1>3, <2>1 DEF Register, Fleet
  <2> QED
    BY <1>1, <2>2 DEF Live
<1>4. ASSUME NEW a \in Agents, Heartbeat(a) \/ Crash(a)
      PROVE  up' \subseteq up
  BY <1>4 DEF Heartbeat, Crash, agentVars
<1>5. ASSUME NEW v \in Workers, LastSeenAges(v)
      PROVE  up' \subseteq up
  BY <1>5 DEF LastSeenAges, agentVars
<1> QED
  BY <1>2, <1>3, <1>4, <1>5, WorkerMoves

\* An online worker is taken offline because its probe has failed, or because it
\* was on the list of those that are not probed.
LEMMA OfflineWritten ==
  ASSUME TypeOK, [Next]_vars, NEW w \in Workers,
         worker_status[w] = "online", worker_status'[w] # "online"
  PROVE  \E s \in Schedulers : unanswered[s] = w \/ w \in stage2[s] \ stage2'[s]
<1> USE DEF TypeOK, DbTypeOK, SchedulerTypeOK, workerRows, dbVars
<1>1. ASSUME NEW v \in Workers, MarkOffline(v)
      PROVE  v = w
  BY <1>1 DEF MarkOffline, UpdateTogether
<1>2. ASSUME NEW s \in Schedulers, MarkUnanswered(s)
      PROVE  unanswered[s] = w
  BY <1>1, <1>2 DEF MarkUnanswered
<1>3. ASSUME NEW s \in Schedulers, NEW v \in Workers, MarkStage2(s, v)
      PROVE  w \in stage2[s] \ stage2'[s]
  BY <1>1, <1>3 DEF MarkStage2
<1>4. ASSUME NEW s \in Schedulers, NEW v, NEW alive,
             HealthSnapshot(s) \/ HealthPassFails(s) \/ Shutdown(s) \/ Probe(s, v, alive)
      PROVE  FALSE
  BY <1>4 DEF HealthSnapshot, HealthPassFails, Shutdown, AbandonPass, Probe
<1>5. ASSUME NEW a \in Agents, Register(a) \/ Heartbeat(a) \/ Crash(a)
      PROVE  FALSE
  BY <1>5, WorkerOfAssumption DEF Register, UpsertWorker, Heartbeat, UpdateLastSeen, Crash
<1>6. ASSUME NEW v \in Workers, LastSeenAges(v)
      PROVE  FALSE
  BY <1>6 DEF LastSeenAges
<1> QED
  BY <1>2, <1>3, <1>4, <1>5, <1>6, WorkerMoves

\* Where GET /health is answered on the port that is probed, by every agent that
\* is up, and no agent comes back to its old row in the middle of a pass, a worker
\* that is only late is kept, however many heartbeats have failed and however many
\* schedulers suspect it, unless it has been late for so long that it is not
\* probed.  (The run fresh_worker shows what a restart changes.)
THEOREM ProbesKeepLiveWorkers ==
  ASSUME "restart" \notin Faults, "probe" \notin Faults, HealthPort = ProbePort, OwnHostnames
  PROVE  Spec => ProbeKeepsLiveWorker
<1>1. Init => ProbedExist /\ UnansweredAreDown
  BY NullAssumption DEF Init, SchedulerInit, ProbedExist, UnansweredAreDown
<1>2. TypeOK /\ ProbedExist /\ UnansweredAreDown /\ [Next]_vars => (ProbedExist /\ UnansweredAreDown)'
  BY ProbedStep, UnansweredStep
<1>3. TypeOK /\ UnansweredAreDown /\ [Next]_vars =>
        [\A w \in Workers :
            worker_status[w] = "online" /\ worker_status'[w] = "offline" /\ Live(w) =>
                \E s \in Schedulers : w \in stage2[s] \ stage2'[s]]_vars
  BY OfflineWritten DEF UnansweredAreDown
<1> QED
  BY <1>1, <1>2, <1>3, TypeCorrect, PTL DEF Spec, ProbeKeepsLiveWorker

-----------------------------------------------------------------------------
(* What an end in a row is worth, however many jobs an agent runs.         *)

\* A process that has ended is not started again.
Still(b, k) == proc'[b][k] \in {"zombie", "reaped"} /\ exited'[b][k] = exited[b][k]

LEMMA EndedStays ==
  ASSUME TypeOK, ProcessFollowsTask, [Next]_vars, NEW b \in Agents, NEW k \in Jobs,
         proc[b][k] \in {"zombie", "reaped"}
  PROVE  Still(b, k)
<1> USE DEF taskVars, procVars, Still
<1>1. ASSUME NEW a \in Agents, NEW j \in Jobs, StartProcess(a, j)
      PROVE  Still(b, k)
  <2>1. PICK state \in {"running", "reaped"} : Popen(a, j, state)
    BY <1>1 DEF StartProcess
  <2>2. Elsewhere(a, j)
    BY <2>1, PopenElsewhere DEF ProcStates
  <2>3. ~(b = a /\ k = j)
    BY <1>1 DEF StartProcess, ProcessFollowsTask
  <2>4. UNCHANGED exited \/ \E code \in ExitCodes : exited' = [exited EXCEPT ![a][j] = code]
    BY <1>1 DEF StartProcess
  <2>5. exited'[b][k] = exited[b][k]
    BY <2>3, <2>4 DEF TypeOK, AgentTypeOK
  <2> QED
    BY <2>2, <2>3, <2>5 DEF Elsewhere
<1>2. ASSUME NEW a \in Agents, NEW j \in Jobs, Kill(a, j)
      PROVE  Still(b, k)
  <2>1. proc'[b][k] \in {"zombie", "reaped"}
    BY <1>2, KillElsewhere DEF Elsewhere
  <2>2. exited'[b][k] = exited[b][k]
    BY <1>2 DEF Kill, KillReaching, TypeOK, AgentTypeOK
  <2> QED
    BY <2>1, <2>2
<1>3. ASSUME NEW a \in Agents, NEW j \in Jobs, ProcessExits(a, j)
      PROVE  Still(b, k)
  <2>1. /\ proc[a][j] \in {"running", "orphan"}
        /\ proc' = [proc EXCEPT ![a][j] = IF proc[a][j] = "running" THEN "zombie" ELSE "reaped"]
        /\ \E code \in ExitCodes : exited' = [exited EXCEPT ![a][j] = code]
    BY <1>3 DEF ProcessExits
  <2> QED
    BY <2>1 DEF TypeOK, AgentTypeOK
<1>4. ASSUME UNCHANGED exited, NEW a \in Agents, NEW j \in Jobs,
             \/ proc' = [proc EXCEPT ![a][j] = "reaped"]
             \/ proc' = [proc EXCEPT ![a] = Reaped(a)]
             \/ UNCHANGED proc
      PROVE  Still(b, k)
  <2>1. CASE proc' = [proc EXCEPT ![a][j] = "reaped"]
    BY <1>4, <2>1 DEF TypeOK, AgentTypeOK
  <2>2. CASE proc' = [proc EXCEPT ![a] = Reaped(a)]
    BY <1>4, <2>2 DEF Reaped, TypeOK, AgentTypeOK
  <2> QED
    BY <1>4, <2>1, <2>2
<1>5. ASSUME NEW a \in Agents, Crash(a)
      PROVE  Still(b, k)
  <2>1. PICK survives \in {"orphan", "reaped"} :
           proc' = [proc EXCEPT ![a] = [j \in Jobs |->
               CASE proc[a][j] \in {"running", "orphan"} -> survives
                 [] proc[a][j] = "zombie" -> "reaped"
                 [] OTHER -> proc[a][j]]]
    BY <1>5 DEF Crash
  <2>2. UNCHANGED exited
    BY <1>5 DEF Crash
  <2> QED
    BY <2>1, <2>2 DEF TypeOK, AgentTypeOK
<1>6. ASSUME UNCHANGED <<proc, exited>>
      PROVE  Still(b, k)
  BY <1>6
<1>7. ASSUME NEW a \in Agents,
             \/ Register(a) \/ Heartbeat(a) \/ ClaimCount(a) \/ ClaimNothing(a) \/ ClaimFails(a)
             \/ ClaimCommit(a)
             \/ \E j \in Jobs : ClaimSelect(a, j) \/ ProcessForks(a, j) \/ DescendantsExit(a, j)
      PROVE  UNCHANGED <<proc, exited>>
  BY <1>7 DEF Register, Heartbeat, ClaimCount, ClaimIf, ClaimNothing, ClaimFails, ClaimSelect,
              ClaimCommit, ProcessForks, DescendantsExit, agentVars
<1>8. ASSUME NEW j \in Jobs, RuntimeElapses(j)
      PROVE  UNCHANGED <<proc, exited>>
  BY <1>8 DEF RuntimeElapses
<1>9. ASSUME NEW a \in Agents, NEW j \in Jobs,
             JobTask(a, j) \/ SpawnFails(a, j) \/ TaskFails(a, j) \/ ConfirmAnswerLost(a, j)
      PROVE  Still(b, k)
  BY <1>1, <1>2, <1>4, <1>6, <1>9
     DEF JobTask, ConfirmRunning, PollExit, CheckStatus, RecordExit, RecordKill, GraceExit,
         GraceExpires, SpawnFails, TaskFails, ConfirmAnswerLost
<1>10. ASSUME Tick \/ (\E w \in Workers : LastSeenAges(w)) \/ SchedulerNext \/ UNCHANGED vars
       PROVE  UNCHANGED <<proc, exited>>
  BY <1>10 DEF Tick, LastSeenAges, SchedulerNext, vars, agentVars
<1> QED
  BY <1>3, <1>5, <1>6, <1>7, <1>8, <1>9, <1>10 DEF Next, AgentNext

\* started_at is written once: a job that is overdue stays so.
LEMMA OverdueGrows ==
  ASSUME [Next]_vars
  PROVE  overdue \subseteq overdue'
<1>1. ASSUME NEW a \in Agents,
             \/ Register(a) \/ Heartbeat(a) \/ Crash(a) \/ ClaimCount(a) \/ ClaimNothing(a)
             \/ ClaimCommit(a) \/ ClaimFails(a)
      PROVE  UNCHANGED overdue
  BY <1>1 DEF Register, Heartbeat, Crash, ClaimCount, ClaimIf, ClaimNothing, ClaimCommit, ClaimFails, agentVars
<1>2. ASSUME NEW a \in Agents, NEW j \in Jobs,
             \/ ClaimSelect(a, j) \/ JobTask(a, j) \/ SpawnFails(a, j)
             \/ TaskFails(a, j) \/ ConfirmAnswerLost(a, j)
             \/ ProcessExits(a, j) \/ ProcessForks(a, j) \/ DescendantsExit(a, j)
      PROVE  UNCHANGED overdue
  BY <1>2 DEF ClaimSelect, JobTask, StartProcess, ConfirmRunning, PollExit, CheckStatus,
              RecordExit, RecordKill, GraceExit, GraceExpires, SpawnFails,
              TaskFails, ConfirmAnswerLost, ProcessExits, ProcessForks, DescendantsExit
<1>3. ASSUME NEW j \in Jobs, RuntimeElapses(j)
      PROVE  overdue \subseteq overdue'
  BY <1>3 DEF RuntimeElapses
<1>4. ASSUME Tick \/ (\E w \in Workers : LastSeenAges(w)) \/ SchedulerNext \/ UNCHANGED vars
      PROVE  UNCHANGED overdue
  BY <1>4 DEF Tick, LastSeenAges, SchedulerNext, vars, agentVars
<1> QED
  BY <1>1, <1>2, <1>3, <1>4 DEF Next, AgentNext

\* A process is gone without having exited only for an agent that has crashed.
LEMMA ReapedWithCode ==
  ASSUME TypeOK, [Next]_vars, NEW b \in Agents, NEW k \in Jobs,
         proc[b][k] \notin {"zombie", "reaped"}, proc'[b][k] = "reaped"
  PROVE  exited'[b][k] \in ExitCodes \/ task'[b][k] = "none"
<1> USE DEF taskVars, procVars
<1>1. ASSUME NEW a \in Agents, NEW j \in Jobs, StartProcess(a, j)
      PROVE  exited'[b][k] \in ExitCodes
  <2>1. CASE Popen(a, j, "running")
    BY <2>1, PopenElsewhere DEF ProcStates, Elsewhere
  <2>2. CASE Popen(a, j, "reaped") /\ \E code \in ExitCodes : exited' = [exited EXCEPT ![a][j] = code]
    <3>1. b = a /\ k = j
      BY <2>2, PopenElsewhere DEF ProcStates, Elsewhere
    <3> QED
      BY <2>2, <3>1 DEF TypeOK, AgentTypeOK
  <2> QED
    BY <1>1, <2>1, <2>2 DEF StartProcess
<1>2. ASSUME NEW a \in Agents, NEW j \in Jobs, Kill(a, j)
      PROVE  FALSE
  BY <1>2, KillElsewhere DEF Elsewhere
<1>3. ASSUME NEW a \in Agents, NEW j \in Jobs, ProcessExits(a, j)
      PROVE  exited'[b][k] \in ExitCodes
  BY <1>3 DEF ProcessExits, TypeOK, AgentTypeOK
<1>4. ASSUME NEW a \in Agents, NEW j \in Jobs,
             \/ proc[a][j] \in {"zombie", "reaped"} /\ proc' = [proc EXCEPT ![a][j] = "reaped"]
             \/ proc' = [proc EXCEPT ![a] = Reaped(a)]
             \/ UNCHANGED proc
      PROVE  FALSE
  BY <1>4 DEF Reaped, TypeOK, AgentTypeOK
<1>5. ASSUME NEW a \in Agents, Crash(a)
      PROVE  task'[b][k] = "none"
  BY <1>5 DEF Crash, TypeOK, AgentTypeOK
<1>6. ASSUME NEW a \in Agents,
             \/ Register(a) \/ Heartbeat(a) \/ ClaimCount(a) \/ ClaimNothing(a) \/ ClaimFails(a)
             \/ ClaimCommit(a)
             \/ \E j \in Jobs : ClaimSelect(a, j) \/ ProcessForks(a, j) \/ DescendantsExit(a, j)
      PROVE  UNCHANGED proc
  BY <1>6 DEF Register, Heartbeat, ClaimCount, ClaimIf, ClaimNothing, ClaimFails, ClaimSelect,
              ClaimCommit, ProcessForks, DescendantsExit, agentVars
<1>7. ASSUME NEW j \in Jobs, RuntimeElapses(j)
      PROVE  UNCHANGED proc
  BY <1>7 DEF RuntimeElapses
<1>8. ASSUME NEW a \in Agents, NEW j \in Jobs,
             JobTask(a, j) \/ SpawnFails(a, j) \/ TaskFails(a, j) \/ ConfirmAnswerLost(a, j)
      PROVE  exited'[b][k] \in ExitCodes
  BY <1>1, <1>2, <1>4, <1>8
     DEF JobTask, ConfirmRunning, PollExit, CheckStatus, RecordExit, RecordKill, GraceExit,
         GraceExpires, SpawnFails, TaskFails, ConfirmAnswerLost
<1>9. ASSUME Tick \/ (\E w \in Workers : LastSeenAges(w)) \/ SchedulerNext \/ UNCHANGED vars
      PROVE  UNCHANGED proc
  BY <1>9 DEF Tick, LastSeenAges, SchedulerNext, vars, agentVars
<1> QED
  BY <1>3, <1>5, <1>6, <1>7, <1>8, <1>9 DEF Next, AgentNext

LEMMA HandInvariant == Spec => []HandIsTrue
<1>1. Init => HandIsTrue
  BY DEF Init, AgentInit, HandIsTrue
<1>2. Inv /\ ProcessFollowsTask /\ HandIsTrue /\ [Next]_vars => HandIsTrue'
  <2> SUFFICES ASSUME Inv, ProcessFollowsTask, HandIsTrue, [Next]_vars,
                      NEW a \in Agents, NEW j \in Jobs
               PROVE  /\ task'[a][j] \notin {"none", "starting"} /\ proc'[a][j] = "reaped" =>
                            exited'[a][j] # NULL
                      /\ task'[a][j] = "recording" /\ hand'[a][j] = "nonzero" =>
                            exited'[a][j] = "nonzero"
                      /\ task'[a][j] \in {"killing", "failing"} /\ hand'[a][j] = "max_runtime_exceeded" =>
                            j \in RuntimeLimited \cap overdue'
    BY DEF HandIsTrue
  <2>1. TypeOK /\ HandOK
    BY DEF Inv
  <2>2. overdue \subseteq overdue'
    BY OverdueGrows
  <2>3. ASSUME NEW phase, NEW value, Goto(a, j, phase, value)
        PROVE  task'[a][j] = phase /\ hand'[a][j] = value
    BY <2>1, <2>3 DEF Goto, TypeOK, AgentTypeOK
  <2>4. ASSUME task'[a][j] \notin {"none", "starting"}, proc'[a][j] = "reaped"
        PROVE  exited'[a][j] # NULL
    <3>1. CASE proc[a][j] \notin {"zombie", "reaped"}
      BY <2>1, <2>4, <3>1, ReapedWithCode, NullAssumption
    <3>2. CASE proc[a][j] = "zombie"
      BY <2>1, <3>2, EndedStays, NullAssumption DEF HandOK, Still
    <3>3. CASE proc[a][j] = "reaped"
      <4>1. exited'[a][j] = exited[a][j]
        BY <2>1, <3>3, EndedStays DEF Still
      <4>2. task[a][j] # "starting"
        BY <3>3 DEF ProcessFollowsTask
      <4>3. task[a][j] # "none"
        <5> SUFFICES ASSUME task[a][j] = "none"
                     PROVE  FALSE
          OBVIOUS
        <5>1. Next
          BY <2>4 DEF vars, agentVars, taskVars
        <5>2. JobTask(a, j) \/ SpawnFails(a, j) \/ TaskFails(a, j) \/ ConfirmAnswerLost(a, j)
          BY <2>1, <2>4, <5>1, TaskMoves
        <5> QED
          BY <5>2 DEF JobTask, StartProcess, ConfirmRunning, PollExit, CheckStatus, RecordExit,
                      RecordKill, GraceExit, GraceExpires, AfterGrace, SpawnFails, TaskFails,
                      ConfirmAnswerLost
      <4> QED
        BY <3>3, <4>1, <4>2, <4>3 DEF HandIsTrue
    <3> QED
      BY <3>1, <3>2, <3>3
  <2>5. ASSUME task'[a][j] = "recording", hand'[a][j] = "nonzero"
        PROVE  exited'[a][j] = "nonzero"
    <3>1. CASE task'[a][j] = task[a][j] /\ hand'[a][j] = hand[a][j]
      <4>1. exited[a][j] = "nonzero" /\ proc[a][j] \in {"zombie", "reaped"}
        BY <2>5, <3>1 DEF HandIsTrue, ProcessFollowsTask
      <4> QED
        BY <2>1, <4>1, EndedStays DEF Still
    <3>2. CASE task'[a][j] # task[a][j] \/ hand'[a][j] # hand[a][j]
      <4>1. Next
        BY <3>2 DEF vars, agentVars, taskVars
      <4>2. JobTask(a, j) \/ SpawnFails(a, j) \/ TaskFails(a, j) \/ ConfirmAnswerLost(a, j)
        BY <2>1, <2>5, <3>2, <4>1, TaskMoves
      <4>3. PollExit(a, j)
        BY <2>3, <2>5, <4>2
           DEF JobTask, StartProcess, ConfirmRunning, CheckStatus, RecordExit, RecordKill,
               GraceExit, GraceExpires, AfterGrace, SpawnFails, TaskFails, ConfirmAnswerLost
      <4> QED
        BY <2>3, <2>5, <4>3 DEF PollExit
    <3> QED
      BY <3>1, <3>2
  <2>6. ASSUME task'[a][j] \in {"killing", "failing"}, hand'[a][j] = "max_runtime_exceeded"
        PROVE  j \in RuntimeLimited \cap overdue'
    <3>1. CASE task'[a][j] = task[a][j] /\ hand'[a][j] = hand[a][j]
      BY <2>2, <2>6, <3>1 DEF HandIsTrue
    <3>2. CASE task'[a][j] # task[a][j] \/ hand'[a][j] # hand[a][j]
      <4>1. Next
        BY <3>2 DEF vars, agentVars, taskVars
      <4>2. JobTask(a, j) \/ SpawnFails(a, j) \/ TaskFails(a, j) \/ ConfirmAnswerLost(a, j)
        BY <2>1, <2>6, <3>2, <4>1, TaskMoves
      <4>3. CheckStatus(a, j) \/ GraceExit(a, j) \/ GraceExpires(a, j)
        BY <2>3, <2>6, <4>2
           DEF JobTask, StartProcess, ConfirmRunning, PollExit, RecordExit, RecordKill,
               SpawnFails, TaskFails, ConfirmAnswerLost
      <4>4. CASE CheckStatus(a, j)
        BY <2>2, <2>3, <2>6, <4>4, NullAssumption DEF CheckStatus, KillReason
      <4>5. CASE GraceExit(a, j) \/ GraceExpires(a, j)
        BY <2>2, <2>3, <2>6, <4>5 DEF GraceExit, GraceExpires, AfterGrace, HandIsTrue
      <4> QED
        BY <4>3, <4>4, <4>5
    <3> QED
      BY <3>1, <3>2
  <2> QED
    BY <2>4, <2>5, <2>6
<1> QED
  BY <1>1, <1>2, Invariance, FollowInvariant, PTL DEF Spec

\* No end of a job is invented, in every instance: a completed or failed job's
\* process has ended, and one that failed by itself exited with a nonzero code.
\* The exit codes that poll_exit loses turn failures into successes, never the
\* other way, and a job reported for its max_runtime has run longer.
THEOREM NoEndIsInvented == Spec => []RecordedEndsHappened
<1>1. Init => EndsStay
  BY NullAssumption DEF Init, DbInit, EndsStay, KillReason
<1>2. Inv /\ ProcessFollowsTask /\ EndIsFinal /\ HandIsTrue /\ EndsStay /\ [Next]_vars => EndsStay'
  <2> SUFFICES ASSUME Inv, ProcessFollowsTask, EndIsFinal, HandIsTrue, EndsStay, [Next]_vars,
                      NEW j \in Jobs
               PROVE  /\ status'[j] \in {"completed", "failed"} => \E a \in Agents : Gone(a, j)'
                      /\ status'[j] = "failed" /\ kill_reason'[j] = NULL =>
                            /\ exit_code'[j] = "nonzero"
                            /\ \E a \in Agents : Gone(a, j)' /\ exited'[a][j] = "nonzero"
                      /\ kill_reason'[j] = "max_runtime_exceeded" => j \in RuntimeLimited \cap overdue'
    BY DEF EndsStay
  <2>1. TypeOK /\ HandOK
    BY DEF Inv
  <2>2. ASSUME NEW a \in Agents, Gone(a, j)
        PROVE  Gone(a, j)' /\ exited'[a][j] = exited[a][j]
    BY <2>1, <2>2, EndedStays DEF Gone, Still
  <2>3. CASE /\ exit_code'[j] = exit_code[j] /\ kill_reason'[j] = kill_reason[j]
             /\ status'[j] \in {"completed", "failed"} => status'[j] = status[j]
    BY <2>2, <2>3, OverdueGrows DEF EndsStay
  <2>4. ASSUME NEW a \in Agents, task[a][j] \in {"recording", "failing"}, UNCHANGED <<proc, exited>>
        PROVE  Gone(a, j)'
    <3>1. proc[a][j] \in {"zombie", "reaped"}
      BY <2>4 DEF ProcessFollowsTask
    <3>2. exited[a][j] # NULL
      BY <2>1, <2>4, <3>1, NullAssumption DEF HandOK, HandIsTrue
    <3> QED
      BY <2>4, <3>1, <3>2 DEF Gone
  <2>5. CASE \/ exit_code'[j] # exit_code[j] \/ kill_reason'[j] # kill_reason[j]
             \/ status'[j] \in {"completed", "failed"} /\ status'[j] # status[j]
    <3>1. /\ status[j] \notin Terminal
          /\ \E a \in Agents :
                \/ /\ RecordExit(a, j)
                   /\ status'[j] = IF hand[a][j] = "zero" THEN "completed" ELSE "failed"
                   /\ exit_code'[j] = IF hand[a][j] = NULL THEN exit_code[j] ELSE hand[a][j]
                   /\ kill_reason'[j] = kill_reason[j]
                \/ /\ RecordKill(a, j)
                   /\ status'[j] = "failed"
                   /\ kill_reason'[j] = IF hand[a][j] = NULL THEN kill_reason[j] ELSE hand[a][j]
      BY <2>1, <2>5, OutcomeWritten
    <3>2. kill_reason[j] = NULL
      BY <3>1 DEF EndIsFinal, Terminal
    <3>3. ASSUME NEW a \in Agents, RecordExit(a, j),
                 status'[j] = IF hand[a][j] = "zero" THEN "completed" ELSE "failed",
                 exit_code'[j] = IF hand[a][j] = NULL THEN exit_code[j] ELSE hand[a][j],
                 kill_reason'[j] = kill_reason[j]
          PROVE  /\ status'[j] \in {"completed", "failed"} => \E b \in Agents : Gone(b, j)'
                 /\ status'[j] = "failed" /\ kill_reason'[j] = NULL =>
                       /\ exit_code'[j] = "nonzero"
                       /\ \E b \in Agents : Gone(b, j)' /\ exited'[b][j] = "nonzero"
                 /\ kill_reason'[j] = "max_runtime_exceeded" => j \in RuntimeLimited \cap overdue'
      <4>1. task[a][j] = "recording" /\ UNCHANGED <<proc, exited>>
        BY <3>3 DEF RecordExit, procVars
      <4>2. Gone(a, j)'
        BY <2>4, <4>1
      <4>3. hand[a][j] \in ExitCodes /\ hand[a][j] # NULL
        BY <2>1, <4>1, NullAssumption DEF HandOK
      <4>4. hand[a][j] = "nonzero" => exited'[a][j] = "nonzero"
        BY <4>1 DEF HandIsTrue
      <4>5. kill_reason'[j] # "max_runtime_exceeded"
        BY <3>2, <3>3, NullAssumption DEF KillReason
      <4> QED
        BY <3>3, <4>2, <4>3, <4>4, <4>5 DEF ExitCodes
    <3>4. ASSUME NEW a \in Agents, RecordKill(a, j), status'[j] = "failed",
                 kill_reason'[j] = IF hand[a][j] = NULL THEN kill_reason[j] ELSE hand[a][j]
          PROVE  /\ \E b \in Agents : Gone(b, j)'
                 /\ kill_reason'[j] # NULL
                 /\ kill_reason'[j] = "max_runtime_exceeded" => j \in RuntimeLimited \cap overdue'
      <4>1. task[a][j] = "failing" /\ UNCHANGED <<proc, exited, overdue>>
        BY <3>4 DEF RecordKill, procVars
      <4>2. hand[a][j] # NULL
        BY <2>1, <4>1, NullAssumption DEF HandOK
      <4> QED
        BY <2>4, <3>4, <4>1, <4>2 DEF HandIsTrue
    <3> QED
      BY <3>1, <3>3, <3>4
  <2> QED
    BY <2>3, <2>5
<1>3. EndsStay => RecordedEndsHappened
  <2>1. \A a \in Agents, j \in Jobs : Gone(a, j) => exited[a][j] # NULL
    BY DEF Gone
  <2> QED
    BY <2>1 DEF EndsStay, RecordedEndsHappened
<1> QED
  BY <1>1, <1>2, <1>3, Invariance, FollowInvariant, EndInvariant, HandInvariant, PTL DEF Spec
=============================================================================
