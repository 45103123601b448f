--------------------------- MODULE CapacityProofs ---------------------------
(***************************************************************************)
(* WORKER_CONCURRENCY is respected, for every instance of Lightcron:       *)
(* _try_claim counts in one transaction and claims in a later one, but     *)
(* only the agents of its hostname can add to what it counted, each of     *)
(* them one job, and none counts again before its claim is over.           *)
(***************************************************************************)
EXTENDS ExecutionProofs, FiniteSetTheorems

-----------------------------------------------------------------------------
LEMMA AddOne ==
  ASSUME NEW S, NEW x, IsFiniteSet(S)
  PROVE  /\ IsFiniteSet(S \cup {x})
         /\ Cardinality(S \cup {x}) \in Nat
         /\ Cardinality(S \cup {x}) <= Cardinality(S) + 1
<1>1. Cardinality(S) \in Nat
  BY FS_CardinalityType
<1>2. /\ IsFiniteSet(S \cup {x})
      /\ Cardinality(S \cup {x}) = IF x \in S THEN Cardinality(S) ELSE Cardinality(S) + 1
  BY FS_AddElement
<1> QED
  BY <1>1, <1>2

LEMMA FiniteHoldings ==
  /\ \A w : IsFiniteSet(ActiveJobs(w)) /\ Cardinality(ActiveJobs(w)) \in Nat
  /\ \A a : IsFiniteSet(ActiveTasks(a)) /\ Cardinality(ActiveTasks(a)) \in Nat
<1>1. \A w : ActiveJobs(w) \subseteq Jobs /\ ActiveTasks(w) \subseteq Jobs
  BY DEF ActiveJobs, ActiveTasks
<1> QED
  BY <1>1, FiniteJobsAssumption, FS_Subset, FS_CardinalityType

\* Without a claim, no worker comes to hold an active job.
LEMMA ActiveShrinks ==
  ASSUME TypeOK, UnclaimedByNobody, [Lifecycle!Next]_(Lifecycle!vars), UNCHANGED worker_id,
         NEW w \in Workers
  PROVE  ActiveJobs(w)' \subseteq ActiveJobs(w)
<1> SUFFICES ASSUME NEW j \in Jobs, worker_id[j] = w, status'[j] \in Active
             PROVE  status[j] \in Active
  BY DEF ActiveJobs
<1>1. status[j] \notin {"absent", "pending", "ready"}
  BY NullAssumption DEF UnclaimedByNobody
<1>2. status[j] \notin Terminal
  BY TerminalStays DEF Terminal, Active
<1> QED
  BY <1>1, <1>2 DEF TypeOK, DbTypeOK, JobStatus, Active, Terminal

\* worker_id is written by the second statement of a claim only.
LEMMA WorkerIdWritten ==
  ASSUME [Next]_vars
  PROVE  \/ UNCHANGED worker_id
         \/ \E a \in Agents :
               /\ locked[a] # NULL
               /\ AssignTo(WorkerOf[a], locked[a])
               /\ locked' = [locked EXCEPT ![a] = NULL]
               /\ counted' \subseteq counted
               /\ ClaimCommit(a) \/ ClaimFails(a) \/ Crash(a)
<1> USE DEF dbVars, jobRows
<1>1. ASSUME NEW a \in Agents, ClaimCommit(a) \/ ClaimFails(a) \/ Crash(a)
      PROVE  \/ UNCHANGED worker_id
             \/ /\ locked[a] # NULL
                /\ AssignTo(WorkerOf[a], locked[a])
                /\ locked' = [locked EXCEPT ![a] = NULL]
                /\ counted' \subseteq counted
  BY <1>1 DEF ClaimCommit, ClaimFails, Crash, agentVars
<1>2. ASSUME NEW a \in Agents, NEW j \in Jobs,
             \/ ClaimSelect(a, j) \/ JobTask(a, j) \/ SpawnFails(a, j)
             \/ TaskFails(a, j) \/ ConfirmAnswerLost(a, j)
             \/ ProcessExits(a, j) \/ ProcessForks(a, j) \/ DescendantsExit(a, j)
      PROVE  UNCHANGED worker_id
  BY <1>2 DEF ClaimSelect, JobTask, StartProcess, ConfirmRunning, PollExit, CheckStatus,
              RecordExit, RecordKill, UpdateOutcome, GraceExit, GraceExpires, SpawnFails,
              TaskFails, ConfirmAnswerLost, ProcessExits, ProcessForks, DescendantsExit
<1>3. ASSUME NEW a \in Agents,
             Register(a) \/ Heartbeat(a) \/ ClaimCount(a) \/ ClaimNothing(a)
      PROVE  UNCHANGED worker_id
  BY <1>3 DEF Register, Heartbeat, ClaimCount, ClaimIf, ClaimNothing
<1>4. ASSUME NEW j \in Jobs, RuntimeElapses(j)
      PROVE  UNCHANGED worker_id
  BY <1>4 DEF RuntimeElapses
<1>5. ASSUME SchedulerNext
      PROVE  UNCHANGED worker_id
  BY <1>5 DEF SchedulerNext, ScheduleJob, Submitted, InsertJob, CancelRead, CancelWrite, CancelFails,
              ReadyTransition, HealthSnapshot, MarkUnanswered, HealthPassFails, Shutdown, AbandonPass,
              MarkStage2,
              MarkOffline, UpdateTogether, Probe
<1>6. ASSUME Tick \/ (\E w \in Workers : LastSeenAges(w)) \/ UNCHANGED vars
      PROVE  UNCHANGED worker_id
  BY <1>6 DEF Tick, LastSeenAges, vars
<1> QED
  BY <1>1, <1>2, <1>3, <1>4, <1>5, <1>6 DEF Next, AgentNext

\* Only the commit of a claim adds a task.
LEMMA TaskAdded ==
  ASSUME TypeOK, [Next]_vars, NEW a \in Agents, NEW j \in Jobs,
         task[a][j] = "none", task'[a][j] # "none"
  PROVE  /\ locked[a] = j
         /\ AssignTo(WorkerOf[a], locked[a])
         /\ locked' = [locked EXCEPT ![a] = NULL]
<1>1. Next
  BY DEF vars, agentVars, taskVars
<1>2. ~(JobTask(a, j) \/ SpawnFails(a, j) \/ TaskFails(a, j) \/ ConfirmAnswerLost(a, j))
  BY DEF JobTask, StartProcess, ConfirmRunning, PollExit, CheckStatus, RecordExit, RecordKill,
         GraceExit, GraceExpires, AfterGrace, SpawnFails, TaskFails, ConfirmAnswerLost
<1>3. ClaimCommit(a)
  BY <1>1, <1>2, TaskMoves
<1>4. locked[a] = j
  <2>1. PICK k \in Jobs : k = locked[a]
    BY <1>3 DEF ClaimCommit, TypeOK, DbTypeOK
  <2>2. Goto(a, k, "starting", NULL)
    BY <1>3, <2>1 DEF ClaimCommit, taskVars
  <2> QED
    BY <2>1, <2>2 DEF Goto, TypeOK, AgentTypeOK
<1> QED
  BY <1>3, <1>4 DEF ClaimCommit

\* Only the steps of the claim loop, and a crash, move counted and locked.
LEMMA ClaimMoves ==
  ASSUME [Next]_vars
  PROVE  \/ UNCHANGED <<counted, locked>>
         \/ \E a \in Agents : ClaimCount(a)
         \/ \E a \in Agents, j \in Jobs : ClaimSelect(a, j)
         \/ \E a \in Agents : ClaimNothing(a) \/ ClaimCommit(a) \/ ClaimFails(a) \/ Crash(a)
<1> USE DEF dbVars, agentVars
<1>1. ASSUME NEW a \in Agents, NEW j \in Jobs,
             \/ JobTask(a, j) \/ SpawnFails(a, j)
             \/ TaskFails(a, j) \/ ConfirmAnswerLost(a, j)
             \/ ProcessExits(a, j) \/ ProcessForks(a, j) \/ DescendantsExit(a, j)
      PROVE  UNCHANGED <<counted, locked>>
  BY <1>1 DEF JobTask, StartProcess, ConfirmRunning, PollExit, CheckStatus,
              RecordExit, RecordKill, GraceExit, GraceExpires, SpawnFails,
              TaskFails, ConfirmAnswerLost, ProcessExits, ProcessForks, DescendantsExit
<1>2. ASSUME NEW a \in Agents, Register(a) \/ Heartbeat(a)
      PROVE  UNCHANGED <<counted, locked>>
  BY <1>2 DEF Register, Heartbeat
<1>3. ASSUME NEW j \in Jobs, RuntimeElapses(j)
      PROVE  UNCHANGED <<counted, locked>>
  BY <1>3 DEF RuntimeElapses
<1>4. ASSUME SchedulerNext
      PROVE  UNCHANGED <<counted, locked>>
  BY <1>4 DEF SchedulerNext, ScheduleJob, Submitted, CancelRead, CancelWrite, CancelFails,
              ReadyTransition, HealthSnapshot, MarkUnanswered, HealthPassFails, Shutdown, AbandonPass,
              MarkStage2, Probe
<1>5. ASSUME Tick \/ (\E w \in Workers : LastSeenAges(w)) \/ UNCHANGED vars
      PROVE  UNCHANGED <<counted, locked>>
  BY <1>5 DEF Tick, LastSeenAges, vars
<1> QED
  BY <1>1, <1>2, <1>3, <1>4, <1>5 DEF Next, AgentNext

\* For one agent: it comes to be between count and claim by counting only, and
\* what it has counted or locked is let go of by its own claim or crash.
LEMMA CountedMoves ==
  ASSUME TypeOK, TaskRoom, [Next]_vars, NEW a \in Agents
  PROVE  /\ a \in counted' => locked'[a] = NULL
         /\ a \in counted' \/ locked'[a] # NULL => a \in counted \/ locked[a] # NULL \/ ClaimCount(a)
         /\ a \notin counted /\ locked[a] # NULL => a \notin counted'
<1>0. a \in counted => locked[a] = NULL
  BY DEF TaskRoom
<1>1. CASE UNCHANGED <<counted, locked>>
  BY <1>0, <1>1
<1>2. ASSUME NEW b \in Agents, ClaimCount(b)
      PROVE  /\ a \in counted' => locked'[a] = NULL
             /\ a \in counted' \/ locked'[a] # NULL => a \in counted \/ locked[a] # NULL \/ b = a
             /\ a \notin counted /\ locked[a] # NULL => a \notin counted'
  BY <1>0, <1>2 DEF ClaimCount, ClaimIf, dbVars
<1>3. ASSUME NEW b \in Agents, NEW j \in Jobs, ClaimSelect(b, j)
      PROVE  /\ a \in counted' => locked'[a] = NULL
             /\ a \in counted' \/ locked'[a] # NULL => a \in counted \/ locked[a] # NULL
             /\ a \notin counted /\ locked[a] # NULL => a \notin counted'
  BY <1>0, <1>3 DEF ClaimSelect, TypeOK, DbTypeOK
<1>4. ASSUME NEW b \in Agents, ClaimNothing(b) \/ ClaimCommit(b) \/ ClaimFails(b) \/ Crash(b)
      PROVE  /\ a \in counted' => locked'[a] = NULL
             /\ a \in counted' \/ locked'[a] # NULL => a \in counted \/ locked[a] # NULL
             /\ a \notin counted /\ locked[a] # NULL => a \notin counted'
  <2>1. counted' \subseteq counted
    BY <1>4 DEF ClaimNothing, ClaimCommit, ClaimFails, Crash, agentVars
  <2>2. locked'[a] = locked[a] \/ locked'[a] = NULL
    BY <1>4 DEF ClaimNothing, ClaimCommit, ClaimFails, Crash, dbVars, TypeOK, DbTypeOK
  <2> QED
    BY <1>0, <2>1, <2>2
<1> QED
  BY <1>1, <1>2, <1>3, <1>4, ClaimMoves

-----------------------------------------------------------------------------
(* TaskRoom: an agent's tasks are its own affair.                          *)

USE DEF RowsBelow, TasksBelow

\* Only the claim of a itself adds a task of a, and only one.
LEMMA TasksGrow ==
  ASSUME TypeOK, TaskRoom, [Next]_vars, NEW a \in Agents
  PROVE  \/ ActiveTasks(a)' \subseteq ActiveTasks(a)
         \/ /\ Cardinality(ActiveTasks(a))' < Concurrency + 1
            /\ a \notin counted' /\ locked'[a] = NULL
<1> SUFFICES ASSUME NEW j \in Jobs, j \in ActiveTasks(a)', j \notin ActiveTasks(a)
             PROVE  /\ Cardinality(ActiveTasks(a))' < Concurrency + 1
                    /\ a \notin counted' /\ locked'[a] = NULL
  BY DEF ActiveTasks
<1>1. /\ locked[a] = j
      /\ AssignTo(WorkerOf[a], locked[a])
      /\ locked' = [locked EXCEPT ![a] = NULL]
  BY TaskAdded DEF ActiveTasks
<1>2. locked[a] # NULL /\ a \notin counted
  BY <1>1, NullAssumption DEF TaskRoom
<1>3. \A k \in Jobs : k \in ActiveTasks(a)' /\ k \notin ActiveTasks(a) => k = j
  BY <1>1, TaskAdded DEF ActiveTasks
<1>4. ActiveTasks(a)' \subseteq ActiveTasks(a) \cup {j}
  BY <1>3 DEF ActiveTasks
<1>5. /\ IsFiniteSet(ActiveTasks(a) \cup {j})
      /\ Cardinality(ActiveTasks(a) \cup {j}) \in Nat
      /\ Cardinality(ActiveTasks(a) \cup {j}) <= Cardinality(ActiveTasks(a)) + 1
  <2>1. IsFiniteSet(ActiveTasks(a))
    BY FiniteHoldings
  <2> QED
    BY <2>1, AddOne
<1>6. /\ Cardinality(ActiveTasks(a)') \in Nat
      /\ Cardinality(ActiveTasks(a)') <= Cardinality(ActiveTasks(a) \cup {j})
  BY <1>4, <1>5, FS_Subset, FS_CardinalityType
<1>7. Cardinality(ActiveTasks(a)) < Concurrency /\ Cardinality(ActiveTasks(a)) \in Nat
  BY <1>2, FiniteHoldings DEF TaskRoom
<1>8. a \notin counted' /\ locked'[a] = NULL
  <2>1. a \notin counted'
    BY <1>1, <1>2, CountedMoves
  <2> QED
    BY <1>1, <2>1 DEF TypeOK, DbTypeOK
<1> QED
  BY <1>5, <1>6, <1>7, <1>8, ConcurrencyAssumption

LEMMA TaskRoomStep ==
  ASSUME TypeOK, TaskRoom, [Next]_vars
  PROVE  TaskRoom'
<1> SUFFICES ASSUME NEW a \in Agents
             PROVE  /\ a \in counted' => locked'[a] = NULL
                    /\ Cardinality(ActiveTasks(a))' < Concurrency + 1
                    /\ a \in counted' \/ locked'[a] # NULL => Cardinality(ActiveTasks(a))' < Concurrency
  BY DEF TaskRoom
<1>1. CASE ActiveTasks(a)' \subseteq ActiveTasks(a)
  <2>1. /\ Cardinality(ActiveTasks(a)) \in Nat
        /\ Cardinality(ActiveTasks(a)') \in Nat
        /\ Cardinality(ActiveTasks(a)') <= Cardinality(ActiveTasks(a))
    BY <1>1, FiniteHoldings, FS_Subset, FS_CardinalityType
  <2>2. Cardinality(ActiveTasks(a))' < Concurrency + 1
    BY <2>1, ConcurrencyAssumption DEF TaskRoom
  <2>3. a \in counted' => locked'[a] = NULL
    BY CountedMoves DEF TaskRoom
  <2>4. ASSUME a \in counted' \/ locked'[a] # NULL
        PROVE  Cardinality(ActiveTasks(a))' < Concurrency
    <3>1. CASE a \in counted \/ locked[a] # NULL
      BY <2>1, <3>1, ConcurrencyAssumption DEF TaskRoom
    <3>2. CASE ClaimCount(a)
      BY <2>1, <3>2, ConcurrencyAssumption DEF ClaimCount, ClaimIf
    <3> QED
      BY <2>4, <3>1, <3>2, CountedMoves
  <2> QED
    BY <2>2, <2>3, <2>4
<1>2. CASE /\ Cardinality(ActiveTasks(a))' < Concurrency + 1
           /\ a \notin counted' /\ locked'[a] = NULL
  BY <1>2
<1> QED
  BY <1>1, <1>2, TasksGrow

LEMMA TaskRoomInvariant == Spec => []TaskRoom
<1>1. Init => TaskRoom
  <2> SUFFICES ASSUME Init
               PROVE  TaskRoom
    OBVIOUS
  <2>1. \A a \in Agents : ActiveTasks(a) = {} /\ a \notin counted /\ locked[a] = NULL
    BY DEF Init, DbInit, AgentInit, ActiveTasks
  <2>2. Cardinality({}) = 0
    BY FS_EmptySet
  <2> QED
    BY <2>1, <2>2, ConcurrencyAssumption DEF TaskRoom
<1>2. TypeOK /\ TaskRoom /\ [Next]_vars => TaskRoom'
  BY TaskRoomStep
<1> QED
  BY <1>1, <1>2, Invariance, PTL DEF Spec, Inv

-----------------------------------------------------------------------------
(* HostRoom: the agents of one hostname share its rows.                    *)

LEMMA FiniteClaims ==
  \A w : /\ IsFiniteSet(AgentsOf(w)) /\ Cardinality(AgentsOf(w)) \in Nat
         /\ IsFiniteSet(Claiming(w)) /\ Cardinality(Claiming(w)) \in Nat
         /\ Cardinality(Claiming(w)) <= Cardinality(AgentsOf(w))
<1> TAKE w
<1>1. AgentsOf(w) \subseteq Agents /\ Claiming(w) \subseteq AgentsOf(w)
  BY DEF AgentsOf, Claiming
<1>2. IsFiniteSet(AgentsOf(w))
  BY <1>1, AgentsAssumption, FS_Subset
<1> QED
  BY <1>1, <1>2, FS_Subset, FS_CardinalityType

\* An agent that has not counted leaves room for its own claim.
LEMMA NotAllClaiming ==
  ASSUME NEW w, NEW a \in AgentsOf(w), a \notin Claiming(w)
  PROVE  Cardinality(Claiming(w)) + 1 <= Cardinality(AgentsOf(w))
<1>1. /\ Claiming(w) \cup {a} \subseteq AgentsOf(w)
      /\ IsFiniteSet(AgentsOf(w)) /\ IsFiniteSet(Claiming(w))
      /\ Cardinality(Claiming(w)) \in Nat
  BY FiniteClaims DEF Claiming
<1>2. Cardinality(Claiming(w) \cup {a}) = Cardinality(Claiming(w)) + 1
  BY <1>1, FS_AddElement
<1>3. Cardinality(Claiming(w) \cup {a}) <= Cardinality(AgentsOf(w))
  BY <1>1, FS_Subset
<1> QED
  BY <1>2, <1>3

\* A step by which no job is claimed for w, and no agent of w counts.
LEMMA HostShrinks ==
  ASSUME NEW w \in Workers,
         ActiveJobs(w)' \subseteq ActiveJobs(w), Claiming(w)' \subseteq Claiming(w)
  PROVE  Cardinality(ActiveJobs(w))' + Cardinality(Claiming(w))'
             <= Cardinality(ActiveJobs(w)) + Cardinality(Claiming(w))
<1>1. /\ Cardinality(ActiveJobs(w)) \in Nat /\ Cardinality(Claiming(w)) \in Nat
      /\ Cardinality(ActiveJobs(w)') \in Nat /\ Cardinality(Claiming(w)') \in Nat
      /\ Cardinality(ActiveJobs(w)') <= Cardinality(ActiveJobs(w))
      /\ Cardinality(Claiming(w)') <= Cardinality(Claiming(w))
  BY FiniteHoldings, FiniteClaims, FS_Subset, FS_CardinalityType
<1> QED
  BY <1>1

\* A step by which a claims a job: it is not between count and claim any more.
LEMMA HostClaims ==
  ASSUME TypeOK, NEW a \in Agents,
         locked[a] # NULL,
         AssignTo(WorkerOf[a], locked[a]),
         locked' = [locked EXCEPT ![a] = NULL],
         counted' \subseteq counted, a \notin counted,
         NEW w \in Workers
  PROVE  Cardinality(ActiveJobs(w))' + Cardinality(Claiming(w))'
             <= Cardinality(ActiveJobs(w)) + Cardinality(Claiming(w))
<1>1. PICK j \in Jobs : j = locked[a]
  BY DEF TypeOK, DbTypeOK
<1>2. \A b \in Agents : locked'[b] = IF b = a THEN NULL ELSE locked[b]
  BY DEF TypeOK, DbTypeOK
<1>3. Claiming(w)' \subseteq Claiming(w) \ {a}
  BY <1>2 DEF Claiming, AgentsOf
<1>4. ASSUME NEW k \in Jobs, k \in ActiveJobs(w)', k \notin ActiveJobs(w)
      PROVE  k = j /\ w = WorkerOf[a]
  BY <1>1, <1>4 DEF ActiveJobs, AssignTo, TypeOK, DbTypeOK, Active
<1>5. CASE w # WorkerOf[a]
  <2>1. ActiveJobs(w)' \subseteq ActiveJobs(w) /\ Claiming(w)' \subseteq Claiming(w)
    BY <1>3, <1>4, <1>5 DEF ActiveJobs
  <2> QED
    BY <2>1, HostShrinks
<1>6. CASE w = WorkerOf[a]
  <2>1. a \in Claiming(w) /\ IsFiniteSet(Claiming(w))
    BY <1>6, FiniteClaims DEF Claiming, AgentsOf
  <2>2. /\ Cardinality(Claiming(w) \ {a}) = Cardinality(Claiming(w)) - 1
        /\ IsFiniteSet(Claiming(w) \ {a})
    BY <2>1, FS_RemoveElement
  <2>3. /\ Cardinality(Claiming(w)') \in Nat
        /\ Cardinality(Claiming(w)') <= Cardinality(Claiming(w) \ {a})
    BY <1>3, <2>2, FS_Subset, FS_CardinalityType
  <2>4. ActiveJobs(w)' \subseteq ActiveJobs(w) \cup {j}
    BY <1>4 DEF ActiveJobs
  <2>5. /\ IsFiniteSet(ActiveJobs(w) \cup {j})
        /\ Cardinality(ActiveJobs(w) \cup {j}) \in Nat
        /\ Cardinality(ActiveJobs(w) \cup {j}) <= Cardinality(ActiveJobs(w)) + 1
    <3>1. IsFiniteSet(ActiveJobs(w))
      BY FiniteHoldings
    <3> QED
      BY <3>1, AddOne
  <2>6. /\ Cardinality(ActiveJobs(w)') \in Nat
        /\ Cardinality(ActiveJobs(w)') <= Cardinality(ActiveJobs(w) \cup {j})
    BY <2>4, <2>5, FS_Subset, FS_CardinalityType
  <2> QED
    BY <2>2, <2>3, <2>5, <2>6, FiniteHoldings, FiniteClaims
<1> QED
  BY <1>5, <1>6

LEMMA HostRoomStep ==
  ASSUME Inv, UnclaimedByNobody, TaskRoom, HostRoom, [Next]_vars
  PROVE  HostRoom'
<1> SUFFICES ASSUME NEW w \in Workers, AgentsOf(w) # {}
             PROVE  Cardinality(ActiveJobs(w))' + Cardinality(Claiming(w))'
                        < Concurrency + Cardinality(AgentsOf(w))
  BY DEF HostRoom, AgentsOf
<1> DEFINE before == Cardinality(ActiveJobs(w)) + Cardinality(Claiming(w))
           after  == Cardinality(ActiveJobs(w))' + Cardinality(Claiming(w))'
<1>0. TypeOK
  BY DEF Inv
<1>1. before < Concurrency + Cardinality(AgentsOf(w))
  BY DEF HostRoom
<1>2. before \in Nat /\ after \in Nat /\ Cardinality(AgentsOf(w)) \in Nat
  <2>1. Cardinality(ActiveJobs(w))' \in Nat /\ Cardinality(Claiming(w))' \in Nat
    <3>1. ActiveJobs(w)' \subseteq Jobs /\ Claiming(w)' \subseteq Agents
      BY DEF ActiveJobs, Claiming, AgentsOf
    <3> QED
      BY <3>1, FiniteJobsAssumption, AgentsAssumption, FS_Subset, FS_CardinalityType
  <2> QED
    BY <2>1, FiniteHoldings, FiniteClaims
<1>3. ASSUME after <= before
      PROVE  after < Concurrency + Cardinality(AgentsOf(w))
  BY <1>1, <1>2, <1>3, ConcurrencyAssumption
<1>4. ASSUME NEW a \in Agents,
             locked[a] # NULL,
             AssignTo(WorkerOf[a], locked[a]),
             locked' = [locked EXCEPT ![a] = NULL],
             counted' \subseteq counted
      PROVE  after <= before
  BY <1>0, <1>4, HostClaims DEF TaskRoom
<1>5. CASE UNCHANGED worker_id
  <2>1. ActiveJobs(w)' \subseteq ActiveJobs(w)
    BY <1>5, ActiveShrinks, LifecycleStep DEF Inv
  <2>2. CASE Claiming(w)' \subseteq Claiming(w)
    BY <1>3, <2>1, <2>2, HostShrinks
  <2>3. ASSUME NEW a \in AgentsOf(w), a \in Claiming(w)', a \notin Claiming(w)
        PROVE  after < Concurrency + Cardinality(AgentsOf(w))
    <3>1. ClaimCount(a)
      BY <1>0, <2>3, CountedMoves DEF Claiming, AgentsOf
    <3>2. /\ Cardinality(ActiveJobs(w)) < Concurrency
          /\ counted' = counted \cup {a} /\ UNCHANGED <<locked, status, worker_id>>
      BY <2>3, <3>1 DEF ClaimCount, ClaimIf, AgentsOf, dbVars, jobRows
    <3>3. ActiveJobs(w)' = ActiveJobs(w) /\ Claiming(w)' = Claiming(w) \cup {a}
      BY <2>3, <3>2 DEF ActiveJobs, Claiming, AgentsOf
    <3>4. Cardinality(Claiming(w) \cup {a}) = Cardinality(Claiming(w)) + 1
      BY <2>3, FiniteClaims, FS_AddElement
    <3>5. Cardinality(Claiming(w)) + 1 <= Cardinality(AgentsOf(w))
      BY <2>3, NotAllClaiming
    <3> QED
      BY <3>2, <3>3, <3>4, <3>5, FiniteHoldings, FiniteClaims, ConcurrencyAssumption
  <2> QED
    BY <2>2, <2>3 DEF Claiming, AgentsOf
<1> QED
  BY <1>3, <1>4, <1>5, WorkerIdWritten

LEMMA HostRoomInvariant == Spec => []HostRoom
<1>1. Init => HostRoom
  <2> SUFFICES ASSUME Init, NEW w \in Workers, AgentsOf(w) # {}
               PROVE  Cardinality(ActiveJobs(w)) + Cardinality(Claiming(w))
                          < Concurrency + Cardinality(AgentsOf(w))
    BY DEF HostRoom
  <2>1. ActiveJobs(w) = {} /\ Claiming(w) = {}
    BY DEF Init, DbInit, AgentInit, ActiveJobs, Active, Claiming, AgentsOf
  <2>2. Cardinality({}) = 0
    BY FS_EmptySet
  <2>3. PICK a \in AgentsOf(w) : TRUE
    OBVIOUS
  <2>4. Cardinality(Claiming(w)) + 1 <= Cardinality(AgentsOf(w))
    BY <2>1, <2>3, NotAllClaiming
  <2> QED
    BY <2>1, <2>2, <2>4, FiniteClaims, ConcurrencyAssumption
<1>2. Inv /\ UnclaimedByNobody /\ TaskRoom /\ HostRoom /\ [Next]_vars => HostRoom'
  BY HostRoomStep
<1> QED
  BY <1>1, <1>2, Invariance, UnclaimedInvariant, TaskRoomInvariant, PTL DEF Spec

-----------------------------------------------------------------------------
\* Only agents' hostnames are in the rows.
NamedByAgents == \A j \in Jobs : worker_id[j] # NULL => \E a \in Agents : worker_id[j] = WorkerOf[a]

LEMMA NamesInvariant == Spec => []NamedByAgents
<1>1. Init => NamedByAgents
  BY DEF Init, DbInit, NamedByAgents
<1>2. TypeOK /\ NamedByAgents /\ [Next]_vars => NamedByAgents'
  <2> SUFFICES ASSUME TypeOK, NamedByAgents, [Next]_vars
               PROVE  NamedByAgents'
    OBVIOUS
  <2>1. ASSUME NEW a \in Agents, locked[a] # NULL, AssignTo(WorkerOf[a], locked[a])
        PROVE  NamedByAgents'
    BY <2>1 DEF AssignTo, NamedByAgents, TypeOK, DbTypeOK
  <2>2. CASE UNCHANGED worker_id
    BY <2>2 DEF NamedByAgents
  <2> QED
    BY <2>1, <2>2, WorkerIdWritten
<1> QED
  BY <1>1, <1>2, Invariance, PTL DEF Spec, Inv

\* Agents that go by one hostname may together claim one job too many each, but
\* for one of them, since they count before any of them claims: the table never
\* shows more for the hostname, and nothing is assumed of what fails.
THEOREM CapacityOfHosts == Spec => []CapacityOfHost
<1>1. HostRoom /\ NamedByAgents => CapacityOfHost
  <2> SUFFICES ASSUME HostRoom, NamedByAgents, NEW w \in Workers, ActiveJobs(w) # {}
               PROVE  Cardinality(ActiveJobs(w)) < Concurrency + Cardinality(AgentsOf(w))
    BY DEF CapacityOfHost
  <2>1. AgentsOf(w) # {}
    BY NullAssumption DEF ActiveJobs, NamedByAgents, AgentsOf
  <2>2. Cardinality(ActiveJobs(w)) + Cardinality(Claiming(w)) < Concurrency + Cardinality(AgentsOf(w))
    BY <2>1 DEF HostRoom
  <2> QED
    BY <2>2, FiniteHoldings, FiniteClaims, ConcurrencyAssumption
<1> QED
  BY <1>1, HostRoomInvariant, NamesInvariant, PTL

\* No two agents go by one hostname.
OwnHostnames == \A a, b \in Agents : WorkerOf[a] = WorkerOf[b] => a = b

\* The jobs table never shows a worker with more active jobs than
\* WORKER_CONCURRENCY, although the count and the claim of _try_claim are two
\* transactions, and whatever crashes, restarts, is cancelled or fails, as long
\* as every agent has a hostname of its own.
THEOREM CapacityInTable ==
  ASSUME OwnHostnames
  PROVE  Spec => []CapacityInDatabase
<1>1. CapacityOfHost => CapacityInDatabase
  <2> SUFFICES ASSUME CapacityOfHost, NEW w \in Workers
               PROVE  Cardinality(ActiveJobs(w)) <= Concurrency
    BY DEF CapacityInDatabase
  <2>1. CASE ActiveJobs(w) = {}
    BY <2>1, FS_EmptySet, ConcurrencyAssumption
  <2>2. CASE ActiveJobs(w) # {}
    <3>1. Cardinality(ActiveJobs(w)) < Concurrency + Cardinality(AgentsOf(w))
      BY <2>2 DEF CapacityOfHost
    <3>2. CASE AgentsOf(w) = {}
      BY <3>1, <3>2, FS_EmptySet, FiniteHoldings, ConcurrencyAssumption
    <3>3. CASE AgentsOf(w) # {}
      <4>1. PICK a : AgentsOf(w) = {a}
        BY <3>3 DEF AgentsOf, OwnHostnames
      <4>2. Cardinality(AgentsOf(w)) = 1
        BY <4>1, FS_Singleton
      <4> QED
        BY <3>1, <4>2, FiniteHoldings, ConcurrencyAssumption
    <3> QED
      BY <3>2, <3>3
  <2> QED
    BY <2>1, <2>2
<1> QED
  BY <1>1, CapacityOfHosts, PTL

\* As long as no statement raises, an agent never has more than
\* WORKER_CONCURRENCY children running, those in their grace period included,
\* also where other agents go by its hostname.
THEOREM CapacityOfAgents ==
  ASSUME "db" \notin Faults
  PROVE  Spec => []CapacityInProcesses
<1>1. TaskRoom /\ NoUnwatchedProcess => CapacityInProcesses
  <2> SUFFICES ASSUME TaskRoom, NoUnwatchedProcess, NEW a \in Agents
               PROVE  Cardinality({j \in Jobs : proc[a][j] = "running"}) <= Concurrency
    BY DEF CapacityInProcesses
  <2>1. {j \in Jobs : proc[a][j] = "running"} \subseteq ActiveTasks(a)
    BY DEF NoUnwatchedProcess, ActiveTasks
  <2>2. /\ Cardinality({j \in Jobs : proc[a][j] = "running"}) \in Nat
        /\ Cardinality({j \in Jobs : proc[a][j] = "running"}) <= Cardinality(ActiveTasks(a))
    BY <2>1, FiniteHoldings, FS_Subset, FS_CardinalityType
  <2>3. Cardinality(ActiveTasks(a)) < Concurrency + 1
    BY DEF TaskRoom
  <2> QED
    BY <2>2, <2>3, FiniteHoldings, ConcurrencyAssumption
<1> QED
  BY <1>1, TaskRoomInvariant, ProcessesAreWatched, PTL
=============================================================================
