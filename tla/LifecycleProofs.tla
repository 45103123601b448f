-------------------------- MODULE LifecycleProofs ---------------------------
(***************************************************************************)
(* Lightcron implements JobLifecycle, for every instance: each step of a   *)
(* scheduler, an agent or a failure is one step of the job lifecycle, or   *)
(* none.  The inductive invariant of LightcronProofs supplies what a step  *)
(* may assume of the row it writes.                                        *)
(***************************************************************************)
EXTENDS LightcronProofs

-----------------------------------------------------------------------------
\* The outcome columns, as JobLifecycle sees them.
Outcome == [j \in Jobs |-> [exit_code |-> exit_code[j], kill_reason |-> kill_reason[j]]]

\* A step that leaves the rows alone.
LEMMA LifecycleStutter ==
  ASSUME UNCHANGED <<status, depends_on, worker_id, exit_code, kill_reason>>
  PROVE  UNCHANGED Lifecycle!vars
  BY DEF Lifecycle!vars

LEMMA LifecycleInit == Init => Lifecycle!Init
  BY DEF Init, DbInit, Lifecycle!Init, Lifecycle!NoOutcome

\* A guarded UPDATE that finds the row terminal changes nothing.
LEMMA GuardBlocks ==
  ASSUME TypeOK, NEW j \in Jobs, NEW new, status[j] \in Terminal, UpdateStatus(j, new)
  PROVE  UNCHANGED status
  BY DEF UpdateStatus, TypeOK, DbTypeOK

LEMMA LifecycleScheduler ==
  ASSUME TypeOK, Related, DependenciesExist, SchedulerNext
  PROVE  [Lifecycle!Next]_(Lifecycle!vars)
<1> USE DEF dbVars, clockVars, jobRows, workerRows
<1>1. ASSUME NEW j \in Jobs, NEW start \in 0 .. MaxTime, NEW deps \in SUBSET Jobs,
             ScheduleJob(j, start, deps)
      PROVE  Lifecycle!Next
  <2>1. Lifecycle!Submit(j, deps)
    BY <1>1 DEF ScheduleJob, Submitted, InsertJob, Exists, Lifecycle!Submit
  <2> QED
    BY <2>1 DEF Lifecycle!Next
<1>2. ASSUME NEW j \in Jobs, CancelWrite(j)
      PROVE  [Lifecycle!Next]_(Lifecycle!vars)
  <2>1. UNCHANGED <<depends_on, worker_id, exit_code, kill_reason>> /\ UpdateStatus(j, "cancelled")
    BY <1>2 DEF CancelWrite
  <2>2. CASE status[j] \in Terminal
    BY <2>1, <2>2, GuardBlocks, LifecycleStutter
  <2>3. CASE status[j] \notin Terminal
    <3>1. status[j] # "absent"
      BY <1>2 DEF CancelWrite, Related, CancellingExists, Exists
    <3>2. Lifecycle!Cancel(j)
      BY <2>1, <2>3, <3>1 DEF UpdateStatus, Terminal, Lifecycle!Cancel, Lifecycle!Terminal
    <3> QED
      BY <3>2 DEF Lifecycle!Next
  <2> QED
    BY <2>2, <2>3
<1>3. CASE ReadyTransition
  <2> DEFINE ready == {j \in Jobs : Eligible(j)}
  <2>1. Lifecycle!MakeReady(ready)
    BY <1>3, EligibleMeansCompleted DEF ReadyTransition, Eligible, Lifecycle!MakeReady
  <2> QED
    BY <2>1 DEF Lifecycle!Next
<1>4. ASSUME NEW w \in Workers, MarkOffline(w)
      PROVE  Lifecycle!Next
  <2>1. Lifecycle!Lose(w)
    BY <1>4 DEF MarkOffline, UpdateTogether, ActiveJobs, Active, Lifecycle!Lose
  <2> QED
    BY <2>1 DEF Lifecycle!Next
<1>5. ASSUME NEW s \in Schedulers, MarkUnanswered(s)
      PROVE  Lifecycle!Next
  BY <1>4, <1>5 DEF MarkUnanswered, TypeOK, SchedulerTypeOK
<1>6. ASSUME NEW s \in Schedulers, NEW w \in Workers, MarkStage2(s, w)
      PROVE  Lifecycle!Next
  BY <1>4, <1>6 DEF MarkStage2
<1>7. ASSUME NEW j \in Jobs, CancelRead(j) \/ CancelFails(j)
      PROVE  UNCHANGED Lifecycle!vars
  BY <1>7, LifecycleStutter DEF CancelRead, CancelFails
<1>8. ASSUME NEW s \in Schedulers, HealthSnapshot(s) \/ HealthPassFails(s) \/ Shutdown(s)
      PROVE  UNCHANGED Lifecycle!vars
  BY <1>8, LifecycleStutter DEF HealthSnapshot, HealthPassFails, Shutdown, AbandonPass
<1>9. ASSUME NEW s \in Schedulers, NEW w \in Workers, NEW alive \in BOOLEAN, Probe(s, w, alive)
      PROVE  UNCHANGED Lifecycle!vars
  BY <1>9, LifecycleStutter DEF Probe
<1> QED
  BY <1>1, <1>2, <1>3, <1>5, <1>6, <1>7, <1>8, <1>9 DEF SchedulerNext

-----------------------------------------------------------------------------
(* The three kinds of UPDATE an agent issues.                              *)

LEMMA LifecycleAssign ==
  ASSUME TypeOK, Related, NEW a \in Agents, locked[a] # NULL, AssignTo(WorkerOf[a], locked[a])
  PROVE  Lifecycle!Next
<1>1. PICK j \in Jobs : j = locked[a]
  BY DEF TypeOK, DbTypeOK
<1>2. status[j] = "ready"
  BY <1>1 DEF Related, LockHeldOnce
<1>3. Lifecycle!Claim(WorkerOf[a], j)
  BY <1>1, <1>2 DEF AssignTo, Lifecycle!Claim
<1> QED
  BY <1>3, WorkerOfAssumption DEF Lifecycle!Next

LEMMA LifecycleConfirm ==
  ASSUME TypeOK, Related, NEW a \in Agents, NEW j \in Jobs,
         task[a][j] = "confirming", UpdateStatus(j, "running"),
         UNCHANGED <<depends_on, worker_id, exit_code, kill_reason>>
  PROVE  [Lifecycle!Next]_(Lifecycle!vars)
<1>1. CASE status[j] \in Terminal
  BY <1>1, GuardBlocks, LifecycleStutter
<1>2. CASE status[j] \notin Terminal
  <2>1. status[j] = "assigned"
    BY <1>2 DEF Related, TaskMatchesRow, Terminal
  <2>2. Lifecycle!Start(j)
    BY <1>2, <2>1 DEF UpdateStatus, Lifecycle!Start
  <2> QED
    BY <2>2 DEF Lifecycle!Next
<1> QED
  BY <1>1, <1>2

\* Writing one outcome column is changing one field of the outcome.
LEMMA OutcomeFields ==
  \A j \in Jobs : \A value :
     /\ Outcome' = [k \in Jobs |-> [exit_code   |-> IF k = j THEN value ELSE exit_code[k],
                                    kill_reason |-> kill_reason[k]]]
        => Outcome' = [Outcome EXCEPT ![j].exit_code = value]
     /\ Outcome' = [k \in Jobs |-> [exit_code   |-> exit_code[k],
                                    kill_reason |-> IF k = j THEN value ELSE kill_reason[k]]]
        => Outcome' = [Outcome EXCEPT ![j].kill_reason = value]
<1> TAKE j \in Jobs
<1> TAKE value
<1>1. \A k \in Jobs : Outcome[k] = [exit_code |-> exit_code[k], kill_reason |-> kill_reason[k]]
  BY DEF Outcome
<1>2. /\ [Outcome[j] EXCEPT !.exit_code = value]
           = [exit_code |-> value, kill_reason |-> kill_reason[j]]
      /\ [Outcome[j] EXCEPT !.kill_reason = value]
           = [exit_code |-> exit_code[j], kill_reason |-> value]
  <2>1. PICK code, reason : code = exit_code[j] /\ reason = kill_reason[j]
    OBVIOUS
  <2>2. Outcome[j] = [exit_code |-> code, kill_reason |-> reason]
    BY <1>1, <2>1
  <2>3. /\ [[exit_code |-> code, kill_reason |-> reason] EXCEPT !.exit_code = value]
             = [exit_code |-> value, kill_reason |-> reason]
        /\ [[exit_code |-> code, kill_reason |-> reason] EXCEPT !.kill_reason = value]
             = [exit_code |-> code, kill_reason |-> value]
    OBVIOUS
  <2>4. [Outcome[j] EXCEPT !.exit_code = value] = [exit_code |-> value, kill_reason |-> reason]
    BY <2>2, <2>3, Zenon
  <2>5. [Outcome[j] EXCEPT !.kill_reason = value] = [exit_code |-> code, kill_reason |-> value]
    BY <2>2, <2>3, Zenon
  <2> QED
    BY <2>1, <2>4, <2>5, Zenon
<1>3. [Outcome EXCEPT ![j] = [exit_code |-> value, kill_reason |-> kill_reason[j]]]
        = [k \in Jobs |-> [exit_code   |-> IF k = j THEN value ELSE exit_code[k],
                           kill_reason |-> kill_reason[k]]]
  BY DEF Outcome
<1>4. [Outcome EXCEPT ![j] = [exit_code |-> exit_code[j], kill_reason |-> value]]
        = [k \in Jobs |-> [exit_code   |-> exit_code[k],
                           kill_reason |-> IF k = j THEN value ELSE kill_reason[k]]]
  BY DEF Outcome
<1>5. /\ [Outcome EXCEPT ![j].exit_code = value]
           = [Outcome EXCEPT ![j] = [Outcome[j] EXCEPT !.exit_code = value]]
      /\ [Outcome EXCEPT ![j].kill_reason = value]
           = [Outcome EXCEPT ![j] = [Outcome[j] EXCEPT !.kill_reason = value]]
  OBVIOUS
<1> QED
  BY <1>2, <1>3, <1>4, <1>5, Zenon

LEMMA LifecycleRecordExit ==
  ASSUME TypeOK, Related, NEW a \in Agents, NEW j \in Jobs, RecordExit(a, j)
  PROVE  [Lifecycle!Next]_(Lifecycle!vars)
<1> DEFINE code == hand[a][j]
           end  == IF code = "zero" THEN "completed" ELSE "failed"
<1>1. UpdateOutcome(j, end, code, NULL) /\ code \in ExitCodes
  BY DEF RecordExit, Related, HandOK
<1>2. CASE status[j] \in Terminal
  <2>1. UNCHANGED <<status, depends_on, worker_id, exit_code, kill_reason>>
    BY <1>1, <1>2, GuardBlocks DEF UpdateOutcome, TypeOK, DbTypeOK
  <2> QED
    BY <2>1, LifecycleStutter
<1>3. CASE status[j] \notin Terminal
  <2>1. status[j] = "running"
    BY <1>3 DEF RecordExit, Related, TaskMatchesRow, Terminal
  <2>2. /\ status' = [status EXCEPT ![j] = end]
        /\ exit_code' = [exit_code EXCEPT ![j] = code]
        /\ kill_reason' = kill_reason
        /\ UNCHANGED <<depends_on, worker_id>>
    BY <1>1, <1>3, NullAssumption DEF UpdateOutcome, UpdateStatus, TypeOK, DbTypeOK
  <2>3. Outcome' = [Outcome EXCEPT ![j].exit_code = code]
    <3>1. Outcome' = [k \in Jobs |-> [exit_code   |-> IF k = j THEN code ELSE exit_code[k],
                                      kill_reason |-> kill_reason[k]]]
      BY <2>2 DEF Outcome, TypeOK, DbTypeOK
    <3> QED
      BY <3>1, OutcomeFields, Zenon
  <2>4. PICK c \in {"zero", "nonzero"} : c = code
    BY <1>1 DEF ExitCodes
  <2>5. Lifecycle!Exit(j, c)
    BY <2>1, <2>2, <2>3, <2>4, Zenon DEF Lifecycle!Exit, Outcome
  <2> QED
    BY <2>4, <2>5, Zenon DEF Lifecycle!Next
<1> QED
  BY <1>2, <1>3

LEMMA LifecycleRecordKill ==
  ASSUME TypeOK, Related, NEW a \in Agents, NEW j \in Jobs, RecordKill(a, j)
  PROVE  [Lifecycle!Next]_(Lifecycle!vars)
<1> DEFINE reason == hand[a][j]
<1>1. UpdateOutcome(j, "failed", NULL, reason) /\ reason \in KillReason
  BY DEF RecordKill, Related, HandOK
<1>2. CASE status[j] \in Terminal
  <2>1. UNCHANGED <<status, depends_on, worker_id, exit_code, kill_reason>>
    BY <1>1, <1>2, GuardBlocks DEF UpdateOutcome, TypeOK, DbTypeOK
  <2> QED
    BY <2>1, LifecycleStutter
<1>3. CASE status[j] \notin Terminal
  <2>1. status[j] = "running"
    BY <1>3 DEF RecordKill, Related, TaskMatchesRow, Terminal
  <2>2. /\ status' = [status EXCEPT ![j] = "failed"]
        /\ kill_reason' = [kill_reason EXCEPT ![j] = reason]
        /\ exit_code' = exit_code
        /\ UNCHANGED <<depends_on, worker_id>>
    BY <1>1, <1>3, NullAssumption DEF UpdateOutcome, UpdateStatus, TypeOK, DbTypeOK
  <2>3. Outcome' = [Outcome EXCEPT ![j].kill_reason = reason]
    <3>1. Outcome' = [k \in Jobs |-> [exit_code   |-> exit_code[k],
                                      kill_reason |-> IF k = j THEN reason ELSE kill_reason[k]]]
      BY <2>2 DEF Outcome, TypeOK, DbTypeOK
    <3> QED
      BY <3>1, OutcomeFields, Zenon
  <2>4. PICK r \in {"max_runtime_exceeded", "max_memory_exceeded"} : r = reason
    BY <1>1 DEF KillReason
  <2>5. Lifecycle!Exceed(j, r)
    BY <2>1, <2>2, <2>3, <2>4, Zenon DEF Lifecycle!Exceed, Outcome
  <2> QED
    BY <2>4, <2>5, Zenon DEF Lifecycle!Next
<1> QED
  BY <1>2, <1>3

LEMMA LifecycleAgent ==
  ASSUME TypeOK, Related, AgentNext
  PROVE  [Lifecycle!Next]_(Lifecycle!vars)
<1> USE DEF dbVars, clockVars, jobRows, workerRows
<1>1. ASSUME NEW a \in Agents,
             Register(a) \/ Heartbeat(a) \/ ClaimCount(a) \/ ClaimNothing(a)
      PROVE  UNCHANGED Lifecycle!vars
  BY <1>1, LifecycleStutter DEF Register, Heartbeat, ClaimCount, ClaimIf, ClaimNothing
<1>2. ASSUME NEW a \in Agents, Crash(a) \/ ClaimFails(a)
      PROVE  [Lifecycle!Next]_(Lifecycle!vars)
  BY <1>2, LifecycleStutter, LifecycleAssign DEF Crash, ClaimFails
<1>3. ASSUME NEW a \in Agents, ClaimCommit(a)
      PROVE  Lifecycle!Next
  BY <1>3, LifecycleAssign DEF ClaimCommit
<1>4. ASSUME NEW a \in Agents, NEW j \in Jobs,
             \/ ClaimSelect(a, j) \/ StartProcess(a, j) \/ PollExit(a, j) \/ CheckStatus(a, j)
             \/ GraceExit(a, j) \/ GraceExpires(a, j)
             \/ SpawnFails(a, j) \/ TaskFails(a, j) \/ ProcessExits(a, j)
      PROVE  UNCHANGED Lifecycle!vars
  BY <1>4, LifecycleStutter
     DEF ClaimSelect, StartProcess, PollExit, CheckStatus, GraceExit, GraceExpires,
         SpawnFails, TaskFails, ProcessExits
<1>5. ASSUME NEW a \in Agents, NEW j \in Jobs, ConfirmRunning(a, j) \/ ConfirmAnswerLost(a, j)
      PROVE  [Lifecycle!Next]_(Lifecycle!vars)
  BY <1>5, LifecycleConfirm DEF ConfirmRunning, ConfirmAnswerLost
<1>6. ASSUME NEW j \in Jobs,
             \/ RuntimeElapses(j)
             \/ \E a \in Agents : ProcessForks(a, j) \/ DescendantsExit(a, j)
      PROVE  UNCHANGED Lifecycle!vars
  BY <1>6, LifecycleStutter DEF RuntimeElapses, ProcessForks, DescendantsExit
<1> QED
  BY <1>1, <1>2, <1>3, <1>4, <1>5, <1>6, LifecycleRecordExit, LifecycleRecordKill
     DEF AgentNext, JobTask

LEMMA LifecycleStep == Inv /\ [Next]_vars => [Lifecycle!Next]_(Lifecycle!vars)
<1> SUFFICES ASSUME TypeOK, Related, DependenciesExist, [Next]_vars
             PROVE  [Lifecycle!Next]_(Lifecycle!vars)
  BY DEF Inv, Related
<1>1. CASE Tick \/ (\E w \in Workers : LastSeenAges(w)) \/ UNCHANGED vars
  <2>1. UNCHANGED <<status, depends_on, worker_id, exit_code, kill_reason>>
    BY <1>1 DEF Tick, LastSeenAges, vars, dbVars, jobRows
  <2> QED
    BY <2>1, LifecycleStutter
<1> QED
  BY <1>1, LifecycleScheduler, LifecycleAgent DEF Next

\* Whatever schedulers, agents and failures do, what becomes of the rows is a
\* behaviour of the job lifecycle: in particular the first terminal status of a
\* job is its last, and its outcome is written once.
THEOREM Refinement == Spec => LifecycleImplemented
<1>1. Init /\ [][Next]_vars /\ []Inv => Lifecycle!Init /\ [][Lifecycle!Next]_(Lifecycle!vars)
  BY LifecycleInit, LifecycleStep, PTL
<1> QED
  BY <1>1, Invariance, PTL DEF Spec, LifecycleImplemented, Lifecycle!Spec

-----------------------------------------------------------------------------
\* A row names no worker before it is claimed.
LEMMA UnclaimedInvariant == Spec => []UnclaimedByNobody
<1>1. Init => UnclaimedByNobody
  BY DEF Init, DbInit, UnclaimedByNobody
<1>2. Inv /\ UnclaimedByNobody /\ [Next]_vars => UnclaimedByNobody'
  <2> SUFFICES ASSUME Inv, UnclaimedByNobody, [Next]_vars
               PROVE  UnclaimedByNobody'
    OBVIOUS
  <2>1. [Lifecycle!Next]_(Lifecycle!vars)
    BY LifecycleStep
  <2>2. CASE Lifecycle!Next
    <3>1. status \in [Jobs -> JobStatus \cup {"absent"}] /\ worker_id \in [Jobs -> Workers \cup {NULL}]
      BY DEF Inv, TypeOK, DbTypeOK
    <3>2. ASSUME NEW w \in Workers, NEW j \in Jobs, Lifecycle!Claim(w, j)
          PROVE  UnclaimedByNobody'
      BY <3>1, <3>2 DEF Lifecycle!Claim, UnclaimedByNobody
    <3>3. ASSUME UNCHANGED worker_id,
                 \A j \in Jobs : status'[j] \in {"absent", "pending", "ready"} =>
                                    status[j] \in {"absent", "pending", "ready"}
          PROVE  UnclaimedByNobody'
      BY <3>3 DEF UnclaimedByNobody
    <3>4. ASSUME NEW j \in Jobs, NEW deps, Lifecycle!Submit(j, deps)
          PROVE  UnclaimedByNobody'
      BY <3>1, <3>3, <3>4 DEF Lifecycle!Submit
    <3>5. ASSUME NEW ready, Lifecycle!MakeReady(ready)
          PROVE  UnclaimedByNobody'
      BY <3>1, <3>3, <3>5 DEF Lifecycle!MakeReady
    <3>6. ASSUME NEW j \in Jobs, Lifecycle!Start(j) \/ Lifecycle!Cancel(j)
          PROVE  UnclaimedByNobody'
      BY <3>1, <3>3, <3>6 DEF Lifecycle!Start, Lifecycle!Cancel
    <3>7. ASSUME NEW j \in Jobs, NEW code, Lifecycle!Exit(j, code) \/ Lifecycle!Exceed(j, code)
          PROVE  UnclaimedByNobody'
      BY <3>1, <3>3, <3>7 DEF Lifecycle!Exit, Lifecycle!Exceed
    <3>8. ASSUME NEW w \in Workers, Lifecycle!Lose(w)
          PROVE  UnclaimedByNobody'
      BY <3>1, <3>3, <3>8 DEF Lifecycle!Lose
    <3> QED
      BY <2>2, <3>2, <3>4, <3>5, <3>6, <3>7, <3>8 DEF Lifecycle!Next
  <2>3. CASE UNCHANGED Lifecycle!vars
    BY <2>3 DEF Lifecycle!vars, UnclaimedByNobody
  <2> QED
    BY <2>1, <2>2, <2>3
<1> QED
  BY <1>1, <1>2, Invariance, PTL DEF Spec

-----------------------------------------------------------------------------
(* Dependencies.                                                           *)

\* depends_on is written by a submission only, and rows stay.
LEMMA DependenciesWritten ==
  ASSUME TypeOK, [Lifecycle!Next]_(Lifecycle!vars)
  PROVE  \/ \A j \in Jobs : depends_on'[j] = depends_on[j] /\ (Exists(j)' <=> Exists(j))
         \/ \E k \in Jobs :
               /\ ~Exists(k)
               /\ \A d \in depends_on'[k] : d \in Jobs /\ Exists(d)
               /\ \A j \in Jobs : Exists(j)' <=> Exists(j) \/ j = k
               /\ \A j \in Jobs \ {k} : depends_on'[j] = depends_on[j]
<1> USE DEF Exists, TypeOK, DbTypeOK
<1>1. ASSUME NEW k \in Jobs, NEW deps \in SUBSET Jobs, Lifecycle!Submit(k, deps)
      PROVE  /\ ~Exists(k)
             /\ \A d \in depends_on'[k] : d \in Jobs /\ Exists(d)
             /\ \A j \in Jobs : Exists(j)' <=> Exists(j) \/ j = k
             /\ \A j \in Jobs \ {k} : depends_on'[j] = depends_on[j]
  BY <1>1 DEF Lifecycle!Submit
<1> DEFINE Quiet == \A j \in Jobs : depends_on'[j] = depends_on[j] /\ (Exists(j)' <=> Exists(j))
<1>2. ASSUME NEW k \in Jobs, NEW code, NEW w,
             \/ Lifecycle!Start(k) \/ Lifecycle!Exit(k, code) \/ Lifecycle!Exceed(k, code)
             \/ Lifecycle!Cancel(k) \/ Lifecycle!Claim(w, k)
      PROVE  Quiet
  BY <1>2 DEF Lifecycle!Start, Lifecycle!Exit, Lifecycle!Exceed, Lifecycle!Cancel, Lifecycle!Claim
<1>3. ASSUME NEW ready \in SUBSET Jobs, Lifecycle!MakeReady(ready)
      PROVE  Quiet
  BY <1>3 DEF Lifecycle!MakeReady
<1>4. ASSUME NEW w \in Workers, Lifecycle!Lose(w)
      PROVE  Quiet
  BY <1>4 DEF Lifecycle!Lose
<1>5. ASSUME UNCHANGED Lifecycle!vars
      PROVE  Quiet
  BY <1>5 DEF Lifecycle!vars
<1> QED
  BY <1>1, <1>2, <1>3, <1>4, <1>5 DEF Lifecycle!Next

LEMMA AcyclicStep ==
  ASSUME TypeOK, DependenciesExist, DependenciesAcyclic, [Lifecycle!Next]_(Lifecycle!vars)
  PROVE  DependenciesAcyclic'
<1>1. CASE \A j \in Jobs : depends_on'[j] = depends_on[j] /\ (Exists(j)' <=> Exists(j))
  BY <1>1 DEF DependenciesAcyclic
<1>2. ASSUME NEW k \in Jobs,
             ~Exists(k),
             \A d \in depends_on'[k] : d \in Jobs /\ Exists(d),
             \A j \in Jobs : Exists(j)' <=> Exists(j) \/ j = k,
             \A j \in Jobs \ {k} : depends_on'[j] = depends_on[j]
      PROVE  DependenciesAcyclic'
  <2>1. ASSUME NEW S \in SUBSET {j \in Jobs : Exists(j)'}, S # {}
        PROVE  \E j \in S : depends_on'[j] \cap S = {}
    <3>1. CASE S = {k}
      BY <1>2, <3>1
    <3>2. CASE S # {k}
      <4>1. /\ S \ {k} \in SUBSET {j \in Jobs : Exists(j)}
            /\ S \ {k} # {}
        BY <1>2, <2>1, <3>2
      <4>2. PICK j \in S \ {k} : depends_on[j] \cap (S \ {k}) = {}
        BY <4>1 DEF DependenciesAcyclic
      <4>3. k \notin depends_on[j] /\ depends_on'[j] = depends_on[j]
        BY <1>2, <4>1, <4>2 DEF DependenciesExist
      <4> QED
        BY <4>2, <4>3
    <3> QED
      BY <3>1, <3>2
  <2> QED
    BY <2>1 DEF DependenciesAcyclic
<1> QED
  BY <1>1, <1>2, DependenciesWritten

\* No set of submitted jobs waits for itself, whatever is submitted: a job can
\* depend on earlier ones only, and that is never edited.
THEOREM NoDependencyCycle == Spec => []DependenciesAcyclic
<1>1. Init => DependenciesAcyclic
  BY DEF Init, DbInit, DependenciesAcyclic, Exists
<1>2. Inv /\ DependenciesAcyclic /\ [Next]_vars => DependenciesAcyclic'
  BY LifecycleStep, AcyclicStep DEF Inv
<1> QED
  BY <1>1, <1>2, Invariance, PTL DEF Spec
=============================================================================
