----------------------------- MODULE Lightcron ------------------------------
(***************************************************************************)
(* The whole system: schedulers and worker agents over one database, the   *)
(* passing of time, and the failures named by Faults.                      *)
(***************************************************************************)
EXTENDS Scheduler, WorkerAgent

vars == <<dbVars, schedulerVars, agentVars>>

Init == DbInit /\ SchedulerInit /\ AgentInit

-----------------------------------------------------------------------------
(* Time.                                                                   *)
Tick ==
    /\ now < MaxTime
    /\ now' = now + 1
    /\ UNCHANGED <<jobRows, workerRows, locked, schedulerVars, agentVars>>

\* Some running agent goes by the hostname w.
Live(w) == \E a \in up : WorkerOf[a] = w

\* Another heartbeat interval passes since last_seen.  A live agent beats in
\* every interval, so only a failed heartbeat lets its row age further.
LastSeenAges(w) ==
    /\ worker_status[w] # "absent"
    /\ age[w] < OfflineAge
    /\ Live(w) => age[w] = 0 \/ "heartbeat" \in Faults
    /\ age' = [age EXCEPT ![w] = @ + 1]
    /\ UNCHANGED <<clockVars, jobRows, worker_status, locked, schedulerVars, agentVars>>

\* The scheduler probes http://{hostname}, which is port 80.
ProbePort == 80

\* Whether GET /health is answered on a port, where a runs.
HealthServed(a, port) == a \in up /\ port = HealthPort

\* What a probe of the hostname w, which is one of the agents that go by it,
\* can find; it may also run into its timeout.
ProbeFinds(w, alive) ==
    \/ \E a \in Agents : WorkerOf[a] = w /\ alive = HealthServed(a, ProbePort)
    \/ ~alive /\ "probe" \in Faults

-----------------------------------------------------------------------------
SchedulerNext ==
    /\ \/ \E j \in Jobs :
             \/ \E start \in 0 .. MaxTime, deps \in SUBSET Jobs : ScheduleJob(j, start, deps)
             \/ CancelRead(j)
             \/ CancelWrite(j)
             \/ CancelFails(j)
       \/ ReadyTransition
       \/ \E s \in Schedulers :
             \/ HealthSnapshot(s)
             \/ MarkUnanswered(s)
             \/ HealthPassFails(s)
             \/ Shutdown(s)
             \/ \E w \in Workers :
                   \/ MarkStage2(s, w)
                   \/ \E alive \in BOOLEAN : ProbeFinds(w, alive) /\ Probe(s, w, alive)
    /\ UNCHANGED agentVars

JobTask(a, j) ==
    \/ StartProcess(a, j)
    \/ ConfirmRunning(a, j)
    \/ PollExit(a, j)
    \/ CheckStatus(a, j)
    \/ RecordExit(a, j)
    \/ GraceExit(a, j) \/ GraceExpires(a, j)
    \/ RecordKill(a, j)

AgentNext ==
    /\ \/ \E a \in Agents :
             \/ Register(a) \/ Heartbeat(a) \/ Crash(a)
             \/ ClaimCount(a) \/ ClaimNothing(a) \/ ClaimCommit(a) \/ ClaimFails(a)
             \/ \E j \in Jobs :
                   \/ ClaimSelect(a, j)
                   \/ JobTask(a, j)
                   \/ SpawnFails(a, j) \/ TaskFails(a, j) \/ ConfirmAnswerLost(a, j)
                   \/ ProcessExits(a, j) \/ ProcessForks(a, j) \/ DescendantsExit(a, j)
       \/ \E j \in Jobs : RuntimeElapses(j)
    /\ UNCHANGED schedulerVars

Next ==
    \/ Tick
    \/ \E w \in Workers : LastSeenAges(w)
    \/ SchedulerNext
    \/ AgentNext

Spec == Init /\ [][Next]_vars

(***************************************************************************)
(* Fairness.  Every loop of the code sleeps for a fixed time and runs      *)
(* again, whatever its last pass raised, every statement is answered, and  *)
(* time passes: each such action is weakly fair.  Nothing is assumed of    *)
(* users, of processes (a job may run forever), of crashes and restarts.   *)
(***************************************************************************)
AsScheduler(A) == A /\ UNCHANGED agentVars
AsAgent(A)     == A /\ UNCHANGED schedulerVars

Fairness ==
    /\ WF_vars(Tick)
    /\ WF_vars(AsScheduler(ReadyTransition))
    /\ \A s \in Schedulers :
          /\ WF_vars(AsScheduler(HealthSnapshot(s)))
          /\ WF_vars(AsScheduler(MarkUnanswered(s)))
          /\ WF_vars(AsScheduler(\E w \in Workers, alive \in BOOLEAN :
                                    ProbeFinds(w, alive) /\ Probe(s, w, alive)))
          /\ WF_vars(AsScheduler(\E w \in Workers : MarkStage2(s, w)))
    /\ \A w \in Workers : WF_vars(LastSeenAges(w))
    /\ \A a \in Agents :
          /\ WF_vars(AsAgent(Heartbeat(a)))
          /\ WF_vars(AsAgent(ClaimCount(a)))
          /\ WF_vars(AsAgent(ClaimNothing(a) \/ \E j \in Jobs : ClaimSelect(a, j)))
          /\ WF_vars(AsAgent(ClaimCommit(a)))
    /\ \A j \in Jobs :
          /\ WF_vars(AsScheduler(CancelWrite(j)))
          /\ WF_vars(AsAgent(RuntimeElapses(j)))
          /\ \A a \in Agents : WF_vars(AsAgent(JobTask(a, j)))

FairSpec == Spec /\ Fairness
=============================================================================
