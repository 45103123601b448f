--------------------------- MODULE ListJobsProofs ---------------------------
(***************************************************************************)
(* A listing misses no job, for any number of jobs and workers: the order  *)
(* of the JobStatus enum, in which list_jobs asks its queries, is one in   *)
(* which jobs only move forward.                                           *)
(***************************************************************************)
EXTENDS ListJobs, TLAPS

-----------------------------------------------------------------------------
\* A job that was there when the request came in is in the result already, or
\* its status has not been asked for yet.
StillAhead ==
    \A j \in known : listed[j] # {} \/ Rank[status[j]] > cursor

ListInv == ListTypeOK /\ StillAhead

Statuses == {"absent", "pending", "ready", "assigned", "running",
             "completed", "failed", "cancelled", "lost"}

LEMMA RankFacts ==
  /\ DOMAIN Rank = Statuses
  /\ Rank["absent"] = 0 /\ Rank["pending"] = 1 /\ Rank["ready"] = 2
  /\ Rank["assigned"] = 3 /\ Rank["running"] = 4 /\ Rank["completed"] = 5
  /\ Rank["failed"] = 6 /\ Rank["cancelled"] = 7 /\ Rank["lost"] = 8
  /\ \A s \in Statuses : Rank[s] \in 0 .. Last
<1>1. DOMAIN Rank = Statuses
  BY DEF Rank, Statuses
<1>2. /\ Rank["absent"] = 0 /\ Rank["pending"] = 1 /\ Rank["ready"] = 2
      /\ Rank["assigned"] = 3 /\ Rank["running"] = 4 /\ Rank["completed"] = 5
      /\ Rank["failed"] = 6 /\ Rank["cancelled"] = 7 /\ Rank["lost"] = 8
  BY DEF Rank
<1>3. \A s \in Statuses : Rank[s] \in 0 .. Last
  BY <1>2 DEF Statuses, Last
<1> QED
  BY <1>1, <1>2, <1>3

\* A step of the lifecycle takes no job back.
LEMMA MovesForward ==
  ASSUME ListTypeOK, Next
  PROVE  /\ status' \in [Jobs -> DOMAIN Rank]
         /\ worker_id' \in [Jobs -> Workers \cup {NULL}]
         /\ \A j \in Jobs : Rank[status'[j]] >= Rank[status[j]]
<1> USE RankFacts DEF ListTypeOK, Statuses, Last
<1>1. ASSUME NEW j \in Jobs, NEW deps \in SUBSET Jobs, Submit(j, deps)
      PROVE  /\ status' = [status EXCEPT ![j] = "pending"]
             /\ Rank[status[j]] <= 1
             /\ UNCHANGED worker_id
  BY <1>1 DEF Submit
<1>2. ASSUME NEW j \in Jobs, Start(j)
      PROVE  /\ status' = [status EXCEPT ![j] = "running"]
             /\ Rank[status[j]] <= 4
             /\ UNCHANGED worker_id
  BY <1>2 DEF Start
<1>3. ASSUME NEW j \in Jobs, NEW code, Exit(j, code)
      PROVE  \E end \in {"completed", "failed"} :
                /\ status' = [status EXCEPT ![j] = end]
                /\ Rank[status[j]] <= Rank[end]
                /\ UNCHANGED worker_id
  <2>1. Rank[status[j]] <= 5 /\ UNCHANGED worker_id
    BY <1>3 DEF Exit
  <2>2. CASE status' = [status EXCEPT ![j] = "completed"]
    BY <2>1, <2>2
  <2>3. CASE status' = [status EXCEPT ![j] = "failed"]
    BY <2>1, <2>3
  <2> QED
    BY <1>3, <2>2, <2>3 DEF Exit
<1>4. ASSUME NEW j \in Jobs, NEW r, Exceed(j, r)
      PROVE  /\ status' = [status EXCEPT ![j] = "failed"]
             /\ Rank[status[j]] <= 6
             /\ UNCHANGED worker_id
  BY <1>4 DEF Exceed
<1>5. ASSUME NEW j \in Jobs, Cancel(j)
      PROVE  /\ status' = [status EXCEPT ![j] = "cancelled"]
             /\ Rank[status[j]] <= 7
             /\ UNCHANGED worker_id
  BY <1>5 DEF Cancel, Terminal
<1>6. ASSUME NEW j \in Jobs, NEW w \in Workers, Claim(w, j)
      PROVE  /\ status' = [status EXCEPT ![j] = "assigned"]
             /\ Rank[status[j]] <= 3
             /\ worker_id' = [worker_id EXCEPT ![j] = w]
  BY <1>6 DEF Claim
<1>7. ASSUME NEW ready \in SUBSET Jobs, MakeReady(ready)
      PROVE  /\ status' \in [Jobs -> Statuses]
             /\ \A j \in Jobs : Rank[status'[j]] >= Rank[status[j]]
             /\ UNCHANGED worker_id
  BY <1>7 DEF MakeReady
<1>8. ASSUME NEW w \in Workers, Lose(w)
      PROVE  /\ status' \in [Jobs -> Statuses]
             /\ \A j \in Jobs : Rank[status'[j]] >= Rank[status[j]]
             /\ UNCHANGED worker_id
  BY <1>8 DEF Lose
<1>9. ASSUME NEW j \in Jobs, NEW end \in Statuses, status' = [status EXCEPT ![j] = end],
             Rank[status[j]] <= Rank[end]
      PROVE  /\ status' \in [Jobs -> Statuses]
             /\ \A k \in Jobs : Rank[status'[k]] >= Rank[status[k]]
  <2>1. \A k \in Jobs : Rank[status[k]] \in Int
    OBVIOUS
  <2> QED
    BY <1>9, <2>1
<1> QED
  BY <1>1, <1>2, <1>3, <1>4, <1>5, <1>6, <1>7, <1>8, <1>9 DEF Next

LEMMA ListInvInit == ListInit => ListInv
  BY RankFacts DEF ListInit, Init, ListInv, ListTypeOK, StillAhead, Last, Statuses

LEMMA ListInvStep == ListInv /\ [ListNext]_allVars => ListInv'
<1> SUFFICES ASSUME ListInv, [ListNext]_allVars
             PROVE  ListInv'
  OBVIOUS
<1> USE DEF ListInv, ListTypeOK, StillAhead
<1>1. CASE StartList
  <2>1. \A j \in known' : Rank[status'[j]] > cursor'
    BY <1>1, RankFacts DEF StartList, vars, Statuses
  <2> QED
    BY <1>1, <2>1 DEF StartList, vars, Last
<1>2. CASE ListByStatus
  <2>1. /\ UNCHANGED <<status, worker_id, known>>
        /\ cursor' = cursor + 1
        /\ cursor' \in 0 .. Last
    BY <1>2 DEF ListByStatus, vars, Last
  <2>2. \A j \in Jobs : listed'[j] = IF Rank[status[j]] = cursor + 1
                                        THEN listed[j] \cup {status[j]} ELSE listed[j]
    BY <1>2 DEF ListByStatus, QueryMatches
  <2>3. listed' \in [Jobs -> SUBSET DOMAIN Rank]
    BY <1>2 DEF ListByStatus, QueryMatches
  <2>4. \A j \in Jobs : Rank[status[j]] \in Int
    BY RankFacts DEF Last
  <2>5. ASSUME NEW j \in known
        PROVE  listed'[j] # {} \/ Rank[status[j]] > cursor + 1
    <3>1. CASE Rank[status[j]] = cursor + 1
      BY <2>2, <3>1
    <3>2. CASE Rank[status[j]] # cursor + 1
      <4>1. listed[j] # {} \/ Rank[status[j]] > cursor
        OBVIOUS
      <4>2. listed'[j] = listed[j]
        BY <2>2, <3>2
      <4> QED
        BY <2>4, <3>2, <4>1, <4>2 DEF Last
    <3> QED
      BY <3>1, <3>2
  <2>6. StillAhead'
    BY <2>1, <2>5
  <2> QED
    BY <2>1, <2>3, <2>6
<1>3. CASE Next /\ UNCHANGED listVars
  <2>1. /\ status' \in [Jobs -> DOMAIN Rank]
        /\ worker_id' \in [Jobs -> Workers \cup {NULL}]
        /\ \A j \in Jobs : Rank[status'[j]] >= Rank[status[j]]
    BY <1>3, MovesForward
  <2>2. \A j \in Jobs : Rank[status[j]] \in Int /\ Rank[status'[j]] \in Int
    BY <2>1, RankFacts DEF Last
  <2>3. UNCHANGED <<cursor, known, listed>>
    BY <1>3 DEF listVars
  <2>4. StillAhead'
    BY <2>1, <2>2, <2>3 DEF Last
  <2> QED
    BY <2>1, <2>3, <2>4
<1>4. CASE UNCHANGED allVars
  BY <1>4 DEF allVars, vars, listVars
<1>5. CASE Respond
  BY <1>5 DEF Respond, vars
<1> QED
  BY <1>1, <1>2, <1>3, <1>4, <1>5 DEF ListNext

\* However many jobs there are and whatever they do meanwhile, the result of
\* list_jobs contains every job that existed when the request came in.
THEOREM ListingIsComplete == ListSpec => []ListComplete
<1>1. ListInv => ListComplete
  <2> SUFFICES ASSUME ListInv, cursor = Last, NEW j \in known
               PROVE  listed[j] # {}
    BY DEF ListComplete
  <2>1. Rank[status[j]] \in 0 .. Last
    BY RankFacts DEF ListInv, ListTypeOK
  <2> QED
    BY <2>1 DEF ListInv, StillAhead, Last
<1> QED
  BY <1>1, ListInvInit, ListInvStep, PTL DEF ListSpec
=============================================================================
