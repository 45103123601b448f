------------------------------ MODULE ListJobs ------------------------------
(***************************************************************************)
(* GET /jobs without a status filter: JobService.list_jobs asks for the    *)
(* jobs of one status after another, in the order of the JobStatus enum,   *)
(* each with a transaction of its own, while the jobs go on.  What the     *)
(* jobs do meanwhile is any behaviour of JobLifecycle.                     *)
(***************************************************************************)
EXTENDS JobLifecycle, Integers

VARIABLES
    cursor,  \* how many of the queries have been answered
    known,   \* the jobs that existed when the request came in
    listed   \* listed[j]: the statuses under which j is in the result

listVars == <<cursor, known, listed>>
allVars  == <<vars, listVars>>

\* Position in the JobStatus enum.
Rank == [absent |-> 0, pending |-> 1, ready |-> 2, assigned |-> 3, running |-> 4,
         completed |-> 5, failed |-> 6, cancelled |-> 7, lost |-> 8]
Last == 8

ListInit ==
    /\ Init
    /\ cursor = Last
    /\ known = {}
    /\ listed = [j \in Jobs |-> {}]

\* The request comes in; one at a time is enough to follow.
StartList ==
    /\ cursor = Last
    /\ cursor' = 0
    /\ known' = {j \in Jobs : status[j] # "absent"}
    /\ listed' = [j \in Jobs |-> {}]
    /\ UNCHANGED vars

\* Mutant of QueryMatches: the statuses are asked for from last to first.
QueryMatchesBackwards(j) == Rank[status[j]] = Last - cursor

\* list_by_status of the next member of the enum.
QueryMatches(j) == Rank[status[j]] = cursor + 1

\* Mutant of ListByStatus: one query too many.
ListByStatusPastLast ==
    /\ cursor <= Last
    /\ cursor' = cursor + 1
    /\ listed' = [j \in Jobs |->
           IF QueryMatches(j) THEN listed[j] \cup {status[j]} ELSE listed[j]]
    /\ UNCHANGED <<vars, known>>

ListByStatus ==
    /\ cursor < Last
    /\ cursor' = cursor + 1
    /\ listed' = [j \in Jobs |->
           IF QueryMatches(j) THEN listed[j] \cup {status[j]} ELSE listed[j]]
    /\ UNCHANGED <<vars, known>>

\* The result goes out, and the request is over.
Respond ==
    /\ cursor = Last
    /\ known' = {}
    /\ listed' = [j \in Jobs |-> {}]
    /\ UNCHANGED <<vars, cursor>>

\* The request and its queries, and the jobs meanwhile.
ListNext ==
    \/ StartList
    \/ ListByStatus
    \/ Respond
    \/ Next /\ UNCHANGED listVars

ListSpec == ListInit /\ [][ListNext]_allVars

-----------------------------------------------------------------------------
\* Every column holds a value of its domain, and a listing stands at one of
\* its nine positions.
ListTypeOK ==
    /\ status \in [Jobs -> DOMAIN Rank]
    /\ worker_id \in [Jobs -> Workers \cup {NULL}]
    /\ cursor \in 0 .. Last
    /\ known \in SUBSET Jobs
    /\ listed \in [Jobs -> SUBSET DOMAIN Rank]

\* The answer of list_jobs leaves out no job that existed when the request
\* came in: a job only ever moves forward in the order of the queries, so one
\* that a query has missed is still ahead of the next.
ListComplete ==
    cursor = Last => \A j \in known : listed[j] # {}
=============================================================================
