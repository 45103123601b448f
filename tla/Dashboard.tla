------------------------------ MODULE Dashboard ------------------------------
(***************************************************************************)
(* The jobs panel of the dashboard in one browser, with its status filter, *)
(* refreshed every ten seconds through the query cache of TanStack Query   *)
(* over GET /jobs.  The request without a filter is the listing of         *)
(* ListJobs, query by query.                                               *)
(***************************************************************************)
EXTENDS ListJobs

CONSTANTS
    Filters   \* the filters the user tries: statuses, and "all"

ASSUME FilterAssumption ==
    "all" \in Filters /\ Filters \subseteq {"all"} \cup (DOMAIN Rank \ {"absent"})

\* The rows of an answer: for each job the statuses it is listed with.
RowSets == [Jobs -> SUBSET DOMAIN Rank]

ASSUME NullAssumption == NULL \notin Filters \cup RowSets

VARIABLES
    filter,    \* the filter of the jobs panel, or NULL on the other page
    fetching,  \* filters whose request is in flight
    answer,    \* answer[f]: the rows read for such a request, or NULL
    cached     \* cached[f]: the rows shown under f, or NULL if there are none

panelVars == <<filter, fetching, answer, cached>>
dashVars  == <<allVars, panelVars>>

DashInit ==
    /\ ListInit
    /\ filter = "all"
    /\ fetching = {}
    /\ answer = [f \in Filters |-> NULL]
    /\ cached = [f \in Filters |-> NULL]

-----------------------------------------------------------------------------
(* The user picks another filter, goes to the other page, or comes back to *)
(* the dashboard, whose filter is "all" again.  What is in flight stays.   *)
Show(f) ==
    /\ filter' = f
    /\ UNCHANGED <<allVars, fetching, answer, cached>>

ChangeFilter(f) == filter # NULL /\ filter # f /\ Show(f)
Leave           == filter # NULL /\ Show(NULL)
Return          == filter = NULL /\ Show("all")

\* The rows of a filter are asked for, unless such a request is in flight.
Request(f) ==
    /\ f \notin fetching
    /\ fetching' = fetching \cup {f}
    /\ IF f = "all" THEN StartList ELSE UNCHANGED allVars
    /\ UNCHANGED <<filter, answer, cached>>

\* Mutant of Fetch: there is no refetchInterval.
FetchOnce(f) == filter = f /\ cached[f] = NULL /\ Request(f)

(* The panel appears, its filter changes or the interval elapses.          *)
Fetch(f) == filter = f /\ Request(f)

(* GET /jobs?status=f: one query.                                          *)
ListOneStatus(f) ==
    /\ f \in fetching \ {"all"}
    /\ answer[f] = NULL
    /\ answer' = [answer EXCEPT ![f] = [j \in Jobs |-> {status[j]} \cap {f}]]
    /\ UNCHANGED <<allVars, filter, fetching, cached>>

Answered(f) == IF f = "all" THEN cursor = Last ELSE answer[f] # NULL
Rows(f)     == IF f = "all" THEN listed ELSE answer[f]

FetchEnds(f) ==
    /\ f \in fetching
    /\ Answered(f)
    /\ fetching' = fetching \ {f}
    /\ IF f = "all" THEN Respond ELSE UNCHANGED allVars
    /\ answer' = [answer EXCEPT ![f] = NULL]
    /\ UNCHANGED filter

\* The answer to the request for f is put into the cache under key.
StoreUnder(f, key) ==
    /\ FetchEnds(f)
    /\ cached' = [cached EXCEPT ![key] = Rows(f)]

\* Mutant of Receive: the answer goes to whatever the panel shows by now.
ReceiveIntoCurrent(f) == filter # NULL /\ StoreUnder(f, filter)

(* The answer arrives, whatever the panel shows by now.                    *)
Receive(f) == StoreUnder(f, f)

(* The request and its one retry fail; the old rows stay.                  *)
FetchFails(f) == FetchEnds(f) /\ UNCHANGED cached

(* Rows that have not been shown for five minutes are dropped.             *)
Forget(f) ==
    /\ filter # f
    /\ f \notin fetching
    /\ cached' = [cached EXCEPT ![f] = NULL]
    /\ UNCHANGED <<allVars, filter, fetching, answer>>

-----------------------------------------------------------------------------
PanelNext ==
    \/ Leave
    \/ Return
    \/ \E f \in Filters :
          \/ ChangeFilter(f)
          \/ Fetch(f)
          \/ ListOneStatus(f)
          \/ Receive(f)
          \/ FetchFails(f)
          \/ Forget(f)

DashNext ==
    \/ PanelNext
    \/ ListByStatus /\ UNCHANGED panelVars
    \/ Next /\ UNCHANGED <<listVars, panelVars>>

DashSpec == DashInit /\ [][DashNext]_dashVars

(***************************************************************************)
(* Fairness: the refresh interval elapses as long as the panel is shown,   *)
(* every query is answered, and of the requests for the same thing not all *)
(* fail.  Nothing is assumed of the user, and nothing of the jobs.         *)
(***************************************************************************)
DashFairness ==
    /\ WF_dashVars(ListByStatus /\ UNCHANGED panelVars)
    /\ \A f \in Filters :
          /\ WF_dashVars(Fetch(f))
          /\ WF_dashVars(ListOneStatus(f))
          /\ SF_dashVars(Receive(f))

FairDashSpec == DashSpec /\ DashFairness

-----------------------------------------------------------------------------
\* Every variable of the page holds a value of its domain.
DashTypeOK ==
    /\ ListTypeOK
    /\ filter \in Filters \cup {NULL}
    /\ fetching \in SUBSET Filters
    /\ answer \in [Filters -> RowSets \cup {NULL}]
    /\ cached \in [Filters -> RowSets \cup {NULL}]

Shown(f, j) == IF cached[f] = NULL THEN {} ELSE cached[f][j]

\* "j-002 does not appear in the jobs panel": under a status the panel shows
\* rows of that status only, also when the filter has been changed while the
\* request for another one was in flight.
OnlyTheFilteredShown ==
    \A f \in Filters \ {"all"} : \A j \in Jobs : Shown(f, j) \subseteq {f}

\* A job once shown among all jobs is shown at every later refresh: no answer
\* is older than the one it replaces, and none misses a job.
NoJobVanishes ==
    [][cached'["all"] # NULL =>
          \A j \in Jobs : Shown("all", j) # {} => Shown("all", j)' # {}]_dashVars

\* A refresh never takes a job back to an earlier status than the panel has
\* shown, although its rows are from eight transactions and may show a job twice.
ShownNeverGoesBack ==
    [][cached'["all"] # cached["all"] =>
          \A j \in Jobs : \A s \in Shown("all", j), t \in Shown("all", j)' :
              Rank[s] <= Rank[t]]_dashVars

\* "Dashboard auto-refreshes and reflects updated state": a job that has ended
\* comes to be shown with its final status, once, under the filters that it
\* matches and under no other, as long as the user stays.
DashboardCatchesUp ==
    \A f \in Filters : \A j \in Jobs :
        status[j] \in Terminal ~>
            \/ filter # f
            \/ cached[f] # NULL /\ Shown(f, j) = IF f = "all" THEN {status[j]} ELSE {status[j]} \cap {f}
=============================================================================
