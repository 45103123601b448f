--------------------------- MODULE DashboardProofs ---------------------------
(***************************************************************************)
(* What the jobs panel shows, for any number of jobs and any filters.  The *)
(* argument for the rows of all jobs: they are no further than the jobs    *)
(* themselves, so everything a request reads is at least as far; and a     *)
(* request that comes in after they were read knows all their jobs.        *)
(***************************************************************************)
EXTENDS Dashboard, ListJobsProofs

-----------------------------------------------------------------------------
\* The panel asks through ListJobs: seen from there, it only starts and ends
\* requests.
LEMMA DashStepLists == [DashNext]_dashVars => [ListNext]_allVars
<1> SUFFICES ASSUME [DashNext]_dashVars
             PROVE  [ListNext]_allVars
  OBVIOUS
<1>1. ASSUME NEW f \in Filters, Fetch(f)
      PROVE  StartList \/ UNCHANGED allVars
  BY <1>1 DEF Fetch, Request
<1>2. ASSUME NEW f \in Filters, Receive(f) \/ FetchFails(f)
      PROVE  Respond \/ UNCHANGED allVars
  BY <1>2 DEF Receive, StoreUnder, FetchFails, FetchEnds
<1>3. ASSUME Leave \/ Return \/ \E f \in Filters : ChangeFilter(f) \/ ListOneStatus(f) \/ Forget(f)
      PROVE  UNCHANGED allVars
  BY <1>3 DEF Leave, Return, ChangeFilter, Show, ListOneStatus, Forget
<1> QED
  BY <1>1, <1>2, <1>3 DEF DashNext, PanelNext, ListNext, dashVars

\* The requests of the dashboard are listings as ListJobs specifies them.
THEOREM DashboardLists == DashSpec => ListSpec
<1>1. DashInit => ListInit
  BY DEF DashInit
<1> QED
  BY <1>1, DashStepLists, PTL DEF DashSpec, ListSpec

\* No answer the dashboard gets leaves out a job that existed when it asked.
COROLLARY DashboardComplete == DashSpec => []ListComplete
  BY DashboardLists, ListingIsComplete, PTL

-----------------------------------------------------------------------------
PanelTypeOK ==
    /\ filter \in Filters \cup {NULL}
    /\ fetching \in SUBSET Filters
    /\ answer \in [Filters -> RowSets \cup {NULL}]
    /\ cached \in [Filters -> RowSets \cup {NULL}]

LEMMA PanelTypeStep ==
  ASSUME ListInv, PanelTypeOK, [DashNext]_dashVars
  PROVE  PanelTypeOK'
<1> USE DEF PanelTypeOK
<1>1. ASSUME NEW f \in Filters, Receive(f) \/ FetchFails(f)
      PROVE  PanelTypeOK'
  <2>1. CASE cached' = [cached EXCEPT ![f] = Rows(f)]
    <3>1. Rows(f) \in RowSets \cup {NULL}
      BY DEF Rows, ListInv, ListTypeOK, RowSets
    <3> QED
      BY <1>1, <2>1, <3>1 DEF Receive, StoreUnder, FetchFails, FetchEnds
  <2>2. CASE UNCHANGED cached
    BY <1>1, <2>2 DEF Receive, StoreUnder, FetchFails, FetchEnds
  <2> QED
    BY <1>1, <2>1, <2>2 DEF Receive, StoreUnder, FetchFails
<1>2. ASSUME NEW f \in Filters, ListOneStatus(f)
      PROVE  PanelTypeOK'
  <2>1. [j \in Jobs |-> {status[j]} \cap {f}] \in RowSets
    BY DEF ListInv, ListTypeOK, RowSets
  <2> QED
    BY <1>2, <2>1 DEF ListOneStatus
<1>3. ASSUME NEW f \in Filters, Fetch(f) \/ ChangeFilter(f) \/ Forget(f)
      PROVE  PanelTypeOK'
  BY <1>3 DEF Fetch, Request, ChangeFilter, Show, Forget
<1>4. CASE Leave \/ Return
  BY <1>4, FilterAssumption DEF Leave, Return, Show
<1>5. CASE UNCHANGED panelVars
  BY <1>5 DEF panelVars
<1> QED
  BY <1>1, <1>2, <1>3, <1>4, <1>5 DEF DashNext, PanelNext, dashVars

-----------------------------------------------------------------------------
\* What has been read of one status is of that status.
OneStatusRead ==
    \A f \in Filters \ {"all"} : \A j \in Jobs :
        answer[f] # NULL => answer[f][j] \subseteq {f}

\* The rows under "all", if any.
All == cached["all"]

\* They are no further than their jobs; a request in flight knows every job
\* that is among them, and has read nothing that is behind them.
NeverAhead ==
    All # NULL =>
        \A j \in Jobs : \A s \in All[j] :
            /\ Rank[s] <= Rank[status[j]]
            /\ Rank[s] >= 1
            /\ "all" \in fetching => j \in known
            /\ \A t \in listed[j] : "all" \in fetching => Rank[s] <= Rank[t]

\* Nor is what has been read of all jobs.
ReadBefore ==
    \A j \in Jobs : \A t \in listed[j] : Rank[t] <= Rank[status[j]] /\ Rank[t] >= 1

DashInv == /\ ListInv
           /\ PanelTypeOK
           /\ OneStatusRead
           /\ OnlyTheFilteredShown
           /\ NeverAhead
           /\ ReadBefore

LEMMA DashInvInit == DashInit => DashInv
  BY ListInvInit, FilterAssumption
     DEF DashInit, ListInit, DashInv, PanelTypeOK, OneStatusRead, OnlyTheFilteredShown, Shown,
         NeverAhead, All, ReadBefore

\* A step that changes nothing of these keeps them.
LEMMA PanelStable ==
  ASSUME DashInv, ListInv', PanelTypeOK', UNCHANGED allVars,
         UNCHANGED <<answer, cached>>, fetching' \subseteq fetching
  PROVE  DashInv'
  BY DEF DashInv, allVars, vars, listVars, OneStatusRead, OnlyTheFilteredShown, Shown, NeverAhead, All, ReadBefore

\* The jobs go on.
LEMMA JobsGoOn ==
  ASSUME DashInv, ListInv', PanelTypeOK', Next, UNCHANGED <<listVars, panelVars>>
  PROVE  DashInv'
<1> USE DEF listVars, panelVars
<1>1. OneStatusRead' /\ OnlyTheFilteredShown'
  BY DEF DashInv, OneStatusRead, OnlyTheFilteredShown, Shown
<1>2. \A j \in Jobs : Rank[status'[j]] >= Rank[status[j]]
  BY MovesForward DEF DashInv, ListInv
<1>3. \A j \in Jobs : Rank[status[j]] \in Int /\ Rank[status'[j]] \in Int
  BY RankFacts DEF DashInv, ListInv, ListTypeOK, Last
<1>4. \A j \in Jobs : All # NULL => \A s \in All[j] : Rank[s] \in Int
  BY RankFacts, FilterAssumption DEF DashInv, PanelTypeOK, RowSets, All, Last
<1>5. NeverAhead'
  BY <1>2, <1>3, <1>4 DEF DashInv, NeverAhead, All
<1>6. \A j \in Jobs : \A t \in listed[j] : Rank[t] \in Int
  BY RankFacts DEF DashInv, ListInv, ListTypeOK, Last
<1>7. ReadBefore'
  BY <1>2, <1>3, <1>6 DEF DashInv, ReadBefore
<1> QED
  BY <1>1, <1>5, <1>7 DEF DashInv

LEMMA QueryAnswered ==
  ASSUME DashInv, ListInv', PanelTypeOK', ListByStatus, UNCHANGED panelVars
  PROVE  DashInv'
<1> USE DEF panelVars
<1>1. OneStatusRead' /\ OnlyTheFilteredShown'
  BY DEF DashInv, OneStatusRead, OnlyTheFilteredShown, Shown
<1>2. /\ UNCHANGED <<status, known>>
      /\ \A j \in Jobs : listed'[j] \subseteq listed[j] \cup {status[j]}
  BY DEF ListByStatus, vars
<1>3. NeverAhead'
  BY <1>2 DEF DashInv, NeverAhead, All
<1>4. ASSUME NEW j \in Jobs, NEW t \in listed'[j], t \notin listed[j]
      PROVE  t = status[j] /\ Rank[t] \in Int /\ Rank[t] >= 1
  <2>1. t = status[j] /\ Rank[t] = cursor + 1
    BY <1>4 DEF ListByStatus, QueryMatches
  <2> QED
    BY <2>1 DEF DashInv, ListInv, ListTypeOK, Last
<1>5. ReadBefore'
  BY <1>2, <1>4 DEF DashInv, ReadBefore
<1> QED
  BY <1>1, <1>3, <1>5 DEF DashInv

LEMMA RequestSent ==
  ASSUME DashInv, ListInv', PanelTypeOK', NEW f \in Filters, Request(f)
  PROVE  DashInv'
<1>1. OneStatusRead' /\ OnlyTheFilteredShown'
  BY DEF Request, DashInv, OneStatusRead, OnlyTheFilteredShown, Shown
<1>2. CASE f = "all"
  <2>1. /\ UNCHANGED <<status, cached>>
        /\ known' = {j \in Jobs : status[j] # "absent"}
        /\ \A j \in Jobs : listed'[j] = {}
    BY <1>2 DEF Request, StartList, vars
  <2>2. \A j \in Jobs : status[j] = "absent" => Rank[status[j]] = 0
    BY RankFacts
  <2>3. \A j \in Jobs : All # NULL => \A s \in All[j] : Rank[s] \in Int
    BY RankFacts, FilterAssumption DEF DashInv, PanelTypeOK, RowSets, All, Last
  <2>4. \A j \in Jobs : All # NULL => \A s \in All[j] : j \in known'
    BY <2>1, <2>2, <2>3 DEF DashInv, NeverAhead
  <2> QED
    BY <1>1, <2>1, <2>4 DEF DashInv, NeverAhead, All, ReadBefore
<1>3. CASE f # "all"
  BY <1>1, <1>3 DEF Request, DashInv, NeverAhead, All, ReadBefore, allVars, vars, listVars
<1> QED
  BY <1>2, <1>3

\* What a request for all jobs has read when it is over: every job that is
\* shown, and none further than it is, nor behind what is shown.
LEMMA WhatIsRead ==
  ASSUME DashInv, "all" \in fetching, cursor = Last, NEW j \in Jobs
  PROVE  /\ \A t \in listed[j] : Rank[t] \in Int /\ Rank[t] <= Rank[status[j]] /\ Rank[t] >= 1
         /\ All # NULL => /\ All[j] # {} => listed[j] # {}
                          /\ \A s \in All[j], t \in listed[j] : Rank[s] <= Rank[t]
<1>1. \A t \in listed[j] : Rank[t] \in Int /\ Rank[t] <= Rank[status[j]] /\ Rank[t] >= 1
  BY RankFacts DEF DashInv, ListInv, ListTypeOK, ReadBefore, Last
<1>2. Rank[status[j]] \in Int /\ Rank[status[j]] <= cursor
  BY RankFacts DEF DashInv, ListInv, ListTypeOK, Last
<1>3. ASSUME All # NULL, All[j] # {}
      PROVE  listed[j] # {}
  BY <1>2, <1>3 DEF DashInv, NeverAhead, ListInv, StillAhead, Last
<1>4. ASSUME All # NULL, NEW s \in All[j], NEW t \in listed[j]
      PROVE  Rank[s] <= Rank[t]
  BY <1>4 DEF DashInv, NeverAhead
<1> QED
  BY <1>1, <1>3, <1>4

LEMMA RequestEnded ==
  ASSUME DashInv, ListInv', PanelTypeOK', NEW f \in Filters, Receive(f) \/ FetchFails(f)
  PROVE  DashInv'
<1>1. /\ FetchEnds(f)
      /\ UNCHANGED cached \/ cached' = [cached EXCEPT ![f] = Rows(f)]
  BY DEF Receive, StoreUnder, FetchFails
<1>2. /\ UNCHANGED status
      /\ fetching' = fetching \ {f}
      /\ answer' = [answer EXCEPT ![f] = NULL]
      /\ f \in fetching
      /\ Answered(f)
      /\ f # "all" => UNCHANGED allVars
      /\ f = "all" => \A j \in Jobs : listed'[j] = {}
  BY <1>1 DEF FetchEnds, Respond, allVars, vars
<1>3. OneStatusRead'
  BY <1>2 DEF DashInv, OneStatusRead, PanelTypeOK
<1>4. OnlyTheFilteredShown'
  <2>1. CASE UNCHANGED cached
    BY <2>1 DEF DashInv, OnlyTheFilteredShown, Shown
  <2>2. CASE cached' = [cached EXCEPT ![f] = Rows(f)]
    <3>1. ASSUME NEW g \in Filters \ {"all"}, NEW j \in Jobs, cached'[g] # NULL
          PROVE  cached'[g][j] \subseteq {g}
      BY <2>2, <1>2, <3>1 DEF DashInv, OnlyTheFilteredShown, Shown, OneStatusRead,
                             PanelTypeOK, Rows, Answered
    <3> QED
      BY <3>1 DEF OnlyTheFilteredShown, Shown
  <2> QED
    BY <1>1, <2>1, <2>2
<1>5. ReadBefore'
  BY <1>2 DEF DashInv, ReadBefore, allVars, vars, listVars
<1>6. NeverAhead'
  <2>1. CASE f = "all" /\ UNCHANGED cached
    BY <1>2, <2>1 DEF DashInv, NeverAhead, All
  <2>2. CASE f = "all" /\ cached' = [cached EXCEPT ![f] = Rows(f)]
    <3>1. All' = listed /\ "all" \notin fetching'
      BY <1>2, <2>2, FilterAssumption DEF All, Rows, DashInv, PanelTypeOK
    <3>2. \A j \in Jobs : \A s \in listed[j] : Rank[s] <= Rank[status[j]] /\ Rank[s] >= 1
      BY <1>2, <2>2, WhatIsRead DEF Answered
    <3> QED
      BY <1>2, <3>1, <3>2 DEF NeverAhead
  <2>3. CASE f # "all"
    <3>1. All' = All /\ UNCHANGED <<known, listed>> /\ ("all" \in fetching' <=> "all" \in fetching)
      BY <1>1, <1>2, <2>3, FilterAssumption DEF All, DashInv, PanelTypeOK, allVars, listVars
    <3> QED
      BY <1>2, <3>1 DEF DashInv, NeverAhead
  <2> QED
    BY <1>1, <2>1, <2>2, <2>3
<1> QED
  BY <1>3, <1>4, <1>5, <1>6 DEF DashInv

LEMMA StatusRead ==
  ASSUME DashInv, ListInv', PanelTypeOK', NEW f \in Filters, ListOneStatus(f)
  PROVE  DashInv'
<1>1. /\ UNCHANGED <<allVars, fetching, cached>>
      /\ answer' = [answer EXCEPT ![f] = [j \in Jobs |-> {status[j]} \cap {f}]]
  BY DEF ListOneStatus
<1>2. OneStatusRead'
  BY <1>1 DEF DashInv, OneStatusRead, PanelTypeOK
<1> QED
  BY <1>1, <1>2 DEF DashInv, allVars, vars, listVars, OnlyTheFilteredShown, Shown, NeverAhead,
                    All, ReadBefore

LEMMA RowsForgotten ==
  ASSUME DashInv, ListInv', PanelTypeOK', NEW f \in Filters, Forget(f)
  PROVE  DashInv'
<1>1. /\ UNCHANGED <<allVars, fetching, answer>>
      /\ \A g \in Filters : cached'[g] = IF g = f THEN NULL ELSE cached[g]
  BY DEF Forget, DashInv, PanelTypeOK
<1>2. OnlyTheFilteredShown'
  BY <1>1 DEF DashInv, OnlyTheFilteredShown, Shown
<1>3. NeverAhead'
  BY <1>1, FilterAssumption DEF DashInv, NeverAhead, All, allVars, vars, listVars
<1> QED
  BY <1>1, <1>2, <1>3 DEF DashInv, OneStatusRead, ReadBefore, allVars, vars, listVars

LEMMA DashInvStep == DashInv /\ [DashNext]_dashVars => DashInv'
<1> SUFFICES ASSUME DashInv, [DashNext]_dashVars
             PROVE  DashInv'
  OBVIOUS
<1>1. ListInv' /\ PanelTypeOK'
  BY DashStepLists, ListInvStep, PanelTypeStep DEF DashInv
<1>2. CASE Leave \/ Return \/ \E f \in Filters : ChangeFilter(f)
  BY <1>1, <1>2, PanelStable DEF Leave, Return, ChangeFilter, Show
<1>3. CASE \E f \in Filters : Fetch(f) \/ ListOneStatus(f) \/ Receive(f) \/ FetchFails(f) \/ Forget(f)
  BY <1>1, <1>3, RequestSent, StatusRead, RequestEnded, RowsForgotten DEF Fetch
<1>4. CASE UNCHANGED dashVars
  BY <1>1, <1>4, PanelStable DEF dashVars, panelVars
<1> QED
  BY <1>1, <1>2, <1>3, <1>4, QueryAnswered, JobsGoOn DEF DashNext, PanelNext

LEMMA DashInvariance == DashSpec => []DashInv
  BY DashInvInit, DashInvStep, PTL DEF DashSpec

-----------------------------------------------------------------------------
\* The type invariant of the dashboard, for any jobs and filters.
THEOREM DashTypeCorrect == DashSpec => []DashTypeOK
<1>1. DashInv => DashTypeOK
  BY DEF DashInv, ListInv, PanelTypeOK, DashTypeOK
<1> QED
  BY <1>1, DashInvariance, PTL

\* Under a status the panel never shows a row of another one, however the
\* filter is changed while requests are in flight.
THEOREM FilterIsKept == DashSpec => []OnlyTheFilteredShown
<1>1. DashInv => OnlyTheFilteredShown
  BY DEF DashInv
<1> QED
  BY <1>1, DashInvariance, PTL

\* What a step does to the rows under "all": it leaves them alone, drops
\* them, or puts a finished listing in their place.
LEMMA AllIsReplaced ==
  ASSUME DashInv, [DashNext]_dashVars
  PROVE  \/ UNCHANGED All
         \/ All' = NULL
         \/ All' = listed /\ "all" \in fetching /\ cursor = Last
<1>1. ASSUME NEW f \in Filters, Receive(f) \/ FetchFails(f)
      PROVE  UNCHANGED All \/ (All' = listed /\ "all" \in fetching /\ cursor = Last)
  BY <1>1, FilterAssumption
     DEF Receive, StoreUnder, FetchFails, FetchEnds, Answered, Rows, All, DashInv, PanelTypeOK
<1>2. ASSUME NEW f \in Filters, Forget(f)
      PROVE  UNCHANGED All \/ All' = NULL
  BY <1>2, FilterAssumption DEF Forget, All, DashInv, PanelTypeOK
<1>3. ASSUME \/ Leave \/ Return
             \/ \E f \in Filters : ChangeFilter(f) \/ Fetch(f) \/ ListOneStatus(f)
             \/ UNCHANGED panelVars
      PROVE  UNCHANGED All
  BY <1>3 DEF Leave, Return, ChangeFilter, Show, Fetch, Request, ListOneStatus, panelVars, All
<1> QED
  BY <1>1, <1>2, <1>3 DEF DashNext, PanelNext, dashVars

\* No refresh drops a job that has been shown.
THEOREM NoneVanishes == DashSpec => NoJobVanishes
<1>1. DashInv /\ [DashNext]_dashVars =>
        [cached'["all"] # NULL =>
            \A j \in Jobs : Shown("all", j) # {} => Shown("all", j)' # {}]_dashVars
  <2> SUFFICES ASSUME DashInv, [DashNext]_dashVars, All' # NULL, NEW j \in Jobs,
                      All # NULL, All[j] # {}
               PROVE  All'[j] # {}
    BY DEF All, Shown
  <2> QED
    BY AllIsReplaced, WhatIsRead
<1> QED
  BY <1>1, DashInvariance, PTL DEF DashSpec, NoJobVanishes

\* No refresh takes a job back to an earlier status than has been shown.
THEOREM NoneGoesBack == DashSpec => ShownNeverGoesBack
<1>1. DashInv /\ [DashNext]_dashVars =>
        [cached'["all"] # cached["all"] =>
            \A j \in Jobs : \A s \in Shown("all", j), t \in Shown("all", j)' :
                Rank[s] <= Rank[t]]_dashVars
  <2> SUFFICES ASSUME DashInv, [DashNext]_dashVars, All' # All, NEW j \in Jobs,
                      All # NULL, All' # NULL, NEW s \in All[j], NEW t \in All'[j]
               PROVE  Rank[s] <= Rank[t]
    BY DEF All, Shown
  <2> QED
    BY AllIsReplaced, WhatIsRead
<1> QED
  BY <1>1, DashInvariance, PTL DEF DashSpec, ShownNeverGoesBack
=============================================================================
