SPECIFICATION FairDashSpec
CONSTANTS
    j1 = j1
    j2 = j2
    w1 = w1
    NULL = NULL
    Jobs = {j1}
    Workers = {w1}
    Filters = {"all", "running"}
INVARIANTS
    DashTypeOK
    ListComplete
    OnlyTheFilteredShown
PROPERTIES
    NoJobVanishes
    ShownNeverGoesBack
    DashboardCatchesUp
