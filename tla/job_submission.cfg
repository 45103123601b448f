SPECIFICATION SubmitSpec
CONSTANTS
    i1 = i1
    i2 = i2
    f1 = f1
    r1 = r1
    r2 = r2
    NULL = NULL
    Malformed = Malformed
    Forms = {f1}
    Requests = {r1, r2}
    Ids = {i1, i2}
    MaxTime = 2
    Contents <- FormContents
    DirectPosts <- OtherPosts
    Faults = {"network", "db"}
SYMMETRY RequestSymmetry
INVARIANTS
    SubmitTypeOK
    StoredJobsAreValid
    RepliesAreTrue
    OneJobPerRequest
    SuccessIsTheForms
    FailureIsShown
PROPERTIES
    SubmissionsAreAtomic
