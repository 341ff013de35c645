SPECIFICATION MaintenanceSpec
CONSTANTS
    Own = {d1, d2}
    Shared = {}
    Workers = {w1, w2}
    Items = {i1}
    Severities = {"BLOCKING"}
    None = None
    MaxRuns = 2
    MaxPlans = 2
    MaxEdits = 1
    MaxLost = 1
SYMMETRY Symmetry
\* An ended run and a run at the bounds stop.
CHECK_DEADLOCK FALSE
INVARIANTS
    RunIsShown
    AppliedAsApproved
    PhasesResumable
PROPERTIES
    UpdatedIsReviewed
