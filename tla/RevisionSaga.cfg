SPECIFICATION FairSagaSpec
CONSTANTS
    ReportIds = {r1}
    ActionIds = {a1, a2, a3}
    Workers = {w1, w2}
    None = None
    MaxVersion = 4
    MaxAttempts = 2
    MaxPart = 2
    MaxBrief = 1
    MaxSegments = 3
    Batch = 2
    TextBound = 5
\* A run under review and a run at the bounds stop.
CHECK_DEADLOCK FALSE
INVARIANTS
    DecisionsAnswered
    OneCandidatePerAttempt
PROPERTIES
    AttemptSettles
