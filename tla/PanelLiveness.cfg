SPECIFICATION FairPanelSpec
CONSTANTS
    ReaderCount = 2
    MinValid = 2
    BallotIssues = 1
    AgendaIssues = 1
    Rounds = 1
    MaxAttempts = 2
    MaxCalls = 20
    MaxPhaseCalls = 3
    MaxMessages = 4
    Workers = {w1}
    Failures = {"invalid_output"}
    Happenings = {"abort", "crash", "expire"}
\* A panel that has ended stops.
CHECK_DEADLOCK FALSE
INVARIANT
    OneCallPerWork
PROPERTY
    PanelEnds
    FollowsMachine
