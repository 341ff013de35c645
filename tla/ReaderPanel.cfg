SPECIFICATION PanelSpec
CONSTANTS
    ReaderCount = 2
    MinValid = 2
    BallotIssues = 1
    AgendaIssues = 1
    Rounds = 1
    MaxAttempts = 2
    MaxCalls = 20
    MaxPhaseCalls = 3
    MaxMessages = 4
    Workers = {w1, w2}
    Failures = {"budget_exhausted"}
    Happenings = {"cancel", "abort", "expire"}
SYMMETRY Symmetry
\* A panel that has ended stops, and so does one that every request refuses.
CHECK_DEADLOCK FALSE
INVARIANTS
    ReportCountsReaders
PROPERTIES
    ResultsStay
