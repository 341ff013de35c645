SPECIFICATION StartSpec
CONSTANTS
    ReportIds = {r1, r2, r3, r4}
    ActionIds = {a1, a2, a3}
    None = None
    MaxVersion = 2
    Mode = "on"
    Goals = {g1}
    Keys = {k1}
    MaxManual = 2
SYMMETRY Symmetry
\* COMPLETED and CANCELLED runs stop, and so does a run at the bounds.
CHECK_DEADLOCK FALSE
INVARIANTS
    TypeOK
    CheckpointsReadable
    ReportsMatchCandidate
    GateMatchesRows
    ReadyHasPanel
    NoTwins
    ReadyNotBlocked
PROPERTY
    ImplementsReleaseGate
