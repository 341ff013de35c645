SPECIFICATION FairFinalizationSpec
CONSTANTS
    ReportIds = {r1, r2}
    ActionIds = {a1}
    Workers = {w1, w2}
    None = None
    MaxVersion = 2
    MaxDocs = 2
    Meddling = {"write", "create", "delete"}
\* A completed run and a run at the bounds stop.
CHECK_DEADLOCK FALSE
INVARIANTS
    FinalizedOnce
    PublishedStays
PROPERTY
    ArchiveCompletes
