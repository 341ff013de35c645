SPECIFICATION FairInitialSpec
CONSTANTS
    Batches = {b1, b2}
    Workers = {w1, w2}
    None = None
    MaxOutlines = 2
    MaxAttempts = 2
    MaxSettings = 1
\* A run at the author's gate and a run at the bounds stop.
CHECK_DEADLOCK FALSE
INVARIANTS
    RunReadable
    DraftOwned
PROPERTIES
    
    AttemptSettles
