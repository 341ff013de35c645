SPECIFICATION CreationSpec
CONSTANTS
    None = None
    Workers = {w1, w2}
    Legacy = TRUE
    MaxRuns = 3
    MaxGates = 5
    MaxVersions = 5
    MaxChanges = 3
SYMMETRY Symmetry
INVARIANTS OneStory OpenGateAnswerable
PROPERTY SelectedIsReviewed
CHECK_DEADLOCK FALSE
