SPECIFICATION CollaborationSpec
CONSTANTS
    None = None
    Docs = {d1, d2}
    Existing = {d1}
    Workers = {w1, w2}
    Endpoints = {"write", "retitle", "create", "archive", "rename", "trash"}
    Messages = {m1, m2}
    Scopes <- MCScopes
    MaxChanges = 2
    MaxLost = 1
SYMMETRY Symmetry
INVARIANTS CalledOnce AdoptedOnce
PROPERTY EndedStays AdoptedAsSeen
CHECK_DEADLOCK FALSE
