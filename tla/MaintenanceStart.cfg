SPECIFICATION MaintenanceSpec
CONSTANTS
    Own = {d1}
    Shared = {s1}
    Workers = {w1}
    Items = {i1}
    Severities = {}
    None = None
    MaxRuns = 1
    MaxPlans = 1
    MaxEdits = 1
    MaxLost = 0
CHECK_DEADLOCK FALSE
PROPERTY RefusedStartMetAChange
