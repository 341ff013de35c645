SPECIFICATION FairReviewSpec
CONSTANTS
    ReportIds <- MCReports
    ActionIds <- MCActions
    Coordinators = {c1, c2}
    None = None
    MaxVersion = 2
    MaxClaims = 3
    MaxContext = 1
    MaxSettings = 1
    q1 = q1
    q2 = q2
    q3 = q3
    b1 = b1
    b2 = b2
    b3 = b3
    b4 = b4
CONSTRAINT InOrder
\* A ready run and a run at the bounds stop.
CHECK_DEADLOCK FALSE
INVARIANT OneVerdict
PROPERTIES
    VerdictIsCurrent
    ImplementsReleaseGate
    ClaimSettles
