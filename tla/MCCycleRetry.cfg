CONSTANTS
    Cycle = {c1}
    Invocation = {p1, p2}
    Source = {s1}
    Release = {r1}
    None = None
    Timeout = 1
    MaxAge = 1
    MaxClock = 2
    MaxCrashes = 1
SPECIFICATION Spec
SYMMETRY Symmetry
VIEW WithoutAlerts
CHECK_DEADLOCK FALSE
INVARIANTS
    CutoffCoversEvidence
    OwnerSaveAccepted
    FailedStageNamed
PROPERTY ResultKept
