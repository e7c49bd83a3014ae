CONSTANTS
    Cycle = {c1, c2}
    Invocation = {p1, p2}
    Source = {s1, s2}
    Release = {r1, r2}
    None = None
    Timeout = 0
    MaxAge = 0
    MaxClock = 0
    MaxCrashes = 1
SPECIFICATION Spec
SYMMETRY Symmetry
VIEW WithoutAlerts
CHECK_DEADLOCK FALSE
INVARIANTS
    AtMostOneRunning
    ConfigurationPinned
    AttemptsOnce
    GreenComplete
