CONSTANTS
    Cycle = {c1}
    Invocation = {p1, p2}
    Source = {s1}
    Release = {r1}
    None = None
    Timeout = 0
    MaxAge = 0
    MaxClock = 0
    MaxCrashes = 0
SPECIFICATION Spec
CHECK_DEADLOCK FALSE
PROPERTY CompletedImmutable
