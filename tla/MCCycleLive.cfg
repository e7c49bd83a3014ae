CONSTANTS
    Cycle = {c1}
    Invocation = {p1, p2}
    Source = {s1}
    Release = {r1}
    None = None
    Timeout = 0
    MaxAge = 0
    MaxClock = 0
    MaxCrashes = 1
SPECIFICATION FairSpec
CHECK_DEADLOCK FALSE
PROPERTIES
    InvocationReturns
    FailureAlerted
