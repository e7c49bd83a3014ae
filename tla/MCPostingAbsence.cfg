CONSTANTS
    Posting = {x}
    Collector = {c, d}
    None = None
    ConfirmationDelay = 2
    MaxClock = 2
    MaxRuns = 3
SYMMETRY Alike
SPECIFICATION LifecycleSpec
INVARIANT NoManufacturedAbsence
CHECK_DEADLOCK FALSE
