CONSTANTS
    None = None
    Posting = {}
    Collector = {}
    ConfirmationDelay = 2
    MaxClock = 2
    MaxRuns = 0
    Focus = {"CUTOFF"}
    Assessment = {1, 2, 3}
    Material = {m1}
    Session = {x, y}
    Stored <- StoredRows
    LastTick = 1
    MaxSessions = 3
    Given = {"CONFIRMED_NOT_GREEN"}
    Importer = {c, d}
    Package = {"both", "decision", "altered", "partial"}
    Registry <- RegistryRows
    PackageRows <- Packages
    Replicated = {1, 2}
    Listed = {x, y}
    Cutoff = {2}
    LastInstant = 3
    MaxRows = 3
    Written <- Adverts
    Federal = {"ch"}
    City = {"b"}
    Canton = {x, y, z}
    Blocked = {z}
    MinFederal = 1
    MinCity = 1
    Minimum = 4
    MaxAge = 1
    Day0Cutoff = {0, 1}
    PolicyEffective = 0
    Review = {"dup", "late"}
    ReviewSource <- ReviewsOfCity
    Lasting = {"late"}
    LastHour = 2
    MaxFinished = 5
    MaxAssessments = 2
SPECIFICATION Spec
CONSTRAINT OneHistory
CONSTRAINT OneComparison
CHECK_DEADLOCK FALSE
INVARIANT OneEvidence
