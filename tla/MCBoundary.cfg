CONSTANTS
    None = None
    Focus = {"SCHEDULE", "REGISTER", "BACKUP", "RAW", "LISTING", "DETAIL", "LOCATION"}
    Invocation = {"task", "manual"}
    ByTask = {"task"}
    CycleExit = {0, 6}
    ProcessTimeout = 2
    Registrar = {r1, r2}
    Plan = {planA, planB}
    LastTick = 3
    BackupProc = {b1, b2}
    Digest = {d1, d2}
    Instant = {1, 2}
    MaxBackups = 3
    Key = {"k", "K", "sentinel"}
    Name = {"k", "K", "~raw~~4b~", "sentinel"}
    Plain <- PlainNames
    Encoded <- EncodedNames
    Fold <- FoldedNames
    Content = {x, y, t1, t2}
    Stamp = {t1, t2}
    Proc = {p1, p2}
    Sentinel = "sentinel"
    Legacy = {"K"}
    MaxWrites = 4
    MaxEdits = 1
    Advert = {1, 2, 3, 4, 5, 6}
    Section <- Sections
    Pager = {"OFFSET", "LINK", "LEGACY", "LEGACIES", "RANGE", "OPEN", "COURTS", "SEEN", "FEED", "SURFACES", "FILTER", "INDEX"}
    PageSize = 2
    MaxChanges = 2
    Posting = {"a", "b"}
    Title = {"t", "t - long"}
    Longer <- LongerTitles
    Within <- WithinIds
    MaxRewrites = 2
    Municipality = {"Bern"}
    Place = {"x", "y"}
    Text = {"s"}
    Observation = {1, 2, 3}
    Resolver = {b1, b2}
    Observed <- Described3
    Targets <- Runs
    Answers <- AnswerSet
    MaxBatches = 2
    MaxImports = 1
CONSTRAINT Apart
SYMMETRY Symmetry
SPECIFICATION Spec
CHECK_DEADLOCK FALSE
INVARIANT EnvelopesTellTheCycle
INVARIANT RegistrationTrue
INVARIANT ManifestVouches
INVARIANT AcknowledgedReads
INVARIANT SealedRootServesRows
INVARIANT ListingAccounted
INVARIANT RecordsTellTheirAdvert
INVARIANT OneAnswerPerRequest
INVARIANT LeftoversHarmless
PROPERTY BatchEnds
PROPERTY KeepsWriteOnce
