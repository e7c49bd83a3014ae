CONSTANTS
    Posting = {1, 2, 3}
    Cutoff = {1, 2, 3}
    Apart = {"SEPARATE"}
    ReviewMaterial = {m}
    None = None
    Focus = {"IDENTITY", "EPISODES"}
    Advertised = {1, 2}
    Rank <- RanksOf
    Requisition <- OwnRequisition
    RepostWindow = 1
    LastDay = 5
    MaxHistory = 5
    MaxRuns = 2
    MaxClock = 4
    MaxDecisions = 2
SPECIFICATION LateSpec
SYMMETRY Symmetry
CHECK_DEADLOCK FALSE
INVARIANTS
    ClustersAreComponents
    EpisodesReal
    Settled
    HumanRespected
PROPERTIES
    NeverSplit
    ProjectionOfNewest
