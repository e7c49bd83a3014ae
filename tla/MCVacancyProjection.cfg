CONSTANTS
    Posting = {1, 2, 3, 4}
    Cutoff = {3}
    Apart = {"SEPARATE"}
    ReviewMaterial = {m}
    None = None
    Focus = {"IDENTITY"}
    Advertised = {1, 2}
    Rank <- RanksOf
    Requisition <- OwnRequisition
    RepostWindow = 1
    LastDay = 4
    MaxHistory = 5
    MaxRuns = 3
    MaxClock = 4
    MaxDecisions = 0
SPECIFICATION DedupSpec
SYMMETRY Symmetry
CHECK_DEADLOCK FALSE
INVARIANT ProjectionFollowsRun
