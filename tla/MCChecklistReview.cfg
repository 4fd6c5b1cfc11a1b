SPECIFICATION Spec
CONSTANTS
    todo = todo  progress = progress  review = review  done = done  custom = custom
    ann = ann  bob = bob  cas = cas
    Statuses <- MCStatuses
    stageOf <- MCstageOf
    Users <- MCPair
    Items = {i1}
    NoUser = nobody
    Keys = {k1, k2}
    Drags <- MCPlainDrags
    Teams <- MCSolo
    Leavers = {ann}
    Creator = bob
    ParentReportee = bob
    AncestorReportees <- MCPairAncestors
    MaxRevision = 6
    MaxNotes = 1
SYMMETRY MCSymmetry
INVARIANTS
    ReviewHasActiveAttempt
    CommandsCountOnce
    RetryIsAnswered
PROPERTIES
    HistoryIsKept
    ImplementsReviewCycle
