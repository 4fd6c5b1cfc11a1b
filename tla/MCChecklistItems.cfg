SPECIFICATION SideSpec
CONSTANTS
    todo = todo  progress = progress  review = review  done = done  custom = custom
    ann = ann  bob = bob  cas = cas
    Statuses <- MCStatuses
    stageOf <- MCstageOf
    Users <- MCUsers
    Items = {i1, i2}
    NoUser = nobody
    Keys = {k1}
    Drags <- MCAllDrags
    Teams <- MCTeams
    Leavers = {ann}
    Creator = bob
    ParentReportee = cas
    AncestorReportees <- MCAncestors
    MaxRevision = 3
    MaxNotes = 0
SYMMETRY MCSymmetry
INVARIANTS
    StageAgrees
    DoneWasAccepted
    TaskStatusIsDerived
    CapabilitiesAreHonest
PROPERTIES
    DecidedByTheRightUser
