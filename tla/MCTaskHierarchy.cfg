SPECIFICATION MCSpec
CONSTANTS
    Modes = {"work", "people", "progress"}
    Tasks = {t1, t2, t3}
    NoTask = none
    Users = {ann, bob}
    NoUser = nobody
    WorkStages <- MCWorkStages
    MaxOwn = 1
    MaxAdmitted = 1
    MaxLoaded = 1
    Works = {t1, t2, t3}
    NoWork = none
    Points = {q1}
    NoPoint = nopoint
    Given = {0, 50, 100}
    Patchers = {c1}
SYMMETRY MCSymmetry
CHECK_DEADLOCK FALSE
INVARIANTS
    TreeIsSound
    StatusIsDerived
    NoOpenWorkUnderDoneIfFresh
    SupersessionIsOneToOneIfFresh
    ProgressIsSound
PROPERTY
    ReporteeIsKept
