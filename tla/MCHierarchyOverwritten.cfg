SPECIFICATION MCAllSpec
CONSTANTS
    Modes = {"work"}
    Tasks = {t1, t2, t3}
    NoTask = none
    Users = {ann}
    NoUser = nobody
    WorkStages <- MCWorkStages
    MaxOwn = 1
    MaxAdmitted = 1
    MaxLoaded = 1
    Works = {t1, t2, t3}
    NoWork = none
    Points = {q1}
    NoPoint = nopoint
    Given = {0, 100}
    Patchers = {c1}
SYMMETRY MCSymmetry
INVARIANT
    NoOpenWorkUnderDone
