SPECIFICATION Spec
CONSTANTS
    Tasks = {a, b, c}
    NoTask = NoTask
    NoOffset = NoOffset
    Projects <- MCPartDays
    Day = 2
    MaxRuns = 2
SYMMETRY MCSymmetry
INVARIANTS
    RerunIsSafe
CHECK_DEADLOCK FALSE
