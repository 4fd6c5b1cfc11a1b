SPECIFICATION Spec
CONSTANTS
    Tasks = {a, b, c}
    NoTask = NoTask
    NoOffset = NoOffset
    Projects <- MCProjects
    Day = 2
    MaxRuns = 3
SYMMETRY MCSymmetry
INVARIANTS
    DependenciesKept
    EarliestIsLongestChain
    FloatsAreCoherent
    CriticalPathHolds
    SummarySpansChildren
    RerunIsStable
CHECK_DEADLOCK FALSE
