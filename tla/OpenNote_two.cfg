SPECIFICATION Spec
CONSTANTS
    Notes = {n1, n2}
    MaxMarks = 1
    MaxRequests = 2
    MaxLooks = 0
    Faults = {"disk"}
INVARIANTS
    LifecycleExclusion
PROPERTIES
    SavedBeforeClosed
CHECK_DEADLOCK FALSE
