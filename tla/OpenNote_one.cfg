SPECIFICATION Spec
CONSTANTS
    Notes = {n1}
    MaxMarks = 2
    MaxRequests = 2
    MaxLooks = 1
    Faults = {"disk", "adopt", "delivery"}
INVARIANTS
    TypeOK
    HostDescribesFile
    EditablePageIsCurrent
    CommittedWriteStands
    TypedTextKept
    RefusedNeverLands
PROPERTIES
    AppearanceKept
    DiscardTakesWhatWasRead
CHECK_DEADLOCK FALSE
