SPECIFICATION FairSpec
CONSTANTS
    Notes = {n1}
    MaxMarks = 1
    MaxRequests = 2
    MaxLooks = 0
    Faults = {"disk", "adopt", "delivery"}
PROPERTIES
    ClaimsReleased
    RequestAnswered
CHECK_DEADLOCK FALSE
