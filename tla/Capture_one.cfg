SPECIFICATION FairSpec
CONSTANTS
    Notes = {n1}
    MaxCopies = 2
    Kinds = {"words", "own", "blank", "image"}
    MaxCommands = 3
    MaxWrites = 1
    Outcomes = {TRUE}
INVARIANTS
    FiledInOrder
PROPERTIES
    LastCopyIsTaken
CHECK_DEADLOCK FALSE
