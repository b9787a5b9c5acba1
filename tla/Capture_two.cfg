SPECIFICATION Spec
CONSTANTS
    Notes = {n1, n2}
    MaxCopies = 2
    Kinds = {"words"}
    MaxCommands = 3
    MaxWrites = 1
    Outcomes = {TRUE, FALSE}
SYMMETRY Symmetry
INVARIANTS
    TypeOK
    ReadsOnlyWhatItSaw
    NoPageClaimsInVain
    FlushCoversCaptures
PROPERTIES
    DeliveredInItsSession
CHECK_DEADLOCK FALSE
