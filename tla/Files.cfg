SPECIFICATION Spec
CONSTANTS
  Notes = {n1}
  Texts = {plain, pictured}
  Illustrated = {pictured}
  Nothing = Nothing
  Keep = 1
  Interval = 2
  Retry = 1
  MaxTime = 2
  MaxFaults = 2
  MaxOps = 4
INVARIANTS AnswersHold BackupKept
PROPERTIES DayIsCovered IsNotebook
CHECK_DEADLOCK FALSE
