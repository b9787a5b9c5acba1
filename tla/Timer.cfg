SPECIFICATION Spec
CONSTANTS
  FocusTime = 2
  ShortBreakTime = 1
  LongBreakTime = 1
  Minutes = {1, 2}
  DefaultMinutes = 1
  FocusSessions = 2
  MaxTime = 4
  MaxWire = 1
  MaxOperations = 6
  MaxFaults = 1
INVARIANTS TimeIsPaid ReopensAsItWas
PROPERTIES RingsInTime
