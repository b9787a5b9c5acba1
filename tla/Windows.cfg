SPECIFICATION Spec
CONSTANTS
  Notes = {n1, n2}
  Shapes = {TRUE, FALSE}
  MaxFaults = 1
  MaxSessions = 2
SYMMETRY Symmetry
INVARIANTS NothingForgotten
PROPERTIES OneLayerKept
CHECK_DEADLOCK FALSE
