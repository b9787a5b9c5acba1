SPECIFICATION Spec
CONSTANTS
  Clients = {c1, c2}
  Desktops = {d1, d2}
  Nobody = Nobody
  ReaderEdit = ReaderEdit
  NoRevision = NoRevision
  MaxEdits = 2
SYMMETRY Processes
INVARIANTS TypeOK BasesAreCurrent ServingIsReachable
PROPERTIES KeepsItsWord
CHECK_DEADLOCK FALSE
