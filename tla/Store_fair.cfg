SPECIFICATION FairSpec
CONSTANTS
  Clients = {c1, c2}
  Desktops = {d1}
  Nobody = Nobody
  ReaderEdit = ReaderEdit
  NoRevision = NoRevision
  MaxEdits = 1
PROPERTIES EveryCallReturns
CHECK_DEADLOCK FALSE
