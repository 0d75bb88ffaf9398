CONSTANTS
  None = None
  d1 = d1
  d2 = d2
  b1 = b1
  b2 = b2
  b3 = b3
  MaxRecords = 3
  MaxSessions = 1
  MaxDefer = 4
  MaxInactive = 1
  MaxDevices = 2
  MaxSend = 2
  MaxRecv = 2
  Devices = {d1, d2}
  Bases = {b1, b2, b3}
  SidOf <- Distinct
  MaxN = 1
  MaxIk = 2
  Scenarios <- CalmAndFaulty
SPECIFICATION Spec
INVARIANTS RecordsConsistent AcceptedOnce RetryWhenCalm
PROPERTIES OpkSpentOnReceipt PinnedKeyNeverReverts
CHECK_DEADLOCK FALSE
SYMMETRY Symmetry
