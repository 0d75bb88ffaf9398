CONSTANTS
  None = None
  MaxRecords = 2
  MaxSessions = 2
  MaxDefer = 2
  MaxInactive = 3
  MaxDevices = 1
  MaxSend = 9
  MaxRecv = 9
  Parties = {alice, bob}
  Bases = {b1, b2, b3}
  SidOf <- Distinct
  MaxSends = 3
SPECIFICATION FairSpec
INVARIANTS Converged NothingRefused ConfirmedByPeer
PROPERTY BothGetSession
CHECK_DEADLOCK FALSE
