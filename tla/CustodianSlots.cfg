CONSTANTS
  None = None
  Creds = {c1, c2}
  SpkMax = 2
  SakMax = 1
  OpkMax = 2
  MaxSlots = 3
  MaxKeys = 5
SPECIFICATION Spec
INVARIANT HeldKeyHasHandle
