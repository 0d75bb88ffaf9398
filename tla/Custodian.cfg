CONSTANTS
  None = None
  Creds = {c1, c2}
  SpkMax = 2
  SakMax = 1
  OpkMax = 2
  MaxSlots = 4
  MaxKeys = 5
SPECIFICATION Spec
INVARIANTS
  MemMatchesDisk
  ReceiverResolvesHeld
  OneShotUnique
  SpentNeverBack
PROPERTY HandlesKept
SYMMETRY Symmetry
