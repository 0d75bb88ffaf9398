CONSTANTS
  MaxSkip = 3
  AgeLimit = 2
  NoKey = NoKey
  HeaderKey = {h1, h2, h3, h4}
  MsgNum = {0}
  MessageKey = {k}
  MaxClock = 3
  MaxStamp = 5
SPECIFICATION Spec
INVARIANTS
  RefsCountEntries
  SlotAlwaysFree
  RecordExact
PROPERTY ImplementsSkippedKeys
CHECK_DEADLOCK FALSE
