CONSTANTS
  MaxSkip = 2
  AgeLimit = 3
  NoKey = NoKey
  Alice = Alice
  Bob = Bob
  MaxSent = 5
  MaxTotal = 8
  Intervals = {1, 2}
SPECIFICATION Spec
INVARIANTS NoReplay KeysNeverReused ForwardSecrecy StillReceivable ConfirmationAgreed
CHECK_DEADLOCK FALSE
