SPECIFICATION Spec
CONSTANTS
    None = None
    MailboxMax = 8
    ConsumedMax = 128
    SwapAt = {3}
    NOpks = 4
    Replenishment = 4
    Rounds = 6
    ExpMaxSend = 3
INVARIANTS
    OpkIssuedOnce
    ScriptSucceeds
PROPERTIES
    EveryoneEnds
CHECK_DEADLOCK FALSE
