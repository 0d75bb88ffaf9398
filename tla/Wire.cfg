CONSTANTS
    MaxEntries = 2
    MaxBlob = 1
    SigLen = 1
    MaxSkip = 2
    MaxRefs = 2
    Units = {0, 1, 2, 3}
    MaxEdits = 1
SPECIFICATION Spec
INVARIANTS RoundTrip StrictDecode SignedExact HandshakeExact
CHECK_DEADLOCK FALSE
