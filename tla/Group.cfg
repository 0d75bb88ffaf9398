SPECIFICATION Spec
CONSTANTS
    None = None
    DaySecs = 2
    FormatVersions = {1}
    NewerFormats = {2}
    RosterMax = 2
    a = a
    u1 = u1
    u2 = u2
    Key = k
    Clients = {a}
    Uid <- OneUid
    Others = {u2}
    ProfileKeys = {p1, p2}
    MaxNow = 2
    Scenarios <- MCScenarios
    MaxNet = 1
    Faults = TRUE
    Sizes = {"small", "enough"}
INVARIANTS CredentialsVerify RosterSound PresentationsAccepted
PROPERTIES MasterKeyLast
SYMMETRY Symmetry
