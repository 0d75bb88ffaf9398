SPECIFICATION Spec
CONSTANTS
  a = a
  b = b
  c = c
  d = d
  Users = {a, b, c, d}
  Standing <- MCStanding
  Scenarios <- MCScenarios
INVARIANTS HeadReadable RemovedCannotRead
PROPERTIES SeenLinesKept ImplementsHistory StagedResolved MembersCatchUp
CHECK_DEADLOCK FALSE
