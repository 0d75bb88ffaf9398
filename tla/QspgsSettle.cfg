SPECIFICATION Spec
CONSTANTS
  a = a
  b = b
  c = c
  d = d
  Users = {a, b, c, d}
  Standing <- MCStanding
  Scenarios <- Acceptances
PROPERTY AcceptanceSettles
CHECK_DEADLOCK FALSE
