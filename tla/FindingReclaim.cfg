CONSTANTS
  Leases = {l1, l2}
  Keys = {k1}
  Pids = {p1, p2}
  None = none
  Kinds = {"use"}
  Share = FALSE
  Calls = {}
  MaxGen = 1
SPECIFICATION Spec
CHECK_DEADLOCK FALSE
PROPERTIES
  ResourceProtection
