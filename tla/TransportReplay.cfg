SPECIFICATION Spec
CONSTANTS
  q1 = q1
  q2 = q2
  l1 = l1
  canonical = canonical
  view = view
  g = g
  Requests = {q1}
  Payloads <- ViewPayloads
  Uses <- ViewUses
  Callers = {c1, c2}
  Locations = {l1}
  LocationView <- AllCanonical
  Canonical = canonical
  Concurrency = {1}
  ReportedRefs = {0}
  Outcomes = {"success"}
  ScanLimit = 2
  DispatchLimit = 2
  MaxCalls = 3
  MaxIncarnations = 1
  MaxRestarts = 0
  Null = Null
INVARIANTS DispatchedIffCarried OneLeasePerRequest
PROPERTIES LedgerImplemented
SYMMETRY CallerSymmetry
