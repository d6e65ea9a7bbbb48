SPECIFICATION Spec
CONSTANTS
  q1 = q1
  q2 = q2
  l1 = l1
  canonical = canonical
  view = view
  g = g
  Requests = {q1, q2}
  Payloads <- GroupPayloads
  Uses <- GroupUses
  Callers = {c1, c2}
  Locations = {l1}
  LocationView <- AllCanonical
  Canonical = canonical
  Concurrency = {1, 2}
  ReportedRefs = {0, 1}
  Outcomes = {"success", "failed"}
  ScanLimit = 1
  DispatchLimit = 2
  MaxCalls = 2
  MaxIncarnations = 1
  MaxRestarts = 0
  Null = Null
INVARIANTS
  TypeOK
  QuotaConserved
  AnswerMatchesCall
  GroupContract
PROPERTIES
  PlacedWithinConcurrency
SYMMETRY CallerSymmetry
