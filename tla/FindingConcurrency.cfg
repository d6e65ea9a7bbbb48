SPECIFICATION Spec
CONSTANTS
  q1 = q1
  q2 = q2
  l1 = l1
  canonical = canonical
  view = view
  g = g
  Requests = {q1, q2}
  Payloads <- PlainPayloads
  Uses <- PlainUses
  Callers = {c1, c2}
  Locations = {l1}
  LocationView <- AllCanonical
  Canonical = canonical
  Concurrency = {1}
  ReportedRefs = {0}
  Outcomes = {"success", "failed"}
  ScanLimit = 2
  DispatchLimit = 2
  MaxCalls = 2
  MaxIncarnations = 1
  MaxRestarts = 0
  Null = Null
PROPERTIES ConcurrencyRespected
