SPECIFICATION FairSpec
CONSTANTS
  q1 = q1
  q2 = q2
  l1 = l1
  canonical = canonical
  view = view
  g = g
  Requests = {q1}
  Payloads <- PlainPayloads
  Uses <- PlainUses
  Callers = {c1}
  Locations = {l1}
  LocationView <- AllCanonical
  Canonical = canonical
  Concurrency = {1}
  ReportedRefs = {0}
  Outcomes = {"success", "failed"}
  ScanLimit = 2
  DispatchLimit = 2
  MaxCalls = 3
  MaxIncarnations = 1
  MaxRestarts = 1
  Null = Null
PROPERTIES 
  EveryCallAnswered 
  EveryTransportEnds
