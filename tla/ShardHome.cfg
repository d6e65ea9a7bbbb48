SPECIFICATION Spec
CONSTANTS
  d1 = d1
  d2 = d2
  h1 = h1
  h2 = h2
  Null = Null
  Daemons = {d1, d2}
  Eligible = {d1, d2}
  Handlers = {h1, h2}
  DaemonOf <- MCDaemonOf
  LeaseTtl = 1
  RouteStaleness = 1
  KeepaliveInterval = 1
  MaxTime = 2
  MaxCalls = 3
INVARIANTS
  OwnerHoldsLease
  AcceptedUnderLease
  LeasesDisjoint
  EntryUnderOwnLease
SYMMETRY MCSwap
