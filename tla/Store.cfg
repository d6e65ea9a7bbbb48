SPECIFICATION Spec
CONSTANTS
  None = None
  Keys = {"k1", "k2", "k3"}
  Threads = {"t1", "t2"}
  Evictors = {"t1"}
  Unloadable = {"k1", "k2", "k3"}
  StableBudget = 2
  Policies = {"best", "ttl", "required"}
  Callers = {"c1", "c2", "c3"}
  LedgerClients = {"t1"}
  NumChunks = 2
  LedgerBudget = 2
  LedgerTargets = {"CPU"}
  Exports = TRUE
  ChunksClients = {"t1", "t2"}
  ChunksBudget = 1
  ChunksTargets = {"GPU"}
  Caps = {"r1", "e1"}
  Bound = {"e1"}
  Guards = {"g1", "g2"}
  Lifetimes = {1, 2}
  MaxTime = 3
  Handles = {"h1", "h2"}
  Ranks = {1, 2}
INVARIANTS
  TypeOK
  
  
  
PROPERTIES
  
  AdmitFailsClosed
CHECK_DEADLOCK FALSE
