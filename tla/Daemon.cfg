SPECIFICATION Spec
CONSTANTS
  None = None
INVARIANTS
  
  CountsMatch
  
  
  DoneIsDone

  
CHECK_DEADLOCK FALSE
