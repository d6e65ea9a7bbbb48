SPECIFICATION Spec
CONSTANTS
  MaxTasks = 2
  MaxRestarts = 1
  MaxAttempts = 2
  Remotes = {"none"}
  Disks = {"must"}
  Layouts = {"one"}
  None = None
INVARIANTS ReadersSeeWhole
CHECK_DEADLOCK FALSE
