CONSTANTS
  N = 2
  W = 2
SPECIFICATION Spec
INVARIANTS SerialExecution
CHECK_DEADLOCK FALSE
