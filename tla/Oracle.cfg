CONSTANTS
  NCases = 2
  NPassing = 1
  NBacklog = 1
  Declared <- AnyCase
  Words <- AnyWord
  Prints <- AnyPrints
SPECIFICATION Spec
INVARIANTS TypeOK ReportAddsTargetLane TargetNotBlamed HidesOnlyDeclared
CHECK_DEADLOCK FALSE
