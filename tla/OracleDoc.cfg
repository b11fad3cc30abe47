CONSTANTS
  NCases = 1
  NPassing = 1
  NBacklog = 1
  Declared <- MissingCase
  Words <- AnyWord
  Prints <- TwoNumbers
SPECIFICATION Spec
INVARIANTS SkipsMissingFeatures
CHECK_DEADLOCK FALSE
