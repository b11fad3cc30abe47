CONSTANTS
  NCases = 1
  NPassing = 0
  NBacklog = 0
  Declared <- TimestampCase
  Words <- AnyWord
  Prints <- TwoNumbers
SPECIFICATION Spec
INVARIANTS NumbersKept
CHECK_DEADLOCK FALSE
