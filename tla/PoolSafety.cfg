CONSTANTS
  N = 4
  W = 2
SPECIFICATION Spec
INVARIANTS TypeOK ScratchExclusive SameAsSerial
PROPERTIES ImplementsCaseSet EventuallyAnswers
CHECK_DEADLOCK FALSE
