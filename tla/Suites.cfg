CONSTANTS
  N = 2
  MaxSkip = 1
  Warmup = 1
  Repetitions = 2
SPECIFICATION Spec
INVARIANTS TypeOK AllOrNothing SummaryMatchesReport VerdictPerCase ReportContract
PROPERTIES ImplementsRawFile
CHECK_DEADLOCK FALSE
