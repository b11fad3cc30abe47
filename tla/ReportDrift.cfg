CONSTANTS
  Suites = {memory, rql_phase1}
  Texts = {a, b}
  MaxReports = 2
  MaxCommits = 1
SYMMETRY Symmetry
SPECIFICATION Spec
INVARIANTS TypeOK FreshCheck CommittedNeverAccepted OneSuiteInSync
CHECK_DEADLOCK FALSE
