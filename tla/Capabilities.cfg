\* One build of sqlite3 and two of redlinedb, with any capabilities, under two cases.
SPECIFICATION Spec
CONSTANTS
  Sqlites = {s1}
  Redlines = {r1, r2}
  Probes <- TwoProbes
  CaseKinds <- Kinds
  N = 2
  MaxReplaced = 1
SYMMETRY Symmetry
INVARIANTS SkipsForCause RecordsNameOnePair
CHECK_DEADLOCK FALSE
