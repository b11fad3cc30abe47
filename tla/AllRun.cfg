CONSTANTS
  Outputs = {"raw.jsonl", "memory"}
  MaxJobs = 2
  MaxReplaced = 1
SPECIFICATION Spec
INVARIANTS TypeOK BindsOneWholeRun OneJobPerFile HashesAgree BuildsInOrder
CHECK_DEADLOCK FALSE
