CONSTANTS
  Modes = {"pipe", "file", "timed"}
  Cap = 1
  InLen = 3
  MaxOps = 5
SPECIFICATION Spec
INVARIANTS TypeOK CapturesAll BrokenPipeNeedsEarlyExit WedgedForever NoChildLeft OutputOverCapTimesOut PeakOfChild
PROPERTIES Answers
CHECK_DEADLOCK FALSE
