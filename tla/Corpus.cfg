CONSTANTS
  G = 2
  Recipes = {"dated", "refused"}
  Authored = {"random"}
  Builds = {"older", "newer"}
  Zones = {"UTC", "east"}
  Prints <- AnswersOf
  MaxTools = 3
  MaxChanges = 2
SPECIFICATION Spec
INVARIANTS GreenByConstruction GateIsCurrent GateMeansLoads
CHECK_DEADLOCK FALSE
