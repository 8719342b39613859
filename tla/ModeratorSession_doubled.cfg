SPECIFICATION Spec
CONSTANTS
  None = None
  MaxMessages = 5
  MaxIdleReads = 2
  FinishedKinds = {"stop"}
  UserParents = {FALSE}
  Decisions = {"AGENT_STALLED"}
  Crashes = 0
  Faults = 0
  Aborts = 1
  Compactions = 0
  Replays = 0
  Deletions = 0
  ESCALATION_LIMIT = 2
  Assistant <- MCIds
  User <- MCIds
  FlagSets <- MCFlagSets
  Budget <- MCBudget
INVARIANTS OneContinuationPerTurn
CHECK_DEADLOCK FALSE
