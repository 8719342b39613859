SPECIFICATION Spec
CONSTANTS
  None = None
  MaxMessages = 8
  MaxIdleReads = 1
  FinishedKinds = {"stop"}
  UserParents = {FALSE}
  Decisions = {"AGENT_CONTINUING", "AGENT_STALLED"}
  Crashes = 0
  Faults = 0
  Aborts = 0
  Compactions = 0
  Replays = 0
  Deletions = 0
  ESCALATION_LIMIT = 3
  Assistant <- MCIds
  User <- MCIds
  FlagSets <- MCFlagSets
  Budget <- MCBudget
PROPERTIES EscalatesAfterConsecutiveStalls
CHECK_DEADLOCK FALSE
