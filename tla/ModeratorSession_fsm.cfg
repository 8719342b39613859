SPECIFICATION Spec
CONSTANTS
  None = None
  MaxMessages = 3
  MaxIdleReads = 2
  FinishedKinds = {"stop"}
  UserParents = {FALSE}
  Decisions = {"AGENT_COMPLETE", "AGENT_STALLED"}
  Crashes = 1
  Faults = 1
  Aborts = 0
  Compactions = 0
  Replays = 1
  Deletions = 0
  ESCALATION_LIMIT = 2
  Assistant <- MCIds
  User <- MCIds
  FlagSets <- MCFlagSets
  Budget <- MCBudget
PROPERTIES ImplementsFSM
CHECK_DEADLOCK FALSE
