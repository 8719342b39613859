SPECIFICATION FairSpec
CONSTANTS
  None = None
  MaxMessages = 4
  MaxIdleReads = 2
  FinishedKinds = {"stop"}
  UserParents = {FALSE, TRUE}
  Decisions = {"AGENT_COMPLETE", "AGENT_STALLED", "AGENT_BLOCKED"}
  Crashes = 0
  Faults = 0
  Aborts = 0
  Compactions = 1
  Replays = 0
  Deletions = 0
  ESCALATION_LIMIT = 2
  Assistant <- MCIds
  User <- MCIds
  FlagSets <- MCFlagSets
  Budget <- MCBudget
PROPERTIES FinishedTurnDecided
CHECK_DEADLOCK FALSE
