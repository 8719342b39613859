SPECIFICATION Spec
CONSTANTS
  None = None
  MaxMessages = 4
  MaxIdleReads = 2
  FinishedKinds = {"stop", "root"}
  UserParents = {FALSE}
  Decisions = {"AGENT_COMPLETE", "AGENT_STALLED", "AGENT_BLOCKED"}
  Crashes = 0
  Faults = 1
  Aborts = 1
  Compactions = 0
  Replays = 0
  Deletions = 1
  ESCALATION_LIMIT = 2
  Assistant <- MCIds
  User <- MCIds
  FlagSets <- MCFlagSets
  Budget <- MCBudget
INVARIANTS AnswerComesNext VerdictAboutInflight ClosedTurnStaysClosed
CHECK_DEADLOCK FALSE
