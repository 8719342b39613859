SPECIFICATION Spec
CONSTANTS
  None = None
  a1 = a1
  a2 = a2
  u1 = u1
  Assistant <- MCAssistant
  User <- MCUser
  FlagSets <- MCFlagSets
  ESCALATION_LIMIT = 2
SYMMETRY Symmetry
INVARIANTS TypeOK ActiveAssistant CountWithinLimit
PROPERTIES DuplicateMarkMoves BlockerEndsWithCycleOrVerdict
