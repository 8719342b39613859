------------------------ MODULE MCModeratorSession ------------------------
EXTENDS ModeratorSession, TLC
CONSTANTS Crashes, Faults, Aborts, Compactions, Replays, Deletions
MCIds == 1..MaxMessages
MCFlagSets == SUBSET {"nonterminal", "assistant-error", "newer-user", "duplicate"}
MCBudget ==
  [crash |-> Crashes, fault |-> Faults, abort |-> Aborts, compact |-> Compactions,
   replay |-> Replays, delete |-> Deletions]
=============================================================================
