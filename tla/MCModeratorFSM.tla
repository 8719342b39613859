--------------------------- MODULE MCModeratorFSM ---------------------------
(* The machine on two assistants and one user.  The state depends on whether *)
(* a turn matches an eligibility row, not on which: two flag sets suffice.   *)
EXTENDS ModeratorFSM, TLC

CONSTANTS a1, a2, u1

MCAssistant == {a1, a2}
MCUser == {u1}
MCFlagSets == {{}, {"nonterminal", "duplicate"}}
Symmetry == Permutations(MCAssistant) \union Permutations(MCUser)
=============================================================================
