----------------------------- MODULE Classifier -----------------------------
(***************************************************************************)
(* One classification (classify in moderator/src/classifier.ts): the       *)
(* ordered list of model selectors is tried call by call, each call raced  *)
(* against a timeout; a list in which some call timed out is tried again,  *)
(* up to a number of cycles.  A call that lost the race goes on by itself  *)
(* and may answer at any later time.                                       *)
(*                                                                         *)
(* A call is named by its attempt number.  No caller passes an abort       *)
(* signal, so the check of it never fires and is left out.                 *)
(***************************************************************************)
EXTENDS Integers, FiniteSets

CONSTANTS
  Selectors,   \* how many selectors are configured
  Cycles,      \* timeoutCycles(): three unless configured
  None

ASSUME ClassifierAssumption ==
  /\ Selectors \in Nat \ {0}
  /\ Cycles \in Nat \ {0}
  /\ None \notin Nat

VARIABLES
  cycle,     \* 0, 1, ...
  index,     \* the selector to try next, from 0
  timedOut,  \* whether a call of this cycle timed out
  attempts,
  pc,        \* try, await or done
  outcome,   \* the attempt the verdict is from, or None
  late,      \* the calls that lost their race and still run
  expired    \* history: the calls that timed out

vars == <<cycle, index, timedOut, attempts, pc, outcome, late, expired>>

Init ==
  /\ cycle = 0 /\ index = 0 /\ timedOut = FALSE /\ attempts = 0
  /\ pc = "try" /\ outcome = None /\ late = {} /\ expired = {}

generate ==
  /\ pc = "try"
  /\ index < Selectors
  /\ attempts' = attempts + 1
  /\ pc' = "await"
  /\ UNCHANGED <<cycle, index, timedOut, outcome, late, expired>>

ValidAnswer ==
  /\ pc = "await"
  /\ outcome' = attempts
  /\ pc' = "done"
  /\ UNCHANGED <<cycle, index, timedOut, attempts, late, expired>>

\* An invalid verdict, a failing call, or a case too long for the context.
FailedAnswer ==
  /\ pc = "await"
  /\ index' = index + 1
  /\ pc' = "try"
  /\ UNCHANGED <<cycle, timedOut, attempts, outcome, late, expired>>

TimesOut ==
  /\ pc = "await"
  /\ timedOut' = TRUE
  /\ late' = late \union {attempts}
  /\ index' = index + 1
  /\ pc' = "try"
  /\ expired' = expired \union {attempts}
  /\ UNCHANGED <<cycle, attempts, outcome>>

\* Mutation: an answer that comes too late is taken while the next call runs.
LateAnswerTaken(a) ==
  /\ a \in late
  /\ late' = late \ {a}
  /\ IF pc = "await"
     THEN pc' = "done" /\ outcome' = a
     ELSE UNCHANGED <<pc, outcome>>
  /\ UNCHANGED <<cycle, index, timedOut, attempts, expired>>

\* Nobody listens to a call that lost its race.
LateAnswer(a) ==
  /\ a \in late
  /\ late' = late \ {a}
  /\ UNCHANGED <<cycle, index, timedOut, attempts, pc, outcome, expired>>

\* Mutation: one cycle too many.
NextCyclePastLimit ==
  /\ pc = "try" /\ index = Selectors
  /\ timedOut
  /\ cycle < Cycles
  /\ cycle' = cycle + 1 /\ index' = 0 /\ timedOut' = FALSE
  /\ UNCHANGED <<attempts, pc, outcome, late, expired>>

\* Mutation: the timeouts of an earlier cycle count again.
NextCycleKeepsTimeout ==
  /\ pc = "try" /\ index = Selectors
  /\ timedOut
  /\ cycle + 1 < Cycles
  /\ cycle' = cycle + 1 /\ index' = 0
  /\ UNCHANGED <<timedOut, attempts, pc, outcome, late, expired>>

\* Mutation: a cycle goes on from the second selector.
NextCycleSkipsFirst ==
  /\ pc = "try" /\ index = Selectors
  /\ timedOut
  /\ cycle + 1 < Cycles
  /\ cycle' = cycle + 1 /\ index' = 1 /\ timedOut' = FALSE
  /\ UNCHANGED <<attempts, pc, outcome, late, expired>>

NextCycle ==
  /\ pc = "try" /\ index = Selectors
  /\ timedOut
  /\ cycle + 1 < Cycles
  /\ cycle' = cycle + 1 /\ index' = 0 /\ timedOut' = FALSE
  /\ UNCHANGED <<attempts, pc, outcome, late, expired>>

\* Mutation: the last cycle is followed by another attempt.
GivesUpLate ==
  /\ pc = "try" /\ index = Selectors
  /\ ~timedOut
  /\ pc' = "done"
  /\ outcome' = None
  /\ UNCHANGED <<cycle, index, timedOut, attempts, late, expired>>

\* No answer was valid: captureOutcome reports the failure.
GivesUp ==
  /\ pc = "try" /\ index = Selectors
  /\ ~timedOut \/ cycle + 1 >= Cycles
  /\ pc' = "done"
  /\ outcome' = None
  /\ UNCHANGED <<cycle, index, timedOut, attempts, late, expired>>

Running == generate \/ ValidAnswer \/ FailedAnswer \/ TimesOut \/ NextCycle \/ GivesUp

Next == Running \/ \E a \in late : LateAnswer(a)

Spec == Init /\ [][Next]_vars

\* The timer of withTimeout ends every call.
ClassifierFairness == WF_vars(Running)

-----------------------------------------------------------------------------

TypeOK ==
  /\ cycle \in 0..(Cycles - 1)
  /\ index \in 0..Selectors
  /\ timedOut \in BOOLEAN
  /\ attempts \in 0..(Cycles * Selectors)
  /\ pc \in {"try", "await", "done"}
  /\ outcome \in 1..attempts \cup {None}
  /\ late \subseteq expired
  /\ expired \subseteq 1..attempts

\* A verdict is the answer of the call that is awaited, never the late answer of
\* a call that timed out (classifier.ts:112-122).
VerdictOfAwaitedCall ==
  pc = "done" /\ outcome # None => outcome = attempts

\* The classifier fails only when every selector of the list was tried in the
\* cycle it fails in, and after a timeout only in the last cycle
\* (classifier.ts:39-69).
FailsOnlyWhenExhausted ==
  pc = "done" /\ outcome = None =>
    /\ attempts = (cycle + 1) * Selectors
    /\ timedOut => cycle + 1 = Cycles

\* The list is tried again only because a call of the cycle that just ended
\* timed out: a cycle of invalid answers ends the classification.
AgainOnlyAfterTimeout ==
  [][cycle' # cycle => \E a \in expired : a > cycle * Selectors]_vars

\* Requirement 121: "Classification SHALL have a finite timeout."
Terminates == <>(pc = "done")
=============================================================================
