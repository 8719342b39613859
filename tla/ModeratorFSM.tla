---------------------------- MODULE ModeratorFSM ----------------------------
(***************************************************************************)
(* The moderator's state machine: every call of transition(state, event)   *)
(* the adapter could make, for every event it could build, in any order,   *)
(* with the snapshots it writes and the restarts from them.  It is what    *)
(* the moderator promises whatever the timing of the adapter.              *)
(***************************************************************************)
EXTENDS ModeratorTransition

VARIABLES
  state,   \* the session's ModerationState
  saved    \* the snapshot on disk, or None

vars == <<state, saved>>

Init ==
  /\ state = createInitialState
  /\ saved = None

Fire(e) ==
  /\ state' = transition(state, e).state
  /\ UNCHANGED saved

StatusBusy == \E e \in PlainEvent({"STATUS_BUSY"}) : Fire(e)
TurnEnded == \E e \in TurnEndedEvent : Fire(e)
ContextLoaded == \E e \in ContextLoadedEvent : Fire(e)
VerdictReturned == \E e \in VerdictEvent : Fire(e)
Cancelled == \E e \in PlainEvent({"CANCELLED"}) : Fire(e)
ContinuationPersisted == \E e \in PlainEvent({"CONTINUATION_PERSISTED"}) : Fire(e)
NewUserCycle == \E e \in NewUserCycleEvent : Fire(e)
Compaction == \E e \in PlainEvent({"COMPACTION_STARTED", "COMPACTION_COMPLETED"}) : Fire(e)
TracePersisted == \E e \in PlainEvent({"TRACE_PERSISTED"}) : Fire(e)
EffectError == \E e \in PlainEvent({"EFFECT_ERROR"}) : Fire(e)
Replay == \E e \in ReplayEvent : Fire(e)

Persist ==
  /\ saved' = state
  /\ UNCHANGED state

\* A session starts from its snapshot, or afresh when there is none.
Restart ==
  /\ state' = IF saved = None THEN createInitialState ELSE normalizeRestoredState(saved)
  /\ UNCHANGED saved

\* A snapshot that cannot be restored is passed over, until the next one replaces it.
RestartAfresh ==
  /\ state' = createInitialState
  /\ UNCHANGED saved

Next ==
  \/ StatusBusy
  \/ TurnEnded
  \/ ContextLoaded
  \/ VerdictReturned
  \/ Cancelled
  \/ ContinuationPersisted
  \/ NewUserCycle
  \/ Compaction
  \/ TracePersisted
  \/ EffectError
  \/ Replay
  \/ Persist
  \/ Restart
  \/ RestartAfresh

Spec == Init /\ [][Next]_vars

-----------------------------------------------------------------------------
(* Properties *)

\* The state keeps the shape isValidState demands before every transition, so
\* no sequence of events, snapshots and restarts makes transition throw.
TypeOK ==
  /\ state \in ModerationState
  /\ saved \in Nullable(ModerationState)

\* While the machine classifies or continues it knows which assistant it is
\* about: terminalState would otherwise keep the mark of an earlier turn and
\* EFFECT_ERROR would drop it (fsm.ts:220, fsm.ts:114).
ActiveAssistant ==
  state.phase \in {"CLASSIFYING", "CONTINUING"} => state.inflightAssistantID # None

\* The agent is prompted to go on only outside every blocker and below the
\* escalation limit, and the count never passes the limit, not even after a
\* restart from a snapshot (fsm.ts:180-190).
CountWithinLimit ==
  /\ state.consecutiveNoProgressCount <= ESCALATION_LIMIT
  /\ state.phase = "CONTINUING" =>
       /\ state.blocker = None
       /\ state.consecutiveNoProgressCount < ESCALATION_LIMIT

\* The duplicate mark moves only to the assistant whose verdict just ended its
\* moderation; it is lost only by an effect error and by a restart.
DuplicateMarkStep ==
  state'.lastTerminalAssistantID # state.lastTerminalAssistantID =>
    \/ /\ state.phase = "CLASSIFYING"
       /\ state'.phase = "IDLE"
       /\ state'.lastTerminalAssistantID = state.inflightAssistantID
       /\ state'.lastTerminalAssistantID # None
    \/ state'.phase = "ERROR" /\ state'.lastTerminalAssistantID = None
    \/ Restart
    \/ RestartAfresh
DuplicateMarkMoves == [][DuplicateMarkStep]_vars

\* A blocker ends only with a cycle or a verdict: busy, compaction, an error, a
\* replay or a restart from a snapshot that holds it never drop it, unless that
\* snapshot cannot be restored
\* (fsm.ts:70, 200, 211, 222).
BlockerStep ==
  state.blocker # None /\ state'.blocker = None =>
    \/ VerdictReturned
    \/ NewUserCycle /\ state'.consecutiveNoProgressCount = 0
    \/ ContextLoaded /\ state'.consecutiveNoProgressCount = 0
    \/ Restart /\ (saved = None \/ saved.blocker = None)
    \/ RestartAfresh
BlockerEndsWithCycleOrVerdict == [][BlockerStep]_vars
=============================================================================
