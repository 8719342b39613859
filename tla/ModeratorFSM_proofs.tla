------------------------- MODULE ModeratorFSM_proofs -------------------------
(***************************************************************************)
(* What the moderator's state machine guarantees for any sets of messages  *)
(* and any escalation limit.  Every event keeps the state Sound; snapshots *)
(* are records the machine had, so a restart starts from a Sound state too.*)
(***************************************************************************)
EXTENDS ModeratorFSM, ModeratorTransition_proofs

IInv == Sound(state) /\ (saved = None \/ Sound(saved))

\* The strengthened invariant holds at every step: every snapshot on disk is a
\* state the machine may restart from.
THEOREM Inductive == Spec => []IInv
<1>1. Init => IInv
  BY InitialSound DEF Init, IInv
<1>2. IInv /\ [Next]_vars => IInv'
  <2> SUFFICES ASSUME IInv, [Next]_vars
               PROVE  IInv'
    OBVIOUS
  <2> DEFINE plain == PlainEvent({"STATUS_BUSY", "CANCELLED", "CONTINUATION_PERSISTED",
                                  "COMPACTION_STARTED", "COMPACTION_COMPLETED",
                                  "TRACE_PERSISTED", "EFFECT_ERROR"})
  <2>1. ASSUME NEW e \in plain, Fire(e)
        PROVE  IInv'
    BY <2>1, PlainSound DEF Fire, IInv
  <2>2. ASSUME NEW e, Fire(e),
               \/ e \in TurnEndedEvent
               \/ e \in ContextLoadedEvent
               \/ e \in VerdictEvent
               \/ e \in NewUserCycleEvent
               \/ e \in ReplayEvent
        PROVE  IInv'
    BY <2>2, FactSound DEF Fire, IInv
  <2>3. CASE StatusBusy \/ Cancelled \/ ContinuationPersisted \/ Compaction
             \/ TracePersisted \/ EffectError
    <3>1. PICK e \in plain : Fire(e)
      BY <2>3 DEF StatusBusy, Cancelled, ContinuationPersisted, Compaction,
                  TracePersisted, EffectError, PlainEvent
    <3>2. QED
      BY <3>1, <2>1
  <2>4. CASE TurnEnded \/ ContextLoaded \/ VerdictReturned \/ NewUserCycle \/ Replay
    BY <2>4, <2>2 DEF TurnEnded, ContextLoaded, VerdictReturned, NewUserCycle, Replay
  <2>5. CASE Persist
    BY <2>5 DEF Persist, IInv
  <2>6. CASE Restart \/ RestartAfresh
    BY <2>6, InitialSound, RestoreSound DEF Restart, RestartAfresh, IInv
  <2>7. CASE UNCHANGED vars
    BY <2>7 DEF vars, IInv
  <2>8. QED
    BY <2>3, <2>4, <2>5, <2>6, <2>7 DEF Next
<1>3. QED
  BY <1>1, <1>2, PTL DEF Spec

\* Every state and snapshot has the shape isValidState demands.
THEOREM StatesAreValid == Spec => []TypeOK
<1>1. IInv => TypeOK
  BY DEF IInv, Sound, TypeOK, Nullable
<1>2. QED
  BY <1>1, Inductive, PTL

\* A machine that classifies or continues knows its assistant.
THEOREM ActiveAssistantKnown == Spec => []ActiveAssistant
<1>1. IInv => ActiveAssistant
  BY DEF IInv, Sound, ActiveAssistant
<1>2. QED
  BY <1>1, Inductive, PTL

\* Prompting the agent stays below the escalation limit and outside blockers.
THEOREM CountStaysWithinLimit == Spec => []CountWithinLimit
<1>1. IInv => CountWithinLimit
  BY DEF IInv, Sound, CountWithinLimit
<1>2. QED
  BY <1>1, Inductive, PTL

-----------------------------------------------------------------------------
(* What one step may do to the duplicate mark and to the blocker.           *)

\* A restart apart, the duplicate mark moves only with a verdict that ends a
\* moderation and with an effect error.
THEOREM DuplicateMarkOnlyMoves == Spec => DuplicateMarkMoves
<1>1. IInv /\ [Next]_vars => [DuplicateMarkStep]_vars
  <2> SUFFICES ASSUME IInv, Next
               PROVE  DuplicateMarkStep
    BY DEF vars
  <2>1. ASSUME NEW e, Fire(e),
               \/ e \in PlainEvent({"STATUS_BUSY", "CANCELLED", "CONTINUATION_PERSISTED",
                                    "COMPACTION_STARTED", "COMPACTION_COMPLETED",
                                    "TRACE_PERSISTED", "EFFECT_ERROR"})
               \/ e \in TurnEndedEvent
               \/ e \in ContextLoadedEvent
               \/ e \in VerdictEvent
               \/ e \in NewUserCycleEvent
               \/ e \in ReplayEvent
        PROVE  DuplicateMarkStep
    <3>1. MarkStep(state, transition(state, e).state)
      BY <2>1, EventMark DEF IInv
    <3>2. QED
      BY <2>1, <3>1 DEF Fire, MarkStep, DuplicateMarkStep
  <2>2. CASE StatusBusy \/ Cancelled \/ ContinuationPersisted \/ Compaction
             \/ TracePersisted \/ EffectError
    BY <2>2, <2>1 DEF StatusBusy, Cancelled, ContinuationPersisted, Compaction,
                      TracePersisted, EffectError, PlainEvent
  <2>3. CASE TurnEnded \/ ContextLoaded \/ VerdictReturned \/ NewUserCycle \/ Replay
    BY <2>3, <2>1 DEF TurnEnded, ContextLoaded, VerdictReturned, NewUserCycle, Replay
  <2>4. CASE Persist
    BY <2>4 DEF Persist, DuplicateMarkStep
  <2>5. CASE Restart \/ RestartAfresh
    BY <2>5 DEF DuplicateMarkStep
  <2>6. QED
    BY <2>2, <2>3, <2>4, <2>5 DEF Next
<1>2. QED
  BY <1>1, Inductive, PTL DEF Spec, DuplicateMarkMoves

\* Only a verdict, a new cycle or a restart from a snapshot without one ends a
\* blocker, for every set of messages and every limit.
THEOREM BlockerOnlyEnds == Spec => BlockerEndsWithCycleOrVerdict
<1>1. IInv /\ [Next]_vars => [BlockerStep]_vars
  <2> SUFFICES ASSUME IInv, Next, state.blocker # None, state'.blocker = None
               PROVE  \/ VerdictReturned
                      \/ NewUserCycle /\ state'.consecutiveNoProgressCount = 0
                      \/ ContextLoaded /\ state'.consecutiveNoProgressCount = 0
                      \/ Restart /\ (saved = None \/ saved.blocker = None)
                      \/ RestartAfresh
    BY DEF BlockerStep
  <2>0. state \in ModerationState
    BY DEF IInv, Sound
  <2>1. ASSUME NEW e, Fire(e),
               \/ e \in PlainEvent({"STATUS_BUSY", "CANCELLED", "CONTINUATION_PERSISTED",
                                    "COMPACTION_STARTED", "COMPACTION_COMPLETED",
                                    "TRACE_PERSISTED", "EFFECT_ERROR"})
               \/ e \in TurnEndedEvent
               \/ e \in ReplayEvent
        PROVE  FALSE
    BY <2>0, <2>1, BlockerKept DEF Fire
  <2>2. CASE StatusBusy \/ Cancelled \/ ContinuationPersisted \/ Compaction
             \/ TracePersisted \/ EffectError
    BY <2>2, <2>1 DEF StatusBusy, Cancelled, ContinuationPersisted, Compaction,
                      TracePersisted, EffectError, PlainEvent
  <2>3. CASE TurnEnded \/ Replay
    BY <2>3, <2>1 DEF TurnEnded, Replay
  <2>4. CASE VerdictReturned
    BY <2>4
  <2>5. CASE NewUserCycle
    BY <2>0, <2>5, CycleResets DEF NewUserCycle, Fire
  <2>6. CASE ContextLoaded
    BY <2>0, <2>6, ContextDropsBlockerWithCount DEF ContextLoaded, Fire
  <2>7. CASE Persist
    BY <2>7 DEF Persist
  <2>8. CASE Restart
    <3>1. ASSUME saved # None
          PROVE  normalizeRestoredState(saved).blocker = saved.blocker
      BY <3>1 DEF IInv, Sound, normalizeRestoredState, ModerationState
    <3>2. saved # None => saved.blocker = None
      BY <2>8, <3>1 DEF Restart
    <3>3. QED
      BY <2>8, <3>2
  <2>9. CASE RestartAfresh
    BY <2>9
  <2>10. QED
    BY <2>2, <2>3, <2>4, <2>5, <2>6, <2>7, <2>8, <2>9 DEF Next
<1>2. QED
  BY <1>1, Inductive, PTL DEF Spec, BlockerEndsWithCycleOrVerdict
=============================================================================
