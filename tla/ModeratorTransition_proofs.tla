--------------------- MODULE ModeratorTransition_proofs ---------------------
(***************************************************************************)
(* What one call of the moderator's transition function guarantees, for    *)
(* any sets of messages and any escalation limit.  Every handler of an     *)
(* event preserves Sound, a predicate on one state record; the state       *)
(* machine and the session's adapter are both proved from these lemmas.    *)
(***************************************************************************)
EXTENDS ModeratorTransition, TLAPS

\* One state record is well formed: the three invariants as one predicate.
Sound(s) ==
  /\ s \in ModerationState
  /\ s.phase \in {"CLASSIFYING", "CONTINUING"} => s.inflightAssistantID # None
  /\ s.consecutiveNoProgressCount <= ESCALATION_LIMIT
  /\ s.phase = "CONTINUING" =>
       /\ s.blocker = None
       /\ s.consecutiveNoProgressCount < ESCALATION_LIMIT

\* The part of the assumption the arithmetic needs.
LEMMA LimitType == ESCALATION_LIMIT \in Nat /\ ESCALATION_LIMIT > 0
  BY FsmAssumption

\* Outside CLASSIFYING and CONTINUING only the shape and the count matter.
LEMMA QuietSound ==
  ASSUME NEW s \in ModerationState,
         s.phase \notin {"CLASSIFYING", "CONTINUING"},
         s.consecutiveNoProgressCount <= ESCALATION_LIMIT
  PROVE  Sound(s)
  BY DEF Sound

\* A loaded context keeps the shape of the state and its phase.
LEMMA WithContextType ==
  ASSUME NEW s \in ModerationState, NEW t \in TurnFact, NEW u \in Nullable(User)
  PROVE  /\ withContext(s, t, u) \in ModerationState
         /\ withContext(s, t, u).phase = s.phase
         /\ withContext(s, t, u).consecutiveNoProgressCount =
              IF t.newCycle THEN 0 ELSE s.consecutiveNoProgressCount
         /\ withContext(s, t, u).blocker =
              IF t.newCycle /\ ~t.blockerDiscussion THEN None ELSE s.blocker
         /\ t.assistantID # None => withContext(s, t, u).inflightAssistantID = t.assistantID
<1> DEFINE a == IF t.assistantID # None THEN t.assistantID ELSE s.inflightAssistantID
           v == IF u # None THEN u ELSE s.realUserCycleID
           n == IF t.newCycle THEN 0 ELSE s.consecutiveNoProgressCount
           b == IF t.newCycle /\ ~t.blockerDiscussion THEN None ELSE s.blocker
           out == withContext(s, t, u)
<1>1. /\ s.phase \in PHASES /\ s.inflightAssistantID \in Nullable(Assistant)
      /\ s.realUserCycleID \in Nullable(User) /\ s.consecutiveNoProgressCount \in Nat
      /\ s.blocker \in Nullable(Blocker)
  BY DEF ModerationState
<1>2. t.assistantID \in Nullable(Assistant)
  BY DEF TurnFact
<1>3. None \in Nullable(Blocker)
  BY DEF Nullable
<1>4. a \in Nullable(Assistant) /\ v \in Nullable(User) /\ n \in Nat /\ b \in Nullable(Blocker)
  BY <1>1, <1>2, <1>3
<1>5. t.assistantID # None => a = t.assistantID
  OBVIOUS
<1> DEFINE new == [s EXCEPT !.inflightAssistantID = a, !.realUserCycleID = v,
                           !.consecutiveNoProgressCount = n, !.blocker = b]
<1>6. out = new
  BY DEF withContext
<1> HIDE DEF a, v, n, b, out
<1>7. /\ out \in ModerationState
      /\ out.phase = s.phase /\ out.inflightAssistantID = a
      /\ out.consecutiveNoProgressCount = n /\ out.blocker = b
  <2>1. /\ new \in ModerationState
        /\ new.phase = s.phase /\ new.inflightAssistantID = a
        /\ new.consecutiveNoProgressCount = n /\ new.blocker = b
    BY <1>1, <1>4 DEF ModerationState
  <2> QED
    BY <1>6, <2>1, Zenon
<1> QED
  BY <1>5, <1>7, Zenon DEF n, b, out

\* The initial state is well formed.
LEMMA InitialSound == Sound(createInitialState)
  BY LimitType DEF Sound, createInitialState, ModerationState, PHASES, Nullable

\* A state restored from a well-formed snapshot is well formed.
LEMMA RestoreSound ==
  ASSUME NEW s, Sound(s)
  PROVE  Sound(normalizeRestoredState(s))
  BY LimitType DEF Sound, normalizeRestoredState, ModerationState, PHASES, Nullable

\* Ending a moderation leaves a well-formed IDLE state.
LEMMA TerminalSound ==
  ASSUME NEW s, Sound(s)
  PROVE  /\ Sound(terminalState(s))
         /\ terminalState(s).phase = "IDLE"
         /\ terminalState(s).consecutiveNoProgressCount = 0
<1>1. terminalState(s) \in ModerationState
  BY DEF Sound, terminalState, ModerationState, PHASES, Nullable
<1>2. /\ terminalState(s).phase = "IDLE"
      /\ terminalState(s).consecutiveNoProgressCount = 0
  BY DEF Sound, terminalState, ModerationState
<1>3. QED
  BY <1>1, <1>2, LimitType DEF Sound

\* A blocker records its source and the real user message it is about.
LEMMA BlockerForType ==
  ASSUME NEW s, Sound(s), NEW source \in BLOCKER_SOURCES, NEW u \in Nullable(User)
  PROVE  BlockerFor(s, source, u) \in Blocker
  BY DEF BlockerFor, Blocker, Sound, ModerationState, Nullable

\* TURN_ENDED keeps the state well formed.
LEMMA TurnEndedSound ==
  ASSUME NEW s, Sound(s), NEW a \in Nullable(Assistant)
  PROVE  Sound(onTurnEnded(s, a).state)
  BY LimitType
  DEF Sound, onTurnEnded, result, ModerationState, PHASES, Nullable

\* The facts a loaded context adds keep the state well formed, outside CONTINUING.
LEMMA WithContextSound ==
  ASSUME NEW s, Sound(s), s.phase = "OBSERVING",
         NEW t \in TurnFact, NEW u \in Nullable(User)
  PROVE  /\ Sound(withContext(s, t, u))
         /\ withContext(s, t, u).phase = "OBSERVING"
         /\ t.assistantID # None => withContext(s, t, u).inflightAssistantID # None
<1>1. s \in ModerationState /\ s.consecutiveNoProgressCount <= ESCALATION_LIMIT
  BY DEF Sound
<1>2. /\ withContext(s, t, u) \in ModerationState
      /\ withContext(s, t, u).phase = "OBSERVING"
      /\ withContext(s, t, u).consecutiveNoProgressCount \in {0, s.consecutiveNoProgressCount}
      /\ t.assistantID # None => withContext(s, t, u).inflightAssistantID # None
  BY <1>1, WithContextType
<1>3. QED
  BY <1>1, <1>2, LimitType DEF Sound

\* CONTEXT_LOADED keeps the state well formed: a turn without an assistant is
\* nonterminal, hence skipped.
LEMMA ContextLoadedSound ==
  ASSUME NEW s, Sound(s), s.phase = "OBSERVING",
         NEW t \in TurnFact, NEW u \in Nullable(User)
  PROVE  Sound(onContextLoaded(s, t, u).state)
<1> DEFINE next == withContext(s, t, u)
<1>1. /\ Sound(next) /\ next.phase = "OBSERVING"
      /\ t.assistantID # None => next.inflightAssistantID # None
  BY WithContextSound
<1>2. t.flags = {} => t.assistantID # None
  BY DEF TurnFact
<1>3. BlockerFor(next, "operator-handoff", u) \in Blocker
  BY <1>1, BlockerForType DEF BLOCKER_SOURCES
<1> HIDE DEF next
<1>4. Sound([next EXCEPT !.phase = "IDLE"])
  BY <1>1 DEF Sound, ModerationState, PHASES
<1>5. Sound([[next EXCEPT !.phase = "IDLE"]
               EXCEPT !.blocker = BlockerFor(next, "operator-handoff", u)])
  BY <1>1, <1>3 DEF Sound, ModerationState, PHASES, Nullable
<1>6. t.flags = {} => Sound([next EXCEPT !.phase = "CLASSIFYING"])
  BY <1>1, <1>2 DEF Sound, ModerationState, PHASES
<1>7. QED
  BY <1>4, <1>5, <1>6 DEF onContextLoaded, result, next

\* A verdict that asks for more work keeps the state well formed.
LEMMA UnfinishedSound ==
  ASSUME NEW s, Sound(s), s.phase = "CLASSIFYING", s.blocker = None,
         NEW d \in VerdictDecision
  PROVE  Sound(onUnfinished(s, d).state)
<1>1. Sound(terminalState(s))
  BY TerminalSound
<1>2. CASE s.consecutiveNoProgressCount >= ESCALATION_LIMIT
  BY <1>1, <1>2, LimitType DEF onUnfinished, result, Sound, ModerationState
<1>3. CASE s.consecutiveNoProgressCount < ESCALATION_LIMIT
  <2> DEFINE count == IF d = "AGENT_STALLED" THEN s.consecutiveNoProgressCount + 1
                                             ELSE s.consecutiveNoProgressCount
  <2>1. count \in Nat /\ count <= ESCALATION_LIMIT
    BY <1>3, LimitType DEF Sound, ModerationState
  <2>2. ~(s.consecutiveNoProgressCount >= ESCALATION_LIMIT)
    BY <1>3, LimitType DEF Sound, ModerationState
  <2> HIDE DEF count
  <2>3. Sound([s EXCEPT !.phase = "IDLE", !.consecutiveNoProgressCount = count,
                        !.inflightAssistantID = None])
    <3> DEFINE n == [s EXCEPT !.phase = "IDLE", !.consecutiveNoProgressCount = count,
                              !.inflightAssistantID = None]
    <3>1. n \in ModerationState
      BY <2>1 DEF Sound, ModerationState, PHASES, Nullable
    <3>2. n.phase = "IDLE" /\ n.consecutiveNoProgressCount = count
      BY DEF Sound, ModerationState
    <3> HIDE DEF n
    <3>3. Sound(n)
      BY <2>1, <3>1, <3>2, QuietSound
    <3>4. QED
      BY <3>3 DEF n
  <2>4. ~(count >= ESCALATION_LIMIT) =>
          Sound([s EXCEPT !.phase = "CONTINUING", !.consecutiveNoProgressCount = count])
    <3> SUFFICES ASSUME ~(count >= ESCALATION_LIMIT)
                 PROVE  Sound([s EXCEPT !.phase = "CONTINUING",
                                        !.consecutiveNoProgressCount = count])
      OBVIOUS
    <3> DEFINE n == [s EXCEPT !.phase = "CONTINUING", !.consecutiveNoProgressCount = count]
    <3>1. count < ESCALATION_LIMIT
      BY <2>1, LimitType
    <3>2. n \in ModerationState
      BY <2>1 DEF Sound, ModerationState, PHASES
    <3>3. /\ n.consecutiveNoProgressCount = count
          /\ n.inflightAssistantID # None
          /\ n.blocker = None
      BY DEF Sound, ModerationState
    <3> HIDE DEF n
    <3>4. Sound(n)
      BY <2>1, <3>1, <3>2, <3>3 DEF Sound
    <3>5. QED
      BY <3>4 DEF n
  <2>5. QED
    BY <1>3, <2>2, <2>3, <2>4 DEF onUnfinished, result, count
<1>4. QED
  BY <1>2, <1>3, LimitType DEF Sound, ModerationState

\* VERDICT keeps the state well formed.
LEMMA VerdictSound ==
  ASSUME NEW s, Sound(s), s.phase = "CLASSIFYING",
         NEW d \in VerdictDecision, NEW u \in Nullable(User)
  PROVE  Sound(onVerdict(s, d, u).state)
<1>1. Sound(terminalState(s)) /\ terminalState(s).phase = "IDLE"
  BY TerminalSound
<1>2. BlockerFor(s, "agent-blocked", u) \in Blocker
  BY BlockerForType DEF BLOCKER_SOURCES
<1>3. Sound([terminalState(s) EXCEPT !.blocker = BlockerFor(s, "agent-blocked", u)])
  BY <1>1, <1>2 DEF Sound, ModerationState, PHASES, Nullable
<1>4. s.blocker = None => Sound(onUnfinished(s, d).state)
  BY UnfinishedSound
<1>5. QED
  BY <1>1, <1>3, <1>4 DEF onVerdict, result, VerdictDecision

\* NEW_USER_CYCLE keeps the state well formed: the phases that need an assistant
\* are left before it is forgotten.
LEMMA NewUserCycleSound ==
  ASSUME NEW s, Sound(s), NEW u \in Nullable(User), NEW same \in BOOLEAN
  PROVE  Sound(onNewUserCycle(s, u, same).state)
<1> DEFINE n == onNewUserCycle(s, u, same).state
           p == IF s.phase \in {"CLASSIFYING", "CONTINUING"} THEN "IDLE" ELSE s.phase
           v == IF u # None THEN u ELSE s.realUserCycleID
           b == IF same THEN s.blocker ELSE None
<1>1. /\ s \in ModerationState /\ s.phase \in PHASES
      /\ s.realUserCycleID \in Nullable(User) /\ s.blocker \in Nullable(Blocker)
  BY DEF Sound, ModerationState
<1>2. None \in Nullable(Assistant) /\ None \in Nullable(Blocker) /\ 0 \in Nat /\ "IDLE" \in PHASES
  BY DEF Nullable, PHASES
<1>3. /\ p \in PHASES /\ p \notin {"CLASSIFYING", "CONTINUING"}
      /\ v \in Nullable(User) /\ b \in Nullable(Blocker)
  BY <1>1, <1>2
<1> DEFINE new == [s EXCEPT !.phase = p, !.inflightAssistantID = None, !.realUserCycleID = v,
                           !.consecutiveNoProgressCount = 0, !.blocker = b]
<1>4. n = new
  BY DEF onNewUserCycle, result
<1> HIDE DEF n, p, v, b
<1>5. n \in ModerationState /\ n.phase = p /\ n.consecutiveNoProgressCount = 0
  <2>1. new \in ModerationState /\ new.phase = p /\ new.consecutiveNoProgressCount = 0
    BY <1>1, <1>2, <1>3 DEF ModerationState
  <2> QED
    BY <1>4, <2>1, Zenon
<1>6. Sound(n)
  BY <1>3, <1>5, LimitType DEF Sound
<1>7. QED
  BY <1>6 DEF n

\* EFFECT_ERROR keeps the state well formed.
LEMMA EffectErrorSound ==
  ASSUME NEW s, Sound(s)
  PROVE  Sound(onEffectError(s).state)
  BY LimitType
  DEF Sound, onEffectError, result, ModerationState, PHASES, Nullable

\* REPLAY keeps the state well formed.
LEMMA ReplaySound ==
  ASSUME NEW s, Sound(s), NEW t \in TurnFact
  PROVE  Sound(onReplay(s, t).state)
<1>1. t.assistantID \in Nullable(Assistant)
  BY DEF TurnFact
<1>2. QED
  BY <1>1, LimitType
  DEF Sound, onReplay, result, ModerationState, PHASES, Nullable

\* The phases in which an event is accepted.
LEMMA AcceptedPhases ==
  /\ EVENT_PHASES["STATUS_BUSY"] = PHASES
  /\ EVENT_PHASES["TURN_ENDED"] = {"OBSERVING"}
  /\ EVENT_PHASES["CONTEXT_LOADED"] = {"OBSERVING"}
  /\ EVENT_PHASES["VERDICT"] = {"CLASSIFYING"}
  /\ EVENT_PHASES["CANCELLED"] = {"CLASSIFYING", "CONTINUING"}
  /\ EVENT_PHASES["CONTINUATION_PERSISTED"] = {"CONTINUING"}
  /\ EVENT_PHASES["REPLAY"] = {"IDLE", "ERROR"}
  BY DEF EVENT_PHASES

\* An event whose handler keeps the state well formed in the phases that accept
\* it keeps it well formed in every phase.
LEMMA TransitionSound ==
  ASSUME NEW s, Sound(s), NEW e,
         s.phase \in EVENT_PHASES[e.type] => Sound(dispatch(s, e).state)
  PROVE  Sound(transition(s, e).state)
  BY DEF transition, result

\* The events that carry nothing keep the state well formed.
LEMMA PlainSound ==
  ASSUME NEW s, Sound(s),
         NEW e \in PlainEvent({"STATUS_BUSY", "CANCELLED", "CONTINUATION_PERSISTED",
                               "COMPACTION_STARTED", "COMPACTION_COMPLETED",
                               "TRACE_PERSISTED", "EFFECT_ERROR"})
  PROVE  Sound(transition(s, e).state)
<1>0. s \in ModerationState /\ s.consecutiveNoProgressCount <= ESCALATION_LIMIT
  BY DEF Sound
<1>1. Sound([s EXCEPT !.phase = "OBSERVING"])
  BY DEF Sound, ModerationState, PHASES
<1>2. Sound([s EXCEPT !.phase = "IDLE", !.inflightAssistantID = None])
  BY DEF Sound, ModerationState, PHASES, Nullable
<1>3. Sound(onEffectError(s).state)
  BY EffectErrorSound
<1>4. Sound(dispatch(s, e).state)
  <2>1. CASE e.type = "STATUS_BUSY"
    BY <2>1, <1>1 DEF dispatch, result
  <2>2. CASE e.type = "CANCELLED"
    BY <2>2, <1>2 DEF dispatch, result
  <2>3. CASE e.type = "CONTINUATION_PERSISTED"
    BY <2>3, <1>1 DEF dispatch, result
  <2>4. CASE e.type \in {"COMPACTION_STARTED", "COMPACTION_COMPLETED", "TRACE_PERSISTED"}
    BY <2>4 DEF dispatch, result
  <2>5. CASE e.type = "EFFECT_ERROR"
    BY <2>5, <1>3 DEF dispatch
  <2>6. QED
    BY <2>1, <2>2, <2>3, <2>4, <2>5 DEF PlainEvent
<1>5. QED
  BY <1>4, TransitionSound

\* The events that carry facts keep the state well formed.
LEMMA FactSound ==
  ASSUME NEW s, Sound(s), NEW e,
         \/ e \in TurnEndedEvent
         \/ e \in ContextLoadedEvent
         \/ e \in VerdictEvent
         \/ e \in NewUserCycleEvent
         \/ e \in ReplayEvent
  PROVE  Sound(transition(s, e).state)
<1>1. CASE e \in TurnEndedEvent
  <2>1. e.type = "TURN_ENDED" /\ e.assistantID \in Nullable(Assistant)
    BY <1>1 DEF TurnEndedEvent
  <2>2. Sound(onTurnEnded(s, e.assistantID).state)
    BY <2>1, TurnEndedSound
  <2>3. QED
    BY <2>1, <2>2, TransitionSound DEF dispatch
<1>2. CASE e \in ContextLoadedEvent
  <2>1. e.type = "CONTEXT_LOADED" /\ e.turn \in TurnFact /\ e.originUserID \in Nullable(User)
    BY <1>2 DEF ContextLoadedEvent
  <2>2. s.phase = "OBSERVING" => Sound(onContextLoaded(s, e.turn, e.originUserID).state)
    BY <2>1, ContextLoadedSound
  <2>3. QED
    BY <2>1, <2>2, AcceptedPhases, TransitionSound DEF dispatch
<1>3. CASE e \in VerdictEvent
  <2>1. e.type = "VERDICT" /\ e.decision \in VerdictDecision /\ e.originUserID \in Nullable(User)
    BY <1>3 DEF VerdictEvent
  <2>2. s.phase = "CLASSIFYING" => Sound(onVerdict(s, e.decision, e.originUserID).state)
    BY <2>1, VerdictSound
  <2>3. QED
    BY <2>1, <2>2, AcceptedPhases, TransitionSound DEF dispatch
<1>4. CASE e \in NewUserCycleEvent
  <2>1. /\ e.type = "NEW_USER_CYCLE" /\ e.originUserID \in Nullable(User)
        /\ e.sameBranch \in BOOLEAN
    BY <1>4 DEF NewUserCycleEvent
  <2>2. Sound(onNewUserCycle(s, e.originUserID, e.sameBranch).state)
    BY <2>1, NewUserCycleSound
  <2>3. QED
    BY <2>1, <2>2, TransitionSound DEF dispatch
<1>5. CASE e \in ReplayEvent
  <2>1. e.type = "REPLAY" /\ e.turn \in TurnFact
    BY <1>5 DEF ReplayEvent
  <2>2. s.phase \in {"IDLE", "ERROR"} => Sound(onReplay(s, e.turn).state)
    BY <2>1, ReplaySound
  <2>3. QED
    BY <2>1, <2>2, AcceptedPhases, TransitionSound DEF dispatch
<1>6. QED
  BY <1>1, <1>2, <1>3, <1>4, <1>5

-----------------------------------------------------------------------------
(* What a transition may do to the duplicate mark and to the blocker.       *)

\* From s to t the duplicate mark stays, moves to the assistant whose verdict
\* ended its moderation, or is lost by an effect error.
MarkStep(s, t) ==
  t.lastTerminalAssistantID # s.lastTerminalAssistantID =>
    \/ /\ s.phase = "CLASSIFYING"
       /\ t.phase = "IDLE"
       /\ t.lastTerminalAssistantID = s.inflightAssistantID
       /\ t.lastTerminalAssistantID # None
    \/ t.phase = "ERROR" /\ t.lastTerminalAssistantID = None

\* An event whose handler moves the mark as it may, in the phases that accept it,
\* does so in every phase.
LEMMA TransitionMark ==
  ASSUME NEW s, NEW e,
         s.phase \in EVENT_PHASES[e.type] => MarkStep(s, dispatch(s, e).state)
  PROVE  MarkStep(s, transition(s, e).state)
  BY DEF transition, result, MarkStep

\* Ending a moderation marks its assistant.
LEMMA TerminalMark ==
  ASSUME NEW s, Sound(s), s.phase = "CLASSIFYING"
  PROVE  /\ terminalState(s) \in ModerationState
         /\ terminalState(s).phase = "IDLE"
         /\ terminalState(s).lastTerminalAssistantID = s.inflightAssistantID
         /\ s.inflightAssistantID # None
<1>1. terminalState(s) \in ModerationState
  BY TerminalSound DEF Sound
<1>2. QED
  BY <1>1 DEF Sound, terminalState, ModerationState

\* A verdict marks the assistant it ends, or leaves the mark alone.
LEMMA VerdictMark ==
  ASSUME NEW s, Sound(s), s.phase = "CLASSIFYING",
         NEW d \in VerdictDecision, NEW u \in Nullable(User)
  PROVE  MarkStep(s, onVerdict(s, d, u).state)
<1> DEFINE t == terminalState(s)
<1>1. /\ t \in ModerationState
      /\ t.phase = "IDLE"
      /\ t.lastTerminalAssistantID = s.inflightAssistantID
      /\ s.inflightAssistantID # None
  BY TerminalMark
<1> HIDE DEF t
<1>2. MarkStep(s, t)
  BY <1>1 DEF MarkStep
<1>3. MarkStep(s, [t EXCEPT !.blocker = BlockerFor(s, "agent-blocked", u)])
  BY <1>1 DEF MarkStep, ModerationState
<1>4. ASSUME NEW n \in Nat
      PROVE  MarkStep(s, [s EXCEPT !.phase = "IDLE", !.consecutiveNoProgressCount = n,
                                   !.inflightAssistantID = None])
  BY DEF MarkStep, Sound, ModerationState
<1>5. ASSUME NEW n \in Nat
      PROVE  MarkStep(s, [s EXCEPT !.phase = "CONTINUING", !.consecutiveNoProgressCount = n])
  BY DEF MarkStep, Sound, ModerationState
<1>6. MarkStep(s, onUnfinished(s, d).state)
  <2> DEFINE count == IF d = "AGENT_STALLED" THEN s.consecutiveNoProgressCount + 1
                                             ELSE s.consecutiveNoProgressCount
  <2>1. count \in Nat
    BY DEF Sound, ModerationState
  <2> HIDE DEF count
  <2>2. /\ MarkStep(s, [s EXCEPT !.phase = "IDLE", !.consecutiveNoProgressCount = count,
                                 !.inflightAssistantID = None])
        /\ MarkStep(s, [s EXCEPT !.phase = "CONTINUING",
                                 !.consecutiveNoProgressCount = count])
    BY <2>1, <1>4, <1>5
  <2>3. QED
    BY <2>2, <1>2 DEF onUnfinished, result, count, t
<1>7. QED
  BY <1>2, <1>3, <1>6 DEF onVerdict, result, t, VerdictDecision

\* Every event moves the duplicate mark as MarkStep allows.
LEMMA EventMark ==
  ASSUME NEW s, Sound(s), NEW e,
         \/ e \in PlainEvent({"STATUS_BUSY", "CANCELLED", "CONTINUATION_PERSISTED",
                              "COMPACTION_STARTED", "COMPACTION_COMPLETED",
                              "TRACE_PERSISTED", "EFFECT_ERROR"})
         \/ e \in TurnEndedEvent
         \/ e \in ContextLoadedEvent
         \/ e \in VerdictEvent
         \/ e \in NewUserCycleEvent
         \/ e \in ReplayEvent
  PROVE  MarkStep(s, transition(s, e).state)
<1>0. s \in ModerationState
  BY DEF Sound
<1>1. CASE e.type \in {"STATUS_BUSY", "CANCELLED", "CONTINUATION_PERSISTED",
                       "COMPACTION_STARTED", "COMPACTION_COMPLETED", "TRACE_PERSISTED"}
  <2>1. MarkStep(s, dispatch(s, e).state)
    BY <1>0, <1>1 DEF dispatch, result, MarkStep, ModerationState
  <2>2. QED
    BY <2>1, TransitionMark
<1>2. CASE e.type = "EFFECT_ERROR"
  <2>1. MarkStep(s, onEffectError(s).state)
    BY <1>0 DEF onEffectError, result, MarkStep, ModerationState
  <2>2. QED
    BY <1>2, <2>1, TransitionMark DEF dispatch
<1>3. CASE e \in TurnEndedEvent
  <2>1. MarkStep(s, onTurnEnded(s, e.assistantID).state)
    BY <1>0 DEF onTurnEnded, result, MarkStep, ModerationState
  <2>2. QED
    BY <1>3, <2>1, TransitionMark DEF dispatch, TurnEndedEvent
<1>4. CASE e \in ContextLoadedEvent
  <2> DEFINE next == withContext(s, e.turn, e.originUserID)
  <2>1. next.lastTerminalAssistantID = s.lastTerminalAssistantID
    BY <1>0 DEF withContext, ModerationState
  <2>2. onContextLoaded(s, e.turn, e.originUserID).state.lastTerminalAssistantID
          = s.lastTerminalAssistantID
    BY <1>0, <2>1 DEF onContextLoaded, result, withContext, ModerationState
  <2>3. MarkStep(s, onContextLoaded(s, e.turn, e.originUserID).state)
    BY <2>2 DEF MarkStep
  <2>4. QED
    BY <1>4, <2>3, TransitionMark DEF dispatch, ContextLoadedEvent
<1>5. CASE e \in VerdictEvent
  <2>1. s.phase = "CLASSIFYING" => MarkStep(s, onVerdict(s, e.decision, e.originUserID).state)
    BY <1>5, VerdictMark DEF VerdictEvent
  <2>2. QED
    BY <1>5, <2>1, AcceptedPhases, TransitionMark DEF dispatch, VerdictEvent
<1>6. CASE e \in NewUserCycleEvent
  <2>1. MarkStep(s, onNewUserCycle(s, e.originUserID, e.sameBranch).state)
    BY <1>0 DEF onNewUserCycle, result, MarkStep, ModerationState
  <2>2. QED
    BY <1>6, <2>1, TransitionMark DEF dispatch, NewUserCycleEvent
<1>7. CASE e \in ReplayEvent
  <2>1. MarkStep(s, onReplay(s, e.turn).state)
    BY <1>0 DEF onReplay, result, MarkStep, ModerationState
  <2>2. QED
    BY <1>7, <2>1, TransitionMark DEF dispatch, ReplayEvent
<1>8. QED
  BY <1>1, <1>2, <1>3, <1>4, <1>5, <1>6, <1>7 DEF PlainEvent

\* The events that carry nothing, the end of a turn and a replay keep the blocker.
LEMMA BlockerKept ==
  ASSUME NEW s \in ModerationState, NEW e,
         \/ e \in PlainEvent({"STATUS_BUSY", "CANCELLED", "CONTINUATION_PERSISTED",
                              "COMPACTION_STARTED", "COMPACTION_COMPLETED",
                              "TRACE_PERSISTED", "EFFECT_ERROR"})
         \/ e \in TurnEndedEvent
         \/ e \in ReplayEvent
  PROVE  transition(s, e).state.blocker = s.blocker
<1>1. CASE e.type \in {"STATUS_BUSY", "CANCELLED", "CONTINUATION_PERSISTED",
                       "COMPACTION_STARTED", "COMPACTION_COMPLETED", "TRACE_PERSISTED"}
  BY <1>1 DEF transition, dispatch, result, ModerationState
<1>2. CASE e.type = "EFFECT_ERROR"
  BY <1>2 DEF transition, dispatch, result, onEffectError, ModerationState
<1>3. CASE e.type = "TURN_ENDED"
  BY <1>3 DEF transition, dispatch, result, onTurnEnded, ModerationState
<1>4. CASE e.type = "REPLAY"
  BY <1>4 DEF transition, dispatch, result, onReplay, ModerationState
<1>5. QED
  BY <1>1, <1>2, <1>3, <1>4 DEF PlainEvent, TurnEndedEvent, ReplayEvent

\* A new cycle resets the count whatever it does to the blocker.
LEMMA CycleResets ==
  ASSUME NEW s \in ModerationState, NEW e \in NewUserCycleEvent
  PROVE  transition(s, e).state.consecutiveNoProgressCount = 0
<1>1. s.phase \in EVENT_PHASES["NEW_USER_CYCLE"]
  BY DEF EVENT_PHASES, ModerationState
<1>2. e.type = "NEW_USER_CYCLE"
  BY DEF NewUserCycleEvent
<1>3. transition(s, e) = onNewUserCycle(s, e.originUserID, e.sameBranch)
  BY <1>1, <1>2 DEF transition, dispatch
<1>4. ASSUME NEW u, NEW same \in BOOLEAN
      PROVE  onNewUserCycle(s, u, same).state.consecutiveNoProgressCount = 0
  BY DEF onNewUserCycle, result, ModerationState
<1>5. e.sameBranch \in BOOLEAN
  BY DEF NewUserCycleEvent
<1>6. QED
  BY <1>3, <1>4, <1>5

\* A loaded context drops the blocker only with the count: for a new cycle.
LEMMA ContextDropsBlockerWithCount ==
  ASSUME NEW s \in ModerationState, NEW e \in ContextLoadedEvent,
         s.blocker # None, transition(s, e).state.blocker = None
  PROVE  transition(s, e).state.consecutiveNoProgressCount = 0
<1> DEFINE next == withContext(s, e.turn, e.originUserID)
           out == onContextLoaded(s, e.turn, e.originUserID).state
<1>1. /\ e.type = "CONTEXT_LOADED"
      /\ e.turn \in TurnFact
      /\ e.originUserID \in Nullable(User)
  BY DEF ContextLoadedEvent
<1>2. /\ e.turn.assistantID \in Nullable(Assistant)
      /\ e.turn.newCycle \in BOOLEAN
      /\ e.turn.blockerDiscussion \in BOOLEAN
  BY <1>1 DEF TurnFact
<1>3. transition(s, e).state \in {s, out}
  BY <1>1 DEF transition, dispatch, result
<1>4. transition(s, e).state = out
  BY <1>3
<1>5. next \in ModerationState
  BY <1>1, WithContextType
<1>6. next.blocker = None => next.consecutiveNoProgressCount = 0
  BY <1>1, WithContextType
<1>7. BlockerFor(next, "operator-handoff", e.originUserID) # None
  <2>1. BlockerFor(next, "operator-handoff", e.originUserID) \in Blocker
    BY <1>1, <1>5 DEF BlockerFor, Blocker, BLOCKER_SOURCES, ModerationState, Nullable
  <2>2. QED
    BY <2>1, BlockerAssumption
<1> HIDE DEF next
<1>8. /\ out.consecutiveNoProgressCount = next.consecutiveNoProgressCount
      /\ \/ out.blocker = next.blocker
         \/ out.blocker = BlockerFor(next, "operator-handoff", e.originUserID)
  BY <1>5 DEF onContextLoaded, result, next, ModerationState
<1>9. QED
  BY <1>4, <1>6, <1>7, <1>8
=============================================================================
