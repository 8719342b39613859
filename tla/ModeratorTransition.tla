------------------------- MODULE ModeratorTransition -------------------------
(***************************************************************************)
(* The response moderator's transition function (moderator/src/fsm.ts):    *)
(* transition(state, event) and the handlers it dispatches to, as pure     *)
(* operators.                                                              *)
(*                                                                         *)
(* Abstractions.  Every outcome carries exactly one WRITE_DECISION effect, *)
(* which the adapter performs as a no-op (the audit record is written from *)
(* the outcome itself): it is the field "decision" here.  At most one      *)
(* SHOW_TOAST is among the effects, which the adapter does not await: it is *)
(* the field "toast", "" when there is none.  "effects" are the others, in *)
(* order.  A TurnFact keeps what the machine reads: its eligibility flags  *)
(* as the set of the rows that match, and the facts rootBlocked,           *)
(* blockerDiscussion and newCycle.  pendingContext and compactionActive    *)
(* are left out: the machine sets and clears them and nothing reads them,  *)
(* so the compaction events keep the rest of the state.                    *)
(***************************************************************************)
EXTENDS Integers, Sequences

CONSTANTS
  Assistant,         \* identities of assistant messages
  User,              \* identities of real user messages
  None,              \* the code's null
  FlagSets,          \* the sets of eligibility rows a turn may match
  ESCALATION_LIMIT   \* three in the code

PHASES == {"IDLE", "OBSERVING", "CLASSIFYING", "CONTINUING", "ERROR"}
BLOCKER_SOURCES == {"operator-handoff", "agent-blocked"}
VerdictDecision ==
  {"AGENT_COMPLETE", "AGENT_CONTINUING", "AGENT_STALLED", "AGENT_BLOCKED", "AGENT_STOPPED"}

\* The rows of the eligibility table in the order they are tried: flag, decision.
ELIGIBILITY ==
  << <<"nonterminal",     "ignored-nonterminal">>,
     <<"assistant-error", "ignored-assistant-error">>,
     <<"plan-mode",       "ignored-plan-mode">>,
     <<"compaction",      "ignored-compaction">>,
     <<"newer-user",      "ignored-newer-user">>,
     <<"moderator-trace", "ignored-moderator-trace">>,
     <<"duplicate",       "ignored-duplicate">> >>

Flags == {ELIGIBILITY[i][1] : i \in 1..7}

ASSUME FsmAssumption ==
  /\ None \notin Assistant
  /\ None \notin User
  /\ FlagSets \subseteq SUBSET Flags
  /\ ESCALATION_LIMIT \in Nat \ {0}

-----------------------------------------------------------------------------
(* State *)

Nullable(S) == S \union {None}
Blocker == [source : BLOCKER_SOURCES, originUserID : Nullable(User)]

ASSUME BlockerAssumption == None \notin Blocker

ModerationState ==
  [phase                      : PHASES,
   inflightAssistantID        : Nullable(Assistant),
   lastTerminalAssistantID    : Nullable(Assistant),
   realUserCycleID            : Nullable(User),
   consecutiveNoProgressCount : Nat,
   blocker                    : Nullable(Blocker)]

\* Mutation: the count is left out of the initial state.
initialStateWithoutCount ==
  [phase |-> "IDLE", inflightAssistantID |-> None, lastTerminalAssistantID |-> None,
   realUserCycleID |-> None, consecutiveNoProgressCount |-> None, blocker |-> None]

createInitialState ==
  [phase |-> "IDLE", inflightAssistantID |-> None, lastTerminalAssistantID |-> None,
   realUserCycleID |-> None, consecutiveNoProgressCount |-> 0, blocker |-> None]

\* What a restarted plugin makes of the snapshot it finds on disk.
normalizeRestoredState(s) ==
  [s EXCEPT !.phase = "IDLE", !.inflightAssistantID = None,
            !.lastTerminalAssistantID = IF s.phase = "CLASSIFYING" THEN None ELSE @]

-----------------------------------------------------------------------------
(* Events *)

EVENT_PHASES ==
  [STATUS_BUSY            |-> PHASES,
   TURN_ENDED             |-> {"OBSERVING"},
   CONTEXT_LOADED         |-> {"OBSERVING"},
   VERDICT                |-> {"CLASSIFYING"},
   CANCELLED              |-> {"CLASSIFYING", "CONTINUING"},
   CONTINUATION_PERSISTED |-> {"CONTINUING"},
   NEW_USER_CYCLE         |-> PHASES,
   COMPACTION_STARTED     |-> PHASES,
   COMPACTION_COMPLETED   |-> PHASES,
   TRACE_PERSISTED        |-> PHASES,
   EFFECT_ERROR           |-> PHASES,
   REPLAY                 |-> {"IDLE", "ERROR"}]

\* A transcript without an assistant message gives no assistant, and then the
\* turn is not terminal.
TurnFact ==
  {t \in [assistantID : Nullable(Assistant), flags : FlagSets, rootBlocked : BOOLEAN,
          blockerDiscussion : BOOLEAN, newCycle : BOOLEAN] :
     t.assistantID = None => "nonterminal" \in t.flags}

PlainEvent(types) == [type : types]
TurnEndedEvent == [type : {"TURN_ENDED"}, assistantID : Nullable(Assistant)]
ContextLoadedEvent ==
  [type : {"CONTEXT_LOADED"}, turn : TurnFact, originUserID : Nullable(User)]
VerdictEvent ==
  [type : {"VERDICT"}, decision : VerdictDecision, originUserID : Nullable(User)]
NewUserCycleEvent ==
  [type : {"NEW_USER_CYCLE"}, originUserID : Nullable(User), sameBranch : BOOLEAN]
ReplayEvent == [type : {"REPLAY"}, turn : TurnFact]

-----------------------------------------------------------------------------
(* Outcomes *)

Effect(type) == [type |-> type]
classify == Effect("CLASSIFY")
trace == Effect("WRITE_TRACE")
sendContinuation == Effect("SEND_CONTINUATION")
verifyPrompt == Effect("VERIFY_PROMPT")
loadContext == Effect("LOAD_CONTEXT")

result(s, decision, toast, effects) ==
  [state |-> s, decision |-> decision, toast |-> toast, effects |-> effects]

\* The first row of the table the turn matches; the caller knows there is one.
eligibilitySkip(turn) ==
  ELIGIBILITY[CHOOSE i \in 1..7 : /\ ELIGIBILITY[i][1] \in turn.flags
                                  /\ \A j \in 1..(i - 1) : ELIGIBILITY[j][1] \notin turn.flags][2]

withContext(s, turn, originUserID) ==
  [s EXCEPT
     !.inflightAssistantID = IF turn.assistantID # None THEN turn.assistantID ELSE @,
     !.realUserCycleID = IF originUserID # None THEN originUserID ELSE @,
     !.consecutiveNoProgressCount = IF turn.newCycle THEN 0 ELSE @,
     !.blocker = IF turn.newCycle /\ ~turn.blockerDiscussion THEN None ELSE @]

terminalState(s) ==
  [s EXCEPT
     !.phase = "IDLE",
     !.inflightAssistantID = None,
     !.lastTerminalAssistantID = IF s.inflightAssistantID # None THEN s.inflightAssistantID ELSE @,
     !.blocker = None,
     !.consecutiveNoProgressCount = 0]

onTurnEnded(s, assistantID) ==
  result([s EXCEPT !.phase = "OBSERVING", !.inflightAssistantID = assistantID],
         "status-busy", "", <<loadContext>>)

BlockerFor(s, source, originUserID) ==
  [source |-> source,
   originUserID |-> IF originUserID # None THEN originUserID ELSE s.realUserCycleID]

\* withContext, then the first of four cases: skipped, operator handoff, inside
\* the scope of a blocker, classify.
onContextLoaded(s, turn, originUserID) ==
  LET next == withContext(s, turn, originUserID)
      idle == [next EXCEPT !.phase = "IDLE"]
  IN  CASE turn.flags # {} -> result(idle, eligibilitySkip(turn), "", <<>>)
        [] turn.flags = {} /\ turn.rootBlocked ->
             result([idle EXCEPT !.blocker = BlockerFor(next, "operator-handoff", originUserID)],
                    "root-handoff", "operator-handoff", <<trace>>)
        [] turn.flags = {} /\ ~turn.rootBlocked /\ turn.blockerDiscussion ->
             result(idle, "blocker-discussion", "", <<>>)
        [] OTHER ->
             result([next EXCEPT !.phase = "CLASSIFYING"], "checking",
                    "checking", <<classify>>)

\* Mutation: the limit is compared with > instead of >=.
unfinishedPastLimit(s, decision) ==
  LET count == IF decision = "AGENT_STALLED" THEN s.consecutiveNoProgressCount + 1
                                             ELSE s.consecutiveNoProgressCount
  IN  IF count > ESCALATION_LIMIT
      THEN result([s EXCEPT !.phase = "IDLE", !.inflightAssistantID = None],
                  "moderation-escalated", "escalated", <<>>)
      ELSE result([s EXCEPT !.phase = "CONTINUING", !.consecutiveNoProgressCount = count],
                  "moderation-continue",
                  "continuing", <<trace, sendContinuation>>)

\* A verdict that asks for more work, outside any blocker: escalate at the
\* limit, else prompt the agent.
onUnfinished(s, decision) ==
  LET count == IF decision = "AGENT_STALLED" THEN s.consecutiveNoProgressCount + 1
                                             ELSE s.consecutiveNoProgressCount
  IN  CASE s.consecutiveNoProgressCount >= ESCALATION_LIMIT ->
             result(terminalState(s), "moderation-escalated", "escalated", <<>>)
        [] /\ s.consecutiveNoProgressCount < ESCALATION_LIMIT
           /\ count >= ESCALATION_LIMIT ->
             result([s EXCEPT !.phase = "IDLE", !.consecutiveNoProgressCount = count,
                              !.inflightAssistantID = None],
                    "moderation-escalated", "escalated", <<>>)
        [] OTHER ->
             result([s EXCEPT !.phase = "CONTINUING", !.consecutiveNoProgressCount = count],
                    "moderation-continue",
                    "continuing", <<trace, sendContinuation>>)

onVerdict(s, decision, originUserID) ==
  LET terminal == terminalState(s)
  IN  CASE \/ decision = "AGENT_COMPLETE"
           \/ decision \in {"AGENT_CONTINUING", "AGENT_STALLED"} /\ s.blocker # None ->
             result(terminal, "moderation-complete", "complete", <<trace>>)
        [] decision = "AGENT_BLOCKED" ->
             result([terminal EXCEPT !.blocker = BlockerFor(s, "agent-blocked", originUserID)],
                    "moderation-agent-blocked", "agent-blocked", <<trace>>)
        [] decision = "AGENT_STOPPED" ->
             result(terminal, "moderation-user-stop", "user-stop", <<>>)
        [] OTHER -> onUnfinished(s, decision)

\* Mutation: the phase of a superseded classification is kept.
newUserCycleKeepsPhase(s, originUserID, sameBranch) ==
  result([s EXCEPT !.inflightAssistantID = None,
                   !.realUserCycleID = IF originUserID # None THEN originUserID ELSE @,
                   !.consecutiveNoProgressCount = 0,
                   !.blocker = IF sameBranch THEN @ ELSE None],
         "new-user-cycle", "", <<>>)

\* Mutation: the duplicate mark is forgotten with the cycle.
newUserCycleForgetsMark(s, originUserID, sameBranch) ==
  result([s EXCEPT !.phase = IF @ \in {"CLASSIFYING", "CONTINUING"} THEN "IDLE" ELSE @,
                   !.inflightAssistantID = None,
                   !.lastTerminalAssistantID = None,
                   !.consecutiveNoProgressCount = 0,
                   !.blocker = IF sameBranch THEN @ ELSE None],
         "new-user-cycle", "", <<>>)

onNewUserCycle(s, originUserID, sameBranch) ==
  result([s EXCEPT
            !.phase = IF @ \in {"CLASSIFYING", "CONTINUING"} THEN "IDLE" ELSE @,
            !.inflightAssistantID = None,
            !.realUserCycleID = IF originUserID # None THEN originUserID ELSE @,
            !.consecutiveNoProgressCount = 0,
            !.blocker = IF sameBranch THEN @ ELSE None],
         "new-user-cycle", "", <<>>)

\* Mutation: an error resets the blocker with the rest.
effectErrorDropsBlocker(s) ==
  result([s EXCEPT !.phase = "ERROR", !.inflightAssistantID = None, !.blocker = None],
         "moderation-error", "error", <<>>)

onEffectError(s) ==
  result([s EXCEPT
            !.phase = "ERROR",
            !.inflightAssistantID = None,
            !.lastTerminalAssistantID = IF @ = s.inflightAssistantID THEN None ELSE @],
         "moderation-error", "error", <<>>)

onReplay(s, turn) ==
  IF turn.assistantID = None \/ turn.flags # {}
  THEN result([s EXCEPT !.phase = "IDLE"],
              IF turn.flags # {} THEN eligibilitySkip(turn) ELSE "ignored-nonterminal", "", <<>>)
  ELSE result([s EXCEPT !.phase = "CLASSIFYING", !.inflightAssistantID = turn.assistantID],
              "checking", "checking", <<classify>>)

dispatch(s, e) ==
  CASE e.type = "STATUS_BUSY" ->
         result([s EXCEPT !.phase = "OBSERVING"], "status-busy", "", <<>>)
    [] e.type = "TURN_ENDED" -> onTurnEnded(s, e.assistantID)
    [] e.type = "CONTEXT_LOADED" -> onContextLoaded(s, e.turn, e.originUserID)
    [] e.type = "VERDICT" -> onVerdict(s, e.decision, e.originUserID)
    [] e.type = "CANCELLED" ->
         result([s EXCEPT !.phase = "IDLE", !.inflightAssistantID = None], "cancelled", "", <<>>)
    [] e.type = "CONTINUATION_PERSISTED" ->
         result([s EXCEPT !.phase = "OBSERVING"], "continuation-persisted", "", <<verifyPrompt>>)
    [] e.type = "NEW_USER_CYCLE" -> onNewUserCycle(s, e.originUserID, e.sameBranch)
    [] e.type = "COMPACTION_STARTED" ->
         result(s, "compaction-started", "", <<>>)
    [] e.type = "COMPACTION_COMPLETED" ->
         result(s, "compaction-completed", "", <<>>)
    [] e.type = "TRACE_PERSISTED" -> result(s, "trace-recorded", "", <<>>)
    [] e.type = "EFFECT_ERROR" -> onEffectError(s)
    [] e.type = "REPLAY" -> onReplay(s, e.turn)

transition(s, e) ==
  IF s.phase \in EVENT_PHASES[e.type]
  THEN dispatch(s, e)
  ELSE result(s, "ignored-outside-phase", "", <<>>)
=============================================================================
