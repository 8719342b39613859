-------------------------- MODULE ModeratorSession --------------------------
(***************************************************************************)
(* One OpenCode session and the moderator's adapter for it                 *)
(* (moderator/src/adapter.ts): the event handlers that run on OpenCode's   *)
(* notifications, the queue with its single drain loop, the effects the    *)
(* drain awaits one after the other, the snapshot on disk, and crashes.    *)
(*                                                                         *)
(* A step is what runs between two awaits.  Of OpenCode, which is external,*)
(* the model has what the adapter sees: the transcript, the busy and idle  *)
(* notifications, and prompts that are accepted before they are visible.   *)
(* Toasts and audit records do not feed back into the drain and are left   *)
(* out here (ToastQueue models the toasts).                                *)
(***************************************************************************)
EXTENDS ModeratorContext, SequencesExt

CONSTANTS
  MaxMessages,    \* bound on the transcript, moderator's own prompts apart
  MaxIdleReads,   \* bound on idle notifications being handled at once
  Budget,         \* bounds on crashes, faults, aborts, compactions, replays, deletions
  FinishedKinds,  \* how a response may end
  UserParents,    \* whether a user message may name the assistant it follows
  Decisions       \* what the classifier may answer

VARIABLES
  msgs,      \* the transcript
  agent,     \* OpenCode's agent loop: idle or busy; gone when the session is deleted
  sending,   \* corrective prompts accepted but not yet in the transcript
  state,     \* session.state
  saved,     \* the snapshot on disk, or None
  restored,  \* session.restored
  queue,     \* session.queue
  pc,        \* where the drain is: off, restore, take, run, judge or send
  todo,      \* effects of the current event that are still to be performed
  ghost,     \* events queued for the session object made after a deletion
  context,   \* session.context, or None
  judging,   \* the context the running classifier call was given, or None
  idles,     \* idle handlers, and replays, between their reads and their events
  verdicts,  \* history: the verdicts the classifier gave, with their assistants
  reopened,  \* history: the assistants an error met in flight again, marked as closed
  cutOff,    \* history: the drain ended with an error of the running classification unreported
  overtaken, \* history: the agent's last start was reported before an earlier idle was read
  budget     \* what is left of the bounds

opencode == <<msgs, agent, sending>>
machine == <<state, saved, restored>>
drain == <<pc, todo, ghost>>
call == <<context, judging>>
plugin == <<machine, queue, drain, call, idles>>
history == <<verdicts, reopened, cutOff, overtaken>>
vars == <<opencode, plugin, history, budget>>

ASSUME SessionAssumption ==
  /\ Assistant = 1..MaxMessages
  /\ User = 1..MaxMessages
  /\ MaxMessages \in Nat /\ MaxIdleReads \in Nat
  /\ Budget \in [{"crash", "fault", "abort", "compact", "replay", "delete"} -> Nat]
  /\ FinishedKinds \subseteq AssistantKinds \ {"open"}
  /\ UserParents \subseteq BOOLEAN
  /\ SUBSET {"nonterminal", "assistant-error", "newer-user", "duplicate"} \subseteq FlagSets
  /\ Decisions \subseteq VerdictDecision

Plain(type) == [type |-> type]

Init ==
  /\ msgs = <<>> /\ agent = "idle" /\ sending = 0
  /\ state = createInitialState /\ saved = None /\ restored = FALSE
  /\ queue = <<>> /\ pc = "off" /\ todo = <<>> /\ ghost = <<>> /\ context = None /\ judging = None
  /\ idles = <<>> /\ verdicts = <<>> /\ reopened = {}
  /\ cutOff = FALSE /\ overtaken = FALSE /\ budget = Budget

Spend(kind) ==
  /\ budget[kind] > 0
  /\ budget' = [budget EXCEPT ![kind] = @ - 1]

-----------------------------------------------------------------------------
(* The queue *)

\* enqueue starts a drain unless one is running; the first drain restores.
wake == pc' = IF pc # "off" THEN pc ELSE IF restored THEN "take" ELSE "restore"

\* Once the session is deleted the map has no object for it: get makes another.
enqueue(events) ==
  \/ /\ agent # "gone"
     /\ queue' = queue \o events
     /\ wake
     /\ UNCHANGED <<todo, ghost>>
  \/ /\ agent = "gone"
     /\ ghost' = ghost \o events
     /\ UNCHANGED <<queue, pc, todo>>

\* Mutation: the result of an effect waits its turn like a notification.
followUpLast(e) == Append(queue, e)

\* The result of an effect goes in front of everything that waits.
followUp(e) == <<e>> \o queue

\* The drain is in the middle of an event and this effect is next.
Perform(type) ==
  /\ pc = "run"
  /\ todo # <<>>
  /\ Head(todo).type = type

\* The effect is over and its result is queued.
Done(e) ==
  /\ IF agent = "gone"
     THEN ghost' = <<e>> \o ghost /\ UNCHANGED queue
     ELSE queue' = followUp(e) /\ UNCHANGED ghost
  /\ todo' = Tail(todo)
  /\ pc' = "run"

-----------------------------------------------------------------------------
(* Notifications *)

\* The facts an idle handler enqueues: the new cycle if there is one, then the
\* end of the turn.
TurnEvents(ms) ==
  LET loaded == buildContext(ms, state)
      cycle == [type |-> "NEW_USER_CYCLE", originUserID |-> loaded.originUserID,
                sameBranch |-> loaded.turn.blockerDiscussion]
      ended == [type |-> "TURN_ENDED", assistantID |-> loaded.turn.assistantID]
  IN  IF loaded.turn.newCycle THEN <<cycle, ended>> ELSE <<ended>>

statusBusy ==
  /\ enqueue(<<Plain("STATUS_BUSY")>>)
  /\ overtaken' = \E i \in DOMAIN idles : idles[i].stage # "replay"
  /\ UNCHANGED <<machine, call, idles>>

\* An idle notification starts a handler that first reads the transcript.
statusIdle ==
  /\ Len(idles) < MaxIdleReads
  /\ idles' = Append(idles, [stage |-> "asked", snapshot |-> <<>>])
  /\ UNCHANGED <<machine, queue, drain, call>>

IdleReads(i) ==
  /\ idles[i].stage = "asked"
  /\ idles' = [idles EXCEPT ![i] = [stage |-> "read", snapshot |-> msgs]]
  /\ UNCHANGED <<opencode, machine, queue, drain, call, history, budget>>

IdleResumes(i) ==
  /\ idles[i].stage = "read"
  /\ enqueue(TurnEvents(idles[i].snapshot))
  /\ idles' = RemoveAt(idles, i)
  /\ UNCHANGED <<opencode, machine, call, history, budget>>

IdleFails(i) ==
  /\ idles[i].stage # "replay"
  /\ Spend("fault")
  /\ enqueue(<<Plain("EFFECT_ERROR")>>)
  /\ idles' = RemoveAt(idles, i)
  /\ UNCHANGED <<opencode, machine, call, history>>

-----------------------------------------------------------------------------
(* The drain *)

\* Mutation: the snapshot is taken over as it was written.
RestoreAsSaved ==
  /\ pc = "restore"
  /\ restored' = TRUE
  /\ state' = IF saved = None THEN state ELSE saved
  /\ pc' = "take"
  /\ UNCHANGED <<opencode, saved, queue, todo, ghost, call, idles, history, budget>>

Restore ==
  /\ pc = "restore"
  /\ restored' = TRUE
  /\ state' = IF saved = None THEN state ELSE normalizeRestoredState(saved)
  /\ pc' = "take"
  /\ UNCHANGED <<opencode, saved, queue, todo, ghost, call, idles, history, budget>>

\* A snapshot that cannot be read, parsed or accepted ends the drain.  The session
\* counts as restored: the drain that follows takes the first event in the
\* initial state and, after it, replaces the snapshot.
RestoreFails ==
  /\ pc = "restore"
  /\ saved # None
  /\ Spend("fault")
  /\ restored' = TRUE
  /\ pc' = "take"
  /\ UNCHANGED <<opencode, state, saved, queue, todo, ghost, call, idles, history>>

\* Shift an event, apply the transition, and line up the effects to await.
Take ==
  /\ pc = "take"
  /\ LET out == transition(state, Head(queue))
     IN  /\ state' = out.state
         /\ todo' = out.effects
  /\ queue' = Tail(queue)
  /\ pc' = "run"
  /\ reopened' = IF Head(queue).type # "EFFECT_ERROR" THEN reopened
                 ELSE reopened \union ({state.lastTerminalAssistantID} \intersect {state.inflightAssistantID})
  /\ cutOff' = (cutOff /\ state'.phase = "CLASSIFYING")
  /\ UNCHANGED <<opencode, saved, restored, ghost, call, idles, verdicts, overtaken, budget>>

\* Mutation: a context that was loaded before is used again.
LoadContextOnce ==
  /\ Perform("LOAD_CONTEXT")
  /\ LET loaded == buildContext(msgs, state)
     IN  /\ context' = IF context = None THEN loaded ELSE context
         /\ Done([type |-> "CONTEXT_LOADED", turn |-> loaded.turn,
                  originUserID |-> loaded.originUserID])
  /\ UNCHANGED <<opencode, machine, judging, idles, history, budget>>

LoadContext ==
  /\ Perform("LOAD_CONTEXT")
  /\ LET loaded == buildContext(msgs, state)
     IN  /\ context' = loaded
         /\ Done([type |-> "CONTEXT_LOADED", turn |-> loaded.turn,
                  originUserID |-> loaded.originUserID])
  /\ UNCHANGED <<opencode, machine, judging, idles, history, budget>>

\* The classifier is given the session's context when the call starts.
StartClassify ==
  /\ Perform("CLASSIFY")
  /\ pc' = "judge"
  /\ judging' = context
  /\ UNCHANGED <<opencode, machine, queue, todo, ghost, context, idles, history, budget>>

FinishClassify(decision) ==
  /\ pc = "judge"
  /\ Done([type |-> "VERDICT", decision |-> decision, originUserID |-> judging.originUserID])
  /\ verdicts' = Append(verdicts, [assistantID |-> judging.turn.assistantID,
                                   decision |-> decision])
  /\ judging' = None
  /\ UNCHANGED <<opencode, machine, context, idles, reopened, cutOff, overtaken, budget>>

WriteTrace ==
  /\ Perform("WRITE_TRACE")
  /\ Done(Plain("TRACE_PERSISTED"))
  /\ UNCHANGED <<opencode, machine, call, idles, history, budget>>

\* The transcript is read: no second corrective prompt for an assistant.
SendContinuation ==
  /\ Perform("SEND_CONTINUATION")
  /\ \/ /\ alreadyContinued(msgs)
        /\ Done(Plain("EFFECT_ERROR"))
     \/ /\ ~alreadyContinued(msgs)
        /\ pc' = "send"
        /\ UNCHANGED <<queue, todo, ghost>>
  /\ UNCHANGED <<opencode, machine, call, idles, history, budget>>

\* OpenCode accepts the prompt, whatever was written since the transcript was read.
PromptAccepted ==
  /\ pc = "send"
  /\ Done(Plain("CONTINUATION_PERSISTED"))
  /\ sending' = IF agent = "gone" THEN sending ELSE sending + 1
  /\ UNCHANGED <<msgs, agent, machine, call, idles, history, budget>>

\* Polling ends when a corrective prompt is visible, or with the last attempt.
VerifyPrompt ==
  /\ Perform("VERIFY_PROMPT")
  /\ promptVisible(msgs)
  /\ todo' = Tail(todo)
  /\ UNCHANGED <<opencode, machine, queue, pc, ghost, call, idles, history, budget>>

VerifyTimesOut ==
  /\ Perform("VERIFY_PROMPT")
  /\ ~promptVisible(msgs)
  /\ sending = 0
  /\ Done(Plain("EFFECT_ERROR"))
  /\ UNCHANGED <<opencode, machine, call, idles, history, budget>>

\* Any effect may fail; the effects after it still run.
EffectFails ==
  /\ \/ pc = "run" /\ todo # <<>>
     \/ pc \in {"judge", "send"}
  /\ Spend("fault")
  /\ Done(Plain("EFFECT_ERROR"))
  /\ judging' = None
  /\ UNCHANGED <<opencode, machine, context, idles, history>>

\* A case that is too long for the classifier is also written to the transcript;
\* when that fails the drain ends without the error in the queue, the machine
\* still waiting for its verdict, and starts again if events wait.
ErrorTraceFails ==
  /\ pc = "judge"
  /\ Spend("fault")
  /\ todo' = <<>> /\ judging' = None
  /\ pc' = IF queue = <<>> THEN "off" ELSE "take"
  /\ cutOff' = TRUE
  /\ UNCHANGED <<opencode, machine, queue, ghost, context, idles, verdicts, reopened, overtaken>>

\* An accepted prompt that takes longer than the polling does.
VerifyTooSoon ==
  /\ Perform("VERIFY_PROMPT")
  /\ ~promptVisible(msgs)
  /\ sending > 0
  /\ Spend("fault")
  /\ Done(Plain("EFFECT_ERROR"))
  /\ UNCHANGED <<opencode, machine, call, idles, history>>

\* After the last effect the record is appended and the snapshot replaced.
Save ==
  /\ pc = "run" /\ todo = <<>>
  /\ saved' = state
  /\ pc' = IF queue = <<>> THEN "off" ELSE "take"
  /\ UNCHANGED <<opencode, state, restored, queue, todo, ghost, call, idles, history, budget>>

\* A write that fails ends the drain, which starts again if events wait.
SaveFails ==
  /\ pc = "run" /\ todo = <<>>
  /\ Spend("fault")
  /\ pc' = IF queue = <<>> THEN "off" ELSE "take"
  /\ UNCHANGED <<opencode, machine, queue, todo, ghost, call, idles, history>>

\* The object made after a deletion starts from the initial state, the snapshot
\* being gone; that it writes one again is all that matters of it.
GhostSaves ==
  /\ ghost # <<>>
  /\ saved' = transition(createInitialState, Head(ghost)).state
  /\ ghost' = Tail(ghost)
  /\ UNCHANGED <<opencode, state, restored, queue, pc, todo, call, idles, history, budget>>

\* Replay of the newest response, asked for when the plugin starts; its reads
\* may overlap whatever happens then.  Unless forced, OpenCode is first told to
\* revert to before the moderator's message, which removes what follows it and
\* is refused while the agent runs.
ReplayReads(force) ==
  LET a == newestModeratedAssistant(msgs)
      prompts == Following(msgs, {"continuation"})
  IN  /\ agent # "gone"
      /\ Spend("replay")
      /\ a # 0
      /\ msgs[a].kind # "open"
      /\ IF force \/ prompts = {} THEN UNCHANGED msgs
         ELSE agent = "idle" /\ msgs' = SubSeq(msgs, 1, Min(prompts) - 1)
      /\ idles' = Append(idles, [stage |-> "replay", snapshot |-> msgs])
      /\ UNCHANGED <<agent, sending, machine, queue, drain, call, history>>

\* The session's context is replaced at once, the event waits.
ReplayResumes(i) ==
  /\ idles[i].stage = "replay"
  /\ LET loaded == buildContext(idles[i].snapshot, state)
     IN  /\ context' = IF agent = "gone" THEN context ELSE loaded
         /\ enqueue(<< [type |-> "REPLAY", turn |-> loaded.turn] >>)
  /\ idles' = RemoveAt(idles, i)
  /\ UNCHANGED <<opencode, machine, judging, history, budget>>

\* A replay that fails is reported and forgotten.
ReplayFails(i) ==
  /\ idles[i].stage = "replay"
  /\ Spend("fault")
  /\ idles' = RemoveAt(idles, i)
  /\ UNCHANGED <<opencode, machine, queue, drain, call, history>>

-----------------------------------------------------------------------------
(* OpenCode *)

\* A prompt joins the transcript; an idle agent starts on it and says so.
Prompt(kind) ==
  /\ agent # "gone"
  /\ \E named \in UserParents :
       msgs' = Append(msgs, Message(kind, IF named THEN newestModeratedAssistant(msgs) ELSE 0))
  /\ agent' = "busy"
  /\ IF agent = "idle" THEN statusBusy ELSE UNCHANGED <<plugin, overtaken>>
  /\ UNCHANGED <<verdicts, reopened, cutOff>>

UserPrompts ==
  /\ Len(msgs) < MaxMessages
  /\ Prompt("real")
  /\ UNCHANGED <<sending, budget>>

\* OpenCode compacts the transcript, reports it and goes on by itself.
CompactionReported ==
  /\ agent # "gone"
  /\ enqueue(<<Plain("COMPACTION_STARTED"), Plain("COMPACTION_COMPLETED")>>)
  /\ Spend("compact")
  /\ UNCHANGED <<opencode, machine, call, idles, history>>

Autocontinues ==
  /\ Len(msgs) < MaxMessages
  /\ budget["compact"] < Budget["compact"]
  /\ Prompt("autocontinue")
  /\ UNCHANGED <<sending, budget>>

PromptAppears ==
  /\ sending > 0
  /\ Prompt("continuation")
  /\ sending' = sending - 1
  /\ UNCHANGED budget

PromptLost ==
  /\ sending > 0
  /\ Spend("fault")
  /\ sending' = sending - 1
  /\ UNCHANGED <<msgs, agent, plugin, history>>

Unanswered == Following(msgs, PromptKinds)

AgentResponds ==
  /\ agent = "busy"
  /\ Len(msgs) < MaxMessages
  /\ Unanswered # {}
  /\ msgs' = Append(msgs, Message("open", Max(Unanswered)))
  /\ UNCHANGED <<agent, sending, plugin, history, budget>>

\* The response ends; with nothing left to answer the loop ends too.
AgentFinishes(kind) ==
  LET a == newestModeratedAssistant(msgs)
  IN  /\ agent = "busy"
      /\ a # 0
      /\ msgs[a].kind = "open"
      /\ msgs' = [msgs EXCEPT ![a].kind = kind]
      /\ IF Unanswered = {}
         THEN agent' = "idle" /\ statusIdle
         ELSE UNCHANGED <<agent, plugin>>
      /\ UNCHANGED <<sending, history, budget>>

\* The user interrupts: what runs ends with an error, and idle is reported
\* even when nothing ran.
Interrupt ==
  LET a == newestModeratedAssistant(msgs)
  IN  /\ agent # "gone"
      /\ Spend("abort")
      /\ msgs' = [i \in DOMAIN msgs |->
                    IF i = a /\ msgs[i].kind = "open" THEN Message("excluded", msgs[i].parent)
                    ELSE msgs[i]]
      /\ agent' = "idle"
      /\ statusIdle
      /\ UNCHANGED <<sending, history>>

\* session.deleted: the session leaves the map and its directory is removed; a
\* drain that runs goes on with the session object it has.
Deleted ==
  /\ agent # "gone"
  /\ Spend("delete")
  /\ agent' = "gone" /\ sending' = 0
  /\ saved' = None
  /\ UNCHANGED <<msgs, state, restored, queue, drain, call, idles, history>>

\* OpenCode and the plugin in it die and start again from the disk.
Crash ==
  /\ Spend("crash")
  /\ agent' = (IF agent = "gone" THEN "gone" ELSE "idle") /\ sending' = 0
  /\ state' = createInitialState /\ restored' = FALSE
  /\ queue' = <<>> /\ pc' = "off" /\ todo' = <<>> /\ ghost' = <<>> /\ context' = None /\ judging' = None
  /\ idles' = <<>>
  /\ cutOff' = FALSE
  /\ UNCHANGED <<msgs, saved, verdicts, reopened, overtaken>>

-----------------------------------------------------------------------------

PluginStep ==
  \/ Restore
  \/ Take
  \/ LoadContext
  \/ StartClassify
  \/ \E d \in Decisions : FinishClassify(d)
  \/ WriteTrace
  \/ SendContinuation
  \/ PromptAccepted
  \/ VerifyPrompt
  \/ VerifyTimesOut
  \/ Save
  \/ GhostSaves
  \/ \E i \in DOMAIN idles : IdleReads(i) \/ IdleResumes(i) \/ ReplayResumes(i)

PluginFault ==
  \/ RestoreFails
  \/ EffectFails
  \/ ErrorTraceFails
  \/ VerifyTooSoon
  \/ SaveFails
  \/ \E i \in DOMAIN idles : IdleFails(i) \/ ReplayFails(i)
  \/ Crash

SessionStep ==
  \/ \E force \in BOOLEAN : ReplayReads(force)
  \/ UserPrompts
  \/ CompactionReported
  \/ Autocontinues
  \/ PromptAppears
  \/ PromptLost
  \/ AgentResponds
  \/ \E k \in FinishedKinds : AgentFinishes(k)
  \/ Interrupt
  \/ Deleted

Next == PluginStep \/ PluginFault \/ SessionStep

Spec == Init /\ [][Next]_vars

\* The event loop runs the plugin's next continuation sooner or later: file and
\* client calls return, the classifier call has a timeout, polling has a last
\* attempt.  OpenCode delivers a prompt it accepted.  Nothing is assumed of the
\* user and the agent.
FairSpec == Spec /\ WF_vars(PluginStep) /\ WF_vars(PromptAppears)

-----------------------------------------------------------------------------
(* Properties *)

\* Between events, a machine that waits for a verdict or for its corrective
\* prompt has the answer, or the error that replaces it, at the head of the
\* queue: no notification overtakes it, and the drain never stops in
\* CLASSIFYING or CONTINUING while the session lives, unless the error was lost
\* with the trace that should report it (adapter.ts:102-106, 127-140).
AnswerComesNext ==
  pc \in {"off", "take"} /\ agent # "gone" =>
    /\ state.phase = "CLASSIFYING" =>
         cutOff \/ (queue # <<>> /\ Head(queue).type \in {"VERDICT", "EFFECT_ERROR"})
    /\ state.phase = "CONTINUING" =>
         queue # <<>> /\ Head(queue).type \in {"CONTINUATION_PERSISTED", "EFFECT_ERROR"}

\* A verdict that is about to be applied was given for the assistant the machine
\* is classifying, whatever arrived while the classifier ran, a replay excepted
\* (adapter.ts:182-198, fsm.ts:215-226).
VerdictAboutInflight ==
  pc = "take" /\ state.phase = "CLASSIFYING" /\ Head(queue).type = "VERDICT" =>
    Last(verdicts).assistantID = state.inflightAssistantID

\* A verdict that closes an assistant is final: no later notification or
\* repeated idle gets that assistant classified again, although its mark is only
\* one field that the next turn overwrites; only an error that comes while the
\* assistant is in flight again does (fsm.ts:114, 220, adapter.ts:337).
Closing == {"AGENT_COMPLETE", "AGENT_BLOCKED", "AGENT_STOPPED"}
ClosedTurnStaysClosed ==
  \A i, j \in DOMAIN verdicts :
    i < j /\ verdicts[i].decision \in Closing =>
      \/ verdicts[i].assistantID # verdicts[j].assistantID
      \/ verdicts[i].assistantID \in reopened

\* A response that ended, with nobody having written since, gets a verdict
\* unless it stands in the scope of a blocker, or its start was reported before
\* the idle notification of an earlier turn was read: that one's TURN_ENDED may
\* use up the phase in which its own would count (adapter.ts:264-279, 108-149).
Ended(a) ==
  /\ agent = "idle"
  /\ a = newestModeratedAssistant(msgs)
  /\ msgs[a].kind = "stop"
  /\ Following(msgs, PromptKinds) = {}

Judged(a) == \E v \in ToSet(verdicts) : v.assistantID = a

InBlockerScope(a) ==
  /\ state.blocker # None
  /\ inBranch(msgs, realUserAncestor(msgs, a), state.blocker.originUserID)

FinishedTurnDecided ==
  \A a \in Assistant : Ended(a) ~> (~Ended(a) \/ Judged(a) \/ InBlockerScope(a) \/ overtaken)

\* Every change the adapter makes to a session's state, restores included, is a
\* step of the state machine: the machine's theorems hold of the session.
FSM ==
  INSTANCE ModeratorFSM WITH
    state <- IF restored THEN state
             ELSE IF saved = None THEN createInitialState
             ELSE normalizeRestoredState(saved)
ImplementsFSM == FSM!Spec

\* The assertion of sendContinuation (adapter.ts:214): a corrective prompt "was
\* not sent because a moderator continuation already follows the assistant".
OneContinuationPerTurn ==
  \A i, j \in Positions(msgs, {"continuation"}) :
    i < j => \E a \in Positions(msgs, AssistantKinds) : i < a /\ a < j

\* Requirements 61 and 63: a continuing verdict resets the count, and three
\* consecutive stalled verdicts escalate.
Escalates ==
  /\ Take
  /\ transition(state, Head(queue)).decision = "moderation-escalated"
EscalatesAfterConsecutiveStalls ==
  [][Escalates =>
       /\ Len(verdicts) >= ESCALATION_LIMIT
       /\ \A i \in (Len(verdicts) - ESCALATION_LIMIT + 1)..Len(verdicts) :
            verdicts[i].decision = "AGENT_STALLED"]_vars
=============================================================================
