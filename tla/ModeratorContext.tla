-------------------------- MODULE ModeratorContext --------------------------
(***************************************************************************)
(* What the moderator derives from a transcript (moderator/src/context.ts  *)
(* and buildContext in adapter.ts): the judged assistant, its real user    *)
(* ancestor, and the facts of the turn.                                    *)
(*                                                                         *)
(* A transcript is a sequence of messages; a message is named by its       *)
(* position, and its parent is an earlier position or 0.  Text is reduced  *)
(* to what the derivations tell apart:                                     *)
(*   real          a user's own message                                    *)
(*   continuation  the moderator's synthetic corrective prompt             *)
(*   autocontinue  OpenCode's synthetic message after a compaction         *)
(*   open          an assistant message that has not finished              *)
(*   stop          a finished response                                     *)
(*   root          a finished response with a fenced sudo command          *)
(*   excluded      a finished response of an error, a plan or a compaction *)
(* The moderator's own status lines are left out: they prompt nobody and   *)
(* every derivation here skips them.                                       *)
(***************************************************************************)
EXTENDS ModeratorTransition, FiniteSets, FiniteSetsExt

PromptKinds == {"real", "continuation", "autocontinue"}
AssistantKinds == {"open", "stop", "root", "excluded"}

Message(kind, parent) == [kind |-> kind, parent |-> parent]

Positions(ms, kinds) == {i \in DOMAIN ms : ms[i].kind \in kinds}

\* The newest assistant message, 0 when there is none.
newestModeratedAssistant(ms) == Max({0} \union Positions(ms, AssistantKinds))

Following(ms, kinds) == {i \in Positions(ms, kinds) : i > newestModeratedAssistant(ms)}

\* The walk along parents to the nearest message a user wrote.
realUserAncestor(ms, from) ==
  LET walk[i \in 0..Len(ms)] ==
        IF i = 0 THEN None
        ELSE IF ms[i].kind = "real" THEN i
        ELSE walk[ms[i].parent]
  IN  walk[from]

\* Whether the walk along parents from a message meets the origin.
inBranch(ms, from, origin) ==
  LET meets[i \in 0..Len(ms)] ==
        i # 0 /\ (i = origin \/ meets[ms[i].parent])
  IN  from # None /\ origin # None /\ meets[from]

\* Mutation: an assistant that is in flight counts as a duplicate.
eligibilityFlagsInflight(ms, s) ==
  LET a == newestModeratedAssistant(ms)
  IN  {f \in {"nonterminal", "assistant-error", "newer-user", "duplicate"} :
         \/ f = "nonterminal" /\ (a = 0 \/ (a # 0 /\ ms[a].kind = "open"))
         \/ f = "assistant-error" /\ a # 0 /\ ms[a].kind = "excluded"
         \/ f = "newer-user" /\ a # 0 /\ Following(ms, {"real", "autocontinue"}) # {}
         \/ f = "duplicate" /\ a # 0 /\ a \in {s.lastTerminalAssistantID, s.inflightAssistantID}}

\* Mutation: a repeated assistant is not recognised.
eligibilityFlagsAfresh(ms, s) ==
  LET a == newestModeratedAssistant(ms)
  IN  {f \in {"nonterminal", "assistant-error", "newer-user"} :
         \/ f = "nonterminal" /\ (a = 0 \/ (a # 0 /\ ms[a].kind = "open"))
         \/ f = "assistant-error" /\ a # 0 /\ ms[a].kind = "excluded"
         \/ f = "newer-user" /\ a # 0 /\ Following(ms, {"real", "autocontinue"}) # {}}

\* The eligibility rows the newest assistant matches.  Messages OpenCode
\* injects after a compaction count as newer user messages, the moderator's own
\* do not.
eligibilityFlags(ms, s) ==
  LET a == newestModeratedAssistant(ms)
  IN  {f \in {"nonterminal", "assistant-error", "newer-user", "duplicate"} :
         \/ f = "nonterminal" /\ (a = 0 \/ (a # 0 /\ ms[a].kind = "open"))
         \/ f = "assistant-error" /\ a # 0 /\ ms[a].kind = "excluded"
         \/ f = "newer-user" /\ a # 0 /\ Following(ms, {"real", "autocontinue"}) # {}
         \/ f = "duplicate" /\ a # 0 /\ a = s.lastTerminalAssistantID}

buildContext(ms, s) ==
  LET a == newestModeratedAssistant(ms)
      origin == realUserAncestor(ms, a)
  IN  [turn |->
         [assistantID |-> IF a = 0 THEN None ELSE a,
          flags |-> eligibilityFlags(ms, s),
          rootBlocked |-> a # 0 /\ ms[a].kind = "root",
          blockerDiscussion |-> /\ s.blocker # None
                                /\ inBranch(ms, origin, s.blocker.originUserID),
          newCycle |-> origin # None /\ origin # s.realUserCycleID],
       originUserID |-> origin]

\* A corrective prompt already follows the newest assistant.
alreadyContinued(ms) ==
  /\ newestModeratedAssistant(ms) # 0
  /\ Following(ms, {"continuation"}) # {}

\* VERIFY_PROMPT looks for any corrective prompt in the whole session.
promptVisible(ms) == Positions(ms, {"continuation"}) # {}
=============================================================================
