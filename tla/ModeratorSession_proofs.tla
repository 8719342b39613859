----------------------- MODULE ModeratorSession_proofs -----------------------
(***************************************************************************)
(* What a moderated session guarantees for transcripts, bounds and         *)
(* escalation limits of any size.                                          *)
(***************************************************************************)
EXTENDS ModeratorSession, ModeratorTransition_proofs, WellFoundedInduction

-----------------------------------------------------------------------------
(* Transcripts and what is derived from them.                               *)

\* A parent is an earlier message; the bound counts what users and the agent write.
Msg == [kind : PromptKinds \union AssistantKinds, parent : Nat]
Transcript(ms) ==
  /\ ms \in Seq(Msg)
  /\ \A i \in 1..Len(ms) :
       /\ ms[i].parent < i
       /\ ms[i].kind \in AssistantKinds \union {"real"} => i <= MaxMessages

\* A set of naturals that is not empty has a least element.
LEMMA LeastExists ==
  ASSUME NEW S \in SUBSET Nat, S # {}
  PROVE  \E n \in S : \A m \in S : n <= m
<1>1. \E n \in S : \A m \in S : ~(<<m, n>> \in OpToRel(<, Nat))
  BY NatLessThanWellFounded, WFMin
<1>2. \A m, n \in Nat : m < n => <<m, n>> \in OpToRel(<, Nat)
  BY DEF OpToRel
<1>3. PICK n \in S : \A m \in S : ~(<<m, n>> \in OpToRel(<, Nat))
  BY <1>1
<1>4. \A m \in S : ~(m < n)
  BY <1>2, <1>3
<1> QED
  BY <1>4

\* A bounded one has a greatest element.
LEMMA MaxIsGreatest ==
  ASSUME NEW S \in SUBSET Nat, S # {}, NEW b \in Nat, \A x \in S : x <= b
  PROVE  Max(S) \in S /\ \A x \in S : x <= Max(S)
<1> DEFINE bounds == {n \in Nat : \A x \in S : x <= n}
<1>1. PICK n \in bounds : \A m \in bounds : n <= m
  BY LeastExists
<1>2. n \in S
  <2> SUFFICES ASSUME n \notin S PROVE FALSE
    OBVIOUS
  <2>1. n \in Nat /\ \A x \in S : x \in Nat /\ x <= n /\ x # n
    OBVIOUS
  <2>2. PICK x \in S : TRUE
    OBVIOUS
  <2>3. n # 0 /\ \A y \in S : y <= n - 1
    BY <2>1, <2>2
  <2>4. n - 1 \in bounds
    BY <2>1, <2>3
  <2> QED
    BY <1>1, <2>1, <2>4
<1>3. \E m \in S : \A x \in S : m >= x
  BY <1>1, <1>2
<1> QED
  BY <1>3 DEF Max

LEMMA MinIsLeast ==
  ASSUME NEW S \in SUBSET Nat, S # {}
  PROVE  Min(S) \in S /\ \A x \in S : Min(S) <= x
BY LeastExists DEF Min

\* The newest assistant message is one, and none is newer.
LEMMA Newest ==
  ASSUME NEW ms, Transcript(ms)
  PROVE  LET a == newestModeratedAssistant(ms)
         IN  /\ a \in 0..Len(ms)
             /\ a <= MaxMessages
             /\ a # 0 => ms[a].kind \in AssistantKinds
             /\ \A i \in 1..Len(ms) : ms[i].kind \in AssistantKinds => i <= a
<1> DEFINE S == {0} \union Positions(ms, AssistantKinds)
<1>1. ms \in Seq(Msg) /\ Len(ms) \in Nat
      /\ DOMAIN ms = 1..Len(ms)
  BY DEF Transcript
<1>2. /\ S \in SUBSET Nat /\ S # {} /\ \A x \in S : x <= Len(ms)
      /\ \A x \in S : x = 0 \/ (x \in 1..Len(ms) /\ ms[x].kind \in AssistantKinds)
      /\ \A x \in 1..Len(ms) : ms[x].kind \in AssistantKinds => x \in S
  BY <1>1 DEF Positions
<1> HIDE DEF S
<1>3. Max(S) \in S /\ \A x \in S : x <= Max(S)
  BY <1>1, <1>2, MaxIsGreatest
<1>4. MaxMessages \in Nat
  BY SessionAssumption
<1>5. newestModeratedAssistant(ms) = Max(S)
  BY DEF newestModeratedAssistant, S
<1> DEFINE a == newestModeratedAssistant(ms)
<1>6. a \in S /\ \A x \in S : x <= a
  BY <1>3, <1>5
<1> HIDE DEF a
<1>7. a \in 0..Len(ms) /\ (a # 0 => a \in 1..Len(ms) /\ ms[a].kind \in AssistantKinds)
  BY <1>1, <1>2, <1>6
<1>8. a <= MaxMessages
  BY <1>4, <1>7 DEF Transcript
<1>9. \A i \in 1..Len(ms) : ms[i].kind \in AssistantKinds => i <= a
  BY <1>2, <1>6
<1> QED
  BY <1>7, <1>8, <1>9 DEF a

\* One step of the walk to the ancestor, and the walk up to a message.
AncestorStep(ms, w, i) ==
  IF i = 0 THEN None ELSE IF ms[i].kind = "real" THEN i ELSE w[ms[i].parent]
Walks(ms, w, n) == w = [i \in 0..n |-> AncestorStep(ms, w, i)]

LEMMA ParentIsEarlier ==
  ASSUME NEW ms, Transcript(ms), NEW i \in 1..Len(ms)
  PROVE  ms[i].parent \in 0..(i - 1)
<1>1. ms \in Seq(Msg) /\ i \in Nat
  BY DEF Transcript
<1>2. ms[i] \in Msg
  BY <1>1
<1>3. ms[i].parent \in Nat /\ ms[i].parent < i
  BY <1>2 DEF Msg, Transcript
<1> QED
  BY <1>1, <1>3

\* A walk reaches one message further.
LEMMA WalkGoesOn ==
  ASSUME NEW ms, Transcript(ms), NEW n \in 1..Len(ms), NEW v, Walks(ms, v, n - 1)
  PROVE  \E w : Walks(ms, w, n)
<1> DEFINE w == [i \in 0..n |-> IF i = n THEN AncestorStep(ms, v, n) ELSE v[i]]
<1>1. n \in Nat /\ n - 1 \in Nat
  OBVIOUS
<1>2. ASSUME NEW i \in 0..n PROVE w[i] = AncestorStep(ms, w, i)
  <2>1. i # 0 => ms[i].parent \in 0..(n - 1)
    <3>1. SUFFICES ASSUME i # 0 PROVE ms[i].parent \in 0..(n - 1)
      OBVIOUS
    <3>2. i \in 1..Len(ms) /\ i <= n
      BY <1>1, <3>1
    <3>3. ms[i].parent \in 0..(i - 1)
      BY <3>2, ParentIsEarlier
    <3> QED
      BY <1>1, <3>2, <3>3
  <2>2. i # 0 => w[ms[i].parent] = v[ms[i].parent]
    BY <1>1, <2>1
  <2>3. AncestorStep(ms, w, i) = AncestorStep(ms, v, i)
    BY <2>2 DEF AncestorStep
  <2>4. i # n => i \in 0..(n - 1)
    BY <1>1
  <2>5. i # n => v[i] = AncestorStep(ms, v, i)
    BY <2>4 DEF Walks
  <2> QED
    BY <2>3, <2>5
<1> HIDE DEF w
<1>3. w = [i \in 0..n |-> w[i]]
  BY DEF w
<1>4. Walks(ms, w, n)
  BY <1>2, <1>3 DEF Walks
<1> QED
  BY <1>4

LEMMA WalkExists ==
  ASSUME NEW ms, Transcript(ms)
  PROVE  \E w : Walks(ms, w, Len(ms))
<1> DEFINE failing == {n \in 0..Len(ms) : ~\E w : Walks(ms, w, n)}
<1>1. Len(ms) \in Nat
  BY DEF Transcript
<1>2. SUFFICES ASSUME failing # {} PROVE FALSE
  BY <1>1
<1>3. failing \in SUBSET Nat
  BY <1>1
<1>4. PICK n \in failing : \A m \in failing : n <= m
  <2> HIDE DEF failing
  <2> QED
    BY <1>2, <1>3, LeastExists
<1>5. n \in 0..Len(ms) /\ ~\E w : Walks(ms, w, n)
  BY <1>4
<1>6. n = 0
  <2> SUFFICES ASSUME n # 0 PROVE FALSE
    OBVIOUS
  <2>1. n \in 1..Len(ms) /\ n - 1 \in 0..Len(ms) /\ ~(n <= n - 1)
    BY <1>1, <1>5
  <2>2. n - 1 \notin failing
    <3> HIDE DEF failing
    <3> QED
      BY <1>4, <2>1
  <2>3. \E v : Walks(ms, v, n - 1)
    BY <2>1, <2>2
  <2> QED
    BY <1>5, <2>1, <2>3, WalkGoesOn
<1>7. Walks(ms, [i \in 0..0 |-> None], 0)
  BY DEF Walks, AncestorStep
<1> QED
  BY <1>5, <1>6, <1>7

\* The ancestor of a message is one a user wrote, or there is none.
LEMMA AncestorType ==
  ASSUME NEW ms, Transcript(ms), NEW from \in 0..Len(ms)
  PROVE  realUserAncestor(ms, from) \in Nullable(User)
<1> DEFINE walk == CHOOSE w : Walks(ms, w, Len(ms))
<1>1. Walks(ms, walk, Len(ms))
  BY WalkExists
<1>2. realUserAncestor(ms, from) = walk[from]
  BY DEF realUserAncestor, Walks, AncestorStep
<1> DEFINE wrong == {i \in 0..Len(ms) : walk[i] \notin Nullable(User)}
<1> HIDE DEF walk
<1>3. SUFFICES ASSUME wrong # {} PROVE FALSE
  BY <1>2
<1>4. Len(ms) \in Nat /\ wrong \in SUBSET Nat
  BY DEF Transcript
<1>5. PICK i \in wrong : \A m \in wrong : i <= m
  <2> HIDE DEF wrong
  <2> QED
    BY <1>3, <1>4, LeastExists
<1>6. i \in 0..Len(ms) /\ walk[i] \notin Nullable(User) /\ walk[i] = AncestorStep(ms, walk, i)
  BY <1>1, <1>5 DEF Walks
<1>7. i # 0 => i \in 1..Len(ms)
  BY <1>4, <1>6
<1>8. i # 0 => ms[i].parent \in 0..(i - 1)
  BY <1>7, ParentIsEarlier
<1>9. i # 0 => ms[i].parent \in 0..Len(ms) /\ ~(i <= ms[i].parent)
  BY <1>4, <1>6, <1>8
<1>10. i # 0 => walk[ms[i].parent] \in Nullable(User)
  BY <1>5, <1>9
<1>11. i # 0 /\ ms[i].kind = "real" => i \in User
  BY <1>4, <1>7, SessionAssumption DEF Transcript
<1> QED
  BY <1>6, <1>10, <1>11 DEF AncestorStep, Nullable

\* What buildContext derives is well formed, for any state of the machine.
Context == [turn : TurnFact, originUserID : Nullable(User)]

LEMMA ContextType ==
  ASSUME NEW ms, Transcript(ms), NEW s
  PROVE  /\ buildContext(ms, s) \in Context
         /\ buildContext(ms, s).turn.assistantID =
              IF newestModeratedAssistant(ms) = 0 THEN None ELSE newestModeratedAssistant(ms)
         /\ buildContext(ms, s).turn.flags = eligibilityFlags(ms, s)
<1> DEFINE a == newestModeratedAssistant(ms)
           origin == realUserAncestor(ms, a)
           loaded == buildContext(ms, s)
<1>1. a \in 0..Len(ms) /\ a <= MaxMessages
  BY Newest
<1>2. origin \in Nullable(User)
  BY <1>1, AncestorType
<1>3. a # 0 => a \in Assistant
  BY <1>1, SessionAssumption DEF Transcript
<1>4. eligibilityFlags(ms, s) \in FlagSets
  <2>1. eligibilityFlags(ms, s) \subseteq {"nonterminal", "assistant-error", "newer-user", "duplicate"}
    BY DEF eligibilityFlags
  <2> QED
    BY <2>1, SessionAssumption
<1>5. a = 0 => "nonterminal" \in eligibilityFlags(ms, s)
  BY DEF eligibilityFlags
<1> DEFINE root == a # 0 /\ ms[a].kind = "root"
           discussion == s.blocker # None /\ inBranch(ms, origin, s.blocker.originUserID)
           cycle == origin # None /\ origin # s.realUserCycleID
<1>b. root \in BOOLEAN /\ discussion \in BOOLEAN /\ cycle \in BOOLEAN
  OBVIOUS
<1>6. loaded = [turn |->
         [assistantID |-> IF a = 0 THEN None ELSE a, flags |-> eligibilityFlags(ms, s),
          rootBlocked |-> root, blockerDiscussion |-> discussion, newCycle |-> cycle],
       originUserID |-> origin]
  BY Zenon DEF buildContext
<1> HIDE DEF a, origin, root, discussion, cycle, loaded
<1>7. loaded.turn \in TurnFact
  <2>1. /\ loaded.turn.rootBlocked \in BOOLEAN
        /\ loaded.turn.blockerDiscussion \in BOOLEAN
        /\ loaded.turn.newCycle \in BOOLEAN
    BY <1>b, <1>6
  <2>2. /\ loaded.turn.assistantID \in Nullable(Assistant)
        /\ loaded.turn.assistantID = None => "nonterminal" \in eligibilityFlags(ms, s)
    BY <1>3, <1>5, <1>6, FsmAssumption DEF Nullable
  <2> QED
    BY <1>4, <1>6, <2>1, <2>2 DEF TurnFact
<1>8. loaded \in Context
  BY <1>2, <1>6, <1>7 DEF Context
<1> QED
  BY <1>6, <1>8 DEF a, loaded

-----------------------------------------------------------------------------
(* OpenCode's side: the transcript and the handlers that have read it.      *)

Transcripts == {ms \in Seq(Msg) : Transcript(ms)}
Handler == [stage : {"asked", "read", "replay"}, snapshot : Transcripts]

OpenCodeInv ==
  /\ msgs \in Transcripts
  /\ agent \in {"idle", "busy", "gone"}
  /\ sending \in Nat
  /\ idles \in Seq(Handler)

\* A message that joins the end of a transcript, and the start of one.
LEMMA AppendTranscript ==
  ASSUME NEW ms \in Transcripts, NEW kind \in PromptKinds \union AssistantKinds,
         NEW parent \in 0..Len(ms),
         kind \in AssistantKinds \union {"real"} => Len(ms) < MaxMessages
  PROVE  Append(ms, Message(kind, parent)) \in Transcripts
<1> DEFINE next == Append(ms, Message(kind, parent))
<1>1. ms \in Seq(Msg) /\ Transcript(ms) /\ Len(ms) \in Nat
  BY DEF Transcripts
<1>2. Message(kind, parent) \in Msg
  BY <1>1 DEF Message, Msg
<1>3. next \in Seq(Msg) /\ Len(next) = Len(ms) + 1
  BY <1>1, <1>2
<1>4. ASSUME NEW i \in 1..Len(next)
      PROVE  next[i] = IF i <= Len(ms) THEN ms[i] ELSE Message(kind, parent)
  BY <1>1, <1>2, <1>3
<1>5. MaxMessages \in Nat
  BY SessionAssumption
<1> HIDE DEF next
<1>6. ASSUME NEW i \in 1..Len(next)
      PROVE  /\ next[i].parent < i
             /\ next[i].kind \in AssistantKinds \union {"real"} => i <= MaxMessages
  <2>1. CASE i <= Len(ms)
    BY <1>1, <1>3, <1>4, <2>1 DEF Transcript
  <2>2. CASE ~(i <= Len(ms))
    BY <1>1, <1>3, <1>4, <1>5, <2>2 DEF Message
  <2> QED
    BY <2>1, <2>2
<1>7. next \in Transcripts
  BY <1>3, <1>6 DEF Transcript, Transcripts
<1> QED
  BY <1>7 DEF next

LEMMA PrefixTranscript ==
  ASSUME NEW ms \in Transcripts, NEW n \in 0..Len(ms)
  PROVE  SubSeq(ms, 1, n) \in Transcripts
<1>1. ms \in Seq(Msg) /\ Transcript(ms) /\ Len(ms) \in Nat
  BY DEF Transcripts
<1>2. SubSeq(ms, 1, n) \in Seq(Msg) /\ Len(SubSeq(ms, 1, n)) = n
  BY <1>1
<1>3. \A i \in 1..n : SubSeq(ms, 1, n)[i] = ms[i] /\ i \in 1..Len(ms)
  BY <1>1
<1> DEFINE next == SubSeq(ms, 1, n)
<1> HIDE DEF next
<1>4. next \in Seq(Msg) /\ Len(next) = n /\ \A i \in 1..n : next[i] = ms[i] /\ i \in 1..Len(ms)
  BY <1>2, <1>3 DEF next
<1>5. next \in Transcripts
  BY <1>1, <1>4 DEF Transcript, Transcripts
<1> QED
  BY <1>5 DEF next

\* Messages that keep their parents and stay on their side of the bound.
LEMMA ChangedTranscript ==
  ASSUME NEW ms \in Transcripts, NEW next \in Seq(Msg), Len(next) = Len(ms),
         \A i \in 1..Len(ms) :
           /\ next[i].parent = ms[i].parent
           /\ next[i].kind = ms[i].kind \/ ms[i].kind \in AssistantKinds
  PROVE  next \in Transcripts
BY DEF Transcript, Transcripts

LEMMA EmptyTranscript == <<>> \in Transcripts
BY DEF Transcript, Transcripts

LEMMA NewestIn ==
  ASSUME NEW ms \in Transcripts
  PROVE  /\ newestModeratedAssistant(ms) \in 0..Len(ms)
         /\ newestModeratedAssistant(ms) # 0 =>
              ms[newestModeratedAssistant(ms)].kind \in AssistantKinds
BY Newest DEF Transcripts

LEMMA PromptKeeps ==
  ASSUME OpenCodeInv, NEW kind \in PromptKinds, Prompt(kind),
         kind = "real" => Len(msgs) < MaxMessages
  PROVE  msgs' \in Transcripts /\ agent' \in {"idle", "busy", "gone"} /\ idles' = idles
<1>1. PICK named \in UserParents :
        msgs' = Append(msgs, Message(kind, IF named THEN newestModeratedAssistant(msgs) ELSE 0))
  BY DEF Prompt
<1>2. (IF named THEN newestModeratedAssistant(msgs) ELSE 0) \in 0..Len(msgs)
  <2>1. newestModeratedAssistant(msgs) \in 0..Len(msgs) /\ 0 \in 0..Len(msgs)
    BY NewestIn DEF OpenCodeInv, Transcripts
  <2> QED
    BY <2>1
<1>3. kind \notin AssistantKinds
  BY DEF PromptKinds, AssistantKinds
<1>4. msgs' \in Transcripts
  BY <1>1, <1>2, <1>3, AppendTranscript DEF OpenCodeInv
<1> QED
  BY <1>4 DEF Prompt, statusBusy, plugin

LEMMA RespondKeeps ==
  ASSUME OpenCodeInv, AgentResponds
  PROVE  msgs' \in Transcripts
<1>1. /\ Unanswered \in SUBSET Nat /\ Unanswered # {}
      /\ Len(msgs) \in Nat /\ \A x \in Unanswered : x <= Len(msgs) /\ x \in 0..Len(msgs)
  BY DEF OpenCodeInv, Transcripts, Unanswered, Following, Positions, AgentResponds
<1>2. Max(Unanswered) \in 0..Len(msgs)
  <2>1. Max(Unanswered) \in Unanswered
    BY <1>1, MaxIsGreatest
  <2> QED
    BY <1>1, <2>1
<1> QED
  BY <1>2, AppendTranscript DEF OpenCodeInv, AgentResponds, AssistantKinds

LEMMA FinishKeeps ==
  ASSUME OpenCodeInv, NEW kind \in FinishedKinds, AgentFinishes(kind)
  PROVE  msgs' \in Transcripts
<1> DEFINE a == newestModeratedAssistant(msgs)
<1>1. msgs \in Seq(Msg) /\ Len(msgs) \in Nat /\ a \in 1..Len(msgs) /\ msgs[a].kind \in AssistantKinds
  BY NewestIn DEF OpenCodeInv, Transcripts, AgentFinishes
<1>2. msgs' = [msgs EXCEPT ![a].kind = kind] /\ kind \in AssistantKinds
  BY SessionAssumption DEF AgentFinishes
<1> HIDE DEF a
<1>3. [msgs[a] EXCEPT !.kind = kind] \in Msg /\ [msgs[a] EXCEPT !.kind = kind].parent = msgs[a].parent
  <2>1. msgs[a] \in Msg
    BY <1>1
  <2> QED
    BY <1>2, <2>1 DEF Msg
<1>4. msgs' \in Seq(Msg) /\ Len(msgs') = Len(msgs)
  BY <1>1, <1>2, <1>3
<1>5. \A i \in 1..Len(msgs) : msgs'[i] = IF i = a THEN [msgs[a] EXCEPT !.kind = kind] ELSE msgs[i]
  BY <1>1, <1>2
<1> QED
  BY <1>1, <1>3, <1>4, <1>5, ChangedTranscript DEF OpenCodeInv

LEMMA InterruptKeeps ==
  ASSUME OpenCodeInv, Interrupt
  PROVE  msgs' \in Transcripts
<1> DEFINE a == newestModeratedAssistant(msgs)
           change(i) == IF i = a /\ msgs[i].kind = "open" THEN Message("excluded", msgs[i].parent) ELSE msgs[i]
<1>1. msgs \in Seq(Msg) /\ Len(msgs) \in Nat /\ DOMAIN msgs = 1..Len(msgs)
  BY DEF OpenCodeInv, Transcripts
<1>2. msgs' = [i \in 1..Len(msgs) |-> change(i)]
  BY <1>1 DEF Interrupt
<1>3. ASSUME NEW i \in 1..Len(msgs)
      PROVE  change(i) \in Msg /\ change(i).parent = msgs[i].parent
             /\ (change(i).kind = msgs[i].kind \/ msgs[i].kind \in AssistantKinds)
  <2>1. msgs[i] \in Msg
    BY <1>1
  <2> QED
    BY <2>1 DEF Message, Msg, AssistantKinds
<1> HIDE DEF change
<1>4. msgs' \in Seq(Msg) /\ Len(msgs') = Len(msgs) /\ \A i \in 1..Len(msgs) : msgs'[i] = change(i)
  BY <1>1, <1>2, <1>3
<1> QED
  BY <1>3, <1>4, ChangedTranscript DEF OpenCodeInv

LEMMA ReplayKeeps ==
  ASSUME OpenCodeInv, NEW force, ReplayReads(force)
  PROVE  msgs' \in Transcripts
<1> DEFINE prompts == Following(msgs, {"continuation"})
<1>1. /\ prompts \in SUBSET Nat /\ Len(msgs) \in Nat
      /\ \A x \in prompts : x - 1 \in 0..Len(msgs)
  BY DEF OpenCodeInv, Transcripts, Following, Positions
<1>2. prompts # {} => Min(prompts) - 1 \in 0..Len(msgs)
  <2> HIDE DEF prompts
  <2>1. prompts # {} => Min(prompts) \in prompts
    BY <1>1, MinIsLeast
  <2> QED
    BY <1>1, <2>1
<1>3. \/ UNCHANGED msgs
      \/ prompts # {} /\ msgs' = SubSeq(msgs, 1, Min(prompts) - 1)
  BY DEF ReplayReads
<1> HIDE DEF prompts
<1> QED
  BY <1>2, <1>3, PrefixTranscript DEF OpenCodeInv

\* A handler that has gone leaves the others.
LEMMA RemovedHandler ==
  ASSUME NEW S, NEW s \in Seq(S), NEW i \in DOMAIN s
  PROVE  RemoveAt(s, i) \in Seq(S)
BY DEF RemoveAt

LEMMA StatusIdleKeeps ==
  ASSUME OpenCodeInv, statusIdle
  PROVE  idles' \in Seq(Handler)
<1>1. [stage |-> "asked", snapshot |-> <<>>] \in Handler
  BY EmptyTranscript DEF Handler
<1> QED
  BY <1>1 DEF statusIdle, OpenCodeInv

LEMMA HandlersKeep ==
  ASSUME OpenCodeInv, NEW i \in DOMAIN idles,
         IdleReads(i) \/ IdleResumes(i) \/ ReplayResumes(i) \/ IdleFails(i) \/ ReplayFails(i)
  PROVE  OpenCodeInv'
<1>1. idles \in Seq(Handler) /\ RemoveAt(idles, i) \in Seq(Handler)
  BY RemovedHandler DEF OpenCodeInv
<1>2. UNCHANGED opencode
  BY DEF IdleReads, IdleResumes, ReplayResumes, IdleFails, ReplayFails
<1>3. idles' \in Seq(Handler)
  <2>1. CASE IdleReads(i)
    <3>1. [stage |-> "read", snapshot |-> msgs] \in Handler
      BY DEF OpenCodeInv, Handler
    <3> QED
      BY <1>1, <2>1, <3>1 DEF IdleReads
  <2>2. CASE IdleResumes(i) \/ ReplayResumes(i) \/ IdleFails(i) \/ ReplayFails(i)
    BY <1>1, <2>2 DEF IdleResumes, ReplayResumes, IdleFails, ReplayFails
  <2> QED
    BY <2>1, <2>2
<1> QED
  BY <1>2, <1>3 DEF OpenCodeInv, opencode

LEMMA OpenCodeInit == Init => OpenCodeInv
BY EmptyTranscript DEF Init, OpenCodeInv

LEMMA OpenCodeStep ==
  ASSUME OpenCodeInv, [Next]_vars
  PROVE  OpenCodeInv'
<1>1. CASE UNCHANGED vars
  BY <1>1 DEF vars, opencode, plugin, OpenCodeInv
<1>2. ASSUME NEW i \in DOMAIN idles,
             IdleReads(i) \/ IdleResumes(i) \/ ReplayResumes(i) \/ IdleFails(i) \/ ReplayFails(i)
      PROVE  OpenCodeInv'
  BY <1>2, HandlersKeep
<1>3. CASE \/ Restore \/ RestoreFails \/ Take \/ LoadContext \/ StartClassify \/ WriteTrace
           \/ SendContinuation \/ VerifyPrompt \/ VerifyTimesOut \/ Save \/ GhostSaves \/ EffectFails
           \/ ErrorTraceFails \/ VerifyTooSoon \/ SaveFails \/ CompactionReported \/ \E d \in Decisions : FinishClassify(d)
  <2>1. UNCHANGED <<opencode, idles>>
    BY <1>3 DEF Restore, RestoreFails, Take, LoadContext, StartClassify, WriteTrace, SendContinuation,
                VerifyPrompt, VerifyTimesOut, Save, GhostSaves, EffectFails, ErrorTraceFails,
                VerifyTooSoon, SaveFails, CompactionReported, FinishClassify
  <2> QED
    BY <2>1 DEF opencode, OpenCodeInv
<1>4. CASE PromptAccepted
  BY <1>4 DEF PromptAccepted, OpenCodeInv
<1>5. CASE UserPrompts \/ Autocontinues \/ PromptAppears
  <2>1. msgs' \in Transcripts /\ agent' \in {"idle", "busy", "gone"} /\ idles' = idles
    BY <1>5, PromptKeeps DEF UserPrompts, Autocontinues, PromptAppears, PromptKinds
  <2>2. sending' \in Nat
    BY <1>5 DEF UserPrompts, Autocontinues, PromptAppears, OpenCodeInv
  <2> QED
    BY <2>1, <2>2 DEF OpenCodeInv
<1>6. CASE PromptLost
  BY <1>6 DEF PromptLost, plugin, OpenCodeInv
<1>7. CASE AgentResponds
  <2>1. UNCHANGED <<agent, sending, idles>>
    BY <1>7 DEF AgentResponds, plugin
  <2> QED
    BY <1>7, <2>1, RespondKeeps DEF OpenCodeInv
<1>8. ASSUME NEW k \in FinishedKinds, AgentFinishes(k)
      PROVE  OpenCodeInv'
  <2>1. idles' \in Seq(Handler)
    BY <1>8, StatusIdleKeeps DEF AgentFinishes, plugin, OpenCodeInv
  <2> QED
    BY <1>8, <2>1, FinishKeeps DEF AgentFinishes, OpenCodeInv
<1>9. CASE Interrupt
  <2>1. idles' \in Seq(Handler)
    BY <1>9, StatusIdleKeeps DEF Interrupt
  <2> QED
    BY <1>9, <2>1, InterruptKeeps DEF Interrupt, OpenCodeInv
<1>10. ASSUME NEW force \in BOOLEAN, ReplayReads(force)
       PROVE  OpenCodeInv'
  <2>1. [stage |-> "replay", snapshot |-> msgs] \in Handler
    BY DEF OpenCodeInv, Handler
  <2>2. idles' \in Seq(Handler) /\ UNCHANGED <<agent, sending>>
    BY <1>10, <2>1 DEF ReplayReads, OpenCodeInv
  <2> QED
    BY <1>10, <2>2, ReplayKeeps DEF OpenCodeInv
<1>11. CASE Deleted
  BY <1>11 DEF Deleted, OpenCodeInv
<1>12. CASE Crash
  BY <1>12 DEF Crash, OpenCodeInv
<1> QED
  BY <1>1, <1>2, <1>3, <1>4, <1>5, <1>6, <1>7, <1>8, <1>9, <1>10, <1>11, <1>12
  DEF Next, PluginStep, PluginFault, SessionStep

-----------------------------------------------------------------------------
(* Events, and the effects a transition lines up for them.                  *)

Notification ==
  PlainEvent({"STATUS_BUSY", "COMPACTION_STARTED", "COMPACTION_COMPLETED", "EFFECT_ERROR"})
    \union TurnEndedEvent \union NewUserCycleEvent
Report == PlainEvent({"EFFECT_ERROR", "TRACE_PERSISTED", "CONTINUATION_PERSISTED"})
Event == Notification \union Report \union ContextLoadedEvent \union VerdictEvent \union ReplayEvent

\* What is left to perform while an event is drained.
Lineups ==
  {<<>>, <<loadContext>>, <<classify>>, <<trace>>, <<trace, sendContinuation>>,
   <<sendContinuation>>, <<verifyPrompt>>}

LEMMA LineupFacts ==
  ASSUME NEW t \in Lineups, t # <<>>
  PROVE  /\ Tail(t) \in Lineups \ {<<classify>>, <<loadContext>>}
         /\ Head(t).type = "CLASSIFY" <=> t = <<classify>>
         /\ Head(t).type = "LOAD_CONTEXT" <=> t = <<loadContext>>
         /\ Head(t).type = "SEND_CONTINUATION" <=> t = <<sendContinuation>>
         /\ Head(t).type = "VERIFY_PROMPT" <=> t = <<verifyPrompt>>
         /\ Head(t).type = "WRITE_TRACE" <=> t \in {<<trace>>, <<trace, sendContinuation>>}
         /\ t # <<trace, sendContinuation>> => Tail(t) = <<>>
         /\ t = <<trace, sendContinuation>> => Tail(t) = <<sendContinuation>>
<1>1. ASSUME NEW e, t = <<e>>
      PROVE  Head(t) = e /\ Tail(t) = <<>> /\ t # <<trace, sendContinuation>> /\ \A f : t = <<f>> <=> e = f
  BY <1>1
<1>2. CASE t = <<trace, sendContinuation>>
  <2>1. Head(t) = trace /\ Tail(t) = <<sendContinuation>> /\ \A f : t # <<f>>
    BY <1>2
  <2> QED
    BY <1>2, <2>1 DEF Lineups, loadContext, classify, trace, sendContinuation, Effect
<1>3. CASE t # <<trace, sendContinuation>>
  <2>1. PICK e \in {loadContext, classify, trace, sendContinuation, verifyPrompt} : t = <<e>>
    BY <1>3 DEF Lineups
  <2>2. Head(t) = e /\ Tail(t) = <<>> /\ \A f : t = <<f>> <=> e = f
    BY <1>1, <2>1
  <2>3. <<>> \in Lineups \ {<<classify>>, <<loadContext>>}
    BY DEF Lineups
  <2>4. /\ e.type = "CLASSIFY" <=> e = classify
        /\ e.type = "LOAD_CONTEXT" <=> e = loadContext
        /\ e.type = "SEND_CONTINUATION" <=> e = sendContinuation
        /\ e.type = "VERIFY_PROMPT" <=> e = verifyPrompt
        /\ e.type = "WRITE_TRACE" <=> e = trace
    BY DEF loadContext, classify, trace, sendContinuation, verifyPrompt, Effect
  <2>5. /\ t = <<classify>> <=> e = classify
        /\ t = <<loadContext>> <=> e = loadContext
        /\ t = <<sendContinuation>> <=> e = sendContinuation
        /\ t = <<verifyPrompt>> <=> e = verifyPrompt
        /\ t = <<trace>> <=> e = trace
    BY <2>2
  <2>6. Head(t).type = e.type /\ Tail(t) = <<>>
    BY <2>2
  <2>7. t \in {<<trace>>, <<trace, sendContinuation>>} <=> t = <<trace>>
    BY <1>3
  <2> QED
    BY <1>3, <2>3, <2>4, <2>5, <2>6, <2>7, Zenon
<1> QED
  BY <1>2, <1>3

LEMMA LineupsDiffer ==
  /\ <<classify>> \notin {<<>>, <<loadContext>>, <<trace>>, <<trace, sendContinuation>>,
                          <<sendContinuation>>, <<verifyPrompt>>}
  /\ <<loadContext>> \notin {<<>>, <<trace>>, <<trace, sendContinuation>>,
                             <<sendContinuation>>, <<verifyPrompt>>}
  /\ <<sendContinuation>> \notin {<<>>, <<trace>>, <<trace, sendContinuation>>, <<verifyPrompt>>}
  /\ <<trace, sendContinuation>> # <<>>
BY DEF loadContext, classify, trace, sendContinuation, verifyPrompt, Effect

LEMMA EventSound ==
  ASSUME NEW s, Sound(s), NEW e \in Event
  PROVE  Sound(transition(s, e).state)
<1>1. \/ e \in PlainEvent({"STATUS_BUSY", "CANCELLED", "CONTINUATION_PERSISTED",
                           "COMPACTION_STARTED", "COMPACTION_COMPLETED",
                           "TRACE_PERSISTED", "EFFECT_ERROR"})
      \/ e \in TurnEndedEvent \/ e \in ContextLoadedEvent \/ e \in VerdictEvent
      \/ e \in NewUserCycleEvent \/ e \in ReplayEvent
  BY DEF Event, Notification, Report, PlainEvent
<1> QED
  BY <1>1, PlainSound, FactSound

\* What a transition lines up goes with the phase it enters: a classification is
\* lined up as CLASSIFYING is entered, for the assistant of the turn, and a
\* corrective prompt as CONTINUING is; an answer ends either.
EffectsFit(s, e, out) ==
  /\ out.effects \in Lineups \ {<<sendContinuation>>}
  /\ out.effects = <<classify>> =>
       /\ e.type \in {"CONTEXT_LOADED", "REPLAY"}
       /\ e.turn.flags = {}
       /\ out.state.phase = "CLASSIFYING"
       /\ out.state.inflightAssistantID = e.turn.assistantID
       /\ out.state.lastTerminalAssistantID = s.lastTerminalAssistantID
  /\ out.state.phase = "CLASSIFYING" =>
       \/ out.effects = <<classify>>
       \/ out.state = s /\ e.type \notin {"VERDICT", "EFFECT_ERROR"}
  /\ out.state.phase = "CONTINUING" =>
       \/ out.effects = <<trace, sendContinuation>>
       \/ out.state = s /\ e.type \notin {"CONTINUATION_PERSISTED", "EFFECT_ERROR"}

LEMMA IgnoredFits ==
  ASSUME NEW s \in ModerationState, NEW e \in Event,
         s.phase \in EVENT_PHASES[e.type] => EffectsFit(s, e, dispatch(s, e))
  PROVE  EffectsFit(s, e, transition(s, e))
<1>1. CASE s.phase \in EVENT_PHASES[e.type]
  BY <1>1 DEF transition
<1>2. CASE s.phase \notin EVENT_PHASES[e.type]
  <2>1. transition(s, e).state = s /\ transition(s, e).effects = <<>>
    BY <1>2 DEF transition, result
  <2>2. s.phase = "CLASSIFYING" => e.type \notin {"VERDICT", "EFFECT_ERROR"}
    BY <1>2 DEF EVENT_PHASES, PHASES
  <2>3. s.phase = "CONTINUING" => e.type \notin {"CONTINUATION_PERSISTED", "EFFECT_ERROR"}
    BY <1>2 DEF EVENT_PHASES, PHASES
  <2> QED
    BY <2>1, <2>2, <2>3, LineupsDiffer DEF EffectsFit, Lineups
<1> QED
  BY <1>1, <1>2

LEMMA PlainFits ==
  ASSUME NEW s \in ModerationState, NEW e \in Event,
         e.type \in {"STATUS_BUSY", "COMPACTION_STARTED", "COMPACTION_COMPLETED", "TRACE_PERSISTED",
                     "EFFECT_ERROR", "CONTINUATION_PERSISTED", "TURN_ENDED", "NEW_USER_CYCLE"}
  PROVE  EffectsFit(s, e, transition(s, e))
<1> DEFINE out == dispatch(s, e)
<1>1. CASE e.type = "STATUS_BUSY"
  <2>1. out.effects = <<>> /\ out.state.phase = "OBSERVING"
    BY <1>1 DEF dispatch, result, ModerationState
  <2> QED
    BY <2>1, LineupsDiffer, IgnoredFits DEF EffectsFit, Lineups
<1>2. CASE e.type \in {"COMPACTION_STARTED", "COMPACTION_COMPLETED", "TRACE_PERSISTED"}
  <2>1. out.effects = <<>> /\ out.state = s
    BY <1>2 DEF dispatch, result
  <2> QED
    BY <1>2, <2>1, LineupsDiffer, IgnoredFits DEF EffectsFit, Lineups
<1>3. CASE e.type = "EFFECT_ERROR"
  <2>1. out.effects = <<>> /\ out.state.phase = "ERROR"
    BY <1>3 DEF dispatch, onEffectError, result, ModerationState
  <2> QED
    BY <2>1, LineupsDiffer, IgnoredFits DEF EffectsFit, Lineups
<1>4. CASE e.type = "CONTINUATION_PERSISTED"
  <2>1. out.effects = <<verifyPrompt>> /\ out.state.phase = "OBSERVING"
    BY <1>4 DEF dispatch, result, ModerationState
  <2> QED
    BY <2>1, LineupsDiffer, IgnoredFits DEF EffectsFit, Lineups
<1>5. CASE e.type = "TURN_ENDED"
  <2>1. out.effects = <<loadContext>> /\ out.state.phase = "OBSERVING"
    BY <1>5 DEF dispatch, onTurnEnded, result, ModerationState
  <2> QED
    BY <2>1, LineupsDiffer, IgnoredFits DEF EffectsFit, Lineups
<1>6. CASE e.type = "NEW_USER_CYCLE"
  <2>1. out.effects = <<>> /\ out.state.phase \notin {"CLASSIFYING", "CONTINUING"}
    BY <1>6 DEF dispatch, onNewUserCycle, result, ModerationState
  <2> QED
    BY <2>1, LineupsDiffer, IgnoredFits DEF EffectsFit, Lineups
<1> QED
  BY <1>1, <1>2, <1>3, <1>4, <1>5, <1>6

LEMMA ContextFits ==
  ASSUME NEW s \in ModerationState, NEW e \in ContextLoadedEvent
  PROVE  EffectsFit(s, e, transition(s, e))
<1> DEFINE out == onContextLoaded(s, e.turn, e.originUserID)
           next == withContext(s, e.turn, e.originUserID)
<1>1. e.type = "CONTEXT_LOADED" /\ e.turn \in TurnFact /\ e \in Event
  BY DEF ContextLoadedEvent, Event
<1>2. e.turn.flags = {} => e.turn.assistantID # None
  BY <1>1 DEF TurnFact
<1>3. /\ next.inflightAssistantID = IF e.turn.assistantID # None THEN e.turn.assistantID
                                    ELSE s.inflightAssistantID
      /\ next.lastTerminalAssistantID = s.lastTerminalAssistantID
      /\ next = [next EXCEPT !.phase = s.phase]
      /\ DOMAIN next = DOMAIN s
  BY DEF withContext, ModerationState
<1>4. {"phase", "inflightAssistantID", "lastTerminalAssistantID", "blocker"} \subseteq DOMAIN next
  BY <1>3 DEF ModerationState
<1>5. EffectsFit(s, e, out)
  <2>1. CASE e.turn.flags # {}
    <3>1. out.effects = <<>> /\ out.state.phase = "IDLE"
      BY <1>4, <2>1 DEF onContextLoaded, result
    <3> QED
      BY <3>1, LineupsDiffer DEF EffectsFit, Lineups
  <2>2. CASE e.turn.flags = {} /\ e.turn.rootBlocked
    <3>1. out.effects = <<trace>> /\ out.state.phase = "IDLE"
      BY <1>4, <2>2 DEF onContextLoaded, result
    <3> QED
      BY <3>1, LineupsDiffer DEF EffectsFit, Lineups
  <2>3. CASE e.turn.flags = {} /\ ~e.turn.rootBlocked /\ e.turn.blockerDiscussion
    <3>1. out.effects = <<>> /\ out.state.phase = "IDLE"
      BY <1>4, <2>3 DEF onContextLoaded, result
    <3> QED
      BY <3>1, LineupsDiffer DEF EffectsFit, Lineups
  <2>4. CASE e.turn.flags = {} /\ ~e.turn.rootBlocked /\ ~e.turn.blockerDiscussion
    <3>1. out.effects = <<classify>> /\ out.state = [next EXCEPT !.phase = "CLASSIFYING"]
      BY <2>4 DEF onContextLoaded, result
    <3> HIDE DEF next
    <3>2. out.state.phase = "CLASSIFYING" /\ out.state.inflightAssistantID = e.turn.assistantID
          /\ out.state.lastTerminalAssistantID = s.lastTerminalAssistantID
      BY <1>2, <1>3, <1>4, <2>4, <3>1
    <3> QED
      BY <1>1, <2>4, <3>1, <3>2, LineupsDiffer DEF EffectsFit, Lineups
  <2> QED
    BY <2>1, <2>2, <2>3, <2>4
<1>6. dispatch(s, e) = out
  BY <1>1 DEF dispatch
<1> QED
  BY <1>1, <1>5, <1>6, IgnoredFits

LEMMA VerdictFits ==
  ASSUME NEW s, Sound(s), NEW e \in VerdictEvent
  PROVE  EffectsFit(s, e, transition(s, e))
<1> DEFINE out == onVerdict(s, e.decision, e.originUserID)
<1>1. e.type = "VERDICT" /\ e.decision \in VerdictDecision /\ e \in Event /\ s \in ModerationState
  BY DEF VerdictEvent, Event, Sound
<1>2. terminalState(s) \in ModerationState /\ terminalState(s).phase = "IDLE"
  BY TerminalSound DEF Sound
<1>3. /\ onUnfinished(s, e.decision).state.phase = "IDLE" /\ onUnfinished(s, e.decision).effects = <<>>
      \/ /\ onUnfinished(s, e.decision).state.phase = "CONTINUING"
         /\ onUnfinished(s, e.decision).effects = <<trace, sendContinuation>>
  BY <1>1, <1>2 DEF onUnfinished, result, ModerationState
<1>4. \/ out.state.phase = "IDLE" /\ out.effects \in {<<>>, <<trace>>}
      \/ out.state.phase = "CONTINUING" /\ out.effects = <<trace, sendContinuation>>
  BY <1>1, <1>2, <1>3 DEF onVerdict, result, ModerationState
<1>5. EffectsFit(s, e, out)
  BY <1>4, LineupsDiffer DEF EffectsFit, Lineups
<1>6. dispatch(s, e) = out
  BY <1>1 DEF dispatch
<1> QED
  BY <1>1, <1>5, <1>6, IgnoredFits

LEMMA ReplayFits ==
  ASSUME NEW s \in ModerationState, NEW e \in ReplayEvent
  PROVE  EffectsFit(s, e, transition(s, e))
<1> DEFINE out == onReplay(s, e.turn)
<1>1. e.type = "REPLAY" /\ e \in Event
  BY DEF ReplayEvent, Event
<1>2. \/ out.state.phase = "IDLE" /\ out.effects = <<>>
      \/ /\ out.effects = <<classify>> /\ e.turn.flags = {}
         /\ out.state.phase = "CLASSIFYING"
         /\ out.state.inflightAssistantID = e.turn.assistantID
         /\ out.state.lastTerminalAssistantID = s.lastTerminalAssistantID
  BY DEF onReplay, result, ModerationState
<1>3. EffectsFit(s, e, out)
  BY <1>1, <1>2, LineupsDiffer DEF EffectsFit, Lineups
<1>4. dispatch(s, e) = out
  BY <1>1 DEF dispatch
<1> QED
  BY <1>1, <1>3, <1>4, IgnoredFits

LEMMA EventFits ==
  ASSUME NEW s, Sound(s), NEW e \in Event
  PROVE  EffectsFit(s, e, transition(s, e))
<1>1. s \in ModerationState
  BY DEF Sound
<1>2. \/ e.type \in {"STATUS_BUSY", "COMPACTION_STARTED", "COMPACTION_COMPLETED", "TRACE_PERSISTED",
                     "EFFECT_ERROR", "CONTINUATION_PERSISTED", "TURN_ENDED", "NEW_USER_CYCLE"}
      \/ e \in ContextLoadedEvent \/ e \in VerdictEvent \/ e \in ReplayEvent
  BY DEF Event, Notification, Report, PlainEvent, TurnEndedEvent, NewUserCycleEvent
<1> QED
  BY <1>1, <1>2, PlainFits, ContextFits, VerdictFits, ReplayFits

-----------------------------------------------------------------------------
(* What a step does to the plugin, whatever it does to the transcript.      *)

\* What the plugin's invariants say of the past.
past == <<verdicts, reopened, cutOff>>

\* The plugin notices nothing.
Quiet == UNCHANGED <<machine, queue, drain, call, past>>

\* Facts about the session are queued.
Notified ==
  /\ \E events \in Seq(Notification) : events # <<>> /\ enqueue(events)
  /\ UNCHANGED <<machine, call, past>>

\* A replay is queued and its context takes the place of the session's.
Replayed ==
  /\ \E loaded \in Context :
       /\ enqueue(<<[type |-> "REPLAY", turn |-> loaded.turn]>>)
       /\ context' = IF agent = "gone" THEN context ELSE loaded
  /\ \E i \in DOMAIN idles : idles[i].stage = "replay"
  /\ UNCHANGED <<machine, judging, past>>

\* An effect that gives no fact, or fails, is over.
Reported ==
  /\ pc \in {"judge", "send"} \/ (pc = "run" /\ todo # <<>>)
  /\ \E e \in Report :
       /\ Done(e)
       /\ e.type = "TRACE_PERSISTED" => pc = "run" /\ Head(todo).type = "WRITE_TRACE"
       /\ e.type = "CONTINUATION_PERSISTED" => pc = "send"
  /\ UNCHANGED <<machine, context, past>>
  /\ judging' \in {judging, None}

\* No corrective prompt follows the assistant yet.
Looked ==
  /\ pc = "run" /\ pc' = "send"
  /\ todo # <<>> /\ Head(todo).type = "SEND_CONTINUATION"
  /\ UNCHANGED <<opencode, machine, queue, todo, ghost, call, past>>

LEMMA HandlerType ==
  ASSUME OpenCodeInv, NEW i \in DOMAIN idles
  PROVE  idles[i].snapshot \in Transcripts
<1>1. idles[i] \in Handler
  BY DEF OpenCodeInv
<1> QED
  BY <1>1 DEF Handler

LEMMA TurnEventsType ==
  ASSUME NEW ms \in Transcripts
  PROVE  TurnEvents(ms) \in Seq(Notification) /\ TurnEvents(ms) # <<>>
<1> DEFINE loaded == buildContext(ms, state)
           cycle == [type |-> "NEW_USER_CYCLE", originUserID |-> loaded.originUserID,
                     sameBranch |-> loaded.turn.blockerDiscussion]
           ended == [type |-> "TURN_ENDED", assistantID |-> loaded.turn.assistantID]
<1>1. loaded \in Context
  BY ContextType DEF Transcripts
<1> HIDE DEF loaded
<1>2. cycle \in Notification
  BY <1>1 DEF Context, TurnFact, NewUserCycleEvent, Notification
<1>3. ended \in Notification
  BY <1>1 DEF Context, TurnFact, TurnEndedEvent, Notification
<1>4. TurnEvents(ms) = IF loaded.turn.newCycle THEN <<cycle, ended>> ELSE <<ended>>
  BY DEF TurnEvents, loaded
<1> HIDE DEF cycle, ended
<1> QED
  BY <1>2, <1>3, <1>4

LEMMA PlainNotifications ==
  /\ <<Plain("STATUS_BUSY")>> \in Seq(Notification)
  /\ <<Plain("EFFECT_ERROR")>> \in Seq(Notification)
  /\ <<Plain("COMPACTION_STARTED"), Plain("COMPACTION_COMPLETED")>> \in Seq(Notification)
<1>1. \A t \in {"STATUS_BUSY", "EFFECT_ERROR", "COMPACTION_STARTED", "COMPACTION_COMPLETED"} :
        Plain(t) \in Notification
  BY DEF Plain, PlainEvent, Notification
<1> QED
  BY <1>1

LEMMA StatusBusyNotifies ==
  ASSUME statusBusy, UNCHANGED past PROVE Notified
BY PlainNotifications DEF statusBusy, Notified

LEMMA StatusIdleIsQuiet ==
  ASSUME statusIdle, UNCHANGED history PROVE Quiet
BY DEF statusIdle, Quiet, history, past

LEMMA ReportOf ==
  ASSUME NEW t \in {"EFFECT_ERROR", "TRACE_PERSISTED", "CONTINUATION_PERSISTED"}
  PROVE  Plain(t) \in Report /\ Plain(t).type = t
BY DEF Plain, PlainEvent, Report

LEMMA PluginSteps ==
  ASSUME OpenCodeInv, [Next]_vars
  PROVE  \/ Quiet \/ Notified \/ Replayed \/ Reported
         \/ LoadContext \/ (\E d \in Decisions : FinishClassify(d))
         \/ Restore \/ RestoreFails \/ Take \/ StartClassify \/ ErrorTraceFails \/ Looked
         \/ VerifyPrompt \/ Save \/ SaveFails \/ GhostSaves \/ Deleted \/ Crash
<1>1. CASE UNCHANGED vars
  BY <1>1 DEF vars, plugin, history, past, Quiet
<1>2. ASSUME NEW i \in DOMAIN idles, IdleReads(i) PROVE Quiet
  BY <1>2 DEF IdleReads, Quiet, history, past
<1>3. ASSUME NEW i \in DOMAIN idles, IdleResumes(i) PROVE Notified
  BY <1>3, HandlerType, TurnEventsType DEF IdleResumes, Notified, history, past
<1>4. ASSUME NEW i \in DOMAIN idles, IdleFails(i) PROVE Notified
  BY <1>4, PlainNotifications DEF IdleFails, Notified, history, past
<1>5. ASSUME NEW i \in DOMAIN idles, ReplayResumes(i) PROVE Replayed
  <2>1. buildContext(idles[i].snapshot, state) \in Context
    BY HandlerType, ContextType DEF Transcripts
  <2> QED
    BY <1>5, <2>1 DEF ReplayResumes, Replayed, history, past
<1>6. ASSUME NEW i \in DOMAIN idles, ReplayFails(i) PROVE Quiet
  BY <1>6 DEF ReplayFails, Quiet, history, past
<1>7. ASSUME WriteTrace PROVE Reported
  BY <1>7, ReportOf DEF WriteTrace, Perform, Reported, call, history, past
<1>8. ASSUME SendContinuation PROVE Reported \/ Looked
  BY <1>8, ReportOf DEF SendContinuation, Perform, Reported, Looked, call, history, past
<1>17. ASSUME PromptAccepted PROVE Reported
  BY <1>17, ReportOf DEF PromptAccepted, Reported, call, history, past
<1>9. ASSUME VerifyTimesOut \/ VerifyTooSoon PROVE Reported
  BY <1>9, ReportOf DEF VerifyTimesOut, VerifyTooSoon, Perform, Reported, call, history, past
<1>10. ASSUME EffectFails PROVE Reported
  BY <1>10, ReportOf DEF EffectFails, Reported, history, past
<1>11. ASSUME NEW force, ReplayReads(force) PROVE Quiet
  BY <1>11 DEF ReplayReads, Quiet, history, past
<1>12. ASSUME NEW kind, Prompt(kind) PROVE Notified \/ Quiet
  BY <1>12, StatusBusyNotifies DEF Prompt, plugin, past, Quiet
<1>13. ASSUME CompactionReported PROVE Notified
  BY <1>13, PlainNotifications DEF CompactionReported, Notified, history, past
<1>14. ASSUME PromptLost \/ AgentResponds PROVE Quiet
  BY <1>14 DEF PromptLost, AgentResponds, plugin, history, past, Quiet
<1>15. ASSUME NEW k \in FinishedKinds, AgentFinishes(k) PROVE Quiet
  BY <1>15, StatusIdleIsQuiet DEF AgentFinishes, plugin, history, past, Quiet
<1>16. ASSUME Interrupt PROVE Quiet
  BY <1>16, StatusIdleIsQuiet DEF Interrupt
<1> QED
  BY <1>1, <1>2, <1>3, <1>4, <1>5, <1>6, <1>7, <1>8, <1>9, <1>10, <1>11, <1>12, <1>13, <1>14, <1>15, <1>16, <1>17
  DEF Next, PluginStep, PluginFault, SessionStep, UserPrompts, Autocontinues, PromptAppears

\* A session that is deleted stays so.
LEMMA GoneForGood ==
  ASSUME [Next]_vars, agent = "gone" PROVE agent' = "gone"
<1>1. CASE UNCHANGED vars
  BY <1>1 DEF vars, opencode
<1>2. CASE PluginStep
  BY <1>2 DEF PluginStep, Restore, Take, LoadContext, StartClassify, FinishClassify, WriteTrace,
              SendContinuation, PromptAccepted, VerifyPrompt, VerifyTimesOut, Save, GhostSaves, IdleReads,
              IdleResumes, ReplayResumes, opencode
<1>3. CASE PluginFault
  BY <1>3 DEF PluginFault, RestoreFails, EffectFails, ErrorTraceFails, VerifyTooSoon, SaveFails, IdleFails, ReplayFails, Crash, opencode
<1>4. CASE SessionStep
  BY <1>4 DEF SessionStep, ReplayReads, UserPrompts, CompactionReported, Autocontinues, PromptAppears,
              PromptLost, AgentResponds, AgentFinishes, Interrupt, Deleted, Prompt, opencode
<1> QED
  BY <1>1, <1>2, <1>3, <1>4 DEF Next

-----------------------------------------------------------------------------
(* The plugin's invariant.                                                  *)

\* The machine is sound, on disk as well, and untouched until it is restored.
MachineInv ==
  /\ Sound(state)
  /\ saved = None \/ Sound(saved)
  /\ restored \in BOOLEAN
  /\ ~restored => state = createInitialState

\* The drain rests with an empty queue, holds effects only in the middle of an
\* event, and has restored the session before it takes the first.  Only a
\* deleted session has a ghost.
DrainInv ==
  /\ queue \in Seq(Event) /\ ghost \in Seq(Event)
  /\ pc \in {"off", "restore", "take", "run", "judge", "send"}
  /\ todo \in Lineups
  /\ pc \in {"off", "restore", "take"} => todo = <<>>
  /\ pc = "off" => queue = <<>>
  /\ pc \in {"restore", "take"} => queue # <<>>
  /\ pc = "restore" => ~restored
  /\ pc \in {"take", "run", "judge", "send"} => restored
  /\ pc = "judge" => todo = <<classify>>
  /\ pc = "send" => todo = <<sendContinuation>>
  /\ ghost # <<>> => agent = "gone"

\* An event is queued whose classification would use the session's context.
WantsContext(q) ==
  \E i \in 1..Len(q) : q[i].type \in {"CONTEXT_LOADED", "REPLAY"}

\* A classification is lined up only with a context to classify.
CallInv ==
  /\ context \in Context \union {None}
  /\ judging \in Context \union {None}
  /\ pc = "judge" => judging \in Context
  /\ todo = <<classify>> => context \in Context
  /\ WantsContext(queue) => context \in Context

\* A machine that waits has the effect it waits for before it, or its answer; a
\* lost error leaves it classifying with nothing before it.
AnswerInv ==
  agent # "gone" =>
    /\ state.phase = "CLASSIFYING" =>
         \/ cutOff
         \/ todo = <<classify>>
         \/ /\ todo = <<>> /\ queue # <<>>
            /\ Head(queue).type \in {"VERDICT", "EFFECT_ERROR"}
    /\ state.phase = "CONTINUING" =>
         \/ todo \in {<<trace, sendContinuation>>, <<sendContinuation>>}
         \/ /\ todo = <<>> /\ queue # <<>>
            /\ Head(queue).type \in {"CONTINUATION_PERSISTED", "EFFECT_ERROR"}

PluginInv == MachineInv /\ DrainInv /\ CallInv /\ AnswerInv

LEMMA QueueEnd ==
  ASSUME NEW q \in Seq(Event), NEW events \in Seq(Event), events # <<>>
  PROVE  /\ q \o events \in Seq(Event)
         /\ q \o events # <<>>
         /\ q # <<>> => Head(q \o events) = Head(q)
         /\ WantsContext(q \o events) => WantsContext(q) \/ WantsContext(events)
<1> DEFINE both == q \o events
<1>1. /\ both \in Seq(Event) /\ Len(both) = Len(q) + Len(events)
      /\ Len(q) \in Nat /\ Len(events) \in Nat /\ Len(events) # 0
  OBVIOUS
<1>2. ASSUME NEW i \in 1..Len(both)
      PROVE  IF i <= Len(q) THEN i \in 1..Len(q) /\ both[i] = q[i]
             ELSE i - Len(q) \in 1..Len(events) /\ both[i] = events[i - Len(q)]
  BY <1>1
<1>3. WantsContext(both) => WantsContext(q) \/ WantsContext(events)
  <2> HIDE DEF both
  <2> QED
    BY <1>2 DEF WantsContext
<1> QED
  BY <1>1, <1>3

LEMMA QueueFront ==
  ASSUME NEW q \in Seq(Event), NEW e \in Event
  PROVE  /\ <<e>> \o q \in Seq(Event)
         /\ <<e>> \o q # <<>>
         /\ Head(<<e>> \o q) = e
         /\ WantsContext(<<e>> \o q) => e.type \in {"CONTEXT_LOADED", "REPLAY"} \/ WantsContext(q)
<1> DEFINE both == <<e>> \o q
<1>1. /\ both \in Seq(Event) /\ Len(both) = Len(q) + 1 /\ Len(q) \in Nat
      /\ both # <<>> /\ Head(both) = e
  OBVIOUS
<1>2. ASSUME NEW i \in 1..Len(both)
      PROVE  IF i = 1 THEN both[i] = e ELSE i - 1 \in 1..Len(q) /\ both[i] = q[i - 1]
  BY <1>1
<1>3. WantsContext(both) => e.type \in {"CONTEXT_LOADED", "REPLAY"} \/ WantsContext(q)
  <2> HIDE DEF both
  <2> QED
    BY <1>2 DEF WantsContext
<1> QED
  BY <1>1, <1>3

LEMMA QueueTail ==
  ASSUME NEW q \in Seq(Event), q # <<>>
  PROVE  /\ Head(q) \in Event
         /\ Tail(q) \in Seq(Event)
         /\ Head(q).type \in {"CONTEXT_LOADED", "REPLAY"} => WantsContext(q)
         /\ WantsContext(Tail(q)) => WantsContext(q)
<1>1. Len(q) \in Nat /\ Len(q) # 0 /\ Head(q) = q[1] /\ Len(Tail(q)) = Len(q) - 1
  OBVIOUS
<1>2. \A i \in 1..Len(Tail(q)) : i + 1 \in 1..Len(q) /\ Tail(q)[i] = q[i + 1]
  BY <1>1
<1> QED
  BY <1>1, <1>2 DEF WantsContext

LEMMA NotificationsWait ==
  ASSUME NEW events \in Seq(Notification)
  PROVE  events \in Seq(Event) /\ ~WantsContext(events)
<1>1. \A e \in Notification : e \in Event /\ e.type \notin {"CONTEXT_LOADED", "REPLAY"}
  BY DEF Event, Notification, PlainEvent, TurnEndedEvent, NewUserCycleEvent
<1>2. Len(events) \in Nat /\ \A i \in 1..Len(events) : events[i] \in Notification
  OBVIOUS
<1> QED
  BY <1>1, <1>2 DEF WantsContext

\* What follows when the machine, its effects and the running call stay.
LEMMA QueueingKeeps ==
  ASSUME PluginInv, NEW events \in Seq(Event), events # <<>>, enqueue(events),
         UNCHANGED <<machine, judging, cutOff>>, agent' = "gone" \/ agent # "gone",
         context' = context \/ (context' \in Context /\ agent # "gone"),
         agent # "gone" /\ WantsContext(events) => context' \in Context
  PROVE  PluginInv'
<1> USE DEF PluginInv
<1>1. MachineInv'
  BY DEF MachineInv, machine
<1>2. CASE agent # "gone" /\ queue' = queue \o events /\ wake /\ UNCHANGED <<todo, ghost>>
  <2>1. /\ queue' \in Seq(Event) /\ queue' # <<>>
        /\ queue # <<>> => Head(queue') = Head(queue)
        /\ WantsContext(queue') => WantsContext(queue) \/ WantsContext(events)
    BY <1>2, QueueEnd DEF DrainInv
  <2>2. pc' = IF pc # "off" THEN pc ELSE IF restored THEN "take" ELSE "restore"
    BY <1>2 DEF wake
  <2>3. DrainInv'
    BY <1>2, <2>1, <2>2 DEF DrainInv, MachineInv, machine
  <2>4. CallInv'
    BY <1>2, <2>1, <2>2 DEF CallInv
  <2>5. AnswerInv'
    BY <1>2, <2>1 DEF AnswerInv, machine
  <2> QED
    BY <1>1, <2>3, <2>4, <2>5
<1>3. CASE agent = "gone" /\ ghost' = ghost \o events /\ UNCHANGED <<queue, pc, todo>>
  <2>1. ghost' \in Seq(Event)
    BY <1>3, QueueEnd DEF DrainInv
  <2>2. DrainInv' /\ CallInv' /\ AnswerInv'
    BY <1>3, <2>1 DEF DrainInv, CallInv, AnswerInv, machine
  <2> QED
    BY <1>1, <2>2
<1> QED
  BY <1>2, <1>3 DEF enqueue

LEMMA NotifiedKeeps ==
  ASSUME PluginInv, Notified, agent = "gone" => agent' = "gone"
  PROVE  PluginInv'
<1>1. PICK events \in Seq(Notification) : events # <<>> /\ enqueue(events)
  BY DEF Notified
<1>2. events \in Seq(Event) /\ ~WantsContext(events)
  BY NotificationsWait
<1> QED
  BY <1>1, <1>2, QueueingKeeps DEF Notified, call, past

LEMMA ReplayedKeeps ==
  ASSUME PluginInv, Replayed, agent = "gone" => agent' = "gone"
  PROVE  PluginInv'
<1>1. PICK loaded \in Context :
        /\ enqueue(<<[type |-> "REPLAY", turn |-> loaded.turn]>>)
        /\ context' = IF agent = "gone" THEN context ELSE loaded
  BY DEF Replayed
<1>2. [type |-> "REPLAY", turn |-> loaded.turn] \in Event
  BY DEF Context, ReplayEvent, Event
<1> DEFINE events == <<[type |-> "REPLAY", turn |-> loaded.turn]>>
<1>3. events \in Seq(Event) /\ events # <<>>
  BY <1>2
<1> HIDE DEF events
<1>4. enqueue(events)
  BY <1>1 DEF events
<1> QED
  BY <1>1, <1>3, <1>4, QueueingKeeps DEF Replayed, past

\* An effect that is over leaves the rest of its event, with its result in front.
LEMMA DoneKeeps ==
  ASSUME PluginInv, pc \in {"judge", "send"} \/ (pc = "run" /\ todo # <<>>), NEW e \in Event, Done(e),
         UNCHANGED <<machine, cutOff>>, agent = "gone" => agent' = "gone",
         context' \in Context \union {None}, judging' \in Context \union {None},
         context \in Context => context' \in Context,
         e.type \in {"CONTEXT_LOADED", "REPLAY"} => context' \in Context,
         todo = <<classify>> => e.type \in {"VERDICT", "EFFECT_ERROR"},
         todo = <<sendContinuation>> => e.type \in {"CONTINUATION_PERSISTED", "EFFECT_ERROR"}
  PROVE  PluginInv'
<1>1. MachineInv'
  BY DEF PluginInv, MachineInv, machine
<1>2. todo \in Lineups /\ todo # <<>>
  BY LineupsDiffer DEF PluginInv, DrainInv
<1>3. /\ todo' \in Lineups \ {<<classify>>, <<loadContext>>}
      /\ todo # <<trace, sendContinuation>> => todo' = <<>>
      /\ todo = <<trace, sendContinuation>> => todo' = <<sendContinuation>>
  BY <1>2, LineupFacts DEF Done
<1>4. \/ /\ agent = "gone"
         /\ queue' = queue /\ ghost' \in Seq(Event)
      \/ /\ agent # "gone"
         /\ queue' \in Seq(Event) /\ queue' # <<>> /\ Head(queue') = e
         /\ WantsContext(queue') => e.type \in {"CONTEXT_LOADED", "REPLAY"} \/ WantsContext(queue)
         /\ ghost' = ghost
  <2>1. queue \in Seq(Event) /\ ghost \in Seq(Event)
    BY DEF PluginInv, DrainInv
  <2>2. <<e>> \o ghost \in Seq(Event)
    BY <2>1, QueueFront
  <2>3. /\ <<e>> \o queue \in Seq(Event) /\ <<e>> \o queue # <<>> /\ Head(<<e>> \o queue) = e
        /\ WantsContext(<<e>> \o queue) => e.type \in {"CONTEXT_LOADED", "REPLAY"} \/ WantsContext(queue)
    BY <2>1, QueueFront
  <2>4. \/ agent = "gone" /\ ghost' = <<e>> \o ghost /\ queue' = queue
        \/ agent # "gone" /\ queue' = <<e>> \o queue /\ ghost' = ghost
    BY DEF Done, followUp
  <2>5. CASE agent = "gone" /\ ghost' = <<e>> \o ghost /\ queue' = queue
    BY <2>2, <2>5
  <2>6. CASE agent # "gone" /\ queue' = <<e>> \o queue /\ ghost' = ghost
    <3>1. /\ queue' \in Seq(Event) /\ queue' # <<>> /\ Head(queue') = e
          /\ WantsContext(queue') => e.type \in {"CONTEXT_LOADED", "REPLAY"} \/ WantsContext(queue)
      BY <2>3, <2>6, Zenon
    <3> QED
      BY <2>6, <3>1
  <2> QED
    BY <2>4, <2>5, <2>6
<1>5. DrainInv'
  BY <1>1, <1>3, <1>4 DEF PluginInv, DrainInv, Done, machine
<1>6. CallInv'
  BY <1>3, <1>4 DEF PluginInv, CallInv, Done
<1>7. AnswerInv'
  BY <1>2, <1>3, <1>4, LineupsDiffer DEF PluginInv, AnswerInv, machine
<1> QED
  BY <1>1, <1>5, <1>6, <1>7 DEF PluginInv

LEMMA ReportedKeeps ==
  ASSUME PluginInv, Reported, agent = "gone" => agent' = "gone"
  PROVE  PluginInv'
<1>1. PICK e \in Report :
        /\ Done(e)
        /\ e.type = "TRACE_PERSISTED" => pc = "run" /\ Head(todo).type = "WRITE_TRACE"
        /\ e.type = "CONTINUATION_PERSISTED" => pc = "send"
  BY DEF Reported
<1>2. e \in Event /\ e.type \in {"EFFECT_ERROR", "TRACE_PERSISTED", "CONTINUATION_PERSISTED"}
  BY DEF Event, Report, PlainEvent
<1>3. todo \in Lineups /\ todo # <<>> /\ (pc = "send" => todo = <<sendContinuation>>)
  BY LineupsDiffer DEF Reported, PluginInv, DrainInv
<1>4. todo = <<classify>> => e.type \in {"VERDICT", "EFFECT_ERROR"}
  BY <1>1, <1>2, <1>3, LineupFacts, LineupsDiffer
<1>5. todo = <<sendContinuation>> => e.type \in {"CONTINUATION_PERSISTED", "EFFECT_ERROR"}
  BY <1>1, <1>2, <1>3, LineupFacts, LineupsDiffer
<1>6. context' = context /\ context \in Context \union {None} /\ judging' \in Context \union {None}
  BY DEF Reported, PluginInv, CallInv
<1> QED
  BY <1>1, <1>2, <1>4, <1>5, <1>6, DoneKeeps DEF Reported, past

LEMMA LoadContextKeeps ==
  ASSUME OpenCodeInv, PluginInv, LoadContext
  PROVE  PluginInv'
<1> DEFINE loaded == buildContext(msgs, state)
           e == [type |-> "CONTEXT_LOADED", turn |-> loaded.turn, originUserID |-> loaded.originUserID]
<1>1. loaded \in Context
  BY ContextType DEF OpenCodeInv, Transcripts
<1>2. context' = loaded /\ Done(e) /\ pc = "run" /\ todo # <<>> /\ Head(todo).type = "LOAD_CONTEXT"
  BY DEF LoadContext, Perform
<1> HIDE DEF loaded
<1>3. e \in Event
  BY <1>1 DEF Context, ContextLoadedEvent, Event
<1>4. todo = <<loadContext>>
  BY <1>2, LineupFacts DEF PluginInv, DrainInv
<1>5. judging' \in Context \union {None}
  BY DEF LoadContext, PluginInv, CallInv
<1>6. UNCHANGED <<machine, cutOff>> /\ agent' = agent
  BY DEF LoadContext, opencode, history
<1> HIDE DEF e
<1> QED
  BY <1>1, <1>2, <1>3, <1>4, <1>5, <1>6, LineupsDiffer, DoneKeeps

LEMMA FinishClassifyKeeps ==
  ASSUME PluginInv, NEW d \in Decisions, FinishClassify(d)
  PROVE  PluginInv'
<1> DEFINE e == [type |-> "VERDICT", decision |-> d, originUserID |-> judging.originUserID]
<1>1. pc = "judge" /\ Done(e) /\ judging' = None /\ context' = context
      /\ UNCHANGED <<machine, cutOff>> /\ agent' = agent
  BY DEF FinishClassify, opencode
<1>2. judging \in Context /\ todo = <<classify>> /\ context \in Context \union {None}
  BY <1>1 DEF PluginInv, CallInv, DrainInv
<1>3. e \in Event /\ e.type = "VERDICT"
  BY <1>2, SessionAssumption DEF Context, VerdictEvent, Event
<1> HIDE DEF e
<1>4. todo # <<sendContinuation>>
  BY <1>2, LineupsDiffer
<1> QED
  BY <1>1, <1>2, <1>3, <1>4, DoneKeeps

LEMMA RestoreKeeps ==
  ASSUME PluginInv, Restore
  PROVE  PluginInv'
<1>1. pc = "restore" /\ restored' = TRUE /\ pc' = "take" /\ ~restored
      /\ state' = (IF saved = None THEN state ELSE normalizeRestoredState(saved))
      /\ UNCHANGED <<agent, saved, queue, todo, ghost, context, judging>>
  BY DEF Restore, opencode, call, PluginInv, DrainInv
<1>2. Sound(state') /\ state'.phase = "IDLE"
  <2>1. CASE saved = None
    BY <1>1, <2>1 DEF PluginInv, MachineInv, createInitialState
  <2>2. CASE saved # None
    <3>1. Sound(saved)
      BY <2>2 DEF PluginInv, MachineInv
    <3>2. normalizeRestoredState(saved).phase = "IDLE"
      BY <3>1 DEF Sound, ModerationState, normalizeRestoredState
    <3> QED
      BY <1>1, <2>2, <3>1, <3>2, RestoreSound
  <2> QED
    BY <2>1, <2>2
<1>3. MachineInv'
  BY <1>1, <1>2 DEF PluginInv, MachineInv
<1>4. DrainInv' /\ CallInv'
  BY <1>1 DEF PluginInv, DrainInv, CallInv
<1>5. AnswerInv'
  BY <1>2 DEF AnswerInv
<1> QED
  BY <1>3, <1>4, <1>5 DEF PluginInv

\* The drain that follows a failed restore takes the first event in the initial state.
LEMMA RestoreFailsKeeps ==
  ASSUME PluginInv, RestoreFails
  PROVE  PluginInv'
<1>1. pc = "restore" /\ restored' = TRUE /\ pc' = "take" /\ ~restored /\ state = createInitialState
      /\ UNCHANGED <<agent, state, saved, queue, todo, ghost, context, judging>>
  BY DEF RestoreFails, opencode, call, PluginInv, DrainInv, MachineInv
<1>2. MachineInv'
  BY <1>1 DEF PluginInv, MachineInv
<1>3. DrainInv' /\ CallInv'
  BY <1>1 DEF PluginInv, DrainInv, CallInv
<1>4. AnswerInv'
  BY <1>1 DEF AnswerInv, createInitialState
<1> QED
  BY <1>2, <1>3, <1>4 DEF PluginInv

LEMMA TakeKeeps ==
  ASSUME PluginInv, Take
  PROVE  PluginInv'
<1> DEFINE e == Head(queue)
           out == transition(state, e)
<1>1. /\ pc = "take" /\ pc' = "run" /\ state' = out.state /\ todo' = out.effects /\ queue' = Tail(queue)
      /\ cutOff' = (cutOff /\ state'.phase = "CLASSIFYING")
      /\ UNCHANGED <<agent, saved, restored, ghost, context, judging>>
  BY DEF Take, opencode, call
<1>2. /\ queue \in Seq(Event) /\ queue # <<>> /\ restored /\ Sound(state) /\ todo = <<>>
      /\ ghost \in Seq(Event)
  BY <1>1 DEF PluginInv, MachineInv, DrainInv
<1>3. /\ e \in Event /\ Tail(queue) \in Seq(Event)
      /\ e.type \in {"CONTEXT_LOADED", "REPLAY"} => WantsContext(queue)
      /\ WantsContext(Tail(queue)) => WantsContext(queue)
  BY <1>2, QueueTail
<1>4. Sound(out.state) /\ EffectsFit(state, e, out)
  BY <1>2, <1>3, EventSound, EventFits
<1> HIDE DEF e, out
<1>5. MachineInv'
  BY <1>1, <1>2, <1>4 DEF PluginInv, MachineInv
<1>6. DrainInv'
  <2>1. todo' \in Lineups
    BY <1>1, <1>4 DEF EffectsFit
  <2>2. ghost # <<>> => agent = "gone"
    BY DEF PluginInv, DrainInv
  <2> QED
    BY <1>1, <1>2, <1>3, <2>1, <2>2 DEF DrainInv
<1>7. CallInv'
  <2>1. todo' = <<classify>> => context' \in Context
    BY <1>1, <1>3, <1>4 DEF EffectsFit, PluginInv, CallInv
  <2>2. WantsContext(queue') => context' \in Context
    BY <1>1, <1>3 DEF PluginInv, CallInv
  <2> QED
    BY <1>1, <2>1, <2>2 DEF PluginInv, CallInv
<1>8. AnswerInv'
  <2>1. SUFFICES ASSUME agent # "gone" PROVE AnswerInv'
    BY <1>1 DEF AnswerInv
  <2>2. state.phase = "CLASSIFYING" => cutOff \/ e.type \in {"VERDICT", "EFFECT_ERROR"}
    BY <1>2, <2>1, LineupsDiffer DEF PluginInv, AnswerInv, e
  <2>3. state.phase = "CONTINUING" => e.type \in {"CONTINUATION_PERSISTED", "EFFECT_ERROR"}
    BY <1>2, <2>1, LineupsDiffer DEF PluginInv, AnswerInv, e
  <2>4. state'.phase = "CLASSIFYING" => cutOff' \/ todo' = <<classify>>
    BY <1>1, <1>4, <2>2 DEF EffectsFit
  <2>5. state'.phase = "CONTINUING" => todo' = <<trace, sendContinuation>>
    BY <1>1, <1>4, <2>3 DEF EffectsFit
  <2> QED
    BY <2>4, <2>5 DEF AnswerInv
<1> QED
  BY <1>5, <1>6, <1>7, <1>8 DEF PluginInv

LEMMA StartClassifyKeeps ==
  ASSUME PluginInv, StartClassify
  PROVE  PluginInv'
<1>1. /\ pc = "run" /\ pc' = "judge" /\ judging' = context /\ todo # <<>> /\ Head(todo).type = "CLASSIFY"
      /\ UNCHANGED <<agent, state, saved, restored, queue, todo, ghost, context, cutOff>>
  BY DEF StartClassify, Perform, opencode, machine, history
<1>2. todo = <<classify>>
  BY <1>1, LineupFacts DEF PluginInv, DrainInv
<1>3. MachineInv' /\ AnswerInv'
  BY <1>1 DEF PluginInv, MachineInv, AnswerInv
<1>4. DrainInv'
  BY <1>1, <1>2 DEF PluginInv, DrainInv
<1>5. CallInv'
  BY <1>1, <1>2 DEF PluginInv, CallInv
<1> QED
  BY <1>3, <1>4, <1>5 DEF PluginInv

\* What is left when the error of a classification is lost.
LEMMA ErrorTraceFailsKeeps ==
  ASSUME PluginInv, ErrorTraceFails
  PROVE  PluginInv'
<1>1. /\ pc = "judge" /\ todo' = <<>> /\ judging' = None /\ cutOff' = TRUE
      /\ pc' = IF queue = <<>> THEN "off" ELSE "take"
      /\ UNCHANGED <<agent, state, saved, restored, queue, ghost, context>>
  BY DEF ErrorTraceFails, opencode, machine
<1>2. todo = <<classify>> /\ restored /\ <<>> \in Lineups
  BY <1>1 DEF PluginInv, DrainInv, Lineups
<1>3. MachineInv'
  BY <1>1 DEF PluginInv, MachineInv
<1>4. DrainInv'
  BY <1>1, <1>2 DEF PluginInv, DrainInv
<1>5. CallInv'
  BY <1>1, LineupsDiffer DEF PluginInv, CallInv
<1>6. state.phase # "CONTINUING" \/ agent = "gone"
  BY <1>2, LineupsDiffer DEF PluginInv, AnswerInv
<1>7. AnswerInv'
  BY <1>1, <1>6 DEF AnswerInv
<1> QED
  BY <1>3, <1>4, <1>5, <1>7 DEF PluginInv

LEMMA LookedKeeps ==
  ASSUME PluginInv, Looked
  PROVE  PluginInv'
<1>1. /\ pc = "run" /\ pc' = "send" /\ todo # <<>> /\ Head(todo).type = "SEND_CONTINUATION"
      /\ UNCHANGED <<agent, state, saved, restored, queue, todo, ghost, context, judging, cutOff>>
  BY DEF Looked, opencode, machine, call, past
<1>2. todo = <<sendContinuation>>
  BY <1>1, LineupFacts DEF PluginInv, DrainInv
<1>3. MachineInv' /\ AnswerInv' /\ CallInv'
  BY <1>1 DEF PluginInv, MachineInv, AnswerInv, CallInv
<1>4. DrainInv'
  BY <1>1, <1>2 DEF PluginInv, DrainInv
<1> QED
  BY <1>3, <1>4 DEF PluginInv

LEMMA VerifyPromptKeeps ==
  ASSUME PluginInv, VerifyPrompt
  PROVE  PluginInv'
<1>1. /\ pc = "run" /\ todo' = Tail(todo) /\ todo # <<>> /\ Head(todo).type = "VERIFY_PROMPT"
      /\ UNCHANGED <<agent, state, saved, restored, queue, pc, ghost, context, judging, cutOff>>
  BY DEF VerifyPrompt, Perform, opencode, machine, call, history
<1>2. todo = <<verifyPrompt>> /\ todo' = <<>>
  BY <1>1, LineupFacts, LineupsDiffer DEF PluginInv, DrainInv
<1>3. todo \notin {<<classify>>, <<sendContinuation>>, <<trace, sendContinuation>>, <<>>}
  BY <1>2, LineupFacts, LineupsDiffer
<1>4. MachineInv' /\ AnswerInv'
  BY <1>1, <1>3 DEF PluginInv, MachineInv, AnswerInv
<1>5. DrainInv'
  BY <1>1, <1>2 DEF PluginInv, DrainInv, Lineups
<1>6. CallInv'
  BY <1>1, <1>2, LineupsDiffer DEF PluginInv, CallInv
<1> QED
  BY <1>4, <1>5, <1>6 DEF PluginInv

LEMMA SaveKeeps ==
  ASSUME PluginInv, Save \/ SaveFails
  PROVE  PluginInv'
<1>1. /\ pc = "run" /\ todo = <<>> /\ saved' \in {saved, state}
      /\ pc' = IF queue = <<>> THEN "off" ELSE "take"
      /\ UNCHANGED <<agent, state, restored, queue, todo, ghost, context, judging, cutOff>>
  BY DEF Save, SaveFails, opencode, machine, call, history
<1>2. MachineInv'
  BY <1>1 DEF PluginInv, MachineInv
<1>3. DrainInv'
  BY <1>1, LineupsDiffer DEF PluginInv, DrainInv
<1>4. CallInv' /\ AnswerInv'
  BY <1>1 DEF PluginInv, CallInv, AnswerInv
<1> QED
  BY <1>2, <1>3, <1>4 DEF PluginInv

LEMMA GhostSavesKeeps ==
  ASSUME PluginInv, GhostSaves
  PROVE  PluginInv'
<1>1. /\ ghost # <<>> /\ saved' = transition(createInitialState, Head(ghost)).state /\ ghost' = Tail(ghost)
      /\ UNCHANGED <<agent, state, restored, queue, pc, todo, context, judging, cutOff>>
  BY DEF GhostSaves, opencode, call, history
<1>2. Head(ghost) \in Event /\ ghost' \in Seq(Event)
  BY <1>1 DEF PluginInv, DrainInv
<1>3. Sound(saved')
  BY <1>1, <1>2, InitialSound, EventSound
<1>4. MachineInv'
  BY <1>1, <1>3 DEF PluginInv, MachineInv
<1>5. DrainInv'
  BY <1>1, <1>2 DEF PluginInv, DrainInv
<1>6. CallInv' /\ AnswerInv'
  BY <1>1 DEF PluginInv, CallInv, AnswerInv
<1> QED
  BY <1>4, <1>5, <1>6 DEF PluginInv

LEMMA DeletedOrCrashKeeps ==
  ASSUME PluginInv, Deleted \/ Crash
  PROVE  PluginInv'
<1>1. CASE Deleted
  BY <1>1 DEF Deleted, drain, call, history, PluginInv, MachineInv, DrainInv, CallInv, AnswerInv
<1>2. CASE Crash
  <2>1. /\ state' = createInitialState /\ restored' = FALSE /\ saved' = saved
        /\ queue' = <<>> /\ pc' = "off" /\ todo' = <<>> /\ ghost' = <<>> /\ context' = None /\ judging' = None
    BY <1>2 DEF Crash
  <2>2. MachineInv'
    BY <2>1, InitialSound DEF PluginInv, MachineInv
  <2>3. DrainInv'
    BY <2>1 DEF DrainInv, Lineups
  <2>4. CallInv' /\ AnswerInv'
    BY <2>1, LineupsDiffer DEF CallInv, AnswerInv, createInitialState, WantsContext
  <2> QED
    BY <2>2, <2>3, <2>4 DEF PluginInv
<1> QED
  BY <1>1, <1>2

LEMMA PluginInit == Init => PluginInv
<1> SUFFICES ASSUME Init PROVE PluginInv
  OBVIOUS
<1>1. MachineInv
  BY InitialSound DEF Init, MachineInv
<1>2. DrainInv
  BY DEF Init, DrainInv, Lineups
<1>3. CallInv /\ AnswerInv
  BY LineupsDiffer DEF Init, CallInv, AnswerInv, createInitialState, WantsContext
<1> QED
  BY <1>1, <1>2, <1>3 DEF PluginInv

LEMMA PluginStepKeeps ==
  ASSUME OpenCodeInv, PluginInv, [Next]_vars
  PROVE  PluginInv'
<1>1. agent = "gone" => agent' = "gone"
  BY GoneForGood
<1>2. CASE Quiet
  BY <1>1, <1>2 DEF Quiet, machine, drain, call, past, PluginInv, MachineInv, DrainInv, CallInv, AnswerInv
<1>3. CASE Notified \/ Replayed \/ Reported
  BY <1>1, <1>3, NotifiedKeeps, ReplayedKeeps, ReportedKeeps
<1>4. CASE LoadContext \/ \E d \in Decisions : FinishClassify(d)
  BY <1>4, LoadContextKeeps, FinishClassifyKeeps
<1>5. CASE Restore \/ RestoreFails \/ Take \/ StartClassify \/ ErrorTraceFails
  BY <1>5, RestoreKeeps, RestoreFailsKeeps, TakeKeeps, StartClassifyKeeps, ErrorTraceFailsKeeps
<1>7. CASE Looked \/ VerifyPrompt
  BY <1>7, LookedKeeps, VerifyPromptKeeps
<1>6. CASE Save \/ SaveFails \/ GhostSaves \/ Deleted \/ Crash
  BY <1>6, SaveKeeps, GhostSavesKeeps, DeletedOrCrashKeeps
<1> QED
  BY <1>2, <1>3, <1>4, <1>5, <1>6, <1>7, PluginSteps

\* The invariant holds of every session.
THEOREM SessionInvariant == Spec => [](OpenCodeInv /\ PluginInv)
<1>1. Init => OpenCodeInv /\ PluginInv
  BY OpenCodeInit, PluginInit
<1>2. OpenCodeInv /\ PluginInv /\ [Next]_vars => (OpenCodeInv /\ PluginInv)'
  BY OpenCodeStep, PluginStepKeeps
<1> QED
  BY <1>1, <1>2, PTL DEF Spec

\* No notification overtakes the answer a machine waits for, and the drain never
\* stops while it waits, whatever the timing, the faults and the crashes
\* (adapter.ts:102-106, 127-140).
THEOREM AnswerAlwaysComesNext == Spec => []AnswerComesNext
<1>1. PluginInv => AnswerComesNext
  <2> SUFFICES ASSUME PluginInv, pc \in {"off", "take"}, agent # "gone"
               PROVE  /\ state.phase = "CLASSIFYING" =>
                           cutOff \/ (queue # <<>> /\ Head(queue).type \in {"VERDICT", "EFFECT_ERROR"})
                      /\ state.phase = "CONTINUING" =>
                           queue # <<>> /\ Head(queue).type \in {"CONTINUATION_PERSISTED", "EFFECT_ERROR"}
    BY DEF AnswerComesNext
  <2>1. todo = <<>>
    BY DEF PluginInv, DrainInv
  <2> QED
    BY <2>1, LineupsDiffer DEF PluginInv, AnswerInv
<1> QED
  BY <1>1, SessionInvariant, PTL

-----------------------------------------------------------------------------
(* A session implements the state machine.  The machine's operators come    *)
(* twice here, once by name and once through the instance FSM; the lemmas   *)
(* say that they are the same.                                              *)

LEMMA SameOutcomes ==
  /\ \A s, d, t, e : FSM!result(s, d, t, e) = result(s, d, t, e)
  /\ FSM!loadContext = loadContext /\ FSM!verifyPrompt = verifyPrompt /\ FSM!classify = classify
  /\ FSM!trace = trace /\ FSM!sendContinuation = sendContinuation
  /\ \A s : FSM!terminalState(s) = terminalState(s)
  /\ \A s, t, u : FSM!withContext(s, t, u) = withContext(s, t, u)
  /\ \A s, d, u : FSM!BlockerFor(s, d, u) = BlockerFor(s, d, u)
  /\ \A t : FSM!eligibilitySkip(t) = eligibilitySkip(t)
<1>1. \A s, d, t, e : FSM!result(s, d, t, e) = result(s, d, t, e)
  BY DEF FSM!result, result
<1>2. /\ FSM!loadContext = loadContext /\ FSM!verifyPrompt = verifyPrompt /\ FSM!classify = classify
      /\ FSM!trace = trace /\ FSM!sendContinuation = sendContinuation
  BY DEF FSM!loadContext, loadContext, FSM!verifyPrompt, verifyPrompt, FSM!classify, classify,
         FSM!trace, trace, FSM!sendContinuation, sendContinuation, FSM!Effect, Effect
<1>3. \A s : FSM!terminalState(s) = terminalState(s)
  BY DEF FSM!terminalState, terminalState
<1>4. \A s, t, u : FSM!withContext(s, t, u) = withContext(s, t, u)
  BY DEF FSM!withContext, withContext
<1>5. \A s, d, u : FSM!BlockerFor(s, d, u) = BlockerFor(s, d, u)
  BY DEF FSM!BlockerFor, BlockerFor
<1>6. \A t : FSM!eligibilitySkip(t) = eligibilitySkip(t)
  BY DEF FSM!eligibilitySkip, eligibilitySkip, FSM!ELIGIBILITY, ELIGIBILITY
<1> QED
  BY <1>1, <1>2, <1>3, <1>4, <1>5, <1>6

LEMMA SameContextLoaded ==
  ASSUME NEW s, NEW t, NEW u
  PROVE  FSM!onContextLoaded(s, t, u) = onContextLoaded(s, t, u)
<1>1. CASE t.flags # {}
  BY <1>1, SameOutcomes DEF FSM!onContextLoaded, onContextLoaded
<1>2. CASE t.flags = {} /\ t.rootBlocked
  BY <1>2, SameOutcomes DEF FSM!onContextLoaded, onContextLoaded
<1>3. CASE t.flags = {} /\ ~t.rootBlocked /\ t.blockerDiscussion
  BY <1>3, SameOutcomes DEF FSM!onContextLoaded, onContextLoaded
<1>4. CASE t.flags = {} /\ ~t.rootBlocked /\ ~t.blockerDiscussion
  BY <1>4, SameOutcomes DEF FSM!onContextLoaded, onContextLoaded
<1> QED
  BY <1>1, <1>2, <1>3, <1>4

LEMMA SameTransition ==
  ASSUME NEW s, NEW e
  PROVE  FSM!transition(s, e) = transition(s, e)
<1>1. \A a : FSM!onTurnEnded(s, a) = onTurnEnded(s, a)
  BY SameOutcomes DEF FSM!onTurnEnded, onTurnEnded
<1>2. \A d : FSM!onUnfinished(s, d) = onUnfinished(s, d)
  BY SameOutcomes DEF FSM!onUnfinished, onUnfinished
<1>3. \A d, u : FSM!onVerdict(s, d, u) = onVerdict(s, d, u)
  BY <1>2, SameOutcomes DEF FSM!onVerdict, onVerdict
<1>4. \A u, b : FSM!onNewUserCycle(s, u, b) = onNewUserCycle(s, u, b)
  BY SameOutcomes DEF FSM!onNewUserCycle, onNewUserCycle
<1>5. FSM!onEffectError(s) = onEffectError(s)
  BY SameOutcomes DEF FSM!onEffectError, onEffectError
<1>6. \A t : FSM!onReplay(s, t) = onReplay(s, t)
  BY SameOutcomes DEF FSM!onReplay, onReplay
<1>7. FSM!EVENT_PHASES = EVENT_PHASES
  BY DEF FSM!EVENT_PHASES, EVENT_PHASES, FSM!PHASES, PHASES
<1>8. FSM!dispatch(s, e) = dispatch(s, e)
  BY <1>1, <1>3, <1>4, <1>5, <1>6, SameOutcomes, SameContextLoaded DEF FSM!dispatch, dispatch
<1> QED
  BY <1>7, <1>8, SameOutcomes DEF FSM!transition, transition

\* The state the machine is in, as the instance FSM sees it.
machineState ==
  IF restored THEN state
  ELSE IF saved = None THEN createInitialState
  ELSE normalizeRestoredState(saved)

\* Draining an event is a step of the machine.
LEMMA FireImplements ==
  ASSUME NEW e \in Event, UNCHANGED saved,
         machineState' = transition(machineState, e).state
  PROVE  FSM!Next
<1>1. FSM!Fire(e)
  BY SameTransition DEF FSM!Fire, machineState
<1>2. \/ e \in FSM!PlainEvent({"STATUS_BUSY"})
      \/ e \in FSM!PlainEvent({"COMPACTION_STARTED", "COMPACTION_COMPLETED"})
      \/ e \in FSM!PlainEvent({"EFFECT_ERROR"})
      \/ e \in FSM!PlainEvent({"TRACE_PERSISTED"})
      \/ e \in FSM!PlainEvent({"CONTINUATION_PERSISTED"})
      \/ e \in FSM!TurnEndedEvent \/ e \in FSM!NewUserCycleEvent \/ e \in FSM!ContextLoadedEvent
      \/ e \in FSM!VerdictEvent \/ e \in FSM!ReplayEvent
  <2>1. \/ e \in PlainEvent({"STATUS_BUSY", "COMPACTION_STARTED", "COMPACTION_COMPLETED", "EFFECT_ERROR",
                             "TRACE_PERSISTED", "CONTINUATION_PERSISTED"})
        \/ e \in TurnEndedEvent \/ e \in NewUserCycleEvent \/ e \in ContextLoadedEvent
        \/ e \in VerdictEvent \/ e \in ReplayEvent
    BY DEF Event, Notification, Report, PlainEvent
  <2>2. \A types : FSM!PlainEvent(types) = PlainEvent(types)
    BY DEF FSM!PlainEvent, PlainEvent
  <2>3. FSM!TurnFact = TurnFact
    BY DEF FSM!TurnFact, TurnFact, FSM!Nullable, Nullable
  <2>4. /\ FSM!TurnEndedEvent = TurnEndedEvent /\ FSM!NewUserCycleEvent = NewUserCycleEvent
        /\ FSM!ContextLoadedEvent = ContextLoadedEvent /\ FSM!VerdictEvent = VerdictEvent
        /\ FSM!ReplayEvent = ReplayEvent
    BY <2>3 DEF FSM!TurnEndedEvent, TurnEndedEvent, FSM!NewUserCycleEvent, NewUserCycleEvent,
                FSM!ContextLoadedEvent, ContextLoadedEvent, FSM!VerdictEvent, VerdictEvent,
                FSM!ReplayEvent, ReplayEvent, FSM!Nullable, Nullable, FSM!VerdictDecision, VerdictDecision
  <2> QED
    BY <2>1, <2>2, <2>4 DEF PlainEvent
<1> QED
  BY <1>1, <1>2 DEF FSM!Next, FSM!StatusBusy, FSM!Compaction, FSM!EffectError, FSM!TracePersisted,
                    FSM!ContinuationPersisted, FSM!TurnEnded, FSM!NewUserCycle, FSM!ContextLoaded,
                    FSM!VerdictReturned, FSM!Replay

LEMMA SessionStepImplements ==
  ASSUME OpenCodeInv, PluginInv, [Next]_vars, agent' # "gone"
  PROVE  [FSM!Next]_(FSM!vars)
<1>1. agent # "gone"
  BY GoneForGood
<1>2. /\ FSM!createInitialState = createInitialState
      /\ \A s : FSM!normalizeRestoredState(s) = normalizeRestoredState(s)
  BY DEF FSM!createInitialState, createInitialState, FSM!normalizeRestoredState, normalizeRestoredState
<1>3. ASSUME UNCHANGED <<machineState, saved>> PROVE UNCHANGED FSM!vars
  BY <1>3 DEF FSM!vars, machineState
<1>4. CASE Quiet \/ Notified \/ Replayed \/ Reported \/ LoadContext \/ StartClassify
           \/ ErrorTraceFails \/ Looked \/ VerifyPrompt \/ SaveFails
           \/ \E d \in Decisions : FinishClassify(d)
  <2>1. UNCHANGED machine
    BY <1>4 DEF Quiet, Notified, Replayed, Reported, LoadContext, FinishClassify, StartClassify,
                ErrorTraceFails, Looked, VerifyPrompt, SaveFails
  <2> QED
    BY <1>3, <2>1 DEF machine, machineState
<1>5. CASE Restore
  <2>1. restored' = TRUE /\ ~restored /\ state = createInitialState /\ UNCHANGED saved
        /\ state' = IF saved = None THEN state ELSE normalizeRestoredState(saved)
    BY <1>5 DEF Restore, PluginInv, MachineInv, DrainInv
  <2> QED
    BY <1>3, <2>1 DEF machineState
<1>6. CASE Take
  <2>1. /\ pc = "take" /\ state' = transition(state, Head(queue)).state /\ UNCHANGED <<saved, restored>>
    BY <1>6 DEF Take
  <2>2. restored /\ Head(queue) \in Event
    BY <2>1, QueueTail DEF PluginInv, DrainInv
  <2> QED
    BY <2>1, <2>2, FireImplements DEF machineState
<1>7. CASE Save
  <2>1. restored /\ saved' = state /\ UNCHANGED <<state, restored>>
    BY <1>7 DEF Save, PluginInv, DrainInv
  <2>2. FSM!Persist
    BY <2>1 DEF FSM!Persist
  <2> QED
    BY <2>2 DEF FSM!Next
<1>8. CASE GhostSaves
  BY <1>1, <1>8 DEF GhostSaves, PluginInv, DrainInv
<1>9. CASE Deleted
  BY <1>9 DEF Deleted
<1>10. CASE Crash
  <2>1. restored' = FALSE /\ UNCHANGED saved
    BY <1>10 DEF Crash
  <2>2. FSM!Restart
    BY <1>2, <2>1 DEF FSM!Restart
  <2> QED
    BY <2>2 DEF FSM!Next
<1>11. CASE RestoreFails
  <2>1. restored' = TRUE /\ state = createInitialState /\ UNCHANGED <<state, saved>>
    BY <1>11 DEF RestoreFails, PluginInv, MachineInv, DrainInv
  <2>2. FSM!RestartAfresh
    BY <1>2, <2>1 DEF FSM!RestartAfresh
  <2> QED
    BY <2>2 DEF FSM!Next
<1> QED
  BY <1>4, <1>5, <1>6, <1>7, <1>8, <1>9, <1>10, <1>11, PluginSteps

-----------------------------------------------------------------------------
(* What is spent stays within the bounds.                                   *)

BudgetInv ==
  /\ budget \in [DOMAIN Budget -> Nat]
  /\ \A kind \in DOMAIN Budget : budget[kind] <= Budget[kind]

LEMMA SpentWithinBudget ==
  ASSUME BudgetInv, NEW kind \in DOMAIN Budget, Spend(kind)
  PROVE  BudgetInv' /\ Budget[kind] > 0
<1>1. Budget \in [DOMAIN Budget -> Nat]
  BY SessionAssumption
<1> QED
  BY <1>1 DEF BudgetInv, Spend

LEMMA BudgetStep ==
  ASSUME BudgetInv, [Next]_vars
  PROVE  BudgetInv'
<1>1. CASE UNCHANGED budget
  BY <1>1 DEF BudgetInv
<1>2. \/ UNCHANGED budget
      \/ \E kind \in {"crash", "fault", "abort", "compact", "replay", "delete"} : Spend(kind)
  <2>1. CASE UNCHANGED vars
    BY <2>1 DEF vars
  <2>2. CASE PluginStep
    BY <2>2 DEF PluginStep, Restore, Take, LoadContext, StartClassify, FinishClassify, WriteTrace,
                SendContinuation, PromptAccepted, VerifyPrompt, VerifyTimesOut, Save, GhostSaves, IdleReads,
                IdleResumes, ReplayResumes
  <2>3. CASE PluginFault
    BY <2>3 DEF PluginFault, RestoreFails, EffectFails, ErrorTraceFails, VerifyTooSoon, SaveFails, IdleFails, ReplayFails, Crash
  <2>4. CASE SessionStep
    BY <2>4 DEF SessionStep, ReplayReads, UserPrompts, CompactionReported, Autocontinues, PromptAppears,
                PromptLost, AgentResponds, AgentFinishes, Interrupt, Deleted
  <2> QED
    BY <2>1, <2>2, <2>3, <2>4 DEF Next
<1> QED
  BY <1>1, <1>2, SpentWithinBudget, SessionAssumption

LEMMA BudgetInvariant == Spec => []BudgetInv
<1>1. Init => BudgetInv
  BY SessionAssumption DEF Init, BudgetInv
<1> QED
  BY <1>1, BudgetStep, PTL DEF Spec

LEMMA OnlyDeletedIsGone ==
  ASSUME [Next]_vars, agent # "gone", agent' = "gone"
  PROVE  Deleted
<1>1. CASE UNCHANGED vars
  BY <1>1 DEF vars, opencode
<1>2. CASE PluginStep
  BY <1>2 DEF PluginStep, Restore, Take, LoadContext, StartClassify, FinishClassify, WriteTrace,
              SendContinuation, PromptAccepted, VerifyPrompt, VerifyTimesOut, Save, GhostSaves, IdleReads,
              IdleResumes, ReplayResumes, opencode
<1>3. CASE PluginFault
  BY <1>3 DEF PluginFault, RestoreFails, EffectFails, ErrorTraceFails, VerifyTooSoon, SaveFails, IdleFails, ReplayFails, Crash, opencode
<1>4. CASE SessionStep
  BY <1>4 DEF SessionStep, ReplayReads, UserPrompts, CompactionReported, Autocontinues, PromptAppears,
              PromptLost, AgentResponds, AgentFinishes, Interrupt, Prompt, opencode
<1> QED
  BY <1>1, <1>2, <1>3, <1>4 DEF Next

\* As long as the session lives, whatever the adapter does to its state is a
\* step of the state machine or none at all: overtaking events, faults, replays
\* and restarts included (adapter.ts:97-149).
SessionSteps == agent' # "gone" => [FSM!Next]_(FSM!vars)
THEOREM SessionStepsAreFsmSteps == Spec => [][SessionSteps]_vars
<1>1. OpenCodeInv /\ PluginInv /\ [Next]_vars => SessionSteps
  BY SessionStepImplements DEF SessionSteps
<1> QED
  BY <1>1, SessionInvariant, PTL DEF Spec

\* A session nobody deletes implements the state machine, so that the machine's
\* theorems hold of it (adapter.ts:97-149, fsm.ts).
THEOREM SessionImplementsFSM ==
  ASSUME Budget["delete"] = 0
  PROVE  Spec => ImplementsFSM
<1>1. Init => agent # "gone"
  BY DEF Init
<1>2. BudgetInv /\ agent # "gone" /\ [Next]_vars => (agent # "gone")'
  <2> SUFFICES ASSUME BudgetInv, agent # "gone", [Next]_vars PROVE agent' # "gone"
    OBVIOUS
  <2>1. ~Deleted
    <3>1. "delete" \in DOMAIN Budget
      BY SessionAssumption
    <3> QED
      BY <3>1, SpentWithinBudget DEF Deleted
  <2> QED
    BY <2>1, OnlyDeletedIsGone
<1>3. Init => FSM!Init
  BY DEF Init, FSM!Init, FSM!createInitialState, createInitialState
<1>4. OpenCodeInv /\ PluginInv /\ [Next]_vars /\ (agent # "gone")' => [FSM!Next]_(FSM!vars)
  BY SessionStepImplements
<1>5. Spec => [](agent # "gone")
  BY <1>1, <1>2, BudgetInvariant, PTL DEF Spec
<1> QED
  BY <1>3, <1>4, <1>5, SessionInvariant, PTL DEF Spec, ImplementsFSM, FSM!Spec

-----------------------------------------------------------------------------
(* A turn, from the context that is loaded for it to the verdict that is    *)
(* applied to it, when nothing is replayed.                                 *)

Reader == [stage : {"asked", "read"}, snapshot : Transcripts]
Verdict == [assistantID : Assistant, decision : VerdictDecision]

\* The facts of a turn come first, and only between the effects of two events.
Facts == {"CONTEXT_LOADED", "VERDICT"}
FactsFirst(q, rest) ==
  \A i \in 1..Len(q) : q[i].type # "REPLAY" /\ (q[i].type \in Facts => i = 1 /\ rest = <<>>)

\* The next event is of this type.
NextIs(type) == queue # <<>> /\ Head(queue).type = type

\* The assistants a turn is about are in the transcript.
Seen(a) == a # None => a <= newestModeratedAssistant(msgs)

\* A loaded context is the session's; a classification is for the assistant in
\* flight; so is the verdict that comes next.
TurnInv ==
  /\ idles \in Seq(Reader)
  /\ FactsFirst(queue, todo)
  /\ NextIs("CONTEXT_LOADED") =>
       Head(queue).turn = context.turn /\ Seen(context.turn.assistantID)
  /\ todo = <<classify>> =>
       /\ state.phase = "CLASSIFYING"
       /\ state.inflightAssistantID = context.turn.assistantID
       /\ Seen(context.turn.assistantID)
  /\ pc = "judge" => judging = context
  /\ verdicts \in Seq(Verdict)
  /\ \A i \in 1..Len(verdicts) : Seen(verdicts[i].assistantID)
  /\ NextIs("VERDICT") =>
       /\ restored
       /\ state.phase = "CLASSIFYING"
       /\ verdicts # <<>>
       /\ verdicts[Len(verdicts)] = [assistantID |-> state.inflightAssistantID,
                                     decision |-> Head(queue).decision]

\* The newest assistant message only gets newer, unless a replay takes back what
\* followed a corrective prompt.
LEMMA NewestGrows ==
  ASSUME NEW ms \in Transcripts, NEW next \in Transcripts,
         \A i \in 1..Len(ms) :
           ms[i].kind \in AssistantKinds => i <= Len(next) /\ next[i].kind \in AssistantKinds
  PROVE  newestModeratedAssistant(ms) <= newestModeratedAssistant(next)
<1> DEFINE a == newestModeratedAssistant(ms)
           b == newestModeratedAssistant(next)
<1>1. /\ Len(ms) \in Nat /\ Len(next) \in Nat
      /\ a \in 0..Len(ms) /\ b \in 0..Len(next)
      /\ a # 0 => ms[a].kind \in AssistantKinds
      /\ \A i \in 1..Len(next) : next[i].kind \in AssistantKinds => i <= b
  BY Newest DEF Transcripts
<1> HIDE DEF a, b
<1>2. a # 0 => a \in 1..Len(ms) /\ a \in 1..Len(next) /\ next[a].kind \in AssistantKinds
  BY <1>1
<1>3. a <= b
  BY <1>1, <1>2
<1> QED
  BY <1>3 DEF a, b

LEMMA AppendGrows ==
  ASSUME NEW ms \in Transcripts, NEW m, Append(ms, m) \in Transcripts
  PROVE  newestModeratedAssistant(ms) <= newestModeratedAssistant(Append(ms, m))
<1>1. Len(ms) \in Nat /\ ms \in Seq(Msg)
  BY DEF Transcripts
<1>2. Len(Append(ms, m)) = Len(ms) + 1 /\ \A i \in 1..Len(ms) : Append(ms, m)[i] = ms[i]
  BY <1>1
<1> DEFINE next == Append(ms, m)
<1>3. next \in Transcripts /\ Len(next) = Len(ms) + 1 /\ \A i \in 1..Len(ms) : next[i] = ms[i]
  BY <1>2
<1> HIDE DEF next
<1>4. newestModeratedAssistant(ms) <= newestModeratedAssistant(next)
  BY <1>1, <1>3, NewestGrows
<1> QED
  BY <1>4 DEF next

LEMMA TranscriptGrows ==
  ASSUME OpenCodeInv, OpenCodeInv', [Next]_vars, \A force : ~ReplayReads(force)
  PROVE  newestModeratedAssistant(msgs) <= newestModeratedAssistant(msgs')
<1>1. msgs \in Transcripts /\ msgs' \in Transcripts /\ Len(msgs) \in Nat
  BY DEF OpenCodeInv, Transcripts
<1>2. CASE UNCHANGED msgs
  BY <1>1, <1>2, NewestGrows
<1>3. CASE \E m : msgs' = Append(msgs, m)
  BY <1>1, <1>3, AppendGrows
<1>4. ASSUME NEW k \in FinishedKinds, AgentFinishes(k)
      PROVE  newestModeratedAssistant(msgs) <= newestModeratedAssistant(msgs')
  <2> DEFINE a == newestModeratedAssistant(msgs)
  <2>1. a \in 1..Len(msgs) /\ k \in AssistantKinds /\ msgs' = [msgs EXCEPT ![a].kind = k]
    BY <1>1, <1>4, NewestIn, SessionAssumption DEF AgentFinishes
  <2>2. msgs \in Seq(Msg) /\ msgs[a] \in Msg
    BY <1>1, <2>1 DEF Transcripts
  <2> HIDE DEF a
  <2>3. Len(msgs') = Len(msgs) /\ msgs'[a].kind = k /\ \A i \in 1..Len(msgs) : i # a => msgs'[i] = msgs[i]
    BY <1>1, <2>1, <2>2 DEF Msg
  <2>4. \A i \in 1..Len(msgs) :
          msgs[i].kind \in AssistantKinds => i <= Len(msgs') /\ msgs'[i].kind \in AssistantKinds
    BY <1>1, <2>1, <2>3
  <2> QED
    BY <1>1, <2>4, NewestGrows
<1>5. CASE Interrupt
  <2>1. DOMAIN msgs = 1..Len(msgs) /\ DOMAIN msgs' = 1..Len(msgs')
    BY <1>1 DEF Transcripts
  <2>2. DOMAIN msgs' = DOMAIN msgs
    BY <1>5 DEF Interrupt
  <2>3. \A i \in DOMAIN msgs : msgs'[i] = msgs[i] \/ msgs'[i].kind = "excluded"
    BY <1>5 DEF Interrupt, Message
  <2>4. \A i \in 1..Len(msgs) :
          msgs[i].kind \in AssistantKinds => i <= Len(msgs') /\ msgs'[i].kind \in AssistantKinds
    BY <1>1, <2>1, <2>2, <2>3 DEF AssistantKinds
  <2> QED
    BY <1>1, <2>4, NewestGrows
<1>6. \/ UNCHANGED msgs \/ (\E m : msgs' = Append(msgs, m)) \/ Interrupt
      \/ (\E k \in FinishedKinds : AgentFinishes(k))
  <2>1. CASE UNCHANGED vars
    BY <2>1 DEF vars, opencode
  <2>2. CASE PluginStep
    BY <2>2 DEF PluginStep, Restore, Take, LoadContext, StartClassify, FinishClassify, WriteTrace,
                SendContinuation, PromptAccepted, VerifyPrompt, VerifyTimesOut, Save, GhostSaves, IdleReads,
                IdleResumes, ReplayResumes, opencode
  <2>3. CASE PluginFault
    BY <2>3 DEF PluginFault, RestoreFails, EffectFails, ErrorTraceFails, VerifyTooSoon, SaveFails, IdleFails, ReplayFails, Crash, opencode
  <2>4. CASE SessionStep
    BY <2>4 DEF SessionStep, UserPrompts, CompactionReported, Autocontinues, PromptAppears,
                PromptLost, AgentResponds, Deleted, Prompt, opencode
  <2> QED
    BY <2>1, <2>2, <2>3, <2>4 DEF Next
<1> QED
  BY <1>2, <1>3, <1>4, <1>5, <1>6

LEMMA ReadersStay ==
  ASSUME OpenCodeInv, OpenCodeInv', idles \in Seq(Reader), [Next]_vars, \A force : ~ReplayReads(force)
  PROVE  idles' \in Seq(Reader)
<1>1. CASE UNCHANGED idles
  BY <1>1
<1>2. [stage |-> "asked", snapshot |-> <<>>] \in Reader /\ [stage |-> "read", snapshot |-> msgs] \in Reader
  BY EmptyTranscript DEF Reader, OpenCodeInv
<1>3. ASSUME statusIdle PROVE idles' \in Seq(Reader)
  BY <1>2, <1>3 DEF statusIdle
<1>4. ASSUME NEW i \in DOMAIN idles,
             IdleReads(i) \/ IdleResumes(i) \/ ReplayResumes(i) \/ IdleFails(i) \/ ReplayFails(i)
      PROVE  idles' \in Seq(Reader)
  <2>1. RemoveAt(idles, i) \in Seq(Reader)
    BY RemovedHandler
  <2>2. CASE IdleReads(i)
    BY <1>2, <2>2 DEF IdleReads
  <2>3. CASE IdleResumes(i) \/ ReplayResumes(i) \/ IdleFails(i) \/ ReplayFails(i)
    <3>1. idles' = RemoveAt(idles, i)
      BY <2>3 DEF IdleResumes, ReplayResumes, IdleFails, ReplayFails
    <3> QED
      BY <2>1, <3>1
  <2> QED
    BY <1>4, <2>2, <2>3
<1>5. CASE Crash
  BY <1>5 DEF Crash
<1>6. \/ UNCHANGED idles \/ statusIdle \/ Crash
      \/ \E i \in DOMAIN idles :
           IdleReads(i) \/ IdleResumes(i) \/ ReplayResumes(i) \/ IdleFails(i) \/ ReplayFails(i)
  <2>1. CASE UNCHANGED vars
    BY <2>1 DEF vars, plugin
  <2>2. CASE PluginStep
    BY <2>2 DEF PluginStep, Restore, Take, LoadContext, StartClassify, FinishClassify, WriteTrace,
                SendContinuation, PromptAccepted, VerifyPrompt, VerifyTimesOut, Save, GhostSaves
  <2>3. CASE PluginFault
    BY <2>3 DEF PluginFault, RestoreFails, EffectFails, ErrorTraceFails, VerifyTooSoon, SaveFails
  <2>4. CASE SessionStep
    BY <2>4 DEF SessionStep, UserPrompts, CompactionReported, Autocontinues, PromptAppears,
                PromptLost, AgentResponds, AgentFinishes, Interrupt, Deleted, Prompt, statusBusy, plugin
  <2> QED
    BY <2>1, <2>2, <2>3, <2>4 DEF Next
<1> QED
  BY <1>1, <1>3, <1>4, <1>5, <1>6

\* What a step that is not a replay leaves true of the transcript and its readers.
Forward ==
  /\ newestModeratedAssistant(msgs) \in Nat
  /\ newestModeratedAssistant(msgs') \in Nat
  /\ newestModeratedAssistant(msgs) <= newestModeratedAssistant(msgs')
  /\ idles' \in Seq(Reader)

LEMMA StepsForward ==
  ASSUME OpenCodeInv, OpenCodeInv', idles \in Seq(Reader), [Next]_vars, \A force : ~ReplayReads(force)
  PROVE  Forward
<1>1. newestModeratedAssistant(msgs) \in Nat /\ newestModeratedAssistant(msgs') \in Nat
  BY NewestIn DEF OpenCodeInv, Transcripts
<1> QED
  BY <1>1, TranscriptGrows, ReadersStay DEF Forward

LEMMA SeenStays ==
  ASSUME Forward, NEW a \in Nullable(Assistant), Seen(a)
  PROVE  a # None => a <= newestModeratedAssistant(msgs')
BY SessionAssumption DEF Forward, Seen, Nullable

LEMMA SeenSoFar ==
  ASSUME Forward, TurnInv
  PROVE  /\ \A i \in 1..Len(verdicts) :
              verdicts[i].assistantID # None => verdicts[i].assistantID <= newestModeratedAssistant(msgs')
         /\ context \in Context /\ Seen(context.turn.assistantID) =>
              (context.turn.assistantID # None =>
                 context.turn.assistantID <= newestModeratedAssistant(msgs'))
<1>1. ASSUME NEW i \in 1..Len(verdicts)
      PROVE  verdicts[i].assistantID \in Nullable(Assistant) /\ Seen(verdicts[i].assistantID)
  <2>1. verdicts[i] \in Verdict
    BY DEF TurnInv
  <2> QED
    BY <2>1 DEF TurnInv, Verdict, Nullable
<1>2. context \in Context => context.turn.assistantID \in Nullable(Assistant)
  BY DEF Context, TurnFact
<1> QED
  BY <1>1, <1>2, SeenStays

\* Events that are no facts of a turn may join the queue at any time.
LEMMA FactsStayFirst ==
  ASSUME NEW q \in Seq(Event), NEW events \in Seq(Event), NEW rest, FactsFirst(q, rest),
         \A i \in 1..Len(events) : events[i].type \notin Facts \union {"REPLAY"}
  PROVE  FactsFirst(q \o events, rest)
<1> DEFINE both == q \o events
<1>1. Len(both) = Len(q) + Len(events) /\ Len(q) \in Nat /\ Len(events) \in Nat
  OBVIOUS
<1>2. ASSUME NEW i \in 1..Len(both)
      PROVE  IF i <= Len(q) THEN i \in 1..Len(q) /\ both[i] = q[i]
             ELSE i - Len(q) \in 1..Len(events) /\ both[i] = events[i - Len(q)]
  BY <1>1
<1> HIDE DEF both
<1>3. FactsFirst(both, rest)
  BY <1>2 DEF FactsFirst
<1> QED
  BY <1>3 DEF both

\* In the middle of an event no fact is queued, and the result joins in front.
LEMMA NoFacts ==
  ASSUME TurnInv, todo # <<>>
  PROVE  \A i \in 1..Len(queue) : queue[i].type \notin Facts \union {"REPLAY"}
BY DEF TurnInv, FactsFirst

LEMMA FactInFront ==
  ASSUME NEW q \in Seq(Event), NEW e \in Event, NEW rest,
         \A i \in 1..Len(q) : q[i].type \notin Facts \union {"REPLAY"},
         e.type # "REPLAY", e.type \in Facts => rest = <<>>
  PROVE  FactsFirst(<<e>> \o q, rest)
<1> DEFINE both == <<e>> \o q
<1>1. Len(both) = Len(q) + 1 /\ Len(q) \in Nat
  OBVIOUS
<1>2. ASSUME NEW i \in 1..Len(both)
      PROVE  IF i = 1 THEN both[i] = e ELSE i - 1 \in 1..Len(q) /\ both[i] = q[i - 1]
  BY <1>1
<1> HIDE DEF both
<1>3. FactsFirst(both, rest)
  BY <1>2 DEF FactsFirst
<1> QED
  BY <1>3 DEF both

\* Without its head a queue holds no fact.
LEMMA TailNoFacts ==
  ASSUME NEW q \in Seq(Event), q # <<>>, NEW rest, FactsFirst(q, rest)
  PROVE  \A i \in 1..Len(Tail(q)) : Tail(q)[i].type \notin Facts \union {"REPLAY"}
<1>1. Len(q) \in Nat /\ Len(Tail(q)) = Len(q) - 1
  OBVIOUS
<1>2. \A i \in 1..Len(Tail(q)) : i + 1 \in 1..Len(q) /\ i + 1 # 1 /\ Tail(q)[i] = q[i + 1]
  BY <1>1
<1> QED
  BY <1>2 DEF FactsFirst

\* A queue without facts has none at its head.
LEMMA NoFactNext ==
  ASSUME NEW q \in Seq(Event), \A i \in 1..Len(q) : q[i].type \notin Facts \union {"REPLAY"}
  PROVE  q # <<>> => Head(q).type \notin Facts \union {"REPLAY"}
<1>1. q # <<>> => 1 \in 1..Len(q) /\ Head(q) = q[1]
  OBVIOUS
<1> QED
  BY <1>1

\* Steps that leave machine, effects, context and verdicts alone.
LEMMA TurnWaits ==
  ASSUME PluginInv, TurnInv, Forward, UNCHANGED <<state, restored, todo, context, verdicts>>,
         queue' = queue \/
           \E events \in Seq(Notification) : queue' = queue \o events,
         pc' = "judge" => judging' = context
  PROVE  TurnInv'
<1>1. queue \in Seq(Event)
  BY DEF PluginInv, DrainInv
<1>2. FactsFirst(queue', todo') /\ \A t \in Facts : NextIs(t)' => NextIs(t) /\ Head(queue') = Head(queue)
  <2>1. CASE queue' = queue
    BY <2>1 DEF TurnInv, NextIs
  <2>2. ASSUME NEW events \in Seq(Notification), queue' = queue \o events
        PROVE  FactsFirst(queue', todo')
               /\ \A t \in Facts : NextIs(t)' => NextIs(t) /\ Head(queue') = Head(queue)
    <3>1. \A e \in Notification : e \in Event /\ e.type \notin Facts \union {"REPLAY"}
      BY DEF Event, Notification, Facts, PlainEvent, TurnEndedEvent, NewUserCycleEvent
    <3>2. events \in Seq(Event) /\ \A i \in 1..Len(events) : events[i].type \notin Facts \union {"REPLAY"}
      BY <3>1
    <3>3. FactsFirst(queue \o events, todo)
      BY <1>1, <3>2, FactsStayFirst DEF TurnInv
    <3>4. queue # <<>> => Head(queue \o events) = Head(queue)
      BY <1>1, <3>2
    <3>5. queue = <<>> => queue \o events = events
      BY <3>2
    <3>6. events # <<>> => Head(events).type \notin Facts \union {"REPLAY"}
      BY <3>2, NoFactNext
    <3> QED
      BY <2>2, <3>3, <3>4, <3>5, <3>6 DEF NextIs
  <2> QED
    BY <2>1, <2>2
<1>3. NextIs("CONTEXT_LOADED") => context \in Context
  BY <1>1, QueueTail DEF NextIs, PluginInv, CallInv
<1>4. todo = <<classify>> => context \in Context
  BY DEF PluginInv, CallInv
<1>5. /\ NextIs("CONTEXT_LOADED")' =>
           Head(queue').turn = context'.turn /\ Seen(context.turn.assistantID)'
  BY <1>2, <1>3, SeenSoFar DEF TurnInv, Seen, Facts
<1>6. todo' = <<classify>> =>
       /\ state'.phase = "CLASSIFYING"
       /\ state'.inflightAssistantID = context'.turn.assistantID
       /\ Seen(context.turn.assistantID)'
  BY <1>4, SeenSoFar DEF TurnInv, Seen
<1>7. verdicts' \in Seq(Verdict) /\ \A i \in 1..Len(verdicts') : Seen(verdicts[i].assistantID)'
  BY SeenSoFar DEF TurnInv, Seen
<1>8. NextIs("VERDICT")' =>
       /\ restored'
       /\ state'.phase = "CLASSIFYING"
       /\ verdicts' # <<>>
       /\ verdicts'[Len(verdicts')] = [assistantID |-> state'.inflightAssistantID,
                                       decision |-> Head(queue').decision]
  BY <1>2 DEF TurnInv, Facts
<1> QED
  BY <1>2, <1>5, <1>6, <1>7, <1>8 DEF TurnInv, Forward

\* The queue after an effect is over: its result is the only fact in it.
LEMMA DoneFacts ==
  ASSUME PluginInv, TurnInv, pc \in {"judge", "send"} \/ (pc = "run" /\ todo # <<>>), NEW e \in Event, Done(e),
         e.type # "REPLAY", e.type \in Facts => todo # <<trace, sendContinuation>>
  PROVE  /\ todo # <<>>
         /\ todo' # <<classify>>
         /\ FactsFirst(queue', todo')
         /\ \A t \in Facts : NextIs(t)' => e.type = t /\ Head(queue') = e /\ agent # "gone"
<1>1. queue \in Seq(Event) /\ todo \in Lineups /\ todo # <<>>
  BY LineupsDiffer DEF PluginInv, DrainInv
<1>2. todo' \in Lineups \ {<<classify>>, <<loadContext>>}
      /\ (todo # <<trace, sendContinuation>> => todo' = <<>>)
  BY <1>1, LineupFacts DEF Done
<1>3. \A i \in 1..Len(queue) : queue[i].type \notin Facts \union {"REPLAY"}
  BY <1>1, NoFacts
<1>4. FactsFirst(<<e>> \o queue, todo')
  BY <1>1, <1>2, <1>3, FactInFront
<1>5. Head(<<e>> \o queue) = e
  BY <1>1
<1>6. CASE agent = "gone" /\ queue' = queue
  <2>1. FactsFirst(queue', todo')
    BY <1>3, <1>6 DEF FactsFirst
  <2>2. \A t \in Facts : ~NextIs(t)'
    BY <1>1, <1>3, <1>6, NoFactNext DEF NextIs
  <2> QED
    BY <1>1, <1>2, <2>1, <2>2
<1>7. CASE agent # "gone" /\ queue' = <<e>> \o queue
  <2>1. FactsFirst(queue', todo') /\ Head(queue') = e
    BY <1>4, <1>5, <1>7, Zenon
  <2>2. \A t \in Facts : NextIs(t)' => e.type = t
    BY <2>1 DEF NextIs
  <2> QED
    BY <1>1, <1>2, <1>7, <2>1, <2>2
<1> QED
  BY <1>6, <1>7 DEF Done, followUp

LEMMA TurnReported ==
  ASSUME PluginInv, TurnInv, Forward, Reported
  PROVE  TurnInv'
<1>1. PICK e \in Report : Done(e)
  BY DEF Reported
<1>2. e \in Event /\ e.type \notin Facts \union {"REPLAY"}
  BY DEF Event, Report, PlainEvent, Facts
<1>3. /\ todo' # <<classify>> /\ FactsFirst(queue', todo')
      /\ \A t \in Facts : ~NextIs(t)'
  BY <1>1, <1>2, DoneFacts DEF Reported
<1>4. pc' = "run" /\ verdicts' = verdicts
  BY <1>1 DEF Done, Reported, past
<1>5. verdicts' \in Seq(Verdict) /\ \A i \in 1..Len(verdicts') : Seen(verdicts[i].assistantID)'
  BY <1>4, SeenSoFar DEF TurnInv, Seen
<1> QED
  BY <1>3, <1>4, <1>5 DEF TurnInv, Forward, Facts

LEMMA TurnLoaded ==
  ASSUME OpenCodeInv, PluginInv, TurnInv, Forward, LoadContext
  PROVE  TurnInv'
<1> DEFINE loaded == buildContext(msgs, state)
           e == [type |-> "CONTEXT_LOADED", turn |-> loaded.turn, originUserID |-> loaded.originUserID]
<1>1. /\ loaded \in Context
      /\ loaded.turn.assistantID = (IF newestModeratedAssistant(msgs) = 0 THEN None
                                    ELSE newestModeratedAssistant(msgs))
  BY ContextType DEF OpenCodeInv, Transcripts
<1>2. context' = loaded /\ Done(e) /\ pc = "run" /\ todo # <<>> /\ Head(todo).type = "LOAD_CONTEXT"
      /\ verdicts' = verdicts /\ pc' = "run"
  BY DEF LoadContext, Perform, Done, history
<1>3. todo # <<trace, sendContinuation>>
  BY <1>2, LineupFacts, LineupsDiffer DEF PluginInv, DrainInv
<1> HIDE DEF loaded
<1>4. e \in Event /\ e.type = "CONTEXT_LOADED" /\ e.turn = loaded.turn
  BY <1>1 DEF Context, ContextLoadedEvent, Event
<1> HIDE DEF e
<1>5. /\ todo' # <<classify>> /\ FactsFirst(queue', todo')
      /\ \A t \in Facts : NextIs(t)' => e.type = t /\ Head(queue') = e
  BY <1>2, <1>3, <1>4, DoneFacts
<1>6. loaded.turn.assistantID # None => loaded.turn.assistantID <= newestModeratedAssistant(msgs')
  BY <1>1 DEF Forward
<1>7. NextIs("CONTEXT_LOADED")' => Head(queue').turn = context'.turn /\ Seen(context.turn.assistantID)'
  BY <1>2, <1>4, <1>5, <1>6 DEF Seen, Facts
<1>8. ~NextIs("VERDICT")'
  BY <1>4, <1>5 DEF Facts
<1>9. verdicts' \in Seq(Verdict) /\ \A i \in 1..Len(verdicts') : Seen(verdicts[i].assistantID)'
  BY <1>2, SeenSoFar DEF TurnInv, Seen
<1> QED
  BY <1>2, <1>5, <1>7, <1>8, <1>9 DEF TurnInv, Forward

LEMMA TurnJudged ==
  ASSUME PluginInv, TurnInv, Forward, NEW d \in Decisions, FinishClassify(d)
  PROVE  TurnInv'
<1> DEFINE e == [type |-> "VERDICT", decision |-> d, originUserID |-> judging.originUserID]
           v == [assistantID |-> judging.turn.assistantID, decision |-> d]
<1>1. pc = "judge" /\ Done(e) /\ verdicts' = Append(verdicts, v)
      /\ context' = context /\ state' = state /\ restored' = restored /\ pc' = "run"
  BY DEF FinishClassify, Done, machine
<1>2. judging \in Context /\ todo = <<classify>> /\ judging = context /\ context \in Context /\ restored
  BY <1>1 DEF PluginInv, CallInv, DrainInv, TurnInv
<1>3. /\ state.phase = "CLASSIFYING"
      /\ state.inflightAssistantID = context.turn.assistantID
      /\ Seen(context.turn.assistantID)
  BY <1>2 DEF TurnInv
<1>4. state.inflightAssistantID \in Assistant
  BY <1>3 DEF PluginInv, MachineInv, Sound, ModerationState, Nullable
<1>5. v = [assistantID |-> state.inflightAssistantID, decision |-> d] /\ v \in Verdict
  BY <1>2, <1>3, <1>4, SessionAssumption DEF Verdict
<1>6. e \in Event /\ e.type = "VERDICT" /\ e.decision = d
  BY <1>2, SessionAssumption DEF Context, VerdictEvent, Event
<1> HIDE DEF e, v
<1>7. todo # <<trace, sendContinuation>>
  BY <1>2, LineupsDiffer
<1>8. /\ todo' # <<classify>> /\ FactsFirst(queue', todo')
      /\ \A t \in Facts : NextIs(t)' => e.type = t /\ Head(queue') = e
  BY <1>1, <1>6, <1>7, DoneFacts
<1>9. verdicts \in Seq(Verdict) /\ Len(verdicts) \in Nat
  BY DEF TurnInv
<1>10. /\ verdicts' \in Seq(Verdict) /\ Len(verdicts') = Len(verdicts) + 1
       /\ verdicts'[Len(verdicts')] = v
       /\ \A i \in 1..Len(verdicts) : verdicts'[i] = verdicts[i]
  BY <1>1, <1>5, <1>9
<1>11. v.assistantID # None => v.assistantID <= newestModeratedAssistant(msgs')
  BY <1>2, <1>3, <1>5, SeenSoFar
<1>12. ASSUME NEW i \in 1..Len(verdicts')
       PROVE  verdicts'[i].assistantID # None =>
                verdicts'[i].assistantID <= newestModeratedAssistant(msgs')
  <2>1. CASE i \in 1..Len(verdicts)
    BY <1>10, <2>1, SeenSoFar
  <2>2. CASE i = Len(verdicts')
    BY <1>10, <1>11, <2>2
  <2> QED
    BY <1>9, <1>10, <2>1, <2>2
<1>13. NextIs("VERDICT")' =>
         /\ restored'
         /\ state'.phase = "CLASSIFYING"
         /\ verdicts' # <<>>
         /\ verdicts'[Len(verdicts')] = [assistantID |-> state'.inflightAssistantID,
                                         decision |-> Head(queue').decision]
  <2>1. restored' /\ state' = state /\ state.phase = "CLASSIFYING"
    BY <1>1, <1>2, <1>3
  <2>2. verdicts' # <<>>
    BY <1>9, <1>10
  <2>3. verdicts'[Len(verdicts')] = [assistantID |-> state.inflightAssistantID, decision |-> d]
    BY <1>5, <1>10, Zenon
  <2>4. NextIs("VERDICT")' => Head(queue') = e
    BY <1>8 DEF Facts
  <2> QED
    BY <1>6, <2>1, <2>2, <2>3, <2>4, Zenon
<1>14. ~NextIs("CONTEXT_LOADED")'
  BY <1>6, <1>8 DEF Facts
<1> QED
  BY <1>1, <1>8, <1>10, <1>12, <1>13, <1>14 DEF TurnInv, Forward, Seen

LEMMA TurnTaken ==
  ASSUME PluginInv, TurnInv, Forward, Take
  PROVE  TurnInv'
<1> DEFINE e == Head(queue)
           out == transition(state, e)
<1>1. /\ pc = "take" /\ pc' = "run" /\ state' = out.state /\ todo' = out.effects /\ queue' = Tail(queue)
      /\ UNCHANGED <<context, verdicts>>
  BY DEF Take, call
<1>2. queue \in Seq(Event) /\ queue # <<>> /\ Sound(state) /\ e \in Event /\ Tail(queue) \in Seq(Event)
  BY <1>1, QueueTail DEF PluginInv, MachineInv, DrainInv
<1>3. EffectsFit(state, e, out)
  BY <1>2, EventFits
<1>4. \A i \in 1..Len(queue') : queue'[i].type \notin Facts \union {"REPLAY"}
  BY <1>1, <1>2, TailNoFacts DEF TurnInv
<1>5. FactsFirst(queue', todo') /\ \A t \in Facts : ~NextIs(t)'
  <2>1. FactsFirst(queue', todo')
    BY <1>4 DEF FactsFirst
  <2>2. \A t \in Facts : ~NextIs(t)'
    BY <1>1, <1>2, <1>4, NoFactNext DEF NextIs
  <2> QED
    BY <2>1, <2>2
<1>6. todo' = <<classify>> =>
       /\ state'.phase = "CLASSIFYING"
       /\ state'.inflightAssistantID = context'.turn.assistantID
       /\ Seen(context.turn.assistantID)'
  <2> SUFFICES ASSUME todo' = <<classify>>
               PROVE  /\ state'.phase = "CLASSIFYING"
                      /\ state'.inflightAssistantID = context'.turn.assistantID
                      /\ Seen(context.turn.assistantID)'
    OBVIOUS
  <2>1. /\ e.type \in {"CONTEXT_LOADED", "REPLAY"}
        /\ state'.phase = "CLASSIFYING" /\ state'.inflightAssistantID = e.turn.assistantID
    BY <1>1, <1>3 DEF EffectsFit
  <2>2. e.type # "REPLAY"
    <3>1. 1 \in 1..Len(queue) /\ e = queue[1]
      BY <1>2
    <3> QED
      BY <3>1 DEF TurnInv, FactsFirst
  <2>3. NextIs("CONTEXT_LOADED")
    BY <1>2, <2>1, <2>2 DEF NextIs
  <2>4. e.turn = context.turn /\ Seen(context.turn.assistantID) /\ context \in Context
    BY <1>2, <2>3, QueueTail DEF TurnInv, NextIs, PluginInv, CallInv
  <2> QED
    BY <1>1, <2>1, <2>4, SeenSoFar DEF Seen
<1>7. verdicts' \in Seq(Verdict) /\ \A i \in 1..Len(verdicts') : Seen(verdicts[i].assistantID)'
  BY <1>1, SeenSoFar DEF TurnInv, Seen
<1> QED
  BY <1>1, <1>5, <1>6, <1>7 DEF TurnInv, Forward, Facts

\* The steps that leave the queue alone, and the crash that empties it.
LEMMA TurnRests ==
  ASSUME PluginInv, TurnInv, Forward,
         \/ Restore \/ RestoreFails \/ StartClassify \/ ErrorTraceFails \/ Looked \/ VerifyPrompt
         \/ Save \/ SaveFails \/ GhostSaves \/ Deleted \/ Crash
  PROVE  TurnInv'
<1>1. CASE StartClassify
  BY <1>1, TurnWaits DEF StartClassify, machine, history
<1>2. CASE Save \/ SaveFails \/ GhostSaves \/ Deleted \/ Looked
  <2>1. /\ UNCHANGED <<state, restored, todo, context, verdicts, queue, judging>>
        /\ pc' = "judge" => pc = "judge"
    BY <1>2 DEF Save, SaveFails, GhostSaves, Deleted, Looked, machine, drain, call, history, past
  <2> QED
    BY <2>1, TurnWaits DEF TurnInv
<1>3. CASE Restore \/ RestoreFails
  <2>1. ~restored /\ todo = <<>> /\ pc' = "take" /\ UNCHANGED <<queue, todo, context, verdicts>>
    BY <1>3 DEF Restore, RestoreFails, PluginInv, DrainInv, call, history
  <2>2. ~NextIs("VERDICT") /\ todo # <<classify>>
    BY <2>1, LineupsDiffer DEF TurnInv
  <2>3. NextIs("CONTEXT_LOADED") => context \in Context
    BY QueueTail DEF NextIs, PluginInv, CallInv, DrainInv
  <2>4. NextIs("CONTEXT_LOADED")' => Head(queue').turn = context'.turn /\ Seen(context.turn.assistantID)'
    BY <2>1, <2>3, SeenSoFar DEF TurnInv, NextIs, Seen
  <2>5. verdicts' \in Seq(Verdict) /\ \A i \in 1..Len(verdicts') : Seen(verdicts[i].assistantID)'
    BY <2>1, SeenSoFar DEF TurnInv, Seen
  <2> QED
    BY <2>1, <2>2, <2>4, <2>5 DEF TurnInv, Forward, NextIs
<1>4. CASE VerifyPrompt \/ ErrorTraceFails
  <2>1. /\ todo' = Tail(todo) \/ todo' = <<>>
        /\ todo # <<>> /\ todo \in Lineups
        /\ UNCHANGED <<state, queue, context, verdicts>>
        /\ pc' = "judge" => pc = "judge" /\ judging' = judging
    BY <1>4, LineupsDiffer
    DEF VerifyPrompt, ErrorTraceFails, Perform, machine, call, history, PluginInv, DrainInv
  <2>2. todo' # <<classify>>
    BY <2>1, LineupFacts, LineupsDiffer
  <2>3. \A i \in 1..Len(queue) : queue[i].type \notin Facts \union {"REPLAY"}
    BY <2>1, NoFacts
  <2>4. FactsFirst(queue', todo') /\ \A t \in Facts : ~NextIs(t)'
    BY <2>1, <2>3, NoFactNext DEF FactsFirst, NextIs, PluginInv, DrainInv
  <2>5. verdicts' \in Seq(Verdict) /\ \A i \in 1..Len(verdicts') : Seen(verdicts[i].assistantID)'
    BY <2>1, SeenSoFar DEF TurnInv, Seen
  <2> QED
    BY <2>1, <2>2, <2>4, <2>5 DEF TurnInv, Forward, Facts
<1>5. CASE Crash
  <2>1. queue' = <<>> /\ pc' = "off" /\ todo' = <<>> /\ verdicts' = verdicts
    BY <1>5 DEF Crash
  <2>2. verdicts' \in Seq(Verdict) /\ \A i \in 1..Len(verdicts') : Seen(verdicts[i].assistantID)'
    BY <2>1, SeenSoFar DEF TurnInv, Seen
  <2> QED
    BY <2>1, <2>2, LineupsDiffer DEF TurnInv, Forward, FactsFirst, NextIs
<1> QED
  BY <1>1, <1>2, <1>3, <1>4, <1>5

LEMMA TurnStep ==
  ASSUME OpenCodeInv, OpenCodeInv', PluginInv, TurnInv, [Next]_vars, \A force : ~ReplayReads(force)
  PROVE  TurnInv' /\ Forward
<1>1. Forward
  BY StepsForward DEF TurnInv
<1>2. CASE Quiet
  BY <1>1, <1>2, TurnWaits DEF Quiet, machine, drain, call, past, TurnInv
<1>3. CASE Notified
  <2>1. UNCHANGED <<state, restored, todo, context, judging, verdicts>>
    BY <1>3 DEF Notified, machine, call, past, enqueue
  <2>2. queue' = queue \/ \E events \in Seq(Notification) : queue' = queue \o events
    BY <1>3 DEF Notified, enqueue
  <2>3. pc' = "judge" => pc = "judge"
    BY <1>3 DEF Notified, enqueue, wake
  <2> QED
    BY <1>1, <2>1, <2>2, <2>3, TurnWaits DEF TurnInv
<1>4. CASE Replayed
  <2>1. PICK i \in DOMAIN idles : idles[i].stage = "replay"
    BY <1>4 DEF Replayed
  <2>2. idles[i] \in Reader
    BY DEF TurnInv
  <2> QED
    BY <2>1, <2>2 DEF Reader
<1> QED
  BY <1>1, <1>2, <1>3, <1>4, PluginSteps, TurnReported, TurnLoaded, TurnJudged, TurnTaken, TurnRests

LEMMA NoReplays ==
  ASSUME Budget["replay"] = 0, BudgetInv
  PROVE  \A force : ~ReplayReads(force)
<1>1. "replay" \in DOMAIN Budget
  BY SessionAssumption
<1> QED
  BY <1>1, SpentWithinBudget DEF ReplayReads

LEMMA TurnInit == Init => TurnInv
BY LineupsDiffer DEF Init, TurnInv, FactsFirst, NextIs

LEMMA TurnInvariant ==
  ASSUME Budget["replay"] = 0
  PROVE  Spec => []TurnInv
<1>1. OpenCodeInv /\ PluginInv /\ (OpenCodeInv /\ PluginInv)' /\ BudgetInv /\ TurnInv /\ [Next]_vars
        => TurnInv'
  BY TurnStep, NoReplays
<1> QED
  BY <1>1, TurnInit, SessionInvariant, BudgetInvariant, PTL DEF Spec

\* A verdict is applied to the assistant it was given for, unless replays move
\* the session's context (adapter.ts:182-198, fsm.ts:215-226).
THEOREM VerdictIsAboutInflight ==
  ASSUME Budget["replay"] = 0
  PROVE  Spec => []VerdictAboutInflight
<1>1. PluginInv /\ TurnInv => VerdictAboutInflight
  <2> SUFFICES ASSUME PluginInv, TurnInv, pc = "take", Head(queue).type = "VERDICT"
               PROVE  Last(verdicts).assistantID = state.inflightAssistantID
    BY DEF VerdictAboutInflight
  <2>1. NextIs("VERDICT")
    BY DEF NextIs, PluginInv, DrainInv
  <2>2. verdicts[Len(verdicts)] = [assistantID |-> state.inflightAssistantID,
                                   decision |-> Head(queue).decision]
    BY <2>1 DEF TurnInv
  <2> QED
    BY <2>2 DEF Last
<1> QED
  BY <1>1, SessionInvariant, TurnInvariant, PTL

-----------------------------------------------------------------------------
(* Turns that were closed, when in addition nothing crashes.                *)

\* Of the first n verdicts, those that closed a turn were for assistants before
\* this one, or for assistants that were reopened.
Fresh(a, n) ==
  \A i \in 1..n :
    verdicts[i].decision \in Closing =>
      verdicts[i].assistantID \in reopened \/ verdicts[i].assistantID < a

\* The drain of a deleted session comes to no other classification.
NoMore == agent = "gone" /\ todo # <<classify>> /\ ~NextIs("CONTEXT_LOADED")

\* What keeps a closed assistant from being classified again: its mark, an
\* assistant after it, or that its verdict is only about to be applied.
Kept(a) ==
  \/ state.lastTerminalAssistantID = a
  \/ a < newestModeratedAssistant(msgs)
  \/ NextIs("VERDICT") /\ state.inflightAssistantID = a
  \/ NoMore
  \/ a \in reopened

ClosedInv ==
  /\ ~restored => verdicts = <<>>
  /\ NextIs("CONTEXT_LOADED") /\ context.turn.flags = {} =>
       Fresh(context.turn.assistantID, Len(verdicts))
  /\ todo = <<classify>> => Fresh(context.turn.assistantID, Len(verdicts))
  /\ NextIs("VERDICT") => Fresh(state.inflightAssistantID, Len(verdicts) - 1)
  /\ \A i \in 1..Len(verdicts) :
       verdicts[i].decision \in Closing => Kept(verdicts[i].assistantID)
  /\ ClosedTurnStaysClosed

\* Only a verdict and an error move the mark, and a verdict that closes a turn
\* marks its assistant.
LEMMA MarkStays ==
  ASSUME NEW s, Sound(s), NEW e \in Event, e.type \notin {"VERDICT", "EFFECT_ERROR"}
  PROVE  transition(s, e).state.lastTerminalAssistantID = s.lastTerminalAssistantID
<1>1. s \in ModerationState
  BY DEF Sound
<1>2. e.type \in {"STATUS_BUSY", "COMPACTION_STARTED", "COMPACTION_COMPLETED", "TRACE_PERSISTED",
                  "CONTINUATION_PERSISTED", "TURN_ENDED", "NEW_USER_CYCLE", "CONTEXT_LOADED", "REPLAY"}
  BY DEF Event, Notification, Report, PlainEvent, TurnEndedEvent, NewUserCycleEvent,
         ContextLoadedEvent, VerdictEvent, ReplayEvent
<1>3. CASE e.type \in {"STATUS_BUSY", "COMPACTION_STARTED", "COMPACTION_COMPLETED", "TRACE_PERSISTED",
                       "CONTINUATION_PERSISTED"}
  BY <1>1, <1>3 DEF transition, dispatch, result, ModerationState
<1>4. CASE e.type = "TURN_ENDED"
  BY <1>1, <1>4 DEF transition, dispatch, onTurnEnded, result, ModerationState
<1>5. CASE e.type = "NEW_USER_CYCLE"
  BY <1>1, <1>5 DEF transition, dispatch, onNewUserCycle, result, ModerationState
<1>6. CASE e.type = "CONTEXT_LOADED"
  <2> DEFINE out == onContextLoaded(s, e.turn, e.originUserID)
  <2>1. out.state.lastTerminalAssistantID = s.lastTerminalAssistantID
    BY <1>1 DEF onContextLoaded, withContext, result, ModerationState
  <2>2. dispatch(s, e) = out
    BY <1>6 DEF dispatch
  <2> QED
    BY <2>1, <2>2 DEF transition, result
<1>7. CASE e.type = "REPLAY"
  BY <1>1, <1>7 DEF transition, dispatch, onReplay, result, ModerationState
<1> QED
  BY <1>2, <1>3, <1>4, <1>5, <1>6, <1>7

LEMMA ErrorMark ==
  ASSUME NEW s, Sound(s), NEW e, e.type = "EFFECT_ERROR"
  PROVE  \/ transition(s, e).state.lastTerminalAssistantID = s.lastTerminalAssistantID
         \/ s.lastTerminalAssistantID = s.inflightAssistantID
BY DEF transition, dispatch, onEffectError, result, Sound, ModerationState

LEMMA ClosingMarks ==
  ASSUME NEW s, Sound(s), s.phase = "CLASSIFYING", NEW e, e.type = "VERDICT", e.decision \in Closing
  PROVE  transition(s, e).state.lastTerminalAssistantID = s.inflightAssistantID
<1> DEFINE t == terminalState(s)
<1>1. t \in ModerationState /\ t.lastTerminalAssistantID = s.inflightAssistantID
  BY TerminalMark
<1>2. transition(s, e) = onVerdict(s, e.decision, e.originUserID)
  BY DEF transition, dispatch, EVENT_PHASES
<1> HIDE DEF t
<1>3. [t EXCEPT !.blocker = BlockerFor(s, "agent-blocked", e.originUserID)].lastTerminalAssistantID
        = s.inflightAssistantID
  BY <1>1 DEF ModerationState
<1>4. onVerdict(s, e.decision, e.originUserID).state
        \in {t, [t EXCEPT !.blocker = BlockerFor(s, "agent-blocked", e.originUserID)]}
  BY DEF onVerdict, result, Closing, t
<1> QED
  BY <1>1, <1>2, <1>3, <1>4

LEMMA VerdictTyped ==
  ASSUME TurnInv, NEW i \in 1..Len(verdicts)
  PROVE  /\ verdicts[i].assistantID \in Nat
         /\ verdicts[i].assistantID <= newestModeratedAssistant(msgs)
<1>1. verdicts[i] \in Verdict
  BY DEF TurnInv
<1>2. verdicts[i].assistantID \in Assistant /\ Seen(verdicts[i].assistantID)
  BY <1>1 DEF TurnInv, Verdict
<1> QED
  BY <1>2, SessionAssumption, FsmAssumption DEF Seen

\* Steps that give no verdict and keep what is kept.
LEMMA ClosedWaits ==
  ASSUME ClosedInv, UNCHANGED verdicts, reopened \subseteq reopened', restored => restored',
         NextIs("CONTEXT_LOADED")' => NextIs("CONTEXT_LOADED") /\ context' = context,
         todo' = <<classify>> => todo = <<classify>> /\ context' = context,
         NextIs("VERDICT")' => NextIs("VERDICT") /\ state'.inflightAssistantID = state.inflightAssistantID,
         \A i \in 1..Len(verdicts) : Kept(verdicts[i].assistantID) => Kept(verdicts[i].assistantID)'
  PROVE  ClosedInv'
<1>1. ~restored' => verdicts' = <<>>
  BY DEF ClosedInv
<1>2. NextIs("CONTEXT_LOADED")' /\ context'.turn.flags = {} =>
        Fresh(context.turn.assistantID, Len(verdicts))'
  BY DEF ClosedInv, Fresh
<1>3. todo' = <<classify>> => Fresh(context.turn.assistantID, Len(verdicts))'
  BY DEF ClosedInv, Fresh
<1>4. NextIs("VERDICT")' => Fresh(state.inflightAssistantID, Len(verdicts) - 1)'
  BY DEF ClosedInv, Fresh
<1>5. \A i \in 1..Len(verdicts') :
        verdicts'[i].decision \in Closing => Kept(verdicts[i].assistantID)'
  BY DEF ClosedInv
<1>6. ClosedTurnStaysClosed'
  BY DEF ClosedInv, ClosedTurnStaysClosed
<1> QED
  BY <1>1, <1>2, <1>3, <1>4, <1>5, <1>6 DEF ClosedInv

LEMMA KeptStays ==
  ASSUME TurnInv, Forward, NEW i \in 1..Len(verdicts), UNCHANGED verdicts,
         Kept(verdicts[i].assistantID),
         state'.lastTerminalAssistantID = state.lastTerminalAssistantID, reopened \subseteq reopened',
         NextIs("VERDICT") => NextIs("VERDICT")' /\ state'.inflightAssistantID = state.inflightAssistantID,
         NoMore => NoMore'
  PROVE  Kept(verdicts[i].assistantID)'
<1>1. verdicts[i].assistantID < newestModeratedAssistant(msgs) =>
        verdicts[i].assistantID < newestModeratedAssistant(msgs')
  BY VerdictTyped DEF Forward
<1> QED
  BY <1>1 DEF Kept

\* Steps that leave machine and effects alone and at most queue notifications.
LEMMA ClosedNotified ==
  ASSUME PluginInv, TurnInv, ClosedInv, Forward, agent = "gone" => agent' = "gone",
         UNCHANGED <<state, todo, context, verdicts, reopened>>, restored => restored',
         queue' = queue \/
           (agent # "gone" /\ \E events \in Seq(Notification) : queue' = queue \o events)
  PROVE  ClosedInv'
<1>1. queue \in Seq(Event)
  BY DEF PluginInv, DrainInv
<1>2. /\ \A t \in Facts : NextIs(t)' => NextIs(t)
      /\ queue # <<>> => queue' # <<>> /\ Head(queue') = Head(queue)
  <2>1. CASE queue' = queue
    BY <2>1 DEF NextIs
  <2>2. ASSUME NEW events \in Seq(Notification), queue' = queue \o events
        PROVE  /\ \A t \in Facts : NextIs(t)' => NextIs(t)
               /\ queue # <<>> => queue' # <<>> /\ Head(queue') = Head(queue)
    <3>1. \A e \in Notification : e \in Event /\ e.type \notin Facts \union {"REPLAY"}
      BY DEF Event, Notification, Facts, PlainEvent, TurnEndedEvent, NewUserCycleEvent
    <3>2. events \in Seq(Event) /\ \A i \in 1..Len(events) : events[i].type \notin Facts \union {"REPLAY"}
      BY <3>1
    <3>3. queue # <<>> => queue \o events # <<>> /\ Head(queue \o events) = Head(queue)
      BY <1>1, <3>2
    <3>4. queue = <<>> => queue \o events = events
      BY <3>2
    <3>5. events # <<>> => Head(events).type \notin Facts \union {"REPLAY"}
      BY <3>2, NoFactNext
    <3> QED
      BY <2>2, <3>3, <3>4, <3>5 DEF NextIs
  <2> QED
    BY <2>1, <2>2
<1>3. NextIs("VERDICT") => NextIs("VERDICT")'
  BY <1>2 DEF NextIs
<1>4. NoMore => NoMore'
  BY DEF NoMore, NextIs
<1>5. \A i \in 1..Len(verdicts) : Kept(verdicts[i].assistantID) => Kept(verdicts[i].assistantID)'
  BY <1>3, <1>4, KeptStays
<1> QED
  BY <1>2, <1>5, ClosedWaits DEF Facts

\* In the middle of an event no verdict waits.
LEMMA NoFactNow ==
  ASSUME PluginInv, TurnInv, todo # <<>>
  PROVE  ~NextIs("VERDICT") /\ ~NextIs("CONTEXT_LOADED")
<1>1. queue \in Seq(Event) /\ \A i \in 1..Len(queue) : queue[i].type \notin Facts \union {"REPLAY"}
  BY NoFacts DEF PluginInv, DrainInv
<1> QED
  BY <1>1, NoFactNext DEF NextIs, Facts

LEMMA ClosedReported ==
  ASSUME PluginInv, TurnInv, ClosedInv, Forward, Reported, agent = "gone" => agent' = "gone"
  PROVE  ClosedInv'
<1>1. PICK e \in Report : Done(e)
  BY DEF Reported
<1>2. e \in Event /\ e.type \notin Facts \union {"REPLAY"}
  BY DEF Event, Report, PlainEvent, Facts
<1>3. todo # <<>> /\ todo' # <<classify>> /\ \A t \in Facts : ~NextIs(t)'
  BY <1>1, <1>2, DoneFacts DEF Reported
<1>4. ~NextIs("VERDICT")
  BY <1>3, NoFactNow
<1>5. UNCHANGED <<state, restored, verdicts, reopened>>
  BY DEF Reported, machine, past
<1>6. NoMore => NoMore'
  BY <1>3 DEF NoMore, Facts
<1>7. \A i \in 1..Len(verdicts) : Kept(verdicts[i].assistantID) => Kept(verdicts[i].assistantID)'
  BY <1>4, <1>5, <1>6, KeptStays
<1> QED
  BY <1>3, <1>5, <1>7, ClosedWaits DEF Facts

LEMMA ClosedLoaded ==
  ASSUME OpenCodeInv, PluginInv, TurnInv, ClosedInv, Forward, LoadContext
  PROVE  ClosedInv'
<1> DEFINE loaded == buildContext(msgs, state)
           e == [type |-> "CONTEXT_LOADED", turn |-> loaded.turn, originUserID |-> loaded.originUserID]
           n == newestModeratedAssistant(msgs)
<1>1. /\ loaded \in Context
      /\ loaded.turn.assistantID = IF n = 0 THEN None ELSE n
      /\ loaded.turn.flags = eligibilityFlags(msgs, state)
  BY ContextType DEF OpenCodeInv, Transcripts
<1>2. /\ context' = loaded /\ Done(e) /\ pc = "run" /\ todo # <<>> /\ Head(todo).type = "LOAD_CONTEXT"
      /\ UNCHANGED <<agent, state, restored, verdicts, reopened>>
  BY DEF LoadContext, Perform, history, opencode, machine
<1>3. todo # <<trace, sendContinuation>> /\ todo # <<classify>>
  BY <1>2, LineupFacts, LineupsDiffer DEF PluginInv, DrainInv
<1>4. eligibilityFlags(msgs, state) = {} => n # 0 /\ n # state.lastTerminalAssistantID
  BY DEF eligibilityFlags
<1> HIDE DEF loaded, n
<1>5. e \in Event /\ e.type = "CONTEXT_LOADED" /\ e.turn = loaded.turn
  BY <1>1 DEF Context, ContextLoadedEvent, Event
<1> HIDE DEF e
<1>6. /\ todo' # <<classify>> /\ FactsFirst(queue', todo')
      /\ \A t \in Facts : NextIs(t)' => e.type = t /\ Head(queue') = e /\ agent # "gone"
  BY <1>2, <1>3, <1>5, DoneFacts
<1>7. ~NextIs("VERDICT") /\ ~NextIs("CONTEXT_LOADED") /\ ~NextIs("VERDICT")'
  BY <1>2, <1>5, <1>6, NoFactNow DEF Facts
<1>8. NextIs("CONTEXT_LOADED")' => agent # "gone"
  BY <1>6 DEF Facts
<1>9. ASSUME NextIs("CONTEXT_LOADED")', context'.turn.flags = {}
      PROVE  Fresh(context.turn.assistantID, Len(verdicts))'
  <2>1. n # 0 /\ n # state.lastTerminalAssistantID /\ context'.turn.assistantID = n /\ n \in Nat
    BY <1>1, <1>2, <1>4, <1>9 DEF Forward, n
  <2>2. ASSUME NEW i \in 1..Len(verdicts), verdicts[i].decision \in Closing
        PROVE  verdicts[i].assistantID \in reopened \/ verdicts[i].assistantID < n
    <3>1. Kept(verdicts[i].assistantID) /\ ~NoMore
      BY <1>8, <1>9, <2>2 DEF ClosedInv, NoMore
    <3>2. verdicts[i].assistantID \in Nat /\ verdicts[i].assistantID <= n
      BY VerdictTyped DEF n
    <3> QED
      BY <1>7, <2>1, <3>1, <3>2 DEF Kept, n
  <2> QED
    BY <1>2, <2>1, <2>2 DEF Fresh
<1>10. NoMore => NoMore'
  BY <1>2, <1>6, <1>8 DEF NoMore
<1>11. \A i \in 1..Len(verdicts) : Kept(verdicts[i].assistantID) => Kept(verdicts[i].assistantID)'
  BY <1>2, <1>7, <1>10, KeptStays
<1>12. \A i \in 1..Len(verdicts') :
         verdicts'[i].decision \in Closing => Kept(verdicts[i].assistantID)'
  BY <1>2, <1>11 DEF ClosedInv
<1>13. ClosedTurnStaysClosed'
  BY <1>2 DEF ClosedInv, ClosedTurnStaysClosed
<1>14. ~restored' => verdicts' = <<>>
  BY <1>2 DEF ClosedInv
<1> QED
  BY <1>6, <1>7, <1>9, <1>12, <1>13, <1>14 DEF ClosedInv

LEMMA ClosedJudged ==
  ASSUME PluginInv, TurnInv, ClosedInv, Forward, NEW d \in Decisions, FinishClassify(d)
  PROVE  ClosedInv'
<1> DEFINE e == [type |-> "VERDICT", decision |-> d, originUserID |-> judging.originUserID]
           v == [assistantID |-> judging.turn.assistantID, decision |-> d]
           a == context.turn.assistantID
<1>1. /\ pc = "judge" /\ Done(e) /\ verdicts' = Append(verdicts, v)
      /\ UNCHANGED <<agent, context, state, restored, reopened>>
  BY DEF FinishClassify, machine, opencode
<1>2. judging \in Context /\ todo = <<classify>> /\ judging = context /\ restored
  BY <1>1 DEF PluginInv, CallInv, DrainInv, TurnInv
<1>3. v = [assistantID |-> a, decision |-> d] /\ state.inflightAssistantID = a /\ a \in Nat
  <2>1. state.phase = "CLASSIFYING" /\ state.inflightAssistantID = a
    BY <1>2 DEF TurnInv
  <2>2. state.inflightAssistantID \in Assistant
    BY <2>1 DEF PluginInv, MachineInv, Sound, ModerationState, Nullable
  <2> QED
    BY <1>2, <2>1, <2>2, SessionAssumption
<1>4. Fresh(a, Len(verdicts))
  BY <1>2 DEF ClosedInv
<1>5. e \in Event /\ e.type = "VERDICT"
  BY <1>2, SessionAssumption DEF Context, VerdictEvent, Event
<1>6. verdicts \in Seq(Verdict) /\ Len(verdicts) \in Nat
  BY DEF TurnInv
<1> HIDE DEF e, v, a
<1>7. /\ Len(verdicts') = Len(verdicts) + 1
      /\ verdicts'[Len(verdicts')] = v
      /\ DOMAIN verdicts' = 1..(Len(verdicts) + 1)
      /\ \A i \in 1..Len(verdicts) : verdicts'[i] = verdicts[i]
  BY <1>1, <1>6
<1>8. todo # <<trace, sendContinuation>>
  BY <1>2, LineupsDiffer
<1>9. /\ todo # <<>> /\ todo' # <<classify>>
      /\ \A t \in Facts : NextIs(t)' => e.type = t /\ Head(queue') = e /\ agent # "gone"
  BY <1>1, <1>5, <1>8, DoneFacts
<1>10. ~NextIs("CONTEXT_LOADED")' /\ ~NextIs("VERDICT") /\ ~NoMore
  BY <1>2, <1>5, <1>9, NoFactNow DEF Facts, NoMore
<1>11. agent # "gone" => NextIs("VERDICT")'
  <2>1. queue \in Seq(Event)
    BY DEF PluginInv, DrainInv
  <2>2. agent # "gone" => queue' = <<e>> \o queue
    BY <1>1 DEF Done, followUp
  <2>3. <<e>> \o queue # <<>> /\ Head(<<e>> \o queue) = e
    BY <1>5, <2>1, QueueFront
  <2>4. agent # "gone" => queue' # <<>> /\ Head(queue') = e
    BY <2>2, <2>3, Zenon
  <2> QED
    BY <1>5, <2>4 DEF NextIs
<1>12. NextIs("VERDICT")' => Fresh(state.inflightAssistantID, Len(verdicts) - 1)'
  BY <1>1, <1>3, <1>4, <1>6, <1>7 DEF Fresh
<1>13. ASSUME NEW i \in 1..Len(verdicts'), verdicts'[i].decision \in Closing
       PROVE  Kept(verdicts[i].assistantID)'
  <2>1. CASE i \in 1..Len(verdicts)
    <3>1. Kept(verdicts[i].assistantID)
      BY <1>7, <1>13, <2>1 DEF ClosedInv
    <3>2. verdicts[i].assistantID < newestModeratedAssistant(msgs) =>
            verdicts[i].assistantID < newestModeratedAssistant(msgs')
      BY <2>1, VerdictTyped DEF Forward
    <3> QED
      BY <1>1, <1>7, <1>10, <2>1, <3>1, <3>2 DEF Kept
  <2>2. CASE i = Len(verdicts')
    <3>1. verdicts'[i].assistantID = state'.inflightAssistantID
      BY <1>1, <1>3, <1>7, <2>2
    <3>2. agent = "gone" => NoMore'
      BY <1>1, <1>9, <1>10 DEF NoMore
    <3> QED
      BY <1>11, <3>1, <3>2 DEF Kept
  <2> QED
    BY <1>6, <1>7, <2>1, <2>2
<1>14. ClosedTurnStaysClosed'
  <2> SUFFICES ASSUME NEW i \in DOMAIN verdicts', NEW j \in DOMAIN verdicts',
                      i < j, verdicts'[i].decision \in Closing
               PROVE  \/ verdicts'[i].assistantID # verdicts'[j].assistantID
                      \/ verdicts'[i].assistantID \in reopened'
    BY DEF ClosedTurnStaysClosed
  <2>1. CASE j \in 1..Len(verdicts)
    <3>1. i \in 1..Len(verdicts)
      BY <1>6, <1>7, <2>1
    <3>2. DOMAIN verdicts = 1..Len(verdicts)
      BY <1>6
    <3> QED
      BY <1>1, <1>7, <2>1, <3>1, <3>2 DEF ClosedInv, ClosedTurnStaysClosed
  <2>2. CASE j = Len(verdicts')
    <3>1. i \in 1..Len(verdicts) /\ verdicts'[i] = verdicts[i]
      BY <1>6, <1>7, <2>2
    <3>2. verdicts[i].assistantID \in reopened \/ verdicts[i].assistantID < a
      BY <1>4, <3>1 DEF Fresh
    <3>3. verdicts'[j].assistantID = a /\ verdicts[i].assistantID \in Nat
      BY <1>3, <1>7, <2>2, <3>1, VerdictTyped
    <3> QED
      BY <1>1, <1>3, <3>1, <3>2, <3>3
  <2> QED
    BY <1>6, <1>7, <2>1, <2>2
<1>15. restored'
  BY <1>1, <1>2
<1> QED
  BY <1>9, <1>10, <1>12, <1>13, <1>14, <1>15 DEF ClosedInv

LEMMA ClosedTaken ==
  ASSUME PluginInv, TurnInv, ClosedInv, Forward, Take
  PROVE  ClosedInv'
<1> DEFINE e == Head(queue)
           out == transition(state, e)
<1>1. /\ pc = "take" /\ state' = out.state /\ todo' = out.effects /\ queue' = Tail(queue)
      /\ UNCHANGED <<agent, restored, context, verdicts>>
      /\ reopened' = IF e.type # "EFFECT_ERROR" THEN reopened
                     ELSE reopened \union ({state.lastTerminalAssistantID}
                                             \intersect {state.inflightAssistantID})
  BY DEF Take, call, opencode
<1>2. /\ queue \in Seq(Event) /\ queue # <<>> /\ Sound(state) /\ e \in Event /\ Tail(queue) \in Seq(Event)
      /\ todo = <<>> /\ restored
  BY <1>1, QueueTail DEF PluginInv, MachineInv, DrainInv
<1>3. EffectsFit(state, e, out)
  BY <1>2, EventFits
<1>4. /\ NextIs(e.type)
      /\ e.type # "REPLAY"
  <2>1. 1 \in 1..Len(queue) /\ e = queue[1]
    BY <1>2
  <2> QED
    BY <1>2, <2>1 DEF TurnInv, FactsFirst, NextIs
<1>5. ~NextIs("VERDICT")' /\ ~NextIs("CONTEXT_LOADED")'
  BY <1>1, <1>2, TailNoFacts, NoFactNext DEF TurnInv, NextIs, Facts
<1> HIDE DEF out
<1>6. todo' = <<classify>> => NextIs("CONTEXT_LOADED") /\ context.turn.flags = {}
  <2> SUFFICES ASSUME todo' = <<classify>> PROVE NextIs("CONTEXT_LOADED") /\ context.turn.flags = {}
    OBVIOUS
  <2>1. e.type \in {"CONTEXT_LOADED", "REPLAY"} /\ e.turn.flags = {}
    BY <1>1, <1>3 DEF EffectsFit
  <2>2. NextIs("CONTEXT_LOADED")
    BY <1>4, <2>1
  <2> QED
    BY <2>1, <2>2 DEF TurnInv
<1>7. todo' = <<classify>> => Fresh(context.turn.assistantID, Len(verdicts))'
  <2> SUFFICES ASSUME todo' = <<classify>> PROVE Fresh(context.turn.assistantID, Len(verdicts))'
    OBVIOUS
  <2>1. Fresh(context.turn.assistantID, Len(verdicts))
    BY <1>6 DEF ClosedInv
  <2> QED
    BY <1>1, <2>1 DEF Fresh
<1>8. reopened \subseteq reopened'
  BY <1>1
<1>9. NoMore => NoMore'
  BY <1>1, <1>5, <1>6 DEF NoMore
<1>10. ASSUME NEW i \in 1..Len(verdicts), verdicts[i].decision \in Closing
       PROVE  Kept(verdicts[i].assistantID)'
  <2>1. Kept(verdicts[i].assistantID)
    BY <1>10 DEF ClosedInv
  <2>2. CASE e.type \notin {"VERDICT", "EFFECT_ERROR"}
    <3>1. state'.lastTerminalAssistantID = state.lastTerminalAssistantID
      BY <1>1, <1>2, <2>2, MarkStays DEF out
    <3>2. ~NextIs("VERDICT")
      BY <2>2 DEF NextIs
    <3> QED
      BY <1>1, <1>8, <1>9, <1>10, <2>1, <3>1, <3>2, KeptStays
  <2>3. CASE e.type = "EFFECT_ERROR"
    <3>1. \/ state'.lastTerminalAssistantID = state.lastTerminalAssistantID
          \/ state.lastTerminalAssistantID = state.inflightAssistantID
      BY <1>1, <1>2, <2>3, ErrorMark DEF out
    <3>2. ~NextIs("VERDICT")
      BY <2>3 DEF NextIs
    <3>3. CASE state'.lastTerminalAssistantID = state.lastTerminalAssistantID
      BY <1>1, <1>8, <1>9, <1>10, <2>1, <3>2, <3>3, KeptStays
    <3>4. CASE state.lastTerminalAssistantID = state.inflightAssistantID
      <4>1. state.lastTerminalAssistantID \in reopened'
        BY <1>1, <2>3, <3>4
      <4>2. verdicts[i].assistantID < newestModeratedAssistant(msgs) =>
              verdicts[i].assistantID < newestModeratedAssistant(msgs')
        BY <1>10, VerdictTyped DEF Forward
      <4> QED
        BY <1>1, <1>8, <1>9, <2>1, <3>2, <4>1, <4>2 DEF Kept
    <3> QED
      BY <3>1, <3>3, <3>4
  <2>4. CASE e.type = "VERDICT"
    <3>1. /\ state.phase = "CLASSIFYING"
          /\ verdicts[Len(verdicts)] = [assistantID |-> state.inflightAssistantID, decision |-> e.decision]
          /\ Fresh(state.inflightAssistantID, Len(verdicts) - 1)
          /\ Len(verdicts) \in Nat /\ Len(verdicts) # 0
      BY <1>4, <2>4 DEF TurnInv, ClosedInv
    <3>2. CASE i = Len(verdicts)
      <4>1. e.decision \in Closing /\ verdicts[i].assistantID = state.inflightAssistantID
        BY <1>10, <3>1, <3>2
      <4>2. state'.lastTerminalAssistantID = state.inflightAssistantID
        BY <1>1, <1>2, <2>4, <3>1, <4>1, ClosingMarks DEF out
      <4> QED
        BY <1>1, <4>1, <4>2 DEF Kept
    <3>3. CASE i # Len(verdicts)
      <4>1. i \in 1..(Len(verdicts) - 1)
        BY <3>1, <3>3
      <4>2. verdicts[i].assistantID \in reopened \/ verdicts[i].assistantID < state.inflightAssistantID
        BY <1>10, <3>1, <4>1 DEF Fresh
      <4>3. /\ state.inflightAssistantID <= newestModeratedAssistant(msgs)
            /\ state.inflightAssistantID \in Nat /\ verdicts[i].assistantID \in Nat
        <5>1. Len(verdicts) \in 1..Len(verdicts)
          BY <3>1
        <5>2. verdicts[Len(verdicts)].assistantID = state.inflightAssistantID
          BY <3>1
        <5> QED
          BY <5>1, <5>2, VerdictTyped
      <4>4. verdicts[i].assistantID < state.inflightAssistantID =>
              verdicts[i].assistantID < newestModeratedAssistant(msgs')
        BY <4>3 DEF Forward
      <4> QED
        BY <1>1, <1>8, <4>2, <4>4 DEF Kept
    <3> QED
      BY <3>2, <3>3
  <2> QED
    BY <2>2, <2>3, <2>4
<1>11. \A i \in 1..Len(verdicts') :
         verdicts'[i].decision \in Closing => Kept(verdicts[i].assistantID)'
  BY <1>1, <1>10
<1>12. ClosedTurnStaysClosed'
  BY <1>1, <1>8 DEF ClosedInv, ClosedTurnStaysClosed
<1>13. restored'
  BY <1>1, <1>2
<1> QED
  BY <1>5, <1>7, <1>11, <1>12, <1>13 DEF ClosedInv

LEMMA ClosedRests ==
  ASSUME PluginInv, TurnInv, ClosedInv, Forward, agent = "gone" => agent' = "gone",
         \/ Restore \/ RestoreFails \/ StartClassify \/ ErrorTraceFails \/ Looked \/ VerifyPrompt
         \/ Save \/ SaveFails \/ GhostSaves \/ Deleted
  PROVE  ClosedInv'
<1>1. CASE StartClassify \/ Looked \/ Save \/ SaveFails \/ GhostSaves \/ Deleted
  <2>1. UNCHANGED <<state, todo, context, verdicts, reopened, restored, queue>>
    BY <1>1 DEF StartClassify, Looked, Save, SaveFails, GhostSaves, Deleted, machine, drain, call,
                history, past
  <2> QED
    BY <2>1, ClosedNotified
<1>2. CASE Restore \/ RestoreFails
  <2>1. ~restored /\ todo = <<>> /\ UNCHANGED <<queue, todo, verdicts>>
    BY <1>2 DEF Restore, RestoreFails, PluginInv, DrainInv, history
  <2>2. verdicts' = <<>> /\ Len(verdicts') = 0 /\ DOMAIN verdicts' = {}
    BY <2>1 DEF ClosedInv
  <2>3. \A a : Fresh(a, Len(verdicts))'
    BY <2>2 DEF Fresh
  <2>4. ~NextIs("VERDICT")'
    BY <2>1 DEF TurnInv, NextIs
  <2>5. /\ ClosedTurnStaysClosed'
        /\ \A i \in 1..Len(verdicts') :
             verdicts'[i].decision \in Closing => Kept(verdicts[i].assistantID)'
    BY <2>2 DEF ClosedTurnStaysClosed
  <2> QED
    BY <2>2, <2>3, <2>4, <2>5 DEF ClosedInv
<1>3. CASE VerifyPrompt \/ ErrorTraceFails
  <2>1. /\ todo' = Tail(todo) \/ todo' = <<>>
        /\ todo # <<>> /\ todo \in Lineups
        /\ UNCHANGED <<agent, state, restored, queue, context, verdicts, reopened>>
    BY <1>3, LineupsDiffer
    DEF VerifyPrompt, ErrorTraceFails, Perform, opencode, machine, call, history, PluginInv, DrainInv
  <2>2. todo' # <<classify>>
    BY <2>1, LineupFacts, LineupsDiffer
  <2>3. ~NextIs("VERDICT") /\ \A t : NextIs(t)' <=> NextIs(t)
    BY <2>1, NoFactNow DEF NextIs
  <2>4. NoMore => NoMore'
    BY <2>1, <2>2, <2>3 DEF NoMore
  <2>5. \A i \in 1..Len(verdicts) : Kept(verdicts[i].assistantID) => Kept(verdicts[i].assistantID)'
    BY <2>1, <2>3, <2>4, KeptStays
  <2> QED
    BY <2>1, <2>2, <2>3, <2>5, ClosedWaits
<1> QED
  BY <1>1, <1>2, <1>3

LEMMA ClosedStep ==
  ASSUME OpenCodeInv, PluginInv, TurnInv, ClosedInv, Forward, [Next]_vars, ~Crash
  PROVE  ClosedInv'
<1>1. agent = "gone" => agent' = "gone"
  BY GoneForGood
<1>2. CASE Quiet
  BY <1>1, <1>2, ClosedNotified DEF Quiet, machine, drain, call, past
<1>3. CASE Notified
  <2>1. UNCHANGED <<state, restored, todo, context, verdicts, reopened>>
    BY <1>3 DEF Notified, machine, call, past, enqueue
  <2>2. queue' = queue \/
          (agent # "gone" /\ \E events \in Seq(Notification) : queue' = queue \o events)
    BY <1>3 DEF Notified, enqueue
  <2> QED
    BY <1>1, <2>1, <2>2, ClosedNotified
<1>4. CASE Replayed
  <2>1. PICK i \in DOMAIN idles : idles[i].stage = "replay"
    BY <1>4 DEF Replayed
  <2>2. idles[i] \in Reader
    BY DEF TurnInv
  <2> QED
    BY <2>1, <2>2 DEF Reader
<1> QED
  BY <1>1, <1>2, <1>3, <1>4, PluginSteps, ClosedReported, ClosedLoaded, ClosedJudged, ClosedTaken, ClosedRests

LEMMA NoCrashes ==
  ASSUME Budget["crash"] = 0, BudgetInv
  PROVE  ~Crash
<1>1. "crash" \in DOMAIN Budget
  BY SessionAssumption
<1> QED
  BY <1>1, SpentWithinBudget DEF Crash

LEMMA ClosedInit == Init => ClosedInv
BY LineupsDiffer DEF Init, ClosedInv, ClosedTurnStaysClosed, NextIs

\* A verdict that closes an assistant is final, of all the others an error that
\* meets it in flight again excepted, as long as nothing is replayed and the
\* plugin does not restart (fsm.ts:114, 220, adapter.ts:337).
THEOREM ClosedTurnsStayClosed ==
  ASSUME Budget["replay"] = 0, Budget["crash"] = 0
  PROVE  Spec => []ClosedTurnStaysClosed
<1>1. /\ OpenCodeInv /\ PluginInv /\ (OpenCodeInv /\ PluginInv)' /\ BudgetInv /\ TurnInv /\ ClosedInv
      /\ [Next]_vars
      => ClosedInv'
  BY TurnStep, NoReplays, NoCrashes, ClosedStep
<1>2. ClosedInv => ClosedTurnStaysClosed
  BY DEF ClosedInv
<1> QED
  BY <1>1, <1>2, ClosedInit, TurnInvariant, SessionInvariant, BudgetInvariant, PTL DEF Spec
=============================================================================
