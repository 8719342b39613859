-------------------------------- MODULE AgentCI --------------------------------
(***************************************************************************)
(* The AgentCI plugin (agentci/src/policies.ts, v1-hook-adapter.ts,        *)
(* server.ts): the policies it loads once, when it starts, and the hooks   *)
(* OpenCode calls, several of which may be under way at once.  A hook that *)
(* injects reads one file after another and waits for each; an operator    *)
(* may replace or remove a file in between.                                *)
(*                                                                         *)
(* A policy is a record [name, event, action, tool, exit, repository,      *)
(* session, file], a call a record [tool, exit, session].  A field of a    *)
(* match that is not given is Unset; tool stands for the tool and for the    *)
(* command's pattern.                                                      *)
(***************************************************************************)
EXTENDS Integers, Sequences, FiniteSets, SequencesExt

CONSTANTS
  Documents,  \* what the configured policy files hold: sequences of entries
  Document,   \* the files a policy may inject
  Content,    \* what one may hold, within 16384 bytes
  Unset,
  Call,       \* what OpenCode may call a hook with
  Variants,   \* the efforts a model may offer: sets of names
  Effort,     \* OC_THINKING_EFFORT, or Unset
  MaxCalls,   \* bound on calls
  MaxEdits    \* bound on the operator's edits

VARIABLES
  content,   \* of each file: a member of Content, "missing" or "oversized"
  started,   \* the plugin's start: not yet, done or failed
  policies,  \* the policies it loaded
  evidence,  \* lines of the evidence file: the call each one is about
  calls,     \* hook calls under way or ended: [event, call, pos, out, end], pos
             \* the place of the policy applied last
  edits

ciVars == <<content, started, policies, evidence, calls, edits>>

ASSUME CIAssumption ==
  /\ MaxCalls \in Nat /\ MaxEdits \in Nat /\ Unset \notin Document
  /\ \A entries \in Documents : entries \in Seq(ToSet(entries))

BEFORE == "tool.execute.before"
AFTER == "tool.execute.after"
SYSTEM == "experimental.chat.system.transform"
MESSAGES == "experimental.chat.messages.transform"

EVENTS == {BEFORE, AFTER, SYSTEM, MESSAGES}

actionField == [e \in EVENTS |->
  CASE e = BEFORE -> {"block", "allow", "warn"} [] e = AFTER -> {"warn"} [] OTHER -> {"inject"}]

\* Only the messages transform restricts its match fields to the file.
matchFields(p) ==
  /\ p.event = MESSAGES => {p.tool, p.exit, p.repository, p.session} = {Unset}
  /\ (p.file # Unset) <=> (p.action = "inject")

policy(p) == p.event \in EVENTS /\ p.action \in actionField[p.event] /\ matchFields(p)

\* One entry that is refused, or a name used twice, refuses all of them.
loadPolicies(entries) ==
  /\ \A i \in DOMAIN entries : policy(entries[i])
  /\ \A i, j \in DOMAIN entries : entries[i].name = entries[j].name => i = j

readInjectedFile(f) == content[f] \in Content

validatePolicyFiles(entries) ==
  \A i \in DOMAIN entries : entries[i].action = "inject" => readInjectedFile(entries[i].file)

\* No policies at all are refused as well.
parsePolicies(entries) == entries # <<>> /\ loadPolicies(entries)

CIInit ==
  /\ content \in [Document -> Content \union {"missing"}]
  /\ started = "not yet" /\ policies = <<>>
  /\ evidence = <<>>
  /\ calls = <<>>
  /\ edits = 0

\* The plugin starts with what the files hold now; no policies at all, an
\* invalid one or an unreadable context file fail its start.
server(entries) ==
  /\ started = "not yet"
  /\ IF parsePolicies(entries) /\ validatePolicyFiles(entries)
     THEN started' = "done" /\ policies' = entries
     ELSE started' = "failed" /\ UNCHANGED policies
  /\ UNCHANGED <<content, evidence, calls, edits>>

addressed(p, call) == p.session \in {Unset, call.session}

\* All the fields of a match must hold.  Before a tool runs it has no exit
\* status, and the hooks are never told a repository path.
matches(p, call) ==
  /\ p.tool \in {Unset, call.tool}
  /\ p.exit # Unset => p.event # BEFORE /\ p.exit = call.exit
  /\ addressed(p, call)
  /\ p.repository = Unset

\* The places of the policies of an event; the adapter filters them once.
Of(event) == {k \in DOMAIN policies : policies[k].event = event}

\* Places in the order of the list.
InOrder(places) ==
  {at \in [1..Cardinality(places) -> places] :
     /\ \A i, j \in DOMAIN at : i < j => at[i] < at[j]
     /\ \A k \in places : \E i \in DOMAIN at : at[i] = k}

\* Mutation: the first policy that matches decides.
blockedByFirst(call) ==
  \E k \in Of(BEFORE) :
    /\ matches(policies[k], call) /\ policies[k].action = "block"
    /\ \A j \in Of(BEFORE) : matches(policies[j], call) => k <= j

blocked(call) == \E k \in Of(BEFORE) : matches(policies[k], call) /\ policies[k].action = "block"

Began(event, call, out, end) ==
  /\ started = "done" /\ Len(calls) < MaxCalls
  /\ calls' = Append(calls, [event |-> event, call |-> call, pos |-> 0, out |-> out, end |-> end])

EFFORT_ORDER == <<"minimal", "low", "medium", "high", "max", "xhigh">>

requestedEffort == IF Effort \in {Unset, "off", "none"} THEN "low" ELSE Effort

\* The effort asked for, or else the least of those the model has; "off" and
\* "none" are never chosen, nor is a name the order does not know.
chooseEffort(variants) ==
  IF requestedEffort \in variants THEN <<requestedEffort>>
  ELSE LET known == SelectSeq(EFFORT_ORDER, LAMBDA e : e \in variants)
       IN IF known = <<>> THEN <<>> ELSE <<Head(known)>>

\* A request's options are left alone when there is nothing to choose.
applyThinkingEffort(call) ==
  /\ \E variants \in Variants : Began("chat.params", call, chooseEffort(variants), "done")
  /\ UNCHANGED <<content, started, policies, evidence, edits>>

\* Before a tool runs: a block ends the call with an error; allow and warn say
\* nothing.
toolBefore(call) ==
  /\ Began(BEFORE, call, <<>>, IF blocked(call) THEN "error" ELSE "done")
  /\ UNCHANGED <<content, started, policies, evidence, edits>>

\* After it ran: every warning that matches is appended, in their order.
toolAfter(call) ==
  /\ \E at \in InOrder({k \in Of(AFTER) : matches(policies[k], call)}) :
       Began(AFTER, call, [i \in DOMAIN at |-> policies[at[i]]], "done")
  /\ evidence' = Append(evidence, Len(calls) + 1)
  /\ UNCHANGED <<content, started, policies, edits>>

TransformBegins(event, call) ==
  /\ event \in {SYSTEM, MESSAGES}
  /\ Began(event, call, <<>>, "running")
  /\ UNCHANGED <<content, started, policies, evidence, edits>>

\* What a transform still has to push.  That of the system looks at no other
\* field of a match than the session.
Left(c) ==
  {k \in Of(c.event) : k > c.pos /\ (c.event = SYSTEM => addressed(policies[k], c.call))}

\* The next policy's file is read and pushed; a file that cannot be read, or has
\* grown too large, fails the call and what was pushed stays pushed.
Inject(i) ==
  LET c == calls[i] IN
  /\ c.end = "running"
  /\ \E k \in Left(c) :
       /\ \A j \in Left(c) : k <= j
       /\ LET p == policies[k] IN
          calls' = [calls EXCEPT ![i] =
            IF readInjectedFile(p.file)
            THEN [c EXCEPT !.pos = k, !.out = Append(c.out, [name |-> p.name, text |-> content[p.file]])]
            ELSE [c EXCEPT !.end = "error"]]
  /\ UNCHANGED <<content, started, policies, evidence, edits>>

\* Mutation: the evidence is written whatever became of the hook.
evidenceAlways(i) ==
  /\ calls[i].end = "running"
  /\ calls' = [calls EXCEPT ![i].end = "done"]
  /\ evidence' = Append(evidence, i)
  /\ UNCHANGED <<content, started, policies, edits>>

\* The evidence file gets its line after the hook, if that succeeded.
withEvidence(i) ==
  /\ calls[i].end = "running" /\ Left(calls[i]) = {}
  /\ calls' = [calls EXCEPT ![i].end = "done"]
  /\ evidence' = Append(evidence, i)
  /\ UNCHANGED <<content, started, policies, edits>>

OperatorEdits ==
  /\ edits < MaxEdits
  /\ edits' = edits + 1
  /\ \E f \in Document, c \in Content \union {"missing", "oversized"} :
       c # content[f] /\ content' = [content EXCEPT ![f] = c]
  /\ UNCHANGED <<started, policies, evidence, calls>>

CINext ==
  \/ \E entries \in Documents : server(entries)
  \/ \E call \in Call : toolBefore(call) \/ toolAfter(call) \/ applyThinkingEffort(call)
  \/ \E call \in Call, event \in EVENTS : TransformBegins(event, call)
  \/ \E i \in DOMAIN calls : Inject(i) \/ withEvidence(i)
  \/ OperatorEdits

CISpec == CIInit /\ [][CINext]_ciVars

-----------------------------------------------------------------------------

\* The places of the policies a hook is meant to apply, and that it pushed them
\* once each and in their order.
Wanted(c) ==
  {k \in DOMAIN policies :
     /\ policies[k].event = c.event
     /\ CASE c.event = AFTER -> matches(policies[k], c.call)
          [] c.event = SYSTEM -> addressed(policies[k], c.call)
          [] OTHER -> TRUE}

Applied(c, places) ==
  \E at \in InOrder(places) :
    /\ DOMAIN c.out = DOMAIN at
    /\ \A i \in DOMAIN at : c.out[i].name = policies[at[i]].name

\* A block holds wherever it stands among policies that allow or warn, and a
\* hook that ends well has applied every policy meant for its call, once and
\* in order, though files change and other hooks run while it waits
\* (v1-hook-adapter.ts createV1HookAdapter).
EveryPolicyApplied ==
  \A i \in DOMAIN calls : LET c == calls[i] IN
    IF c.event = BEFORE
    THEN c.end = "done" <=>
           \A k \in DOMAIN policies :
             policies[k].event = BEFORE /\ matches(policies[k], c.call) => policies[k].action # "block"
    ELSE c.event \in EVENTS /\ c.end = "done" => Applied(c, Wanted(c))

\* The evidence file has one line for each injection and warning that OpenCode
\* got whole and none for one that failed half-way (server.ts withEvidence).
EvidenceOfWholeHooks ==
  /\ IsInjective(evidence)
  /\ ToSet(evidence) = {i \in DOMAIN calls : calls[i].event \in EVENTS \ {BEFORE} /\ calls[i].end = "done"
                          /\ Applied(calls[i], Wanted(calls[i]))}
=============================================================================
