------------------------------- MODULE MCPlugins -------------------------------
(* Blocks among allowances, warnings on an exit status, injections for one    *)
(* session, for all, and into the messages; and documents that are refused.   *)
EXTENDS Plugins

CONSTANTS sa, sb, sc, p1, p2, f1, f2

\* The template's fallback is not in the config.
MCTemplate == <<sb, sc>>

MCPolicy(name, event, action, inject) ==
  [name |-> name, event |-> event, action |-> action, file |-> inject,
   tool |-> Unset, exit |-> Unset, repository |-> Unset, session |-> Unset]

MCAllow == MCPolicy("allow", BEFORE, "allow", Unset)
MCBlock == [MCPolicy("block", BEFORE, "block", Unset) EXCEPT !.tool = "bash"]
MCNever == [MCPolicy("never", BEFORE, "block", Unset) EXCEPT !.exit = "zero"]
MCWarn == [MCPolicy("warn", AFTER, "warn", Unset) EXCEPT !.exit = "nonzero"]
MCElsewhere == [MCPolicy("elsewhere", AFTER, "warn", Unset) EXCEPT !.repository = "repo"]
MCInject == MCPolicy("inject", SYSTEM, "inject", f1)
MCOneSession == [MCPolicy("one", SYSTEM, "inject", f2) EXCEPT !.session = "s1"]
MCNote == MCPolicy("note", MESSAGES, "inject", f2)

MCDocuments ==
  {<<MCAllow, MCBlock, MCNever, MCWarn, MCElsewhere>>,
   <<MCOneSession, MCInject, MCNote>>, <<MCInject, MCOneSession, MCBlock>>,
   <<MCNote, [MCNote EXCEPT !.file = f1]>>, <<[MCWarn EXCEPT !.action = "block"]>>,
   <<[MCNote EXCEPT !.session = "s1"]>>, <<[MCInject EXCEPT !.file = Unset]>>, <<>>}

MCVariants == {{"off", "high", "max"}, {"low"}, {"none", "own"}}

MCCall == {[tool |-> "bash", exit |-> "nonzero", session |-> "s1"],
           [tool |-> "edit", exit |-> "none", session |-> "s2"]}
=============================================================================
