----------------------------- MODULE LlamaSetup -----------------------------
(***************************************************************************)
(* The llama setup (scripts/llama_setup_installer.py, _install.py,         *)
(* _detect.py, _registry.py): stacks are selected, the prerequisites they  *)
(* miss are looked up in a snapshot of the machine, and the plan's work    *)
(* items run one after the other, whatever the result of each.             *)
(*                                                                         *)
(* Scripts, make targets and diagnostics are outside this code: each       *)
(* succeeds or fails; a prerequisite's script may succeed and its          *)
(* detection still fail (a group the user joins at the next login).        *)
(***************************************************************************)
EXTENDS Naturals, Sequences, FiniteSets, SequencesExt, Places

CONSTANTS
  Prereqs,       \* the registry's prerequisites, in their order
  Undetected,    \* those without detection commands
  Monitoring,    \* the one the terminal asks about, "intel_monitoring"
  Stacks,        \* the registry's stacks, in their order
  Needs,         \* per stack, the prerequisite ids it lists
  BuildSteps,    \* per stack, its build steps
  DeployKind,    \* per stack, "llamafile", "llamaserver", "none" or another kind
  Scripted,      \* build steps and prerequisites that have something to run
  Diagnostics,   \* the registry's diagnostics, as "optional" or "required"
  UnknownStack,  \* an id in a defaults file that no stack has
  MaxIds         \* bound on the ids in a defaults file

VARIABLES
  satisfied,  \* prerequisites whose detection commands, if any, return what is expected
  llama       \* the run: work left, results, exit code; history: what it planned for

llamaVars == <<satisfied, llama>>

Stack == ToSet(Stacks)
Prereq == ToSet(Prereqs)

ASSUME LlamaAssumption ==
  /\ Prereqs \in Seq(Prereq) /\ Stacks \in Seq(Stack)
  /\ Undetected \subseteq Prereq /\ Monitoring \in Prereq
  /\ DOMAIN Needs = Stack /\ DOMAIN BuildSteps = Stack /\ DOMAIN DeployKind = Stack
  /\ \A s \in Stack : Needs[s] \in Seq(ToSet(Needs[s])) /\ BuildSteps[s] \in Seq(ToSet(BuildSteps[s]))
  /\ Diagnostics \in Seq({"optional", "required"})
  /\ UnknownStack \notin Stack
  /\ MaxIds \in Nat

LlamaExited(code) ==
  [pc |-> "idle", work |-> <<>>, results |-> <<>>, rc |-> code, missed |-> {}]

LlamaInit ==
  /\ satisfied = {}
  /\ llama = LlamaExited(0)

Item(kind, stack, ref) == [kind |-> kind, stack |-> stack, ref |-> ref]

\* _prereq_satisfied: one without detection commands never is.
_prereq_satisfied(p) == p \in satisfied \ Undetected

\* missing_prereqs_for_stack: an id the registry lacks is silently left out.
missing_prereqs_for_stack(s) ==
  Those(Needs[s], {p \in Prereq : ~_prereq_satisfied(p)})

\* _build_plan: what was asked for first, as often as it was asked for, then what
\* each stack misses, once.
_build_plan(stacks, extra) ==
  LET missing == FlattenSeq([i \in DOMAIN stacks |-> missing_prereqs_for_stack(stacks[i])])
  IN extra \o Among(missing, {i \in DOMAIN missing :
                                /\ missing[i] \notin ToSet(extra)
                                /\ \A j \in 1..(i - 1) : missing[j] # missing[i]})

\* Mutation: a stack is deployed before it is built.
itemsOfDeployedFirst(s, deploy) ==
  (IF deploy /\ DeployKind[s] # "none" THEN <<Item("deploy", s, s)>> ELSE <<>>)
    \o [i \in DOMAIN BuildSteps[s] |-> Item("build", s, BuildSteps[s][i])]

itemsOf(s, deploy) ==
  [i \in DOMAIN BuildSteps[s] |-> Item("build", s, BuildSteps[s][i])]
    \o (IF deploy /\ DeployKind[s] # "none" THEN <<Item("deploy", s, s)>> ELSE <<>>)

\* _collect_work_items: prerequisites, each stack's builds and its deployment,
\* diagnostics.
_collect_work_items(stacks, prereqs, deploy, diagnose) ==
  [i \in DOMAIN prereqs |-> Item("prereq", UnknownStack, prereqs[i])]
    \o FlattenSeq([i \in DOMAIN stacks |-> itemsOf(stacks[i], deploy)])
    \o (IF diagnose THEN [i \in DOMAIN Diagnostics |-> Item("diagnostic", UnknownStack, Diagnostics[i])]
                    ELSE <<>>)

\* The snapshot is taken once, and the plan made from it.
Planned(stacks, extra, deploy, diagnose) ==
  LET prereqs == _build_plan(stacks, extra)
  IN [pc |-> "running", rc |-> 0, results |-> <<>>,
      work |-> _collect_work_items(stacks, prereqs, deploy, diagnose),
      missed |-> UNION {ToSet(missing_prereqs_for_stack(s)) : s \in ToSet(stacks)}]

\* On the terminal the monitoring prerequisite is offered even if it is
\* satisfied, and deployment only if a stack has one.
_run_interactive(picked, monitoring, deploy, diagnose) ==
  /\ llama.pc = "idle"
  /\ deploy => \E s \in picked : DeployKind[s] # "none"
  /\ llama' = IF picked = {} THEN LlamaExited(0)
              ELSE Planned(Those(Stacks, picked),
                           IF monitoring THEN <<Monitoring>> ELSE <<>>, deploy, diagnose)
  /\ UNCHANGED satisfied

\* From a defaults file, unknown stacks are skipped, unknown prerequisites dropped.
_run_from_llama_defaults(ids, extra, deploy, diagnose) ==
  LET stacks == Those(ids, Stack)
  IN /\ llama.pc = "idle"
     /\ llama' = IF stacks = <<>> THEN LlamaExited(0)
                 ELSE Planned(stacks, Those(extra, Prereq), deploy, diagnose)
     /\ UNCHANGED satisfied

\* What a work item may return: a step without a script, a make target or a
\* known kind cannot succeed, an optional diagnostic cannot fail.
run_prereq(p) == IF p \in Scripted THEN BOOLEAN ELSE {FALSE}
run_build_step(step) == IF step \in Scripted THEN BOOLEAN ELSE {FALSE}
deploy_stack(s) == IF DeployKind[s] \in {"llamafile", "llamaserver"} THEN BOOLEAN ELSE {FALSE}
run_diagnostic(d) == IF d = "optional" THEN {TRUE} ELSE BOOLEAN

_dispatch_work_item(item) ==
  CASE item.kind = "prereq" -> run_prereq(item.ref)
    [] item.kind = "build" -> run_build_step(item.ref)
    [] item.kind = "deploy" -> deploy_stack(item.ref)
    [] item.kind = "diagnostic" -> run_diagnostic(item.ref)

\* execute_plan: one item, and the next whatever came of it.
ExecuteNext ==
  /\ llama.work # <<>>
  /\ LET item == Head(llama.work)
     IN \E success \in _dispatch_work_item(item) :
          /\ llama' = [llama EXCEPT !.work = Tail(@),
                         !.results = Append(@, [item |-> item, success |-> success])]
          /\ IF item.kind = "prereq" /\ success
             THEN satisfied' \in {satisfied, satisfied \union {item.ref}}
             ELSE UNCHANGED satisfied

PlanDone ==
  /\ llama.pc = "running"
  /\ llama.work = <<>>
  /\ llama' = LlamaExited(IF \A r \in ToSet(llama.results) : r.success THEN 0 ELSE 1)
  /\ UNCHANGED satisfied

LlamaDies ==
  /\ llama.pc = "running"
  /\ llama' = LlamaExited(1)
  /\ UNCHANGED satisfied

LlamaNext ==
  \/ \E deploy, diagnose, monitoring \in BOOLEAN :
       \/ \E picked \in SUBSET Stack : _run_interactive(picked, monitoring, deploy, diagnose)
       \/ \E n \in 0..MaxIds : \E ids \in [1..n -> Stack \union {UnknownStack}] :
            _run_from_llama_defaults(ids, IF monitoring THEN <<Monitoring, Monitoring>> ELSE <<UnknownStack>>,
                                     deploy, diagnose)
  \/ ExecuteNext
  \/ PlanDone
  \/ LlamaDies

-----------------------------------------------------------------------------

\* A service is deployed only after every build step of its stack has been run
\* in this run and every prerequisite the snapshot missed has been: the order of
\* the items is all that makes it so, over any selection, repeated stacks and
\* repeated prerequisites included.  (That they succeeded is not asked.)
DeployedLast ==
  \A i \in DOMAIN llama.results : LET item == llama.results[i].item IN
    item.kind = "deploy" =>
      /\ \A step \in ToSet(BuildSteps[item.ref]) : \E j \in 1..(i - 1) :
           llama.results[j].item = Item("build", item.ref, step)
      /\ \A p \in llama.missed : \E j \in 1..(i - 1) :
           llama.results[j].item = Item("prereq", UnknownStack, p)
=============================================================================
