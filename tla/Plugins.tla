-------------------------------- MODULE Plugins --------------------------------
(***************************************************************************)
(* The plugins of an OpenCode process beside the moderator's sessions: the *)
(* list of models, one classification, the toasts of all sessions, and     *)
(* AgentCI.  They share the process and its files; none waits for another. *)
(*                                                                         *)
(* To keep the instances small a behaviour begins with one of them before  *)
(* its first call and the others after their last.                         *)
(***************************************************************************)
EXTENDS ModelSource, ToastQueue, Classifier, AgentCI

pluginVars == <<sourceVars, toastVars, vars, ciVars>>

SourceRests ==
  file = Template /\ picking = [p \in Picker |-> Missing] /\ loaded = Template /\ writes = MaxWrites
ToastsRest == pending = <<>> /\ worker = "none" /\ visible = NoEntry /\ pushed = MaxPushes
ClassifierRests ==
  /\ cycle = 0 /\ index = 0 /\ timedOut = FALSE /\ attempts = 1
  /\ pc = "done" /\ outcome = 1 /\ late = {} /\ expired = {}
CIRests ==
  /\ content = [f \in Document |-> "missing"] /\ started = "failed"
  /\ policies = <<>> /\ evidence = <<>> /\ calls = <<>> /\ edits = MaxEdits

PluginsInit ==
  \/ SourceInit /\ ToastsRest /\ ClassifierRests /\ CIRests
  \/ SourceRests /\ ToastInit /\ ClassifierRests /\ CIRests
  \/ SourceRests /\ ToastsRest /\ Init /\ CIRests
  \/ SourceRests /\ ToastsRest /\ ClassifierRests /\ CIInit

PluginsNext ==
  \/ SourceNext /\ UNCHANGED <<toastVars, vars, ciVars>>
  \/ ToastNext /\ UNCHANGED <<sourceVars, vars, ciVars>>
  \/ Next /\ UNCHANGED <<sourceVars, toastVars, ciVars>>
  \/ CINext /\ UNCHANGED <<sourceVars, toastVars, vars>>

\* The event loop runs the worker's callbacks, and the timer of a call fires.
PluginsSpec ==
  /\ PluginsInit /\ [][PluginsNext]_pluginVars
  /\ ToastFairness /\ ClassifierFairness
=============================================================================
