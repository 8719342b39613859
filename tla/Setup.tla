-------------------------------- MODULE Setup --------------------------------
(***************************************************************************)
(* A machine being set up: the operator runs the bootstrap installer, the  *)
(* host configuration, the llama setup, and the registration of extensions *)
(* and the banner, one at a time; only a banner may open while extensions  *)
(* are registered, or the other way round.  The extensions are resolved    *)
(* over what the bootstrap installer's runs left behind, failures          *)
(* included, while containers start and stop.                              *)
(***************************************************************************)
EXTENDS Extensions, HostSetup, LlamaSetup

CONSTANTS
  Agendas  \* bound: the sequences of programs an operator runs

VARIABLE agenda  \* the programs still to be run

setupVars == <<extVars, auxVars, llamaVars, agenda>>

Init ==
  /\ BootstrapInit /\ ExtensionsInit /\ HostSetupInit /\ LlamaInit
  /\ agenda \in Agendas

Busy ==
  (IF boot.pc # "idle" THEN {"bootstrap"} ELSE {})
    \union (IF aux.pc # "idle" THEN {"host"} ELSE {})
    \union (IF llama.pc # "idle" THEN {"llama"} ELSE {})
    \union (IF register # <<>> \/ banner.pc # "idle" THEN {"extensions"} ELSE {})

Starts(program) == agenda # <<>> /\ Head(agenda) = program /\ agenda' = Tail(agenda)

\* The program that runs goes on; when none does the agenda's next one starts.
Turn(program) ==
  \/ program \in Busy /\ UNCHANGED agenda
  \/ Busy = {} /\ Starts(program)

Next ==
  \/ Turn("bootstrap") /\ BootstrapNext
       /\ UNCHANGED <<running, links, register, rewritten, banner, auxVars, llamaVars>>
  \/ Busy \subseteq {"extensions"} /\ Starts("extensions") /\ ExtensionsStart
       /\ UNCHANGED <<auxVars, llamaVars>>
  \/ "extensions" \in Busy /\ ExtensionsNext /\ UNCHANGED <<auxVars, llamaVars, agenda>>
  \/ Turn("host") /\ HostSetupNext /\ UNCHANGED <<extVars, llamaVars>>
  \/ Turn("llama") /\ LlamaNext /\ UNCHANGED <<extVars, auxVars>>
  \/ Busy = {"extensions"} /\ (\E c \in Container : ContainerToggles(c))
       /\ UNCHANGED <<auxVars, llamaVars, agenda>>

Spec == Init /\ [][Next]_setupVars
=============================================================================
