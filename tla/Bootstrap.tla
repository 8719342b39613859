------------------------------ MODULE Bootstrap ------------------------------
(***************************************************************************)
(* The bootstrap installer (scripts/bootstrap_installer.py,                *)
(* bootstrap_install.py, bootstrap_components.py): which components a run  *)
(* installs, in which order, and what it reports.                          *)
(*                                                                         *)
(* The machine is, for each component, what its detection would meet:      *)
(* nothing, a path without the program ("stale"; for a repository, a       *)
(* directory that is not a clone), a program that fails ("broken") or that *)
(* prints no version ("silent"), or one that works.  The installer's       *)
(* scripts are external: a script that succeeds leaves its component       *)
(* working, one that fails leaves it as it was, broken or gone.            *)
(***************************************************************************)
EXTENDS Naturals, Sequences, FiniteSets, SequencesExt, Places

CONSTANTS
  Components,      \* all components that are not repositories, in their order
  Core,            \* those of the group "Core Dependencies"
  Uv,              \* those of type uv, which the Python environment brings
  WorkspaceRepos,  \* the repositories, in their order
  Mandatory,       \* the mandatory ones
  Detect,          \* per component, which of "path", "version", "cmd" it declares
  UnknownName,     \* a name in a defaults file that no component has
  MaxNames,        \* bound on the names in a defaults file
  Initially        \* bound on the machines a first run may meet

VARIABLES
  condition,  \* what is installed on the machine
  boot        \* the run: what is left to install, the results, the exit code

bootVars == <<condition, boot>>

Repos == ToSet(WorkspaceRepos)
Component == ToSet(Components) \union Repos
Condition == {"absent", "stale", "broken", "silent", "good"}

ASSUME BootstrapAssumption ==
  /\ Components \in Seq(ToSet(Components)) /\ WorkspaceRepos \in Seq(Repos)
  /\ Core \subseteq ToSet(Components) /\ Uv \subseteq ToSet(Components)
  /\ ToSet(Components) \intersect Repos = {}
  /\ Mandatory \subseteq Repos
  /\ Detect \in [Component -> SUBSET {"path", "version", "cmd"}]
  /\ \A r \in Repos : Detect[r] = {"path"}
  /\ UnknownName \notin Component
  /\ MaxNames \in Nat
  /\ Initially \subseteq [Component -> Condition]

Exited(code) == [pc |-> "idle", todo |-> <<>>, results |-> <<>>, rc |-> code]

\* Component.get_status: a path decides alone once its program is there; the
\* version command is the truth, and one that prints no version is a failure.
get_status(c) ==
  LET pathDecides == /\ "path" \in Detect[c]
                     /\ condition[c] # "absent"
                     /\ "version" \in Detect[c] => condition[c] # "stale"
  IN IF pathDecides
     THEN "version" \in Detect[c] => condition[c] = "good"
     ELSE "cmd" \in Detect[c] /\ condition[c] \in {"silent", "good"}

BootstrapInit ==
  /\ condition \in Initially
  /\ boot = Exited(0)

\* Mutation: the repositories come as the dialog returned them.
reposAsPicked(picked) == Those(WorkspaceRepos, picked)

\* select_workspace_repos: what the dialog returns, and the mandatory ones it lost.
select_workspace_repos(picked) ==
  Those(WorkspaceRepos, picked) \o Those(WorkspaceRepos, Mandatory \ picked)

\* install_components: the core first, each group in the order selected.
install_components(components) ==
  Those(components, Core) \o Those(components, Component \ Core)

\* _run_installation: refused unless the checkout is the user's own.
_run_installation(components, owner) ==
  boot' = IF owner
          THEN [Exited(0) EXCEPT !.pc = "installing", !.todo = install_components(components)]
          ELSE Exited(1)

\* A run on the terminal, with what the two dialogs return and the answer to
\* the confirmation.
RunInteractive(repos, tools, confirmed, owner) ==
  /\ boot.pc = "idle"
  /\ LET chosen == select_workspace_repos(repos) \o Those(Components, tools)
     IN IF chosen = <<>> \/ ~confirmed THEN boot' = Exited(0)
                                       ELSE _run_installation(chosen, owner)
  /\ UNCHANGED condition

\* A run from a defaults file: mandatory repositories are added, an unknown name
\* ends it before anything is installed, what is installed already is left out.
_run_from_defaults(names, owner) ==
  /\ boot.pc = "idle"
  /\ LET named == names \o Those(WorkspaceRepos, Mandatory \ ToSet(names))
         pending == Those(named, Repos \union {c \in Component : ~get_status(c)})
     IN CASE UnknownName \in ToSet(named) -> boot' = Exited(1)
          [] UnknownName \notin ToSet(named) /\ pending = <<>> -> boot' = Exited(0)
          [] OTHER -> _run_installation(pending, owner)
  /\ UNCHANGED condition

\* _pull_workspace_repo: a failing pull or clone is printed and forgotten.
_pull_workspace_repo(c) ==
  {condition[c], "good"} \union (IF condition[c] = "absent" THEN {"stale"} ELSE {})

\* install_component: what it may return and leave behind.
install_component(c) ==
  CASE c \in Repos -> {[success |-> TRUE, now |-> s] : s \in _pull_workspace_repo(c)}
    [] c \in Uv -> {[success |-> TRUE, now |-> condition[c]]}
    [] OTHER -> {[success |-> TRUE, now |-> "good"]}
                  \union {[success |-> FALSE, now |-> s] : s \in {condition[c], "broken", "absent"}}

\* One component: its result is appended, and the next follows whatever it was.
InstallNext ==
  /\ boot.todo # <<>>
  /\ \E outcome \in install_component(Head(boot.todo)) :
       /\ condition' = [condition EXCEPT ![Head(boot.todo)] = outcome.now]
       /\ boot' = [boot EXCEPT !.todo = Tail(@),
                     !.results = Append(@, [name |-> Head(boot.todo), success |-> outcome.success])]

_print_summary(results) == IF \A r \in ToSet(results) : r.success THEN 0 ELSE 1

Summary ==
  /\ boot.pc = "installing"
  /\ boot.todo = <<>>
  /\ boot' = Exited(_print_summary(boot.results))
  /\ UNCHANGED condition

\* Git is missing (only its exit code is caught), or the user interrupts.
Dies ==
  /\ boot.pc = "installing"
  /\ boot' = Exited(1)
  /\ UNCHANGED condition

BootstrapNext ==
  \/ \E repos \in SUBSET Repos, tools \in SUBSET ToSet(Components) :
       \E confirmed, owner \in BOOLEAN : RunInteractive(repos, tools, confirmed, owner)
  \/ \E n \in 0..MaxNames : \E names \in [1..n -> Component \union {UnknownName}] :
       \E owner \in BOOLEAN : _run_from_defaults(names, owner)
  \/ InstallNext
  \/ Summary
  \/ Dies

-----------------------------------------------------------------------------

\* Whatever the dialog returned or the file names, an installation that comes to
\* its summary has been through every mandatory repository, and through the core
\* before anything else.
EveryRunTakesTheMandatory ==
  [][Summary =>
       /\ Mandatory \subseteq {r.name : r \in ToSet(boot.results)}
       /\ \A i, j \in DOMAIN boot.results :
            i < j /\ boot.results[j].name \in Core => boot.results[i].name \in Core]_bootVars
=============================================================================
