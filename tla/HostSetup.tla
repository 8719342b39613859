------------------------------ MODULE HostSetup ------------------------------
(***************************************************************************)
(* Host configuration (scripts/host_setup_installer.py, bootstrap_aux.py,  *)
(* bootstrap_aux_defs.py): auxiliary features selected on the terminal or  *)
(* by a defaults file, put in an order that respects their requirements,   *)
(* and run until the first one fails.                                      *)
(*                                                                         *)
(* A feature's commands are make targets and scripts outside this code:    *)
(* they succeed or fail.  Features are numbered by (order, id).            *)
(***************************************************************************)
EXTENDS Naturals, Sequences, FiniteSets, SequencesExt, Places

CONSTANTS
  Features,     \* number of features of the registry
  RootFeature,  \* those of scope root
  Requires,     \* the registries: per feature, the sequence it requires
  Cycle         \* no order

VARIABLES
  applied,  \* history: features whose commands all succeeded
  aux       \* the run

auxVars == <<applied, aux>>

Feature == 1..Features
NoFeature == 0      \* an id in a defaults file that the registry lacks

\* Required ids exist; cycles are found later.
_validate_registry(requires) == requires \in [Feature -> Seq(Feature)]

ASSUME HostSetupAssumption ==
  /\ Features \in Nat
  /\ RootFeature \subseteq Feature
  /\ \A requires \in Requires : _validate_registry(requires)
  /\ Cycle \notin Seq(Feature)

AuxExited(code) ==
  [pc |-> "idle", todo |-> <<>>, results |-> <<>>, rc |-> code,
   requires |-> [f \in Feature |-> <<>>], uid |-> 0, owner |-> TRUE]

HostSetupInit == applied = {} /\ aux = AuxExited(0)

\* What a visit may find or leave in result.
Order == Seq(Feature) \union {Cycle}

\* Features visited one after the other.
visitAll(visit, result, features, visiting) ==
  LET upTo[i \in 0..Len(features)] ==
        IF i = 0 THEN result ELSE visit[<<upTo[i - 1], features[i], visiting>>]
  IN upTo[Len(features)]

\* visit, in terms of the visits inside it: through selected requirements only, and
\* a feature met while it is being visited is a cycle.
visitBy(inner, requires, selected) ==
  [x \in Order \X Feature \X SUBSET Feature |->
     LET result == x[1]  f == x[2]  visiting == x[3]
         after == visitAll(inner, result, Those(requires[f], selected), visiting \union {f})
     IN IF result = Cycle \/ f \in visiting THEN Cycle
        ELSE IF f \in ToSet(result) THEN result
        ELSE IF after = Cycle THEN Cycle ELSE Append(after, f)]

\* visit, at most n calls deep: visits inside more than Features others would
\* meet one of them again.
visits(requires, selected) ==
  LET visit[n \in 0..Features] ==
        IF n = 0 THEN [x \in Order \X Feature \X SUBSET Feature |-> Cycle]
        ELSE visitBy(visit[n - 1], requires, selected)
  IN visit

\* ordered_features: depth first from the smallest.
ordered_features(requires, selected) ==
  visitAll(visits(requires, selected)[Features], <<>>, Those([f \in Feature |-> f], selected), {})

\* _allowed: --scope restricts, and without it only root may run root features.
_allowed(f, scope, uid) ==
  CASE scope = "agent" -> f \notin RootFeature
    [] scope = "root" -> f \in RootFeature
    [] OTHER -> uid = 0 \/ f \notin RootFeature

\* _run from the selection on.  owner: SUDO_USER names the checkout's owner.
_run(requires, selected, confirmed, uid, owner) ==
  LET order == ordered_features(requires, selected)
  IN /\ aux.pc = "idle"
     /\ UNCHANGED applied
     /\ aux' = CASE selected = {} -> AuxExited(0)
                 [] selected # {} /\ order = Cycle -> AuxExited(1)
                 [] selected # {} /\ order # Cycle /\ ~confirmed -> AuxExited(0)
                 [] OTHER -> [AuxExited(0) EXCEPT !.pc = "running", !.todo = order,
                                !.requires = requires, !.uid = uid, !.owner = owner]

\* _select_interactive offers what is allowed.
_select_interactive(requires, picked, scope, confirmed, uid, owner) ==
  /\ \A f \in picked : _allowed(f, scope, uid)
  /\ _run(requires, picked, confirmed, uid, owner)

\* _select_defaults: an unknown id ends the run, whether it is enabled or not;
\* what is not allowed is left out.
_select_defaults(requires, named, enabled, scope, uid, owner) ==
  IF NoFeature \in named
  THEN aux.pc = "idle" /\ aux' = AuxExited(1) /\ UNCHANGED applied
  ELSE _run(requires, {f \in named \intersect enabled : _allowed(f, scope, uid)}, TRUE, uid, owner)

Result(f, success) == [feature |-> f, success |-> success]

\* run_feature: root features fail without root; agent features of a root run
\* are handed to the owner.
run_feature(f) == IF f \in RootFeature /\ aux.uid # 0 THEN {FALSE} ELSE BOOLEAN

\* Mutation: the loop goes on after a failure.
remainingAlways(success) == Tail(aux.todo)

\* run_selected stops at the first failure.
remaining(success) == IF success THEN Tail(aux.todo) ELSE <<>>

\* Without an owner an agent feature of a root run raises, out of run_selected.
RunFeature ==
  /\ aux.todo # <<>>
  /\ LET f == Head(aux.todo)
     IN IF f \notin RootFeature /\ aux.uid = 0 /\ ~aux.owner
        THEN aux' = AuxExited(1) /\ UNCHANGED applied
        ELSE \E success \in run_feature(f) :
               /\ applied' = IF success THEN applied \union {f} ELSE applied
               /\ aux' = [aux EXCEPT !.todo = remaining(success),
                                     !.results = Append(@, Result(f, success))]

FeaturesDone ==
  /\ aux.pc = "running"
  /\ aux.todo = <<>>
  /\ aux' = AuxExited(IF \E r \in ToSet(aux.results) : ~r.success THEN 1 ELSE 0)
  /\ UNCHANGED applied

\* Who runs it: the agent, or root, from the owner's sudo or not.
User == {<<1000, TRUE>>, <<0, TRUE>>, <<0, FALSE>>}

HostSetupNext ==
  \/ \E requires \in Requires, scope \in {"all", "agent", "root"}, user \in User :
       \/ \E picked \in SUBSET Feature, confirmed \in BOOLEAN :
            _select_interactive(requires, picked, scope, confirmed, user[1], user[2])
       \/ \E named \in SUBSET (Feature \union {NoFeature}) : \E enabled \in SUBSET named :
            _select_defaults(requires, named, enabled, scope, user[1], user[2])
  \/ RunFeature
  \/ FeaturesDone

HostSetupSpec == HostSetupInit /\ [][HostSetupNext]_auxVars

-----------------------------------------------------------------------------

\* Every selected feature once, behind what it requires of the selection.
Ordered(requires, selected, order) ==
  /\ ToSet(order) = selected
  /\ \A i, j \in DOMAIN order : i # j => order[i] # order[j]
  /\ \A i, j \in DOMAIN order : order[j] \in ToSet(requires[order[i]]) => j < i

\* A feature only ever runs after every feature of the run that it requires has
\* succeeded: the order puts it behind, and the stop at the first failure keeps it
\* from running on a requirement that failed.
RequirementsFirst ==
  \A i \in 1..Len(aux.results) : \A d \in ToSet(aux.requires[aux.results[i].feature]) :
    d \in {r.feature : r \in ToSet(aux.results)} \union ToSet(aux.todo) =>
      \E j \in 1..(i - 1) : aux.results[j] = Result(d, TRUE)
=============================================================================
