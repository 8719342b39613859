------------------------------- MODULE MCSetup -------------------------------
(* The setup programs on a small machine: two components and one that uv    *)
(* brings, a mandatory and an optional repository, three features, two      *)
(* stacks, and checkouts with a duplicate, a malformed manifest, an invalid *)
(* entry, an optional and a container dependency, and versions that fit and *)
(* do not.                                                                  *)
EXTENDS Setup

CONSTANTS core, tool, env, ci, extra, kc, kcdb, drivers, monitoring, vulkan, engine, bundle, sycl,
  llamafile, llamacpp

MCComponents == <<core, tool, env>>
MCRepos == <<extra, ci>>
MCDetect == core :> {"path", "version"} @@ tool :> {"path", "cmd"} @@ env :> {"cmd"}
              @@ extra :> {"path"} @@ ci :> {"path"}
MCInitially ==
  {[c \in Component |-> "absent"],
   core :> "broken" @@ tool :> "silent" @@ env :> "good" @@ extra :> "good" @@ ci :> "absent",
   core :> "good" @@ tool :> "good" @@ env :> "good" @@ extra :> "absent" @@ ci :> "good"}
MCAgendas == {<<"bootstrap", "bootstrap">>, <<"bootstrap", "extensions", "extensions">>, <<"extensions", "extensions">>,
              <<"host", "host">>, <<"llama", "llama">>}
MCVersion == core :> 2 @@ tool :> Unparseable @@ env :> 1 @@ extra :> None @@ ci :> None

Base == [name |-> "n", binary |-> core, python |-> FALSE, deps |-> <<>>, hidden |-> FALSE,
         min |-> None, max |-> None, check |-> None, wellFormed |-> TRUE]
Checking == [pattern |-> TRUE, expects |-> TRUE]
InContainer == [Base EXCEPT !.name = "kcadm", !.binary = tool, !.check = Checking,
                  !.deps = <<Dep("container", {kc, kcdb}, FALSE)>>]
Fits == [Base EXCEPT !.name = "fits", !.check = [Checking EXCEPT !.expects = FALSE], !.min = 2,
           !.max = 3, !.python = TRUE]
TooOld == [Base EXCEPT !.name = "old", !.check = Checking, !.min = 3,
             !.deps = <<Dep("file", extra, FALSE), Dep("submodule", ci, TRUE)>>]
Hidden == [TooOld EXCEPT !.hidden = TRUE]
Odd == [Base EXCEPT !.name = "odd", !.binary = tool, !.check = Checking, !.max = 3,
          !.deps = <<Dep("typo", ci, FALSE)>>]
Unbounded == [Base EXCEPT !.name = "kcadm"]
Later == [Fits EXCEPT !.name = "later", !.python = FALSE]
Invalid == [Base EXCEPT !.name = "fits", !.min = 1]
MCCheckouts == {<<<<InContainer, Fits>>, None, <<Unbounded>>>>, <<<<Invalid, TooOld>>, <<Hidden, Odd>>>>,
                <<<<Hidden, Unbounded, Later>>>>}

MCRequires == {<<<<>>, <<>>, <<>>>>, <<<<2>>, <<3>>, <<>>>>, <<<<3, 2>>, <<>>, <<1>>>>, <<<<>>, <<1>>, <<2, 1>>>>}

\* Over every registry of three features with up to two requirements each, and
\* every selection: ordered_features finds no order exactly if the selection's
\* requirements have a cycle, and otherwise puts every selected feature once,
\* behind what it requires of the selection.
Registry == [Feature -> {s \in UNION {[1..n -> Feature] : n \in 0..2} : IsInjective(s)}]
ASSUME OrderIsTopological ==
  \A requires \in Registry : \A selected \in SUBSET Feature :
    LET order == ordered_features(requires, selected)
        somewhere == \E s \in SetToSeqs(selected) : Ordered(requires, selected, s)
    IN IF order = Cycle THEN ~somewhere ELSE Ordered(requires, selected, order)

MCPrereqs == <<drivers, monitoring, vulkan>>
MCStacks == <<llamafile, llamacpp>>
MCNeeds == llamafile :> <<drivers, vulkan>> @@ llamacpp :> <<vulkan, UnknownStack>>
MCBuildSteps == llamafile :> <<engine, bundle>> @@ llamacpp :> <<sycl>>
MCDiagnostics == <<"optional", "required">>
MCDeployKind == llamafile :> "llamafile" @@ llamacpp :> "none"
=============================================================================
