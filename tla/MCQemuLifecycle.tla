---------------------------- MODULE MCQemuLifecycle ----------------------------
(* One operator with every command; two at once with four of them; one whose  *)
(* host has processes of another user; and a machine that is not provisioned, *)
(* whose network stays restricted.                                            *)
EXTENDS QemuLifecycle, TLC

CONSTANTS c1, c2

MCOne == [ops |-> c1 :> {"create", "start", "stop", "kill", "rebuild", "fresh", "delete", "export"}
                    @@ c2 :> {},
          provisioned |-> TRUE, births |-> 4, strangers |-> {"other"}]
MCPair == [ops |-> [c \in Client |-> {"create", "stop", "delete", "export"}],
           provisioned |-> FALSE, births |-> 3, strangers |-> {"other"}]
MCShared == [ops |-> c1 :> {"create", "start", "stop", "kill"} @@ c2 :> {},
             provisioned |-> FALSE, births |-> 3, strangers |-> {"other", "foreign"}]
MCSites == {MCOne, MCPair, MCShared}

MCOpenSites ==
  {[ops |-> c1 :> {"create", "start", "stop", "fresh"} @@ c2 :> {},
    provisioned |-> FALSE, births |-> 3, strangers |-> {"other"}]}
=============================================================================
