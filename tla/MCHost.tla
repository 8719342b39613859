-------------------------------- MODULE MCHost --------------------------------
(* Two machines in a bridge network at work at once; or one whose network is *)
(* the VPN's namespace, beside the VPN client of either platform.            *)
EXTENDS Host, TLC

CONSTANTS m1, m2, m3

MCMode == m1 :> "bridge" @@ m2 :> "bridge" @@ m3 :> "netns"
MCScenarios ==
  {[commands |-> m1 :> 3 @@ m2 :> 1 @@ m3 :> 0, starts |-> 0, platforms |-> {"Linux"}],
   [commands |-> m1 :> 2 @@ m2 :> 2 @@ m3 :> 0, starts |-> 0, platforms |-> {"Linux"}],
   [commands |-> m1 :> 0 @@ m2 :> 0 @@ m3 :> 1, starts |-> 2,
    platforms |-> {"Linux", "Darwin"}]}
=============================================================================
