--------------------------------- MODULE Host ---------------------------------
(***************************************************************************)
(* One host: its container machines and its VPN client.  The namespace     *)
(* that a machine's network needs runs the same openvpn binary the host's  *)
(* client is recognised by, and a reboot takes both down.                  *)
(***************************************************************************)
EXTENDS PodmanVm, VpnClient

CONSTANT Scenarios  \* bound: commands given to each machine, VPN starts and platforms

ASSUME HostAssumption ==
  \A s \in Scenarios :
    s.commands \in [Machine -> Nat] /\ s.starts \in Nat /\ s.platforms \subseteq {"Linux", "Darwin"}

hostVars == <<podVars, vpnVars>>

Init == \E s \in Scenarios : PodmanInit(s.commands) /\ VpnInit(s.starts, s.platforms)

\* The VPN is left alone once its starts are used up.
VpnRuns == vpn.left > 0 \/ vpn.pc # "idle"

Next ==
  \/ PodmanStep /\ UNCHANGED vpnVars
  \/ VpnRuns /\ VpnStep(netns) /\ UNCHANGED podVars
  \/ Reboot /\ VpnReboot

Spec == Init /\ [][Next]_hostVars
=============================================================================
