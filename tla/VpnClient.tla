------------------------------ MODULE VpnClient ------------------------------
(***************************************************************************)
(* The host's VPN client (scripts/bin/run_openvpn_client.py, cli/vpn_core.py,*)
(* cli/vpn_netns.py): the service that runs openvpn, the first tunnel       *)
(* interface, which may be another VPN's, and what the commands make of     *)
(* them.  On Linux the service is a systemd user unit that is restarted     *)
(* when it fails and does not write the log file; on macOS it is a launchd  *)
(* daemon.  Service managers and openvpn are external.                      *)
(***************************************************************************)
EXTENDS Naturals

VARIABLES
  service,  \* the platform's service: installed in a file, and loaded
  openvpn,  \* the daemon: down, connecting or up
  tun,      \* the first tunnel interface: none, own or foreign
  log,      \* what the last lines of the log file tell: nothing, completed or ended
  present,  \* client config and binary are found
  vpn       \* the start command: the probe it is at, whether it is the look at
            \* an existing connection, and how the last one exited; whether tun
            \* was ever foreign since it began, what tun was when it was last
            \* looked at, and whether the daemon has ended since (history)

vpnVars == <<service, openvpn, tun, log, present, vpn>>

Darwin == service.platform = "Darwin"

VpnInit(starts, platforms) ==
  /\ service \in [platform : platforms, installed : {FALSE}, loaded : {FALSE}]
  /\ openvpn = "down" /\ tun = "none" /\ log = "nothing"
  /\ present = TRUE
  /\ vpn = [pc |-> "idle", early |-> FALSE, exit |-> "none", foreign |-> FALSE,
            look |-> "none", lost |-> FALSE, left |-> starts]

-----------------------------------------------------------------------------
(* What the probes tell.                                                    *)

\* The client's config, at the path given, of the environment, or the default.
resolve_vpn_config == present

\* pgrep finds the daemon, and the one in a namespace, which has the same
\* binary.
workspace_openvpn_running(inNetns) == resolve_vpn_config /\ (openvpn # "down" \/ inNetns)
tunnel_interface_up == tun # "none"
_recent_log_connected == log = "completed"

\* Mutation: a client that runs is connected.
connectedWhenRunning(inNetns) ==
  CASE vpn.pc = "tunnel" -> "process"
    [] vpn.pc = "process" -> IF workspace_openvpn_running(inNetns) THEN "yes" ELSE "log"
    [] vpn.pc = "log" -> IF _recent_log_connected THEN "yes" ELSE "no"

\* The three probes, each a process or a file of its own: what the one the
\* command is at leads to.
vpn_connected(inNetns) ==
  CASE vpn.pc = "tunnel" -> IF tunnel_interface_up THEN "process" ELSE "no"
    [] vpn.pc = "process" -> IF workspace_openvpn_running(inNetns) THEN "yes" ELSE "log"
    [] vpn.pc = "log" -> IF _recent_log_connected THEN "yes" ELSE "no"

-----------------------------------------------------------------------------
(* The commands.                                                            *)

AtRest(code) == [vpn EXCEPT !.pc = "idle", !.exit = code, !.look = "none", !.lost = FALSE]

\* install-service writes the service's file and loads it.
_install_service ==
  /\ vpn.pc = "idle" /\ vpn.left > 0 /\ resolve_vpn_config /\ ~service.installed
  /\ service' = [service EXCEPT !.installed = TRUE, !.loaded = TRUE]
  /\ UNCHANGED <<openvpn, tun, log, present, vpn>>

\* systemctl start leaves a running client alone, kickstart -k kills it first
\* and is not looked at for how it ended.
_darwin_kickstart ==
  /\ openvpn' = IF service.loaded THEN "connecting" ELSE openvpn
  /\ tun' = IF service.loaded /\ tun = "own" THEN "none" ELSE tun
  /\ log' \in IF service.loaded /\ openvpn # "down" THEN {log, "ended"} ELSE {log}

\* start --daemon: the config is looked up and the service manager asked;
\* macOS looks for an existing connection first.
_action_start ==
  /\ vpn.pc = "idle" /\ vpn.left > 0
  /\ LET startable == resolve_vpn_config /\ service.installed /\ (Darwin \/ service.loaded)
     IN /\ vpn' = [vpn EXCEPT !.left = @ - 1, !.foreign = tun = "foreign",
                              !.exit = IF startable THEN "none" ELSE "failed",
                              !.pc = IF startable THEN "tunnel" ELSE "idle", !.early = Darwin]
        /\ openvpn' = IF startable /\ ~Darwin /\ openvpn = "down" THEN "connecting" ELSE openvpn
  /\ UNCHANGED <<service, tun, log, present>>

\* One probe of the poll, which is repeated for half a minute; it succeeds at
\* the first connection seen.
_wait_for_vpn_up(inNetns) ==
  /\ vpn.pc # "idle"
  /\ LET verdict == vpn_connected(inNetns) IN
     CASE verdict = "yes" ->
            vpn' = AtRest("ok") /\ UNCHANGED <<openvpn, tun, log>>
       [] verdict = "no" /\ vpn.early ->
            vpn' = [vpn EXCEPT !.pc = "tunnel", !.early = FALSE, !.look = "none", !.lost = FALSE]
              /\ _darwin_kickstart
       [] verdict = "no" /\ ~vpn.early ->
            vpn' \in {AtRest("failed"), [vpn EXCEPT !.pc = "tunnel", !.look = "none", !.lost = FALSE]}
              /\ UNCHANGED <<openvpn, tun, log>>
       [] OTHER ->
            /\ vpn' = IF vpn.pc = "tunnel" THEN [vpn EXCEPT !.pc = verdict, !.look = tun, !.lost = FALSE]
                      ELSE [vpn EXCEPT !.pc = verdict]
            /\ UNCHANGED <<openvpn, tun, log>>
  /\ UNCHANGED <<service, present>>

\* openvpn ends on SIGTERM and says so in its log; its interface goes.
Ends(written, next) ==
  /\ openvpn' = next
  /\ tun' = IF tun = "own" THEN "none" ELSE tun
  /\ log' = IF Darwin /\ written THEN "ended" ELSE log
  /\ vpn' = [vpn EXCEPT !.lost = @ \/ vpn.pc \in {"process", "log"}]

\* stop, while a start still waits as well: launchctl bootout unloads the
\* daemon, systemctl stop does not.
_stop_service ==
  /\ service.loaded
  /\ service' = [service EXCEPT !.loaded = ~Darwin]
  /\ IF openvpn = "down" THEN UNCHANGED <<openvpn, tun, log, vpn>> ELSE Ends(TRUE, "down")
  /\ UNCHANGED present

-----------------------------------------------------------------------------
(* The daemon, other VPNs, and the operator's files.                        *)

\* The tunnel takes the first free interface.
Connects ==
  /\ openvpn = "connecting"
  /\ openvpn' = "up"
  /\ tun' = IF tun = "none" THEN "own" ELSE tun
  /\ log' = IF Darwin THEN "completed" ELSE log
  /\ UNCHANGED <<service, present, vpn>>

\* It exits, or fails without a word and systemd starts it again.
Dies ==
  /\ openvpn # "down"
  /\ \E written \in BOOLEAN : Ends(written, IF Darwin \/ written THEN "down" ELSE "connecting")
  /\ UNCHANGED <<service, present>>

ForeignVpn ==
  /\ \/ tun = "none" /\ tun' = "foreign" /\ vpn' = [vpn EXCEPT !.foreign = TRUE]
     \/ tun = "foreign" /\ tun' = "none" /\ UNCHANGED vpn
  /\ UNCHANGED <<service, openvpn, log, present>>

\* The client's config is put there or taken away; the log goes on, and what
\* it told scrolls out of the last lines.
FilesChange ==
  /\ \/ present' = ~present /\ UNCHANGED log
     \/ log # "nothing" /\ log' = "nothing" /\ UNCHANGED present
  /\ UNCHANGED <<service, openvpn, tun, vpn>>

VpnStep(inNetns) ==
  \/ _install_service \/ _action_start \/ _wait_for_vpn_up(inNetns) \/ _stop_service
  \/ Connects \/ Dies \/ ForeignVpn \/ FilesChange

\* The host goes down; the unit is enabled at login only when the operator
\* asked for it, and the launchd daemon is loaded from its file.
VpnReboot ==
  /\ service' = [service EXCEPT !.loaded = service.installed]
  /\ openvpn' = "down" /\ tun' = "none"
  /\ vpn' = AtRest("none")
  /\ UNCHANGED <<log, present>>

-----------------------------------------------------------------------------
\* The start that reports success found the interface the workspace's own in
\* the poll it reports, and its client has the tunnel still unless it ended
\* between the probes of that poll; starts during which another VPN had the
\* interface are excepted (run_openvpn_client.py _start_daemon,
\* _wait_for_vpn_up, vpn_core.py vpn_connected).
StartHasTunnel ==
  [][vpn.pc # "idle" /\ vpn'.exit = "ok" /\ ~vpn.foreign
       => vpn.look = "own" /\ (vpn.lost \/ (tun = "own" /\ openvpn = "up"))]_vpnVars
=============================================================================
