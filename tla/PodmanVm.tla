------------------------------- MODULE PodmanVm -------------------------------
(***************************************************************************)
(* Machines that are rootless containers (cli/hypervisor/podman_backend.py, *)
(* cli/vm_build.py, cli/vm_manager.py, cli/vm_core.py, cli/vm_lifecycle.py):*)
(* the directory of each, its image, volumes and container, and what they  *)
(* share: the lines of /etc/hosts, the bridge network, and the network     *)
(* namespace with the VPN client in it.                                    *)
(*                                                                         *)
(* A command is the steps it still has to take, as in QemuLifecycle; a step *)
(* ends where another process can come between.                            *)
(***************************************************************************)
EXTENDS Integers, Sequences, FiniteSets

CONSTANTS
  Machine,
  Mode,          \* network.mode of each vm.yaml, netns for openvpn in a namespace
  Pid, IP, None,
  MaxFaults      \* bound on steps that fail, containers that end and reboots

ASSUME MachineAssumption ==
  /\ None \notin Machine /\ "stranger" \notin Machine /\ None # 0
  /\ None \notin Pid /\ 0 \notin Pid

VARIABLES
  dir,      \* the machine's directory: staged key and pid file
  image,    \* the machines an image is built of
  volumes,  \* the machines that have their volumes
  ctr,      \* its container
  hosts,    \* the lines of /etc/hosts, as pairs of machine and address
  bridge,   \* the bridge network exists
  netns,    \* the namespace is there and openvpn runs in it
  owner,    \* the process table: whose a number is
  cmd,      \* the command at work on the machine, and how the last one ended
  collided, \* two commands were at /etc/hosts at once (history)
  unwritten,\* the machines of which a command was not permitted to take the
            \* line from /etc/hosts, until one is (history)
  faults

podVars == <<dir, image, volumes, ctr, hosts, bridge, netns, owner, cmd, collided,
             unwritten, faults>>
Absent == [state |-> "absent", pid |-> None, ip |-> None]
Ended(c) == [c EXCEPT !.state = "stopped", !.pid = None, !.ip = None]

-----------------------------------------------------------------------------
(* The steps of the commands.                                               *)

create == <<"stage", "build", "prepare", "run", "inspect">>

\* Mutation: a rebuild leaves the machine's line in /etc/hosts.
rebuildKeepsLine == <<"rmForce">> \o create

rebuild == <<"rmForce", "readHosts", "writeHosts">> \o create

destroy(purge) ==
  <<"rm", "rmi", "readHosts", "writeHosts">> \o (IF purge THEN <<"rmVolumes">> ELSE <<>>)

plan(op) ==
  CASE op = "create" -> create
    [] op = "rebuild" -> rebuild
    [] op = "start" -> <<"podmanStart", "writePid">>
    [] op = "stop" -> <<"podmanStop", "dropPid">>
    [] op \in {"delete", "purge"} -> destroy(op = "purge") \o <<"dropPid">>
    [] op = "kill" -> <<"signal">>

At(v, step) == cmd[v].todo # <<>> /\ Head(cmd[v].todo) = step
Idle(v) == cmd[v].todo = <<>>
Go(v) == cmd' = [cmd EXCEPT ![v].todo = Tail(@), ![v].ended = "ok"]
Stop(v) == cmd' = [cmd EXCEPT ![v].todo = <<>>, ![v].ended = Head(cmd[v].todo)]
Fault == faults < MaxFaults /\ faults' = faults + 1

PodmanInit(commands) ==
  /\ dir = [v \in Machine |-> [there |-> FALSE, key |-> FALSE, pid |-> None]]
  /\ image = {} /\ volumes = {} /\ ctr = [v \in Machine |-> Absent]
  /\ hosts = {} /\ bridge \in BOOLEAN /\ netns = FALSE
  /\ owner = [p \in Pid |-> None]
  /\ cmd = [v \in Machine |-> [op |-> "none", todo |-> <<>>, ended |-> "ok", read |-> {}, left |-> commands[v]]]
  /\ collided = FALSE /\ unwritten = {} /\ faults = 0

\* Every command but create reads vm.yaml, which a delete leaves in place;
\* start returns when the container runs, and kill without a pid file.
Command(v, op) ==
  /\ Idle(v) /\ cmd[v].left > 0
  /\ (op = "create") <=> ~dir[v].there
  /\ op = "start" => ctr[v].state # "running"
  /\ op = "kill" => dir[v].pid # None
  /\ cmd' = [cmd EXCEPT ![v].op = op, ![v].todo = plan(op), ![v].left = @ - 1]
  /\ UNCHANGED <<dir, image, volumes, ctr, hosts, bridge, netns, owner, collided, unwritten, faults>>

-----------------------------------------------------------------------------
(* Staging and building.                                                    *)

\* The directory is made and the configuration copied; the host's SSH key and
\* the VPN's files are staged next to the Dockerfile, and the files rendered.
Stage(v) ==
  /\ At(v, "stage")
  /\ dir' = [dir EXCEPT ![v].there = TRUE, ![v].key = TRUE]
  /\ (Go(v) /\ UNCHANGED faults) \/ (Fault /\ Stop(v))
  /\ UNCHANGED <<image, volumes, ctr, hosts, bridge, netns, owner, collided, unwritten>>

\* The staged key is removed however the build ends.
_render_and_build(v) ==
  /\ At(v, "build")
  /\ dir' = [dir EXCEPT ![v].key = FALSE]
  /\ \/ Go(v) /\ image' = image \union {v} /\ UNCHANGED faults
     \/ Fault /\ Stop(v) /\ UNCHANGED image
  /\ UNCHANGED <<volumes, ctr, hosts, bridge, netns, owner, collided, unwritten>>

\* The namespace is set up where it is needed, with openvpn in it.
ensure_vpn_netns(v) == netns' = (netns \/ Mode[v] = "netns")

\* The volumes that are missing, with the files to copy; create alone makes a
\* missing bridge network.
Prepare(v) ==
  /\ At(v, "prepare") /\ Go(v)
  /\ volumes' = volumes \union {v}
  /\ bridge' = (bridge \/ (Mode[v] = "bridge" /\ cmd[v].op = "create"))
  /\ ensure_vpn_netns(v)
  /\ UNCHANGED <<dir, image, ctr, hosts, owner, collided, unwritten, faults>>

-----------------------------------------------------------------------------
(* The container.                                                           *)

\* What podman needs to start the container in its network.
Attachable(v) == (Mode[v] = "bridge" => bridge) /\ (Mode[v] = "netns" => netns)

Starts(v, p, ip) ==
  /\ owner[p] = None
  /\ \A w \in Machine \ {v} : ctr[w].ip # ip
  /\ owner' = [owner EXCEPT ![p] = v]
  /\ ctr' = [ctr EXCEPT ![v] = [state |-> "running", pid |-> p, ip |-> ip]]

\* podman run: the name must be free, and the image and the volumes there.
\* podman start: the container must be.
RunContainer(v) ==
  \/ /\ \/ At(v, "run") /\ ctr[v].state = "absent" /\ v \in image
        \/ At(v, "podmanStart") /\ ctr[v].state = "stopped"
     /\ Attachable(v)
     /\ \E p \in Pid, ip \in IP : Starts(v, p, ip)
     /\ Go(v)
     /\ UNCHANGED <<dir, image, volumes, hosts, bridge, netns, collided, unwritten, faults>>
  \/ /\ \/ At(v, "run") /\ ~(ctr[v].state = "absent" /\ Attachable(v))
        \/ At(v, "podmanStart") /\ ~(ctr[v].state = "stopped" /\ Attachable(v))
     /\ Stop(v)
     /\ UNCHANGED <<dir, image, volumes, ctr, hosts, bridge, netns, owner, collided, unwritten, faults>>

\* podman inspect gives the number 0 for a container that does not run.
StatePid(v) == IF ctr[v].pid = None THEN 0 ELSE ctr[v].pid

\* The pid file, and in bridge mode a line appended to /etc/hosts, which fails
\* the command if it is not permitted; the wait for health that follows only
\* warns.
_post_run_inspect(v) ==
  /\ At(v, "inspect")
  /\ dir' = [dir EXCEPT ![v].pid = StatePid(v)]
  /\ IF Mode[v] = "bridge" /\ ctr[v].ip # None
     THEN \/ /\ Go(v)
             /\ hosts' = hosts \union {<<v, ctr[v].ip>>}
             /\ collided' = (collided \/ \E w \in Machine \ {v} : At(w, "writeHosts"))
          \/ Stop(v) /\ UNCHANGED <<hosts, collided>>
     ELSE Go(v) /\ UNCHANGED <<hosts, collided>>
  /\ UNCHANGED <<image, volumes, ctr, bridge, netns, owner, unwritten, faults>>

\* Mutation: start leaves the pid file of the last run.
pidUnwritten(v) ==
  /\ At(v, "writePid") /\ Go(v)
  /\ UNCHANGED <<dir, image, volumes, ctr, hosts, bridge, netns, owner, collided, unwritten, faults>>

_write_podman_pid(v) ==
  /\ At(v, "writePid") /\ Go(v)
  /\ dir' = [dir EXCEPT ![v].pid = StatePid(v)]
  /\ UNCHANGED <<image, volumes, ctr, hosts, bridge, netns, owner, collided, unwritten, faults>>

Release(v) == owner' = [p \in Pid |-> IF owner[p] = v THEN None ELSE owner[p]]

\* podman stop fails without a container, and rm too unless forced.
StopContainer(v) ==
  /\ At(v, "podmanStop") \/ At(v, "rm") \/ At(v, "rmForce")
  /\ IF ctr[v].state = "absent" /\ ~At(v, "rmForce")
     THEN Stop(v) /\ UNCHANGED <<ctr, owner>>
     ELSE /\ Go(v) /\ Release(v)
          /\ ctr' = [ctr EXCEPT ![v] = IF At(v, "podmanStop") THEN Ended(@) ELSE Absent]
  /\ UNCHANGED <<dir, image, volumes, hosts, bridge, netns, collided, unwritten, faults>>

\* What delete removes after the container; that an image or a volume cannot
\* be removed is only printed.
RemoveRest(v) ==
  /\ \/ At(v, "rmi") /\ image' \in {image, image \ {v}} /\ UNCHANGED <<volumes, dir>>
     \/ At(v, "rmVolumes") /\ volumes' \in {volumes, volumes \ {v}} /\ UNCHANGED <<image, dir>>
     \/ At(v, "dropPid") /\ dir' = [dir EXCEPT ![v].pid = None] /\ UNCHANGED <<image, volumes>>
  /\ Go(v)
  /\ UNCHANGED <<ctr, hosts, bridge, netns, owner, collided, unwritten, faults>>

\* The file is read, and written without the machine's lines; a line that
\* came between is lost, one that went comes back.  Without permission to
\* write it the command only warns and goes on.
_remove_hosts_entry(v) ==
  \/ /\ At(v, "readHosts")
     /\ IF \E ip \in IP : <<v, ip>> \in hosts
        THEN cmd' = [cmd EXCEPT ![v].todo = Tail(@), ![v].read = hosts]
        ELSE cmd' = [cmd EXCEPT ![v].todo = Tail(Tail(@)), ![v].ended = "ok"]
     /\ collided' = (collided \/ \E w \in Machine \ {v} : At(w, "writeHosts"))
     /\ UNCHANGED <<dir, image, volumes, ctr, hosts, bridge, netns, owner, unwritten, faults>>
  \/ /\ At(v, "writeHosts")
     /\ \/ /\ hosts' = {line \in cmd[v].read : line[1] # v}
           /\ unwritten' = unwritten \ {v}
        \/ /\ unwritten' = unwritten \union {v}
           /\ UNCHANGED hosts
     /\ cmd' = [cmd EXCEPT ![v].todo = Tail(@), ![v].read = {}, ![v].ended = "ok"]
     /\ UNCHANGED <<dir, image, volumes, ctr, bridge, netns, owner, collided, faults>>

\* kill -SIGKILL to the number in the file: the container's, or another's; 0
\* is the command's own process group.
Signal(v) ==
  /\ At(v, "signal")
  /\ LET p == dir[v].pid IN
     IF p \notin Pid \/ owner[p] = None THEN Stop(v) /\ UNCHANGED <<ctr, owner>>
     ELSE /\ cmd' = [cmd EXCEPT ![v].todo = <<>>]
          /\ owner' = [owner EXCEPT ![p] = None]
          /\ ctr' = [w \in Machine |-> IF owner[p] = w THEN Ended(ctr[w]) ELSE ctr[w]]
  /\ UNCHANGED <<dir, image, volumes, hosts, bridge, netns, collided, unwritten, faults>>

-----------------------------------------------------------------------------
(* What happens besides.                                                    *)

StepFails(v) ==
  /\ cmd[v].todo # <<>> /\ ~At(v, "stage") /\ ~At(v, "build")
  /\ Fault /\ Stop(v)
  /\ UNCHANGED <<dir, image, volumes, ctr, hosts, bridge, netns, owner, collided, unwritten>>

\* An unhealthy container is stopped by podman, and its number given out.
ContainerEnds(v) ==
  /\ ctr[v].state = "running"
  /\ Fault
  /\ ctr' = [ctr EXCEPT ![v] = Ended(@)]
  /\ owner' \in {[owner EXCEPT ![ctr[v].pid] = None], [owner EXCEPT ![ctr[v].pid] = "stranger"]}
  /\ UNCHANGED <<dir, image, volumes, hosts, bridge, netns, cmd, collided, unwritten>>

\* Nothing keeps the bridge network while no container is in it.
NetworkRemoved ==
  /\ bridge /\ \A v \in Machine : ctr[v].state = "absent" \/ Mode[v] # "bridge"
  /\ Fault
  /\ bridge' = FALSE
  /\ UNCHANGED <<dir, image, volumes, ctr, hosts, netns, owner, cmd, collided, unwritten>>

\* A reboot ends every container and command and takes the namespace.
Reboot ==
  /\ Fault
  /\ ctr' = [v \in Machine |-> IF ctr[v].state = "running" THEN Ended(ctr[v]) ELSE ctr[v]]
  /\ cmd' = [v \in Machine |-> IF Idle(v) THEN cmd[v]
                               ELSE [cmd[v] EXCEPT !.todo = <<>>, !.ended = "reboot", !.read = {}]]
  /\ owner' = [p \in Pid |-> None] /\ netns' = FALSE
  /\ UNCHANGED <<dir, image, volumes, hosts, bridge, collided, unwritten>>

PodmanStep ==
  NetworkRemoved \/ \E v \in Machine :
    \/ \E op \in {"create", "rebuild", "start", "stop", "delete", "purge", "kill"} : Command(v, op)
    \/ Stage(v) \/ _render_and_build(v) \/ Prepare(v)
    \/ RunContainer(v) \/ _post_run_inspect(v) \/ _write_podman_pid(v) \/ StopContainer(v)
    \/ RemoveRest(v) \/ _remove_hosts_entry(v) \/ Signal(v)
    \/ StepFails(v) \/ ContainerEnds(v)

-----------------------------------------------------------------------------
\* While no two commands are at /etc/hosts at once a machine has at most one
\* line there, and none when a command that succeeded has left no container,
\* unless a command was not permitted to take the line away and none has been
\* since (vm_core.py _remove_hosts_entry, vm_build.py _post_run_inspect).
HostsNameOwn ==
  ~collided =>
    \A v \in Machine \ unwritten :
      /\ Cardinality({ip \in IP : <<v, ip>> \in hosts}) <= 1
      /\ Idle(v) /\ cmd[v].ended = "ok" /\ ctr[v].state = "absent"
           => ~\E ip \in IP : <<v, ip>> \in hosts

\* The pid file of a container that a command has left running names it, so
\* that kill hits nothing else (vm_lifecycle.py start, stop, kill).
PidNamesContainer ==
  \A v \in Machine :
    Idle(v) /\ cmd[v].ended = "ok" /\ ctr[v].state = "running" /\ dir[v].pid # None
      => dir[v].pid = ctr[v].pid
=============================================================================
