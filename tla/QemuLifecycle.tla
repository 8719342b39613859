---------------------------- MODULE QemuLifecycle ----------------------------
(***************************************************************************)
(* The life of one QEMU virtual machine under the vm command line          *)
(* (cli/hypervisor/qemu_backend.py, qemu_state.py, cli/vm_lifecycle.py,    *)
(* cli/vm_snapshots.py): what the commands keep in the machine's           *)
(* directory, the host's process table they act on, and the interleavings  *)
(* of commands run at once.                                                *)
(*                                                                         *)
(* A command is the sequence of the steps it still has to take; a step is  *)
(* what it does between two calls that wait or that another process can    *)
(* come between.  The processes QEMU forks are the host's: they end on     *)
(* their own, and the host gives their numbers to others.                  *)
(***************************************************************************)
EXTENDS Integers, Sequences

CONSTANTS
  Client,        \* commands that may be running at one time
  Pid,           \* process numbers
  None,
  Sites,         \* bound: the commands that are given, whether vm.yaml has
                 \* the machine provisioned, the processes started, and the
                 \* kinds of strangers among them
  MaxCrashes,    \* bound on commands interrupted half-way
  MaxFaults,     \* bound on steps that fail by themselves
  MaxReboots     \* bound on host reboots

ASSUME PidAssumption == None \notin Pid
ASSUME SitesAssumption ==
  \A s \in Sites :
    s.provisioned \in BOOLEAN /\ s.births \in Nat /\ s.strangers \subseteq {"other", "foreign"}

VARIABLES
  site,      \* the member of Sites the operator works at
  vmDir,     \* the directory of the machine: new, live or gone
  disk,      \* TRUE while disk.qcow2 is there
  pidFile,   \* the number in qemu.pid, or None
  state,     \* state.yaml: pid_start, last_error, last_stopped_at
  proc,      \* the process table
  client,    \* what each command has still to do, and the process a stop waits
             \* for: its number, and the start time the stop found on record
  struck,    \* whether the stops that have signalled a stranger had a start
             \* time on record (history)
  refused,   \* whether ps answered the starts and stops that have refused the
             \* machine's QEMU (history)
  escaped,   \* a guest step of the QEMU launched last has failed in a way
             \* that its command records nowhere (history)
  overlapped,  \* two commands have been at work at once (history)
  births, crashes, faults, reboots

vm == <<vmDir, disk, pidFile, state>>
spent == <<crashes, faults, reboots>>
seen == <<refused, escaped>>
vars == <<vm, proc, client, struck, seen, births, spent, site, overlapped>>

Provisioned == site.provisioned

-----------------------------------------------------------------------------
(* The steps of the commands.                                               *)

StartVM == <<"look", "clear", "launch", "record", "mounts">>
StopVM == <<"halt", "acpi", "term", "kill", "finish">>

\* The launch of create and of the start of a fresh rebuild leaves the guest
\* its network, except that create restricts a machine it will not provision.
CreateVM ==
  <<"prepare", IF Provisioned THEN "launchOpen" ELSE "launch", "record">>
    \o (IF Provisioned THEN <<"provision">> ELSE <<>>)
    \o <<"configure">>
    \o (IF Provisioned THEN StopVM \o StartVM ELSE <<>>)

\* Mutation: a fresh rebuild ends without the restart.
rebuildWithoutRestart(fresh) ==
  StopVM
    \o (IF fresh
        THEN <<"moveDisk", "prepare", "look", "clear", "launchOpen", "record", "mounts">>
        ELSE StartVM)
    \o (IF Provisioned THEN <<"provision">> ELSE <<>>)
    \o <<"configure">>

rebuild(fresh) ==
  StopVM
    \o (IF fresh
        THEN <<"moveDisk", "prepare", "look", "clear", "launchOpen", "record", "mounts">>
        ELSE StartVM)
    \o (IF Provisioned THEN <<"provision">> ELSE <<>>)
    \o <<"configure">>
    \o (IF fresh /\ Provisioned THEN StopVM \o StartVM ELSE <<>>)

\* Mutation: an export copies the files of a machine that is up.
exportRunning == <<"copy">>

export_vm == StopVM \o <<"copy">>

Plan(op) ==
  CASE op = "create"  -> CreateVM
    [] op = "start"   -> StartVM
    [] op = "stop"    -> StopVM
    [] op = "kill"    -> <<"slay">>
    [] op = "rebuild" -> rebuild(FALSE)
    [] op = "fresh"   -> rebuild(TRUE)
    [] op = "delete"  -> StopVM \o <<"remove">>
    [] op = "export"  -> export_vm

Idle(c) == client[c].todo = <<>>
At(c, step) == ~Idle(c) /\ Head(client[c].todo) = step /\ vmDir = "live"

\* The command goes on after its next n steps.
Skip(c, n) ==
  client' = [client EXCEPT ![c].todo = SubSeq(@, n + 1, Len(@))]
Nothing == [todo |-> <<>>, pid |-> None, identity |-> None]
Abort(c) == client' = [client EXCEPT ![c] = Nothing]

-----------------------------------------------------------------------------
(* The process table.  A process is the machine's QEMU, a stranger of the   *)
(* same user, or one of another user, whom no signal of ours reaches; its   *)
(* birth stands for the start time ps reports.                              *)

Free == [kind |-> "free", birth |-> 0, restricted |-> FALSE]
_process_alive(p) == proc[p].kind # "free"
QemuUp == \E p \in Pid : proc[p].kind = "vm"

\* A process that may not be signalled passes for the recorded one; ps is
\* asked of the others, and an answer it does not give is no match.
process_matches(p, identity, answers) ==
  /\ _process_alive(p)
  /\ \/ identity = None \/ proc[p].kind = "foreign"
     \/ answers /\ proc[p].birth = identity

Spawn(p, kind, restricted) ==
  /\ proc[p].kind = "free"
  /\ births < site.births
  /\ births' = births + 1
  /\ proc' = [proc EXCEPT ![p] =
                [kind |-> kind, birth |-> births + 1, restricted |-> restricted]]

-----------------------------------------------------------------------------
Init ==
  /\ site \in Sites /\ overlapped = FALSE
  /\ vmDir = "new" /\ disk = FALSE /\ pidFile = None
  /\ state = [pid_start |-> None, error |-> FALSE, stopped |-> FALSE]
  /\ proc = [p \in Pid |-> Free]
  /\ client = [c \in Client |-> Nothing]
  /\ struck = {} /\ refused = {} /\ escaped = FALSE
  /\ births = 0 /\ crashes = 0 /\ faults = 0 /\ reboots = 0

\* The operator gives a command; every command but create needs vm.yaml.
Run(c, op) ==
  /\ Idle(c) /\ op \in site.ops[c]
  /\ vmDir = (IF op = "create" THEN "new" ELSE "live")
  /\ vmDir' = "live"
  /\ client' = [client EXCEPT ![c] = [Nothing EXCEPT !.todo = Plan(op)]]
  /\ UNCHANGED <<disk, pidFile, state, proc, struck, seen, births, spent>>

\* What mark_error and the raise after it leave.
Fails(c) ==
  /\ state' = [state EXCEPT !.error = TRUE]
  /\ Abort(c)
  /\ UNCHANGED <<vmDir, disk, pidFile, proc, struck, refused, births>>

Fault == faults < MaxFaults /\ faults' = faults + 1 /\ UNCHANGED <<crashes, reboots>>
FaultUnless(fine) == IF fine THEN UNCHANGED spent ELSE Fault

\* ps is asked for the start time of the process in qemu.pid, with a limit on
\* its time (a start asks twice and takes either answer).
AsksPs(answers) == FaultUnless(answers) /\ UNCHANGED escaped

Refuses(answers) ==
  refused' = IF proc[pidFile].kind = "vm" THEN refused \cup {answers} ELSE refused

-----------------------------------------------------------------------------
(* create and start.                                                        *)

\* prepare_vm_storage makes a new overlay; nothing records that it failed.
Prepare(c) ==
  /\ At(c, "prepare")
  /\ \/ disk' = TRUE /\ Skip(c, 1) /\ UNCHANGED spent
     \/ Fault /\ Abort(c) /\ UNCHANGED disk
  /\ UNCHANGED <<vmDir, pidFile, state, proc, struck, seen, births>>

\* start returns when the machine runs, refuses a live process that is not
\* the recorded one, and goes on otherwise.
Look(c) ==
  /\ At(c, "look")
  /\ IF pidFile = None \/ ~_process_alive(pidFile) THEN Skip(c, 1) /\ UNCHANGED <<seen, spent>>
     ELSE \E answers \in BOOLEAN :
            /\ AsksPs(answers)
            /\ IF process_matches(pidFile, state.pid_start, answers)
               THEN Skip(c, 5) /\ UNCHANGED refused
               ELSE Abort(c) /\ Refuses(answers)
  /\ UNCHANGED <<vm, proc, struck, births>>

Clear(c) ==
  /\ At(c, "clear")
  /\ pidFile' = None
  /\ Skip(c, 1)
  /\ UNCHANGED <<vmDir, disk, state, proc, struck, seen, births, spent>>

\* QEMU opens the disk under a lock and binds the forwarded port: a second
\* one for the same machine does not start.
Launch(c) ==
  \/ \E step \in {"launch", "launchOpen"}, p \in Pid :
       /\ At(c, step)
       /\ disk /\ ~QemuUp
       /\ Spawn(p, "vm", step = "launch")
       /\ pidFile' = p
       /\ escaped' = FALSE
       /\ Skip(c, 1)
       /\ UNCHANGED <<vmDir, disk, state, struck, refused, spent>>
  \/ /\ At(c, "launch") \/ At(c, "launchOpen")
     /\ Fails(c)
     /\ UNCHANGED escaped
     /\ FaultUnless(~(disk /\ ~QemuUp))

\* ps gives the start time of the process, and nothing when it is gone or ps
\* itself fails.
process_identity(known) ==
  IF known /\ pidFile # None /\ _process_alive(pidFile) THEN proc[pidFile].birth ELSE None

PsAnswers(known) ==
  IF ~known /\ pidFile # None /\ _process_alive(pidFile) THEN Fault ELSE UNCHANGED spent

\* Mutation: a start time that cannot be read leaves the recorded one.
RecordKeepsOld(c) ==
  /\ At(c, "record")
  /\ \E known \in BOOLEAN :
       /\ PsAnswers(known)
       /\ state' = [pid_start |-> IF process_identity(known) = None
                                  THEN state.pid_start ELSE process_identity(known),
                    error |-> FALSE, stopped |-> FALSE]
  /\ Skip(c, 1)
  /\ UNCHANGED <<vmDir, disk, pidFile, proc, struck, seen, births>>

\* mark_started with the start time of the process qemu.pid names.
Record(c) ==
  /\ At(c, "record")
  /\ \E known \in BOOLEAN :
       /\ PsAnswers(known)
       /\ state' = [pid_start |-> process_identity(known), error |-> FALSE, stopped |-> FALSE]
  /\ Skip(c, 1)
  /\ UNCHANGED <<vmDir, disk, pidFile, proc, struck, seen, births>>

\* The waits for SSH only warn; what is done in the guest after them fails
\* when QEMU is not up, and may fail when it is.
InGuest(c, step) ==
  /\ At(c, step)
  /\ \/ QemuUp /\ Skip(c, 1) /\ UNCHANGED <<vm, proc, struck, seen, births, spent>>
     \/ Fails(c) /\ FaultUnless(~QemuUp) /\ UNCHANGED escaped

\* A ValueError is none of the failures that are caught and recorded.  The
\* provisioning raises it for a timeout in the environment that is no number,
\* the configuration for a name in env, a destination in files or a proxy
\* that is not valid, after it has reached the guest.
Escapes(c, step) ==
  /\ At(c, step) /\ (step = "provision" \/ QemuUp)
  /\ Fault
  /\ escaped' = TRUE
  /\ Abort(c)
  /\ UNCHANGED <<vm, proc, struck, refused, births>>

Mounts(c) == InGuest(c, "mounts")
Provision(c) == InGuest(c, "provision") \/ Escapes(c, "provision")
Configure(c) == InGuest(c, "configure") \/ Escapes(c, "configure")

-----------------------------------------------------------------------------
(* stop.                                                                    *)

mark_stopped == state' = [pid_start |-> None, error |-> FALSE, stopped |-> TRUE]

\* stop keeps the number and the start time it has read.
WaitsFor(c, p) ==
  client' = [client EXCEPT ![c] = [todo |-> Tail(@.todo), pid |-> p, identity |-> state.pid_start]]

\* Mutation: stop signals whatever the file names.
HaltUnchecked(c) ==
  /\ At(c, "halt")
  /\ IF pidFile = None \/ ~_process_alive(pidFile)
     THEN pidFile' = None /\ mark_stopped /\ Skip(c, 5)
     ELSE WaitsFor(c, pidFile) /\ UNCHANGED <<pidFile, state>>
  /\ UNCHANGED <<vmDir, disk, proc, struck, seen, births, spent>>

\* Mutation: a process that is not the recorded one counts as no process.
HaltClearsMismatch(c) ==
  /\ At(c, "halt")
  /\ IF pidFile = None \/ ~process_matches(pidFile, state.pid_start, TRUE)
     THEN pidFile' = None /\ mark_stopped /\ Skip(c, 5)
     ELSE WaitsFor(c, pidFile) /\ UNCHANGED <<pidFile, state>>
  /\ UNCHANGED <<vmDir, disk, proc, struck, seen, births, spent>>

\* What stop finds: no process, one that does not pass for the machine's, or
\* one that does.
Halt(c) ==
  /\ At(c, "halt")
  /\ IF pidFile = None \/ ~_process_alive(pidFile)
     THEN pidFile' = None /\ mark_stopped /\ Skip(c, 5) /\ UNCHANGED <<seen, spent>>
     ELSE \E answers \in BOOLEAN :
            /\ AsksPs(answers)
            /\ UNCHANGED pidFile
            /\ IF process_matches(pidFile, state.pid_start, answers)
               THEN WaitsFor(c, pidFile) /\ UNCHANGED <<state, refused>>
               ELSE state' = [state EXCEPT !.error = TRUE] /\ Abort(c) /\ Refuses(answers)
  /\ UNCHANGED <<vmDir, disk, proc, struck, births>>

Waiting(c) == \E i \in 2..4 : At(c, StopVM[i])

\* The kernel passes no signal on to another user's process.
Signals(c, p) ==
  struck' = IF proc[p].kind = "other" THEN struck \cup {client[c].identity # None} ELSE struck

\* A killed process may take longer to go than a stop waits.
Killed(p) ==
  IF proc[p].kind = "foreign" THEN UNCHANGED <<proc, spent>>
  ELSE \/ proc' = [proc EXCEPT ![p] = Free] /\ UNCHANGED spent
       \/ Fault /\ UNCHANGED proc

\* Mutation: stop reports success when the last wait has run out.
AwaitGivesUp(c) ==
  \E i \in 2..4 :
    /\ At(c, StopVM[i])
    /\ LET p == client[c].pid IN
       IF ~_process_alive(p) \/ i = 4
       THEN Skip(c, 5 - i) /\ UNCHANGED <<vm, proc, struck>>
       ELSE Signals(c, p) /\ Skip(c, 1) /\ UNCHANGED <<vm, proc>>
    /\ UNCHANGED <<seen, births, spent>>

\* The wait on the process ends with its exit, or runs out: the process is
\* signalled, and after the last wait given up as one that did not exit.
Await(c) ==
  \E i \in 2..4 :
    /\ At(c, StopVM[i])
    /\ LET p == client[c].pid IN
       IF ~_process_alive(p)
       THEN Skip(c, 5 - i) /\ UNCHANGED <<vm, proc, struck, spent>>
       ELSE IF i = 4
       THEN state' = [state EXCEPT !.error = TRUE] /\ Abort(c)
            /\ UNCHANGED <<vmDir, disk, pidFile, proc, struck, spent>>
       ELSE /\ Signals(c, p)
            /\ IF i = 3 THEN Killed(p) ELSE UNCHANGED <<proc, spent>>
            /\ Skip(c, 1) /\ UNCHANGED vm
    /\ UNCHANGED <<seen, births>>

Finish(c) ==
  /\ At(c, "finish")
  /\ pidFile' = None
  /\ mark_stopped
  /\ Skip(c, 1)
  /\ UNCHANGED <<vmDir, disk, proc, struck, seen, births, spent>>

-----------------------------------------------------------------------------
(* kill, rebuild --fresh, delete and export.                                *)

Slay(c) ==
  /\ At(c, "slay")
  /\ IF pidFile # None /\ _process_alive(pidFile)
     THEN Killed(pidFile)
     ELSE UNCHANGED <<proc, spent>>
  /\ Skip(c, 1)
  /\ UNCHANGED <<vm, struck, seen, births>>

MoveDisk(c) ==
  /\ At(c, "moveDisk")
  /\ disk' = FALSE
  /\ Skip(c, 1)
  /\ UNCHANGED <<vmDir, pidFile, state, proc, struck, seen, births, spent>>

Remove(c) ==
  /\ At(c, "remove")
  /\ vmDir' = "gone" /\ disk' = FALSE /\ pidFile' = None
  /\ Skip(c, 1)
  /\ UNCHANGED <<state, proc, struck, seen, births, spent>>

\* export_vm has copied the last file.
Copied(c) ==
  /\ At(c, "copy")
  /\ Skip(c, 1)
  /\ UNCHANGED <<vm, proc, struck, seen, births, spent>>

\* A step on a directory that another command has removed raises.
Vanished(c) ==
  /\ vmDir = "gone" /\ ~Idle(c)
  /\ Abort(c)
  /\ UNCHANGED <<vm, proc, struck, seen, births, spent>>

-----------------------------------------------------------------------------
(* The host.                                                                *)

\* The guest shuts down, asked by QMP or SIGTERM or by itself; QEMU removes
\* the file it wrote unless it was killed.
GuestExits(p) ==
  /\ proc[p].kind = "vm"
  /\ proc' = [proc EXCEPT ![p] = Free]
  /\ pidFile' \in {pidFile, IF pidFile = p THEN None ELSE pidFile}
  /\ UNCHANGED <<vmDir, disk, state, client, struck, seen, births, spent>>

\* A number is not given out again within the second between two polls of a
\* command that waits on it, or between QEMU's fork and the call of ps.
StrangerStarts(p) ==
  /\ \A c \in Client : Waiting(c) => client[c].pid # p
  /\ (\E c \in Client : At(c, "record")) => pidFile # p
  /\ \E kind \in site.strangers : Spawn(p, kind, FALSE)
  /\ UNCHANGED <<vm, client, struck, seen, spent>>

StrangerExits(p) ==
  /\ proc[p].kind \in {"other", "foreign"}
  /\ proc' = [proc EXCEPT ![p] = Free]
  /\ UNCHANGED <<vm, client, struck, seen, births, spent>>

\* The command is interrupted before its next step.
Crash(c) ==
  /\ ~Idle(c)
  /\ crashes < MaxCrashes
  /\ crashes' = crashes + 1
  /\ Abort(c)
  /\ UNCHANGED <<vm, proc, struck, seen, births, faults, reboots>>

Reboot ==
  /\ \A c \in Client : Idle(c)
  /\ reboots < MaxReboots
  /\ reboots' = reboots + 1
  /\ proc' = [p \in Pid |-> Free]
  /\ UNCHANGED <<vm, client, struck, seen, births, crashes, faults>>

Step ==
  \/ \E c \in Client :
       \/ \E op \in {"create", "start", "stop", "kill", "rebuild", "fresh", "delete", "export"} :
            Run(c, op)
       \/ Prepare(c) \/ Look(c) \/ Clear(c) \/ Launch(c) \/ Record(c)
       \/ Mounts(c) \/ Provision(c) \/ Configure(c)
       \/ Halt(c) \/ Await(c) \/ Finish(c)
       \/ Slay(c) \/ MoveDisk(c) \/ Remove(c) \/ Copied(c) \/ Vanished(c)
       \/ Crash(c)
  \/ \E p \in Pid : GuestExits(p) \/ StrangerStarts(p) \/ StrangerExits(p)
  \/ Reboot

Next ==
  /\ Step
  /\ overlapped' = (overlapped \/ \E c, d \in Client :
                      c # d /\ client'[c].todo # <<>> /\ client'[d].todo # <<>>)
  /\ UNCHANGED site

Spec == Init /\ [][Next]_vars

-----------------------------------------------------------------------------
Settled == \A c \in Client : Idle(c)

\* Commands were given one at a time; none was interrupted between two steps.
OneAtATime == ~overlapped
Uninterrupted == OneAtATime /\ crashes = 0

\* A stop that finds a start time on record signals nothing but the machine's
\* QEMU, whatever process the host has given the number in qemu.pid to and
\* whatever other commands do meanwhile (qemu_backend.py stop).
RecordProtectsStrangers == TRUE \notin struck

\* The machine's own QEMU is never taken for a stranger, except by a stop or
\* a start that ps does not answer: what state.yaml records of a live QEMU is
\* its start time or nothing, over any order of commands, faults and reused
\* numbers, so that stop, start, rebuild and delete accept it
\* (qemu_backend.py stop and start).  Commands interrupted half-way, such as a
\* start between the launch and mark_started, are excepted.
OwnQemuAccepted == Uninterrupted => TRUE \notin refused

\* A QEMU that runs between commands is the one qemu.pid names, so that stop
\* and kill can find it (qemu_backend.py start, stop and destroy).
NoUntrackedQemu ==
  OneAtATime /\ Settled => \A p \in Pid : proc[p].kind = "vm" => pidFile = p

\* When state.yaml says the machine stopped, its QEMU is gone
\* (qemu_backend.py stop, FR-8.2 of REQ-VM-HYPERVISOR).
StoppedMeansExited == Uninterrupted /\ Settled /\ state.stopped => ~QemuUp

\* A machine of network mode none that a command has left running without an
\* error on record has its network restricted (qemu_backend.py
\* _apply_and_restrict and rebuild).  A guest step that failed with an error
\* the commands do not catch, and so do not record, is excepted until QEMU is
\* launched again.
RestrictedWhenSettled ==
  Uninterrupted /\ Settled /\ ~state.error /\ ~escaped =>
    \A p \in Pid : proc[p].kind = "vm" => proc[p].restricted

\* An export copies the disk of a machine that is down, as long as no other
\* command is given meanwhile (vm_snapshots.py export_vm).
ExportsQuiesced == OneAtATime /\ (\E c \in Client : At(c, "copy")) => ~QemuUp
=============================================================================
