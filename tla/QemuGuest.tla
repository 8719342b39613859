------------------------------ MODULE QemuGuest ------------------------------
(***************************************************************************)
(* What a QEMU machine is made of (cli/hypervisor/qemu_images.py,          *)
(* qemu_provision.py, qemu_guest_config.py, and the order in which         *)
(* qemu_backend.py calls them): the base image all machines share, the     *)
(* disk made on it, and the settings of vm.yaml that are written into the  *)
(* guest over SSH one after the other.                                     *)
(*                                                                         *)
(* The processes are QemuLifecycle's; here QEMU is up or down.             *)
(***************************************************************************)
EXTENDS Integers, Sequences, FiniteSets

CONSTANTS
  Machine,
  Confs,         \* the vm.yaml files of each machine
  Digest,        \* sha256 of the image pin: pinned or pending
  HostConfig,    \* the host's ~/.config/opencode has a config.json
  None,
  MaxEdits,      \* bound on changes of a vm.yaml
  MaxFaults,     \* bound on steps that fail, interrupted commands and lost guests
  MaxCommands    \* bounds on the commands given to each machine

VARIABLES
  image,   \* the base image's file
  raw,     \* the download file of its architecture, shared by every command
  spoilt,  \* two commands were at the image at once or its conversion was cut
           \* short (history)
  conf,    \* vm.yaml
  disk,    \* disk.qcow2, or None
  guest,   \* what runs in the guest, or None while QEMU is down
  task,    \* the command at work on the machine, and how the last one ended
  edits, faults

store == <<image, raw, spoilt>>
spent == <<edits, faults>>
guestVars == <<store, conf, disk, guest, task, spent>>

\* The settings that end up in files of the guest, three of them as systemd
\* units.  0 is a setting vm.yaml does not have.
Setting == {"limits", "policy", "env", "files", "ssh", "provider", "credentials", "openvpn", "web"}
Unit == {"policy", "openvpn", "web"}

\* disk.qcow2: the image it was made on, a first boot, the workspace's copy,
\* root's or not, and the settings in its files.
Image == {"absent", "partial", "wrong", "whole"}
Disk == [base : Image, booted : BOOLEAN, work : BOOLEAN, trusted : BOOLEAN, has : [Setting -> Nat]]

ASSUME ConfAssumption ==
  /\ \A v \in Machine : \A c \in Confs[v], s \in Setting : c[s] \in Nat
  /\ MaxCommands \subseteq [Machine -> Nat]
  /\ None \notin Disk

-----------------------------------------------------------------------------
(* The steps of the commands.                                               *)

\* Mutation: the download is converted without a look at its digest.
ensureUnverified == <<"base", "fetch", "fetched", "convert", "converted">>

ensure_base_image == <<"base", "fetch", "fetched", "verify", "convert", "converted">>

apply_guest_config == <<"mounts", "limits", "policy", "env", "files", "ssh", "provider",
                        "credentials", "openvpn", "web">>

prepare_vm_storage == ensure_base_image \o <<"overlay">>
start == <<"launch", "shares", "mounts">>
If(condition, steps) == IF condition THEN steps ELSE <<>>

create(provisioned) ==
  prepare_vm_storage \o <<"launch">> \o If(provisioned, <<"provision">>)
    \o apply_guest_config \o If(provisioned, <<"halt">> \o start)

\* Mutation: a fresh rebuild keeps the disk.
rebuildKeepsDisk(fresh, provisioned) ==
  <<"halt">> \o start \o If(provisioned, <<"provision">>)
    \o apply_guest_config \o If(fresh /\ provisioned, <<"halt">> \o start)

rebuild(fresh, provisioned) ==
  <<"halt">> \o If(fresh, <<"away">> \o prepare_vm_storage) \o start
    \o If(provisioned, <<"provision">>)
    \o apply_guest_config \o If(fresh /\ provisioned, <<"halt">> \o start)

plan(op, provisioned) ==
  CASE op = "create" -> create(provisioned)
    [] op \in {"rebuild", "fresh"} -> rebuild(op = "fresh", provisioned)
    [] op = "start" -> start
    [] op = "stop" -> <<"halt">>

At(v, step) == task[v].todo # <<>> /\ Head(task[v].todo) = step

\* The task with a step done; last is what the machine was last set up by, as
\* its exit status tells, and vm.yaml not changed since.
After(t) == [t EXCEPT !.todo = Tail(@),
                      !.last = IF Len(t.todo) = 1 /\ t.op \notin {"start", "stop"} THEN t.op ELSE @]
Done(v) == task' = [task EXCEPT ![v] = After(@)]
DoneAll(v, n) == task' = [task EXCEPT ![v].todo = SubSeq(@, n + 1, Len(@))]
Fails(v) == task' = [task EXCEPT ![v].todo = <<>>, ![v].last = "failed"]
Fault == faults < MaxFaults /\ faults' = faults + 1 /\ UNCHANGED edits

-----------------------------------------------------------------------------
GuestInit ==
  /\ image = "absent" /\ raw = "absent" /\ spoilt = FALSE
  /\ conf \in {c \in [Machine -> UNION {Confs[v] : v \in Machine}] :
                 \A v \in Machine : c[v] \in Confs[v]}
  /\ disk = [v \in Machine |-> None] /\ guest = [v \in Machine |-> None]
  /\ \E n \in MaxCommands :
       task = [v \in Machine |-> [op |-> "none", todo |-> <<>>, last |-> "none", left |-> n[v]]]
  /\ edits = 0 /\ faults = 0

\* rebuild and start find vm.yaml, which create has copied; start returns at
\* once when the machine runs.
Run(v, op) ==
  /\ task[v].todo = <<>> /\ task[v].left > 0
  /\ (op = "create") <=> (task[v].op = "none")
  /\ op = "start" => guest[v] = None
  /\ task' = [task EXCEPT ![v] =
       [op |-> op, todo |-> plan(op, conf[v].provision # "none"),
        last |-> IF op \in {"start", "stop"} THEN @.last ELSE "none", left |-> @.left - 1]]
  /\ UNCHANGED <<store, conf, disk, guest, spent>>

Edit(v, c) ==
  /\ task[v].todo = <<>> /\ edits < MaxEdits /\ c # conf[v]
  /\ edits' = edits + 1
  /\ conf' = [conf EXCEPT ![v] = c]
  /\ task' = [task EXCEPT ![v].last = "edited"]
  /\ UNCHANGED <<store, disk, guest, faults>>

-----------------------------------------------------------------------------
(* The base image.                                                          *)

Overlaps(v) ==
  \E w \in Machine \ {v} :
    \E step \in {"fetch", "fetched", "verify", "convert", "converted"} : At(w, step)

\* Any file at the destination is taken for the image, one that another
\* command is writing as well.
BaseThere(v) ==
  /\ At(v, "base")
  /\ IF image # "absent" THEN DoneAll(v, Len(ensure_base_image)) ELSE Done(v)
  /\ spoilt' = (spoilt \/ Overlaps(v))
  /\ UNCHANGED <<image, raw, conf, disk, guest, spent>>

\* curl truncates the file and writes what the mirror sends.
_download_file(v) ==
  \/ At(v, "fetch") /\ raw' = "partial" /\ Done(v)
       /\ UNCHANGED <<image, spoilt, conf, disk, guest, spent>>
  \/ At(v, "fetched") /\ raw' \in {"whole", "wrong"} /\ Done(v)
       /\ UNCHANGED <<image, spoilt, conf, disk, guest, spent>>

\* A pin that is empty or pending is not compared.
_verify_sha256(v) ==
  /\ At(v, "verify")
  /\ IF Digest = "pinned" /\ raw # "whole" THEN Fails(v) ELSE Done(v)
  /\ UNCHANGED <<store, conf, disk, guest, spent>>

\* qemu-img writes the image at its destination, from the start; then the
\* download is removed.  With another command at the same files the result is
\* either's or a part.
Convert(v) ==
  \/ /\ At(v, "convert")
     /\ IF raw = "absent" THEN Fails(v) /\ UNCHANGED image ELSE Done(v) /\ image' = "partial"
     /\ UNCHANGED <<raw, spoilt, conf, disk, guest, spent>>
  \/ /\ At(v, "converted")
     /\ image' \in IF spoilt THEN {"partial", "wrong", "whole"} ELSE {raw}
     /\ raw' = "absent"
     /\ Done(v)
     /\ UNCHANGED <<spoilt, conf, disk, guest, spent>>

\* The new overlay takes the place of any disk; then come the key, kept if it
\* is there, the first-boot configuration, and the port.
create_overlay(v) ==
  /\ At(v, "overlay")
  /\ disk' = [disk EXCEPT ![v] = [base |-> image, booted |-> FALSE, work |-> FALSE,
                                  trusted |-> FALSE, has |-> [s \in Setting |-> 0]]]
  /\ Done(v)
  /\ UNCHANGED <<store, conf, guest, spent>>

\* rebuild --fresh moves the disk to backups.
MoveAway(v) ==
  /\ At(v, "away")
  /\ disk' = [disk EXCEPT ![v] = None]
  /\ Done(v)
  /\ UNCHANGED <<store, conf, guest, spent>>

-----------------------------------------------------------------------------
(* QEMU and the guest.                                                      *)

\* The first-boot configuration mounts the workspace's share: cloud-init runs
\* its commands once.
write_cloud_init(v) == ~disk[v].booted /\ conf[v].provision # "none"

\* A boot starts the units that are enabled on the disk.
Launch(v) ==
  /\ At(v, "launch")
  /\ IF disk[v] = None THEN Fails(v) /\ UNCHANGED <<disk, guest>>
     ELSE /\ guest' = [guest EXCEPT ![v] =
                        [runs |-> [u \in Unit |-> disk[v].has[u]], mounted |-> FALSE,
                         share |-> write_cloud_init(v)]]
          /\ disk' = [disk EXCEPT ![v].booted = TRUE]
          /\ Done(v)
  /\ UNCHANGED <<store, conf, spent>>

Halt(v) ==
  /\ At(v, "halt")
  /\ guest' = [guest EXCEPT ![v] = None]
  /\ Done(v)
  /\ UNCHANGED <<store, conf, disk, spent>>

\* A step that needs the guest to answer.
InGuest(v, step) ==
  At(v, step) /\ guest[v] # None /\ UNCHANGED <<store, conf, spent>>

apply_host_shares(v) ==
  /\ InGuest(v, "shares")
  /\ guest' = [guest EXCEPT ![v].share = conf[v].provision # "none"]
  /\ Done(v)
  /\ UNCHANGED disk

_apply_mounts(v) ==
  /\ InGuest(v, "mounts")
  /\ guest' = [guest EXCEPT ![v].mounted = TRUE]
  /\ Done(v)
  /\ UNCHANGED disk

\* The workspace is copied from the share and installed; the guard profile
\* then gives its tree to root, and a repeated copy takes it back first.
provision_guest(v) ==
  /\ InGuest(v, "provision")
  /\ IF guest[v].share
     THEN disk' = [disk EXCEPT ![v].work = TRUE, ![v].trusted = conf[v].provision = "guard"] /\ Done(v)
     ELSE Fails(v) /\ UNCHANGED disk
  /\ UNCHANGED guest

\* What a setting needs of the guest: files are copied as the workspace's user
\* into its own copy, which is there and not root's, and the two units of
\* programs test that it is there.
Possible(v, s) ==
  CASE s = "files" -> disk[v].work /\ ~disk[v].trusted
    [] s \in {"openvpn", "web"} -> disk[v].work
    [] OTHER -> TRUE

\* Mutation: a setting the disk has is kept as it is.
writtenOnce(v, s) ==
  IF disk[v].has[s] # 0 THEN disk[v].has
  ELSE [disk[v].has EXCEPT ![s] = conf[v][s]]

\* A setting vm.yaml has replaces what the disk has of it; the host's files
\* are copied over the provider's.
written(v, s) ==
  [disk[v].has EXCEPT ![s] = conf[v][s],
                      !.provider = IF s = "credentials" /\ HostConfig THEN 0
                                   ELSE IF s = "provider" THEN conf[v].provider ELSE @]

\* enable --now starts a unit that does not run and leaves one that does.
Apply(v, s) ==
  /\ InGuest(v, s)
  /\ IF conf[v][s] = 0 THEN Done(v) /\ UNCHANGED <<disk, guest>>
     ELSE IF ~Possible(v, s) THEN Fails(v) /\ UNCHANGED <<disk, guest>>
     ELSE /\ disk' = [disk EXCEPT ![v].has = written(v, s)]
          /\ guest' = IF s \in Unit /\ guest[v].runs[s] = 0
                      THEN [guest EXCEPT ![v].runs[s] = conf[v][s]] ELSE guest
          /\ Done(v)

-----------------------------------------------------------------------------
(* What goes wrong.                                                         *)

\* A step fails or the command is interrupted before it.  A conversion leaves
\* what it has written, and a setting may have reached the disk.
StepFails(v) ==
  /\ task[v].todo # <<>>
  /\ Fault
  /\ Fails(v)
  /\ spoilt' = (spoilt \/ At(v, "converted"))
  /\ disk' \in {disk} \union
       {[disk EXCEPT ![v].has = written(v, s)] : s \in {s \in Setting : At(v, s) /\ conf[v][s] # 0}}
  /\ UNCHANGED <<image, raw, conf, guest>>

GuestDown(v) ==
  /\ guest[v] # None
  /\ Fault
  /\ guest' = [guest EXCEPT ![v] = None]
  /\ UNCHANGED <<store, conf, disk, task>>

Unreachable(v) ==
  /\ guest[v] = None
  /\ \E s \in Setting \union {"shares", "mounts", "provision"} : At(v, s)
  /\ Fails(v)
  /\ UNCHANGED <<store, conf, disk, guest, spent>>

GuestNext ==
  \E v \in Machine :
    \/ \E op \in {"create", "rebuild", "fresh", "start", "stop"} : Run(v, op)
    \/ \E c \in Confs[v] : Edit(v, c)
    \/ BaseThere(v) \/ _download_file(v) \/ _verify_sha256(v) \/ Convert(v)
    \/ create_overlay(v) \/ MoveAway(v) \/ Launch(v) \/ Halt(v)
    \/ apply_host_shares(v) \/ _apply_mounts(v) \/ provision_guest(v)
    \/ \E s \in Setting : Apply(v, s)
    \/ StepFails(v) \/ GuestDown(v) \/ Unreachable(v)

GuestSpec == GuestInit /\ [][GuestNext]_guestVars

-----------------------------------------------------------------------------
\* What vm.yaml says of the guest's files, the host's opencode directory
\* taking the place of the provider's file.
AsWritten(v) ==
  [s \in Setting |-> IF s = "provider" /\ conf[v].credentials # 0 /\ HostConfig THEN 0
                     ELSE conf[v][s]]

\* A machine that create or rebuild --fresh has set up has exactly the settings
\* of its vm.yaml, none left from an earlier one, and those are what its units
\* run with, with its mounts in place (qemu_backend.py create, rebuild).
FreshAsWritten ==
  \A v \in Machine :
    task[v].todo = <<>> /\ task[v].last \in {"create", "fresh"} =>
      /\ disk[v].has = AsWritten(v)
      /\ guest[v] # None =>
           guest[v].mounted /\ guest[v].runs = [u \in Unit |-> conf[v][u]]

\* A rebuild that keeps the disk has brought every setting of vm.yaml to it and
\* a unit for each that needs one, though one of an earlier vm.yaml may still
\* be what runs (qemu_guest_config.py, systemctl enable --now).
RebuildCarriesWritten ==
  \A v \in Machine :
    task[v].todo = <<>> /\ task[v].last = "rebuild" =>
      /\ \A s \in Setting : AsWritten(v)[s] # 0 => disk[v].has[s] = AsWritten(v)[s]
      /\ guest[v] # None =>
           guest[v].mounted /\ \A u \in Unit : conf[v][u] # 0 => guest[v].runs[u] # 0

\* No disk is made on an image other than the pinned one, unless a command was
\* at the image while another made it or its conversion was cut short
\* (qemu_images.py ensure_base_image takes whatever file is there).
DiskOnPinnedImage ==
  Digest = "pinned" /\ ~spoilt =>
    \A v \in Machine : disk[v] # None => disk[v].base = "whole"
=============================================================================
