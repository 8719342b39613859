# Verification of the workspace stack

TLA+ specifications of the parts of this repository whose correctness depends on
order, timing and failure: the OpenCode plugins (the response moderator and
AgentCI, TypeScript), the life cycle of QEMU and container machines under the
`vm` command line, the VPN client, and the setup programs (Python). TLC checks
them on small instances; TLAPS proves what is marked as proved for every value
of the constants.

Contents: [1 Inventory](#1-inventory), [2 Modules](#2-modules-and-the-code),
[3 Runs](#3-runs), [4 Bounds](#4-bounds), [5 Fairness](#5-fairness),
[6 Proofs](#6-proofs), [7 Exceptions](#7-exceptions-written-into-properties),
[8 Divergences](#8-divergences-and-other-findings),
[9 Not modelled](#9-what-is-not-modelled), [10 Plan](#10-plan),
[11 Running it](#11-running-it).

## 1 Inventory

Paths are relative to `src/`. "Moderator" stands for `workspace/moderator/src`,
"AgentCI" for `workspace/agentci/src`, "cli" for `workspace/cli`, "scripts" for
`workspace/scripts`.

### OpenCode plugins

| part | state | operations | interacts with |
|---|---|---|---|
| state machine, `fsm.ts` | `ModerationState`: phase, in-flight and last terminal assistant, user cycle, count without progress, blocker | `transition(state, event)`, `normalizeRestoredState` | called by the adapter's drain; returns effects |
| context, `context.ts` | none; reads the transcript | newest moderated assistant, real user ancestor, branch membership, eligibility facts | `buildContext` of the adapter |
| session adapter, `adapter.ts` | per session: queue, `draining`, `restored`, context, state; on disk a snapshot and a log | notification handlers, `enqueue`, `drain`, the effects, `replay`, deletion | OpenCode client (read, prompt, revert), classifier, toast queue, files |
| toast queue, `toast-queue.ts` | `pending`, `active`, the visible entry | `push`, `removeSession`, `flush`, the worker `run` | effects of every session push; OpenCode shows |
| classifier, `classifier.ts` | locals of one call: cycle, selector, attempts, whether one timed out | `classify`, `withTimeout`, `captureOutcome` | `generate.ts` calls the provider |
| model source, `model-select.ts`, `cli.ts`, `tui.ts`, `server.ts` | a file of selectors; the list the plugin read | read, check, write, replace the top selector | pickers, the command line, the plugin |
| AgentCI, `policies.ts`, `v1-hook-adapter.ts`, `thinking.ts`, `server.ts` | the policies read at the start, an evidence file | four hooks and the choice of an effort | OpenCode calls the hooks, several at once; files it injects |

Hard behaviour. All of it runs on one event loop, so the steps are what runs
between two awaits. A drain awaits a transcript read, a classification of up to
minutes, a prompt and its verification, while notifications of the same session
arrive; OpenCode accepts a prompt before it is in the transcript and may lose
it; each effect and each write may fail; the process may die between an effect
and the snapshot that knows of it; a session may be deleted while its drain
runs; a timed-out model call goes on in the background; two pickers and a
command read and replace one file; an AgentCI hook reads one file after another
while an operator replaces them.

What makes it correct. The answer to what the machine waits for overtakes every
notification. A verdict is applied to the assistant it was given for. A turn
whose moderation ended is not judged again. Every turn that ended is decided.
The agent is prompted to go on only outside blockers and below the escalation
limit. A toast or event that arrives while a worker is on its way out is still
handled. The list of models is one the plugin takes. A hook that ends well has
applied every policy meant for its call.

### Virtual machines and the VPN

| part | state | operations | interacts with |
|---|---|---|---|
| QEMU backend, `cli/hypervisor/qemu_backend.py`, `qemu_state.py` | per machine a directory: `vm.yaml`, `disk.qcow2`, `qemu.pid`, `state.yaml` (start time of the process, last error, stopped at) | create, start, stop, rebuild, destroy | the host's process table (`ps`, signals), QMP, SSH into the guest |
| images and guest, `qemu_images.py`, `qemu_provision.py`, `qemu_guest_config.py` | converted images shared by machines, overlays, files and units in the guest | `ensure_base_image`, new overlays, first boot, ten settings one after the other | `qemu-img`, `curl`, SSH |
| Podman backend, `podman_backend.py`, `vm_build.py`, `vm_manager.py`, `vm_core.py` | the machine's directory, image, volumes, container; lines of `/etc/hosts`; a bridge network | create, rebuild, start, stop, delete, kill | Podman, the VPN's namespace |
| commands, `cli/vm_lifecycle.py`, `vm_snapshots.py` | none | start, stop, kill, delete, rebuild, export, import, snapshots | backend by `vm.yaml` |
| VPN, `cli/vpn_core.py`, `vpn_netns.py`, `scripts/bin/run_openvpn_client.py` | a service's file, a daemon, an interface, a log | install, start, stop, the wait for the tunnel | systemd or launchd, other VPNs |
| autostart, `vm_autostart.py` | a unit file and its enablement | enable, disable | systemd |
| sync, `vm_sync.py`, `qemu_sync.py` | files in the guest | rsync under a strategy | SSH |

Hard behaviour. There is no daemon and no lock: the truth about a machine is
spread over files and the process table, and two commands may run at once. A
process ends by itself, and its number is given to another process. A command
can be interrupted between two steps; the host can reboot. `ps` can fail just
after the launch, and then no start time is recorded, or later, and then the
machine's own QEMU is refused. Some errors are caught and recorded, others end
the command where it stands. Machines share the base
image, its download and `/etc/hosts`. The client is recognised by its binary
and by the first tunnel interface, and both may be another's.

What makes it correct. No command signals a process that is not the machine's.
The machine's own QEMU is recognised. Stopped means that QEMU has exited. A
machine configured without network ends restricted whatever happened on the
way. An export copies the disk of a machine that is down. Every QEMU that runs
can be found by the next command. A machine that was set up has in its guest
what its `vm.yaml` says, on the pinned image. `/etc/hosts` names a machine once.
A VPN start that reports success has a tunnel.

### Setup programs

| part | state | operations | interacts with |
|---|---|---|---|
| bootstrap installer, `scripts/bootstrap_installer.py`, `bootstrap_install.py`, `bootstrap_components.py` | the machine's programs and clones | detect, select by dialogs or a defaults file, install in order, report | installer scripts, git |
| host setup, `host_setup_installer.py`, `bootstrap_aux.py`, `bootstrap_aux_defs.py` | none | select within a scope, order by requirements, run until a failure | make targets, sudo |
| llama setup, `llama_setup_installer.py`, `llama_setup_install.py`, `llama_setup_detect.py`, `llama_setup_registry.py` | the prerequisites a snapshot finds | snapshot, plan, run work items | scripts, services |
| shell extensions and banner, `scripts/shell`, `register_extensions.py` | links in the boot directory, a session log | resolve manifests, check versions, link, print | programs, running containers |

Hard behaviour. Each is a sequence of steps that go on after a failure, or do
not; what was found at the start is used at the end, while programs are
repaired, containers stop, and a check that ran out of time reports late.

What makes it correct. Nothing mandatory is left out of a run. A feature runs
on what it requires. A service is deployed behind its builds. A link leads to a
program whose version fits. The banner says of nothing that it is fine when its
container is not there, and keeps the log of what it showed as failing.

### Everything else

OpenCode wrapper, services, bootstrap and deployment scripts, Ansible roles and
the classifier benchmark are straight-line programs without state of their own.
`PROJECT.json` lists each with its sources and status, and the hazards of the
code with their lines and the properties that cover them.

## 2 Modules and the code

```
ModeratorTransition      transition(state, event) as operators
  |- ModeratorTransition_proofs
  |- ModeratorFSM        the machine: any event in any order, snapshots, restarts
  |    |- MCModeratorFSM, ModeratorFSM_proofs
  |- ModeratorContext    what is derived from a transcript
       |- ModeratorSession    adapter + OpenCode around the machine
            |- MCModeratorSession, ModeratorSession_proofs
            |- FSM == INSTANCE ModeratorFSM    (refinement)
ModelSource, ToastQueue, Classifier, AgentCI
  |- Plugins_proofs
  |- Plugins                  one process with all four
       |- MCPlugins
QemuLifecycle                 processes of one QEMU machine
  |- MCQemuLifecycle, QemuLifecycle_proofs
QemuGuest                     images, disks and guests of several
  |- MCQemuGuest, QemuGuest_proofs
PodmanVm, VpnClient
  |- Host                     container machines beside the VPN client
       |- MCHost, Host_proofs
Places                        what is kept of a list
  |- Bootstrap
  |    |- Extensions --+
  |- HostSetup --------+- Setup    the setup programs one after the other
  |- LlamaSetup -------+    |- MCSetup, Setup_proofs
```

**ModeratorTransition** has one operator per handler of `fsm.ts`, under the
handler's name, and `transition` with the phase check and `result` as the code
has them. Of a turn's facts it keeps what the machine reads, the eligibility
rows as the set of those that match. The `WRITE_DECISION` effect is the field
`decision` of the outcome, since the adapter performs it as a no-op.
`pendingContext` and `compactionActive` are written and never read, and left out.

**ModeratorFSM** is the abstract specification of the moderator: `Fire(e)` for
every event of its type with any contents, `Persist` for the write of the
snapshot, `Restart` from it, and `RestartAfresh` when it cannot be restored.
Nothing is said about when events come.

**ModeratorContext** has transcripts as sequences of messages, each with a kind
and the position of its parent. Text is replaced by the kind: who wrote it,
whether it ended, whether it holds a fenced `sudo` command. An ended message of
an error, a plan or a compaction is one kind, `excluded`, since all three leave
the classification in the same place.

**ModeratorSession** is one session. `queue`, `state`, `restored` and `context`
are the fields of `Session`; `pc` and `todo` say where `drain` is and what it
has still to await; `idles` holds the handlers between their read of the
transcript and their `enqueue`. `Take` is the code from the shift of an event to
its first await; each effect is one action, the classification two
(`StartClassify` hands over the context, `FinishClassify` brings the verdict);
`Save` is the append and write after the last effect with the loop's condition.
A session deleted while its drain runs keeps its object, and what `get` then
makes is `ghost`. OpenCode is external: `Prompt` puts a message into the
transcript and reports busy, `AgentFinishes` reports idle, `sending` counts
prompts that were accepted and are not visible: `SendContinuation` reads the
transcript and sends, `PromptAccepted` goes on after the second await. A restore
that fails (`RestoreFails`) leaves the session `restored` and in its initial state,
and the drain goes on; an error trace that fails inside the handler of an error
(`ErrorTraceFails`) ends the drain with nothing queued. Four histories record what
the properties ask about: `verdicts` in their order; `reopened`, the assistants
whose mark an effect error took back (`fsm.ts:114`); `cutOff`, while the error of
the running classification is lost with its trace; `overtaken`, when the start of
the agent's turn was reported before an earlier idle was read.

**ToastQueue** keeps the worker as the place where it awaits: `show`, `pause`,
or `end` for the moment between the end of `run` and its `finally`. A removal
lists the places of the entries that stay, in their order.

**Classifier** is one call of `classify`. Attempts are numbered; `late` are the
calls that lost against their timer and still run.

**ModelSource** has `models.json` as a list of model values. `SeedModels` is the
installer's copy of its `Template`, which is held to the shape of a list and not
to the config. `models set` is one action, and a pick as two: `PickReads` with
the check that opens the picker, and `replaceTopModel` with the check of
`writeModels`. What is typed, read and written is held to the same rule in the
code by three functions, which keep their names. `loaded` is the list the plugin was created with.

**AgentCI** has a policy as a record of its match and action, the tool's name
and the pattern of its command as one field. A hook is an element of `calls`
with the place it has come to in the list of policies: `toolBefore` and
`toolAfter` run through at once, the transforms read one file per `Inject`,
since each is awaited (policies that are passed over are not), and
`withEvidence` is the append that follows a hook that did not throw.

**Plugins** composes the four. Nothing in the code makes one wait for another,
so the composition interleaves them; to keep instances small a behaviour begins
with one of them before its first call and the others after their last.

**QemuLifecycle** has a command as the sequence of steps it has still to take;
`Plan` builds it from the code of each command (`StopVM`, `StartVM`, `CreateVM`,
`rebuild`, `export_vm`). A step is what happens between two calls that wait or
between which another process can come. `proc` is the process table: a number
is free, the machine's QEMU or a stranger, with a birth that stands for the
start time `ps` prints; a stranger is another process of the same user or, as
`foreign`, of another. `process_matches(p, identity, answers)` is the code's
function with the failure of `ps` as an argument, and takes another user's process
for a match, whose signal the kernel then refuses. `client[c].pid` is the process
a stop waits on and `identity` the start time it had found on record. `struck`
keeps whether a stop that had one, or another, signalled a stranger, `refused`
whether a command refused the machine's QEMU with or without an answer of `ps`,
and `escaped` that a guest step ended in an error the commands do not catch
(`Escapes`), until QEMU is launched again. A process may outlive SIGKILL for the
wait of a stop, which then fails. `delete` leaves the directory gone for the
commands, whether it is archived or purged. `Sites` are the hosts to be
considered, each with its commands per operator and the strangers it has.

**QemuGuest** looks at the same commands from the other side: QEMU is up or
down, and the steps are those of the image, the disk and the guest. A setting of
`vm.yaml` is a small number, 0 when it is not given; `disk[v].has` is what the
guest's files hold of each, and `guest[v].runs` what its three units run with,
which `systemctl enable --now` starts and a boot starts anew. `written` has the
one interference between settings: the copy of the host's OpenCode directory
overwrites the provider's file. `image` and `raw` are the files all commands
share, with `partial` and `wrong` contents.

**PodmanVm** follows the commands of a container machine: staging, build,
volumes and networks, run, the inspection with its line in `/etc/hosts`, and the
removals. The rewrite of `/etc/hosts` is a read and a write; where the write is not
permitted a removal warns and goes on, and `unwritten` has the machine until a
removal of its line succeeds. The pid file has 0 for a container that had ended.
`owner` is the process table of which `kill` signals a number. **VpnClient** has
the service file, the daemon, the first tunnel interface and the end of the log,
on both platforms. The three probes keep their names, and each is a step (`vpn.pc`),
of the look with which a start begins on macOS, and may end, and of every poll
after it; the daemon may end between them and a stop may be given while a start
waits. **Host** joins them: the namespace of a machine runs the openvpn binary by
which the client is recognised, and a reboot takes both down.

**Bootstrap** has for each component what its detection would meet (nothing, a
path alone, a program that fails, one that prints no version, one that works),
`get_status` on it, the two ways of selecting, and one action per installed
component. **Extensions** resolves the entries of manifests over what Bootstrap
left behind, registers them one link at a time, and makes the banner one line at
a time in three kinds of steps: `LookUp` of one container dependency (which may
find `podman` failing), `Check`, `PrintExtension`, while containers come and go.
A link may be followed by the fix of its program's interpreter line, after which
that program may do anything; `rewritten` has those. **HostSetup** has
`ordered_features` as the depth-first visit the code does, and the run that
stops at a failure. `visits` gives the visit by the depth it may have;
`Features` are enough, because features that are being visited are different.
**LlamaSetup** has the snapshot, the plan made of it, and the work items. **Places** is the list
comprehension with a condition, which all four use. **Setup** lets an
operator run these programs one after the other, by an agenda; a banner may open
while extensions are being registered, and the other way round.

Definitions described as mutations in the modules are not part of any
specification: each is a plausible mistake in the definition below it, against
which a property of a run is tested.

## 3 Runs

| run | states | what it shows |
|---|---|---|
| `ModeratorFSM_safety` | 146 thousand | All sequences for two assistants, one user and a limit of two. `TypeOK`: no transition throws. `ActiveAssistant`: classifying and continuing always have their assistant. `CountWithinLimit`. `DuplicateMarkMoves`: the mark against double judgement moves only with the verdict, an effect error or a restart. `BlockerEndsWithCycleOrVerdict`. |
| `ModeratorSession_safety` | 2.58 million | With overlapping idle reads, a fault (an error trace that fails among them), an interrupt and a deletion: `AnswerComesNext`, `VerdictAboutInflight`, `ClosedTurnStaysClosed`. |
| `ModeratorSession_live` | 47 thousand | With overlapping idle reads: `FinishedTurnDecided`, every response that ended gets a verdict unless somebody writes, a blocker covers it, or the one race of section 7 loses it. |
| `ModeratorSession_fsm` | 15 thousand | `ImplementsFSM`: every change of a session's state, through a crash, a fault (a restore that fails among them) and a replay, is a step of ModeratorFSM or none. |
| `Plugins` | 36 thousand | Model list: `FileUsable`, whatever installer, commands and overlapping picks do, the file is a list the plugin takes, and its fallbacks were checked or are the template's. Toasts: `WorkerForPending` (no lost wake-up), `FirstInFirstOut`, `DropsOnlyOldest`, `EveryToastLeaves`. Classification: `TypeOK`, `VerdictOfAwaitedCall`, `FailsOnlyWhenExhausted`, `AgainOnlyAfterTimeout`, `Terminates`. AgentCI: `EveryPolicyApplied`, a block holds wherever it stands and a hook that ends well has applied all that is meant for its call; `EvidenceOfWholeHooks`. |
| `QemuLifecycle` | 2.54 million | One operator with every command and a fault (`ps` failing, an error not caught, a kill that takes too long among them), an interruption and a reboot, or two at once with create, stop, delete and export, or one beside another user's processes: `OwnQemuAccepted`, `StoppedMeansExited`, `RestrictedWhenSettled`, `ExportsQuiesced`, `NoUntrackedQemu`, `RecordProtectsStrangers`. |
| `QemuGuest` | 1.81 million | Two machines at one base image, settings that meet each other, an edited `vm.yaml`, a failing step: `FreshAsWritten`, `RebuildCarriesWritten`, `DiskOnPinnedImage`. |
| `Host` | 1.47 million | Two machines at `/etc/hosts`, where a write may not be permitted, and the bridge network at once, or one in the VPN's namespace beside the client on both platforms: `HostsNameOwn`, `PidNamesContainer`, `StartHasTunnel`. |
| `Setup` | 1.99 million | `EveryRunTakesTheMandatory`, `RequirementsFirst`, `DeployedLast`, and over what an installer's run left behind `LinkedVersionFits`, `NoTickWithoutContainer`, `FailedBannerKeepsLog`. `OrderIsTopological` compares `ordered_features` with a reference definition over every registry of three features. |

Three runs end in a counterexample. Each checks what a document or an assertion of
the repository says and shows that the code does otherwise:

| run | shows |
|---|---|
| `ModeratorSession_stalls` | `AGENT_CONTINUING` leaves the count of stalled verdicts as it is (`fsm.ts:183`); the requirements say it resets it, so three stalls that are not consecutive escalate. |
| `ModeratorSession_doubled` | A repeated idle gets an assistant judged again while its corrective prompt is accepted but not visible; the verification is satisfied by an older prompt (`adapter.ts:234`), and two prompts follow one assistant. |
| `QemuLifecycle_open` | `rebuild --fresh` of a machine with `provision: none` starts it with an open network and never restricts it (`qemu_backend.py:345`). |

## 4 Bounds

Every bound is a constant of its module or of the MC module.

- **ModeratorFSM**: `ESCALATION_LIMIT` 2 for the code's 3, so that a count below,
  at and after the limit all occur. Two assistants suffice for "this one" and
  "another one"; blockers compare their user with the turn through facts that
  the turn carries freely. The flag sets are none and one with two rows, since
  the state only depends on whether a row matches. Assistants and users are
  symmetric.
- **ModeratorSession**: `MaxMessages` bounds user, autocontinue and agent
  messages; four give two turns or a turn with a correction, or a branch from an
  earlier message. `MaxIdleReads` 2 is the smallest at which reads overlap each
  other (one in `ModeratorSession_stalls`, whose eight messages need no more).
  `Budget` bounds crashes, faults, interrupts, compactions, replays and
  deletions; each run has the ones its question is about, one each. The replay
  of a session is asked for once per process, as the code does it.
- **Plugins**: a toast list of three for the code's sixteen; six pushes fill it,
  overflow it and refill it after a removal, from two sessions. Two selectors
  and the code's three cycles. Three model selectors, one only in the config and
  one only in the running OpenCode, a template whose fallback is not in the
  config, two pickers and `MaxWrites` 4 commands and picks: enough for two
  overlapping picks around a command. `MaxCalls` 2 hooks at once and `MaxEdits`
  2 changes of files; the documents have every action, every event and every
  reason for a refusal.
- **QemuLifecycle**: two process numbers and four births let a number be used
  by QEMU, a stranger and QEMU again. One crash, fault and reboot each (the other
  sites have three births). The sites with two operators and with another user's
  processes leave provisioning out, which only adds a stop and a start to create,
  and the rebuilds, to keep their states few.
- **QemuGuest**: one change of a `vm.yaml` and one fault. Either one machine
  gets three commands, so that a create, an edit and each kind of rebuild occur
  in a row; or it gets two and another is created beside it, so that two are at
  the image at once. The five configurations have each setting given, changed
  and taken away, `files` without provisioning, and the pairs that meet:
  provider with credentials, guard with files, programs with and without the
  workspace.
- **Host**: two bridge machines with three commands and one, or two each (a
  create and a removal of both, which meet at `/etc/hosts`), and one fault; or
  one machine in the namespace with one command, and two VPN starts on either
  platform. Two process numbers and addresses are what a container and its
  successor, or a stranger, need.
- **Setup**: two components, one that uv brings, a mandatory and an optional
  repository, three features, two stacks with shared prerequisites, entries with
  every kind of dependency and of constraint that fits, fails or cannot be
  parsed. Agendas have two programs, so that one meets what another left, or an
  installer and two that work with extensions, which may overlap.

## 5 Fairness

Safety runs assume none. The others:

- `ModeratorSession!FairSpec`: weak fairness of the plugin's steps together
  (the event loop runs the next continuation; files, client calls, the
  classifier and the polling all end) and of `PromptAppears` (OpenCode delivers
  what it accepted). Nothing is assumed of the user or the agent; faults,
  losses and crashes are not fair.
- `ToastQueue!ToastFairness`: weak fairness of the worker; showing a toast and
  the timer return or fail.
- `Classifier!ClassifierFairness`: weak fairness of the running call;
  `withTimeout` ends every one. Late answers need not come.

The last two are conjuncts of `PluginsSpec`; hooks, commands and pickers have no
fairness there. The machines' commands and the setup programs have no liveness
property: an operator may give none.

## 6 Proofs

Eight modules hold theorems: `ModeratorTransition_proofs`, `ModeratorFSM_proofs`,
`ModeratorSession_proofs`, `Plugins_proofs` (model list, toasts, classifier,
AgentCI), `QemuLifecycle_proofs`, `QemuGuest_proofs`, `Host_proofs` and
`Setup_proofs`. Every invariant and action property of the passing runs is a
theorem, some of them under a hypothesis that is named below.
They hold for every value of the constants that satisfies the assumptions, which
are what the code's types and configuration checks guarantee, or the shape of a
bound; TLC evaluates each in the runs.

| assumption | says |
|---|---|
| `FsmAssumption`, `BlockerAssumption` | null is no message and no blocker; the escalation limit is positive |
| `SessionAssumption` | messages are numbered; the bounds are numbers; every set of flags the context can derive and every decision used is one the machine knows |
| `SourceAssumption` | the selectors of the config and of OpenCode are selectors, missing is none; the template is a list that names no selector twice |
| `QueueAssumption` | the list holds at least one toast; no entry is no entry |
| `ClassifierAssumption` | at least one selector and one cycle, null is no number |
| `CIAssumption` | policy files hold sequences |
| `PidAssumption`, `SitesAssumption` | null is no process number; a site provisions or not, and its strangers are processes of the same or of another user |
| `ConfAssumption` | settings of a `vm.yaml` are numbers, 0 for not given; null is no disk |
| `HostAssumption`, `MachineAssumption` | the platform is one of two; null and the stranger are no machines, null and 0 no process numbers |
| `BootstrapAssumption` | tools and workspace repositories are lists and apart; core and uv's are tools, the mandatory ones repositories; every component has a way to be detected, a repository by its path |
| `HostSetupAssumption` | what `_validate_registry` refuses is not there: a registry requires features it has; "no order" is no order |
| `LlamaAssumption` | prerequisites, stacks, and what a stack needs and builds are lists; the unknown stack is none of them |
| `ExtensionsAssumption` | a manifest is a list of entries, or could not be read; a binary is a component, a dependency a component or containers |

**The state machine.** Type correctness alone is not inductive: whether
`onUnfinished` may count one more stall depends on the count being within the
limit before, and `terminalState` marks the assistant in flight, which has to
be there. `Sound(s)` joins the three invariants as a predicate on one record.
One lemma per handler (in `ModeratorTransition_proofs`, which the session uses
as well) shows that it keeps `Sound` in the phases that accept its event;
`TransitionSound` lifts that to every phase. `IInv` says `Sound` of the state
and of the snapshot, because a restart takes the snapshot over.

- `StatesAreValid`: `Spec => []TypeOK`; no transition throws.
- `ActiveAssistantKnown`: `Spec => []ActiveAssistant`.
- `CountStaysWithinLimit`: `Spec => []CountWithinLimit`.
- `DuplicateMarkOnlyMoves`: `Spec => DuplicateMarkMoves`. `MarkStep(s, t)`
  states the step on two records, is shown per handler, and needs `IInv` for the
  mark to be an assistant at all.
- `BlockerOnlyEnds`: `Spec => BlockerEndsWithCycleOrVerdict`.

**The session.** `OpenCodeInv` is what every transcript keeps: a parent is an
earlier message, and so the walks up the tree end. `PluginInv` has four parts:
the machine's state and the snapshot on disk are `Sound` (`MachineInv`); where
the drain stands goes with what it still has to await (`DrainInv`); a context is
loaded before anything is done with it (`CallInv`); and while the machine
classifies or continues, either the effect that will answer is still to come, or
its answer is the first event of the queue, or, when it classifies, the error was
lost with its trace and `cutOff` says so (`AnswerInv`).

- `SessionInvariant`: both hold in every state, for any number of crashes,
  faults, interrupts, compactions, replays and deletions.
- `AnswerAlwaysComesNext`: `Spec => []AnswerComesNext`.
- `VerdictIsAboutInflight`: `[]VerdictAboutInflight` where `Budget["replay"] = 0`.
  `TurnInv` follows a turn from the context that is loaded for it, through the
  event that brings it, to the verdict; the facts of a turn come first in the
  queue and only between the effects of two events. A replay breaks it (section 8).
- `ClosedTurnsStayClosed`: `[]ClosedTurnStaysClosed` where there are no replays
  and no crashes. The mark is one field that the next turn overwrites, so
  `ClosedInv` says of every closing verdict that its assistant is marked, or no
  longer the newest, or cannot be asked about any more, and of every assistant on
  the way to the classifier that it has no closing verdict (`Fresh`). It needs
  that the newest assistant message only gets newer.
- `SessionStepsAreFsmSteps`: every step of a session that is not being deleted is
  a step of `ModeratorFSM` or leaves its variables alone, one lemma per action of
  the adapter. A restore that fails is `RestartAfresh`.
- `SessionImplementsFSM`: `Spec => ImplementsFSM` where `Budget["delete"] = 0`. By
  it the theorems of the state machine hold of a session.

The hypotheses on `Budget` take an event away and say nothing else; without
each the property is false, for a reason listed in sections 7 and 8.

**The classifier.** The argument is one count, `Counted`: the calls made are
those of the whole cycles before, those of this cycle, and the one awaited.
`TimedOutByItsOwn` says that the flag of a cycle was set by a call of that cycle.

- `CallsAreBounded`: `Spec => []TypeOK`, with at most selectors times cycles calls.
- `VerdictIsAwaited`: `Spec => []VerdictOfAwaitedCall`.
- `FailureIsExhaustion`: `Spec => []FailsOnlyWhenExhausted`.
- `AgainIsAfterTimeout`: `Spec => AgainOnlyAfterTimeout`.

**The model list.** `FileUsable` speaks of the file alone, but a pick writes what
it read earlier. `SourceInv` therefore says the same of what every picker holds:
a list that was in the file was distinct, with fallbacks that were checked or are
the template's, and putting another selector at its top changes neither unless
`writeModels` refuses it.

- `FileStaysUsable`: `SourceSpec => []FileUsable`.

**The toast queue.** `ToastInv` adds to the two properties that no number above
that of the last push waits or is shown, without which a new toast need not be
the youngest. One lemma says what each way of touching the list leaves of its
order and of its entries: a push, the worker's loop, the removal of a session.

- `WorkerComesForPending`: `ToastSpec => []WorkerForPending`.
- `ToastsKeepTheirOrder`: `ToastSpec => []FirstInFirstOut`.
- `OnlyTheOldestIsDropped`: `ToastSpec => DropsOnlyOldest`.

**AgentCI.** `EveryPolicyApplied` speaks of hooks that have ended. `Whole` says of
one under way that it has pushed the policies meant for its call up to the place
it has reached, in their order, and `EvidenceOf` that the evidence names the
hooks that ended well, once each. The policies change only when the plugin
starts, and then no hook has been called.

- `EveryPolicyIsApplied`: `CISpec => []EveryPolicyApplied`.
- `EvidenceIsOfWholeHooks`: `CISpec => []EvidenceOfWholeHooks`.

**The life cycle of a QEMU machine.** A command is the sequence of steps it has
still to take, and which step may follow which is enough to argue with: no
invariant speaks of more than the first steps. `QemuInv` has three parts.
`AnyInv` holds whatever overlaps: births are never given twice, a number is not
reused under a command that waits on it, and a start time on record is that of a
process that had the number. `OneInv` holds while commands came one at a time:
every QEMU that is up is the one `qemu.pid` names, none is up before the steps
that clear, move, copy or remove, nor where a stop looks with its kill still ahead
(`TrackedInv`), and if none was interrupted `state.yaml` is true of it unless it
is about to be written (`RecordInv`). `OpenInv` says that a QEMU with an open
network will still be stopped, or an error is on record, or a step escaped.
`RefusedUnanswered` says that the machine's QEMU is refused only where `ps` did
not answer.

- `StrangersAreSafe`: `Spec => []RecordProtectsStrangers`, for any number of
  operators at once.
- `QemuIsTracked`, `OwnQemuIsAccepted`, `StoppedQemuIsGone`, `ExportsAreQuiesced`:
  the invariants `NoUntrackedQemu`, `OwnQemuAccepted`, `StoppedMeansExited` and
  `ExportsQuiesced`.
- `SettledIsRestricted`: `[]RestrictedWhenSettled` where `rebuild --fresh` is only
  given at sites that provision. Without the hypothesis it is the counterexample
  of `QemuLifecycle_open`.

**Disks and guests of QEMU machines.** A plan is read from its end: the number of
steps a command has left says which settings have been written, whether the
disk is new, and whether a restart is still to come. `MachineInv` concerns one
machine alone: `New` for a command that makes the disk, `KeptAt` for a rebuild
that keeps it, `SetUp` for what the last command left. `PinInv` concerns the
image all share: without overlap at most one command is at a step of the image,
which is whole or absent when none is.

- `MachineInvariant`, and from it `FreshIsAsWritten`: `GuestSpec =>
  []FreshAsWritten`, and `RebuildIsAsWritten`: `GuestSpec => []RebuildCarriesWritten`.
- `DisksArePinned`: `GuestSpec => []DiskOnPinnedImage`.

`MachineInv` and `PinInv` hold of the run's instance as well, checked with TLC.

**Container machines and the VPN client.** `PodInv` says of each machine where
its container may be running, from the step its command is at, and what the pid
file then names (`ContainerInv`); that a process number is a machine's only
while its container is there (`OwnerInv`); and, unless two commands met at
`/etc/hosts` (`HostsInv`), that one command at most is between its read of the
file and its write, that what it has read is what the file says, and that a
machine has one line at most, which goes before its directory does, unless the
removal was not permitted (`LineInv`).

- `ContainerInvariant`, and from it `PidFilesNameContainers`: `Spec =>
  []PidNamesContainer`, and `HostsFileNamesMachines`: `Spec => []HostsNameOwn`.

`StartHasTunnel` is an action property; the invariant under it, `VpnInv`, says that
an interface that is the client's own means the daemon is up, that while a
start waits without another VPN having been seen the interface is not foreign, and
that at the probes behind the first the interface then seen was the client's own
and is so still, unless the client has ended since.
The machines beside it appear through the namespace alone, which can only make
`pgrep` succeed.

- `SuccessHasTunnel`: `Spec => StartHasTunnel`, for any number of machines.

**The setup programs.** What the programs keep of a list is read off places
(`Place` is a strictly increasing numbering of the places that are kept), and
lists that are flattened, joined or worked off are compared place by place.
`SetupInv` has one part per program; none of the properties is inductive alone.

- `HostInv`: what a run has been through and what is left make one list
  (`Through`), in which every feature is behind what it requires (`Behind`);
  only the last result can be a failure, with nothing left behind it.
- `BootInv`: results and rest together have every mandatory repository, and the
  core first. The summary comes when nothing is left.
- `LlamaInv`: in results and rest together, a deployment is behind its stack's
  build steps and behind what the snapshot missed (`DeploysBehind`).
- `RegisterInv`: what is left to be linked is there, and if it is bounded and
  not hidden its program works and has a version that fits (`Fitting`).
  It lasts because no installer runs meanwhile, except of programs that the fix
  made for an earlier link has changed.
- `BannerInv`: a cross that was not late is a failure the session knows of; and a
  line under way that was not skipped has found its containers (`SoundLine`).

That the order of a run is `Behind` is a theorem about the search itself, for
every registry and every selection. `OrderIsTopological`: `ordered_features`
reports a cycle exactly when no sequence of the selected features is `Ordered`,
and otherwise returns one that is. Visits are numbered by their depth, and the
proof goes by induction on that number, given as a set of numbers (`Induct`,
which follows from the well-foundedness of `<` on the numbers). One direction
says what a visit adds and that it leaves what it found in front; the other, that a
selection which can be put in order has no visit inside a visit of the same
feature, and that a visit of the feature at the p-th place of such an order is
at most p deep.

- `SetupSafety`: `Spec => []SetupInv`.
- `RequirementsAreFirst`: `Spec => []RequirementsFirst`.
- `DeployedIsLast`: `Spec => []DeployedLast`.
- `MandatoryAreTaken`: `Spec => EveryRunTakesTheMandatory`.
- `LinkedFits`: `Spec => LinkedVersionFits`.
- `TickHasContainer`: `Spec => NoTickWithoutContainer`.
- `FailedBannerKeeps`: `Spec => FailedBannerKeepsLog`.

`SetupInv` and each of its parts hold of the run's instance as well, checked with
TLC.

**Only model-checked**: the three liveness properties, `FinishedTurnDecided`,
`EveryToastLeaves` and `Terminates` (fairness and ENABLED are outside what the
prover handles), and the three violations. The refinement `ImplementsFSM` is
proved for sessions that are not deleted, and checked with TLC for the same.

## 7 Exceptions written into properties

A property that excepts a case says so in its formula; the excepted cases are
real and are these.

- `VerdictAboutInflight` holds in runs without replays: a replay replaces the
  context of a session whose classification is about to start.
- `AnswerComesNext` is about sessions that were not deleted: a deletion lets the
  results of effects go to a new object. It excepts a classification whose error
  was lost: a case too long for the classifier is also written to the transcript,
  inside the handler of the error, and when that fails no `EFFECT_ERROR` is queued
  (`adapter.ts:135-139`). The machine then stays in CLASSIFYING, and the next
  notification meets it there.
- `FinishedTurnDecided` excepts a turn whose start was reported before an earlier
  idle was read: that idle's `TURN_ENDED` is of the newest message and uses up the
  phase in which the turn's own would count, or comes outside it
  (`adapter.ts:264-275`, `fsm.ts:22-36`); the turn is then never decided.
- `FileUsable` excepts the fallbacks of the template: the installer copies it
  without asking the config (`install-moderator:52-59`), and a pick replaces the
  top only.
- `OwnQemuAccepted`, `StoppedMeansExited` and `RestrictedWhenSettled` except
  interrupted commands: an interruption between the launch and `mark_started`
  leaves an earlier record, and one before the restart leaves the network open.
  `RestrictedWhenSettled` and `OwnQemuAccepted` also are about one operator at a
  time, as are `ExportsQuiesced` (a start between the stop and the copy copies
  the disk of a running machine) and `NoUntrackedQemu` (section 8).
- `OwnQemuAccepted` excepts a start or stop that `ps` does not answer: no start
  time is then no match, and the machine's QEMU is refused
  (`qemu_state.py:118-135`, `:147`).
- `RestrictedWhenSettled` excepts, until the next launch, a guest step that failed
  with an error that is not caught (a `ValueError` of `_apply_env` or
  `_destination`, `qemu_guest_config.py:88-99`; the handlers at
  `qemu_backend.py:197`, `:218`, `:357` name three other types): no `last_error`
  is written and the network stays open.
- `RecordProtectsStrangers` is about processes of the same user. Another user's is
  taken for the machine's (`qemu_state.py:143`), but the kernel refuses the signal.
  It excepts `kill`, which checks no identity, and a stop that found no recorded
  start time, which the code treats as a match. It holds of commands that overlap
  as well.
- `DuplicateMarkMoves` and `BlockerEndsWithCycleOrVerdict` except a restart whose
  snapshot cannot be restored: it loses mark and blocker.
- `ClosedTurnStaysClosed` excepts an assistant whose mark an effect error took
  back: an error that comes while the assistant is in flight a second time
  clears it (`fsm.ts:114`), though the verdict of the first time was final.
- `FreshAsWritten` and `RebuildCarriesWritten` are about the machine after a
  command that reported success, until its `vm.yaml` changes. The second asks
  for a unit that runs, not for one that runs with the new settings.
- `DiskOnPinnedImage` excepts an image that two commands were at, or whose
  conversion was cut short.
- `HostsNameOwn` excepts overlapping commands at `/etc/hosts`, and machines whose
  line a command was not permitted to take away: it only warns and succeeds
  (`vm_core.py:164-169`). It asks for no line only after a command that succeeded.
- `PidNamesContainer` is about a container that a command has left running: one
  that ends by itself leaves the file.
- `StartHasTunnel` excepts starts during which another VPN had the interface, and
  of the moment of the report a client that ended between the probes of that poll.
- `LinkedVersionFits` excepts hidden extensions, which enforcement leaves alone,
  and programs that the fix of an earlier link's interpreter line has changed
  since they were checked (`register_extensions.py:105-119`).
- `NoTickWithoutContainer` is about the lookup of the line (`banner_helper.py:244`):
  a container may stop during the check that follows, of up to five and a half
  seconds, and before the print (`:252-307`).
- `FailedBannerKeepsLog` excepts checks that ran out of time on the terminal. It is
  about one shell and a log that could be opened: the log's name has the second
  (`banner_log.py:94`), so two shells that start within one share the file, and the
  one without a failure removes it.
- `RequirementsFirst` is about requirements that were selected; nothing adds those
  that were not, although `SPEC-INSTALLER`:69 has them as what must run first.
- `DeployedLast` asks that the builds were run, not that they succeeded.

## 8 Divergences and other findings

The three violation runs of section 3 are the ones with a counterexample. These
were met while modelling; the behaviour is in the model or the code but no run
is spent on them. (REQ and SPEC are the `AGENTCI-RESPONSE-MODERATION` documents
under `docs/`.)

| document | code |
|---|---|
| SPEC:282 keeps the terminal mark over a restart unless it belongs to an unfinished turn | `fsm.ts:67` clears it whenever the phase was CLASSIFYING, though the mark then is of an earlier turn |
| REQ:77 events are processed in arrival order | the idle handler reads the transcript first (`adapter.ts:264`), so a later notification can be queued before it |
| REQ:78 a duplicate idle of a moderated message is not judged again | only closing verdicts leave the mark; a continuing one leaves none (`fsm.ts:190`) |
| REQ:273 an unfinished classification is re-evaluated after a restart | only if OpenCode reports something of the session (`adapter.ts:112`) |
| SPEC:387 no newer user message exists when classifying | the classification uses the context loaded before and looks no more (`adapter.ts:182`) |
| SPEC:404 verification waits for the directive | any earlier corrective prompt of the session satisfies it (`adapter.ts:234`) |
| SPEC:965 deletion removes the audit directory | a drain that runs writes it again (`adapter.ts:143`) |
| REQ:332 a verdict applies to the assistant that produced it | a replay overwrites the context between its load and its use (`adapter.ts:299`) |
| SPEC:657 a timeout is recorded with its selector | the outcome after the last attempt names the first selector (`classifier.ts:69`) |
| REQ:405 the other selectors stay unchanged | a pick writes the fallbacks it read, over those another writer has put there meanwhile (`model-select.ts:82`) |
| SPEC:342 an effect failure produces `EFFECT_ERROR` | not when the trace of the error fails as well: the drain ends and the machine stays in CLASSIFYING (`adapter.ts:135-139`) |
| REQ:270 restored state is validated before use, and REQ:271 an invalid one is a visible error | the error is reported, but `restored` is set before the read (`adapter.ts:112-119`): the session goes on from its initial state and its next write replaces the snapshot |
| SPEC:352 busy increments the session generation, which the steps of a classification check (SPEC:388) | there is no generation: a `TURN_ENDED` of an idle read after the next turn began is taken for the earlier turn's, and that turn is not decided (`adapter.ts:264`) |
| REQ:406 a selection applies to later calls | the plugin reads the list once (`server.ts:25`) |
| `REQ-AGENTCI.md`:37 `warn` surfaces its message | before a tool runs it surfaces nothing (`v1-hook-adapter.ts:61`) |
| `SPEC-VM-HYPERVISOR`:446 verify process identity before signalling | `vm kill` signals the number in the pid file (`vm_lifecycle.py:211`), which outlives a process that ended by itself |
| `SPEC-VM-HYPERVISOR`:357 never leave an untracked QEMU process | a start unlinks the pid file a concurrent start has just had written (`qemu_backend.py:243`) |
| `REQ-VM-HYPERVISOR`:266 rebuild regenerates the guest's configuration | without `--fresh` the first-boot configuration is not written again, settings taken out of `vm.yaml` stay on the disk, and `enable --now` leaves the old unit running (`qemu_guest_config.py:213`) |
| `docs/guides/PERSISTENT-QEMU-VM.md`:41 recovery by PID identity | a start interrupted before `mark_started` leaves the earlier start time, and start and stop then refuse the machine's own QEMU (`qemu_backend.py:272`); so they do whenever `ps` fails or does not answer in time (`qemu_state.py:118`) |
| `SPEC-VM-HYPERVISOR`:347 a provisioned machine without network is restarted restricted | a `ValueError` of a guest step ends the command before the restart, with no error on record (`qemu_backend.py:197`) |
| `REQ-OPENVPN`:105, :107 and AC-3 (:183): connected requires the workspace's client and an active tunnel of its own | any `tun` or `utun` is taken for the tunnel (`vpn_core.py:125`), the openvpn of a machine's namespace for the client (`:153`), and the end of the log serves instead of a process (`:177-183`) |

Beside these, an operator may be surprised by the following:

- AgentCI: a policy that matches a repository path never applies, nor does one
  before a tool that names an exit status; the system transform looks at no
  field but the session; what a transform has pushed stays when a later file
  fails.
- QEMU: any file at the image's path is taken for the image, one that is being
  written as well (`qemu_images.py:54`), and two downloads share a file (`:66`).
  The guard profile gives the tree to root, and copying `files` into it then
  fails (`qemu_guest_config.py:235`). The host's OpenCode directory overwrites
  the provider's file (`:314`). `files` fail on a machine that is not
  provisioned, which has no tree to copy into (`:232`). A custom image is kept
  under its name alone, so that two machines of different `guest_arch` share it
  (`qemu_images.py:50`). When `rebuild --fresh` fails at the new disk the old
  one is in `backups` and the machine does not start. A stopped machine's port
  may be given to another (`qemu_images.py:199`).
- Podman: two commands lose each other's line of `/etc/hosts` (`vm_core.py:158`);
  the line of a machine keeps its address over a restart that changes it; without
  permission to write the file a removal warns and succeeds (`:164`); a container
  that ended has 0 in its pid file, and `kill` of it signals the command's own
  process group; a
  failing rebuild leaves no container (`vm_manager.py:62`); delete fails when the
  container is gone already and cleans nothing (`podman_backend.py:124`); rebuild
  does not make a missing bridge network; after a reboot start does not set the
  namespace up; a step that fails between staging and build leaves the staged
  key (`vm_build.py:134`).
- VPN: on macOS stop unloads the daemon, start does not look at how kickstart
  ended, and the wait then fails.
- Bootstrap: a pull or clone that fails counts as installed
  (`bootstrap_install.py:177`); a program that works and prints no version counts
  as missing. Host setup: an agent feature of a root run without `SUDO_USER` ends
  the run without its results. Llama setup: a stack is deployed although its
  build failed (`llama_setup_install.py:313`); unknown prerequisites are dropped
  and those named twice run twice.
- Extensions: container names match by substring (`extension_registry.py:315`);
  what became unavailable keeps its old link; a check that runs out of time is
  shown as failing and may leave no log (`banner_helper.py:217`).

## 9 What is not modelled

- Inside the modelled parts: what prompts, traces, toasts and audit records say;
  the window of the transcript the classifier is given; parsing of its answer
  (one choice of valid or not); several sessions at once in the adapter, which
  share nothing but the toast queue; the patterns of AgentCI's commands; SSH
  keys and ports; machines of several architectures under one custom image name;
  command lines of QEMU and Podman and the text of the guest's scripts; torn
  writes of `state.yaml`, a load and save of which is one step; the probes the
  llama setup prints; layout and colours of the banner; what the setup's
  external scripts do beyond what the installers can see of it.
- QEMU snapshots are a stop and one `qemu-img` call; import copies a bundle under
  a new uuid.
- **Autostart** is a unit file and two `systemctl` calls each way. Two things met
  in reading: `vm delete` leaves the unit, and a unit whose enabling failed is
  left behind. **Sync** is one rsync per rule; with overwriting rules over nested
  paths one deletes the other's files (`vm_sync.py:52`), and the Podman side
  ignores the strategy `skip`. Both are small state spaces about files that
  rsync and systemd own.
- Command-line parsing, the OpenCode wrapper, services, bootstrap and deployment
  scripts, Ansible roles and the benchmark have no state of their own or only
  pass data through, and will not be modelled.

## 10 Plan

Done: the moderator, the other plugins, both kinds of machine, the VPN client
and the setup programs, each with its safety proved. What would come next, by
what could go wrong unnoticed:

1. An abstract machine (absent, down or up) that QemuLifecycle and PodmanVm both
   implement for one uninterrupted command at a time.
2. Snapshots and import as further plans of QemuLifecycle; the autostart unit.
3. Liveness by hand: the ranking of a drain that `FinishedTurnDecided` rests on,
   as an action property that can be proved.

Runs are kept few: a new component shares a run with a component it composes
with, so that the whole set stays checkable within minutes.

## 11 Running it

```
tlc -config ModeratorSession_safety.cfg MCModeratorSession.tla
tlc -config Host.cfg MCHost.tla
tlapm ModeratorFSM_proofs.tla
tlapm Setup_proofs.tla
```

The `MC` modules are the roots of all runs; a configuration's name begins with
what its root is about. The longest run takes about two minutes.
