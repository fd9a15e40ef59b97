# AKS Flex Node agent: a TLA+ verification project

This directory models the AKS Flex Node agent, the Go program that turns a Linux
host into a node of an AKS cluster and keeps it one. It states what the agent
promises about the node, checks it with TLC on small instances and proves the
central part with TLAPS for every value of the constants. Paths are relative to
the repository root.

## 1. The system

| component | where | state | operations |
|---|---|---|---|
| agent daemon | `commands.go`, `main.go` | `bootstrapInProgress`, the context, a configuration snapshot per loop | bootstrap at start, start-up sequence, three loops, auto-bootstrap, shutdown |
| drift detection and remediation | `pkg/drift` | none of its own; decides on the two snapshot files | compare, take the guard, upgrade, record the result |
| node maintenance | `pkg/drift/node_maintenance.go` | cached client, `uncordonAfter` of a run | cordon, drain, undo, uncordon |
| node status | `pkg/status` | `status.json` | collect, replace under a lock, mark, decide health |
| managed cluster spec | `pkg/spec` | `managedcluster-spec.json` | GET and write, load, stale test, version override, remove |
| bootstrapper and executor | `pkg/bootstrapper` | results of the steps; the enricher writes the configuration singleton | run steps fail-fast (bootstrap, upgrade) or to the end (unbootstrap) |
| systemd | `pkg/systemd` | unit files, unit states | ensure running, stopped, masked |
| kubelet, container runtime, NPD | `components/kubelet`, `cri`, `npd` | binaries, configuration and unit files, processes | download, start, stop, reset |
| Kubernetes binaries, CNI | `components/kubebins`, `cni` | files in the binary directories | download when missing or of another version |
| host configuration | `components/linux` | sysctls, swap and fstab, docker, DNS, iptables: on disk, in the kernel, in systemd | configure the OS, disable docker, configure CNI and iptables |
| Arc | `components/arc`, `pkg/components/arc` | the Arc agent and its role assignments | install, register, assign roles, uninstall |
| AKS machine, kubeadm | `components/aksmachine`, `kubeadm` | agent pool and machine resource; the joined node's configuration and unit | ensure, join, reset; run by `apply`, not by the bootstrapper |
| configuration, authentication | `pkg/config`, `pkg/auth` | the singleton and its copies | validate, choose a credential |
| apply command, component hub | `pkg/cmd/apply`, `components/services` | none | parse a file of actions, dispatch each |
| client, logger, utilities, token command | `pkg/...` | little or none | plumbing |

How they interact. `agent start` runs the 13 bootstrap steps, drops the two
snapshot files, collects the status once, runs one drift pass, and then starts
three goroutines: the status loop (1 minute), the health check (2 minutes) and
the drift loop (10 minutes). The goroutines share no memory but
`bootstrapInProgress`, a word taken by compare-and-swap; they talk through the
two files, which the status and spec collectors write and the health check and
drift detection read. The health check bootstraps the node again when the
status file says it is broken; the drift loop upgrades the kubelet when the
cluster is ahead of it. Both change the same kubelet: its binary and its unit.

What is hard: the decisions are made on snapshots and carried out later; calls
to Azure, the API server and systemd fail after they had their effect; the
agent is killed in the middle of an upgrade; systemd restarts the kubelet by
itself; the operator cordons the node, the cluster moves on. `PROJECT.json`
lists each of these hazards at its line and the property that watches it.

What makes each component correct:

- daemon: one worker on the node at a time, the guard always given back,
  shutdown that ends, a kubelet that always comes back;
- remediation: installs the version it decided on, never an older one, whole or
  recorded as broken; does not leave the node unschedulable, nor fail for rights
  that the administrator's credentials would make up for;
- status and spec: a reader sees one collection; marks are not lost;
- executor: a failed step is never reported as success;
- units and downloads: applying an action again reaches the described state;
- bootstrap as a whole: a step finds what it needs, and a host reaches the end of
  it whatever an earlier attempt left behind;
- host configuration: what a step establishes survives a reboot, and the
  administrator's files are not lost;
- unbootstrap, Arc and kubeadm resets: everything that was given is taken back or
  its loss is reported, and nothing of a running pod is deleted;
- machine resource: what the control plane changed is not written over;
- configuration: one identity, whoever asks.

## 2. Modules

| module | what it is |
|---|---|
| `NodeStatus` | the status snapshot as a value; `NeedsBootstrap`, the two `Mark...` rewrites, `Drifted` |
| `AgentDaemon` | the agent process with its four actors (main and the three loops) and everything around it |
| `NodeWork` | the abstract promise: one owner of the node at a time, who alone installs, stops and starts, and installs only what it aims at |
| `Maintenance` | the abstract promise of an upgrade about the schedulability of its node: whose cordon a run may take back, and when |
| `AgentDaemonRefinement` | the mappings of the daemon to `NodeWork` and to `Maintenance` |
| `AgentDaemonProofs`, `RefinementProofs` | the theorems about the daemon, and that it implements both |
| `FailedBootstraps` | the daemon with a history variable: is a retry owed? |
| `NodeServices` | kubelet, containerd and node problem detector as the start, stop and reset actions drive them through systemd |
| `NodeServicesProofs` | the theorems about it |
| `StepProgram` | what the steps of a procedure have in common: calls that fail with or without effect |
| `Downloads` | the four download steps, file by file |
| `HostSetup` | configure-os, disable-docker, configure-cni, configure-iptables; docker, the kernel and reboots |
| `ArcMachine` | Arc installation and uninstallation, the identity of the machine and its roles |
| `KubeadmNode` | kubeadm join and reset, the kubelet's unit under systemd |
| `AKSMachine` | the agent pool and the machine resource |
| `NodeCordon` | an upgrade's requests to the API server, with whose credentials |
| `AgentConfig` | validation of the configuration and the choice of credentials |
| `NodeProcedures` | the composition of the eight: commands, step sequences, kills and reboots |
| `ProceduresRefinement` | the mapping of an upgrade's requests to `Maintenance` |
| `NodeProceduresProofs` | what the steps of each component may do; the first theorems about it |
| `ProceduresTyping` | the type invariant, and which step of which procedure each label belongs to |
| `BootstrapProofs` | what a bootstrap establishes step by step: swap, server, binaries, docker |
| `ActionProofs` | the actions of `apply`, Arc and the calls of an upgrade |
| `MaintenanceProofs` | that those calls implement `Maintenance` |
| `MCAgentDaemon`, `MCFailedBootstraps`, `MCNodeServices`, `MCNodeProcedures` | instances for TLC |

`AgentDaemon` and the code. `pc[p]` is where goroutine `p` is; a label stands
for the next call that reads or writes something another actor can see, so
every interleaving the Go scheduler allows between two such calls is a
behaviour of the model. `AgentStart`, `Bootstrap("main")`, `Cleanup` and
`DaemonReturns` are `runAgent` and `runDaemonLoop`; `StatusTick` to
`StatusWrite` are `CollectStatus` and `collectAndWriteStatus`; `HealthTick` to
`HealthBootFailed` are `checkAndBootstrap`; `SpecGet` and `SpecPut` are
`ManagedClusterSpecCollector.Collect`; `DriftTick` to `DriftFinish` are
`DetectAndRemediateFromFiles` and the eight steps of the upgrade. Constants of
the instance are the versions and their minors, the version in `config.json`,
and whether drift remediation is on.

A step that calls a remote or systemd has two outcomes: it succeeds, or it
fails with or without its effect (a time-out after the request was carried
out). Once the context is cancelled every call that takes it fails. Bootstrap
steps that touch nothing modelled (Arc, host configuration, the other
downloads, CNI, containerd) are part of the next step that does; their failure
is its failure without effect. The other health signals of the node (runc, Arc)
are one Boolean, `host`. Writes of local files are atomic (renameio) and do not
fail. `config.json` does not change, so the rendered kubelet configuration does
not either, and `start-kubelet` restarts a running kubelet only if it is down.

Outside the agent (`Environment`): signals, kills of the agent alone or with
the node, a kubelet that dies for good or until systemd restarts it, ageing
snapshots, an operator who cordons and uncordons, a cluster that moves to newer
versions. `AgentStart` stands for `Restart=on-failure` and for the operator who
starts the agent again after a clean stop or after systemd gave up.

`NodeServices` and the code. It opens up what `AgentDaemon` takes as one step,
the start of a service. `pc` is the next call of the action under way, applied
by the one agent of the node; `changed` is the pair of flags `configUpdated` and
`unitUpdated` that decide on the daemon reload and the restart. Per service it
has the two files on disk, the definition systemd holds (`loaded`), the
`ActiveState`, and what the living process was started from. Files are compared
as a whole: the four unit files of the kubelet, or its certificate and
kubeconfig, are one content, and a failure leaves the old or the new one.
`BeginStart` to `RestartUnit` are the `ApplyAction` of `StartKubeletService` and
`StartContainerdService` with `EnsureUnitRunning`; `NPDStatus` and `NPDReload` the
node problem detector's own `ensureSystemdUnit`; `StopStatus` to `DisableUnit` are
`EnsureUnitStoppedAndDisabled`; `MaskStatus` to `Clean` the resets with
`EnsureUnitMasked`. systemd itself is external and modelled from how it is used:
it reads a definition when a unit is first referred to and on a daemon reload,
refuses to start what is masked, starts containerd with the kubelet (`Wants=`),
restarts a process that died (`Restart=`) and may forget an inactive unit.
Anybody may reload the daemon at any time. None of these three units is ever
enabled, so a reboot leaves all of them down until the agent starts them.

`NodeProcedures` and the code. `AgentDaemon` looks at one kubelet while the daemon
lives; `NodeProcedures` looks at everything a host goes through before and after.
A procedure is the sequence of step names that `bootstrapper.go` builds, or the
actions of a file given to `apply`; `ExecuteStep` is `executeStep` with the
dispatch by name, `StepSucceeds` and `StepFails` the loop of `ExecuteSteps` with
its fail-fast and its best-effort form. Within a step `pc` is its next call, as
everywhere. `Killed` and `Reboot` may come between any two calls and leave what
is on disk; a reboot drops what is only in the kernel or in systemd. An instance
says which `Ways` a host goes:

- `agent`: bootstrap, then the daemon, which may bootstrap again, and unbootstrap
  at any time, in any order and number;
- `arc`: the InstallArc action and unbootstrap, on a cluster with or without Azure
  RBAC. (The `install-arc` step of a bootstrap is the same action. It is looked at
  on a way of its own to keep its states apart from those of the other 12.)
- `kubeadm`: join, reset, and both in one file;
- `machine`: EnsureMachine, and a file with an unknown action, which is refused as
  a whole;
- `upgrade`: the requests of an upgrade, beside an operator and a cluster that
  rotates its certificates.

Two models have the upgrade's cordon, drain and uncordon: `AgentDaemon` makes each of
them one step, among the loops of the daemon; `NodeCordon` opens one up into clients,
reads, writes, refusals and the retry with an administrator's credentials. Both are
shown to implement `Maintenance`, in which a run is a phase, the mark on the node and
whether the run answers for that mark: so the one step of `AgentDaemon` promises no
more of the node than the requests keep. A request that is refused, or asks for a
client, is a stutter of `Maintenance`; the last one of a call is the step.

What is abstracted: the kubelet, containerd and the node problem detector are here
only up or down, since `NodeServices` has their detail; a file's contents are the
one fact somebody depends on; what `kubeadm`, `azcmagent`, `apt` and `systemctl` do
is external and modelled from how it is used. A host's daemon.json is taken to be
well formed, and a CA that is given in config.json to decode.

## 3. Runs

Bounds: `MaxFaults` is the number of calls that fail before the context is
cancelled, `MaxEvents` the number of events of the environment, except the
kubelet's restart and the cluster's new versions, which are not counted. The
goroutines themselves are not bounded: loops tick for ever. One fault and one
or two events are enough to break every step in every state and to meet the
recovery, or the next upgrade, with a kubelet that died, a crash or a signal;
two versions give one upgrade, three an upgrade that is out of date. For the
services two configurations suffice, the old and the new; one fault is a start
or reset that stops half-way, one event a death, kill, reboot or new
configuration beside it. For the procedures two calls may fail, or the process be
killed, between the first step and the last, so that a procedure can be stopped,
started again, stopped once more and finished; on the agent's long way it is one
(`Spared`), and a reboot counts only while a procedure runs. Two packages, one with
two files, and two versions are enough for every mixture that a broken download
can leave, the version asked for only goes up. A bare host and one with docker, swap
and without the tools; six configuration files, of which two are not valid. What
pods do while a bootstrap runs is left out, since no step of it looks at that.

| run | checks | shows |
|---|---|---|
| `DaemonSafety` | `TypeOK`, `GuardExclusive`, `UpgradeInstallsTarget`, `SwapUndisturbed`, `ImplementsNodeWork`, `DaemonImplementsMaintenance` | two versions, 1 fault, 2 events: the guard serialises every writer of the kubelet; the daemon implements `NodeWork`, its upgrades `Maintenance` |
| `DaemonProgress` | `GuardReleased`, `ShutdownCompletes`, `KubeletRecovers` | two versions, 1 fault, 1 event: the guard comes back through every failure, signal and crash; a cancelled context ends the process; a kubelet that is down is started again |
| `UpgradeProgress` | `UpgradeArrives` | once failures end, the kubelet on disk reaches the minor of the cluster |
| `ServicesSettle` | `TypeOK`, `ChangeTakesEffect`, `StartsSettle` | three services, 1 fault, 1 event: a start that succeeds runs what it changed, whenever systemd restarted the unit by itself; a kubelet that is down, or a containerd that is started again and again, ends up active after any half-finished start, stop or reset |
| `ProceduresRun` | type invariant, 12 invariants, `UnbootstrapGoesOn`, `MachineKept`, `CallsImplementMaintenance`, `HostJoins` | all five ways, see below |

What `ProceduresRun` (300,863 states) shows, property by property:

| property | the hazard |
|---|---|
| `KubeletPrepared` | the kubelet is started without something an earlier step should have left: swap off, the binaries its preflight looks up, CNI, containerd, the server in the configuration this attempt was given |
| `BinariesUsable` | a service is started from binaries that a broken download left missing or old |
| `SingleIdentity` | kubelet and Azure calls act under identities that differ from the one validated |
| `SwapStaysOff`, `FstabKept` | a reboot brings swap back; the backup of fstab is overwritten by the changed file |
| `DockerStaysOut` | docker, or its socket, comes back after it was disabled, and its rules with it |
| `NothingDeletedInVolumes` | the removal of the kubelet's directories reaches into a mounted volume. Not meant is kubeadm's own reset, which removes the same directories and is trusted to have unmounted |
| `UnbootstrapGoesOn` | a failure keeps later steps of unbootstrap from being tried |
| `RolesReported`, `AdminRevoked` | a role that was not assigned is reported as assigned; an administrator of the cluster outlives its machine though no call failed |
| `JoinSurvivesReboot` | a join over the remains of a reset leaves a node that does not come back after a reboot |
| `MachineKept` | a failed GET is taken for a missing machine, and the control plane's changes are written over |
| `RightsSuffice`, `CordonTakenBack` | an upgrade fails for rights the administrator has; a run leaves its own cordon though nothing failed |
| `CallsImplementMaintenance` | a refusal, a retry or a stale read makes a run take back somebody else's cordon, or forget its own before it has tried to take it back |
| `HostJoins` | some remains of an attempt make every later bootstrap fail |

Two of them exclude a known gap, kept as a history variable (`slipped`): a docker or
a kubelet that waits for systemd's restart at the moment it is masked is not
active, so it is not stopped, and without a daemon reload systemd starts it once
more.

Seven runs show where the code does not do what its comments say; each is a
finding in `PROJECT.json`:

| run | statement | what happens |
|---|---|---|
| `DriftDowngrades` | "Never downgrade via drift remediation" | drift decides on files read before the guard; the health check upgrades further in between; drift installs the older version |
| `BootFallsBack` | a bootstrap does not fall back to the static version | the bootstrap of `agent start` has no version override: a restart reinstalls the configured version |
| `StuckCordon` | the node is not left unschedulable | a cordon that failed after its effect is taken for the operator's by the next upgrade. The run has no events: a cordon left by a crash or a signal ends the same way |
| `OldKubeletRuns` | "start kubelet to match the upgraded bits" | a kubelet restarted by systemd between stop and download is active, so it is left running the old version |
| `LostChange` | "Applying the same action twice is safe" | a start writes its files and fails; the next one finds them written, sees an active unit, succeeds, and the old configuration stays in effect |
| `RolesRemoved` | unbootstrap "removes all RBAC role assignments" | it goes through another list than the installation: two of the four roles stay, no error is reported |
| `ForgottenRetry` | "remove status file so next check will detect the problem" | a collection in flight writes the file back |

### Fairness

`Fairness` is weak fairness of main and of each loop (the Go scheduler runs
them, tickers tick, every call has a time-out, systemd or the operator starts
the agent) and strong fairness of each loop's exit: `select` picks at random
between the tick and the cancelled context, so it does not pick the tick for
ever. Nothing is assumed of the environment: systemd need not restart a dead
kubelet. `UpgradeArrives` also needs `GuardSometimesWon`: both loops tick on
the same clock (every drift tick falls on one of the health check), and a drift
pass that always finds the guard taken would never upgrade. The health check
holds the guard of a healthy node for one file read, while the pass has a GET
to Azure to do first, so it finds the guard free some time. This is an
assumption about timing that the code does not enforce.

In `NodeServices` an action that has begun goes on (weak fairness), and a kubelet
that is down is started again and again (strong fairness of `KubeletStarts`): the
health check keeps bootstrapping such a node. Nothing makes the agent start a
containerd that is down beside a running kubelet, so for containerd `StartsSettle`
says what becomes of it if it is started again and again. Nothing is assumed of
systemd. `StartsSettle` has a hypothesis: systemd does not go on remembering a mask. The
start that replaces the link of a masked unit must also reload the daemon; if
it fails in between, its successors see no change, do not reload and are
refused, until somebody else reloads or the host reboots. It is the lost change
of `LostChange` once more.

In `NodeProcedures` a process goes on (weak fairness of `ProcessStep`) and the agent
is started again when it ended with an error or the host came up (weak fairness of
`StartAgent`): `aks-flex-node-agent.service` is enabled and has
`Restart=on-failure`. It gives up after five failures in five minutes; `MaxFaults`
is two, and a third attempt is enough. Nothing is assumed of docker, pods, Azure or
the operator. `HostJoins` ends at an unbootstrap: nobody bootstraps a host that is
being taken back.

## 4. Proofs

Every safety invariant, action property and refinement that a passing run checks is
also a theorem, for every value of the constants.

| theorem | states | in |
|---|---|---|
| `TypeCorrect` | `Spec => []TypeOK` | `AgentDaemonProofs` |
| `GuardSerialises` | `Spec => []GuardExclusive` | |
| `UpgradeIsWhole` | `Spec => []UpgradeInstallsTarget` | |
| `NobodyStartsDuringSwap` | `Spec => SwapUndisturbed` | |
| `Refinement` | `Spec => ImplementsNodeWork` | `RefinementProofs` |
| `MaintenanceOfDaemon` | `Spec => DaemonImplementsMaintenance` | |
| `ServicesTyped` | `Spec => []TypeOK` | `NodeServicesProofs` |
| `ChangesApplied` | `Spec => []ChangeTakesEffect` | |
| `OneIdentity` | `Spec => []SingleIdentity` | `NodeProceduresProofs` |
| `TableKept` | `Spec => []FstabKept` | |
| `VolumesSpared` | `Spec => []NothingDeletedInVolumes` | |
| `UnbootstrapEnds` | `Spec => UnbootstrapGoesOn` | |
| `MachineStays` | `Spec => MachineKept` | |
| `ProceduresTyped` | `Spec => []ProceduresTypeOK` | `ProceduresTyping` |
| `SwapIsOff` | `Spec => []SwapStaysOff` | `BootstrapProofs` |
| `KubeletFindsAll` | `Spec => []KubeletPrepared` | |
| `BinariesAreUsable` | `Spec => []BinariesUsable` | |
| `DockerIsOut` | `Spec => []DockerStaysOut` | |
| `JoinIsForGood` | `Spec => []JoinSurvivesReboot` | `ActionProofs` |
| `RolesAreReported` | `Spec => []RolesReported` | |
| `AdministratorsGo` | `Spec => []AdminRevoked` | |
| `AdministratorHelps` | `Spec => []RightsSuffice` | |
| `UpgradeUncordons` | `Spec => []CordonTakenBack` | |
| `MaintenanceOfCalls` | `Spec => CallsImplementMaintenance` | `MaintenanceProofs` |

### Assumptions

Only those stated on the constants, which TLC evaluates in every run.

- Daemon: versions are positive numbers, minors respect their order, the configured
  version is one of them; any bounds.
- Services: any of the three, any non-empty set of configurations, any bounds.
- Procedures: any well-typed configuration files and hosts, any of the five ways, any
  bounds. Of a host (`HostsAssumption`): if it has iptables it has it from the
  distribution, whose package brings ebtables; on a host without ebtables nothing would
  install it, and the kubelet's preflight would refuse every start. Of the packages
  (`PackagesAssumption`): the file that is asked for its
  version is one of those whose presence is required, which are among those installed,
  and who wants runc wants containerd, since one step downloads both in that order.
  There is at least one release (`ReleasesAssumption`): without one nothing could be
  wanted, and `wanted` would have no value to start from.

### The daemon

The inductive invariant `IInv` is `TypeOK`, `GuardExclusive` and
`UpgradeInstallsTarget` together. None of the last two is inductive alone: that
an upgrade's version stays on disk needs that nobody else is in a download,
which is `GuardExclusive`; that main never bootstraps beside a loop needs that
a drift pass only exists in the daemon or in main's first pass (`PassNeedsMain`);
that a release by the health check does not free the guard of an upgrade needs
that the word is 1 exactly while one of the two is busy (`OneWorker`).
`Invariance` has one step per action. The two action properties are proved
from it: `Refinement` maps every action to an action of `NodeWork` or to a
stutter, by the owner before and after it. `MaintenanceOfDaemon` does the same for
`Maintenance` by the label of the drift loop, and needs one fact more
(`CordonIsOwn`): a run only gets to the cordon with `uncordonAfter` set.

### The services

`ChangeTakesEffect` speaks of the end of a start; `FreshInv` says what must hold
on the way there, whatever systemd does meanwhile: the action's files stay as it
wrote them (`FilesFresh`), from the reload on whoever launches the unit launches
the new definition (`DefinitionFresh`), and a process that came to life between
the status call and the start was launched from both (`ProcessFresh`). The last
is why an action may find the unit already active when it starts it.

### The procedures

The proofs about `NodeProcedures` share lemmas that say where the steps of each
component lead: to the component's own labels (`...StepStays`). `Turns` draws the
conclusion: every step is a turn of one component, which leaves the variables of the
others alone, or of the run, of the host or of the world around it. With it an
invariant about one component only has to look at that component's actions and
those of the host. `RunInv` follows a run through its steps: only a bootstrap, of
a file that was valid when it began, contains the step that starts the kubelet;
then exactly one method is configured, and it is the one `startKubelet` picks.
`FstabInv` adds what holds between backup and change, `MachineInv` that a PUT is
only under way where there is no machine for the control plane to change, and
`ResetInv` that a masked kubelet which was not about to restart is down, so that
nothing is mounted while the reset works.

`InOrder` is what everything after that rests on: the type invariant, and that each
label is only reached in the step it belongs to (`LabelInv`) and each procedure has the
steps its command gave it (`ProcedureInv`). The type invariant is not inductive without
it: that an Arc job, or a download, has a value its next call can work with is known
from the label it is at.

A bootstrap (`BootstrapProofs`). `Past(i)` says that the step at position `i` of the
bootstrap under way has succeeded. What a property needs at its step was established by
an earlier one, so each invariant has the form `Past(i) => established`, with what holds
between the calls of step `i`, and `joined => established` if it is to last. The
induction then has three parts: the step that establishes it (`CompletedBy`), that
nothing a bootstrap does later undoes it, and that the world around it does not.

- `SwapInv`: swap is off in the kernel *and* in the file, since either alone does not
  survive: the file brings swap back with a reboot, the kernel keeps it until one.
- `KnownInv`: in the first bootstrap the steps share the configuration singleton; in a
  later one they have a copy, which knows the server because the daemon only runs after
  a bootstrap that got past the enricher.
- `ToolsInv`: the three binaries of the kubelet's preflight. configure-os only asks for two
  of them; ebtables comes with iptables, on the host that was delivered or when apt
  installs it, and nobody removes it.
- `GatherInv`: CNI and containerd, which only an unbootstrap or a reboot take away, and
  those end the run.
- `FetchInv`: while a package is fetched, its files that are no longer to do have the
  wanted version; so the one file that is asked, and those whose presence is required,
  are right when the step ends. What an earlier, broken download left is either found
  wanting by `NeedsDownload` or usable.
- `UnitsInv`, `MaskInv`, `OutInv`: docker's socket is masked before its service is
  stopped, or it would start the service again; a service caught between two of its runs
  is the exception that `slipped` remembers; the rules go with a flush after which no
  docker is there to write them.

Actions (`ActionProofs`).

- `JoinInv`: kubeadm's configuration, by which a later join takes the node to be joined
  already, is only there with a unit that is enabled; a reset removes it before it touches
  the unit.
- `InstallInv`: while roles are assigned, those before the next are, or an error was
  recorded; an unbootstrap knows of no completed installation.
- `RevokeInv`: as long as nothing failed, the roles before the next one to be removed are
  gone, a machine that is not ready has no roles, and so no administrator's role is left
  when the machine is deleted.
- `CordonInv`: a client with the kubelet's credentials has at least the right to read, a
  client that may not read has an expired certificate (`hurt`), after a refusal the client
  is an administrator's, and an uncordon that read a schedulable node was preceded by
  somebody else's uncordon.

`MaintenanceProofs` adds `OpInv`: a call is under way in an upgrade only and at its own
labels, and who uncordons has cordoned. Each of the calls' steps is then a stutter
(`CallGoesOn`), a call given up (`CallGivenUp`) or done (`CallDone`); that uncordoning
which wrote nothing leaves no mark of the agent is the last conjunct of `CordonInv`.

### Only model-checked

The liveness properties `GuardReleased`, `ShutdownCompletes`, `KubeletRecovers`,
`UpgradeArrives`, `StartsSettle` and `HostJoins`: fairness and `ENABLED` are out of the
prover's reach. The seven statements that the code breaks are refuted by TLC.

## 5. Not modelled, and the plan

Not modelled: rendering and parsing of files and messages, logging, the token
command (one request), the installation scripts, the end-to-end harness, and
generated code: the `action.pb.go` of each component are some 8,500 of the
implementation's lines. The merging of the plans of several detectors is left out
(one is registered); spec enrichers that miss their field count as a GET that
failed.

Modelled, but without a property since nothing in the repository promises otherwise:

- sysctls whose file was written are not applied again, although `sysctl --system`
  failed;
- the flush of iptables is repeated with every bootstrap and every kubelet start;
- versions are compared by `strings.Contains`, and only one file of a package is
  asked; in the model versions are values;
- an agent pool of another mode is accepted;
- a kubeadm join that failed late is not repeated;
- a partial download of the node problem detector can leave its configuration
  missing for good, since only the binary is looked for;
- a status or a spec collected before an upgrade may be stored after it, which leads
  to one redundant upgrade;
- the reset of a kubelet fails on a host that never had its directory, and on
  nested mounts fails the first time.

Further observations that are not in the model: `Validate` dereferences
`targetCluster` without a test (`pkg/config/config.go:272`); the CA of the cluster's
kubeconfig is not looked at when the configuration is enriched
(`cluster_config_enricher.go:107-119`); a node GET that is refused is not retried
with admin credentials, although the comment at `node_maintenance.go:221` names
expired certificates (the model has it: `GetNode`); `ensureRuntimeFolders`
(`kubeadm/v20260301/join.go:131`) drops its error.

Plan for what is left:

1. A refinement: the kubelet's unit in `NodeServices` and the kubelet of `AgentDaemon`
   implement one abstract service.
2. What the liveness properties rest on, as far as it is safety: a bound on what a
   procedure has left to do that every step of it lowers.
3. The cached clientset of the status collector.
