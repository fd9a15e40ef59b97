----------------------------- MODULE AgentDaemon -----------------------------
(***************************************************************************)
(* The aks-flex-node agent of one node: the bootstrap of `agent start`,    *)
(* then the three goroutines of the daemon (status collection, bootstrap   *)
(* health check, drift remediation), which share                           *)
(*   - the bootstrapInProgress word, taken by compare-and-swap,            *)
(*   - the status and the managed cluster spec snapshot on disk,           *)
(*   - the kubelet of the node: its binary and its systemd unit.           *)
(*                                                                         *)
(* A step of a goroutine is one call that reads or changes what another    *)
(* actor can see; bootstrap steps that touch nothing modelled here are     *)
(* part of the next step that does, whose failure includes theirs.         *)
(* The other actors are the kubelet, its systemd unit, the cluster, the    *)
(* operator of the node, and whoever stops, kills or starts the agent.     *)
(***************************************************************************)
EXTENDS NodeStatus

CONSTANTS
  ConfigVersion,  \* kubernetes.version of config.json
  DriftEnabled,   \* is drift detection and remediation on in config.json?
  MaxFaults,      \* bound: how many calls fail in a behaviour
  MaxEvents       \* bound: how many node, operator and agent events happen

ASSUME ConfigAssumption ==
  /\ ConfigVersion \in Versions
  /\ DriftEnabled \in BOOLEAN
  /\ MaxFaults \in Nat
  /\ MaxEvents \in Nat

VARIABLES
  pc,            \* where each goroutine is
  ctxDone,       \* the context of the process is cancelled (SIGINT, SIGTERM)
  inProgress,    \* bootstrapInProgress
  target,        \* Kubernetes.Version of the config snapshot a goroutine works with
  fetched,       \* the cluster version a spec collector has read and not yet written
  sample,        \* what the status collector has read and not yet written
  uncordonAfter, \* the drift run found the node schedulable
  statusFile,    \* status.json
  specFile,      \* managedcluster-spec.json; version Unknown: no file
  binary,        \* version of /usr/local/bin/kubelet
  process,       \* version of the running kubelet; Unknown: the unit is not active
  restarting,    \* the kubelet died and its unit waits to be restarted (Restart=always)
  cordonedBy,    \* who made the node unschedulable
  desired,       \* currentKubernetesVersion of the managed cluster
  faults, events

files == <<statusFile, specFile>>
locals == <<target, fetched, sample, uncordonAfter>>
kubelet == <<binary, process, restarting>>
cluster == <<cordonedBy, desired>>
vars == <<pc, ctxDone, inProgress, locals, files, kubelet, cluster, faults, events>>

Procs == {"main", "status", "health", "drift"}

BootPCs == {"download", "startKubelet", "startNPD"}
MainPCs == {"down", "cleanup", "status0", "drift0", "wait"} \union BootPCs
StatusPCs == {"idle", "version", "services", "write", "exited"}
HealthBusyPCs == {"check", "get", "put", "override", "bootFailed"} \union BootPCs
HealthPCs == {"idle", "exited"} \union HealthBusyPCs
MaintenancePCs == {"isCordoned", "cordon", "drain", "undoCordon"}
SwapPCs == {"upDownload", "upStart"}
UpgradedPCs == {"uncordon", "retryUncordon", "finishOk"}
UpgradePCs ==
  {"stop", "finishFailed", "finishBroken"} \union MaintenancePCs \union SwapPCs \union UpgradedPCs
DriftPCs == {"idle", "exited", "get", "put", "loadSpec", "detect", "acquire"} \union UpgradePCs

Cordoners == {"nobody", "agent", "operator"}
NoSpec == [version |-> Unknown, fresh |-> FALSE]
NoSample == [version |-> Unknown, running |-> FALSE, host |-> FALSE]

HealthBusy == pc["health"] \in HealthBusyPCs
Upgrading == pc["drift"] \in UpgradePCs
ActiveLoops == {"status", "health"} \union (IF DriftEnabled THEN {"drift"} ELSE {})

Labels == MainPCs \union StatusPCs \union HealthPCs \union DriftPCs

LabelsOf(p) ==
  CASE p = "main" -> MainPCs
    [] p = "status" -> StatusPCs
    [] p = "health" -> HealthPCs
    [] p = "drift" -> DriftPCs

ControlOK ==
  /\ pc \in [Procs -> Labels]
  /\ \A p \in Procs : pc[p] \in LabelsOf(p)
  /\ fetched \in [Procs -> KnownOrNot]
  /\ \A p \in Procs : pc[p] = "put" => fetched[p] \in Versions

DataOK ==
  /\ ctxDone \in BOOLEAN
  /\ inProgress \in {0, 1}
  /\ target \in [Procs -> Versions]
  /\ sample \in [version : KnownOrNot, running : BOOLEAN, host : BOOLEAN]
  /\ uncordonAfter \in BOOLEAN
  /\ statusFile \in Snapshot
  /\ specFile \in [version : KnownOrNot, fresh : BOOLEAN]
  /\ binary \in KnownOrNot
  /\ process \in KnownOrNot
  /\ restarting \in BOOLEAN
  /\ cordonedBy \in Cordoners
  /\ desired \in Versions
  /\ faults \in 0..MaxFaults
  /\ events \in 0..MaxEvents

TypeOK == ControlOK /\ DataOK

Init ==
  /\ pc = [p \in Procs |-> IF p = "main" THEN "down" ELSE "idle"]
  /\ ctxDone = FALSE
  /\ inProgress = 0
  /\ target = [p \in Procs |-> ConfigVersion]
  /\ fetched = [p \in Procs |-> Unknown]
  /\ sample = NoSample
  /\ uncordonAfter = FALSE
  /\ statusFile = NoSnapshot
  /\ specFile = NoSpec
  /\ binary = Unknown
  /\ process = Unknown
  /\ restarting = FALSE
  /\ cordonedBy = "nobody"
  /\ desired \in Versions
  /\ faults = 0
  /\ events = 0

-----------------------------------------------------------------------------
(* How calls end. A call that takes the context fails once it is cancelled;*)
(* before that it may fail MaxFaults times. A failed call to a remote or   *)
(* to systemd may still have had its effect (a time-out, a lost answer).   *)

Succeeds == ~ctxDone /\ UNCHANGED faults

Fails ==
  \/ ctxDone /\ UNCHANGED faults
  \/ ~ctxDone /\ faults < MaxFaults /\ faults' = faults + 1

At(p, label) == pc[p] = label
Goto(p, label) == pc' = [pc EXCEPT ![p] = label]

\* MUTANT of GuardFree: a load and a store instead of the compare-and-swap.
GuardIgnored == TRUE

GuardFree == inProgress = 0

\* The daemon's goroutines only exist while main waits for them.
LoopsRun == pc["main"] = "wait"

\* A drift pass returns to its loop; the pass of the daemon's start-up to main.
DriftReturns ==
  pc' = [pc EXCEPT !["drift"] = "idle",
                   !["main"] = IF @ = "drift0" THEN "wait" ELSE @]

\* The call of the kubelet start action: an active unit whose configuration
\* did not change is left alone.
StartsKubelet ==
  IF process = Unknown
  THEN process' = binary /\ restarting' = FALSE
  ELSE UNCHANGED <<process, restarting>>

-----------------------------------------------------------------------------
(* The agent process.                                                      *)

\* systemd (Restart=on-failure) or the operator starts the agent, which loads
\* its configuration and bootstraps the node with the version it names.
AgentStart ==
  /\ At("main", "down")
  /\ Goto("main", "download")
  /\ UNCHANGED <<ctxDone, inProgress, locals, files, kubelet, cluster, faults, events>>

\* The process is gone: its goroutines, its memory, its lock word.
ProcessEnds ==
  /\ pc' = [p \in Procs |-> IF p = "main" THEN "down" ELSE "idle"]
  /\ ctxDone' = FALSE
  /\ inProgress' = 0
  /\ target' = [p \in Procs |-> ConfigVersion]
  /\ fetched' = [p \in Procs |-> Unknown]
  /\ sample' = NoSample
  /\ uncordonAfter' = FALSE

\* After the bootstrap, runDaemonLoop drops the snapshots of the previous
\* session and collects the status once before any loop starts.
Cleanup ==
  /\ At("main", "cleanup")
  /\ statusFile' = NoSnapshot
  /\ specFile' = NoSpec
  /\ pc' = [pc EXCEPT !["main"] = "status0", !["status"] = "version"]
  /\ UNCHANGED <<ctxDone, inProgress, locals, kubelet, cluster, faults, events>>

LoopExit(p) ==
  /\ LoopsRun /\ ctxDone
  /\ At(p, "idle")
  /\ Goto(p, "exited")
  /\ UNCHANGED <<ctxDone, inProgress, locals, files, kubelet, cluster, faults, events>>

\* wg.Wait() returns once every goroutine that was started is gone.
DaemonReturns ==
  /\ LoopsRun /\ ctxDone
  /\ \A p \in ActiveLoops : At(p, "exited")
  /\ ProcessEnds
  /\ UNCHANGED <<files, kubelet, cluster, faults, events>>

-----------------------------------------------------------------------------
(* Bootstrap: the 13 steps of Bootstrapper.Bootstrap, fail-fast, as run by *)
(* p, main at start-up or the health check.                                *)

\* MUTANT of BootstrapFails: the health check tries again at once, for ever.
BootstrapRetries(p) ==
  IF p = "main"
  THEN ProcessEnds
  ELSE Goto(p, "download") /\ UNCHANGED <<ctxDone, inProgress, locals>>

\* A health check that failed to bootstrap has the status file to remove;
\* an agent that failed to bootstrap exits.
BootstrapFails(p) ==
  IF p = "main"
  THEN ProcessEnds
  ELSE /\ Goto(p, "bootFailed")
       /\ UNCHANGED <<ctxDone, inProgress, locals>>

\* MUTANT of BootDownload: the steps read the configuration loaded at start-up,
\* not the snapshot that the health check changed.
BootDownloadConfigured(p) ==
  /\ At(p, "download")
  /\ \/ /\ Succeeds
        /\ binary' = ConfigVersion
        /\ Goto(p, "startKubelet")
        /\ UNCHANGED <<ctxDone, inProgress, locals>>
     \/ /\ Fails
        /\ binary' \in {binary, ConfigVersion}
        /\ BootstrapFails(p)
  /\ UNCHANGED <<files, process, restarting, cluster, events>>

\* install-arc ... download-npd: of these only the kubelet binary matters
\* here; it is installed by an atomic rename.
BootDownload(p) ==
  /\ At(p, "download")
  /\ \/ /\ Succeeds
        /\ binary' = target[p]
        /\ Goto(p, "startKubelet")
        /\ UNCHANGED <<ctxDone, inProgress, locals>>
     \/ /\ Fails
        /\ binary' \in {binary, target[p]}
        /\ BootstrapFails(p)
  /\ UNCHANGED <<files, process, restarting, cluster, events>>

\* configure-cni ... start-kubelet.
BootStartKubelet(p) ==
  /\ At(p, "startKubelet")
  /\ \/ /\ Succeeds
        /\ StartsKubelet
        /\ Goto(p, "startNPD")
        /\ UNCHANGED <<ctxDone, inProgress, locals>>
     \/ /\ Fails
        /\ StartsKubelet \/ UNCHANGED <<process, restarting>>
        /\ BootstrapFails(p)
  /\ UNCHANGED <<files, binary, cluster, events>>

\* start-npd, the last step: main becomes the daemon, the health check lets
\* go of the guard.
BootStartNPD(p) ==
  /\ At(p, "startNPD")
  /\ \/ /\ Succeeds
        /\ \/ /\ p = "main"
              /\ Goto(p, "cleanup")
              /\ UNCHANGED <<inProgress, target>>
           \/ /\ p = "health"
              /\ Goto(p, "idle")
              /\ inProgress' = 0
              /\ target' = [target EXCEPT ![p] = ConfigVersion]
        /\ UNCHANGED <<ctxDone, fetched, sample, uncordonAfter>>
     \/ /\ Fails
        /\ BootstrapFails(p)
  /\ UNCHANGED <<files, kubelet, cluster, events>>

Bootstrap(p) == BootDownload(p) \/ BootStartKubelet(p) \/ BootStartNPD(p)

-----------------------------------------------------------------------------
(* The status collection loop: CollectStatus samples the node piece by     *)
(* piece, and the result replaces the file later, under the file's mutex.  *)

StatusTick ==
  /\ LoopsRun
  /\ At("status", "idle")
  /\ Goto("status", "version")
  /\ UNCHANGED <<ctxDone, inProgress, locals, files, kubelet, cluster, faults, events>>

\* kubelet --version runs the binary on disk, not the one that is running.
StatusVersion ==
  /\ At("status", "version")
  /\ \/ Succeeds /\ sample' = [sample EXCEPT !.version = binary]
     \/ Fails /\ sample' = [sample EXCEPT !.version = Unknown]
  /\ Goto("status", "services")
  /\ UNCHANGED <<ctxDone, inProgress, target, fetched, uncordonAfter,
                 files, kubelet, cluster, events>>

\* What systemctl is-active kubelet, runc --version and azcmagent show say. The
\* last two end with the context or after ten seconds: the host looks broken then.
SampleServices(host) ==
  sample' = [sample EXCEPT !.running = process # Unknown, !.host = host]

StatusServices ==
  /\ At("status", "services")
  /\ \/ Succeeds /\ SampleServices(TRUE)
     \/ Fails /\ SampleServices(FALSE)
  /\ Goto("status", "write")
  /\ UNCHANGED <<ctxDone, inProgress, target, fetched, uncordonAfter,
                 files, kubelet, cluster, events>>

\* LastUpdated is the time the collection began. The collection at start-up
\* returns to main, which goes on to the first drift pass or to the loops.
StatusWrite ==
  /\ At("status", "write")
  /\ statusFile' = [present |-> TRUE, version |-> sample.version,
                    running |-> sample.running, host |-> sample.host, fresh |-> TRUE]
  /\ sample' = NoSample
  /\ IF ~At("main", "status0") THEN Goto("status", "idle")
     ELSE IF DriftEnabled
     THEN pc' = [pc EXCEPT !["status"] = "idle", !["main"] = "drift0", !["drift"] = "get"]
     ELSE pc' = [pc EXCEPT !["status"] = "idle", !["main"] = "wait"]
  /\ UNCHANGED <<ctxDone, inProgress, target, fetched, uncordonAfter, specFile,
                 kubelet, cluster, faults, events>>

-----------------------------------------------------------------------------
(* ManagedClusterSpecCollector.Collect, called by the drift loop and by an *)
(* auto-bootstrap: a GET of the managed cluster, then the file.            *)

AfterSpec(p) == IF p = "health" THEN "override" ELSE "loadSpec"

SpecGet(p) ==
  /\ At(p, "get")
  /\ \/ /\ Succeeds
        /\ fetched' = [fetched EXCEPT ![p] = desired]
        /\ Goto(p, "put")
     \/ /\ Fails
        /\ IF p = "health" THEN Goto(p, AfterSpec(p)) ELSE DriftReturns
        /\ UNCHANGED fetched
  /\ UNCHANGED <<ctxDone, inProgress, target, sample, uncordonAfter,
                 files, kubelet, cluster, events>>

SpecPut(p) ==
  /\ At(p, "put")
  /\ specFile' = [version |-> fetched[p], fresh |-> TRUE]
  /\ fetched' = [fetched EXCEPT ![p] = Unknown]
  /\ Goto(p, AfterSpec(p))
  /\ UNCHANGED <<ctxDone, inProgress, target, sample, uncordonAfter, statusFile,
                 kubelet, cluster, faults, events>>

-----------------------------------------------------------------------------
(* The bootstrap health check loop.                                        *)

\* The deferred store of 0 into bootstrapInProgress, back in the loop.
HealthReleases ==
  /\ inProgress' = 0
  /\ target' = [target EXCEPT !["health"] = ConfigVersion]
  /\ Goto("health", "idle")

\* A tick that finds the guard taken is skipped: it changes nothing.
HealthTick ==
  /\ LoopsRun
  /\ At("health", "idle")
  /\ GuardFree
  /\ inProgress' = 1
  /\ Goto("health", "check")
  /\ UNCHANGED <<ctxDone, locals, files, kubelet, cluster, faults, events>>

HealthCheck ==
  /\ At("health", "check")
  /\ \/ /\ ~NeedsBootstrap(statusFile)
        /\ HealthReleases
     \/ /\ NeedsBootstrap(statusFile)
        /\ Goto("health", IF DriftEnabled THEN "get" ELSE "download")
        /\ UNCHANGED <<inProgress, target>>
  /\ UNCHANGED <<ctxDone, fetched, sample, uncordonAfter, files, kubelet, cluster,
                 faults, events>>

\* MUTANT of HealthOverride: a missing spec file overrides the version too.
HealthOverrideAlways ==
  /\ At("health", "override")
  /\ target' = [target EXCEPT !["health"] = specFile.version]
  /\ Goto("health", "download")
  /\ UNCHANGED <<ctxDone, inProgress, fetched, sample, uncordonAfter, files, kubelet,
                 cluster, faults, events>>

\* Whatever its age, a version in the spec file replaces the configured one.
HealthOverride ==
  /\ At("health", "override")
  /\ target' = [target EXCEPT !["health"] =
                  IF specFile.version = Unknown THEN @ ELSE specFile.version]
  /\ Goto("health", "download")
  /\ UNCHANGED <<ctxDone, inProgress, fetched, sample, uncordonAfter, files, kubelet,
                 cluster, faults, events>>

\* MUTANT of HealthBootFailed: the guard is not released on the error path.
HealthBootFailedHolding ==
  /\ At("health", "bootFailed")
  /\ statusFile' = NoSnapshot
  /\ target' = [target EXCEPT !["health"] = ConfigVersion]
  /\ Goto("health", "idle")
  /\ UNCHANGED <<ctxDone, inProgress, fetched, sample, uncordonAfter, specFile, kubelet,
                 cluster, faults, events>>

HealthBootFailed ==
  /\ At("health", "bootFailed")
  /\ statusFile' = NoSnapshot
  /\ HealthReleases
  /\ UNCHANGED <<ctxDone, fetched, sample, uncordonAfter, specFile, kubelet, cluster,
                 faults, events>>

-----------------------------------------------------------------------------
(* The drift loop: after each successful spec collection it compares spec  *)
(* and status, then upgrades the kubelet under the guard.                  *)

DriftTick ==
  /\ DriftEnabled /\ LoopsRun
  /\ At("drift", "idle")
  /\ Goto("drift", "get")
  /\ UNCHANGED <<ctxDone, inProgress, locals, files, kubelet, cluster, faults, events>>

\* isManagedClusterSpecStale: a spec that was not collected, or too long ago.
SpecUsable == specFile.version # Unknown /\ specFile.fresh

\* No usable spec: the pass is over.
DriftLoadSpec ==
  /\ At("drift", "loadSpec")
  /\ IF SpecUsable
     THEN /\ target' = [target EXCEPT !["drift"] = specFile.version]
          /\ Goto("drift", "detect")
     ELSE DriftReturns /\ UNCHANGED target
  /\ UNCHANGED <<ctxDone, inProgress, fetched, sample, uncordonAfter, files, kubelet,
                 cluster, faults, events>>

\* The pass ends when there is no status, no time left, or no drift.
DriftDetect ==
  /\ At("drift", "detect")
  /\ IF /\ statusFile.present
        /\ ~ctxDone
        /\ Drifted(statusFile.version, target["drift"])
     THEN Goto("drift", "acquire") /\ UNCHANGED target
     ELSE DriftReturns /\ target' = [target EXCEPT !["drift"] = ConfigVersion]
  /\ UNCHANGED <<ctxDone, inProgress, fetched, sample, uncordonAfter, files, kubelet,
                 cluster, faults, events>>

DriftAcquire ==
  /\ At("drift", "acquire")
  /\ GuardFree
  /\ inProgress' = 1
  /\ Goto("drift", "isCordoned")
  /\ UNCHANGED <<ctxDone, locals, files, kubelet, cluster, faults, events>>

\* The compare-and-swap failed: another bootstrap is in progress.
DriftSkip ==
  /\ At("drift", "acquire")
  /\ ~GuardFree
  /\ DriftReturns
  /\ target' = [target EXCEPT !["drift"] = ConfigVersion]
  /\ UNCHANGED <<ctxDone, inProgress, fetched, sample, uncordonAfter, files, kubelet,
                 cluster, faults, events>>

-----------------------------------------------------------------------------
(* cordonAndDrainExecutor: only a node found schedulable is cordoned, and  *)
(* only then uncordoned by this run.                                       *)

\* The call of the upgrade at `from` does `effect` and leads to `next`; one that
\* fails may have done `effect` or `nothing`, and leads to `failed`.
UpgradeStep(from, effect, nothing, next, failed) ==
  /\ At("drift", from)
  /\ \/ Succeeds /\ effect /\ Goto("drift", next)
     \/ Fails /\ (effect \/ nothing) /\ Goto("drift", failed)
  /\ UNCHANGED <<ctxDone, inProgress, target, fetched, sample, files, events>>

\* MUTANT of UncordonAfter: whoever cordoned the node.
UncordonAfterAlways == TRUE

UncordonAfter == cordonedBy = "nobody"

DriftIsCordoned ==
  /\ At("drift", "isCordoned")
  /\ \/ /\ Succeeds
        /\ uncordonAfter' = UncordonAfter
        /\ Goto("drift", IF cordonedBy = "nobody" THEN "cordon" ELSE "drain")
     \/ /\ Fails
        /\ Goto("drift", "finishFailed")
        /\ UNCHANGED uncordonAfter
  /\ UNCHANGED <<ctxDone, inProgress, target, fetched, sample, files, kubelet, cluster,
                 events>>

\* Cordoning a node that became unschedulable in the meantime changes nothing.
Cordons == cordonedBy' = IF cordonedBy = "nobody" THEN "agent" ELSE cordonedBy
Uncordons == cordonedBy' = "nobody"

DriftCordon ==
  /\ UpgradeStep("cordon", Cordons, UNCHANGED cordonedBy, "drain", "finishFailed")
  /\ UNCHANGED <<uncordonAfter, kubelet, desired>>

DriftDrain ==
  /\ UpgradeStep("drain", TRUE, TRUE, "stop",
                 IF uncordonAfter THEN "undoCordon" ELSE "finishFailed")
  /\ UNCHANGED <<uncordonAfter, kubelet, cluster>>

DriftUndoCordon ==
  /\ UpgradeStep("undoCordon", Uncordons, UNCHANGED cordonedBy,
                 "finishFailed", "finishFailed")
  /\ UNCHANGED <<uncordonAfter, kubelet, desired>>

-----------------------------------------------------------------------------
(* The rest of the upgrade: stop the kubelet, swap its binary, start it,   *)
(* uncordon; then the status file is told how it ended.                    *)

\* systemctl stop, if the unit is active. One that waits to be restarted is
\* "activating": it is not stopped.
StopsKubelet == process' = Unknown

DriftStop ==
  /\ UpgradeStep("stop", StopsKubelet, UNCHANGED process,
                 "upDownload", "finishBroken")
  /\ UNCHANGED <<uncordonAfter, binary, restarting, cluster>>

\* MUTANT of DriftDownload: the run goes on with the binary it has.
DriftDownloadBestEffort ==
  /\ UpgradeStep("upDownload", binary' = target["drift"], UNCHANGED binary,
                 "upStart", "upStart")
  /\ UNCHANGED <<uncordonAfter, process, restarting, cluster>>

DriftDownload ==
  /\ UpgradeStep("upDownload", binary' = target["drift"], UNCHANGED binary,
                 "upStart", "finishBroken")
  /\ UNCHANGED <<uncordonAfter, process, restarting, cluster>>

DriftStart ==
  /\ UpgradeStep("upStart", StartsKubelet, UNCHANGED <<process, restarting>>,
                 "uncordon", "finishBroken")
  /\ UNCHANGED <<uncordonAfter, binary, cluster>>

DriftUncordon ==
  /\ uncordonAfter
  /\ UpgradeStep("uncordon", Uncordons, UNCHANGED cordonedBy,
                 "finishOk", "retryUncordon")
  /\ UNCHANGED <<uncordonAfter, kubelet, desired>>

\* The node was unschedulable when the run began: it stays so.
DriftLeaveCordoned ==
  /\ At("drift", "uncordon")
  /\ ~uncordonAfter
  /\ Goto("drift", "finishOk")
  /\ UNCHANGED <<ctxDone, inProgress, locals, files, kubelet, cluster, faults, events>>

\* One more try; the run has failed whatever comes of it.
DriftRetryUncordon ==
  /\ UpgradeStep("retryUncordon", Uncordons, UNCHANGED cordonedBy,
                 "finishFailed", "finishFailed")
  /\ UNCHANGED <<uncordonAfter, kubelet, desired>>

DriftFinish ==
  /\ \/ /\ At("drift", "finishOk")
        /\ statusFile' = MarkKubeletHealthyAfterUpgrade(statusFile, target["drift"])
     \/ /\ At("drift", "finishBroken")
        /\ statusFile' = MarkKubeletUnhealthy(statusFile)
     \/ /\ At("drift", "finishFailed")
        /\ UNCHANGED statusFile
  /\ inProgress' = 0
  /\ target' = [target EXCEPT !["drift"] = ConfigVersion]
  /\ uncordonAfter' = FALSE
  /\ DriftReturns
  /\ UNCHANGED <<ctxDone, fetched, sample, specFile, kubelet, cluster, faults, events>>

-----------------------------------------------------------------------------
(* What happens to the agent and around it.                                *)

Event == events < MaxEvents /\ events' = events + 1

\* SIGINT or SIGTERM.
Terminate ==
  /\ ~At("main", "down") /\ ~ctxDone
  /\ Event
  /\ ctxDone' = TRUE
  /\ UNCHANGED <<pc, inProgress, locals, files, kubelet, cluster, faults>>

\* The agent is killed, alone or with the whole node.
Crash ==
  /\ ~At("main", "down")
  /\ Event
  /\ ProcessEnds
  /\ \/ UNCHANGED <<process, restarting>>
     \/ process' = Unknown /\ restarting' = FALSE
  /\ UNCHANGED <<files, binary, cluster, faults>>

\* The kubelet dies: for good, or to be restarted by systemd.
KubeletDies ==
  /\ process # Unknown
  /\ Event
  /\ process' = Unknown
  /\ restarting' \in BOOLEAN
  /\ UNCHANGED <<pc, ctxDone, inProgress, locals, files, binary, cluster, faults>>

\* systemd restarts a kubelet that died: it runs what is on disk now.
KubeletRestarts ==
  /\ restarting
  /\ process' = binary
  /\ restarting' = FALSE
  /\ UNCHANGED <<pc, ctxDone, inProgress, locals, files, binary, cluster, faults, events>>

\* Five minutes pass without a new status, or too many without a new spec.
SnapshotAges ==
  /\ Event
  /\ \/ /\ statusFile.present /\ statusFile.fresh
        /\ statusFile' = [statusFile EXCEPT !.fresh = FALSE]
        /\ UNCHANGED specFile
     \/ /\ specFile.fresh
        /\ specFile' = [specFile EXCEPT !.fresh = FALSE]
        /\ UNCHANGED statusFile
  /\ UNCHANGED <<pc, ctxDone, inProgress, locals, kubelet, cluster, faults>>

\* kubectl cordon and kubectl uncordon.
OperatorCordons ==
  /\ Event
  /\ cordonedBy' = IF cordonedBy = "nobody" THEN "operator" ELSE "nobody"
  /\ UNCHANGED <<pc, ctxDone, inProgress, locals, files, kubelet, desired, faults>>

\* A managed cluster only moves to newer versions.
ClusterUpgrades ==
  /\ desired' \in {v \in Versions : v > desired}
  /\ UNCHANGED <<pc, ctxDone, inProgress, locals, files, kubelet, cordonedBy, faults, events>>

-----------------------------------------------------------------------------
Main == AgentStart \/ Bootstrap("main") \/ Cleanup \/ DaemonReturns

Status == StatusTick \/ StatusVersion \/ StatusServices \/ StatusWrite

Health ==
  \/ HealthTick \/ HealthCheck
  \/ SpecGet("health") \/ SpecPut("health") \/ HealthOverride
  \/ Bootstrap("health") \/ HealthBootFailed

Upgrade ==
  \/ DriftIsCordoned \/ DriftCordon \/ DriftDrain \/ DriftUndoCordon
  \/ DriftStop \/ DriftDownload \/ DriftStart
  \/ DriftUncordon \/ DriftLeaveCordoned \/ DriftRetryUncordon \/ DriftFinish

Drift ==
  \/ DriftTick
  \/ SpecGet("drift") \/ SpecPut("drift") \/ DriftLoadSpec \/ DriftDetect
  \/ DriftAcquire \/ DriftSkip
  \/ Upgrade

Environment ==
  \/ Terminate \/ Crash \/ KubeletDies \/ KubeletRestarts
  \/ SnapshotAges \/ OperatorCordons \/ ClusterUpgrades

Next ==
  \/ Main \/ Status \/ Health \/ Drift
  \/ \E p \in ActiveLoops : LoopExit(p)
  \/ Environment

Spec == Init /\ [][Next]_vars

(***************************************************************************)
(* Go runs every goroutine that can run, tickers keep ticking, calls have  *)
(* time-outs, and systemd restarts the agent: weak fairness of each actor. *)
(* select picks at random between a tick and the cancelled context, so a   *)
(* loop cannot take the tick for ever: strong fairness of its exit.        *)
(* Nothing is assumed of the environment.                                  *)
(***************************************************************************)
Fairness ==
  /\ WF_vars(Main) /\ WF_vars(Status) /\ WF_vars(Health) /\ WF_vars(Drift)
  /\ \A p \in ActiveLoops : SF_vars(LoopExit(p))

(***************************************************************************)
(* Of timing: a drift pass reaches its compare-and-swap after a GET of the *)
(* cluster, while the health check, which ticks at the same time, holds    *)
(* the guard of a healthy node for one file read. So a pass that keeps     *)
(* coming back to a guard that keeps being free finds it free some time.   *)
(***************************************************************************)
GuardSometimesWon ==
  []<>At("drift", "acquire") /\ []<>GuardFree => []<><<DriftAcquire>>_vars

FairSpec == Spec /\ Fairness

TimedSpec == FairSpec /\ GuardSometimesWon

-----------------------------------------------------------------------------
(* Safety.                                                                 *)

\* The word bootstrapInProgress is 1 exactly while the health check or a drift
\* upgrade works on the node, and never both.
OneWorker ==
  /\ inProgress = 1 <=> (HealthBusy \/ Upgrading)
  /\ ~(HealthBusy /\ Upgrading)
  /\ pc["main"] # "wait" => ~HealthBusy

\* A drift pass is a goroutine of the daemon or main's own first pass.
PassNeedsMain ==
  pc["drift"] \notin {"idle", "exited"} => pc["main"] \in {"wait", "drift0"}

\* The compare-and-swap on bootstrapInProgress and its deferred release
\* (commands.go:299-304, remediation.go:114-120) serialise every writer of the
\* kubelet, the loops with each other and with the bootstrap of main, which
\* does not use the guard.
GuardExclusive == OneWorker /\ PassNeedsMain

\* While an upgrade has the kubelet stopped to swap its binary, nobody starts
\* one but its own start step, and systemd if the kubelet had died before it
\* was stopped: no bootstrap slips in, whatever failed or was restarted.
SwapUndisturbed ==
  [][pc["drift"] \in SwapPCs /\ process = Unknown /\ process' # Unknown
       => restarting \/ DriftStart]_vars

\* From its start step on, until its result is recorded, an upgrade has the
\* version it set out to install on disk: no other download slips in between.
UpgradeInstallsTarget ==
  pc["drift"] \in {"upStart"} \union UpgradedPCs => binary = target["drift"]

-----------------------------------------------------------------------------
(* Liveness, under FairSpec.                                               *)

\* Whatever fails, whoever took the guard gives it back: it is free again and
\* again.
GuardReleased == []<>(inProgress = 0)

\* A cancelled context ends the process: every step fails fast and wg.Wait
\* returns.
ShutdownCompletes == ctxDone ~> At("main", "down")

\* A kubelet that does not run is started again, by an upgrade or by the
\* health check that finds it down in the status file: it never stays down.
KubeletRecovers == []<>(process # Unknown)

\* Under TimedSpec: once failures and events are over, the kubelet on disk
\* reaches the minor version of the cluster and stays there.
UpgradeArrives ==
  DriftEnabled => <>[](binary # Unknown /\ Minor[binary] >= Minor[desired])

-----------------------------------------------------------------------------
(* What comments of the code say and the code does not do.                 *)

\* "Reconfigure + start kubelet to match the upgraded bits" (remediation.go:249):
\* an upgrade that reports success does not leave another version running.
UpgradeRunsTarget == pc["drift"] = "finishOk" => process \in {Unknown, target["drift"]}

\* "Never downgrade via drift remediation" (kubernetes_version.go:60).
DriftNeverDowngrades ==
  pc["drift"] = "upDownload" /\ binary # Unknown => Minor[binary] <= Minor[target["drift"]]

\* A bootstrap after a reboot does not fall back to the older version of the
\* static configuration (commands.go:380-382).
BootNeverFallsBack ==
  pc["main"] = "download" /\ binary # Unknown => Minor[binary] <= Minor[target["main"]]

\* After a successful upgrade the node is not left unschedulable by the agent
\* (remediation.go:257-258).
SchedulableAfterUpgrade == pc["drift"] = "finishOk" => cordonedBy # "agent"
=============================================================================
