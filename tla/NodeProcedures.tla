---------------------------- MODULE NodeProcedures ----------------------------
(***************************************************************************)
(* The procedures that set a host up as a node and take it back, each a    *)
(* sequence of steps: `agent` (bootstrap, which the daemon may run again), *)
(* `unbootstrap`, `apply` (action files for kubeadm and for the machine    *)
(* resource) and the upgrade's calls to the API server. A host goes one of *)
(* these ways. The processes may be killed and the host rebooted at any    *)
(* time; a procedure always starts again from its first step.              *)
(***************************************************************************)
EXTENDS AgentConfig, Downloads, HostSetup, ArcMachine, KubeadmNode, AKSMachine, NodeCordon

CONSTANTS
  Ways,    \* the ways of the instance
  Setups,  \* which configuration file meets which host
  Spared   \* bound: how many calls of MaxFaults do not fail on the agent's long way

AllWays == {"agent", "arc", "kubeadm", "machine", "upgrade"}

ASSUME WaysAssumption == Ways \subseteq AllWays
ASSUME SparedAssumption == Spared \in 0..MaxFaults
ASSUME SetupsAssumption == Setups \subseteq ConfigFiles \X Hosts /\ Setups # {}

VARIABLES
  way,        \* what is done with the host
  file,       \* config.json
  procedure,  \* the procedure that runs
  steps,      \* the names of its steps
  position,   \* which of them it is at
  failing,    \* has one of them failed?
  daemon,     \* the agent's process has become the daemon
  joined,     \* history: bootstrapped, and not undone since
  known,      \* is the API server known to the configuration singleton, and to
              \* the configuration the steps were given?
  node        \* the kubelet and what belongs to it, see NodeTypeOK

runVars == <<procedure, steps, position, failing, daemon, joined>>

vars == <<pc, faults, way, file, runVars, known, node, downloadVars, hostVars, arcVars,
          kubeadm, aks, cordonVars>>

\* MUTANT of BootstrapSteps: the server is asked for after the downloads, and
\* the kubelet started before.
BootstrapStepsEarly == <<
  "install-arc", "configure-os", "disable-docker", "download-cni-binaries",
  "download-cri-binaries", "download-kube-binaries", "download-npd", "configure-cni",
  "start-containerd", "configure-iptables", "start-kubelet", "enrich-cluster-config",
  "start-npd" >>

BootstrapSteps == <<
  "install-arc", "configure-os", "disable-docker", "enrich-cluster-config",
  "download-cni-binaries", "download-cri-binaries", "download-kube-binaries",
  "download-npd", "configure-cni", "start-containerd", "configure-iptables",
  "start-kubelet", "start-npd" >>

UnbootstrapSteps == <<"reset-kubelet", "reset-containerd", "ArcUnbootstrap">>

\* What `apply` is given on each way. The last file names an action nobody knows.
ActionFiles(w) ==
  CASE w = "arc" -> {<<"InstallArc">>}
    [] w = "kubeadm" -> {<<"KubeadmNodeJoin">>, <<"KubeadmNodeReset">>,
                         <<"KubeadmNodeReset", "KubeadmNodeJoin">>}
    [] w = "machine" -> {<<"EnsureMachine">>, <<"EnsureMachine", "Unknown">>}
    [] OTHER -> {}

Procedures == {"bootstrap", "rebootstrap", "unbootstrap", "apply", "upgrade"}

Mounts == {"volume", "nested"}  \* under the kubelet's directory; one in the other

NodePCs == {"enrich", "scStart", "skStart", "npdStart",
            "rkMask", "rkResolve", "rkUnmount", "rkClean", "rcMask", "rcClean"}

NodeTypeOK ==
  node \in [kubelet : {"no", "yes", "restarting"},
            masked : BOOLEAN,       \* the kubelet's unit file
            credential : {"none", "arc", "sp", "mi", "token"},  \* of its last start
            containerd : BOOLEAN, criConfig : BOOLEAN, npd : BOOLEAN,
            root : BOOLEAN, content : BOOLEAN,  \* the kubelet's directory; has it files?
            mounts : SUBSET Mounts,
            slipped : BOOLEAN]      \* history: masked between two runs of the kubelet

ProceduresTypeOK ==
  /\ pc \in {"idle", "next"} \union Ends \union NodePCs \union DownloadPCs \union HostPCs
            \union ArcPCs \union KubeadmPCs \union AKSPCs \union CordonPCs
  /\ faults \in 0..MaxFaults
  /\ way \in Ways /\ file \in ConfigFiles
  /\ procedure \in Procedures \union {"none"}
  /\ position \in 0..Len(steps) /\ (position = 0 <=> procedure = "none")
  /\ (pc = "idle" <=> procedure = "none")
  /\ failing \in BOOLEAN /\ daemon \in BOOLEAN /\ joined \in BOOLEAN
  /\ known \in [singleton : BOOLEAN, step : BOOLEAN]
  /\ DownloadsTypeOK /\ HostTypeOK /\ ArcTypeOK /\ KubeadmTypeOK /\ AKSTypeOK
  /\ CordonTypeOK /\ NodeTypeOK

-----------------------------------------------------------------------------
(* Who changes what.                                                       *)

Still == UNCHANGED <<way, file, runVars>>
OnlyNode == Still /\ UNCHANGED <<downloadVars, hostVars, arcVars, kubeadm, aks, cordonVars>>
OnlyDownloads == Still /\ UNCHANGED <<known, node, hostVars, arcVars, kubeadm, aks, cordonVars>>
OnlyHost == Still /\ UNCHANGED <<known, node, downloadVars, arcVars, kubeadm, aks, cordonVars>>
OnlyArc == Still /\ UNCHANGED <<known, node, downloadVars, hostVars, kubeadm, aks, cordonVars>>
OnlyKubeadm == Still /\ UNCHANGED <<known, node, downloadVars, hostVars, arcVars, aks, cordonVars>>
OnlyAKS == Still /\ UNCHANGED <<known, node, downloadVars, hostVars, arcVars, kubeadm, cordonVars>>
OnlyCordon == Still /\ UNCHANGED <<known, node, downloadVars, hostVars, arcVars, kubeadm, aks>>
OnlyRun == /\ UNCHANGED <<way, file, faults, node, downloadVars, hostVars, arcVars, kubeadm,
                          aks, cordonVars>>

-----------------------------------------------------------------------------
(* The steps about the kubelet, containerd and the node problem detector,  *)
(* of which `NodeServices` has the details, as far as the order of the     *)
(* procedures depends on them.                                             *)

NodeCall(from, after, next) ==
  Call(from, node' = after, UNCHANGED node, next) /\ UNCHANGED known

\* Without an identity in Azure, or knowing the server, there is nothing to ask.
BeginEnrich ==
  IF known.singleton \/ IsBootstrapTokenConfigured(file) THEN Goto("ok") ELSE Goto("enrich")

\* The answer is written to the singleton. Only in the process's first bootstrap
\* is that the configuration of the steps; the daemon gives them a copy.
Enrich ==
  /\ pc = "enrich" /\ UNCHANGED node
  /\ \/ /\ Succeeds /\ Goto("ok")
        /\ known' = [singleton |-> TRUE, step |-> known.step \/ procedure = "bootstrap"]
     \/ Fails /\ Goto("failed") /\ UNCHANGED known

StartContainerd ==
  NodeCall("scStart", [node EXCEPT !.containerd = TRUE, !.criConfig = TRUE], "ok")

\* The action cannot be made for a configuration without a credential.
BeginStartKubelet == Goto(IF KubeletCredential(file) = "none" THEN "failed" ELSE "skStart")

\* systemPreflightCheck comes before anything is written.
StartKubelet ==
  IF RequiredBinaries \subseteq host.tools
  THEN NodeCall("skStart", [node EXCEPT !.kubelet = "yes", !.masked = FALSE, !.root = TRUE,
                                        !.content = TRUE,
                                        !.credential = KubeletCredential(file)], "ok")
  ELSE Decide("skStart", "failed") /\ UNCHANGED <<known, node>>

StartNPD == NodeCall("npdStart", [node EXCEPT !.npd = TRUE], "ok")

\* EnsureUnitMasked does not stop a unit that waits to be restarted.
ResetKubeletMask ==
  NodeCall("rkMask",
           [node EXCEPT !.masked = node.root, !.kubelet = IF @ = "yes" THEN "no" ELSE @,
                        !.slipped = @ \/ node.kubelet = "restarting"], "rkResolve")

\* EvalSymlinks of a directory that is not there is an error.
ResetKubeletResolve ==
  Decide("rkResolve", IF node.root THEN "rkUnmount" ELSE "failed") /\ UNCHANGED <<node, known>>

\* MUTANT of AfterUnmount: what could not be unmounted is only logged.
AfterUnmountAnyway(left) == "rkClean"

AfterUnmount(left) == IF left = {} THEN "rkClean" ELSE "failed"

\* unmountBelow goes through /proc/mounts in its order, in which a mount comes
\* before those inside it and is busy because of them. The others are unmounted.
LeftMounted == IF node.mounts = Mounts THEN {"volume"} ELSE {}

ResetKubeletUnmount ==
  /\ pc = "rkUnmount" /\ UNCHANGED known
  /\ \/ /\ Succeeds /\ node' = [node EXCEPT !.mounts = LeftMounted]
        /\ Goto(AfterUnmount(LeftMounted))
     \/ \E left \in SUBSET node.mounts :
          /\ LeftMounted \subseteq left /\ left # {}
          /\ Fails /\ node' = [node EXCEPT !.mounts = left] /\ Goto(AfterUnmount(left))

ResetContainerdMask == NodeCall("rcMask", [node EXCEPT !.containerd = FALSE], "rcClean")
ResetContainerdClean == NodeCall("rcClean", [node EXCEPT !.criConfig = FALSE], "ok")

NodeStep ==
  \/ Enrich \/ StartContainerd \/ StartKubelet \/ StartNPD
  \/ ResetKubeletMask \/ ResetKubeletResolve \/ ResetKubeletUnmount
  \/ ResetContainerdMask \/ ResetContainerdClean

\* CleanKubernetesDirs, with the CNI configuration among the directories.
ResetKubeletClean ==
  /\ LET Cleaned == /\ node' = [node EXCEPT !.content = FALSE]
                    /\ host' = [host EXCEPT !.cni = FALSE]
     IN  Call("rkClean", Cleaned, UNCHANGED <<node, host>>, "ok")
  /\ Still
  /\ UNCHANGED <<known, docker, unit, slipped, downloadVars, arcVars, kubeadm, aks, cordonVars>>

-----------------------------------------------------------------------------
(* ExecuteSteps and apply.                                                 *)

\* executeStep: which program the step is, by its name.
At(step) == pc = "next" /\ steps[position] = step /\ UNCHANGED faults

BeginNodeStep ==
  /\ \/ At("enrich-cluster-config") /\ BeginEnrich
     \/ At("start-containerd") /\ Goto("scStart")
     \/ At("start-kubelet") /\ BeginStartKubelet
     \/ At("start-npd") /\ Goto("npdStart")
     \/ At("reset-kubelet") /\ Goto("rkMask")
     \/ At("reset-containerd") /\ Goto("rcMask")
  /\ OnlyNode /\ UNCHANGED <<known, node>>

BeginDownloadStep ==
  /\ \E step \in {"download-cni-binaries", "download-cri-binaries", "download-kube-binaries",
                  "download-npd"} : At(step) /\ BeginDownload(FirstOf(step))
  /\ OnlyDownloads

BeginHostStep ==
  /\ \/ At("configure-os") /\ Goto("osPackages") /\ UNCHANGED hostVars
     \/ At("disable-docker") /\ BeginDisableDocker /\ UNCHANGED <<host, docker, slipped>>
     \/ At("configure-cni") /\ Goto("cniConf") /\ UNCHANGED hostVars
     \/ At("configure-iptables") /\ Goto("ipRules") /\ UNCHANGED hostVars
  /\ OnlyHost

BeginArcStep ==
  /\ \/ (At("install-arc") \/ At("InstallArc")) /\ BeginInstallArc
     \/ At("ArcUnbootstrap") /\ BeginUninstallArc
  /\ OnlyArc

BeginKubeadmStep ==
  /\ \/ At("KubeadmNodeJoin") /\ BeginJoin
     \/ At("KubeadmNodeReset") /\ BeginReset
  /\ OnlyKubeadm

BeginAKSStep == At("EnsureMachine") /\ BeginEnsureMachine /\ OnlyAKS
BeginCordonStep == At("upgrade") /\ BeginMaintenance /\ OnlyCordon

ExecuteStep ==
  \/ BeginNodeStep \/ BeginDownloadStep \/ BeginHostStep \/ BeginArcStep
  \/ BeginKubeadmStep \/ BeginAKSStep \/ BeginCordonStep

Finish(success) ==
  /\ procedure' = "none" /\ steps' = <<>> /\ position' = 0 /\ failing' = FALSE
  /\ Goto("idle")
  /\ daemon' = (daemon \/ (procedure = "bootstrap" /\ success))
  /\ joined' = (joined \/ (procedure \in {"bootstrap", "rebootstrap"} /\ success))

NextStep ==
  /\ position' = position + 1 /\ Goto("next")
  /\ UNCHANGED <<procedure, steps, daemon, joined>>

\* MUTANT of MoreSteps: off by one.
MoreStepsThanThereAre == position <= Len(steps)

MoreSteps == position < Len(steps)

StepSucceeds ==
  /\ pc = "ok"
  /\ IF MoreSteps THEN NextStep /\ UNCHANGED failing ELSE Finish(~failing)
  /\ OnlyRun /\ UNCHANGED known

\* MUTANT of FailsFast: every procedure stops at its first failure.
FailsFastAlways == TRUE

FailsFast == procedure # "unbootstrap"

StepFails ==
  /\ pc = "failed"
  /\ IF MoreSteps /\ ~FailsFast THEN NextStep /\ failing' = TRUE ELSE Finish(FALSE)
  /\ OnlyRun /\ UNCHANGED known

-----------------------------------------------------------------------------
(* The commands.                                                           *)

Run(name, sequence) ==
  /\ procedure = "none"
  /\ procedure' = name /\ steps' = sequence /\ position' = 1 /\ failing' = FALSE
  /\ Goto("next")

\* LoadConfig sets the singleton from a file that is valid. The versions are those
\* of the file or, where it names none, defaults; a later file may name others.
\* (Bound: none that are older.)
LoadConfig ==
  /\ Valid(file)
  /\ known' = [singleton |-> KnowsServer(file), step |-> KnowsServer(file)]
  /\ \E r \in Releases : /\ \A p \in Packages : r >= wanted[p]
                        /\ wanted' = [p \in Packages |-> r]

\* runAgent. A file that is not valid ends the process before its first step.
StartAgent ==
  /\ way = "agent" /\ ~daemon /\ LoadConfig /\ Run("bootstrap", BootstrapSteps)
  /\ UNCHANGED <<way, file, faults, node, package, todo, installed, hostVars, arcVars,
                 kubeadm, aks, cordonVars, daemon, joined>>

\* The daemon finds its node broken and bootstraps with a copy of the singleton.
BootstrapAgain ==
  /\ daemon /\ Run("rebootstrap", BootstrapSteps)
  /\ known' = [known EXCEPT !.step = known.singleton]
  /\ OnlyRun /\ UNCHANGED <<daemon, joined>>

\* runUnbootstrap, after the daemon was stopped.
StartUnbootstrap ==
  /\ way \in {"agent", "arc"} /\ Valid(file) /\ Run("unbootstrap", UnbootstrapSteps)
  /\ daemon' = FALSE /\ joined' = FALSE
  /\ OnlyRun /\ UNCHANGED known

Registered == {"InstallArc", "KubeadmNodeJoin", "KubeadmNodeReset", "EnsureMachine"}

\* apply parses every action of the file before it applies the first: a file with
\* one it does not know is refused as a whole.
StartApply ==
  /\ \E actions \in ActionFiles(way) :
       /\ \A i \in 1..Len(actions) : actions[i] \in Registered
       /\ Run("apply", actions)
  /\ OnlyRun /\ UNCHANGED <<known, daemon, joined>>

StartUpgrade ==
  /\ way = "upgrade" /\ Run("upgrade", <<"upgrade">>)
  /\ OnlyRun /\ UNCHANGED <<known, daemon, joined>>

Commands == StartAgent \/ BootstrapAgain \/ StartUnbootstrap \/ StartApply \/ StartUpgrade

-----------------------------------------------------------------------------
(* Around the processes.                                                   *)

\* What is left of a run: none of its own state.
Abandoned ==
  /\ procedure' = "none" /\ steps' = <<>> /\ position' = 0 /\ failing' = FALSE
  /\ Goto("idle") /\ daemon' = FALSE /\ UNCHANGED <<way, file, joined, known, aks>>
  /\ DownloadsAbandoned /\ ArcAbandoned /\ CordonAbandoned

Killed ==
  /\ procedure # "none" /\ Fails /\ Abandoned
  /\ unit' = "none" /\ UNCHANGED <<host, docker, slipped, kubeadm, node>>

\* None of the agent's own units is enabled.
NodeReboots ==
  node' = [node EXCEPT !.kubelet = "no", !.containerd = FALSE, !.npd = FALSE, !.mounts = {}]

Reboot ==
  /\ IF procedure = "none" THEN Succeeds ELSE Fails
  /\ Abandoned /\ HostReboots /\ KubeadmReboots /\ NodeReboots

KubeletDies ==
  /\ node.kubelet = "yes" /\ node' = [node EXCEPT !.kubelet = "restarting"]

\* systemd may, or may not, have read that the unit is masked.
KubeletComesBack ==
  /\ node.kubelet = "restarting"
  /\ \/ node' = [node EXCEPT !.kubelet = "yes"]
     \/ node.masked /\ node' = [node EXCEPT !.kubelet = "no"]

\* Pods come and go: volumes are mounted, one inside another, and unmounted.
PodsMount ==
  /\ node.kubelet = "yes"
  /\ node' = [node EXCEPT !.content = TRUE,
                          !.mounts = IF "volume" \in @ THEN Mounts ELSE {"volume"}]

\* Bootstrap steps do not look at any of this: what happens during one might as
\* well happen after it.
NodeLives ==
  /\ procedure \in {"none", "unbootstrap"}
  /\ KubeletDies \/ KubeletComesBack \/ PodsMount
  /\ OnlyNode /\ UNCHANGED <<pc, faults, known>>

World ==
  \/ NodeLives
  \/ way = "agent" /\ DockerLives /\ OnlyHost
  \/ (IdentityAppears \/ ArcDisconnects) /\ OnlyArc
  \/ KubeletLives /\ OnlyKubeadm
  \/ ControlPlaneManages /\ OnlyAKS
  \/ way = "upgrade" /\ (CertificatesRotate \/ OperatorMarks) /\ OnlyCordon
  \/ Reboot

-----------------------------------------------------------------------------
(* Properties.                                                             *)

\* When the kubelet is about to be started everything it needs is there, be it
\* of this run or of one that was killed: no swap, the binaries its preflight looks
\* up, a CNI configuration, the server, containerd.
KubeletPrepared ==
  pc = "skStart" =>
    /\ ~host.swap /\ RequiredBinaries \subseteq host.tools
    /\ host.cni /\ known.step /\ node.containerd

\* The binaries are there and, as far as the version asked for shows it, are the
\* wanted ones, whatever earlier downloads left behind.
BinariesUsable == pc \in {"scStart", "skStart"} => \A p \in Packages : Usable(p)

\* A node joins under the one identity its file configures, and if that is one in
\* Azure the agent's own calls are made under it too.
SingleIdentity ==
  pc = "skStart" =>
    /\ Methods(file) = {KubeletCredential(file)}
    /\ KubeletCredential(file) \in {"sp", "mi"} =>
         UserCredential(file) = KubeletCredential(file)

\* A host that was bootstrapped does not swap again, reboots included.
SwapStaysOff == joined => ~host.swap

\* docker stays out of the way of a bootstrapped node, unless it was masked in
\* the pause before a restart.
DockerStaysOut == joined /\ ~slipped => DockerOut

\* reset-kubelet deletes nothing below a directory where a pod's volume is mounted,
\* unless the kubelet was masked in the pause before a restart and mounts again.
\* (kubeadm's own reset, which removes the same directories, is not meant.)
NothingDeletedInVolumes ==
  pc = "rkClean" /\ ~node.slipped => node.mounts = {}

\* Unbootstrap that ends, ends after its last step, whatever failed before.
UnbootstrapGoesOn ==
  [][procedure = "unbootstrap" /\ pc' = "idle" /\ faults' = faults
       => position = Len(steps)]_vars

\* The machine resource is not written over what the control plane made of it.
MachineKept == [][ControlPlaneKept]_vars

\* A kubeadm join that succeeds is a join that lasts.
JoinSurvivesReboot ==
  pc = "ok" /\ position > 0 /\ steps[position] = "KubeadmNodeJoin" => JoinLasts

\* An upgrade fails because something failed, not for a lack of rights that the
\* administrator's credentials make up for.
RightsSuffice == procedure = "upgrade" /\ pc = "failed" => hurt

\* A run takes back its cordon: it ends with the node cordoned by it only if a
\* request failed.
CordonTakenBack ==
  procedure = "upgrade" /\ pc \in Ends /\ uncordonAfter /\ ~hurt => cordonedBy # "agent"

-----------------------------------------------------------------------------
\* The setups a way starts from: of what it does not use there is one value.
SetupsOf(w) ==
  CASE w = "agent" -> {s \in Setups : ~IsARCEnabled(s[1])}
    [] w = "arc"   -> {s \in Setups : IsARCEnabled(s[1])}
    [] OTHER       -> {CHOOSE s \in Setups : TRUE}

Init ==
  /\ way \in Ways
  /\ \E setup \in SetupsOf(way) :
       file = setup[1] /\ HostInit(setup[2]) /\ ArcInit(IsARCEnabled(file))
  /\ way # "arc" => arc.rbac
  /\ pc = "idle" /\ faults = IF way = "agent" THEN Spared ELSE 0
  /\ procedure = "none" /\ steps = <<>> /\ position = 0 /\ failing = FALSE
  /\ daemon = FALSE /\ joined = FALSE
  /\ known = [singleton |-> FALSE, step |-> FALSE]
  /\ node = [kubelet |-> "no", masked |-> FALSE, credential |-> "none", containerd |-> FALSE,
             criConfig |-> FALSE, npd |-> FALSE, root |-> FALSE, content |-> FALSE,
             mounts |-> {}, slipped |-> FALSE]
  /\ DownloadsInit /\ KubeadmInit
  /\ AKSInit /\ (way # "machine" => aks.spec = "disabled" /\ aks.pool = "none")
  /\ CordonInit /\ (way # "upgrade" => rights = {})

ProcessStep ==
  \/ ExecuteStep \/ StepSucceeds \/ StepFails
  \/ NodeStep /\ OnlyNode
  \/ ResetKubeletClean
  \/ DownloadStep /\ OnlyDownloads
  \/ HostStep /\ OnlyHost
  \/ ArcStep /\ OnlyArc
  \/ KubeadmStep /\ OnlyKubeadm
  \/ AKSStep /\ OnlyAKS
  \/ CordonStep /\ OnlyCordon

Next == ProcessStep \/ Commands \/ Killed \/ World

Spec == Init /\ [][Next]_vars

\* The processes go on, and the agent is started again when it ended with an error
\* or the host came up: its unit says so.
FairSpec == Spec /\ WF_vars(ProcessStep) /\ WF_vars(StartAgent)

\* A host with a valid file becomes a node, whatever an earlier attempt, or an
\* earlier life as a node, left behind; unless it is being taken back.
HostJoins ==
  (way = "agent" /\ Valid(file)) ~> (joined \/ procedure = "unbootstrap")
===============================================================================
