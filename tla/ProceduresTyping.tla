--------------------------- MODULE ProceduresTyping ----------------------------
(* Whose turn a step of the procedures is, and the types of all variables. *)
EXTENDS NodeProceduresProofs, WellFoundedInduction

-----------------------------------------------------------------------------
(* A step is taken by one component, which stays at its own labels until   *)
(* its program ends; or it belongs to the run, or to the world.            *)

Turn(labels) ==
  /\ pc \in labels \union {"next"} /\ pc' \in labels \union Ends
  /\ Succeeds \/ Fails

NodeTurn == Turn(NodePCs) /\ OnlyNode /\ (NodeStep \/ BeginNodeStep)
DownloadTurn == Turn(DownloadPCs) /\ OnlyDownloads /\ (DownloadStep \/ BeginDownloadStep)
HostTurn == Turn(HostPCs) /\ OnlyHost /\ (HostStep \/ BeginHostStep)
ArcTurn == Turn(ArcPCs) /\ OnlyArc /\ (ArcStep \/ BeginArcStep)
KubeadmTurn == Turn(KubeadmPCs) /\ OnlyKubeadm /\ (KubeadmStep \/ BeginKubeadmStep)
AKSTurn == Turn(AKSPCs) /\ OnlyAKS /\ (AKSStep \/ BeginAKSStep)
CordonTurn == Turn(CordonPCs) /\ OnlyCordon /\ (CordonStep \/ BeginCordonStep)

\* Between two steps, at the beginning of a run or at its end.
RunTurn ==
  /\ pc \in {"ok", "failed", "idle"} /\ pc' \in {"next", "idle"}
  /\ UNCHANGED <<way, file, faults, node, package, todo, installed, hostVars, arcVars, kubeadm,
                 aks, cordonVars>>
  /\ StepSucceeds \/ StepFails \/ Commands

\* The world goes on; a reboot ends the run as well.
WorldTurn == World /\ ~Reboot /\ Still /\ UNCHANGED <<pc, faults, known, downloadVars>>

LEMMA StepsAt ==
  /\ NodeStep => pc \in NodePCs
  /\ DownloadStep => pc \in DownloadPCs
  /\ HostStep => pc \in HostPCs
  /\ ArcStep => pc \in ArcPCs
  /\ KubeadmStep => pc \in KubeadmPCs
  /\ AKSStep => pc \in AKSPCs
  /\ CordonStep => pc \in CordonPCs
<1> USE DEF Call, Attempt, Decide
<1>1. NodeStep => pc \in NodePCs
  BY DEF NodeStep, NodePCs, Enrich, StartContainerd, StartKubelet, StartNPD, ResetKubeletMask,
       ResetKubeletResolve, ResetKubeletUnmount, ResetContainerdMask, ResetContainerdClean,
       NodeCall
<1>2. DownloadStep => pc \in DownloadPCs
  BY DEF DownloadStep, DownloadPCs, Inspect, FetchFails, FetchEntry, FetchBinary, InstallFile
<1>3. ConfigureBaseOS => pc \in HostPCs
  BY DEF ConfigureBaseOS, HostPCs, OsPackages, OsSysctl, OsSysctlApply, OsSwapoff, OsBackup,
       OsFstab, OsResolv, OsResolvReload, OsResolvStart, HostCall, HostDecides
<1>4. HostStep => pc \in HostPCs
  BY <1>3 DEF HostStep, HostPCs, DisableDocker, DockerStatus, DockerStop, DockerDisable,
       DockerMask, DockerConfig, DockerCall, ConfigureCNI, ConfigureIPTables, IpRules, IpUnit,
       IpEnable, IpReload, IpStart, HostCall
<1>5. ArcStep => pc \in ArcPCs
  BY DEF ArcStep, ArcPCs, InstallArc, UninstallArc, ArcAuth, ArcInstall, ArcClients, ArcGet,
       ArcConnect, ArcWait, ArcValidate, ArcAssign, ArcPermissions, ArcVerify, Installs, UnAuth,
       UnClients, UnGet, UnRoles, UnRegister, UnDisconnect, UnAgent, Uninstalls
<1>6. KubeadmStep => pc \in KubeadmPCs
  BY DEF KubeadmStep, KubeadmPCs, Join, JoinUnit, JoinReload, JoinEnable, JoinRun, JoinPoll,
       Reset, ResetRun, ResetStatus, ResetStop, ResetDisable, ResetMask, ResetClean, KubeadmCall
<1>7. AKSStep => pc \in AKSPCs
  BY DEF AKSStep, AKSPCs, AKSSpec, AKSCredential, PoolGet, PoolPut, MachineGet, MachinePut
<1>8. CordonStep => pc \in CordonPCs
  BY DEF CordonStep, CordonPCs, GetClient, LastResort, GetNode, WriteNode, GetAdmin, Upgrade
<1> QED BY <1>1, <1>2, <1>4, <1>5, <1>6, <1>7, <1>8

LEMMA BeginsAt == ASSUME ExecuteStep
  PROVE \/ NodeTurn \/ DownloadTurn \/ HostTurn \/ ArcTurn \/ KubeadmTurn \/ AKSTurn \/ CordonTurn
<1> USE DEF At, Goto, Turn, Succeeds, Ends
<1>1. CASE BeginNodeStep
  BY <1>1 DEF BeginNodeStep, BeginEnrich, BeginStartKubelet, NodePCs, NodeTurn
<1>2. CASE BeginDownloadStep
  BY <1>2 DEF BeginDownloadStep, BeginDownload, DownloadPCs, DownloadTurn
<1>3. CASE BeginHostStep
  BY <1>3 DEF BeginHostStep, BeginDisableDocker, HostPCs, HostTurn
<1>4. CASE BeginArcStep
  BY <1>4 DEF BeginArcStep, BeginInstallArc, BeginUninstallArc, ArcPCs, ArcTurn
<1>5. CASE BeginKubeadmStep
  BY <1>5 DEF BeginKubeadmStep, BeginJoin, BeginReset, ResetOrder, KubeadmPCs, KubeadmTurn
<1>6. CASE BeginAKSStep
  BY <1>6 DEF BeginAKSStep, BeginEnsureMachine, AKSPCs, AKSTurn
<1>7. CASE BeginCordonStep
  BY <1>7 DEF BeginCordonStep, BeginMaintenance, CordonPCs, CordonTurn
<1> QED BY <1>1, <1>2, <1>3, <1>4, <1>5, <1>6, <1>7 DEF ExecuteStep

LEMMA RunsAt == ASSUME ProceduresTypeOK, StepSucceeds \/ StepFails \/ Commands PROVE RunTurn
<1>1. CASE StepSucceeds \/ StepFails
  BY <1>1 DEF StepSucceeds, StepFails, OnlyRun, NextStep, Finish, Goto, RunTurn, downloadVars
<1>2. CASE Commands
  <2>1. procedure = "none" /\ pc' = "next"
    BY <1>2 DEF Commands, StartAgent, BootstrapAgain, StartUnbootstrap, StartApply,
         StartUpgrade, Run, Goto
  <2>2. pc = "idle"
    BY <2>1 DEF ProceduresTypeOK
  <2> QED BY <1>2, <2>1, <2>2 DEF Commands, StartAgent, BootstrapAgain, StartUnbootstrap,
           StartApply, StartUpgrade, OnlyRun, RunTurn, downloadVars
<1> QED BY <1>1, <1>2

LEMMA WorldsAt == ASSUME World, ~Reboot PROVE WorldTurn
<1>1. Still /\ UNCHANGED <<pc, faults, known, downloadVars>>
  BY DEF World, NodeLives, DockerLives, DockerDies, DockerRestarts, SocketActivates,
       IdentityAppears, ArcDisconnects, KubeletLives, KubeletFails, KubeletRestarts,
       ControlPlaneManages, CertificatesRotate, OperatorMarks, OnlyNode, OnlyHost, OnlyArc,
       OnlyKubeadm, OnlyAKS, OnlyCordon
<1> QED BY <1>1 DEF WorldTurn

\* Who takes a step, for the proofs about each component.
LEMMA Turns == ASSUME ProceduresTypeOK, [Next]_vars
  PROVE \/ NodeTurn \/ DownloadTurn \/ HostTurn \/ ArcTurn \/ KubeadmTurn \/ AKSTurn \/ CordonTurn
        \/ ResetKubeletClean \/ RunTurn \/ Killed \/ Reboot \/ WorldTurn
        \/ UNCHANGED vars
<1>1. CASE ExecuteStep
  BY <1>1, BeginsAt
<1>2. CASE StepSucceeds \/ StepFails \/ Commands
  BY <1>2, RunsAt
<1>3. CASE NodeStep /\ OnlyNode
  BY <1>3, StepsAt, NodeStepStays DEF StaysIn, NodeTurn, Turn
<1>4. CASE \/ DownloadStep /\ OnlyDownloads
           \/ HostStep /\ OnlyHost
           \/ ArcStep /\ OnlyArc
  BY <1>4, StepsAt, DownloadStepStays, HostStepStays, ArcStepStays
     DEF StaysIn, DownloadTurn, HostTurn, ArcTurn, Turn
<1>5. CASE \/ KubeadmStep /\ OnlyKubeadm
           \/ AKSStep /\ OnlyAKS
           \/ CordonStep /\ OnlyCordon
  BY <1>5, StepsAt, KubeadmStepStays, AKSStepStays, CordonStepStays
     DEF StaysIn, KubeadmTurn, AKSTurn, CordonTurn, Turn
<1>6. CASE World
  BY <1>6, WorldsAt
<1> QED BY <1>1, <1>2, <1>3, <1>4, <1>5, <1>6 DEF Next, ProcessStep

-----------------------------------------------------------------------------
(* Types, component by component.                                          *)

RunTypeOK ==
  /\ pc \in {"idle", "next"} \union Ends \union NodePCs \union DownloadPCs \union HostPCs
            \union ArcPCs \union KubeadmPCs \union AKSPCs \union CordonPCs
  /\ faults \in 0..MaxFaults
  /\ way \in Ways /\ file \in ConfigFiles
  /\ procedure \in Procedures \union {"none"}
  /\ position \in 0..Len(steps) /\ (position = 0 <=> procedure = "none")
  /\ (pc = "idle" <=> procedure = "none")
  /\ failing \in BOOLEAN /\ daemon \in BOOLEAN /\ joined \in BOOLEAN

KnownTypeOK == known \in [singleton : BOOLEAN, step : BOOLEAN]

\* A step of one component neither begins nor ends a run.
LEMMA TurnRunTyped ==
  ASSUME ProceduresTypeOK, Still, NEW labels, Turn(labels),
         labels \subseteq NodePCs \union DownloadPCs \union HostPCs \union ArcPCs
                          \union KubeadmPCs \union AKSPCs \union CordonPCs
  PROVE  RunTypeOK'
<1>1. pc # "idle" /\ pc' # "idle"
  BY DEF Turn, Ends, NodePCs, DownloadPCs, HostPCs, ArcPCs, KubeadmPCs, AKSPCs, CordonPCs
<1>2. pc' \in Ends \union NodePCs \union DownloadPCs \union HostPCs \union ArcPCs
              \union KubeadmPCs \union AKSPCs \union CordonPCs
  BY DEF Turn
<1>3. (faults \in 0..MaxFaults)'
  BY MaxFaultsAssumption DEF ProceduresTypeOK, Turn, Succeeds, Fails
<1> QED BY <1>1, <1>2, <1>3 DEF ProceduresTypeOK, RunTypeOK, Still, runVars

LEMMA RunTyped == ASSUME IInv, ProceduresTypeOK, [Next]_vars PROVE RunTypeOK'
<1>0. RunTypeOK
  BY DEF ProceduresTypeOK, RunTypeOK
<1>1. CASE \/ NodeTurn \/ DownloadTurn \/ HostTurn \/ ArcTurn \/ KubeadmTurn \/ AKSTurn \/ CordonTurn
  BY <1>1, TurnRunTyped DEF NodeTurn, DownloadTurn, HostTurn, ArcTurn, KubeadmTurn, AKSTurn,
       CordonTurn, OnlyNode, OnlyDownloads, OnlyHost, OnlyArc, OnlyKubeadm, OnlyAKS, OnlyCordon
<1>2. CASE ResetKubeletClean
  <2>1. Still /\ Turn({"rkClean"})
    BY <1>2 DEF ResetKubeletClean, Call, Attempt, Goto, Turn, Ends
  <2> QED BY <2>1, TurnRunTyped DEF NodePCs
<1>3. CASE RunTurn
  <2>1. UNCHANGED <<faults, way, file>>
    BY <1>3 DEF RunTurn
  <2>2. CASE (StepSucceeds \/ StepFails) /\ NextStep
    <3>1. MoreSteps
      BY <2>2 DEF StepSucceeds, StepFails, NextStep, Finish, Goto
    <3>2. position + 1 \in 1..Len(steps) /\ position # 0
      <4>1. Len(steps) \in Nat /\ position \in 1..Len(steps)
        BY <1>3, <2>2 DEF IInv, RunInv, StepSucceeds, StepFails
      <4> QED BY <3>1, <4>1 DEF MoreSteps
    <3>3. failing' \in BOOLEAN
      BY <2>2 DEF StepSucceeds, StepFails, ProceduresTypeOK, NextStep, Finish, Goto
    <3>4. procedure # "none"
      BY <3>2 DEF ProceduresTypeOK
    <3>5. pc' = "next" /\ position' = position + 1 /\ UNCHANGED <<procedure, steps, daemon, joined>>
      BY <2>2 DEF NextStep, Goto
    <3> QED BY <2>1, <3>2, <3>3, <3>4, <3>5 DEF ProceduresTypeOK, RunTypeOK
  <2>3. CASE (StepSucceeds \/ StepFails) /\ ~NextStep
    <3>1. /\ procedure' = "none" /\ steps' = <<>> /\ position' = 0 /\ failing' = FALSE
          /\ pc' = "idle" /\ daemon' \in BOOLEAN /\ joined' \in BOOLEAN
      BY <2>3 DEF StepSucceeds, StepFails, Finish, Goto
    <3>2. 0 \in 0..Len(steps')
      BY <3>1
    <3> QED BY <1>0, <2>1, <3>1, <3>2 DEF RunTypeOK
  <2>4. CASE Commands
    <3>1. /\ procedure' \in Procedures /\ position' = 1 /\ failing' = FALSE /\ pc' = "next"
          /\ daemon' \in BOOLEAN /\ joined' \in BOOLEAN
      BY <2>4 DEF ProceduresTypeOK, Commands, StartAgent, BootstrapAgain, StartUnbootstrap,
           StartApply, StartUpgrade, Run, Goto, Procedures
    <3>2. 1 \in 0..Len(steps')
      <4>1. IInv'
        BY Invariance
      <4> QED BY <3>1, <4>1 DEF IInv, RunInv
    <3>3. procedure' # "none" /\ position' # 0 /\ position' \in 0..Len(steps')
      BY <3>1, <3>2 DEF Procedures
    <3> QED BY <1>0, <2>1, <3>1, <3>3 DEF RunTypeOK
  <2> QED BY <1>3, <2>2, <2>3, <2>4 DEF RunTurn
<1>4. CASE Killed \/ Reboot
  <2>1. /\ procedure' = "none" /\ steps' = <<>> /\ position' = 0 /\ failing' = FALSE
        /\ pc' = "idle" /\ daemon' = FALSE /\ UNCHANGED <<way, file, joined>>
    BY <1>4 DEF Killed, Reboot, Abandoned, Goto
  <2>2. 0 \in 0..Len(steps')
    BY <2>1
  <2>3. (faults \in 0..MaxFaults)'
    BY <1>4, MaxFaultsAssumption DEF ProceduresTypeOK, Killed, Reboot, Succeeds, Fails
  <2> QED BY <1>0, <2>1, <2>2, <2>3 DEF RunTypeOK
<1>5. CASE WorldTurn \/ UNCHANGED vars
  BY <1>5 DEF WorldTurn, Still, vars, runVars, ProceduresTypeOK, RunTypeOK
<1> QED BY <1>1, <1>2, <1>3, <1>4, <1>5, Turns

-----------------------------------------------------------------------------
(* What changes the variables of each component.                           *)

\* A download is under way while its labels are, and it ends with them.
LEMMA DownloadsTyped == ASSUME ProceduresTypeOK, [Next]_vars PROVE DownloadsTypeOK'
<1>0. DownloadsTypeOK
  BY DEF ProceduresTypeOK
<1> USE DEF DownloadsTypeOK
<1>1. ASSUME UNCHANGED <<package, todo, installed>>, wanted' \in [Packages -> Releases],
             pc' \in DownloadPCs <=> pc \in DownloadPCs
      PROVE  DownloadsTypeOK'
  BY <1>0, <1>1
<1>2. CASE \/ NodeTurn \/ HostTurn \/ ArcTurn \/ KubeadmTurn \/ AKSTurn \/ CordonTurn
  <2>1. UNCHANGED downloadVars
    BY <1>2 DEF NodeTurn, HostTurn, ArcTurn, KubeadmTurn, AKSTurn, CordonTurn, OnlyNode, OnlyHost,
         OnlyArc, OnlyKubeadm, OnlyAKS, OnlyCordon
  <2>2. pc \notin DownloadPCs /\ pc' \notin DownloadPCs
    BY <1>2 DEF NodeTurn, HostTurn, ArcTurn, KubeadmTurn, AKSTurn, CordonTurn, Turn, DownloadPCs,
         NodePCs, HostPCs, ArcPCs, KubeadmPCs, AKSPCs, CordonPCs, Ends
  <2> QED BY <1>0, <1>1, <2>1, <2>2 DEF downloadVars
<1>3. CASE BeginDownloadStep
  <2>1. PICK step \in {"download-cni-binaries", "download-cri-binaries", "download-kube-binaries",
                       "download-npd"} : At(step) /\ BeginDownload(FirstOf(step))
    BY <1>3 DEF BeginDownloadStep
  <2>2. package = "none" /\ todo = {} /\ "none" \notin Packages
    BY <1>0, <2>1, PackagesAssumption DEF At, DownloadPCs, AllPackages
  <2> QED BY <1>0, <2>1, <2>2 DEF BeginDownload, DownloadPCs
<1>4. CASE DownloadStep
  <2>1. package # "none" /\ package \in Packages /\ "none" \notin Packages
    BY <1>0, <1>4, StepsAt, PackagesAssumption DEF AllPackages
  <2>2. After(package) \in Packages \union {"none"}
    BY DEF After
  <2>3. ASSUME NextPackage
        PROVE  /\ package' \in Packages \union {"none"} /\ todo' = {}
               /\ pc' \in DownloadPCs <=> package' # "none"
    BY <2>2, <2>3 DEF NextPackage, DownloadPCs
  <2>4. CASE Inspect
    <3>1. CASE NeedsDownload(package)
      BY <1>0, <2>1, <2>4, <3>1 DEF Inspect, ToFetch, DownloadPCs
    <3>2. CASE ~NeedsDownload(package)
      BY <1>0, <2>3, <2>4, <3>2 DEF Inspect
    <3> QED BY <3>1, <3>2
  <2>5. CASE FetchFails
    BY <1>0, <2>5 DEF FetchFails, DownloadPCs
  <2>6. ASSUME NEW f, InstallFile(f)
        PROVE  DownloadsTypeOK'
    <3>1. wanted[package] \in Releases
      BY <1>0, <2>1
    <3>2. \A p \in Packages : installed'[p] \in [Files[p] -> Releases \union {Missing}]
      BY <1>0, <2>6, <3>1 DEF InstallFile
    <3>3. CASE todo = {f}
      BY <1>0, <2>3, <2>6, <3>2, <3>3 DEF InstallFile
    <3>4. CASE todo # {f}
      BY <1>0, <2>1, <2>6, <3>2, <3>4 DEF InstallFile
    <3> QED BY <3>3, <3>4
  <2> QED BY <1>4, <2>4, <2>5, <2>6 DEF DownloadStep, FetchEntry, FetchBinary
<1>5. CASE RunTurn
  <2>1. pc' \notin DownloadPCs /\ pc \notin DownloadPCs /\ UNCHANGED <<package, todo, installed>>
    BY <1>5 DEF RunTurn, DownloadPCs
  <2>2. wanted' \in [Packages -> Releases]
    BY <1>0, <1>5 DEF RunTurn, StepSucceeds, StepFails, Commands, StartAgent, LoadConfig,
         BootstrapAgain, StartUnbootstrap, StartApply, StartUpgrade, OnlyRun, downloadVars
  <2> QED BY <1>1, <2>1, <2>2
<1>6. CASE Killed \/ Reboot
  BY <1>0, <1>6 DEF Killed, Reboot, Abandoned, DownloadsAbandoned, Goto, DownloadPCs
<1>7. CASE ResetKubeletClean
  BY <1>0, <1>1, <1>7 DEF ResetKubeletClean, Call, Attempt, Goto, DownloadPCs, downloadVars
<1>8. CASE WorldTurn \/ UNCHANGED vars
  BY <1>0, <1>1, <1>8 DEF WorldTurn, vars, downloadVars
<1> QED BY <1>2, <1>3, <1>4, <1>5, <1>6, <1>7, <1>8, Turns DEF DownloadTurn

LEMMA KnownTyped == ASSUME ProceduresTypeOK, [Next]_vars PROVE KnownTypeOK'
<1>0. KnownTypeOK
  BY DEF ProceduresTypeOK, KnownTypeOK
<1> USE DEF KnownTypeOK
<1>1. CASE UNCHANGED known
  BY <1>0, <1>1
<1>2. CASE NodeTurn
  <2>1. CASE Enrich
    <3>1. CASE UNCHANGED known
      BY <1>1, <3>1
    <3>2. CASE known' = [singleton |-> TRUE, step |-> known.step \/ procedure = "bootstrap"]
      <4>1. (known.step \/ procedure = "bootstrap") \in BOOLEAN
        OBVIOUS
      <4> QED BY <3>2, <4>1
    <3> QED BY <2>1, <3>1, <3>2 DEF Enrich
  <2>2. CASE ~Enrich
    BY <1>1, <1>2, <2>2 DEF NodeTurn, BeginNodeStep, NodeStep, StartContainerd, StartKubelet,
         StartNPD, ResetKubeletMask, ResetKubeletResolve, ResetKubeletUnmount,
         ResetContainerdMask, ResetContainerdClean, NodeCall
  <2> QED BY <2>1, <2>2
<1>3. CASE RunTurn
  <2>1. CASE StartAgent
    <3>1. KnowsServer(file) \in BOOLEAN
      BY DEF KnowsServer
    <3> QED BY <2>1, <3>1 DEF StartAgent, LoadConfig
  <2>2. CASE BootstrapAgain
    BY <1>0, <2>2 DEF BootstrapAgain
  <2>3. CASE ~StartAgent /\ ~BootstrapAgain
    BY <1>1, <1>3, <2>3 DEF RunTurn, StepSucceeds, StepFails, Commands, StartUnbootstrap,
         StartApply, StartUpgrade
  <2> QED BY <2>1, <2>2, <2>3
<1>4. CASE \/ DownloadTurn \/ HostTurn \/ ArcTurn \/ KubeadmTurn \/ AKSTurn \/ CordonTurn
           \/ ResetKubeletClean \/ Killed \/ Reboot \/ WorldTurn \/ UNCHANGED vars
  BY <1>1, <1>4 DEF DownloadTurn, HostTurn, ArcTurn, KubeadmTurn, AKSTurn, CordonTurn,
       OnlyDownloads, OnlyHost, OnlyArc, OnlyKubeadm, OnlyAKS, OnlyCordon, ResetKubeletClean,
       Killed, Reboot, Abandoned, WorldTurn, vars
<1> QED BY <1>2, <1>3, <1>4, Turns

\* The node is changed by its own calls, by the removal of its directories, by
\* what lives on it and by a reboot.
LEMMA NodeChanges == ASSUME ProceduresTypeOK, [Next]_vars
  PROVE \/ UNCHANGED node
        \/ NodeStep /\ OnlyNode
        \/ ResetKubeletClean
        \/ NodeLives
        \/ Reboot /\ NodeReboots
BY Turns DEF NodeTurn, DownloadTurn, HostTurn, ArcTurn, KubeadmTurn, AKSTurn, CordonTurn,
     OnlyDownloads, OnlyHost, OnlyArc, OnlyKubeadm, OnlyAKS, OnlyCordon, BeginNodeStep,
     RunTurn, Killed, Reboot, WorldTurn, World, vars

LEMMA NodeTyped == ASSUME ProceduresTypeOK, [Next]_vars PROVE NodeTypeOK'
<1>0. NodeTypeOK
  BY DEF ProceduresTypeOK
<1> USE DEF NodeTypeOK
<1>1. CASE UNCHANGED node
  BY <1>0, <1>1
<1>2. CASE NodeStep
  <2> USE DEF NodeCall, Call, Attempt
  <2>1. CASE Enrich \/ StartContainerd \/ StartNPD
    BY <1>0, <2>1 DEF Enrich, StartContainerd, StartNPD
  <2>2. CASE StartKubelet
    <3>1. KubeletCredential(file) \in {"none", "arc", "sp", "mi", "token"}
      BY DEF KubeletCredential
    <3> QED BY <1>0, <2>2, <3>1 DEF StartKubelet, Decide
  <2>3. CASE ResetKubeletMask
    <3>1. (node.slipped \/ node.kubelet = "restarting") \in BOOLEAN
      OBVIOUS
    <3>2. (IF node.kubelet = "yes" THEN "no" ELSE node.kubelet) \in {"no", "yes", "restarting"}
      BY <1>0
    <3> QED BY <1>0, <2>3, <3>1, <3>2 DEF ResetKubeletMask
  <2>4. CASE ResetKubeletResolve
    BY <1>0, <2>4 DEF ResetKubeletResolve
  <2>5. CASE ResetKubeletUnmount
    <3>1. node.mounts \subseteq Mounts /\ LeftMounted \subseteq Mounts
      BY <1>0 DEF LeftMounted, Mounts
    <3> QED BY <1>0, <2>5, <3>1 DEF ResetKubeletUnmount
  <2>6. CASE ResetContainerdMask \/ ResetContainerdClean
    BY <1>0, <2>6 DEF ResetContainerdMask, ResetContainerdClean
  <2> QED BY <1>2, <2>1, <2>2, <2>3, <2>4, <2>5, <2>6 DEF NodeStep
<1>3. CASE ResetKubeletClean
  BY <1>0, <1>3 DEF ResetKubeletClean, Call, Attempt
<1>4. CASE NodeLives
  <2>1. (IF "volume" \in node.mounts THEN Mounts ELSE {"volume"}) \in SUBSET Mounts
    BY DEF Mounts
  <2> QED BY <1>0, <1>4, <2>1 DEF NodeLives, KubeletDies, KubeletComesBack, PodsMount
<1>5. CASE NodeReboots
  BY <1>0, <1>5 DEF NodeReboots
<1> QED BY <1>1, <1>2, <1>3, <1>4, <1>5, NodeChanges

\* The host is changed by its own calls, and by docker and reboots; the end of a
\* run forgets which unit was being masked.
LEMMA HostChanges == ASSUME ProceduresTypeOK, [Next]_vars
  PROVE \/ UNCHANGED hostVars
        \/ HostStep /\ OnlyHost
        \/ BeginHostStep
        \/ ResetKubeletClean
        \/ UNCHANGED <<host, docker, slipped>> /\ unit' = "none" /\ pc' = "idle"
        \/ DockerLives
        \/ HostReboots /\ Abandoned
BY Turns DEF NodeTurn, DownloadTurn, HostTurn, ArcTurn, KubeadmTurn, AKSTurn, CordonTurn,
     OnlyNode, OnlyDownloads, OnlyArc, OnlyKubeadm, OnlyAKS, OnlyCordon,
     RunTurn, Killed, Abandoned, Goto, Reboot, WorldTurn, World, NodeLives, vars, hostVars

LEMMA HostTyped == ASSUME ProceduresTypeOK, [Next]_vars PROVE HostTypeOK'
<1>0. HostTypeOK
  BY DEF ProceduresTypeOK
<1> DEFINE Docker == [found : BOOLEAN, masked : BOOLEAN, enabled : BOOLEAN,
                      active : {"no", "yes", "restarting"}]
<1>1. ASSUME UNCHANGED docker, host' \in HostSettings, unit' \in DockerUnits \union {"none"},
             slipped' \in BOOLEAN
      PROVE  HostTypeOK'
  BY <1>0, <1>1 DEF HostTypeOK
<1>2. CASE UNCHANGED hostVars
  BY <1>0, <1>2 DEF HostTypeOK, hostVars
<1>3. ASSUME NEW from, NEW field \in {"sysctlFile", "sysctl", "swap", "resolvUnit",
                "resolv", "cni", "iptablesOff", "rules", "clear", "flushUnit", "flushEnabled"},
             NEW value \in BOOLEAN, NEW next, HostCall(from, field, value, next)
      PROVE  HostTypeOK'
  BY <1>0, <1>3 DEF HostTypeOK, HostSettings, HostCall, Call, Attempt
<1>4. ASSUME NEW from, NEW field \in {"fstab", "backup"}, NEW value \in Fstab, NEW next,
             HostCall(from, field, value, next)
      PROVE  HostTypeOK'
  BY <1>0, <1>4 DEF HostTypeOK, HostSettings, HostCall, Call, Attempt
<1>5. CASE ConfigureBaseOS
  <2>1. CASE OsPackages
    <3>1. host.tools \union UNION {Brings(p) : p \in PackagesToInstall} \in SUBSET RequiredBinaries
      BY <1>0 DEF HostTypeOK, HostSettings, PackagesToInstall, Brings, RequiredPackages,
         RequiredBinaries
    <3> QED BY <1>0, <1>2, <2>1, <3>1 DEF OsPackages, HostDecides, HostCall, Call, Attempt,
             HostTypeOK, HostSettings
  <2>4. CASE OsSysctl
    BY <2>4, <1>2, <1>3 DEF OsSysctl, HostDecides
  <2>2. CASE OsSysctlApply \/ OsSwapoff \/ OsResolv \/ OsResolvReload \/ OsResolvStart
    BY <2>2, <1>3 DEF OsSysctlApply, OsSwapoff, OsResolv, OsResolvReload, OsResolvStart
  <2>3. CASE OsBackup \/ OsFstab
    <3>1. host.fstab \in Fstab /\ "noswap" \in Fstab
      BY <1>0 DEF HostTypeOK, HostSettings, Fstab
    <3> QED BY <2>3, <1>4, <3>1 DEF OsBackup, OsFstab
  <2> QED BY <1>5, <2>1, <2>2, <2>3, <2>4 DEF ConfigureBaseOS
<1>6. ASSUME NEW field, NEW value, UNCHANGED <<host, slipped>>,
             \/ UNCHANGED docker
             \/ docker' = [docker EXCEPT ![unit][field] = value],
             \/ field = "active" /\ value = "no"
             \/ field \in {"masked", "enabled"} /\ value \in BOOLEAN,
             unit' \in DockerUnits \union {"none"}
      PROVE  HostTypeOK'
  <2>1. docker' \in [DockerUnits -> Docker]
    BY <1>0, <1>6 DEF HostTypeOK
  <2> QED BY <1>0, <1>6, <2>1 DEF HostTypeOK
<1>7. CASE DisableDocker
  <2>1. CASE DockerStatus
    <3>1. unit' \in DockerUnits \union {"none"}
      BY <1>0, <2>1 DEF DockerStatus, NextUnit, SecondUnit, UnitOrder, DockerGivenUp, HostTypeOK,
           DockerUnits
    <3>2. slipped' \in BOOLEAN
      BY <1>0, <2>1 DEF DockerStatus, HostTypeOK
    <3> QED BY <1>0, <2>1, <3>1, <3>2 DEF DockerStatus, HostTypeOK
  <2>2. CASE DockerStop \/ DockerDisable \/ DockerMask
    <3>1. unit' \in DockerUnits \union {"none"}
      BY <1>0, <2>2 DEF DockerStop, DockerDisable, DockerMask, DockerCall, NextUnit, SecondUnit,
           UnitOrder, DockerGivenUp, HostTypeOK, DockerUnits
    <3> QED BY <2>2, <1>6, <3>1 DEF DockerStop, DockerDisable, DockerMask, DockerCall
  <2>3. CASE DockerConfig
    BY <2>3, <1>3 DEF DockerConfig
  <2> QED BY <1>7, <2>1, <2>2, <2>3 DEF DisableDocker
<1>8. CASE ConfigureCNI \/ ConfigureIPTables
  BY <1>8, <1>3 DEF ConfigureCNI, ConfigureIPTables, IpRules, IpUnit, IpEnable, IpReload, IpStart
<1>9. CASE BeginHostStep
  BY <1>0, <1>9 DEF BeginHostStep, BeginDisableDocker, FirstUnit, UnitOrder, HostTypeOK, hostVars,
       DockerUnits
<1>10. CASE ResetKubeletClean
  BY <1>0, <1>10 DEF ResetKubeletClean, Call, Attempt, HostTypeOK, HostSettings
<1>11. CASE UNCHANGED <<host, docker, slipped>> /\ unit' = "none"
  BY <1>0, <1>11 DEF HostTypeOK
<1>12. CASE DockerLives
  <2>1. (host.rules \/ ~host.iptablesOff) \in BOOLEAN
    OBVIOUS
  <2>2. host' \in HostSettings
    BY <1>0, <1>12, <2>1 DEF DockerLives, DockerDies, DockerRestarts, SocketActivates, DockerStarts,
         HostTypeOK, HostSettings
  <2>3. docker' \in [DockerUnits -> Docker]
    BY <1>0, <1>12 DEF DockerLives, DockerDies, DockerRestarts, SocketActivates, DockerStarts,
         HostTypeOK
  <2> QED BY <1>0, <1>12, <2>2, <2>3 DEF DockerLives, DockerDies, DockerRestarts, SocketActivates,
           HostTypeOK
<1>13. CASE HostReboots
  <2>1. docker' \in [DockerUnits -> Docker]
    BY <1>0, <1>13 DEF HostReboots, HostTypeOK
  <2>2. PICK swap \in BOOLEAN, rules \in BOOLEAN :
          host' = [host EXCEPT !.swap = swap, !.sysctl = host.sysctlFile, !.rules = rules]
    BY <1>13, Zenon DEF HostReboots
  <2>3. host' \in HostSettings
    BY <1>0, <2>2 DEF HostTypeOK, HostSettings
  <2> QED BY <1>0, <1>13, <2>1, <2>3 DEF HostReboots, HostTypeOK
<1> QED BY <1>2, <1>5, <1>7, <1>8, <1>9, <1>10, <1>11, <1>12, <1>13, HostChanges DEF HostStep

\* The machine in Azure is changed by the steps about it, on its own, or forgotten
\* by a run that is cut short.
LEMMA ArcChanges == ASSUME ProceduresTypeOK, [Next]_vars
  PROVE \/ ArcStep /\ OnlyArc
        \/ BeginArcStep
        \/ IdentityAppears \/ ArcDisconnects
        \/ ArcAbandoned /\ pc' = "idle"
        \/ UNCHANGED <<pc, arcVars>>
        \/ UNCHANGED arcVars /\ pc \notin ArcPCs /\ pc' \notin ArcPCs
<1>1. CASE NodeTurn \/ DownloadTurn \/ HostTurn \/ KubeadmTurn \/ AKSTurn \/ CordonTurn
  BY <1>1 DEF NodeTurn, DownloadTurn, HostTurn, KubeadmTurn, AKSTurn, CordonTurn, Turn,
       OnlyNode, OnlyDownloads, OnlyHost, OnlyKubeadm, OnlyAKS, OnlyCordon, NodePCs, DownloadPCs,
       HostPCs, ArcPCs, KubeadmPCs, AKSPCs, CordonPCs, Ends
<1>2. CASE ResetKubeletClean \/ RunTurn
  BY <1>2 DEF ResetKubeletClean, Call, Attempt, Goto, RunTurn, ArcPCs
<1>3. CASE Killed \/ Reboot
  BY <1>3 DEF Killed, Reboot, Abandoned, Goto
<1>4. CASE WorldTurn
  BY <1>4 DEF WorldTurn, World, NodeLives, OnlyNode, OnlyHost, OnlyKubeadm, OnlyAKS, OnlyCordon
<1> QED BY <1>1, <1>2, <1>3, <1>4, Turns DEF ArcTurn, vars

LEMMA ArcTyped == ASSUME ProceduresTypeOK, [Next]_vars PROVE ArcTypeOK'
<1>0. ArcTypeOK
  BY DEF ProceduresTypeOK
<1>1. Len(Assigned) = 4 /\ \A i \in 1..4 : Assigned[i] \in Roles
  BY DEF Assigned, Roles
<1>2. NoJob \in [identity : BOOLEAN, nth : 1..Len(Assigned), errors : BOOLEAN]
  BY <1>1 DEF NoJob
<1> USE DEF ArcTypeOK
<1>3. CASE UNCHANGED arcVars \/ BeginArcStep
  BY <1>0, <1>3 DEF arcVars, BeginArcStep, BeginInstallArc, BeginUninstallArc
<1>4. CASE IdentityAppears \/ ArcDisconnects
  BY <1>0, <1>4 DEF IdentityAppears, ArcDisconnects
<1>5. CASE ArcAbandoned
  BY <1>0, <1>2, <1>5 DEF ArcAbandoned
<1>6. CASE InstallArc
  <2> USE DEF Installs, Reports
  <2>1. CASE ArcAuth \/ ArcInstall \/ ArcClients \/ ArcPermissions
    BY <1>0, <1>2, <2>1 DEF ArcAuth, ArcInstall, ArcClients, ArcPermissions
  <2>2. CASE ArcConnect
    BY <1>0, <1>2, <2>2 DEF ArcConnect
  <2>3. CASE ArcGet \/ ArcWait \/ ArcValidate \/ ArcVerify
    <3>1. (arc.machine = "ready") \in BOOLEAN
      OBVIOUS
    <3> QED BY <1>0, <1>2, <2>3, <3>1 DEF ArcGet, ArcWait, ArcValidate, ArcVerify
  <2>4. CASE ArcAssign
    <3>1. Assigned[arcJob.nth] \in Roles
      BY <1>0, <1>1
    <3>2. arc.roles \union {Assigned[arcJob.nth]} \in SUBSET Roles
      BY <1>0, <3>1
    <3>3. arc' \in [spec : {"disabled", "incomplete", "complete"}, rbac : BOOLEAN,
                    agent : BOOLEAN, connected : BOOLEAN, machine : {"none", "bare", "ready"},
                    roles : SUBSET Roles, orphans : SUBSET Roles]
      BY <1>0, <2>4, <3>2 DEF ArcAssign
    <3>4. ASSUME NEW error \in BOOLEAN, NextRole(error)
          PROVE  /\ arcJob' \in [identity : BOOLEAN, nth : 1..Len(Assigned), errors : BOOLEAN]
                 /\ arcStatus' \in {"none", "completed", "failed"}
      <4>1. Worse(error) \in BOOLEAN
        BY DEF Worse
      <4>2. arcJob.nth < Len(Assigned) => arcJob.nth + 1 \in 1..Len(Assigned)
        BY <1>0, <1>1
      <4>3. CASE arcJob.nth < Len(Assigned)
        BY <1>0, <3>4, <4>1, <4>2, <4>3 DEF NextRole
      <4>4. CASE ~(arcJob.nth < Len(Assigned))
        BY <1>0, <1>2, <3>4, <4>4 DEF NextRole
      <4> QED BY <4>3, <4>4
    <3> QED BY <2>4, <3>3, <3>4 DEF ArcAssign
  <2> QED BY <1>6, <2>1, <2>2, <2>3, <2>4 DEF InstallArc
<1>7. CASE UninstallArc
  <2> USE DEF Uninstalls, Call, Attempt
  <2>1. CASE UnAuth \/ UnClients \/ UnDisconnect \/ UnAgent
    BY <1>0, <1>2, <2>1 DEF UnAuth, UnClients, UnDisconnect, UnAgent
  <2>2. CASE UnGet
    <3>1. (arc.machine = "ready") \in BOOLEAN
      OBVIOUS
    <3> QED BY <1>0, <2>2, <3>1 DEF UnGet
  <2>3. CASE UnRoles
    <3>1. Len(Removed) = 3
      BY DEF Removed
    <3>2. arc.roles \ {Removed[arcJob.nth]} \in SUBSET Roles
      BY <1>0
    <3>3. (IF arcJob.nth < Len(Removed) THEN arcJob.nth + 1 ELSE arcJob.nth) \in 1..Len(Assigned)
      BY <1>0, <1>1, <3>1
    <3> QED BY <1>0, <2>3, <3>2, <3>3 DEF UnRoles
  <2>4. CASE UnRegister
    <3>1. arc.orphans \union arc.roles \in SUBSET Roles /\ {} \in SUBSET Roles
      BY <1>0
    <3> QED BY <1>0, <2>4, <3>1 DEF UnRegister
  <2> QED BY <1>7, <2>1, <2>2, <2>3, <2>4 DEF UninstallArc
<1> QED BY <1>3, <1>4, <1>5, <1>6, <1>7, ArcChanges DEF ArcStep, arcVars

\* kubeadm's node is changed by the actions about it, by systemd and by a reboot.
LEMMA KubeadmChanges == ASSUME ProceduresTypeOK, [Next]_vars
  PROVE \/ KubeadmStep /\ OnlyKubeadm
        \/ BeginKubeadmStep
        \/ KubeletLives /\ OnlyKubeadm
        \/ KubeadmReboots /\ pc' = "idle"
        \/ UNCHANGED kubeadm /\ pc' = "idle"
        \/ UNCHANGED <<pc, kubeadm, steps, position>>
        \/ UNCHANGED kubeadm /\ pc \notin KubeadmPCs /\ pc' \notin KubeadmPCs
<1>1. CASE NodeTurn \/ DownloadTurn \/ HostTurn \/ ArcTurn \/ AKSTurn \/ CordonTurn
  BY <1>1 DEF NodeTurn, DownloadTurn, HostTurn, ArcTurn, AKSTurn, CordonTurn, Turn, OnlyNode,
       OnlyDownloads, OnlyHost, OnlyArc, OnlyAKS, OnlyCordon, NodePCs, DownloadPCs, HostPCs, ArcPCs,
       KubeadmPCs, AKSPCs, CordonPCs, Ends
<1>2. CASE ResetKubeletClean \/ RunTurn
  BY <1>2 DEF ResetKubeletClean, Call, Attempt, Goto, RunTurn, KubeadmPCs
<1>3. CASE Killed \/ Reboot
  BY <1>3 DEF Killed, Reboot, Abandoned, Goto
<1>4. CASE WorldTurn
  BY <1>4 DEF WorldTurn, World, NodeLives, Still, runVars, OnlyNode, OnlyHost, OnlyArc, OnlyAKS,
       OnlyCordon
<1> QED BY <1>1, <1>2, <1>3, <1>4, Turns DEF KubeadmTurn, vars, runVars

LEMMA KubeadmTyped == ASSUME ProceduresTypeOK, [Next]_vars PROVE KubeadmTypeOK'
<1>0. KubeadmTypeOK
  BY DEF ProceduresTypeOK
<1> USE DEF KubeadmTypeOK
<1>1. CASE UNCHANGED kubeadm \/ BeginKubeadmStep
  BY <1>0, <1>1 DEF BeginKubeadmStep, BeginJoin, BeginReset
<1>2. CASE Join
  BY <1>0, <1>2 DEF Join, JoinUnit, JoinReload, JoinEnable, JoinRun, JoinPoll, Joined, Configured,
       KubeadmCall, Call, Attempt
<1>3. CASE Reset
  BY <1>0, <1>3 DEF Reset, ResetRun, ResetStatus, ResetStop, ResetDisable, ResetMask, ResetClean,
       Stopped, KubeadmCall, Call, Attempt
<1>4. CASE KubeletLives \/ KubeadmReboots
  BY <1>0, <1>4 DEF KubeletLives, KubeletFails, KubeletRestarts, KubeadmReboots
<1> QED BY <1>1, <1>2, <1>3, <1>4, KubeadmChanges DEF KubeadmStep

LEMMA AKSTyped == ASSUME ProceduresTypeOK, [Next]_vars PROVE AKSTypeOK'
<1>0. AKSTypeOK
  BY DEF ProceduresTypeOK
<1>1. \/ UNCHANGED aks
      \/ AKSStep
      \/ ControlPlaneManages
  BY Turns DEF NodeTurn, DownloadTurn, HostTurn, ArcTurn, KubeadmTurn, AKSTurn, CordonTurn,
       BeginAKSStep, BeginEnsureMachine, OnlyNode, OnlyDownloads, OnlyHost, OnlyArc, OnlyKubeadm,
       OnlyCordon, RunTurn, Killed, Reboot, Abandoned, ResetKubeletClean, WorldTurn, World,
       NodeLives, vars
<1>2. CASE AKSStep
  BY <1>0, <1>2 DEF AKSTypeOK, AKSStep, AKSSpec, AKSCredential, PoolGet, PoolPut, MachineGet,
       MachinePut, Call, Attempt
<1> QED BY <1>0, <1>1, <1>2 DEF AKSTypeOK, ControlPlaneManages

\* The upgrade's calls and the world around them are all that change the cordon.
LEMMA CordonChanges == ASSUME ProceduresTypeOK, [Next]_vars
  PROVE \/ CordonStep /\ OnlyCordon
        \/ BeginCordonStep
        \/ CertificatesRotate \/ OperatorMarks
        \/ CordonAbandoned /\ pc' = "idle"
        \/ UNCHANGED <<pc, cordonVars>>
        \/ UNCHANGED cordonVars /\ pc \notin CordonPCs /\ pc' \notin CordonPCs
<1>1. CASE NodeTurn \/ DownloadTurn \/ HostTurn \/ ArcTurn \/ KubeadmTurn \/ AKSTurn
  BY <1>1 DEF NodeTurn, DownloadTurn, HostTurn, ArcTurn, KubeadmTurn, AKSTurn, Turn, OnlyNode,
       OnlyDownloads, OnlyHost, OnlyArc, OnlyKubeadm, OnlyAKS, NodePCs, DownloadPCs, HostPCs,
       ArcPCs, KubeadmPCs, AKSPCs, CordonPCs, Ends
<1>2. CASE ResetKubeletClean \/ RunTurn
  BY <1>2 DEF ResetKubeletClean, Call, Attempt, Goto, RunTurn, CordonPCs
<1>3. CASE Killed \/ Reboot
  BY <1>3 DEF Killed, Reboot, Abandoned, Goto
<1>4. CASE WorldTurn
  BY <1>4 DEF WorldTurn, World, NodeLives, OnlyNode, OnlyHost, OnlyArc, OnlyKubeadm, OnlyAKS
<1> QED BY <1>1, <1>2, <1>3, <1>4, Turns DEF CordonTurn, vars

LEMMA CordonTyped == ASSUME ProceduresTypeOK, [Next]_vars PROVE CordonTypeOK'
<1>0. CordonTypeOK
  BY DEF ProceduresTypeOK
<1> USE DEF CordonTypeOK, NodeOps, cordonVars
<1>1. CASE UNCHANGED cordonVars \/ CertificatesRotate \/ OperatorMarks \/ CordonAbandoned
  BY <1>0, <1>1 DEF CertificatesRotate, OperatorMarks, CordonAbandoned
<1>2. CASE BeginCordonStep
  BY <1>0, <1>2 DEF BeginCordonStep, BeginMaintenance
<1>3. ASSUME Done \/ GivenUp \/ OnDenial
      PROVE  op' \in NodeOps \union {"none"} /\ uncordonAfter' \in BOOLEAN
  BY <1>0, <1>3 DEF Done, GivenUp, OnDenial, Proceed, Returns, AfterUpgrade
<1>4. CASE GetClient \/ LastResort \/ GetAdmin
  BY <1>0, <1>3, <1>4 DEF GetClient, LastResort, GetAdmin
<1>5. ASSUME NEW from, NEW next, GetNode(from, next) PROVE CordonTypeOK'
  <2>1. (cordonedBy # "nobody") \in BOOLEAN
    OBVIOUS
  <2> QED BY <1>0, <1>3, <1>5, <2>1 DEF GetNode
<1>6. ASSUME NEW from, WriteNode(from, OnDenial) \/ WriteNode(from, GivenUp) PROVE CordonTypeOK'
  <2>1. cordonedBy' \in {"nobody", "agent", "operator"}
    BY <1>0, <1>6 DEF WriteNode, Writes
  <2> QED BY <1>0, <1>3, <1>6, <2>1 DEF WriteNode
<1>7. CASE Upgrade
  BY <1>0, <1>3, <1>7 DEF Upgrade
<1> QED BY <1>1, <1>2, <1>4, <1>5, <1>6, <1>7, CordonChanges DEF CordonStep

-----------------------------------------------------------------------------
\* There is an oldest release, which a host's first configuration may want.
LEMMA OldestRelease == \E r \in Releases : \A q \in Releases : r <= q
<1> DEFINE Older == {pair \in Nat \X Nat : pair[1] < pair[2]}
<1>1. IsWellFoundedOn(Older, Nat)
  BY NatLessThanWellFounded DEF OpToRel
<1>2. ASSUME NEW q \in Nat, NEW r \in Nat, <<q, r>> \notin Older PROVE r <= q
  BY <1>2
<1> HIDE DEF Older
<1>3. \E r \in Releases : \A q \in Releases : <<q, r>> \notin Older
  BY <1>1, WFMin, ReleasesAssumption
<1> QED BY <1>2, <1>3, ReleasesAssumption

LEMMA InitTyped == ASSUME Init PROVE ProceduresTypeOK
<1>1. RunTypeOK
  <2>1. file \in ConfigFiles
    BY SetupsAssumption DEF Init, SetupsOf
  <2>2. faults \in 0..MaxFaults
    BY SparedAssumption, MaxFaultsAssumption DEF Init
  <2>3. /\ pc = "idle" /\ procedure = "none" /\ position = 0
        /\ way \in Ways /\ failing = FALSE /\ daemon = FALSE /\ joined = FALSE
    BY DEF Init
  <2>4. 0 \in 0..Len(steps)
    BY DEF Init
  <2> QED BY <2>1, <2>2, <2>3, <2>4 DEF RunTypeOK
<1>2. DownloadsTypeOK
  <2>1. (CHOOSE r \in Releases : \A q \in Releases : r <= q) \in Releases
    BY OldestRelease
  <2> QED BY <2>1 DEF Init, DownloadsInit, DownloadsTypeOK, DownloadPCs
<1>3. HostTypeOK
  <2>1. PICK delivered \in AllHosts : HostInit(delivered)
    BY SetupsAssumption, HostsAssumption DEF Init, SetupsOf
  <2>2. (delivered.fstab = "swap") \in BOOLEAN
    OBVIOUS
  <2> QED BY <2>1, <2>2 DEF HostInit, HostTypeOK, HostSettings, AllHosts, Fstab
<1>4. ArcTypeOK
  <2>1. PICK enabled \in BOOLEAN : ArcInit(enabled)
    <3>1. file \in ConfigFiles
      BY SetupsAssumption DEF Init, SetupsOf
    <3>2. IsARCEnabled(file) \in BOOLEAN
      BY <3>1, ConfigFilesAssumption DEF IsARCEnabled, Configurations
    <3>3. ArcInit(IsARCEnabled(file))
      BY DEF Init
    <3> QED BY <3>2, <3>3
  <2> QED BY <2>1 DEF ArcInit, ArcTypeOK, NoJob, Assigned
<1>5. KubeadmTypeOK /\ AKSTypeOK
  BY DEF Init, KubeadmInit, KubeadmTypeOK, AKSInit, AKSTypeOK
<1>6. CordonTypeOK
  BY DEF Init, CordonInit, CordonTypeOK
<1>7. NodeTypeOK /\ KnownTypeOK
  BY DEF Init, NodeTypeOK, KnownTypeOK
<1> QED BY <1>1, <1>2, <1>3, <1>4, <1>5, <1>6, <1>7 DEF ProceduresTypeOK, RunTypeOK, KnownTypeOK

LEMMA TypedStep == ASSUME IInv, ProceduresTypeOK, [Next]_vars PROVE ProceduresTypeOK'
BY RunTyped, KnownTyped, DownloadsTyped, HostTyped, ArcTyped, KubeadmTyped, AKSTyped, CordonTyped,
   NodeTyped DEF ProceduresTypeOK, RunTypeOK, KnownTypeOK

\* Every variable of the procedures keeps its type; a run is under way exactly
\* while a process is at one of its labels, and a package is being downloaded
\* exactly while the process is at a label of the downloads (ExecuteSteps and what
\* it executes).
THEOREM ProceduresTyped == Spec => []ProceduresTypeOK
<1>1. Init => IInv /\ ProceduresTypeOK
  BY InitIInv, InitTyped
<1>2. (IInv /\ ProceduresTypeOK) /\ [Next]_vars => (IInv /\ ProceduresTypeOK)'
  BY Invariance, TypedStep
<1> QED BY <1>1, <1>2, PTL DEF Spec

-----------------------------------------------------------------------------
(* To which step a label belongs, and to which procedure a step.           *)

OsPCs == {"osPackages", "osSysctl", "osSysctlApply", "osSwapoff", "osBackup", "osFstab",
          "osResolv", "osResolvReload", "osResolvStart"}
DockerPCs == {"dockerStatus", "dockerStop", "dockerDisable", "dockerMask", "dockerConfig"}
IpPCs == {"ipRules", "ipUnit", "ipEnable", "ipEnableNew", "ipReload", "ipStart"}
UninstallPCs == {"unAuth", "unClients", "unGet", "unRoles", "unRegister", "unDisconnect", "unAgent"}
InstallPCs == ArcPCs \ UninstallPCs
JoinPCs == {"joinUnit", "joinReload", "joinEnable", "joinRun", "joinPoll"}
ResetPCs == KubeadmPCs \ JoinPCs

StepIs(step) == steps[position] = step

NodeLabels ==
  /\ pc = "enrich" => StepIs("enrich-cluster-config")
  /\ pc = "scStart" => StepIs("start-containerd")
  /\ pc = "skStart" => StepIs("start-kubelet")
  /\ pc = "npdStart" => StepIs("start-npd")
  /\ pc \in {"rkMask", "rkResolve", "rkUnmount", "rkClean"} => StepIs("reset-kubelet")
  /\ pc \in {"rcMask", "rcClean"} => StepIs("reset-containerd")

DownloadLabels ==
  /\ package = "cni" => StepIs("download-cni-binaries")
  /\ package \in {"containerd", "runc"} => StepIs("download-cri-binaries")
  /\ package = "kube" => StepIs("download-kube-binaries")
  /\ package = "npd" => StepIs("download-npd")

HostLabels ==
  /\ pc \in OsPCs => StepIs("configure-os")
  /\ pc \in DockerPCs => StepIs("disable-docker")
  /\ pc = "cniConf" => StepIs("configure-cni")
  /\ pc \in IpPCs => StepIs("configure-iptables")

ActionLabels ==
  /\ pc \in InstallPCs => steps[position] \in {"install-arc", "InstallArc"}
  /\ pc \in UninstallPCs => StepIs("ArcUnbootstrap")
  /\ pc \in JoinPCs => StepIs("KubeadmNodeJoin")
  /\ pc \in ResetPCs => StepIs("KubeadmNodeReset")
  /\ pc \in AKSPCs => StepIs("EnsureMachine")
  /\ pc \in CordonPCs => StepIs("upgrade")

LabelInv == NodeLabels /\ DownloadLabels /\ HostLabels /\ ActionLabels

ProcedureInv ==
  /\ Bootstrapping => steps = BootstrapSteps
  /\ procedure = "unbootstrap" => steps = UnbootstrapSteps
  /\ procedure = "upgrade" => steps = <<"upgrade">>
  /\ procedure = "apply" => \A i \in 1..Len(steps) : steps[i] \in Registered

\* A component that is not at work is at none of its labels, before and after.
LEMMA OthersAway == ASSUME ProceduresTypeOK, [Next]_vars
  PROVE \/ NodeTurn \/ DownloadTurn \/ HostTurn \/ ArcTurn \/ KubeadmTurn \/ AKSTurn \/ CordonTurn
        \/ UNCHANGED <<pc, steps, position, package>>
        \/ pc' \in {"next", "idle"} \union Ends /\ package' = "none"
<1>1. CASE ResetKubeletClean
  <2>1. pc = "rkClean" /\ pc' \in Ends /\ package' = package
    BY <1>1 DEF ResetKubeletClean, Call, Attempt, Goto, Ends, downloadVars
  <2>2. package = "none"
    BY <2>1 DEF ProceduresTypeOK, DownloadsTypeOK, DownloadPCs
  <2> QED BY <2>1, <2>2
<1>2. CASE RunTurn
  <2>1. pc' \in {"next", "idle"} /\ package' = package
    BY <1>2 DEF RunTurn
  <2>2. package = "none"
    BY <1>2 DEF RunTurn, ProceduresTypeOK, DownloadsTypeOK, DownloadPCs
  <2> QED BY <2>1, <2>2
<1>3. CASE Killed \/ Reboot
  BY <1>3 DEF Killed, Reboot, Abandoned, DownloadsAbandoned, Goto
<1>4. CASE WorldTurn \/ UNCHANGED vars
  BY <1>4 DEF WorldTurn, Still, runVars, downloadVars, vars
<1> QED BY <1>1, <1>2, <1>3, <1>4, Turns

\* Away from the labels of the downloads no package is being downloaded.
LEMMA NoPackage == ASSUME DownloadsTypeOK, pc \notin DownloadPCs PROVE package = "none"
BY DEF DownloadsTypeOK

LEMMA NodeLabelsKept == ASSUME ProceduresTypeOK, NodeLabels, [Next]_vars PROVE NodeLabels'
<1> USE DEF NodeLabels, StepIs
<1>1. CASE BeginNodeStep
  BY <1>1 DEF BeginNodeStep, BeginEnrich, BeginStartKubelet, At, Goto, OnlyNode, Still, runVars
<1>2. CASE NodeStep /\ OnlyNode
  <2>1. UNCHANGED <<steps, position>>
    BY <1>2 DEF OnlyNode, Still, runVars
  <2>2. CASE Enrich \/ StartContainerd \/ StartKubelet \/ StartNPD
    BY <2>2 DEF Enrich, StartContainerd, StartKubelet, StartNPD, NodeCall, Call, Attempt, Decide, Goto
  <2>3. CASE ResetKubeletMask \/ ResetKubeletResolve \/ ResetKubeletUnmount
    BY <2>1, <2>3 DEF ResetKubeletMask, ResetKubeletResolve, ResetKubeletUnmount, AfterUnmount,
         NodeCall, Call, Attempt, Decide, Goto
  <2>4. CASE ResetContainerdMask \/ ResetContainerdClean
    BY <2>1, <2>4 DEF ResetContainerdMask, ResetContainerdClean, NodeCall, Call, Attempt, Goto
  <2> QED BY <1>2, <2>2, <2>3, <2>4 DEF NodeStep
<1>3. CASE \/ DownloadTurn \/ HostTurn \/ ArcTurn \/ KubeadmTurn \/ AKSTurn \/ CordonTurn
  BY <1>3 DEF DownloadTurn, HostTurn, ArcTurn, KubeadmTurn, AKSTurn, CordonTurn, Turn, DownloadPCs,
       HostPCs, ArcPCs, KubeadmPCs, AKSPCs, CordonPCs, Ends
<1> QED BY <1>1, <1>2, <1>3, OthersAway DEF NodeTurn, Ends

LEMMA DownloadLabelsKept == ASSUME IInv, ProceduresTypeOK, DownloadLabels, [Next]_vars
                            PROVE DownloadLabels'
<1> USE DEF DownloadLabels, StepIs
<1>1. CASE package' = "none"
  BY <1>1
<1>2. CASE BeginDownloadStep
  <2>1. PICK step \in {"download-cni-binaries", "download-cri-binaries", "download-kube-binaries",
                       "download-npd"} : At(step) /\ BeginDownload(FirstOf(step))
    BY <1>2 DEF BeginDownloadStep
  <2>2. package = "none"
    BY <2>1, NoPackage DEF At, DownloadPCs, ProceduresTypeOK
  <2>3. package' \in {"none", FirstOf(step)} /\ UNCHANGED <<steps, position>> /\ StepIs(step)
    BY <1>2, <2>1, <2>2 DEF BeginDownload, BeginDownloadStep, OnlyDownloads, Still, runVars, At
  <2> QED BY <2>3 DEF FirstOf
<1>3. CASE DownloadStep /\ OnlyDownloads
  <2>1. UNCHANGED <<steps, position>>
    BY <1>3 DEF OnlyDownloads, Still, runVars
  <2>2. package' \in {package, After(package), "none"}
    BY <1>3 DEF DownloadStep, Inspect, FetchFails, FetchEntry, FetchBinary, InstallFile, NextPackage
  <2> QED BY <2>1, <2>2 DEF After
<1>4. CASE \/ NodeTurn \/ HostTurn \/ ArcTurn \/ KubeadmTurn \/ AKSTurn \/ CordonTurn
  <2>1. pc' \notin DownloadPCs
    BY <1>4 DEF NodeTurn, HostTurn, ArcTurn, KubeadmTurn, AKSTurn, CordonTurn, Turn, DownloadPCs,
         NodePCs, HostPCs, ArcPCs, KubeadmPCs, AKSPCs, CordonPCs, Ends
  <2>2. package' = "none"
    BY <2>1, TypedStep DEF ProceduresTypeOK, DownloadsTypeOK
  <2> QED BY <1>1, <2>2
<1> QED BY <1>1, <1>2, <1>3, <1>4, OthersAway DEF DownloadTurn

LEMMA HostLabelsKept == ASSUME ProceduresTypeOK, HostLabels, [Next]_vars PROVE HostLabels'
<1> USE DEF HostLabels, StepIs, OsPCs, DockerPCs, IpPCs
<1>1. CASE BeginHostStep
  BY <1>1 DEF BeginHostStep, BeginDisableDocker, At, Goto, OnlyHost, Still, runVars
<1>2. CASE HostStep /\ OnlyHost
  <2>1. UNCHANGED <<steps, position>>
    BY <1>2 DEF OnlyHost, Still, runVars
  <2> USE DEF HostCall, HostDecides, Call, Attempt, Decide, Goto
  <2>2. CASE ConfigureBaseOS
    <3>1. pc \in OsPCs /\ pc' \in OsPCs \union Ends
      BY <2>2 DEF ConfigureBaseOS, OsPackages, OsSysctl, OsSysctlApply, OsSwapoff, AfterSwapoff,
           OsBackup, OsFstab, OsResolv, OsResolvReload, OsResolvStart, Ends
    <3> QED BY <2>1, <3>1 DEF Ends
  <2>3. CASE DisableDocker
    <3>1. pc \in DockerPCs /\ pc' \in DockerPCs \union Ends
      BY <2>3 DEF DisableDocker, DockerStatus, DockerStop, DockerDisable, DockerMask, DockerConfig,
           DockerCall, NextUnit, DockerGivenUp, Ends
    <3> QED BY <2>1, <3>1 DEF Ends
  <2>4. CASE ConfigureCNI
    BY <2>4 DEF ConfigureCNI
  <2>5. CASE ConfigureIPTables
    <3>1. pc \in IpPCs /\ pc' \in IpPCs \union Ends
      BY <2>5 DEF ConfigureIPTables, IpRules, IpUnit, IpEnable, IpReload, IpStart, Ends
    <3> QED BY <2>1, <3>1 DEF Ends
  <2> QED BY <1>2, <2>2, <2>3, <2>4, <2>5 DEF HostStep
<1>3. CASE \/ NodeTurn \/ DownloadTurn \/ ArcTurn \/ KubeadmTurn \/ AKSTurn \/ CordonTurn
  BY <1>3 DEF NodeTurn, DownloadTurn, ArcTurn, KubeadmTurn, AKSTurn, CordonTurn, Turn, DownloadPCs,
       NodePCs, ArcPCs, KubeadmPCs, AKSPCs, CordonPCs, Ends
<1> QED BY <1>1, <1>2, <1>3, OthersAway DEF HostTurn, Ends

LEMMA ActionLabelsKept == ASSUME ProceduresTypeOK, ActionLabels, [Next]_vars PROVE ActionLabels'
<1> USE DEF ActionLabels, StepIs, InstallPCs, UninstallPCs, JoinPCs, ResetPCs
<1>1. CASE ArcTurn
  <2>1. UNCHANGED <<steps, position>>
    BY <1>1 DEF ArcTurn, OnlyArc, Still, runVars
  <2>2. pc' \in ArcPCs \union Ends
    BY <1>1 DEF ArcTurn, Turn
  <2>3. CASE BeginArcStep
    BY <2>1, <2>2, <2>3 DEF BeginArcStep, BeginInstallArc, BeginUninstallArc, At, ArcPCs,
         KubeadmPCs, AKSPCs, CordonPCs, Ends
  <2>4. CASE InstallArc
    <3>1. pc \in InstallPCs /\ pc' \in InstallPCs \union Ends
      BY <2>4 DEF InstallArc, ArcAuth, ArcInstall, ArcClients, ArcGet, ArcConnect, ArcWait,
           ArcValidate, ArcAssign, NextRole, ArcPermissions, ArcVerify, Installs, Reports, Goto,
           ArcPCs, Ends
    <3> QED BY <2>1, <3>1 DEF ArcPCs, KubeadmPCs, AKSPCs, CordonPCs, Ends
  <2>5. CASE UninstallArc
    <3>1. pc \in UninstallPCs /\ pc' \in UninstallPCs \union Ends
      BY <2>5 DEF UninstallArc, UnAuth, UnClients, UnGet, UnRoles, UnRegister, UnDisconnect,
           UnAgent, Uninstalls, Call, Attempt, Goto, Ends
    <3> QED BY <2>1, <3>1 DEF ArcPCs, KubeadmPCs, AKSPCs, CordonPCs, Ends
  <2> QED BY <1>1, <2>3, <2>4, <2>5 DEF ArcTurn, ArcStep
<1>2. CASE KubeadmTurn
  <2>1. UNCHANGED <<steps, position>>
    BY <1>2 DEF KubeadmTurn, OnlyKubeadm, Still, runVars
  <2>2. CASE BeginKubeadmStep
    BY <2>1, <2>2 DEF BeginKubeadmStep, BeginJoin, BeginReset, ResetOrder, At, ArcPCs, KubeadmPCs,
         AKSPCs, CordonPCs
  <2>3. CASE Join
    <3>1. pc \in JoinPCs /\ pc' \in JoinPCs \union Ends
      BY <2>3 DEF Join, JoinUnit, JoinReload, JoinEnable, JoinRun, JoinPoll, KubeadmCall, Call,
           Attempt, Goto, Ends
    <3> QED BY <2>1, <3>1 DEF ArcPCs, KubeadmPCs, AKSPCs, CordonPCs, Ends
  <2>4. CASE Reset
    <3>1. pc \in ResetPCs /\ pc' \in ResetPCs \union Ends
      BY <2>4 DEF Reset, ResetRun, ResetStatus, ResetStop, ResetDisable, ResetMask, ResetClean,
           ResetOrder, KubeadmCall, Call, Attempt, Goto, KubeadmPCs, Ends
    <3> QED BY <2>1, <3>1 DEF ArcPCs, KubeadmPCs, AKSPCs, CordonPCs, Ends
  <2> QED BY <1>2, <2>2, <2>3, <2>4 DEF KubeadmTurn, KubeadmStep
<1>3. CASE AKSTurn
  BY <1>3, StepsAt DEF AKSTurn, BeginAKSStep, At, Turn, OnlyAKS, Still, runVars, ArcPCs, KubeadmPCs,
       AKSPCs, CordonPCs, Ends
<1>4. CASE CordonTurn
  BY <1>4, StepsAt DEF CordonTurn, BeginCordonStep, At, Turn, OnlyCordon, Still, runVars, ArcPCs,
       KubeadmPCs, AKSPCs, CordonPCs, Ends
<1>5. CASE NodeTurn \/ DownloadTurn \/ HostTurn
  BY <1>5 DEF NodeTurn, DownloadTurn, HostTurn, Turn, NodePCs, DownloadPCs, HostPCs, ArcPCs,
       KubeadmPCs, AKSPCs, CordonPCs, Ends
<1>6. CASE pc' \in {"next", "idle"} \union Ends
  BY <1>6 DEF ArcPCs, KubeadmPCs, AKSPCs, CordonPCs, Ends
<1> QED BY <1>1, <1>2, <1>3, <1>4, <1>5, <1>6, OthersAway

\* A run keeps the steps it was started with.
LEMMA ProcedureKept == ASSUME ProceduresTypeOK, ProcedureInv, [Next]_vars PROVE ProcedureInv'
<1> USE DEF ProcedureInv, Bootstrapping
<1>1. CASE UNCHANGED <<procedure, steps>> \/ procedure' = "none"
  BY <1>1
<1>2. CASE StepSucceeds \/ StepFails
  BY <1>1, <1>2 DEF StepSucceeds, StepFails, NextStep, Finish
<1>3. CASE StartAgent \/ BootstrapAgain \/ StartUnbootstrap \/ StartUpgrade
  BY <1>3 DEF StartAgent, BootstrapAgain, StartUnbootstrap, StartUpgrade, Run
<1>4. CASE StartApply
  BY <1>4 DEF StartApply, Run
<1>5. CASE Killed \/ Reboot
  BY <1>1, <1>5 DEF Killed, Reboot, Abandoned
<1>6. CASE \/ NodeTurn \/ DownloadTurn \/ HostTurn \/ ArcTurn \/ KubeadmTurn \/ AKSTurn \/ CordonTurn
           \/ ResetKubeletClean \/ WorldTurn \/ UNCHANGED vars
  BY <1>1, <1>6 DEF NodeTurn, DownloadTurn, HostTurn, ArcTurn, KubeadmTurn, AKSTurn, CordonTurn,
       OnlyNode, OnlyDownloads, OnlyHost, OnlyArc, OnlyKubeadm, OnlyAKS, OnlyCordon,
       ResetKubeletClean, WorldTurn, Still, runVars, vars
<1> QED BY <1>2, <1>3, <1>4, <1>5, <1>6, Turns DEF RunTurn, Commands

\* What the proofs about each procedure may assume of every state.
InOrder == IInv /\ ProceduresTypeOK /\ LabelInv /\ ProcedureInv

LEMMA InitInOrder == Init => InOrder
<1> SUFFICES ASSUME Init PROVE InOrder
  OBVIOUS
<1>1. pc = "idle" /\ package = "none" /\ procedure = "none"
  BY DEF Init, DownloadsInit
<1>2. NodeLabels /\ DownloadLabels
  BY <1>1 DEF NodeLabels, DownloadLabels
<1>3. HostLabels
  BY <1>1 DEF HostLabels, OsPCs, DockerPCs, IpPCs
<1>4. ActionLabels
  BY <1>1 DEF ActionLabels, InstallPCs, UninstallPCs, JoinPCs, ResetPCs, ArcPCs, KubeadmPCs, AKSPCs,
       CordonPCs
<1>5. ProcedureInv
  BY <1>1 DEF ProcedureInv, Bootstrapping
<1> QED BY <1>2, <1>3, <1>4, <1>5, InitIInv, InitTyped DEF InOrder, LabelInv

LEMMA StaysInOrder == InOrder /\ [Next]_vars => InOrder'
BY Invariance, TypedStep, NodeLabelsKept, DownloadLabelsKept, HostLabelsKept, ActionLabelsKept,
   ProcedureKept DEF InOrder, LabelInv

LEMMA AlwaysInOrder == Spec => []InOrder
BY InitInOrder, StaysInOrder, PTL DEF Spec

\* The steps of each component.
NodeSteps == {"enrich-cluster-config", "start-containerd", "start-kubelet", "start-npd",
              "reset-kubelet", "reset-containerd"}
DownloadSteps == {"download-cni-binaries", "download-cri-binaries", "download-kube-binaries",
                  "download-npd"}
HostSteps == {"configure-os", "disable-docker", "configure-cni", "configure-iptables"}
ArcSteps == {"install-arc", "InstallArc", "ArcUnbootstrap"}
KubeadmSteps == {"KubeadmNodeJoin", "KubeadmNodeReset"}

\* A component is only at work in its own steps, and stays in them.
LEMMA TurnsInSteps == ASSUME InOrder
  PROVE /\ NodeTurn => steps[position] \in NodeSteps
        /\ DownloadTurn => steps[position] \in DownloadSteps
        /\ HostTurn => steps[position] \in HostSteps
        /\ ArcTurn => steps[position] \in ArcSteps
        /\ KubeadmTurn => steps[position] \in KubeadmSteps
        /\ AKSTurn => steps[position] = "EnsureMachine"
        /\ CordonTurn => steps[position] = "upgrade"
<1> USE StepsAt DEF InOrder, LabelInv, StepIs, At
<1>1. NodeTurn => steps[position] \in NodeSteps
  BY DEF NodeLabels, NodeTurn, NodePCs, BeginNodeStep, NodeSteps
<1>2. DownloadTurn => steps[position] \in DownloadSteps
  <2>1. CASE BeginDownloadStep
    BY <2>1 DEF BeginDownloadStep, DownloadSteps
  <2>2. CASE DownloadStep
    <3>1. package \in {"cni", "containerd", "runc", "kube", "npd"}
      BY <2>2, PackagesAssumption DEF ProceduresTypeOK, DownloadsTypeOK, AllPackages
    <3> QED BY <3>1 DEF DownloadLabels, DownloadSteps
  <2> QED BY <2>1, <2>2 DEF DownloadTurn
<1>3. HostTurn => steps[position] \in HostSteps
  BY DEF HostLabels, HostTurn, HostPCs, OsPCs, DockerPCs, IpPCs, BeginHostStep, HostSteps
<1>4. ArcTurn => steps[position] \in ArcSteps
  BY DEF ActionLabels, ArcTurn, InstallPCs, BeginArcStep, ArcSteps
<1>5. KubeadmTurn => steps[position] \in KubeadmSteps
  BY DEF ActionLabels, KubeadmTurn, ResetPCs, BeginKubeadmStep, KubeadmSteps
<1>6. AKSTurn => steps[position] = "EnsureMachine"
  BY DEF ActionLabels, AKSTurn, BeginAKSStep
<1>7. CordonTurn => steps[position] = "upgrade"
  BY DEF ActionLabels, CordonTurn, BeginCordonStep
<1> QED BY <1>1, <1>2, <1>3, <1>4, <1>5, <1>6, <1>7
===============================================================================
