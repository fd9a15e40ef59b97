------------------------- MODULE NodeProceduresProofs -------------------------
(* Properties of the procedures, for all files, hosts, packages and bounds. *)
EXTENDS NodeProcedures, FiniteSetTheorems, TLAPS

-----------------------------------------------------------------------------
(* Where the steps of each component lead: nowhere but to its own labels.  *)

StaysIn(labels) == pc # "idle" /\ pc' \in labels \union Ends /\ (Succeeds \/ Fails)

LEMMA NodeStepStays ==
  NodeStep => StaysIn(NodePCs \ {"enrich", "skStart"})
<1>1. ASSUME NodeStep PROVE StaysIn(NodePCs \ {"enrich", "skStart"})
  BY <1>1 DEF StaysIn, NodeStep, NodePCs, Ends, Enrich, StartContainerd, StartKubelet, StartNPD,
       ResetKubeletMask, ResetKubeletResolve, ResetKubeletUnmount, ResetContainerdMask,
       ResetContainerdClean, AfterUnmount, NodeCall, Call, Attempt, Decide, Goto, Succeeds, Fails
<1> QED BY <1>1

LEMMA DownloadStepStays ==
  DownloadStep => StaysIn(DownloadPCs)
<1>1. ASSUME DownloadStep PROVE StaysIn(DownloadPCs)
  BY <1>1 DEF StaysIn, DownloadStep, DownloadPCs, Ends, Inspect, FetchFails, FetchEntry,
       FetchBinary, InstallFile, NextPackage, Succeeds, Fails
<1> QED BY <1>1

LEMMA ArcStepStays ==
  ArcStep => StaysIn(ArcPCs)
<1>1. ASSUME ArcStep PROVE StaysIn(ArcPCs)
  BY <1>1 DEF StaysIn, ArcStep, ArcPCs, Ends, InstallArc, UninstallArc, ArcAuth, ArcInstall,
       ArcClients, ArcGet, ArcConnect, ArcWait, ArcValidate, ArcAssign, ArcPermissions, ArcVerify,
       NextRole, Worse, Reports, Installs, UnAuth, UnClients, UnGet, UnRoles, UnRegister,
       UnDisconnect, UnAgent, Uninstalls, Call, Attempt, Goto, Succeeds, Fails
<1> QED BY <1>1

LEMMA KubeadmStepStays ==
  KubeadmStep => StaysIn(KubeadmPCs)
<1>1. ASSUME Join PROVE StaysIn(KubeadmPCs)
  BY <1>1 DEF StaysIn, Join, KubeadmPCs, Ends, JoinUnit, JoinReload, JoinEnable, JoinRun, JoinPoll,
       KubeadmCall, Call, Attempt, Goto, Succeeds, Fails
<1>2. ASSUME Reset PROVE StaysIn(KubeadmPCs)
  BY <1>2 DEF StaysIn, Reset, KubeadmPCs, Ends, ResetRun, ResetStatus, ResetStop, ResetDisable,
       ResetMask, ResetClean, ResetOrder, KubeadmCall, Call, Attempt, Goto, Succeeds, Fails
<1> QED BY <1>1, <1>2 DEF KubeadmStep

LEMMA AKSStepStays ==
  AKSStep => StaysIn(AKSPCs)
<1>1. ASSUME AKSStep PROVE StaysIn(AKSPCs)
  BY <1>1 DEF StaysIn, AKSStep, AKSPCs, Ends, AKSSpec, AKSCredential, PoolGet, PoolPut, MachineGet,
       MachinePut, AfterMachineError, Call, Attempt, Decide, Goto, Succeeds, Fails
<1> QED BY <1>1

LEMMA CordonStepStays ==
  CordonStep => StaysIn(CordonPCs)
<1>1. Done => pc' \in CordonPCs \union Ends
  BY DEF Done, CordonPCs, Ends, Proceed, Returns, AfterUpgrade, Goto
<1>2. GivenUp => pc' \in CordonPCs \union Ends
  BY DEF GivenUp, CordonPCs, Ends, Proceed, Returns, Goto
<1>3. ASSUME CordonStep PROVE StaysIn(CordonPCs)
  BY <1>1, <1>2, <1>3 DEF StaysIn, CordonStep, CordonPCs, Ends, GetClient, AfterClient, LastResort,
       GetNode, WriteNode, OnDenial, GetAdmin, Upgrade, Goto, Succeeds, Fails
<1> QED BY <1>3

LEMMA HostStepStays ==
  HostStep => StaysIn(HostPCs)
<1>1. ASSUME ConfigureBaseOS PROVE StaysIn(HostPCs)
  BY <1>1 DEF StaysIn, ConfigureBaseOS, HostPCs, Ends, OsPackages, OsSysctl, OsSysctlApply,
       OsSwapoff, AfterSwapoff, OsBackup, OsFstab, OsResolv, OsResolvReload, OsResolvStart, HostCall,
       HostDecides, Call, Attempt, Decide, Goto, Succeeds, Fails
<1>2. ASSUME DisableDocker PROVE StaysIn(HostPCs)
  BY <1>2 DEF StaysIn, DisableDocker, HostPCs, Ends, DockerStatus, DockerStop, DockerDisable,
       DockerMask, DockerConfig, DockerCall, NextUnit, DockerGivenUp, HostCall, Call, Attempt, Goto,
       Succeeds, Fails
<1>3. ASSUME ConfigureCNI \/ ConfigureIPTables PROVE StaysIn(HostPCs)
  BY <1>3 DEF StaysIn, ConfigureCNI, ConfigureIPTables, HostPCs, Ends, IpRules, IpUnit,
       IpEnable, IpReload, IpStart, HostCall, Call, Attempt, Goto, Succeeds, Fails
<1> QED BY <1>1, <1>2, <1>3 DEF HostStep

-----------------------------------------------------------------------------
(* The inductive invariant.                                                *)

Bootstrapping == procedure \in {"bootstrap", "rebootstrap"}

\* A run is at one of its steps; only a bootstrap, of a valid file, has the step
\* that starts the kubelet.
RunInv ==
  /\ Len(steps) \in Nat
  /\ pc = "idle" \/ position \in 1..Len(steps)
  /\ Bootstrapping \/ daemon => Valid(file)
  /\ Bootstrapping \/ \A i \in 1..Len(steps) : steps[i] # "start-kubelet"
  /\ pc = "skStart" => Bootstrapping
  /\ pc = "idle" => procedure = "none"

\* Between the backup and the change nothing else touches the file.
FstabInv ==
  /\ {"fstab", "backup"} \subseteq DOMAIN host
  /\ FstabKept
  /\ pc = "osBackup" => host.fstab = "swap"
  /\ pc = "osFstab" => host.backup = "swap"

IInv == RunInv /\ FstabInv

LEMMA InitIInv == Init => IInv
<1>1. ASSUME Init PROVE RunInv
  BY <1>1 DEF Init, RunInv, Bootstrapping
<1>2. ASSUME Init PROVE FstabInv
  <2>1. PICK delivered \in Hosts : HostInit(delivered)
    BY <1>2, SetupsAssumption DEF Init, SetupsOf
  <2>2. delivered \in AllHosts
    BY <2>1, HostsAssumption
  <2> QED BY <1>2, <2>1, <2>2 DEF Init, HostInit, AllHosts, FstabInv, FstabKept
<1> QED BY <1>1, <1>2 DEF IInv

LEMMA ValidStays == ASSUME UNCHANGED file PROVE Valid(file) => Valid(file)'
BY DEF Valid, ValidToken, Methods, IsARCEnabled, IsSPConfigured, IsMIConfigured,
       IsBootstrapTokenConfigured

\* A call that neither changes the file system table nor leads to one that does,
\* nor to the start of the kubelet.
LEMMA Elsewhere ==
  ASSUME IInv, Still, pc # "idle", UNCHANGED host,
         pc' \notin {"idle", "skStart", "osBackup", "osFstab"}
  PROVE  IInv'
<1>1. Valid(file) => Valid(file)'
  BY ValidStays DEF Still
<1> QED BY <1>1 DEF IInv, RunInv, FstabInv, FstabKept, Bootstrapping, Still, runVars

\* executeStep finds the kubelet's start only in a bootstrap.
LEMMA ExecuteStepKeeps == ASSUME IInv, ExecuteStep PROVE IInv'
<1> USE DEF At
<1>1. CASE BeginNodeStep
  <2>1. pc = "next" /\ Still /\ UNCHANGED host
    BY <1>1 DEF BeginNodeStep, OnlyNode, hostVars
  <2>2. CASE pc' = "skStart"
    <3>1. steps[position] = "start-kubelet"
      BY <1>1, <2>2 DEF BeginNodeStep, BeginEnrich, BeginStartKubelet, Goto
    <3>2. Bootstrapping
      BY <2>1, <3>1 DEF IInv, RunInv
    <3>3. Valid(file) => Valid(file)'
      BY <2>1, ValidStays DEF Still
    <3> QED BY <2>1, <2>2, <3>2, <3>3 DEF IInv, RunInv, FstabInv, FstabKept, Bootstrapping,
             Still, runVars
  <2>3. CASE pc' # "skStart"
    <3>1. pc' \notin {"idle", "osBackup", "osFstab"}
      BY <1>1 DEF BeginNodeStep, BeginEnrich, BeginStartKubelet, Goto
    <3> QED BY <2>1, <2>3, <3>1, Elsewhere
  <2> QED BY <2>2, <2>3
<1>2. CASE BeginDownloadStep
  BY <1>2, Elsewhere DEF BeginDownloadStep, BeginDownload, OnlyDownloads, hostVars
<1>3. CASE BeginHostStep
  BY <1>3, Elsewhere DEF BeginHostStep, BeginDisableDocker, OnlyHost, hostVars, Goto
<1>4. CASE BeginArcStep
  BY <1>4, Elsewhere DEF BeginArcStep, BeginInstallArc, BeginUninstallArc, OnlyArc, hostVars
<1>5. CASE BeginKubeadmStep
  BY <1>5, Elsewhere DEF BeginKubeadmStep, BeginJoin, BeginReset, ResetOrder, OnlyKubeadm, hostVars
<1>6. CASE BeginAKSStep
  BY <1>6, Elsewhere DEF BeginAKSStep, BeginEnsureMachine, OnlyAKS, hostVars
<1>7. CASE BeginCordonStep
  BY <1>7, Elsewhere DEF BeginCordonStep, BeginMaintenance, OnlyCordon, hostVars
<1> QED BY <1>1, <1>2, <1>3, <1>4, <1>5, <1>6, <1>7 DEF ExecuteStep

\* The same, for what ends or goes on with a run.
LEMMA RunGoesOn ==
  ASSUME IInv, pc \in Ends, OnlyRun, NextStep, MoreSteps
  PROVE  IInv'
<1>1. UNCHANGED <<host, file>>
  BY DEF OnlyRun, hostVars
<1>2. FstabInv'
  BY <1>1 DEF IInv, FstabInv, FstabKept, NextStep, Goto
<1>3. Valid(file) => Valid(file)'
  BY <1>1, ValidStays
<1>4. pc' = "next" /\ UNCHANGED <<procedure, steps, daemon>> /\ position' = position + 1
  BY DEF NextStep, Goto
<1>5. position \in 1..Len(steps) /\ Len(steps) \in Nat
  BY DEF IInv, RunInv, Ends
<1>6. position + 1 \in 1..Len(steps)
  BY <1>5 DEF MoreSteps
<1>7. RunInv'
  BY <1>3, <1>4, <1>6 DEF IInv, RunInv, Bootstrapping
<1> QED BY <1>2, <1>7 DEF IInv

LEMMA RunEnds ==
  ASSUME IInv, OnlyRun, NEW success, Finish(success)
  PROVE  IInv'
<1>1. UNCHANGED <<host, file>>
  BY DEF OnlyRun, hostVars
<1>2. FstabInv'
  BY <1>1 DEF IInv, FstabInv, FstabKept, Finish, Goto
<1>3. Valid(file) => Valid(file)'
  BY <1>1, ValidStays
<1>4. daemon' => daemon \/ Bootstrapping
  BY DEF Finish, Bootstrapping
<1>5. pc' = "idle" /\ procedure' = "none" /\ steps' = <<>>
  BY DEF Finish, Goto
<1>6. Len(steps') = 0
  BY <1>5
<1>7. RunInv'
  BY <1>3, <1>4, <1>5, <1>6 DEF IInv, RunInv, Bootstrapping
<1> QED BY <1>2, <1>7 DEF IInv

\* Of the calls that prepare the host three are about the table; the others
\* change another setting.
LEMMA HostStepKeeps == ASSUME IInv, HostStep, OnlyHost PROVE IInv'
<1>1. pc # "idle" /\ pc' \in HostPCs \union Ends
  BY HostStepStays DEF StaysIn
<1>2. Valid(file) => Valid(file)'
  BY ValidStays DEF OnlyHost, Still
<1>3. RunInv'
  BY <1>1, <1>2 DEF IInv, RunInv, Bootstrapping, OnlyHost, Still, runVars, HostPCs, Ends
<1> USE DEF HostCall, HostDecides, Call, Attempt, Decide, Goto, FstabInv, FstabKept,
        hostVars
<1>4. ASSUME OsPackages \/ OsSysctl \/ OsSysctlApply PROVE FstabInv'
  <2>1. CASE OsPackages
    BY <2>1 DEF IInv, OsPackages
  <2>2. CASE OsSysctl
    BY <2>2 DEF IInv, OsSysctl
  <2>3. CASE OsSysctlApply
    BY <2>3 DEF IInv, OsSysctlApply
  <2> QED BY <1>4, <2>1, <2>2, <2>3
<1>5. ASSUME OsSwapoff PROVE FstabInv'
  BY <1>5 DEF IInv, OsSwapoff, AfterSwapoff
<1>6. ASSUME OsBackup PROVE FstabInv'
  BY <1>6 DEF IInv, OsBackup
<1>7. ASSUME OsFstab PROVE FstabInv'
  BY <1>7 DEF IInv, OsFstab
<1>8. ASSUME OsResolv \/ OsResolvReload \/ OsResolvStart PROVE FstabInv'
  BY <1>8 DEF IInv, OsResolv, OsResolvReload, OsResolvStart
<1>9. ASSUME DisableDocker PROVE FstabInv'
  BY <1>9 DEF IInv, DisableDocker, DockerStatus, DockerStop, DockerDisable, DockerMask,
       DockerConfig, DockerCall, NextUnit, DockerGivenUp
<1>10. ASSUME ConfigureCNI \/ ConfigureIPTables PROVE FstabInv'
  BY <1>10 DEF IInv, ConfigureCNI, ConfigureIPTables, IpRules, IpUnit, IpEnable, IpReload, IpStart
<1> QED BY <1>3, <1>4, <1>5, <1>6, <1>7, <1>8, <1>9, <1>10 DEF IInv, HostStep, ConfigureBaseOS

\* Removing the kubelet's directories takes the CNI configuration with them.
LEMMA CleanKeeps == ASSUME IInv, ResetKubeletClean PROVE IInv'
<1>1. pc = "rkClean" /\ pc' \in Ends /\ Still
  BY DEF ResetKubeletClean, Call, Attempt, Goto, Ends
<1>2. host' = [host EXCEPT !.cni = FALSE] \/ host' = host
  BY DEF ResetKubeletClean, Call, Attempt
<1>3. FstabInv'
  BY <1>1, <1>2 DEF IInv, FstabInv, FstabKept, Ends
<1>4. Valid(file) => Valid(file)'
  BY <1>1, ValidStays DEF Still
<1>5. RunInv'
  BY <1>1, <1>4 DEF IInv, RunInv, Bootstrapping, Still, runVars, Ends
<1> QED BY <1>3, <1>5 DEF IInv

\* A new run is at the first of its steps.
LEMMA CommandsKeep == ASSUME IInv, Commands PROVE IInv'
<1>1. UNCHANGED <<host, file>> /\ pc' = "next" /\ position' = 1
  BY DEF Commands, StartAgent, BootstrapAgain, StartUnbootstrap, StartApply, StartUpgrade, Run,
       OnlyRun, hostVars, Goto
<1>2. FstabInv'
  BY <1>1 DEF IInv, FstabInv, FstabKept
<1>3. Valid(file) => Valid(file)'
  BY <1>1, ValidStays
<1>4. Len(BootstrapSteps) = 13
  BY DEF BootstrapSteps
<1>5. CASE StartAgent
  <2>1. procedure' \in {"bootstrap", "rebootstrap"} /\ steps' = BootstrapSteps /\ Valid(file)
    BY <1>5 DEF StartAgent, Run, LoadConfig, Bootstrapping
  <2>2. Len(steps') = 13
    BY <1>4, <2>1
  <2>3. RunInv'
    BY <1>1, <1>3, <2>1, <2>2 DEF RunInv, Bootstrapping
  <2> QED BY <1>2, <2>3 DEF IInv
<1>6. CASE BootstrapAgain
  <2>1. procedure' \in {"bootstrap", "rebootstrap"} /\ steps' = BootstrapSteps /\ Valid(file)
    BY <1>6 DEF BootstrapAgain, Run, Bootstrapping, IInv, RunInv
  <2>2. Len(steps') = 13
    BY <1>4, <2>1
  <2>3. RunInv'
    BY <1>1, <1>3, <2>1, <2>2 DEF RunInv, Bootstrapping
  <2> QED BY <1>2, <2>3 DEF IInv
<1>7. CASE StartUnbootstrap
  <2>1. procedure' = "unbootstrap" /\ steps' = UnbootstrapSteps /\ Valid(file)
    BY <1>7 DEF StartUnbootstrap, Run
  <2>2. /\ Len(UnbootstrapSteps) = 3
        /\ \A i \in 1..3 : UnbootstrapSteps[i] # "start-kubelet"
    BY DEF UnbootstrapSteps
  <2> QED BY <1>1, <1>2, <1>3, <2>1, <2>2 DEF IInv, RunInv
<1>8. CASE StartApply
  <2>1. PICK actions \in ActionFiles(way) :
          /\ \A i \in 1..Len(actions) : actions[i] \in Registered
          /\ Run("apply", actions)
    BY <1>8 DEF StartApply
  <2>2. Len(actions) \in {1, 2}
    BY <2>1 DEF ActionFiles
  <2>3. \A i \in 1..Len(actions) : actions[i] # "start-kubelet"
    BY <2>1 DEF Registered
  <2>4. steps' = actions /\ daemon' = daemon /\ procedure' = "apply"
    BY <1>8, <2>1 DEF StartApply, Run
  <2>5. procedure = "none"
    BY <2>1 DEF Run
  <2> QED BY <1>1, <1>2, <1>3, <2>2, <2>3, <2>4, <2>5 DEF IInv, RunInv, Bootstrapping
<1>9. CASE StartUpgrade
  <2>1. procedure' = "upgrade" /\ steps' = <<"upgrade">> /\ daemon' = daemon
    BY <1>9 DEF StartUpgrade, Run
  <2>2. Len(<<"upgrade">>) = 1
        /\ <<"upgrade">>[1] # "start-kubelet"
    OBVIOUS
  <2> QED BY <1>1, <1>2, <1>3, <2>1, <2>2 DEF IInv, RunInv, Bootstrapping
<1> QED BY <1>5, <1>6, <1>7, <1>8, <1>9 DEF Commands

\* A run that is cut short leaves the host as it is; a reboot reads the table.
LEMMA AbandonedKeeps == ASSUME IInv, Killed \/ Reboot PROVE IInv'
<1>1. /\ pc' = "idle" /\ steps' = <<>> /\ procedure' = "none" /\ daemon' = FALSE
      /\ UNCHANGED file
  BY DEF Killed, Reboot, Abandoned, Goto
<1>2. CASE Killed
  BY <1>1, <1>2 DEF IInv, RunInv, FstabInv, FstabKept, Killed, Bootstrapping
<1>3. CASE Reboot
  <2>1. host' = [host EXCEPT !.swap = host.fstab = "swap", !.sysctl = host.sysctlFile,
                             !.rules = Boots("service") /\ ~host.iptablesOff]
    BY <1>3 DEF Reboot, HostReboots
  <2>2. DOMAIN host' = DOMAIN host /\ host'.fstab = host.fstab /\ host'.backup = host.backup
    BY <2>1 DEF IInv, FstabInv
  <2> QED BY <1>1, <2>2 DEF IInv, RunInv, FstabInv, FstabKept, Bootstrapping
<1> QED BY <1>2, <1>3

LEMMA WorldKeeps == ASSUME IInv, World PROVE IInv'
<1>1. CASE Reboot
  BY <1>1, AbandonedKeeps
<1>2. CASE ~Reboot
  <2>1. Still /\ UNCHANGED pc
    BY <1>2 DEF World, NodeLives, DockerLives, DockerDies, DockerRestarts, SocketActivates,
         IdentityAppears, ArcDisconnects, KubeletLives, KubeletFails, KubeletRestarts,
         ControlPlaneManages, CertificatesRotate, OperatorMarks, OnlyNode, OnlyHost, OnlyArc,
         OnlyKubeadm, OnlyAKS, OnlyCordon
  <2>2. \/ UNCHANGED host
        \/ host' = [host EXCEPT !.rules = host.rules \/ ~host.iptablesOff]
    BY <1>2 DEF World, NodeLives, DockerLives, DockerDies, DockerRestarts, SocketActivates,
         DockerStarts, OnlyNode, OnlyArc, OnlyKubeadm, OnlyAKS, OnlyCordon, hostVars
  <2>3. DOMAIN host' = DOMAIN host /\ host'.fstab = host.fstab /\ host'.backup = host.backup
    BY <2>2 DEF IInv, FstabInv
  <2>4. Valid(file) => Valid(file)'
    BY <2>1, ValidStays DEF Still
  <2> QED BY <2>1, <2>3, <2>4 DEF IInv, RunInv, FstabInv, FstabKept, Bootstrapping, Still, runVars
<1> QED BY <1>1, <1>2

LEMMA Invariance == IInv /\ [Next]_vars => IInv'
<1> SUFFICES ASSUME IInv, [Next]_vars PROVE IInv'
  OBVIOUS
<1>1. CASE ExecuteStep
  BY <1>1, ExecuteStepKeeps
<1>2. CASE StepSucceeds
  BY <1>2, RunGoesOn, RunEnds DEF StepSucceeds, Ends
<1>3. CASE StepFails
  BY <1>3, RunGoesOn, RunEnds DEF StepFails, Ends
<1>4. CASE NodeStep /\ OnlyNode
  BY <1>4, NodeStepStays, Elsewhere DEF StaysIn, OnlyNode, hostVars, NodePCs, Ends
<1>5. CASE ResetKubeletClean
  BY <1>5, CleanKeeps
<1>6. CASE DownloadStep /\ OnlyDownloads
  BY <1>6, DownloadStepStays, Elsewhere DEF StaysIn, OnlyDownloads, hostVars, DownloadPCs, Ends
<1>7. CASE HostStep /\ OnlyHost
  BY <1>7, HostStepKeeps
<1>8. CASE ArcStep /\ OnlyArc
  BY <1>8, ArcStepStays, Elsewhere DEF StaysIn, OnlyArc, hostVars, ArcPCs, Ends
<1>9. CASE KubeadmStep /\ OnlyKubeadm
  BY <1>9, KubeadmStepStays, Elsewhere DEF StaysIn, OnlyKubeadm, hostVars, KubeadmPCs, Ends
<1>10. CASE AKSStep /\ OnlyAKS
  BY <1>10, AKSStepStays, Elsewhere DEF StaysIn, OnlyAKS, hostVars, AKSPCs, Ends
<1>11. CASE CordonStep /\ OnlyCordon
  BY <1>11, CordonStepStays, Elsewhere DEF StaysIn, OnlyCordon, hostVars, CordonPCs, Ends
<1>12. CASE Commands
  BY <1>12, CommandsKeep
<1>13. CASE Killed
  BY <1>13, AbandonedKeeps
<1>14. CASE World
  BY <1>14, WorldKeeps
<1>15. CASE UNCHANGED vars
  <2>1. UNCHANGED <<pc, file, runVars, host>>
    BY <1>15 DEF vars, hostVars
  <2>2. Valid(file) => Valid(file)'
    BY <2>1, ValidStays
  <2> QED BY <2>1, <2>2 DEF IInv, RunInv, FstabInv, FstabKept, Bootstrapping, runVars
<1> QED BY <1>1, <1>2, <1>3, <1>4, <1>5, <1>6, <1>7, <1>8, <1>9, <1>10, <1>11, <1>12, <1>13,
           <1>14, <1>15 DEF Next, ProcessStep

-----------------------------------------------------------------------------
\* The backup that configure-os makes before it comments out the swap lines still
\* has them, however often the step was cut short, failed or done again
\* (commentOutSwapInFstab).
THEOREM TableKept == Spec => []FstabKept
<1>1. IInv => FstabKept
  BY DEF IInv, FstabInv
<1> QED BY <1>1, InitIInv, Invariance, PTL DEF Spec

\* Of a valid file the one method is the credential that startKubelet chooses, and
\* the agent's own calls are made with it if it is an identity in Azure.
LEMMA OneMethod ==
  ASSUME Valid(file)
  PROVE  /\ Methods(file) = {KubeletCredential(file)}
         /\ KubeletCredential(file) \in {"sp", "mi"} =>
              UserCredential(file) = KubeletCredential(file)
<1>1. PICK m : Methods(file) = {m}
  <2>1. Methods(file) \in SUBSET {"arc", "sp", "mi", "token"}
    BY DEF Methods
  <2>2. IsFiniteSet({"arc", "sp", "mi", "token"})
    <3>1. IsFiniteSet({"arc"} \union {"sp"})
      BY FS_Singleton, FS_AddElement
    <3>2. IsFiniteSet(({"arc"} \union {"sp"}) \union {"mi"})
      BY <3>1, FS_AddElement
    <3>3. IsFiniteSet((({"arc"} \union {"sp"}) \union {"mi"}) \union {"token"})
      BY <3>2, FS_AddElement
    <3>4. {"arc", "sp", "mi", "token"} = (({"arc"} \union {"sp"}) \union {"mi"}) \union {"token"}
      OBVIOUS
    <3> QED BY <3>3, <3>4
  <2>3. IsFiniteSet(Methods(file))
    BY <2>1, <2>2, FS_Subset
  <2> QED BY <2>3, FS_Singleton DEF Valid
<1>2. KubeletCredential(file) \in Methods(file)
  BY <1>1 DEF Methods, KubeletCredential
<1>3. Methods(file) = {KubeletCredential(file)}
  BY <1>1, <1>2
<1>4. KubeletCredential(file) \in {"sp", "mi"} => UserCredential(file) = KubeletCredential(file)
  BY DEF KubeletCredential, UserCredential
<1> QED BY <1>3, <1>4

\* Whatever the configuration files, a kubelet is only started under the one
\* identity its file configures: no procedure but a bootstrap starts one, and no
\* bootstrap runs, or is repeated by the daemon, for a file that is not valid.
THEOREM OneIdentity == Spec => []SingleIdentity
<1>1. IInv => SingleIdentity
  BY OneMethod DEF IInv, RunInv, Bootstrapping, SingleIdentity
<1> QED BY <1>1, InitIInv, Invariance, PTL DEF Spec

-----------------------------------------------------------------------------
(* Unbootstrap to its end.                                                 *)

\* A failing call counts as one.
LEMMA FaultsTyped == Spec => [](faults \in Nat)
<1>1. Init => faults \in Nat
  BY SparedAssumption, MaxFaultsAssumption DEF Init
<1>2. faults \in Nat /\ [Next]_vars => (faults \in Nat)'
  <2> SUFFICES ASSUME faults \in Nat, [Next]_vars PROVE UNCHANGED faults \/ Fails
    BY DEF Fails
  <2>1. CASE ExecuteStep
    BY <2>1 DEF ExecuteStep, BeginNodeStep, BeginDownloadStep, BeginHostStep, BeginArcStep,
         BeginKubeadmStep, BeginAKSStep, BeginCordonStep, At
  <2>2. CASE StepSucceeds \/ StepFails \/ Commands
    BY <2>2 DEF StepSucceeds, StepFails, OnlyRun, Commands, StartAgent, BootstrapAgain,
         StartUnbootstrap, StartApply, StartUpgrade
  <2>3. CASE ResetKubeletClean
    BY <2>3 DEF ResetKubeletClean, Call, Attempt, Succeeds
  <2>4. CASE \/ NodeStep \/ DownloadStep \/ HostStep \/ ArcStep \/ KubeadmStep \/ AKSStep
             \/ CordonStep
    BY <2>4, NodeStepStays, DownloadStepStays, HostStepStays, ArcStepStays, KubeadmStepStays,
       AKSStepStays, CordonStepStays DEF StaysIn, Succeeds
  <2>5. CASE Killed \/ Reboot
    BY <2>5 DEF Killed, Reboot, Succeeds
  <2>6. CASE World /\ ~Reboot
    BY <2>6 DEF World, NodeLives, DockerLives, DockerDies, DockerRestarts, SocketActivates,
         IdentityAppears, ArcDisconnects, KubeletLives, KubeletFails, KubeletRestarts,
         ControlPlaneManages, CertificatesRotate, OperatorMarks
  <2>7. CASE UNCHANGED vars
    BY <2>7 DEF vars
  <2> QED BY <2>1, <2>2, <2>3, <2>4, <2>5, <2>6, <2>7 DEF Next, ProcessStep
<1> QED BY <1>1, <1>2, PTL DEF Spec

\* An unbootstrap that is not cut short ends after its last step, whatever failed
\* before it (ExecuteSteps with failFast off).
THEOREM UnbootstrapEnds == Spec => UnbootstrapGoesOn
<1>1. ASSUME IInv, faults \in Nat, [Next]_vars
      PROVE  [procedure = "unbootstrap" /\ pc' = "idle" /\ faults' = faults
                => position = Len(steps)]_vars
  <2> SUFFICES ASSUME Next, procedure = "unbootstrap", pc' = "idle", faults' = faults
               PROVE  position = Len(steps)
    BY <1>1
  <2>1. pc # "idle" /\ position \in 1..Len(steps) /\ Len(steps) \in Nat
    BY <1>1 DEF IInv, RunInv
  <2>2. ~Fails
    BY <1>1 DEF Fails
  <2>3. CASE StepSucceeds \/ StepFails
    <3>1. ~MoreSteps
      BY <2>3 DEF StepSucceeds, StepFails, NextStep, FailsFast, Goto
    <3> QED BY <2>1, <3>1 DEF MoreSteps
  <2>4. CASE Killed \/ Reboot
    BY <2>2, <2>4 DEF Killed, Reboot
  <2>5. CASE ExecuteStep
    BY <2>5 DEF ExecuteStep, BeginNodeStep, BeginEnrich, BeginStartKubelet, BeginDownloadStep,
         BeginDownload, BeginHostStep, BeginDisableDocker, BeginArcStep, BeginInstallArc,
         BeginUninstallArc, BeginKubeadmStep, BeginJoin, BeginReset, ResetOrder, BeginAKSStep,
         BeginEnsureMachine, BeginCordonStep, BeginMaintenance, Goto
  <2>6. CASE ResetKubeletClean
    BY <2>6 DEF ResetKubeletClean, Call, Attempt, Goto
  <2>7. CASE \/ NodeStep \/ DownloadStep \/ HostStep \/ ArcStep \/ KubeadmStep \/ AKSStep
             \/ CordonStep
    BY <2>7, NodeStepStays, DownloadStepStays, HostStepStays, ArcStepStays, KubeadmStepStays,
       AKSStepStays, CordonStepStays
       DEF StaysIn, NodePCs, DownloadPCs, HostPCs, ArcPCs, KubeadmPCs, AKSPCs, CordonPCs, Ends
  <2>8. CASE Commands
    BY <2>8 DEF Commands, StartAgent, BootstrapAgain, StartUnbootstrap, StartApply,
         StartUpgrade, Run
  <2>9. CASE World /\ ~Reboot
    BY <2>1, <2>9 DEF World, NodeLives, DockerLives, DockerDies, DockerRestarts,
         SocketActivates, IdentityAppears, ArcDisconnects, KubeletLives, KubeletFails,
         KubeletRestarts, ControlPlaneManages, CertificatesRotate, OperatorMarks
  <2> QED BY <2>3, <2>4, <2>5, <2>6, <2>7, <2>8, <2>9 DEF Next, ProcessStep
<1>2. IInv /\ faults \in Nat /\ [Next]_vars
        => [procedure = "unbootstrap" /\ pc' = "idle" /\ faults' = faults
              => position = Len(steps)]_vars
  BY <1>1
<1> QED BY <1>2, InitIInv, Invariance, FaultsTyped, PTL DEF Spec, UnbootstrapGoesOn

-----------------------------------------------------------------------------
(* The labels from which something is destroyed, and who leads to them.    *)

\* Their calls only follow other calls of their step.
Destructive == {"machinePut", "rkResolve", "rkUnmount", "rkClean"}

Between == ExecuteStep \/ StepSucceeds \/ StepFails \/ Commands \/ Killed

LEMMA BetweenSteps == ASSUME Between PROVE UNCHANGED <<aks, node>> /\ pc' \notin Destructive
<1> USE DEF Destructive
<1>1. CASE ExecuteStep
  BY <1>1 DEF ExecuteStep, BeginNodeStep, BeginEnrich, BeginStartKubelet, BeginDownloadStep,
       BeginDownload, BeginHostStep, BeginDisableDocker, BeginArcStep, BeginInstallArc,
       BeginUninstallArc, BeginKubeadmStep, BeginJoin, BeginReset, ResetOrder, BeginAKSStep,
       BeginEnsureMachine, BeginCordonStep, BeginMaintenance, Goto, OnlyNode, OnlyDownloads,
       OnlyHost, OnlyArc, OnlyKubeadm, OnlyAKS, OnlyCordon
<1>2. CASE StepSucceeds \/ StepFails
  BY <1>2 DEF StepSucceeds, StepFails, NextStep, Finish, OnlyRun, Goto
<1>3. CASE Commands
  BY <1>3 DEF Commands, StartAgent, BootstrapAgain, StartUnbootstrap, StartApply,
       StartUpgrade, Run, OnlyRun, Goto
<1>4. CASE Killed
  BY <1>4 DEF Killed, Abandoned, Goto
<1> QED BY <1>1, <1>2, <1>3, <1>4 DEF Between

\* The machine is only written where there is none, and the control plane does not
\* make one.
MachineInv == "machine" \in DOMAIN aks /\ (pc = "machinePut" => aks.machine = "none")

LEMMA MachineStep == ASSUME MachineInv, [Next]_vars PROVE MachineInv' /\ [ControlPlaneKept]_vars
<1> USE DEF MachineInv, ControlPlaneKept
<1>1. CASE Between
  BY <1>1, BetweenSteps DEF Destructive
<1>2. CASE AKSStep
  BY <1>2 DEF AKSStep, AKSSpec, AKSCredential, PoolGet, PoolPut, MachineGet, MachinePut,
       AfterMachineError, Call, Attempt, Decide, Goto
<1>3. CASE \/ NodeStep /\ OnlyNode
           \/ DownloadStep /\ OnlyDownloads
           \/ HostStep /\ OnlyHost
           \/ ArcStep /\ OnlyArc
           \/ KubeadmStep /\ OnlyKubeadm
           \/ CordonStep /\ OnlyCordon
  BY <1>3, NodeStepStays, DownloadStepStays, HostStepStays, ArcStepStays, KubeadmStepStays,
     CordonStepStays
     DEF StaysIn, NodePCs, DownloadPCs, HostPCs, ArcPCs, KubeadmPCs, CordonPCs, Ends,
         OnlyNode, OnlyDownloads, OnlyHost, OnlyArc, OnlyKubeadm, OnlyCordon
<1>4. CASE ResetKubeletClean
  BY <1>4 DEF ResetKubeletClean, Call, Attempt, Goto
<1>5. CASE ControlPlaneManages
  BY <1>5 DEF ControlPlaneManages
<1>6. CASE Reboot
  BY <1>6 DEF Reboot, Abandoned, Goto
<1>7. CASE World /\ ~ControlPlaneManages /\ ~Reboot
  BY <1>7 DEF World, NodeLives, DockerLives, DockerDies, DockerRestarts, SocketActivates,
       IdentityAppears, ArcDisconnects, KubeletLives, KubeletFails, KubeletRestarts,
       CertificatesRotate, OperatorMarks, OnlyNode, OnlyHost, OnlyArc, OnlyKubeadm, OnlyCordon
<1>8. CASE UNCHANGED vars
  BY <1>8 DEF vars
<1> QED BY <1>1, <1>2, <1>3, <1>4, <1>5, <1>6, <1>7, <1>8 DEF Between, Next, ProcessStep

\* What the control plane made of the machine resource is never written over:
\* only a 404 leads to the PUT (ensureMachine).
THEOREM MachineStays == Spec => MachineKept
<1>1. Init => MachineInv
  BY DEF Init, AKSInit, MachineInv
<1>2. MachineInv /\ [Next]_vars => MachineInv' /\ [ControlPlaneKept]_vars
  BY MachineStep
<1> QED BY <1>1, <1>2, PTL DEF Spec, MachineKept

-----------------------------------------------------------------------------
(* The reset of the kubelet.                                               *)

\* Once the unit is masked the kubelet is down, unless it was between two runs,
\* and mounts nothing more; what is deleted has nothing mounted in it.
ResetInv ==
  /\ {"kubelet", "mounts", "slipped"} \subseteq DOMAIN node
  /\ node.kubelet \in {"no", "yes", "restarting"}
  /\ ~node.slipped /\ pc \in {"rkResolve", "rkUnmount", "rkClean"} => node.kubelet = "no"
  /\ NothingDeletedInVolumes

LEMMA NodeStepResets == ASSUME ResetInv, NodeStep PROVE ResetInv'
<1> USE DEF ResetInv, NothingDeletedInVolumes, NodeCall, Call, Attempt, Decide, Goto
<1>1. CASE Enrich \/ StartContainerd \/ StartNPD
  BY <1>1 DEF Enrich, StartContainerd, StartNPD
<1>2. CASE StartKubelet
  BY <1>2 DEF StartKubelet
<1>3. CASE ResetKubeletMask
  <2>1. CASE node' = node /\ pc' = "failed"
    BY <2>1
  <2>2. CASE node' = [node EXCEPT !.masked = node.root, !.kubelet = IF @ = "yes" THEN "no" ELSE @,
                                  !.slipped = @ \/ node.kubelet = "restarting"]
    <3>1. /\ DOMAIN node' = DOMAIN node
          /\ node'.kubelet = IF node.kubelet = "yes" THEN "no" ELSE node.kubelet
          /\ node'.slipped = (node.slipped \/ node.kubelet = "restarting")
      BY <2>2
    <3>2. ~node'.slipped => node.kubelet # "restarting"
      BY <3>1
    <3>3. pc' \in {"rkResolve", "failed"}
      BY <1>3 DEF ResetKubeletMask
    <3> QED BY <3>1, <3>2, <3>3
  <2> QED BY <1>3, <2>1, <2>2 DEF ResetKubeletMask
<1>4. CASE ResetKubeletResolve
  BY <1>4 DEF ResetKubeletResolve
<1>5. CASE ResetKubeletUnmount
  BY <1>5 DEF ResetKubeletUnmount, AfterUnmount
<1>6. CASE ResetContainerdMask \/ ResetContainerdClean
  BY <1>6 DEF ResetContainerdMask, ResetContainerdClean
<1> QED BY <1>1, <1>2, <1>3, <1>4, <1>5, <1>6 DEF NodeStep

LEMMA ResetInvariance == ASSUME ResetInv, [Next]_vars PROVE ResetInv'
<1> USE DEF ResetInv, NothingDeletedInVolumes
<1>1. CASE Between
  BY <1>1, BetweenSteps DEF Destructive
<1>2. CASE NodeStep
  BY <1>2, NodeStepResets
<1>3. CASE \/ AKSStep /\ OnlyAKS
           \/ DownloadStep /\ OnlyDownloads
           \/ HostStep /\ OnlyHost
           \/ ArcStep /\ OnlyArc
           \/ KubeadmStep /\ OnlyKubeadm
           \/ CordonStep /\ OnlyCordon
  BY <1>3, AKSStepStays, DownloadStepStays, HostStepStays, ArcStepStays, KubeadmStepStays,
     CordonStepStays
     DEF StaysIn, AKSPCs, DownloadPCs, HostPCs, ArcPCs, KubeadmPCs, CordonPCs, Ends,
         OnlyAKS, OnlyDownloads, OnlyHost, OnlyArc, OnlyKubeadm, OnlyCordon
<1>4. CASE ResetKubeletClean
  BY <1>4 DEF ResetKubeletClean, Call, Attempt, Goto
<1>5. CASE NodeLives
  BY <1>5 DEF NodeLives, KubeletDies, KubeletComesBack, PodsMount
<1>6. CASE Reboot
  BY <1>6 DEF Reboot, Abandoned, NodeReboots, Goto
<1>7. CASE World /\ ~NodeLives /\ ~Reboot
  BY <1>7 DEF World, DockerLives, DockerDies, DockerRestarts, SocketActivates,
       IdentityAppears, ArcDisconnects, KubeletLives, KubeletFails, KubeletRestarts,
       ControlPlaneManages, CertificatesRotate, OperatorMarks, OnlyHost, OnlyArc, OnlyKubeadm,
       OnlyAKS, OnlyCordon
<1>8. CASE UNCHANGED vars
  BY <1>8 DEF vars
<1> QED BY <1>1, <1>2, <1>3, <1>4, <1>5, <1>6, <1>7, <1>8 DEF Between, Next, ProcessStep

\* The directories of the kubelet are only deleted when no volume is mounted in
\* them any more, whatever could not be unmounted and whoever starts pods meanwhile
\* (the reset's unmountBelow before its removal of the directories).
THEOREM VolumesSpared == Spec => []NothingDeletedInVolumes
<1>1. Init => ResetInv
  BY DEF Init, ResetInv, NothingDeletedInVolumes
<1>2. ResetInv /\ [Next]_vars => ResetInv'
  BY ResetInvariance
<1>3. ResetInv => NothingDeletedInVolumes
  BY DEF ResetInv
<1> QED BY <1>1, <1>2, <1>3, PTL DEF Spec
===============================================================================
