---------------------------- MODULE BootstrapProofs ----------------------------
(* What a bootstrap has reached when the kubelet is started, and what stays *)
(* of it on a bootstrapped host.                                           *)
EXTENDS ProceduresTyping

-----------------------------------------------------------------------------
(* How far a bootstrap has come.                                           *)

\* The step at i has succeeded.
Past(i) == position > i \/ (position = i /\ pc = "ok")

\* The step at i succeeds now.
Completes(i) ==
  /\ Bootstrapping /\ position = i /\ steps = BootstrapSteps
  /\ pc # "ok" /\ pc' = "ok" /\ Still

LEMMA BootstrapLength == Len(BootstrapSteps) = 13
BY DEF BootstrapSteps

LEMMA StartKubeletAt ==
  ASSUME NEW i \in 1..13
  PROVE  /\ BootstrapSteps[i] = "start-kubelet" => i = 12
         /\ BootstrapSteps[i] = "start-containerd" => i = 10
BY DEF BootstrapSteps

LEMMA PositionTyped == ASSUME InOrder PROVE position \in Nat /\ Len(steps) \in Nat
<1>1. position \in 0..Len(steps) /\ Len(steps) \in Nat
  BY DEF InOrder, ProceduresTypeOK, IInv, RunInv
<1> QED BY <1>1

\* A bootstrap that fails is over, so that one that is past a step was so before,
\* or this is the step's end.
LEMMA PastChanges ==
  ASSUME InOrder, [Next]_vars, NEW i \in Nat \ {0}, Bootstrapping', Past(i)'
  PROVE  (Bootstrapping /\ Past(i) /\ wanted' = wanted) \/ Completes(i)
<1> USE DEF Past
<1>0. position \in Nat
  BY PositionTyped
<1>1. ASSUME Still, wanted' = wanted, pc # "ok" \/ UNCHANGED pc
      PROVE  (Bootstrapping /\ Past(i) /\ wanted' = wanted) \/ Completes(i)
  BY <1>0, <1>1 DEF InOrder, ProcedureInv, Bootstrapping, Still, runVars, Completes
<1>2. CASE \/ NodeTurn \/ DownloadTurn \/ HostTurn \/ ArcTurn \/ KubeadmTurn \/ AKSTurn \/ CordonTurn
  <2>1. Still /\ pc # "ok"
    BY <1>2 DEF NodeTurn, DownloadTurn, HostTurn, ArcTurn, KubeadmTurn, AKSTurn, CordonTurn, Turn,
         OnlyNode, OnlyDownloads, OnlyHost, OnlyArc, OnlyKubeadm, OnlyAKS, OnlyCordon, NodePCs,
         DownloadPCs, HostPCs, ArcPCs, KubeadmPCs, AKSPCs, CordonPCs
  <2>2. wanted' = wanted
    BY <1>2 DEF NodeTurn, DownloadTurn, HostTurn, ArcTurn, KubeadmTurn, AKSTurn, CordonTurn,
         OnlyNode, OnlyHost, OnlyArc, OnlyKubeadm, OnlyAKS, OnlyCordon, downloadVars,
         BeginDownloadStep, BeginDownload, DownloadStep, Inspect, FetchFails, FetchEntry,
         FetchBinary, InstallFile
  <2> QED BY <1>1, <2>1, <2>2
<1>3. CASE ResetKubeletClean
  BY <1>1, <1>3 DEF ResetKubeletClean, Call, Attempt, downloadVars
<1>4. CASE StepSucceeds
  BY <1>0, <1>4 DEF StepSucceeds, NextStep, Finish, Goto, OnlyRun, Bootstrapping, downloadVars
<1>5. CASE StepFails
  BY <1>5 DEF StepFails, FailsFast, NextStep, Finish, Bootstrapping
<1>6. CASE Commands
  <2>1. position' = 1 /\ pc' = "next"
    BY <1>6 DEF Commands, StartAgent, BootstrapAgain, StartUnbootstrap, StartApply, StartUpgrade,
         Run, Goto
  <2> QED BY <2>1
<1>7. CASE Killed \/ Reboot
  BY <1>7 DEF Killed, Reboot, Abandoned, Bootstrapping
<1>8. CASE WorldTurn \/ UNCHANGED vars
  BY <1>1, <1>8 DEF WorldTurn, vars, Still, downloadVars
<1> QED BY <1>2, <1>3, <1>4, <1>5, <1>6, <1>7, <1>8, Turns DEF InOrder, RunTurn

\* A host is bootstrapped at the end of a bootstrap, and not in its middle.
LEMMA JoinedChanges ==
  ASSUME InOrder, [Next]_vars, joined' \/ daemon'
  PROVE  \/ (joined' => joined) /\ (daemon' => daemon)
         \/ /\ Bootstrapping /\ position = 13 /\ pc = "ok"
            /\ UNCHANGED <<known, file, node, hostVars>> /\ pc' = "idle" /\ procedure' = "none"
<1>1. CASE StepSucceeds
  <2>1. CASE ~Bootstrapping
    BY <1>1, <2>1 DEF StepSucceeds, NextStep, Finish, Bootstrapping
  <2>2. CASE Bootstrapping /\ MoreSteps
    BY <1>1, <2>2 DEF StepSucceeds, NextStep
  <2>3. CASE Bootstrapping /\ ~MoreSteps
    <3>1. position \in 1..Len(steps) /\ steps = BootstrapSteps
      BY <1>1, <2>3 DEF StepSucceeds, InOrder, IInv, RunInv, ProcedureInv
    <3>2. position = 13
      BY <2>3, <3>1, BootstrapLength DEF MoreSteps
    <3> QED BY <1>1, <2>3, <3>2 DEF StepSucceeds, Finish, OnlyRun, Goto
  <2> QED BY <2>1, <2>2, <2>3
<1>2. CASE StepFails
  BY <1>2 DEF StepFails, NextStep, Finish
<1>3. CASE Commands
  BY <1>3 DEF Commands, StartAgent, BootstrapAgain, StartUnbootstrap, StartApply, StartUpgrade
<1>4. CASE Killed \/ Reboot
  BY <1>4 DEF Killed, Reboot, Abandoned
<1>5. CASE \/ NodeTurn \/ DownloadTurn \/ HostTurn \/ ArcTurn \/ KubeadmTurn \/ AKSTurn \/ CordonTurn
           \/ ResetKubeletClean \/ WorldTurn \/ UNCHANGED vars
  BY <1>5 DEF NodeTurn, DownloadTurn, HostTurn, ArcTurn, KubeadmTurn, AKSTurn, CordonTurn,
       OnlyNode, OnlyDownloads, OnlyHost, OnlyArc, OnlyKubeadm, OnlyAKS, OnlyCordon,
       ResetKubeletClean, WorldTurn, Still, runVars, vars
<1> QED BY <1>1, <1>2, <1>3, <1>4, <1>5, Turns DEF InOrder, RunTurn

\* To which component the step at a position belongs.
LEMMA CompletedBy == ASSUME InOrder, [Next]_vars, NEW i \in 2..11, Completes(i)
  PROVE  /\ steps[position] = BootstrapSteps[i]
         /\ i \in {2, 3, 9, 11} => HostTurn
         /\ i \in {4, 10} => NodeTurn
         /\ i \in {5, 6, 7, 8} => DownloadTurn
<1>1. steps[position] = BootstrapSteps[i]
  BY DEF Completes
<1>2. /\ i \in {2, 3, 9, 11} => BootstrapSteps[i] \in HostSteps
      /\ i \in {4, 10} => BootstrapSteps[i] \in NodeSteps \ {"reset-kubelet"}
      /\ i \in {5, 6, 7, 8} => BootstrapSteps[i] \in DownloadSteps
  BY DEF BootstrapSteps, HostSteps, NodeSteps, DownloadSteps
<1>3. ~ResetKubeletClean \/ steps[position] = "reset-kubelet"
  BY DEF ResetKubeletClean, Call, Attempt, InOrder, LabelInv, NodeLabels, StepIs
<1>4. ~RunTurn /\ ~Killed /\ ~Reboot /\ ~WorldTurn /\ ~UNCHANGED vars
  BY DEF Completes, RunTurn, Killed, Reboot, Abandoned, Goto, WorldTurn, vars
<1>5. \/ HostTurn /\ BootstrapSteps[i] \in HostSteps
      \/ NodeTurn /\ BootstrapSteps[i] \in NodeSteps
      \/ DownloadTurn /\ BootstrapSteps[i] \in DownloadSteps
      \/ BootstrapSteps[i] \notin HostSteps \union (NodeSteps \ {"reset-kubelet"})
                                  \union DownloadSteps
  BY <1>1, <1>3, <1>4, Turns, TurnsInSteps DEF InOrder, HostSteps, NodeSteps, DownloadSteps,
     ArcSteps, KubeadmSteps
<1> QED BY <1>1, <1>2, <1>5 DEF HostSteps, NodeSteps, DownloadSteps

\* Whether the host's steps are at work: what others do to the host.
LEMMA HostWorks == ASSUME InOrder, [Next]_vars
  PROVE \/ HostStep /\ OnlyHost
        \/ BeginHostStep
        \/ DockerLives /\ OnlyHost
        \/ HostReboots /\ pc' = "idle" /\ procedure' = "none"
        \/ UNCHANGED <<host, docker, slipped>> /\ unit' = "none" /\ pc' = "idle"
        \/ UNCHANGED <<pc, hostVars>>
        \/ UNCHANGED hostVars /\ pc' \notin HostPCs
        \/ ResetKubeletClean
<1>1. CASE NodeTurn \/ DownloadTurn \/ ArcTurn \/ KubeadmTurn \/ AKSTurn \/ CordonTurn
  BY <1>1 DEF NodeTurn, DownloadTurn, ArcTurn, KubeadmTurn, AKSTurn, CordonTurn, Turn, OnlyNode,
       OnlyDownloads, OnlyArc, OnlyKubeadm, OnlyAKS, OnlyCordon, NodePCs, DownloadPCs, HostPCs,
       ArcPCs, KubeadmPCs, AKSPCs, CordonPCs, Ends
<1>2. CASE RunTurn
  BY <1>2 DEF RunTurn, HostPCs
<1>3. CASE Killed \/ Reboot
  BY <1>3 DEF Killed, Reboot, Abandoned, Goto
<1>4. CASE WorldTurn
  BY <1>4 DEF WorldTurn, World, NodeLives, OnlyNode, OnlyArc, OnlyKubeadm, OnlyAKS, OnlyCordon
<1> QED BY <1>1, <1>2, <1>3, <1>4, Turns DEF InOrder, HostTurn, vars, hostVars

-----------------------------------------------------------------------------
(* Swap.                                                                   *)

\* No swap is in use, and none will be after a reboot.
SwapOff == ~host.swap /\ host.fstab # "swap"

SwapInv ==
  /\ pc \in {"osBackup", "osFstab"} => ~host.swap
  /\ pc \in {"osResolv", "osResolvReload", "osResolvStart"} => SwapOff
  /\ Bootstrapping /\ Past(2) => SwapOff
  /\ joined => SwapOff

\* One call that changes one setting leaves swap as it is, unless it is about swap.
LEMMA SettingKeepsSwap ==
  ASSUME HostTypeOK, NEW from, NEW next, NEW value,
         NEW field \in {"tools", "sysctlFile", "sysctl", "backup", "resolvUnit", "resolv", "cni",
                        "iptablesOff", "rules", "clear", "flushUnit", "flushEnabled"},
         HostCall(from, field, value, next)
  PROVE  host'.swap = host.swap /\ host'.fstab = host.fstab
BY DEF HostTypeOK, HostSettings, HostCall, Call, Attempt

\* What the steps of the host do about swap.
LEMMA StepsKeepSwap == ASSUME HostTypeOK, HostStep
  PROVE \/ host'.swap = host.swap /\ host'.fstab = host.fstab
        \/ OsSwapoff /\ (~host'.swap \/ host'.swap = host.swap) /\ host'.fstab = host.fstab
        \/ OsFstab /\ host'.swap = host.swap /\ host'.fstab \in {host.fstab, "noswap"}
<1>1. CASE OsSwapoff \/ OsFstab
  BY <1>1 DEF OsSwapoff, OsFstab, HostCall, Call, Attempt, HostTypeOK, HostSettings
<1>2. CASE OsPackages \/ OsSysctl \/ OsSysctlApply \/ OsBackup
  BY <1>2, SettingKeepsSwap DEF OsPackages, OsSysctl, OsSysctlApply, OsBackup, HostDecides, hostVars
<1>3. CASE OsResolv \/ OsResolvReload \/ OsResolvStart
  BY <1>3, SettingKeepsSwap DEF OsResolv, OsResolvReload, OsResolvStart
<1>4. CASE DisableDocker
  BY <1>4, SettingKeepsSwap DEF DisableDocker, DockerStatus, DockerStop, DockerDisable, DockerMask,
     DockerCall, DockerConfig
<1>5. CASE ConfigureCNI \/ ConfigureIPTables
  BY <1>5, SettingKeepsSwap DEF ConfigureCNI, ConfigureIPTables, IpRules, IpUnit, IpEnable, IpReload,
     IpStart
<1> QED BY <1>1, <1>2, <1>3, <1>4, <1>5 DEF HostStep, ConfigureBaseOS

\* Swap that is off stays off, whatever happens.
LEMMA SwapOffStays == ASSUME InOrder, [Next]_vars, SwapOff PROVE SwapOff'
<1>0. HostTypeOK
  BY DEF InOrder, ProceduresTypeOK
<1> USE DEF SwapOff
<1>1. CASE HostStep
  BY <1>0, <1>1, StepsKeepSwap
<1>2. CASE DockerLives
  BY <1>0, <1>2 DEF DockerLives, DockerDies, DockerRestarts, SocketActivates, DockerStarts, HostTypeOK,
       HostSettings
<1>3. CASE HostReboots
  BY <1>0, <1>3 DEF HostReboots, HostTypeOK, HostSettings
<1>4. CASE ResetKubeletClean
  BY <1>0, <1>4 DEF ResetKubeletClean, Call, Attempt, HostTypeOK, HostSettings
<1> QED BY <1>1, <1>2, <1>3, <1>4, HostWorks DEF BeginHostStep, hostVars

\* While configure-os runs.
LEMMA SwapWork == ASSUME InOrder, SwapInv, [Next]_vars
  PROVE /\ pc' \in {"osBackup", "osFstab"} => ~host'.swap
        /\ pc' \in {"osResolv", "osResolvReload", "osResolvStart"} => SwapOff'
<1>0. HostTypeOK
  BY DEF InOrder, ProceduresTypeOK
<1> USE DEF SwapInv, SwapOff
<1>1. CASE HostStep
  <2>1. CASE OsPackages \/ OsSysctl \/ OsSysctlApply
    BY <2>1 DEF OsPackages, OsSysctl, OsSysctlApply, HostDecides, HostCall, Call, Attempt, Decide, Goto
  <2>2. CASE OsSwapoff
    BY <1>0, <2>2 DEF OsSwapoff, AfterSwapoff, HostCall, Call, Attempt, Goto, HostTypeOK, HostSettings
  <2>3. CASE OsBackup
    BY <1>0, <2>3, SettingKeepsSwap DEF OsBackup, HostCall, Call, Attempt, Goto
  <2>4. CASE OsFstab
    BY <1>0, <2>4 DEF OsFstab, HostCall, Call, Attempt, Goto, HostTypeOK, HostSettings
  <2>5. CASE OsResolv \/ OsResolvReload \/ OsResolvStart
    <3>1. /\ pc \in {"osResolv", "osResolvReload", "osResolvStart"}
          /\ pc' \notin {"osBackup", "osFstab"}
      BY <2>5 DEF OsResolv, OsResolvReload, OsResolvStart, HostCall, Call, Attempt, Goto
    <3> QED BY <3>1, SwapOffStays
  <2>6. CASE DisableDocker
    BY <2>6 DEF DisableDocker, DockerStatus, DockerStop, DockerDisable, DockerMask, DockerCall,
         NextUnit, DockerGivenUp, DockerConfig, HostCall, Call, Attempt, Goto
  <2>7. CASE ConfigureCNI \/ ConfigureIPTables
    BY <2>7 DEF ConfigureCNI, ConfigureIPTables, IpRules, IpUnit, IpEnable, IpReload, IpStart,
         HostCall, Call, Attempt, Goto
  <2> QED BY <1>1, <2>1, <2>2, <2>3, <2>4, <2>5, <2>6, <2>7 DEF HostStep, ConfigureBaseOS
<1>2. CASE BeginHostStep
  BY <1>2 DEF BeginHostStep, BeginDisableDocker, Goto
<1>3. CASE DockerLives
  BY <1>0, <1>3 DEF DockerLives, DockerDies, DockerRestarts, SocketActivates, DockerStarts, HostTypeOK,
       HostSettings
<1>4. CASE ResetKubeletClean
  BY <1>4 DEF ResetKubeletClean, Call, Attempt, Goto
<1> QED BY <1>1, <1>2, <1>3, <1>4, HostWorks DEF hostVars, HostPCs

\* Starting the resolver's unit is the last call of configure-os.
LEMMA ConfigureOsEnds == ASSUME InOrder, [Next]_vars, Completes(2) PROVE pc = "osResolvStart"
<1>1. HostTurn /\ steps[position] = "configure-os" /\ pc' = "ok"
  BY CompletedBy DEF BootstrapSteps, Completes
<1>2. pc = "next" \/ pc \in OsPCs
  BY <1>1 DEF HostTurn, Turn, HostPCs, OsPCs, DockerPCs, IpPCs, InOrder, LabelInv, HostLabels, StepIs
<1>3. CASE BeginHostStep
  BY <1>1, <1>3 DEF BeginHostStep, BeginDisableDocker, Goto
<1>4. CASE ConfigureBaseOS
  BY <1>1, <1>4 DEF ConfigureBaseOS, OsPackages, OsSysctl, OsSysctlApply, OsSwapoff, AfterSwapoff,
     OsBackup, OsFstab, OsResolv, OsResolvReload, OsResolvStart, HostCall, HostDecides, Call,
     Attempt, Decide, Goto
<1>5. ~DisableDocker /\ ~ConfigureCNI /\ ~ConfigureIPTables
  BY <1>2 DEF OsPCs, DisableDocker, DockerStatus, DockerStop, DockerDisable, DockerMask, DockerCall,
     DockerConfig, ConfigureCNI, ConfigureIPTables, IpRules, IpUnit, IpEnable, IpReload, IpStart,
     HostCall, Call, Attempt
<1> QED BY <1>1, <1>3, <1>4, <1>5 DEF HostTurn, HostStep

LEMMA SwapInvariance == ASSUME InOrder, SwapInv, [Next]_vars PROVE SwapInv'
<1>1. ASSUME Completes(2) PROVE SwapOff
  BY <1>1, ConfigureOsEnds DEF SwapInv
<1>2. (Bootstrapping /\ Past(2))' => SwapOff'
  BY <1>1, PastChanges, SwapOffStays DEF SwapInv
<1>3. joined' => SwapOff'
  BY JoinedChanges, SwapOffStays DEF SwapInv, Past
<1> QED BY <1>2, <1>3, SwapWork DEF SwapInv

LEMMA InitSwapInv == Init => SwapInv
BY DEF Init, SwapInv, Bootstrapping

\* The kubelet of a bootstrapped host never finds swap in use: configure-os turns it
\* off and takes it out of the fstab before the bootstrap goes on, also when an
\* attempt before was cut short between the two, and nothing brings it back, be it a
\* reboot or a later attempt that fails (disableSwap of configure-os).
THEOREM SwapIsOff == Spec => []SwapStaysOff
<1>1. InOrder /\ SwapInv /\ [Next]_vars => SwapInv'
  BY SwapInvariance
<1>2. SwapInv => SwapStaysOff
  BY DEF SwapInv, SwapOff, SwapStaysOff
<1> QED BY <1>1, <1>2, InitSwapInv, AlwaysInOrder, PTL DEF Spec

-----------------------------------------------------------------------------
(* The API server's address.                                               *)

\* The steps know the server if the singleton does, in the first bootstrap because
\* they share it, in a later one because the daemon only runs with one that knows.
KnownInv ==
  /\ procedure = "bootstrap" /\ known.singleton => known.step
  /\ procedure = "rebootstrap" => known.step
  /\ Bootstrapping /\ KnowsServer(file) => known.singleton
  /\ daemon => known.singleton
  /\ Bootstrapping /\ Past(4) => known.step /\ known.singleton

\* What is known grows while a bootstrap runs, and is set when one begins.
LEMMA KnownChanges == ASSUME InOrder, [Next]_vars
  PROVE \/ UNCHANGED <<known, file>> /\ (procedure' = procedure \/ ~Bootstrapping')
        \/ Enrich /\ Succeeds /\ Still
           /\ known' = [singleton |-> TRUE, step |-> known.step \/ procedure = "bootstrap"]
        \/ StartAgent \/ BootstrapAgain
<1>1. CASE NodeTurn
  <2>1. CASE Enrich
    BY <1>1, <2>1 DEF NodeTurn, OnlyNode, Still, runVars, Enrich
  <2>2. CASE ~Enrich
    BY <1>1, <2>2 DEF NodeTurn, BeginNodeStep, NodeStep, StartContainerd, StartKubelet,
         StartNPD, ResetKubeletMask, ResetKubeletResolve, ResetKubeletUnmount,
         ResetContainerdMask, ResetContainerdClean, NodeCall, OnlyNode, Still, runVars
  <2> QED BY <2>1, <2>2
<1>2. CASE StepSucceeds \/ StepFails
  BY <1>2 DEF StepSucceeds, StepFails, NextStep, Finish, OnlyRun, Bootstrapping
<1>3. CASE Commands
  BY <1>3 DEF Commands, StartUnbootstrap, StartApply, StartUpgrade, Run, OnlyRun, Bootstrapping
<1>4. CASE Killed \/ Reboot
  BY <1>4 DEF Killed, Reboot, Abandoned, Bootstrapping
<1>5. CASE \/ DownloadTurn \/ HostTurn \/ ArcTurn \/ KubeadmTurn \/ AKSTurn \/ CordonTurn
           \/ ResetKubeletClean \/ WorldTurn \/ UNCHANGED vars
  BY <1>5 DEF DownloadTurn, HostTurn, ArcTurn, KubeadmTurn, AKSTurn, CordonTurn, OnlyDownloads,
       OnlyHost, OnlyArc, OnlyKubeadm, OnlyAKS, OnlyCordon, ResetKubeletClean, WorldTurn, Still,
       runVars, vars
<1> QED BY <1>1, <1>2, <1>3, <1>4, <1>5, Turns DEF InOrder, RunTurn

\* The step that asks for the server is done when it is known, and skipped for a
\* bootstrap token, with which the file has to name the server.
LEMMA EnrichKnows == ASSUME InOrder, KnownInv, [Next]_vars, Completes(4)
                     PROVE  known'.step /\ known'.singleton
<1>1. NodeTurn /\ steps[position] = "enrich-cluster-config" /\ pc' = "ok" /\ Bootstrapping
  BY CompletedBy DEF BootstrapSteps, Completes
<1>2. procedure \in {"bootstrap", "rebootstrap"}
  BY <1>1 DEF Bootstrapping
<1>3. CASE NodeStep
  <2>1. pc = "enrich"
    BY <1>1, <1>3, StepsAt DEF InOrder, LabelInv, NodeLabels, StepIs, NodePCs
  <2>2. Enrich
    BY <1>3, <2>1 DEF NodeStep, StartContainerd, StartKubelet, StartNPD, ResetKubeletMask,
         ResetKubeletResolve, ResetKubeletUnmount, ResetContainerdMask, ResetContainerdClean,
         NodeCall, Call, Attempt, Decide
  <2>3. known' = [singleton |-> TRUE, step |-> known.step \/ procedure = "bootstrap"]
    BY <1>1, <2>2 DEF Enrich, Goto
  <2> QED BY <1>2, <2>3 DEF KnownInv
<1>4. CASE BeginNodeStep
  <2>1. BeginEnrich /\ UNCHANGED known
    BY <1>1, <1>4 DEF BeginNodeStep, At
  <2>2. known.singleton \/ IsBootstrapTokenConfigured(file)
    BY <1>1, <2>1 DEF BeginEnrich, Goto
  <2>3. Valid(file)
    BY <1>1 DEF InOrder, IInv, RunInv
  <2>4. known.singleton
    BY <1>1, <2>2, <2>3 DEF Valid, ValidToken, KnowsServer, KnownInv
  <2> QED BY <1>2, <2>1, <2>4 DEF KnownInv
<1> QED BY <1>1, <1>3, <1>4 DEF NodeTurn

LEMMA KnownInvariance == ASSUME InOrder, KnownInv, [Next]_vars PROVE KnownInv'
<1>1. /\ (procedure = "bootstrap" /\ known.singleton => known.step)'
      /\ (procedure = "rebootstrap" => known.step)'
      /\ (Bootstrapping /\ KnowsServer(file) => known.singleton)'
      /\ known.singleton /\ Bootstrapping => known'.singleton
      /\ known.step /\ Bootstrapping /\ position' # 1 => known'.step
  <2> USE DEF KnownInv, Bootstrapping, KnowsServer
  <2>1. CASE UNCHANGED <<known, file>> /\ (procedure' = procedure \/ ~Bootstrapping')
    BY <2>1
  <2>2. CASE /\ Enrich /\ Succeeds /\ Still
             /\ known' = [singleton |-> TRUE, step |-> known.step \/ procedure = "bootstrap"]
    BY <2>2 DEF Still, runVars
  <2>3. CASE StartAgent
    BY <2>3 DEF StartAgent, LoadConfig, Run
  <2>4. CASE BootstrapAgain
    <3>1. known.singleton /\ known'.singleton = known.singleton /\ known'.step = known.singleton
      BY <2>4 DEF BootstrapAgain, InOrder, ProceduresTypeOK
    <3> QED BY <2>4, <3>1 DEF BootstrapAgain, Run
  <2> QED BY <2>1, <2>2, <2>3, <2>4, KnownChanges
<1>2. (Bootstrapping /\ Past(4))' => known'.step /\ known'.singleton
  <2>1. (Bootstrapping /\ Past(4))' => position' # 1
    BY DEF Past
  <2> QED BY <1>1, <2>1, EnrichKnows, PastChanges DEF KnownInv
<1>3. daemon' => known'.singleton
  <2>1. CASE daemon' /\ daemon
    <3>1. known.singleton
      BY <2>1 DEF KnownInv
    <3>2. ~StartAgent
      BY <2>1 DEF StartAgent
    <3>3. CASE BootstrapAgain
      BY <3>1, <3>3 DEF BootstrapAgain, InOrder, ProceduresTypeOK
    <3> QED BY <3>1, <3>2, <3>3, KnownChanges
  <2>2. CASE daemon' /\ ~daemon
    BY <2>2, JoinedChanges DEF KnownInv, Past
  <2> QED BY <2>1, <2>2
<1> QED BY <1>1, <1>2, <1>3 DEF KnownInv

LEMMA InitKnownInv == Init => KnownInv
BY DEF Init, KnownInv, Bootstrapping

-----------------------------------------------------------------------------
(* The tools.                                                              *)

\* The kubelet's preflight finds what it looks up.
Equipped == RequiredBinaries \subseteq host.tools

ToolsInv ==
  /\ "iptables" \in host.tools => "ebtables" \in host.tools
  /\ pc \in OsPCs \ {"osPackages"} => Equipped
  /\ Bootstrapping /\ Past(2) => Equipped

\* Installing what configure-os asks for is enough: ebtables comes with iptables.
LEMMA InstallEquips ==
  ASSUME ToolsInv
  PROVE  RequiredBinaries \subseteq host.tools \union UNION {Brings(p) : p \in PackagesToInstall}
<1>1. CASE "iptables" \in host.tools
  <2>1. "ebtables" \in host.tools
    BY <1>1 DEF ToolsInv
  <2>2. "jq" \in host.tools \/ ("jq" \in PackagesToInstall /\ "jq" \in Brings("jq"))
    BY DEF PackagesToInstall, RequiredPackages, Brings
  <2> QED BY <1>1, <2>1, <2>2 DEF RequiredBinaries
<1>2. CASE "iptables" \notin host.tools
  <2>1. "iptables" \in PackagesToInstall /\ {"iptables", "ebtables"} \subseteq Brings("iptables")
    BY <1>2 DEF PackagesToInstall, RequiredPackages, Brings
  <2>2. "jq" \in host.tools \/ ("jq" \in PackagesToInstall /\ "jq" \in Brings("jq"))
    BY DEF PackagesToInstall, RequiredPackages, Brings
  <2> QED BY <2>1, <2>2 DEF RequiredBinaries
<1> QED BY <1>1, <1>2

LEMMA OsPackagesEquips ==
  ASSUME HostTypeOK, ToolsInv, OsPackages
  PROVE  /\ host'.tools = host.tools \/ Equipped'
         /\ pc' = "osSysctl" => Equipped'
<1> USE InstallEquips DEF Equipped
<1>1. CASE PackagesToInstall = {}
  <2>1. UNION {Brings(p) : p \in PackagesToInstall} = {}
    BY <1>1
  <2>2. Equipped
    BY <2>1
  <2> QED BY <1>1, <2>2 DEF OsPackages, HostDecides, hostVars
<1>2. CASE PackagesToInstall # {}
  <2>1. HostCall("osPackages", "tools",
                 host.tools \union UNION {Brings(p) : p \in PackagesToInstall}, "osSysctl")
    BY <1>2 DEF OsPackages
  <2> QED BY <2>1 DEF HostCall, Call, Attempt, Goto, HostTypeOK, HostSettings
<1> QED BY <1>1, <1>2

\* Nobody else touches the tools.
LEMMA ToolsChange ==
  ASSUME InOrder, ToolsInv, [Next]_vars
  PROVE  host'.tools = host.tools \/ Equipped'
<1>0. HostTypeOK
  BY DEF InOrder, ProceduresTypeOK
<1>1. CASE HostStep
  <2>1. ASSUME NEW from, NEW next, NEW value,
               NEW field \in {"sysctlFile", "sysctl", "swap", "fstab", "backup", "resolvUnit",
                              "resolv", "cni", "iptablesOff", "rules", "clear", "flushUnit",
                              "flushEnabled"},
               HostCall(from, field, value, next)
        PROVE  host'.tools = host.tools
    BY <1>0, <2>1 DEF HostTypeOK, HostSettings, HostCall, Call, Attempt
  <2>2. CASE OsPackages
    BY <1>0, <2>2, OsPackagesEquips
  <2>3. CASE ConfigureBaseOS /\ ~OsPackages
    BY <2>1, <2>3 DEF ConfigureBaseOS, OsSysctl, OsSysctlApply, OsSwapoff, OsBackup, OsFstab,
       OsResolv, OsResolvReload, OsResolvStart, HostDecides, hostVars
  <2>4. CASE DisableDocker
    BY <2>1, <2>4 DEF DisableDocker, DockerStatus, DockerStop, DockerDisable, DockerMask,
       DockerCall, DockerConfig
  <2>5. CASE ConfigureCNI \/ ConfigureIPTables
    BY <2>1, <2>5 DEF ConfigureCNI, ConfigureIPTables, IpRules, IpUnit, IpEnable, IpReload, IpStart
  <2> QED BY <1>1, <2>2, <2>3, <2>4, <2>5 DEF HostStep
<1>2. CASE DockerLives
  BY <1>0, <1>2 DEF DockerLives, DockerDies, DockerRestarts, SocketActivates, DockerStarts, HostTypeOK,
       HostSettings
<1>3. CASE HostReboots
  BY <1>0, <1>3 DEF HostReboots, HostTypeOK, HostSettings
<1>4. CASE ResetKubeletClean
  BY <1>0, <1>4 DEF ResetKubeletClean, Call, Attempt, HostTypeOK, HostSettings
<1> QED BY <1>1, <1>2, <1>3, <1>4, HostWorks DEF BeginHostStep, hostVars

\* While configure-os runs, once its first call is made.
LEMMA ToolsWork ==
  ASSUME InOrder, ToolsInv, [Next]_vars, pc' \in OsPCs \ {"osPackages"}
  PROVE  Equipped'
<1>0. HostTypeOK
  BY DEF InOrder, ProceduresTypeOK
<1>1. CASE pc \in OsPCs \ {"osPackages"}
  BY <1>1, ToolsChange DEF ToolsInv, Equipped
<1>2. ASSUME pc \notin OsPCs \ {"osPackages"}, HostStep PROVE Equipped'
  <2>1. CASE OsPackages
    <3>1. pc' = "osSysctl"
      BY <2>1 DEF OsPackages, HostDecides, Decide, HostCall, Call, Attempt, Goto, OsPCs
    <3> QED BY <1>0, <2>1, <3>1, OsPackagesEquips
  <2>2. ~ConfigureBaseOS \/ OsPackages
    BY <1>2 DEF ConfigureBaseOS, OsSysctl, OsSysctlApply, OsSwapoff, OsBackup, OsFstab, OsResolv,
       OsResolvReload, OsResolvStart, HostDecides, HostCall, Call, Attempt, Decide, OsPCs
  <2>3. ~DisableDocker
    BY DEF OsPCs, DisableDocker, DockerStatus, DockerStop, DockerDisable, DockerMask, DockerCall,
       NextUnit, DockerGivenUp, DockerConfig, HostCall, Call, Attempt, Goto
  <2>4. ~ConfigureCNI /\ ~ConfigureIPTables
    BY DEF OsPCs, ConfigureCNI, ConfigureIPTables, IpRules, IpUnit, IpEnable, IpReload, IpStart,
       HostCall, Call, Attempt, Goto
  <2> QED BY <1>2, <2>1, <2>2, <2>3, <2>4 DEF HostStep
<1>3. ~BeginHostStep
  BY DEF BeginHostStep, BeginDisableDocker, Goto, OsPCs
<1>4. ~ResetKubeletClean
  BY DEF ResetKubeletClean, Call, Attempt, Goto, OsPCs
<1>5. DockerLives => UNCHANGED pc
  BY DEF DockerLives, DockerDies, DockerRestarts, SocketActivates
<1> QED BY <1>1, <1>2, <1>3, <1>4, <1>5, HostWorks DEF HostPCs, OsPCs

LEMMA ToolsInvariance == ASSUME InOrder, ToolsInv, [Next]_vars PROVE ToolsInv'
<1>1. Equipped => Equipped'
  BY ToolsChange DEF Equipped
<1>2. ("iptables" \in host.tools => "ebtables" \in host.tools)'
  BY ToolsChange DEF ToolsInv, Equipped, RequiredBinaries
<1>3. Completes(2) => Equipped
  BY ConfigureOsEnds DEF ToolsInv, OsPCs
<1>4. (Bootstrapping /\ Past(2))' => Equipped'
  BY <1>1, <1>3, PastChanges DEF ToolsInv
<1> QED BY <1>2, <1>4, ToolsWork DEF ToolsInv

LEMMA InitToolsInv == Init => ToolsInv
<1>1. ASSUME NEW h \in Hosts PROVE "iptables" \in h.tools => "ebtables" \in h.tools
  BY <1>1, HostsAssumption DEF Brings
<1>2. ASSUME Init PROVE ToolsInv
  <2>1. PICK delivered \in Hosts : HostInit(delivered)
    BY <1>2, SetupsAssumption DEF Init, SetupsOf
  <2> QED BY <1>1, <1>2, <2>1 DEF Init, HostInit, ToolsInv, Bootstrapping, OsPCs
<1> QED BY <1>2

-----------------------------------------------------------------------------
(* The CNI configuration and containerd.                                   *)

GatherInv ==
  /\ Bootstrapping /\ Past(9) => host.cni
  /\ Bootstrapping /\ Past(10) => node.containerd

\* Only unbootstrap removes the CNI configuration.
LEMMA CNIStays == ASSUME InOrder, [Next]_vars, Bootstrapping, host.cni PROVE host'.cni
<1>0. HostTypeOK
  BY DEF InOrder, ProceduresTypeOK
<1>1. CASE HostStep
  <2>1. ASSUME NEW from, NEW next, NEW value,
               NEW field \in {"tools", "sysctlFile", "sysctl", "swap", "fstab", "backup",
                              "resolvUnit", "resolv", "iptablesOff", "rules", "clear", "flushUnit",
                              "flushEnabled"},
               HostCall(from, field, value, next)
        PROVE  host'.cni
    BY <1>0, <2>1 DEF HostTypeOK, HostSettings, HostCall, Call, Attempt
  <2>2. CASE ConfigureBaseOS
    BY <2>1, <2>2 DEF ConfigureBaseOS, OsPackages, OsSysctl, OsSysctlApply, OsSwapoff, OsBackup,
         OsFstab, OsResolv, OsResolvReload, OsResolvStart, HostDecides, hostVars
  <2>3. CASE DisableDocker
    BY <2>1, <2>3 DEF DisableDocker, DockerStatus, DockerStop, DockerDisable, DockerMask,
         DockerCall, DockerConfig
  <2>4. CASE ConfigureCNI
    BY <1>0, <2>4 DEF ConfigureCNI, HostTypeOK, HostSettings, HostCall, Call, Attempt
  <2>5. CASE ConfigureIPTables
    BY <2>1, <2>5 DEF ConfigureIPTables, IpRules, IpUnit, IpEnable, IpReload, IpStart
  <2> QED BY <1>1, <2>2, <2>3, <2>4, <2>5 DEF HostStep
<1>2. CASE DockerLives
  BY <1>0, <1>2 DEF DockerLives, DockerDies, DockerRestarts, SocketActivates, DockerStarts, HostTypeOK,
       HostSettings
<1>3. CASE HostReboots
  BY <1>0, <1>3 DEF HostReboots, HostTypeOK, HostSettings
<1>4. CASE ResetKubeletClean
  <2>1. pc = "rkClean" /\ steps = BootstrapSteps /\ position \in 1..Len(steps)
    BY <1>4 DEF ResetKubeletClean, Call, Attempt, InOrder, IInv, RunInv, ProcedureInv
  <2>2. steps[position] # "reset-kubelet"
    BY <2>1, BootstrapLength DEF BootstrapSteps
  <2> QED BY <2>1, <2>2 DEF InOrder, LabelInv, NodeLabels, StepIs
<1> QED BY <1>1, <1>2, <1>3, <1>4, HostWorks DEF BeginHostStep, hostVars

\* containerd is stopped by unbootstrap and by a reboot, which ends a bootstrap.
LEMMA ContainerdStays ==
  ASSUME InOrder, [Next]_vars, Bootstrapping, Bootstrapping', node.containerd
  PROVE  node'.containerd
<1>0. NodeTypeOK /\ ProceduresTypeOK
  BY DEF InOrder, ProceduresTypeOK
<1>1. CASE NodeStep
  <2>1. steps = BootstrapSteps /\ (pc = "idle" \/ position \in 1..13)
    BY BootstrapLength DEF InOrder, IInv, RunInv, ProcedureInv
  <2>2. pc # "rcMask"
    BY <2>1 DEF InOrder, LabelInv, NodeLabels, StepIs, BootstrapSteps
  <2> QED BY <1>0, <1>1, <2>2 DEF NodeStep, Enrich, StartContainerd, StartKubelet, StartNPD,
           ResetKubeletMask, ResetKubeletResolve, ResetKubeletUnmount, ResetContainerdMask,
           ResetContainerdClean, NodeCall, Call, Attempt, Decide, NodeTypeOK
<1>2. CASE ResetKubeletClean
  BY <1>0, <1>2 DEF ResetKubeletClean, Call, Attempt, NodeTypeOK
<1>3. CASE NodeLives
  BY <1>0, <1>3 DEF NodeLives, KubeletDies, KubeletComesBack, PodsMount, NodeTypeOK
<1>4. CASE Reboot
  BY <1>4 DEF Reboot, Abandoned, Bootstrapping
<1> QED BY <1>0, <1>1, <1>2, <1>3, <1>4, NodeChanges

LEMMA GatherInvariance == ASSUME InOrder, GatherInv, [Next]_vars PROVE GatherInv'
<1>1. ASSUME Completes(9) PROVE host'.cni
  <2>1. HostTurn /\ steps[position] = "configure-cni" /\ pc' = "ok" /\ HostTypeOK
    BY <1>1, CompletedBy DEF BootstrapSteps, Completes, InOrder, ProceduresTypeOK
  <2>2. pc = "next" \/ pc = "cniConf"
    BY <2>1 DEF HostTurn, Turn, HostPCs, OsPCs, DockerPCs, IpPCs, InOrder, LabelInv, HostLabels, StepIs
  <2>3. ~BeginHostStep
    BY <2>1 DEF BeginHostStep, BeginDisableDocker, Goto
  <2>4. ConfigureCNI
    BY <2>1, <2>2, <2>3 DEF HostTurn, HostStep, ConfigureBaseOS, OsPackages, OsSysctl, OsSysctlApply,
         OsSwapoff, OsBackup, OsFstab, OsResolv, OsResolvReload, OsResolvStart, DisableDocker,
         DockerStatus, DockerStop, DockerDisable, DockerMask, DockerCall, DockerConfig,
         ConfigureIPTables, IpRules, IpUnit, IpEnable, IpReload, IpStart, HostCall, HostDecides,
         Call, Attempt, Decide
  <2> QED BY <2>1, <2>4 DEF ConfigureCNI, HostCall, Call, Attempt, Goto, HostTypeOK, HostSettings
<1>2. ASSUME Completes(10) PROVE node'.containerd
  <2>1. NodeTurn /\ steps[position] = "start-containerd" /\ pc' = "ok" /\ NodeTypeOK
    BY <1>2, CompletedBy DEF BootstrapSteps, Completes, InOrder, ProceduresTypeOK
  <2>2. pc = "next" \/ pc = "scStart"
    BY <2>1 DEF NodeTurn, Turn, NodePCs, InOrder, LabelInv, NodeLabels, StepIs
  <2>3. ~BeginNodeStep
    BY <2>1 DEF BeginNodeStep, At, Goto
  <2>4. StartContainerd
    BY <2>1, <2>2, <2>3 DEF NodeTurn, NodeStep, Enrich, StartKubelet, StartNPD, ResetKubeletMask,
         ResetKubeletResolve, ResetKubeletUnmount, ResetContainerdMask, ResetContainerdClean,
         NodeCall, Call, Attempt, Decide
  <2> QED BY <2>1, <2>4 DEF StartContainerd, NodeCall, Call, Attempt, Goto, NodeTypeOK
<1>3. (Bootstrapping /\ Past(9))' => host'.cni
  BY <1>1, PastChanges, CNIStays DEF GatherInv
<1>4. (Bootstrapping /\ Past(10))' => node'.containerd
  BY <1>2, PastChanges, ContainerdStays DEF GatherInv
<1> QED BY <1>3, <1>4 DEF GatherInv

LEMMA InitGatherInv == Init => GatherInv
BY DEF Init, GatherInv, Bootstrapping

\* Where a bootstrap is when it starts containerd and the kubelet.
LEMMA StartsAt == ASSUME InOrder, pc \in {"scStart", "skStart"}
  PROVE  /\ Bootstrapping
         /\ pc = "scStart" => position = 10
         /\ pc = "skStart" => position = 12
<1>1. position \in 1..Len(steps) /\ pc # "idle" /\ procedure # "none"
  BY DEF InOrder, IInv, RunInv, ProceduresTypeOK
<1>2. Bootstrapping
  <2>1. CASE pc = "skStart"
    BY <2>1 DEF InOrder, IInv, RunInv
  <2>2. ASSUME pc = "scStart", ~Bootstrapping PROVE FALSE
    <3>1. steps[position] = "start-containerd"
      BY <2>2 DEF InOrder, LabelInv, NodeLabels, StepIs
    <3>2. procedure \in {"unbootstrap", "upgrade", "apply"}
      BY <1>1, <2>2 DEF InOrder, ProceduresTypeOK, Procedures, Bootstrapping
    <3>3. CASE procedure = "apply"
      BY <1>1, <3>1, <3>3 DEF InOrder, ProcedureInv, Registered
    <3>4. CASE procedure \in {"unbootstrap", "upgrade"}
      <4>1. steps \in {UnbootstrapSteps, <<"upgrade">>}
        BY <3>4 DEF InOrder, ProcedureInv
      <4>2. Len(UnbootstrapSteps) = 3 /\ Len(<<"upgrade">>) = 1
        BY DEF UnbootstrapSteps
      <4> QED BY <1>1, <3>1, <4>1, <4>2 DEF UnbootstrapSteps
    <3> QED BY <3>2, <3>3, <3>4
  <2> QED BY <2>1, <2>2
<1>3. steps = BootstrapSteps /\ position \in 1..13
  BY <1>1, <1>2, BootstrapLength DEF InOrder, ProcedureInv
<1> QED BY <1>2, <1>3, StartKubeletAt DEF InOrder, LabelInv, NodeLabels, StepIs

\* When the kubelet is about to be started there is no swap, the binaries its preflight
\* looks up, a CNI configuration, a running containerd, and the steps know the server: by the steps before in this
\* bootstrap, whatever an earlier one left, and although the daemon's bootstraps work
\* on a copy of the configuration (the order in Bootstrap, and clusterConfigEnricher).
THEOREM KubeletFindsAll == Spec => []KubeletPrepared
<1>1. InOrder /\ SwapInv /\ ToolsInv /\ KnownInv /\ GatherInv /\ [Next]_vars
        => SwapInv' /\ ToolsInv' /\ KnownInv' /\ GatherInv'
  BY SwapInvariance, ToolsInvariance, KnownInvariance, GatherInvariance
<1>2. InOrder /\ SwapInv /\ ToolsInv /\ KnownInv /\ GatherInv => KubeletPrepared
  <2>1. ASSUME InOrder, pc = "skStart" PROVE Bootstrapping /\ Past(2) /\ Past(4) /\ Past(9) /\ Past(10)
    BY <2>1, StartsAt DEF Past
  <2> QED BY <2>1 DEF SwapInv, SwapOff, ToolsInv, Equipped, KnownInv, GatherInv, KubeletPrepared
<1>3. Init => SwapInv /\ ToolsInv /\ KnownInv /\ GatherInv
  BY InitSwapInv, InitToolsInv, InitKnownInv, InitGatherInv
<1> QED BY <1>1, <1>2, <1>3, AlwaysInOrder, PTL DEF Spec

-----------------------------------------------------------------------------
(* The binaries.                                                           *)

Fetched(p) == p \in Packages => Usable(p)

\* What a download has installed is of the version it is to have, and runc comes
\* after containerd.
FetchInv ==
  /\ pc = "fetch" =>
       \A f \in Files[package] \ todo : installed[package][f] = wanted[package]
  /\ package = "runc" => Fetched("containerd")
  /\ Bootstrapping /\ Past(5) => Fetched("cni")
  /\ Bootstrapping /\ Past(6) => Fetched("containerd") /\ Fetched("runc")
  /\ Bootstrapping /\ Past(7) => Fetched("kube")
  /\ Bootstrapping /\ Past(8) => Fetched("npd")

\* Files are only ever replaced by those of the version asked for.
LEMMA InstalledChanges == ASSUME InOrder, [Next]_vars
  PROVE \/ UNCHANGED installed
        \/ /\ UNCHANGED wanted /\ package \in Packages
           /\ \E f \in Files[package] :
                InstallFile(f) /\ installed' = [installed EXCEPT ![package][f] = wanted[package]]
<1>1. CASE DownloadTurn
  <2>1. CASE DownloadStep
    <3>1. package \in Packages
      BY <2>1, StepsAt DEF InOrder, ProceduresTypeOK, DownloadsTypeOK
    <3>2. ASSUME NEW f, InstallFile(f) PROVE f \in Files[package]
      BY <3>1, <3>2 DEF InOrder, ProceduresTypeOK, DownloadsTypeOK, InstallFile
    <3> QED BY <2>1, <3>1, <3>2 DEF DownloadStep, Inspect, FetchFails, FetchEntry, FetchBinary,
             InstallFile
  <2> QED BY <1>1, <2>1 DEF DownloadTurn, BeginDownloadStep, BeginDownload
<1>2. CASE \/ NodeTurn \/ HostTurn \/ ArcTurn \/ KubeadmTurn \/ AKSTurn \/ CordonTurn
  BY <1>2 DEF NodeTurn, HostTurn, ArcTurn, KubeadmTurn, AKSTurn, CordonTurn, OnlyNode, OnlyHost,
       OnlyArc, OnlyKubeadm, OnlyAKS, OnlyCordon, downloadVars
<1>3. CASE RunTurn \/ Killed \/ Reboot
  BY <1>3 DEF RunTurn, Killed, Reboot, Abandoned, DownloadsAbandoned
<1>4. CASE ResetKubeletClean \/ WorldTurn \/ UNCHANGED vars
  BY <1>4 DEF ResetKubeletClean, WorldTurn, downloadVars, vars
<1> QED BY <1>1, <1>2, <1>3, <1>4, Turns DEF InOrder

\* A package that is usable stays so, unless another version is asked for.
LEMMA UsableStays ==
  ASSUME InOrder, [Next]_vars, wanted' = wanted, NEW p \in Packages, Usable(p) PROVE Usable(p)'
<1> USE DEF Usable, HasRequired, VersionMatch
<1>1. CASE UNCHANGED installed
  BY <1>1
<1>2. ASSUME package \in Packages, NEW f \in Files[package],
             installed' = [installed EXCEPT ![package][f] = wanted[package]]
      PROVE  Usable(p)'
  <2>1. \A q \in Packages : installed[q] \in [Files[q] -> Releases \union {Missing}]
    BY DEF InOrder, ProceduresTypeOK, DownloadsTypeOK
  <2>2. Reference[p] \in Files[p] /\ Required[p] \subseteq Files[p]
    BY PackagesAssumption
  <2>3. wanted[package] # Missing
    BY <1>2, ReleasesAssumption DEF InOrder, ProceduresTypeOK, DownloadsTypeOK
  <2>4. DOMAIN installed = Packages
    BY DEF InOrder, ProceduresTypeOK, DownloadsTypeOK
  <2>5. CASE p # package
    BY <1>2, <2>4, <2>5
  <2>6. CASE p = package
    <3>1. \A g \in Files[p] : installed'[p][g] \in {installed[p][g], wanted[p]}
      BY <1>2, <2>1, <2>4, <2>6
    <3> QED BY <1>2, <2>2, <2>3, <2>6, <3>1
  <2> QED BY <2>5, <2>6
<1> QED BY <1>1, <1>2, InstalledChanges

\* A download goes on to the next package when its own is usable.
LEMMA FetchEnds ==
  ASSUME InOrder, FetchInv, [Next]_vars, NEW p \in Packages, package = p, DownloadStep,
         pc' # "failed", pc' = "ok" \/ package' # package
  PROVE  Usable(p)' /\ package' = After(p) /\ (pc' = "ok" <=> After(p) = "none")
<1> USE DEF Usable, HasRequired, VersionMatch
<1>1. CASE Inspect
  <2>1. ~NeedsDownload(package) /\ NextPackage /\ UNCHANGED <<wanted, installed>>
    BY <1>1 DEF Inspect
  <2>2. HasRequired(p) /\ VersionMatch(p)
    BY <2>1 DEF NeedsDownload
  <2> QED BY <2>1, <2>2 DEF NextPackage
<1>2. ASSUME NEW f, InstallFile(f)
      PROVE  Usable(p)' /\ package' = After(p) /\ (pc' = "ok" <=> After(p) = "none")
  <2>1. todo = {f} /\ NextPackage /\ UNCHANGED wanted
    BY <1>2 DEF InstallFile
  <2>2. /\ DOMAIN installed = Packages /\ wanted[p] # Missing
        /\ installed[p] \in [Files[p] -> Releases \union {Missing}]
    BY ReleasesAssumption DEF InOrder, ProceduresTypeOK, DownloadsTypeOK
  <2>3. \A g \in Files[p] \ {f} : installed[p][g] = wanted[p]
    BY <1>2, <2>1 DEF InstallFile, FetchInv
  <2>4. \A g \in Files[p] : installed'[p][g] = wanted[p]
    BY <1>2, <2>2, <2>3 DEF InstallFile
  <2>5. Reference[p] \in Files[p] /\ Required[p] \subseteq Files[p]
    BY PackagesAssumption
  <2> QED BY <2>1, <2>2, <2>4, <2>5 DEF NextPackage
<1>3. ~FetchFails
  BY DEF FetchFails
<1> QED BY <1>1, <1>2, <1>3 DEF DownloadStep, FetchEntry, FetchBinary

\* A step that downloads and succeeds leaves its packages usable.
LEMMA DownloadDone ==
  ASSUME InOrder, FetchInv, [Next]_vars, DownloadTurn, pc' = "ok"
  PROVE  /\ steps[position] = "download-cni-binaries" => Fetched("cni")'
         /\ steps[position] = "download-cri-binaries" =>
              Fetched("containerd")' /\ Fetched("runc")'
         /\ steps[position] = "download-kube-binaries" => Fetched("kube")'
         /\ steps[position] = "download-npd" => Fetched("npd")'
<1>1. CASE BeginDownloadStep
  <2>1. PICK step \in {"download-cni-binaries", "download-cri-binaries", "download-kube-binaries",
                       "download-npd"} : At(step) /\ BeginDownload(FirstOf(step))
    BY <1>1 DEF BeginDownloadStep
  <2>2. steps[position] = step /\ FirstOf(step) \notin Packages
    BY <2>1 DEF At, BeginDownload
  <2> QED BY <2>2, PackagesAssumption DEF FirstOf, Fetched
<1>2. CASE DownloadStep
  <2>1. PICK p \in Packages : package = p
    BY <1>2, StepsAt DEF InOrder, ProceduresTypeOK, DownloadsTypeOK
  <2>2. Usable(p)' /\ After(p) = "none"
    BY <1>2, <2>1, FetchEnds
  <2>3. /\ p = "containerd" => "runc" \notin Packages
        /\ p \in AllPackages
    BY <2>2, PackagesAssumption DEF After
  <2>4. p = "runc" => Fetched("containerd")'
    <3>1. wanted' = wanted
      BY <1>2 DEF DownloadStep, Inspect, FetchFails, FetchEntry, FetchBinary, InstallFile
    <3> QED BY <2>1, <3>1, UsableStays DEF FetchInv, Fetched
  <2>5. /\ p = "cni" => steps[position] = "download-cni-binaries"
        /\ p \in {"containerd", "runc"} => steps[position] = "download-cri-binaries"
        /\ p = "kube" => steps[position] = "download-kube-binaries"
        /\ p = "npd" => steps[position] = "download-npd"
    BY <2>1 DEF InOrder, LabelInv, DownloadLabels, StepIs
  <2> QED BY <2>2, <2>3, <2>4, <2>5 DEF AllPackages, Fetched
<1> QED BY <1>1, <1>2 DEF DownloadTurn

\* While something is downloaded.
LEMMA FetchWork == ASSUME InOrder, FetchInv, [Next]_vars
  PROVE /\ pc' = "fetch" =>
             \A f \in Files[package'] \ todo' : installed'[package'][f] = wanted'[package']
        /\ package' = "runc" => Fetched("containerd")'
<1>0. InOrder'
  BY StaysInOrder
<1>1. CASE pc' \notin DownloadPCs
  <2>1. package' = "none"
    BY <1>0, <1>1 DEF InOrder, ProceduresTypeOK, DownloadsTypeOK
  <2> QED BY <1>1, <2>1 DEF DownloadPCs
<1>2. CASE BeginDownloadStep
  <2>1. PICK step \in {"download-cni-binaries", "download-cri-binaries", "download-kube-binaries",
                       "download-npd"} : At(step) /\ BeginDownload(FirstOf(step))
    BY <1>2 DEF BeginDownloadStep
  <2>2. package = "none"
    BY <2>1, NoPackage DEF At, DownloadPCs, InOrder, ProceduresTypeOK
  <2> QED BY <2>1, <2>2 DEF BeginDownload, FirstOf
<1>3. CASE DownloadStep
  <2>1. PICK p \in Packages : package = p
    BY <1>3, StepsAt DEF InOrder, ProceduresTypeOK, DownloadsTypeOK
  <2>2. wanted' = wanted
    BY <1>3 DEF DownloadStep, Inspect, FetchFails, FetchEntry, FetchBinary, InstallFile
  <2>3. CASE pc' = "failed"
    BY <1>1, <2>3 DEF DownloadPCs
  <2>4. CASE pc' # "failed" /\ package' # package
    <3>1. Usable(p)' /\ package' = After(p)
      BY <1>3, <2>1, <2>4, FetchEnds
    <3>2. pc' # "fetch"
      BY <1>3, <2>4 DEF DownloadStep, Inspect, NextPackage, FetchFails, FetchEntry, FetchBinary,
         InstallFile
    <3> QED BY <2>1, <3>1, <3>2 DEF After, Fetched
  <2>5. CASE package' = package
    <3>1. package' = "runc" => Fetched("containerd")'
      BY <2>2, <2>5, UsableStays DEF FetchInv, Fetched
    <3>2. CASE Inspect
      BY <2>5, <3>1, <3>2 DEF Inspect, ToFetch, NextPackage
    <3>3. ASSUME NEW f, InstallFile(f), pc' = "fetch"
          PROVE  \A g \in Files[package'] \ todo' : installed'[package'][g] = wanted'[package']
      <4>1. /\ DOMAIN installed = Packages
            /\ installed[p] \in [Files[p] -> Releases \union {Missing}]
        BY DEF InOrder, ProceduresTypeOK, DownloadsTypeOK
      <4>2. todo' = todo \ {f} \/ todo = {f}
        BY <3>3 DEF InstallFile
      <4>3. \A g \in Files[p] \ todo : installed[p][g] = wanted[p]
        BY <2>1, <3>3 DEF InstallFile, FetchInv
      <4>4. \A g \in (Files[p] \ todo) \union {f} :
              g \in Files[p] => installed'[p][g] = wanted[p]
        BY <2>1, <3>3, <4>1, <4>3 DEF InstallFile
      <4> QED BY <2>1, <2>2, <2>5, <4>2, <4>4
    <3> QED BY <1>3, <3>1, <3>2, <3>3 DEF DownloadStep, FetchFails, FetchEntry, FetchBinary
  <2> QED BY <2>3, <2>4, <2>5
<1>4. CASE UNCHANGED <<pc, downloadVars>>
  BY <1>4 DEF downloadVars, FetchInv, Fetched, Usable, HasRequired, VersionMatch
<1>5. DownloadTurn \/ pc' \notin DownloadPCs \/ UNCHANGED <<pc, downloadVars>>
  BY Turns DEF InOrder, NodeTurn, HostTurn, ArcTurn, KubeadmTurn, AKSTurn, CordonTurn, Turn,
     DownloadPCs, NodePCs, HostPCs, ArcPCs, KubeadmPCs, AKSPCs, CordonPCs, Ends, RunTurn,
     ResetKubeletClean, Call, Attempt, Goto, Killed, Reboot, Abandoned, WorldTurn, vars
<1> QED BY <1>1, <1>2, <1>3, <1>4, <1>5 DEF DownloadTurn

LEMMA FetchInvariance == ASSUME InOrder, FetchInv, [Next]_vars PROVE FetchInv'
<1>1. ASSUME NEW p, Fetched(p), wanted' = wanted PROVE Fetched(p)'
  BY <1>1, UsableStays DEF Fetched
<1>2. (Bootstrapping /\ Past(5))' => Fetched("cni")'
  BY <1>1, PastChanges, CompletedBy, DownloadDone DEF Completes, BootstrapSteps, FetchInv
<1>3. (Bootstrapping /\ Past(6))' => Fetched("containerd")' /\ Fetched("runc")'
  BY <1>1, PastChanges, CompletedBy, DownloadDone DEF Completes, BootstrapSteps, FetchInv
<1>4. (Bootstrapping /\ Past(7))' => Fetched("kube")'
  BY <1>1, PastChanges, CompletedBy, DownloadDone DEF Completes, BootstrapSteps, FetchInv
<1>5. (Bootstrapping /\ Past(8))' => Fetched("npd")'
  BY <1>1, PastChanges, CompletedBy, DownloadDone DEF Completes, BootstrapSteps, FetchInv
<1> QED BY <1>2, <1>3, <1>4, <1>5, FetchWork DEF FetchInv

LEMMA InitFetchInv == Init => FetchInv
BY DEF Init, DownloadsInit, FetchInv, Bootstrapping

\* containerd and the kubelet are started with binaries that are all there and whose
\* reference shows the version asked for, however many downloads were broken off
\* before and of whichever versions their files are (the order of the downloads, and
\* of containerd and runc; what each looks at before it downloads).
THEOREM BinariesAreUsable == Spec => []BinariesUsable
<1>1. InOrder /\ FetchInv /\ [Next]_vars => FetchInv'
  BY FetchInvariance
<1>2. InOrder /\ FetchInv => BinariesUsable
  <2>1. ASSUME InOrder, pc \in {"scStart", "skStart"}
        PROVE  Bootstrapping /\ Past(5) /\ Past(6) /\ Past(7) /\ Past(8)
    BY <2>1, StartsAt DEF Past
  <2>2. \A p \in Packages : p \in {"cni", "containerd", "runc", "kube", "npd"}
    BY PackagesAssumption DEF AllPackages
  <2> QED BY <2>1, <2>2 DEF FetchInv, Fetched, BinariesUsable
<1> QED BY <1>1, <1>2, InitFetchInv, AlwaysInOrder, PTL DEF Spec

-----------------------------------------------------------------------------
(* docker.                                                                 *)

\* A unit of docker is not running and, if there is one, masked.
Out(u) == docker[u].active = "no" /\ (docker[u].found => docker[u].masked)

DockerGone == Out("socket") /\ Out("service") /\ host.iptablesOff

\* A socket is not restarted; a unit that is not there does nothing.
UnitsInv ==
  /\ docker["socket"].active # "restarting"
  /\ docker["socket"].found => docker["service"].found
  /\ \A u \in DockerUnits : ~docker[u].found => docker[u].active = "no" /\ ~docker[u].enabled

\* The socket is out before the service is looked at, so that what was stopped
\* stays so; a service between two of its runs counts as stopped, which `slipped`
\* remembers.
MaskInv ==
  /\ pc \in DockerPCs \ {"dockerConfig"} => unit \in DockerUnits
  /\ pc \in {"dockerStop", "dockerDisable", "dockerMask"} => docker[unit].found
  /\ unit = "service" => Out("socket")
  /\ pc \in {"dockerDisable", "dockerMask"} /\ (unit = "socket" \/ ~slipped)
       => docker[unit].active = "no"
  /\ pc = "dockerConfig" => Out("socket") /\ (~slipped => Out("service"))

OutInv ==
  /\ Bootstrapping /\ Past(3) /\ ~slipped => DockerGone
  /\ Bootstrapping /\ Past(11) /\ ~slipped => ~host.rules
  /\ joined /\ ~slipped => DockerGone /\ ~host.rules

\* A unit is not started, enabled or unmasked.
Calmer(u) ==
  /\ docker'[u].found = docker[u].found
  /\ docker'[u].active \in {docker[u].active, "no"}
  /\ docker'[u].enabled => docker[u].enabled
  /\ docker[u].masked => docker'[u].masked

LEMMA StepsCalm == ASSUME HostTypeOK, HostStep PROVE \A u \in DockerUnits : Calmer(u)
<1> USE DEF Calmer
<1>1. CASE UNCHANGED docker
  BY <1>1
<1>2. CASE DockerStop \/ DockerDisable \/ DockerMask
  BY <1>1, <1>2 DEF DockerStop, DockerDisable, DockerMask, DockerCall, HostTypeOK
<1>3. CASE ConfigureBaseOS
  BY <1>1, <1>3 DEF ConfigureBaseOS, OsPackages, OsSysctl, OsSysctlApply, OsSwapoff, OsBackup, OsFstab,
       OsResolv, OsResolvReload, OsResolvStart, HostDecides, HostCall, hostVars
<1>4. CASE DockerStatus \/ DockerConfig \/ ConfigureCNI \/ ConfigureIPTables
  BY <1>1, <1>4 DEF DockerStatus, DockerConfig, ConfigureCNI, ConfigureIPTables, IpRules, IpUnit,
       IpEnable, IpReload, IpStart, HostCall
<1> QED BY <1>2, <1>3, <1>4 DEF HostStep, DisableDocker

\* What happens to docker itself, and to what it does to the host.
LEMMA DockerChanges == ASSUME InOrder, [Next]_vars
  PROVE \/ /\ \A u \in DockerUnits : Calmer(u)
           /\ host.iptablesOff => host'.iptablesOff
           /\ host'.rules => host.rules
           /\ slipped => slipped'
        \/ DockerLives /\ OnlyHost
        \/ HostReboots /\ pc' = "idle" /\ procedure' = "none"
<1>0. HostTypeOK
  BY DEF InOrder, ProceduresTypeOK
<1>1. CASE HostStep
  <2>1. host.iptablesOff => host'.iptablesOff
    <3>1. ASSUME NEW from, NEW next, NEW value,
                 NEW field \in {"tools", "sysctlFile", "sysctl", "swap", "fstab", "backup",
                                "resolvUnit", "resolv", "cni", "rules", "clear", "flushUnit",
                                "flushEnabled"},
                 HostCall(from, field, value, next)
          PROVE  host'.iptablesOff = host.iptablesOff
      BY <1>0, <3>1 DEF HostTypeOK, HostSettings, HostCall, Call, Attempt
    <3>2. CASE ConfigureBaseOS
      BY <3>1, <3>2 DEF ConfigureBaseOS, OsPackages, OsSysctl, OsSysctlApply, OsSwapoff, OsBackup,
           OsFstab, OsResolv, OsResolvReload, OsResolvStart, HostDecides, hostVars
    <3>3. CASE DockerConfig
      BY <1>0, <3>3 DEF DockerConfig, HostTypeOK, HostSettings, HostCall, Call, Attempt
    <3>4. CASE DisableDocker /\ ~DockerConfig
      BY <3>4 DEF DisableDocker, DockerStatus, DockerStop, DockerDisable, DockerMask, DockerCall
    <3>5. CASE ConfigureCNI \/ ConfigureIPTables
      BY <3>1, <3>5 DEF ConfigureCNI, ConfigureIPTables, IpRules, IpUnit, IpEnable, IpReload, IpStart
    <3> QED BY <1>1, <3>2, <3>3, <3>4, <3>5 DEF HostStep
  <2>2. host'.rules => host.rules
    <3>1. ASSUME NEW from, NEW next, NEW value,
                 NEW field \in {"tools", "sysctlFile", "sysctl", "swap", "fstab", "backup",
                                "resolvUnit", "resolv", "cni", "iptablesOff", "clear", "flushUnit",
                                "flushEnabled"},
                 HostCall(from, field, value, next)
          PROVE  host'.rules = host.rules
      BY <1>0, <3>1 DEF HostTypeOK, HostSettings, HostCall, Call, Attempt
    <3>2. CASE ConfigureBaseOS
      BY <3>1, <3>2 DEF ConfigureBaseOS, OsPackages, OsSysctl, OsSysctlApply, OsSwapoff, OsBackup,
           OsFstab, OsResolv, OsResolvReload, OsResolvStart, HostDecides, hostVars
    <3>3. CASE DisableDocker
      BY <3>1, <3>3 DEF DisableDocker, DockerConfig, DockerStatus, DockerStop, DockerDisable,
           DockerMask, DockerCall
    <3>4. CASE IpStart
      BY <1>0, <3>4 DEF IpStart, HostTypeOK, HostSettings, HostCall, Call, Attempt
    <3>5. CASE ConfigureCNI \/ IpRules \/ IpUnit \/ IpEnable \/ IpReload
      BY <3>1, <3>5 DEF ConfigureCNI, IpRules, IpUnit, IpEnable, IpReload
    <3> QED BY <1>1, <3>2, <3>3, <3>4, <3>5 DEF HostStep, ConfigureIPTables
  <2>3. slipped => slipped'
    BY <1>1 DEF HostStep, ConfigureBaseOS, OsPackages, OsSysctl, OsSysctlApply, OsSwapoff, OsBackup,
       OsFstab, OsResolv, OsResolvReload, OsResolvStart, HostDecides, HostCall, hostVars,
       DisableDocker, DockerStatus, DockerStop, DockerDisable, DockerMask, DockerCall, DockerConfig,
       ConfigureCNI, ConfigureIPTables, IpRules, IpUnit, IpEnable, IpReload, IpStart
  <2> QED BY <1>0, <1>1, <2>1, <2>2, <2>3, StepsCalm
<1>2. CASE UNCHANGED <<host, docker, slipped>>
  BY <1>2 DEF Calmer
<1>3. CASE ResetKubeletClean
  BY <1>0, <1>3 DEF ResetKubeletClean, Call, Attempt, HostTypeOK, HostSettings, Calmer
<1> QED BY <1>1, <1>2, <1>3, HostWorks DEF BeginHostStep, hostVars

LEMMA UnitsInvariance == ASSUME InOrder, UnitsInv, [Next]_vars PROVE UnitsInv'
<1>0. HostTypeOK /\ DockerUnits = {"socket", "service"}
  BY DEF InOrder, ProceduresTypeOK, DockerUnits
<1> USE DEF UnitsInv
<1>1. CASE \A u \in DockerUnits : Calmer(u)
  BY <1>0, <1>1 DEF Calmer
<1>2. CASE DockerLives
  BY <1>0, <1>2 DEF DockerLives, DockerDies, DockerRestarts, SocketActivates, DockerStarts, HostTypeOK
<1>3. CASE HostReboots
  BY <1>0, <1>3 DEF HostReboots, Boots, HostTypeOK
<1> QED BY <1>1, <1>2, <1>3, DockerChanges

\* A unit that is out stays out; the service only after its socket.
LEMMA OutStays == ASSUME InOrder, UnitsInv, [Next]_vars, Out("socket")
  PROVE /\ Out("socket")'
        /\ Out("service") => Out("service")'
        /\ host.iptablesOff => host'.iptablesOff
        /\ ~host.rules /\ host.iptablesOff => ~host'.rules
        /\ slipped => slipped'
<1>0. HostTypeOK /\ DockerUnits = {"socket", "service"}
  BY DEF InOrder, ProceduresTypeOK, DockerUnits
<1> USE DEF Out
<1>1. CASE /\ \A u \in DockerUnits : Calmer(u)
           /\ host.iptablesOff => host'.iptablesOff
           /\ host'.rules => host.rules
           /\ slipped => slipped'
  BY <1>0, <1>1 DEF Calmer
<1>2. CASE DockerLives
  <2>1. slipped' = slipped
    BY <1>2 DEF DockerLives, DockerDies, DockerRestarts, SocketActivates
  <2>2. host' = host \/ host' = [host EXCEPT !.rules = host.rules \/ ~host.iptablesOff]
    BY <1>2 DEF DockerLives, DockerDies, DockerRestarts, SocketActivates, DockerStarts
  <2>3. /\ host.iptablesOff => host'.iptablesOff
        /\ ~host.rules /\ host.iptablesOff => ~host'.rules
    BY <1>0, <2>2 DEF HostTypeOK, HostSettings
  <2>4. Out("socket")' /\ (Out("service") => Out("service")')
    BY <1>0, <1>2 DEF DockerLives, DockerDies, DockerRestarts, SocketActivates, DockerStarts,
       HostTypeOK
  <2> QED BY <2>1, <2>3, <2>4
<1>3. CASE HostReboots
  <2>1. Out("socket")' /\ (Out("service") => Out("service")')
    <3>1. ASSUME NEW u \in DockerUnits, Out(u) PROVE Out(u)'
      <4>1. ~Boots(u)
        BY <3>1 DEF Boots, UnitsInv
      <4>2. docker'[u] = [docker[u] EXCEPT !.active = "no"]
        BY <1>3, <3>1, <4>1 DEF HostReboots
      <4> QED BY <1>0, <3>1, <4>2 DEF HostTypeOK
    <3> QED BY <1>0, <3>1
  <2>2. PICK swap \in BOOLEAN, rules \in BOOLEAN :
          /\ host' = [host EXCEPT !.swap = swap, !.sysctl = host.sysctlFile, !.rules = rules]
          /\ rules => ~host.iptablesOff
    BY <1>3, Zenon DEF HostReboots
  <2>3. /\ host.iptablesOff => host'.iptablesOff
        /\ ~host.rules /\ host.iptablesOff => ~host'.rules
    BY <1>0, <2>2 DEF HostTypeOK, HostSettings
  <2> QED BY <1>3, <2>1, <2>3 DEF HostReboots
<1> QED BY <1>1, <1>2, <1>3, DockerChanges

\* The calls that mask docker.
LEMMA MaskStep == ASSUME InOrder, UnitsInv, MaskInv, [Next]_vars, DisableDocker PROVE MaskInv'
<1>0. HostTypeOK /\ DockerUnits = {"socket", "service"}
  BY DEF InOrder, ProceduresTypeOK, DockerUnits
<1> USE DEF MaskInv, DockerPCs
<1>1. CASE DockerStatus
  <2>1. pc = "dockerStatus" /\ unit \in {"socket", "service"} /\ UNCHANGED <<host, docker>>
    BY <1>0, <1>1 DEF DockerStatus
  <2>2. docker[unit].active \in {"no", "yes", "restarting"}
    BY <1>0, <2>1 DEF HostTypeOK
  <2>3. CASE docker[unit].found
    BY <1>1, <2>1, <2>2, <2>3 DEF DockerStatus, DockerGivenUp, Goto, UnitsInv, Out, DockerUnits
  <2>4. CASE ~docker[unit].found
    <3>1. docker[unit].active = "no"
      BY <1>0, <2>1, <2>4 DEF UnitsInv
    <3> QED BY <1>1, <2>1, <2>4, <3>1 DEF DockerStatus, NextUnit, FirstUnit, SecondUnit, UnitOrder,
            DockerGivenUp, Goto, Out, DockerUnits
  <2> QED BY <2>3, <2>4
<1>2. ASSUME DockerStop \/ DockerDisable \/ DockerMask, pc' = "failed" PROVE MaskInv'
  BY <1>2 DEF DockerStop, DockerDisable, DockerMask, DockerCall, DockerGivenUp, NextUnit, Goto
<1>3. CASE DockerStop /\ pc' # "failed"
  <2>1. /\ pc = "dockerStop" /\ pc' = "dockerDisable" /\ unit' = unit /\ slipped' = slipped
        /\ docker' = [docker EXCEPT ![unit]["active"] = "no"] /\ unit \in {"socket", "service"}
    BY <1>0, <1>3 DEF DockerStop, DockerCall, DockerGivenUp, Goto
  <2>2. docker'[unit].active = "no" /\ docker'[unit].found
    BY <1>0, <2>1 DEF HostTypeOK
  <2> QED BY <1>0, <2>1, <2>2, OutStays
<1>4. CASE DockerDisable /\ pc' # "failed"
  <2>1. /\ pc = "dockerDisable" /\ pc' = "dockerMask" /\ unit' = unit /\ slipped' = slipped
        /\ docker' = [docker EXCEPT ![unit]["enabled"] = FALSE] /\ unit \in {"socket", "service"}
    BY <1>0, <1>4 DEF DockerDisable, DockerCall, DockerGivenUp, Goto
  <2>2. docker'[unit].active = docker[unit].active /\ docker'[unit].found
    BY <1>0, <2>1 DEF HostTypeOK
  <2> QED BY <1>0, <2>1, <2>2, OutStays
<1>5. CASE DockerMask /\ pc' # "failed"
  <2>1. /\ pc = "dockerMask" /\ NextUnit /\ slipped' = slipped
        /\ docker' = [docker EXCEPT ![unit]["masked"] = TRUE] /\ unit \in {"socket", "service"}
    BY <1>0, <1>5 DEF DockerMask, DockerCall, DockerGivenUp, Goto
  <2>2. docker'[unit].active = docker[unit].active /\ docker'[unit].masked
    BY <1>0, <2>1 DEF HostTypeOK
  <2>3. CASE unit = "socket"
    BY <2>1, <2>2, <2>3 DEF NextUnit, FirstUnit, SecondUnit, UnitOrder, Goto, Out, DockerUnits
  <2>4. CASE unit = "service"
    <3>1. Out("socket")'
      BY <2>4, OutStays
    <3>2. ~slipped' => Out("service")'
      BY <2>1, <2>2, <2>4 DEF Out
    <3> QED BY <2>1, <2>4, <3>1, <3>2 DEF NextUnit, FirstUnit, UnitOrder, Goto
  <2> QED BY <2>1, <2>3, <2>4
<1>6. CASE DockerConfig
  BY <1>6 DEF DockerConfig, HostCall, Call, Attempt, Goto, Out
<1> QED BY <1>1, <1>2, <1>3, <1>4, <1>5, <1>6 DEF DisableDocker

LEMMA MaskInvariance == ASSUME InOrder, UnitsInv, MaskInv, [Next]_vars PROVE MaskInv'
<1>0. HostTypeOK /\ DockerUnits = {"socket", "service"}
  BY DEF InOrder, ProceduresTypeOK, DockerUnits
<1> USE DEF MaskInv, DockerPCs
<1>1. ASSUME UNCHANGED <<docker, unit, slipped>>, pc' \notin DockerPCs \/ UNCHANGED pc PROVE MaskInv'
  BY <1>1 DEF Out
<1>2. CASE HostStep
  <2>1. CASE ConfigureBaseOS
    <3>1. pc' \notin DockerPCs
      BY <2>1 DEF ConfigureBaseOS, OsPackages, OsSysctl, OsSysctlApply, OsSwapoff, AfterSwapoff,
         OsBackup, OsFstab, OsResolv, OsResolvReload, OsResolvStart, HostDecides, HostCall, Call,
         Attempt, Decide, Goto
    <3> QED BY <1>1, <2>1, <3>1 DEF ConfigureBaseOS, OsPackages, OsSysctl, OsSysctlApply, OsSwapoff,
           OsBackup, OsFstab, OsResolv, OsResolvReload, OsResolvStart, HostDecides, HostCall, hostVars
  <2>2. CASE ConfigureCNI \/ ConfigureIPTables
    <3>1. pc' \notin DockerPCs
      BY <2>2 DEF ConfigureCNI, ConfigureIPTables, IpRules, IpUnit, IpEnable, IpReload, IpStart,
         HostCall, Call, Attempt, Goto
    <3> QED BY <1>1, <2>2, <3>1 DEF ConfigureCNI, ConfigureIPTables, IpRules, IpUnit, IpEnable,
            IpReload, IpStart, HostCall
  <2> QED BY <1>2, <2>1, <2>2, MaskStep DEF HostStep
<1>3. CASE BeginHostStep
  <2>1. CASE BeginDisableDocker
    BY <1>0, <2>1 DEF BeginDisableDocker, FirstUnit, UnitOrder
  <2> QED BY <1>1, <1>3, <2>1 DEF BeginHostStep, Goto, hostVars
<1>4. CASE DockerLives
  <2>1. /\ UNCHANGED <<pc, unit, slipped>>
        /\ \A u \in DockerUnits : docker'[u].found = docker[u].found
        /\ docker'["socket"] = docker["socket"]
    BY <1>0, <1>4 DEF DockerLives, DockerDies, DockerRestarts, SocketActivates, DockerStarts, HostTypeOK
  <2>2. CASE unit = "service"
    <3>1. docker["service"].active = "no" => docker' = docker
      BY <1>4, <2>2 DEF DockerLives, DockerDies, DockerRestarts, SocketActivates, Out
    <3>2. docker["service"].active = "no" => docker'["service"].active = "no"
      BY <3>1
    <3> QED BY <1>0, <2>1, <2>2, <3>2, OutStays DEF Out
  <2>3. CASE unit # "service"
    <3>1. pc = "dockerConfig" => Out("socket")' /\ (Out("service") => Out("service")')
      BY OutStays
    <3> QED BY <1>0, <2>1, <2>3, <3>1
  <2> QED BY <2>2, <2>3
<1>5. CASE pc' = "idle" /\ unit' = "none"
  BY <1>5 DEF DockerUnits
<1>6. CASE ResetKubeletClean
  BY <1>1, <1>6 DEF ResetKubeletClean, Call, Attempt, Goto
<1>7. CASE UNCHANGED hostVars /\ (UNCHANGED pc \/ pc' \notin HostPCs)
  BY <1>1, <1>7 DEF hostVars, HostPCs
<1> QED BY <1>2, <1>3, <1>4, <1>5, <1>6, <1>7, HostWorks DEF HostReboots

\* disable-docker and configure-iptables leave what they are for.
LEMMA DisableDone == ASSUME InOrder, UnitsInv, MaskInv, [Next]_vars, Completes(3), ~slipped'
                     PROVE  DockerGone'
<1>1. HostTurn /\ steps[position] = "disable-docker" /\ pc' = "ok" /\ HostTypeOK
  BY CompletedBy DEF BootstrapSteps, Completes, InOrder, ProceduresTypeOK
<1>2. pc = "next" \/ pc \in DockerPCs
  BY <1>1 DEF HostTurn, Turn, HostPCs, OsPCs, DockerPCs, IpPCs, InOrder, LabelInv, HostLabels, StepIs
<1>3. ~BeginHostStep
  BY <1>1 DEF BeginHostStep, BeginDisableDocker, Goto
<1>4. DisableDocker
  BY <1>1, <1>2, <1>3 DEF HostTurn, HostStep, ConfigureBaseOS, OsPackages, OsSysctl, OsSysctlApply,
     OsSwapoff, OsBackup, OsFstab, OsResolv, OsResolvReload, OsResolvStart, ConfigureCNI,
     ConfigureIPTables, IpRules, IpUnit, IpEnable, IpReload, IpStart, HostCall, HostDecides,
     Call, Attempt, Decide, DockerPCs
<1>5. DockerConfig
  BY <1>1, <1>4 DEF DisableDocker, DockerStatus, DockerStop, DockerDisable, DockerMask, DockerCall,
     NextUnit, DockerGivenUp, Goto
<1>6. host'.iptablesOff /\ UNCHANGED <<docker, slipped>> /\ pc = "dockerConfig"
  BY <1>1, <1>5 DEF DockerConfig, HostCall, Call, Attempt, Goto, HostTypeOK, HostSettings
<1> QED BY <1>6 DEF MaskInv, DockerGone, Out

LEMMA FlushDone == ASSUME InOrder, [Next]_vars, Completes(11) PROVE ~host'.rules
<1>1. HostTurn /\ steps[position] = "configure-iptables" /\ pc' = "ok" /\ HostTypeOK
  BY CompletedBy DEF BootstrapSteps, Completes, InOrder, ProceduresTypeOK
<1>2. pc = "next" \/ pc \in IpPCs
  BY <1>1 DEF HostTurn, Turn, HostPCs, OsPCs, DockerPCs, IpPCs, InOrder, LabelInv, HostLabels, StepIs
<1>3. ~BeginHostStep
  BY <1>1 DEF BeginHostStep, BeginDisableDocker, Goto
<1>4. ConfigureIPTables
  BY <1>1, <1>2, <1>3 DEF HostTurn, HostStep, ConfigureBaseOS, OsPackages, OsSysctl, OsSysctlApply,
     OsSwapoff, OsBackup, OsFstab, OsResolv, OsResolvReload, OsResolvStart, ConfigureCNI,
     DisableDocker, DockerStatus, DockerStop, DockerDisable, DockerMask, DockerCall, DockerConfig,
     HostCall, HostDecides, Call, Attempt, Decide, IpPCs
<1>5. IpStart
  BY <1>1, <1>4 DEF ConfigureIPTables, IpRules, IpUnit, IpEnable, IpReload, HostCall, Call, Attempt,
     Goto
<1> QED BY <1>1, <1>5 DEF IpStart, HostCall, Call, Attempt, Goto, HostTypeOK, HostSettings

LEMMA OutInvariance == ASSUME InOrder, UnitsInv, MaskInv, OutInv, [Next]_vars PROVE OutInv'
<1>1. ASSUME DockerGone PROVE DockerGone' /\ (~host.rules => ~host'.rules) /\ (slipped => slipped')
  BY <1>1, OutStays DEF DockerGone
<1>2. ASSUME ~slipped' PROVE ~slipped
  <2>1. CASE DockerLives
    BY <1>2, <2>1 DEF DockerLives, DockerDies, DockerRestarts, SocketActivates
  <2>2. CASE HostReboots
    BY <1>2, <2>2 DEF HostReboots
  <2> QED BY <1>2, <2>1, <2>2, DockerChanges
<1>3. (Bootstrapping /\ Past(3))' /\ ~slipped' => DockerGone'
  BY <1>1, <1>2, PastChanges, DisableDone DEF OutInv
<1>4. (Bootstrapping /\ Past(11))' /\ ~slipped' => ~host'.rules
  <2>1. Bootstrapping /\ Past(11) => Past(3)
    BY PositionTyped DEF Past
  <2> QED BY <1>1, <1>2, <2>1, PastChanges, FlushDone DEF OutInv
<1>5. joined' /\ ~slipped' => DockerGone' /\ ~host'.rules
  BY <1>1, <1>2, JoinedChanges DEF OutInv, Past
<1> QED BY <1>3, <1>4, <1>5 DEF OutInv

LEMMA InitDocker == Init => UnitsInv /\ MaskInv /\ OutInv
<1> SUFFICES ASSUME Init PROVE UnitsInv /\ MaskInv /\ OutInv
  OBVIOUS
<1>1. PICK delivered \in Hosts : HostInit(delivered)
  BY SetupsAssumption DEF Init, SetupsOf
<1>2. UnitsInv
  BY <1>1 DEF HostInit, UnitsInv, DockerUnits
<1>3. MaskInv /\ OutInv
  BY <1>1 DEF Init, HostInit, MaskInv, OutInv, Bootstrapping, DockerPCs
<1> QED BY <1>2, <1>3

\* On a bootstrapped host docker does not run and has no rules in iptables, reboots
\* and whoever talks to its socket included: the socket is masked before the service
\* is stopped, daemon.json forbids the rules before they are flushed, and docker does
\* not run from then on. Excepted is a docker that was waiting for its restart when it
\* was to be stopped (EnsureUnitMasked, disable-docker, configure-iptables).
THEOREM DockerIsOut == Spec => []DockerStaysOut
<1>1. InOrder /\ UnitsInv /\ MaskInv /\ OutInv /\ [Next]_vars => UnitsInv' /\ MaskInv' /\ OutInv'
  BY UnitsInvariance, MaskInvariance, OutInvariance
<1>2. OutInv => DockerStaysOut
  BY DEF OutInv, DockerGone, Out, DockerStaysOut, DockerOut
<1> QED BY <1>1, <1>2, InitDocker, AlwaysInOrder, PTL DEF Spec
===============================================================================
