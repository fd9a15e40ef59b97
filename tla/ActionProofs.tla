----------------------------- MODULE ActionProofs ------------------------------
(* The components that are reached by one kind of step each: kubeadm, Arc  *)
(* and the upgrade's calls to the API server.                              *)
EXTENDS ProceduresTyping

-----------------------------------------------------------------------------
(* kubeadm.                                                                *)

\* What makes a join last comes before the configuration, by which a later join
\* takes the node to be joined, and is only undone when that is gone.
JoinInv ==
  /\ kubeadm.config => JoinLasts
  /\ pc \in {"joinReload", "joinEnable"} => kubeadm.file = "unit"
  /\ pc \in {"joinRun", "joinPoll"} => JoinLasts
  /\ pc \in {"resetStatus", "resetStop", "resetDisable", "resetMask", "resetClean"}
       => ~kubeadm.config
  /\ JoinSurvivesReboot

LEMMA JoinKeeps == ASSUME InOrder, JoinInv, KubeadmTypeOK, Join, OnlyKubeadm PROVE JoinInv'
<1> USE DEF JoinInv, JoinLasts, JoinSurvivesReboot, KubeadmTypeOK, KubeadmCall, Call, Attempt, Goto
<1>1. CASE JoinUnit
  BY <1>1 DEF JoinUnit
<1>2. CASE JoinReload
  BY <1>2 DEF JoinReload
<1>3. CASE JoinEnable
  BY <1>3 DEF JoinEnable
<1>4. CASE JoinRun
  BY <1>4 DEF JoinRun, Joined, Configured
<1>5. CASE JoinPoll
  BY <1>5 DEF JoinPoll
<1> QED BY <1>1, <1>2, <1>3, <1>4, <1>5 DEF Join

LEMMA ResetKeeps == ASSUME InOrder, JoinInv, KubeadmTypeOK, Reset, OnlyKubeadm PROVE JoinInv'
<1> USE DEF JoinInv, JoinLasts, KubeadmTypeOK, KubeadmCall, Call, Attempt, Goto, ResetOrder
<1>1. pc \in ResetPCs
  BY DEF Reset, ResetRun, ResetStatus, ResetStop, ResetDisable, ResetMask, ResetClean, ResetPCs,
       KubeadmPCs, JoinPCs
<1>2. steps'[position'] # "KubeadmNodeJoin"
  BY <1>1 DEF InOrder, LabelInv, ActionLabels, StepIs, OnlyKubeadm, Still, runVars
<1>3. JoinSurvivesReboot'
  BY <1>2 DEF JoinSurvivesReboot
<1>4. CASE ResetRun
  BY <1>3, <1>4 DEF ResetRun, Stopped
<1>5. CASE ResetStatus
  BY <1>3, <1>5 DEF ResetStatus
<1>6. CASE ResetStop \/ ResetDisable
  BY <1>3, <1>6 DEF ResetStop, ResetDisable, Stopped
<1>7. CASE ResetMask
  BY <1>3, <1>7 DEF ResetMask
<1>8. CASE ResetClean
  BY <1>3, <1>8 DEF ResetClean
<1> QED BY <1>4, <1>5, <1>6, <1>7, <1>8 DEF Reset

\* What the other components do is not the end of a join.
LEMMA OthersKeepJoin ==
  ASSUME InOrder, JoinInv, UNCHANGED kubeadm,
         \/ NodeTurn \/ DownloadTurn \/ HostTurn \/ ArcTurn \/ AKSTurn \/ CordonTurn
  PROVE  JoinInv'
<1>1. pc' \notin KubeadmPCs /\ UNCHANGED <<steps, position>>
  BY DEF NodeTurn, DownloadTurn, HostTurn, ArcTurn, AKSTurn, CordonTurn, OnlyNode, OnlyDownloads,
       OnlyHost, OnlyArc, OnlyAKS, OnlyCordon, Still, runVars, Turn, Ends, NodePCs, DownloadPCs,
       HostPCs, ArcPCs, KubeadmPCs, AKSPCs, CordonPCs
<1>2. steps[position] # "KubeadmNodeJoin"
  BY TurnsInSteps DEF NodeSteps, DownloadSteps, HostSteps, ArcSteps
<1> QED BY <1>1, <1>2 DEF JoinInv, JoinLasts, JoinSurvivesReboot, KubeadmPCs

LEMMA JoinInvariance == ASSUME InOrder, JoinInv, [Next]_vars PROVE JoinInv'
<1>0. ProceduresTypeOK /\ KubeadmTypeOK
  BY DEF InOrder, ProceduresTypeOK
<1> USE DEF JoinInv, JoinLasts, JoinSurvivesReboot
<1>1. CASE KubeadmTurn
  <2>1. CASE BeginKubeadmStep
    BY <2>1 DEF BeginKubeadmStep, BeginJoin, BeginReset, ResetOrder
  <2> QED BY <1>0, <1>1, <2>1, JoinKeeps, ResetKeeps DEF KubeadmTurn, KubeadmStep
<1>2. CASE NodeTurn \/ DownloadTurn \/ HostTurn \/ ArcTurn \/ AKSTurn \/ CordonTurn
  <2>1. UNCHANGED kubeadm
    BY <1>2 DEF NodeTurn, DownloadTurn, HostTurn, ArcTurn, AKSTurn, CordonTurn, OnlyNode,
         OnlyDownloads, OnlyHost, OnlyArc, OnlyAKS, OnlyCordon
  <2> QED BY <1>2, <2>1, OthersKeepJoin
<1>3. CASE ResetKubeletClean
  <2>1. steps[position] = "reset-kubelet"
    BY <1>3 DEF ResetKubeletClean, Call, Attempt, InOrder, LabelInv, NodeLabels, StepIs
  <2>2. UNCHANGED <<kubeadm, steps, position>> /\ pc' \in Ends
    BY <1>3 DEF ResetKubeletClean, Call, Attempt, Goto, Still, runVars, Ends
  <2> QED BY <2>1, <2>2 DEF Ends
<1>4. CASE RunTurn
  BY <1>4 DEF RunTurn
<1>5. CASE Killed
  BY <1>5 DEF Killed, Abandoned, Goto
<1>6. CASE Reboot
  <2>1. pc' = "idle" /\ KubeadmReboots
    BY <1>6 DEF Reboot, Abandoned, Goto
  <2> QED BY <1>0, <2>1 DEF KubeadmReboots, KubeadmTypeOK
<1>7. CASE WorldTurn
  <2>1. UNCHANGED <<pc, steps, position>>
    BY <1>7 DEF WorldTurn, Still, runVars
  <2>2. kubeadm' = kubeadm \/ KubeletLives
    BY <1>7 DEF WorldTurn, World, NodeLives, OnlyNode, OnlyHost, OnlyArc, OnlyAKS, OnlyCordon
  <2> QED BY <1>0, <2>1, <2>2 DEF KubeletLives, KubeletFails, KubeletRestarts, KubeadmTypeOK
<1>8. CASE UNCHANGED vars
  BY <1>8 DEF vars, runVars
<1> QED BY <1>0, <1>1, <1>2, <1>3, <1>4, <1>5, <1>6, <1>7, <1>8, Turns

\* A KubeadmNodeJoin that succeeds leaves a unit that is there and enabled, so that
\* the node comes back after a reboot; also when it skipped the join, because of a
\* configuration that an earlier attempt left behind, in whatever state that and the
\* resets before it stopped (canRun of the join).
THEOREM JoinIsForGood == Spec => []JoinSurvivesReboot
<1>1. Init => JoinInv
  BY DEF Init, KubeadmInit, JoinInv, JoinLasts, JoinSurvivesReboot
<1>2. InOrder /\ JoinInv /\ [Next]_vars => JoinInv'
  BY JoinInvariance
<1>3. JoinInv => JoinSurvivesReboot
  BY DEF JoinInv
<1> QED BY <1>1, <1>2, <1>3, AlwaysInOrder, PTL DEF Spec

-----------------------------------------------------------------------------
(* The roles of the Arc machine.                                           *)

\* Away from its labels no job is under way. While roles are assigned those
\* before the next one are, or there was an error; while the installation is
\* taken back no completed one is reported.
InstallInv ==
  /\ pc \notin ArcPCs \/ pc \in {"unAuth", "unClients", "unGet"} => arcJob = NoJob
  /\ pc \in InstallPCs \ {"arcAssign", "arcPermissions", "arcVerify"} => arcJob.nth = 1
  /\ pc = "arcAssign" =>
       arcJob.errors \/ \A i \in 1..(arcJob.nth - 1) : Assigned[i] \in arc.roles
  /\ pc \in {"arcPermissions", "arcVerify"} => arc.roles = Roles
  /\ pc \in UninstallPCs => arcStatus = "none"
  /\ RolesReported

LEMMA ArcPCsSplit == ArcPCs = InstallPCs \union UninstallPCs /\ InstallPCs \cap UninstallPCs = {}
BY DEF ArcPCs, InstallPCs, UninstallPCs

LEMMA AssignKeeps == ASSUME ArcTypeOK, InstallInv, ArcAssign PROVE InstallInv'
<1> USE DEF InstallInv, RolesReported
<1>1. Len(Assigned) = 4 /\ Roles = {Assigned[1], Assigned[2], Assigned[3], Assigned[4]}
  BY DEF Assigned, Roles
<1>2. /\ arcJob.nth \in 1..4 /\ arc.roles \subseteq Roles
      /\ {"identity", "nth", "errors"} \subseteq DOMAIN arcJob
  BY <1>1 DEF ArcTypeOK
<1>3. /\ pc = "arcAssign" /\ "arcAssign" \in InstallPCs /\ "arcPermissions" \in InstallPCs
      /\ "ok" \notin ArcPCs
  BY DEF ArcAssign, InstallPCs, UninstallPCs, ArcPCs
<1>4. CASE arc' = [arc EXCEPT !.roles = @ \union {Assigned[arcJob.nth]}] /\ NextRole(FALSE)
  <2>1. arc'.roles = arc.roles \union {Assigned[arcJob.nth]}
    BY <1>4 DEF ArcTypeOK
  <2>2. arc.roles = Roles => arc'.roles = Roles
    BY <1>1, <1>2, <2>1
  <2>3. CASE arcJob.nth < 4
    <3>1. /\ arcJob'.nth = arcJob.nth + 1 /\ (arcJob.errors => arcJob'.errors)
          /\ UNCHANGED <<pc, arcStatus>>
      BY <1>1, <1>2, <1>4, <2>3 DEF NextRole, Worse
    <3>2. arcJob'.errors \/ \A i \in 1..(arcJob'.nth - 1) : Assigned[i] \in arc'.roles
      BY <1>2, <1>3, <2>1, <3>1
    <3> QED BY <1>3, <2>2, <3>1, <3>2, ArcPCsSplit
  <2>4. CASE arcJob.nth = 4 /\ arcJob.errors
    BY <1>1, <1>3, <1>4, <2>4, ArcPCsSplit DEF NextRole, Worse, Reports, Goto
  <2>5. CASE arcJob.nth = 4 /\ ~arcJob.errors
    <3>1. pc' = "arcPermissions" /\ UNCHANGED <<arcJob, arcStatus>>
      BY <1>1, <1>4, <2>5 DEF NextRole, Worse, Goto
    <3>2. \A i \in 1..3 : Assigned[i] \in arc.roles
      BY <1>3, <2>5
    <3>3. arc'.roles = Roles
      BY <1>1, <1>2, <2>1, <2>5, <3>2
    <3> QED BY <1>3, <3>1, <3>3, ArcPCsSplit
  <2> QED BY <1>2, <2>3, <2>4, <2>5
<1>5. CASE NextRole(TRUE)
  <2>1. arc'.roles = arc.roles \/ arc'.roles = arc.roles \union {Assigned[arcJob.nth]}
    BY DEF ArcAssign, ArcTypeOK
  <2>2. arc.roles = Roles => arc'.roles = Roles
    BY <1>1, <1>2, <2>1
  <2>3. CASE arcJob.nth < 4
    <3>1. arcJob'.errors /\ UNCHANGED <<pc, arcStatus>>
      BY <1>1, <1>2, <1>5, <2>3 DEF NextRole, Worse
    <3> QED BY <1>3, <2>2, <3>1, ArcPCsSplit
  <2>4. CASE arcJob.nth = 4
    BY <1>1, <1>3, <1>5, <2>4, ArcPCsSplit DEF NextRole, Worse, Reports, Goto
  <2> QED BY <1>2, <2>3, <2>4
<1> QED BY <1>4, <1>5 DEF ArcAssign

LEMMA InstallKeeps == ASSUME ArcTypeOK, InstallInv, InstallArc PROVE InstallInv'
<1> USE DEF InstallInv, RolesReported, Installs, Reports, Goto
<1>1. /\ {"arcAuth", "arcInstall", "arcClients", "arcGet", "arcConnect", "arcWait", "arcValidate",
          "arcAssign", "arcPermissions", "arcVerify"} \subseteq InstallPCs
      /\ "ok" \notin ArcPCs /\ NoJob.nth = 1
  BY DEF InstallPCs, UninstallPCs, ArcPCs, NoJob
<1>2. CASE ArcAuth \/ ArcInstall \/ ArcClients
  BY <1>1, <1>2, ArcPCsSplit DEF ArcAuth, ArcInstall, ArcClients, ArcTypeOK
<1>3. CASE ArcGet
  BY <1>1, <1>3, ArcPCsSplit DEF ArcGet, ArcTypeOK
<1>4. CASE ArcConnect
  BY <1>1, <1>4, ArcPCsSplit DEF ArcConnect, ArcTypeOK
<1>5. CASE ArcWait
  BY <1>1, <1>5, ArcPCsSplit DEF ArcWait, ArcTypeOK
<1>6. CASE ArcValidate
  <2>1. arcJob.nth = 1
    BY <1>1, <1>6 DEF ArcValidate
  <2>2. \A i \in 1..(arcJob.nth - 1) : Assigned[i] \in arc.roles
    BY <2>1
  <2> QED BY <1>1, <1>6, <2>2, ArcPCsSplit DEF ArcValidate
<1>7. CASE ArcAssign
  BY <1>7, AssignKeeps
<1>8. CASE ArcPermissions
  BY <1>1, <1>8, ArcPCsSplit DEF ArcPermissions
<1>9. CASE ArcVerify
  BY <1>1, <1>9, ArcPCsSplit DEF ArcVerify
<1> QED BY <1>2, <1>3, <1>4, <1>5, <1>6, <1>7, <1>8, <1>9 DEF InstallArc

LEMMA InstallInvariance == ASSUME InOrder, InstallInv, [Next]_vars PROVE InstallInv'
<1>0. ProceduresTypeOK /\ ArcTypeOK
  BY DEF InOrder, ProceduresTypeOK
<1> USE DEF InstallInv, RolesReported
<1>1. CASE InstallArc
  BY <1>0, <1>1, InstallKeeps
<1>2. CASE UninstallArc
  <2>1. /\ pc \in UninstallPCs /\ pc' \in UninstallPCs \union {"ok", "failed"}
        /\ arcStatus' = arcStatus
        /\ pc' = "ok" => arcJob' = NoJob
        /\ pc' \in {"unAuth", "unClients", "unGet", "failed"} =>
             arcJob' = arcJob /\ pc \in {"unAuth", "unClients"}
    BY <1>2 DEF UninstallArc, UnAuth, UnClients, UnGet, UnRoles, UnRegister, UnDisconnect, UnAgent,
         Uninstalls, Call, Attempt, Goto, UninstallPCs
  <2>2. UninstallPCs \subseteq ArcPCs \ InstallPCs /\ "arcAssign" \in InstallPCs
        /\ "arcPermissions" \in InstallPCs /\ "arcVerify" \in InstallPCs
        /\ "ok" \notin ArcPCs /\ "failed" \notin ArcPCs
    BY DEF ArcPCs, InstallPCs, UninstallPCs
  <2>3. arcStatus = "none"
    BY <2>1
  <2> QED BY <2>1, <2>2, <2>3, ArcPCsSplit
<1>3. CASE BeginArcStep
  <2>1. pc = "next" /\ arcJob = NoJob /\ UNCHANGED <<arc, arcJob>>
    BY <1>3 DEF BeginArcStep, BeginInstallArc, BeginUninstallArc, At, arcVars, ArcPCs
  <2>2. CASE BeginInstallArc
    BY <2>1, <2>2 DEF BeginInstallArc, arcVars, NoJob, ArcPCs, UninstallPCs
  <2>3. CASE BeginUninstallArc
    BY <2>1, <2>3 DEF BeginUninstallArc, NoJob, ArcPCs, InstallPCs, UninstallPCs
  <2> QED BY <1>3, <2>2, <2>3 DEF BeginArcStep
<1>4. CASE IdentityAppears \/ ArcDisconnects
  <2>1. arc'.roles = arc.roles /\ UNCHANGED <<pc, arcJob, arcStatus>>
    BY <1>0, <1>4 DEF IdentityAppears, ArcDisconnects, ArcTypeOK
  <2> QED BY <2>1
<1>5. CASE ArcAbandoned /\ pc' = "idle"
  BY <1>5 DEF ArcAbandoned, ArcPCs, InstallPCs, UninstallPCs
<1>6. CASE UNCHANGED <<pc, arcVars>>
  BY <1>6 DEF arcVars
<1>7. CASE UNCHANGED arcVars /\ pc \notin ArcPCs /\ pc' \notin ArcPCs
  BY <1>7 DEF arcVars, ArcPCs, InstallPCs, UninstallPCs
<1> QED BY <1>0, <1>1, <1>2, <1>3, <1>4, <1>5, <1>6, <1>7, ArcChanges DEF ArcStep

LEMMA InitInstallInv == Init => InstallInv
BY DEF Init, ArcInit, InstallInv, RolesReported, ArcPCs, InstallPCs, UninstallPCs

\* An installation that reports itself completed has given the identity of the
\* machine every role: an error of any of them makes it report a failure, and the
\* removal of roles begins with the report withdrawn (assignRBACRoles, Execute of
\* the installer and of the uninstaller).
THEOREM RolesAreReported == Spec => []RolesReported
<1>1. InOrder /\ InstallInv /\ [Next]_vars => InstallInv'
  BY InstallInvariance
<1>2. InstallInv => RolesReported
  BY DEF InstallInv
<1> QED BY <1>1, <1>2, InitInstallInv, AlwaysInOrder, PTL DEF Spec

-----------------------------------------------------------------------------
(* What remains of the roles.                                              *)

Clusterwide(r) == r.scope = "cluster"

\* As long as nothing failed: a machine without an identity has no roles, those
\* before the next one have been removed, and at the end no administrator's is left.
RevokeInv ==
  /\ pc \in {"arcValidate", "arcAssign"} /\ arcJob.identity => arc.machine = "ready"
  /\ pc = "arcAssign" => arcJob.identity
  /\ arc.machine # "ready" => arc.roles = {}
  /\ pc = "unRoles" => arcJob.nth \in 1..Len(Removed)
  /\ pc = "unRoles" /\ faults = 0 =>
       \A i \in 1..(arcJob.nth - 1) : Removed[i] \notin arc.roles
  /\ pc = "unRegister" /\ faults = 0 => \A r \in arc.roles : ~Clusterwide(r)
  /\ faults = 0 => \A r \in arc.orphans : ~Clusterwide(r)

LEMMA NoFaultYet == ASSUME ProceduresTypeOK, [Next]_vars, faults' = 0 PROVE UNCHANGED faults
<1>1. UNCHANGED faults \/ Fails
  BY Turns DEF NodeTurn, DownloadTurn, HostTurn, ArcTurn, KubeadmTurn, AKSTurn, CordonTurn, Turn,
       ResetKubeletClean, Call, Attempt, RunTurn, Killed, Reboot, WorldTurn, Succeeds, vars
<1> QED BY <1>1 DEF Fails, ProceduresTypeOK

LEMMA InstallRevokes == ASSUME ArcTypeOK, RevokeInv, InstallArc, faults' = 0 => faults = 0
                        PROVE RevokeInv'
<1> USE DEF RevokeInv, Installs, Reports, Goto
<1>1. CASE ArcAuth \/ ArcInstall \/ ArcClients
  BY <1>1 DEF ArcAuth, ArcInstall, ArcClients, ArcTypeOK
<1>2. CASE ArcGet
  BY <1>2 DEF ArcGet, ArcTypeOK
<1>3. CASE ArcConnect
  BY <1>3 DEF ArcConnect, ArcTypeOK
<1>4. CASE ArcWait
  BY <1>4 DEF ArcWait, ArcTypeOK
<1>5. CASE ArcValidate
  BY <1>5 DEF ArcValidate
<1>6. CASE ArcAssign
  <2>1. pc = "arcAssign" /\ arc.machine = "ready" /\ arcJob.identity
    BY <1>6 DEF ArcAssign
  <2>2. arc'.machine = arc.machine /\ arc'.orphans = arc.orphans
    BY <1>6 DEF ArcAssign, ArcTypeOK
  <2>3. /\ pc' \in {"arcAssign", "ok", "arcPermissions"}
        /\ pc' = "arcAssign" => arcJob'.identity = arcJob.identity
    BY <1>6, <2>1 DEF ArcAssign, NextRole, ArcTypeOK
  <2> QED BY <2>1, <2>2, <2>3
<1>7. CASE ArcPermissions \/ ArcVerify
  BY <1>7 DEF ArcPermissions, ArcVerify
<1> QED BY <1>1, <1>2, <1>3, <1>4, <1>5, <1>6, <1>7 DEF InstallArc

\* The removal of the roles goes through all of them that are of the cluster.
LEMMA RolesRevoked == ASSUME ArcTypeOK, RevokeInv, UnRoles, faults' = 0 => faults = 0
                      PROVE RevokeInv'
<1> USE DEF RevokeInv
<1>1. pc = "unRoles" /\ arcJob.nth \in 1..3 /\ Len(Removed) = 3
  BY DEF UnRoles, Removed
<1>2. /\ arc'.roles \subseteq arc.roles /\ arc'.orphans = arc.orphans /\ arc'.machine = arc.machine
      /\ faults' = 0 => Removed[arcJob.nth] \notin arc'.roles
  <2>1. faults' = 0 => ~Fails
    BY DEF Fails
  <2> QED BY <2>1 DEF UnRoles, ArcTypeOK
<1>3. CASE arcJob.nth < 3
  <2>1. pc' = pc /\ arcJob'.nth = arcJob.nth + 1
    BY <1>1, <1>3 DEF UnRoles, ArcTypeOK
  <2>2. faults' = 0 => \A i \in 1..(arcJob'.nth - 1) : Removed[i] \notin arc'.roles
    BY <1>1, <1>2, <2>1
  <2> QED BY <1>1, <1>2, <1>3, <2>1, <2>2
<1>4. CASE arcJob.nth = 3
  <2>1. pc' = "unRegister"
    BY <1>1, <1>4 DEF UnRoles, Goto
  <2>2. faults' = 0 => \A i \in 1..3 : Removed[i] \notin arc'.roles
    BY <1>1, <1>2, <1>4
  <2>3. \A r \in Roles : Clusterwide(r) => \E i \in 1..3 : r = Removed[i]
    BY DEF Roles, Assigned, Removed, Clusterwide
  <2>4. arc'.roles \subseteq Roles
    BY <1>2 DEF ArcTypeOK
  <2>5. faults' = 0 => \A r \in arc'.roles : ~Clusterwide(r)
    BY <2>2, <2>3, <2>4
  <2> QED BY <1>2, <2>1, <2>5
<1> QED BY <1>1, <1>3, <1>4

LEMMA UninstallRevokes == ASSUME ArcTypeOK, InstallInv, RevokeInv, UninstallArc, faults \in Nat,
                                 faults' = 0 => faults = 0
                          PROVE RevokeInv'
<1> USE DEF RevokeInv, Uninstalls, Call, Attempt, Goto
<1>1. CASE UnAuth \/ UnClients
  BY <1>1 DEF UnAuth, UnClients
<1>2. CASE UnGet
  <2>1. arcJob.nth = 1 /\ Len(Removed) = 3
    BY <1>2 DEF UnGet, InstallInv, NoJob, Removed
  <2>2. CASE Succeeds /\ arc.machine = "ready"
    <3>1. pc' = "unRoles" /\ arcJob'.nth = 1 /\ UNCHANGED arc
      BY <1>2, <2>1, <2>2 DEF UnGet, ArcTypeOK, Succeeds, Fails
    <3>2. \A i \in 1..(arcJob'.nth - 1) : Removed[i] \notin arc'.roles
      BY <3>1
    <3> QED BY <2>1, <3>1, <3>2
  <2>3. CASE ~(Succeeds /\ arc.machine = "ready")
    <3>1. pc' = "unRegister" /\ UNCHANGED arc
      BY <1>2, <2>3 DEF UnGet
    <3>2. faults' = 0 => arc.machine # "ready"
      BY <1>2, <2>3 DEF UnGet, Fails
    <3> QED BY <3>1, <3>2
  <2> QED BY <2>2, <2>3
<1>3. CASE UnRoles
  BY <1>3, RolesRevoked
<1>4. CASE UnRegister
  <2>1. pc' = "unDisconnect" /\ pc = "unRegister"
    BY <1>4 DEF UnRegister
  <2>2. CASE UNCHANGED arc
    BY <2>1, <2>2
  <2>3. CASE arc' = [arc EXCEPT !.machine = "none", !.roles = {}, !.orphans = @ \union arc.roles]
    <3>1. arc'.roles = {} /\ arc'.orphans = arc.orphans \union arc.roles
      BY <2>3 DEF ArcTypeOK
    <3> QED BY <2>1, <3>1
  <2> QED BY <1>4, <2>2, <2>3 DEF UnRegister
<1>5. CASE UnDisconnect \/ UnAgent
  BY <1>5 DEF UnDisconnect, UnAgent, ArcTypeOK
<1> QED BY <1>1, <1>2, <1>3, <1>4, <1>5 DEF UninstallArc

LEMMA RevokeInvariance == ASSUME InOrder, InstallInv, RevokeInv, [Next]_vars PROVE RevokeInv'
<1>0. ProceduresTypeOK /\ ArcTypeOK /\ faults \in Nat
  BY DEF InOrder, ProceduresTypeOK
<1>1. faults' = 0 => faults = 0
  BY <1>0, NoFaultYet
<1> USE DEF RevokeInv
<1>2. CASE ArcStep
  BY <1>0, <1>1, <1>2, InstallRevokes, UninstallRevokes DEF ArcStep
<1>3. CASE BeginArcStep
  BY <1>1, <1>3 DEF BeginArcStep, BeginInstallArc, BeginUninstallArc, arcVars
<1>4. CASE IdentityAppears
  BY <1>0, <1>1, <1>4 DEF IdentityAppears, ArcTypeOK
<1>5. CASE ArcDisconnects
  BY <1>0, <1>1, <1>5 DEF ArcDisconnects, ArcTypeOK
<1>6. CASE ArcAbandoned /\ pc' = "idle"
  BY <1>1, <1>6 DEF ArcAbandoned
<1>7. CASE UNCHANGED <<pc, arcVars>>
  BY <1>1, <1>7 DEF arcVars
<1>8. CASE UNCHANGED arcVars /\ pc \notin ArcPCs /\ pc' \notin ArcPCs
  BY <1>1, <1>8 DEF arcVars, ArcPCs
<1> QED BY <1>0, <1>2, <1>3, <1>4, <1>5, <1>6, <1>7, <1>8, ArcChanges

\* Unless a call failed, no identity of a deleted machine keeps the rights of an
\* administrator of the cluster: the list of the uninstaller, which differs from the
\* installer's, has all of those, and a machine whose identity it does not find has
\* no roles (removeRBACRoles before unregisterArcMachine).
THEOREM AdministratorsGo == Spec => []AdminRevoked
<1>1. Init => RevokeInv
  BY DEF Init, ArcInit, RevokeInv
<1>2. InOrder /\ InstallInv /\ RevokeInv /\ [Next]_vars => InstallInv' /\ RevokeInv'
  BY InstallInvariance, RevokeInvariance
<1>3. RevokeInv => AdminRevoked
  BY DEF RevokeInv, AdminRevoked, Clusterwide
<1> QED BY <1>1, <1>2, <1>3, InitInstallInv, AlwaysInOrder, PTL DEF Spec

-----------------------------------------------------------------------------
(* The upgrade's calls to the API server.                                  *)

\* A client is good for reading, or something has happened to it; a call that
\* undoes or tries again follows one that failed; and what uncordoning relies on
\* having read is so, or somebody else has changed it.
CallInv ==
  /\ rights # {} => "get" \in rights
  /\ client = "kubelet" => rights # {}
  /\ client = "stale" => hurt
  /\ pc \in CordonPCs => op \in NodeOps
  /\ pc = "ncUpgrade" => op = "upgrade"
  /\ op \in {"undo", "retry"} => hurt
  /\ pc \in {"ncGetAgain", "ncWriteAgain"} => client \in {"admin", "stale"}
  /\ op = "uncordon" /\ pc \in {"ncWrite", "ncWriteAgain"} /\ ~seen => cordonedBy # "agent"

\* The ends of a call that succeeded, and of one that failed.
TakenBack == uncordonAfter /\ ~hurt => cordonedBy # "agent"

CordonInv == CallInv /\ RightsSuffice /\ CordonTakenBack

\* What a step of the calls has to establish.
LEMMA CallSuffices ==
  ASSUME CallInv', pc' = "failed" => hurt', pc' = "ok" => TakenBack'
  PROVE  CordonInv'
BY DEF CordonInv, RightsSuffice, CordonTakenBack, TakenBack, Ends

LEMMA ClientKeeps == ASSUME CordonTypeOK, CordonInv, GetClient \/ LastResort \/ GetAdmin
                     PROVE CordonInv'
<1> USE DEF CordonInv, CallInv, NodeOps, CordonPCs, Goto, GivenUp, Proceed, Returns, AfterClient
<1>1. CASE GetClient
  BY <1>1, CallSuffices DEF GetClient
<1>2. CASE LastResort
  BY <1>2, CallSuffices DEF LastResort
<1>3. CASE GetAdmin
  BY <1>3, CallSuffices DEF GetAdmin
<1> QED BY <1>1, <1>2, <1>3

\* Nobody is refused to read the node whose certificate is accepted.
LEMMA ReadingKeeps ==
  ASSUME CordonTypeOK, CordonInv,
         GetNode("ncGet", "ncWrite") \/ GetNode("ncGetAgain", "ncWriteAgain")
  PROVE  CordonInv'
<1> USE DEF CordonInv, CallInv, NodeOps, CordonPCs
<1>1. pc \in {"ncGet", "ncGetAgain"} /\ UNCHANGED <<client, rights, cordonedBy>>
  BY DEF GetNode
<1>2. Denied("get") => hurt
  BY DEF Denied
<1>3. CASE Fails /\ GivenUp /\ hurt' = TRUE /\ UNCHANGED seen
  BY <1>1, <1>3, CallSuffices DEF GivenUp, Proceed, Returns, Goto
<1>4. CASE Denied("get") /\ GivenUp /\ UNCHANGED <<seen, hurt>>
  BY <1>1, <1>2, <1>4, CallSuffices DEF GivenUp, Proceed, Returns, Goto
<1>5. CASE op = "isCordoned" /\ Done /\ UNCHANGED hurt
  BY <1>1, <1>5, CallSuffices DEF Done, Proceed, Goto
<1>6. ASSUME UNCHANGED <<op, uncordonAfter, hurt>>, seen' = (cordonedBy # "nobody"),
             \/ pc = "ncGet" /\ pc' = "ncWrite"
             \/ pc = "ncGetAgain" /\ pc' = "ncWriteAgain"
      PROVE  CordonInv'
  BY <1>1, <1>6, CallSuffices
<1> QED BY <1>3, <1>4, <1>5, <1>6 DEF GetNode, Goto

LEMMA WritingKeeps ==
  ASSUME CordonTypeOK, CordonInv,
         WriteNode("ncWrite", OnDenial) \/ WriteNode("ncWriteAgain", GivenUp)
  PROVE  CordonInv'
<1> USE DEF CordonInv, CallInv, NodeOps, CordonPCs
<1>1. pc \in {"ncWrite", "ncWriteAgain"} /\ UNCHANGED <<client, rights, seen>>
  BY DEF WriteNode
<1>2. CASE Writes /\ Done /\ UNCHANGED hurt
  <2>1. op = "uncordon" => cordonedBy' # "agent"
    BY <1>1, <1>2 DEF Writes
  <2> QED BY <1>1, <1>2, <2>1, CallSuffices DEF Done, AfterUpgrade, Proceed, Returns, Goto, TakenBack
<1>3. CASE GivenUp /\ hurt' = TRUE
  BY <1>1, <1>3, CallSuffices DEF GivenUp, Proceed, Returns, Goto
<1>4. CASE OnDenial /\ UNCHANGED <<cordonedBy, hurt>>
  BY <1>1, <1>4, CallSuffices DEF OnDenial, Goto
<1>5. CASE /\ pc = "ncWriteAgain" /\ client = "stale" /\ GivenUp
           /\ UNCHANGED <<cordonedBy, hurt>>
  BY <1>1, <1>5, CallSuffices DEF GivenUp, Proceed, Returns, Goto
<1>6. pc = "ncWriteAgain" => client \in {"admin", "stale"}
  OBVIOUS
<1> QED BY <1>2, <1>3, <1>4, <1>5, <1>6 DEF WriteNode, Denied

LEMMA UpgradeKeeps == ASSUME CordonTypeOK, CordonInv, Upgrade PROVE CordonInv'
<1> USE DEF CordonInv, CallInv, NodeOps, CordonPCs
<1>1. pc = "ncUpgrade" /\ op = "upgrade" /\ UNCHANGED <<client, rights, cordonedBy, seen>>
  BY DEF Upgrade
<1>2. CASE Done /\ UNCHANGED hurt
  BY <1>1, <1>2, CallSuffices DEF Done, AfterUpgrade, Proceed, Returns, Goto, TakenBack
<1>3. CASE GivenUp /\ hurt' = TRUE
  BY <1>1, <1>3, CallSuffices DEF GivenUp, Proceed, Returns, Goto
<1> QED BY <1>2, <1>3 DEF Upgrade

LEMMA CordonInvariance == ASSUME InOrder, CordonInv, [Next]_vars PROVE CordonInv'
<1>0. ProceduresTypeOK /\ CordonTypeOK
  BY DEF InOrder, ProceduresTypeOK
<1>1. ASSUME pc # "idle", procedure = "upgrade" PROVE steps[position] = "upgrade"
  <2>1. steps = <<"upgrade">> /\ position \in 1..Len(steps)
    BY <1>1 DEF InOrder, IInv, RunInv, ProcedureInv
  <2>2. Len(steps) = 1
    BY <2>1
  <2> QED BY <2>1, <2>2
<1> USE DEF CordonInv, CallInv, RightsSuffice, CordonTakenBack
<1>2. CASE CordonTurn
  <2>1. CASE BeginCordonStep
    BY <2>1 DEF BeginCordonStep, BeginMaintenance, NodeOps, Ends
  <2> QED BY <1>0, <1>2, <2>1, ClientKeeps, ReadingKeeps, WritingKeeps, UpgradeKeeps
          DEF CordonTurn, CordonStep
<1>3. ASSUME NodeTurn \/ DownloadTurn \/ HostTurn \/ ArcTurn \/ KubeadmTurn \/ AKSTurn
      PROVE  CordonInv'
  <2>1. UNCHANGED cordonVars /\ UNCHANGED procedure /\ pc # "idle"
    BY <1>3 DEF NodeTurn, DownloadTurn, HostTurn, ArcTurn, KubeadmTurn, AKSTurn, Turn, OnlyNode,
         OnlyDownloads, OnlyHost, OnlyArc, OnlyKubeadm, OnlyAKS, Still, runVars, NodePCs,
         DownloadPCs, HostPCs, ArcPCs, KubeadmPCs, AKSPCs
  <2>2. pc' \notin CordonPCs
    BY <1>3 DEF NodeTurn, DownloadTurn, HostTurn, ArcTurn, KubeadmTurn, AKSTurn, Turn, NodePCs,
         DownloadPCs, HostPCs, ArcPCs, KubeadmPCs, AKSPCs, CordonPCs, Ends
  <2>3. procedure' # "upgrade"
    BY <1>1, <1>3, <2>1, TurnsInSteps DEF NodeSteps, DownloadSteps, HostSteps, ArcSteps,
       KubeadmSteps
  <2> QED BY <2>1, <2>2, <2>3 DEF cordonVars, CordonPCs
<1>4. CASE ResetKubeletClean
  <2>1. steps[position] = "reset-kubelet" /\ pc # "idle"
    BY <1>4 DEF ResetKubeletClean, Call, Attempt, InOrder, LabelInv, NodeLabels, StepIs
  <2>2. UNCHANGED cordonVars /\ procedure' # "upgrade" /\ pc' \in Ends
    BY <1>1, <1>4, <2>1 DEF ResetKubeletClean, Call, Attempt, Goto, Still, runVars, Ends
  <2> QED BY <2>2 DEF cordonVars, CordonPCs, Ends
<1>5. CASE RunTurn
  BY <1>5 DEF RunTurn, cordonVars, CordonPCs, Ends
<1>6. CASE Killed \/ Reboot
  BY <1>6 DEF Killed, Reboot, Abandoned, CordonAbandoned, Goto, CordonPCs, Ends
<1>7. CASE WorldTurn
  <2>1. UNCHANGED <<pc, procedure>>
    BY <1>7 DEF WorldTurn, Still, runVars
  <2>2. UNCHANGED cordonVars \/ CertificatesRotate \/ OperatorMarks
    BY <1>7 DEF WorldTurn, World, NodeLives, OnlyNode, OnlyHost, OnlyArc, OnlyKubeadm, OnlyAKS
  <2> QED BY <2>1, <2>2 DEF CertificatesRotate, OperatorMarks, cordonVars, Ends
<1>8. CASE UNCHANGED vars
  BY <1>8 DEF vars, runVars, cordonVars
<1> QED BY <1>0, <1>2, <1>3, <1>4, <1>5, <1>6, <1>7, <1>8, Turns

LEMMA InitCordonInv == Init => CordonInv
BY DEF Init, CordonInit, CordonInv, CallInv, RightsSuffice, CordonTakenBack, CordonPCs, Ends

\* No upgrade fails for a lack of rights: a client that may not write is replaced by
\* the administrator's, and one that may not read is not used without a request
\* having failed or a certificate having run out (clientset, shouldRetryWithAdmin).
THEOREM AdministratorHelps == Spec => []RightsSuffice
<1>1. InOrder /\ CordonInv /\ [Next]_vars => CordonInv'
  BY CordonInvariance
<1>2. CordonInv => RightsSuffice
  BY DEF CordonInv
<1> QED BY <1>1, <1>2, InitCordonInv, AlwaysInOrder, PTL DEF Spec

\* An upgrade without a failed request does not leave the node cordoned by itself,
\* whatever the operator marks meanwhile: what uncordoning read before it decided to
\* write nothing can only have been changed by somebody else since
\* (executeUpgradePlan, uncordonExecutor).
THEOREM UpgradeUncordons == Spec => []CordonTakenBack
<1>1. InOrder /\ CordonInv /\ [Next]_vars => CordonInv'
  BY CordonInvariance
<1>2. CordonInv => CordonTakenBack
  BY DEF CordonInv
<1> QED BY <1>1, <1>2, InitCordonInv, AlwaysInOrder, PTL DEF Spec
===============================================================================
