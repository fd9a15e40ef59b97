--------------------------- MODULE RefinementProofs ---------------------------
(***************************************************************************)
(* Proof that the daemon implements NodeWork, for every constant: each     *)
(* step of the daemon is, seen through Owner, one step of NodeWork or      *)
(* none. And that its upgrades implement Maintenance.                      *)
(***************************************************************************)
EXTENDS AgentDaemonRefinement, AgentDaemonProofs

USE DEF At, Goto, GuardFree, LoopsRun

\* Who owns the node, goroutine by goroutine.
LEMMA OwnerCases ==
  ASSUME GuardExclusive
  PROVE  /\ pc["main"] \in BootPCs => Owner = "main"
         /\ HealthBusy => Owner = "health"
         /\ Upgrading => Owner = "drift"
         /\ pc["main"] \notin BootPCs /\ ~HealthBusy /\ ~Upgrading => Owner = "none"
BY BusyLabels
   DEF Owner, GuardExclusive, OneWorker, PassNeedsMain, Upgrading, BootPCs

\* The same of the next state.
LEMMA OwnerCasesNext ==
  ASSUME GuardExclusive'
  PROVE  /\ pc'["main"] \in BootPCs => Owner' = "main"
         /\ HealthBusy' => Owner' = "health"
         /\ Upgrading' => Owner' = "drift"
         /\ pc'["main"] \notin BootPCs /\ ~HealthBusy' /\ ~Upgrading' => Owner' = "none"
BY BusyLabels
   DEF Owner, GuardExclusive, OneWorker, PassNeedsMain, HealthBusy, Upgrading, BootPCs

\* A step that changes no owner, no goal and no kubelet is a stutter.
LEMMA Stutters ==
  ASSUME Owner' = Owner, Goal' = Goal, UNCHANGED kubelet
  PROVE  UNCHANGED Work!work
BY DEF Goal, Work!work, kubelet

\* When the process has ended nobody owns the node.
LEMMA EndsOwner == ASSUME ProcessEnds PROVE Owner' = "none" /\ Goal' = Unknown
BY DEF ProcessEnds, Owner, Goal, HealthBusy, Upgrading, Procs, HealthBusyPCs, BootPCs,
       UpgradePCs, MaintenancePCs, SwapPCs, UpgradedPCs

\* The initial states.
LEMMA InitRefines == ASSUME Init PROVE Work!Init
BY DEF Init, Work!Init, Owner, Goal, HealthBusy, Upgrading, Procs, HealthBusyPCs, BootPCs,
       UpgradePCs, MaintenancePCs, SwapPCs, UpgradedPCs, Unknown

\* The steps of a bootstrap: install, start, release.
LEMMA BootstrapRefines ==
  ASSUME IInv, IInv', NEW p \in {"main", "health"}, Bootstrap(p)
  PROVE  [Work!Next]_(Work!work)
<1>0. /\ TypeOK /\ GuardExclusive /\ GuardExclusive'
      /\ p \in Procs /\ p # "none"
      /\ pc \in [Procs -> Labels]
  BY DEF IInv, TypeOK, ControlOK, Procs
<1>1. pc[p] \in BootPCs /\ Owner = p /\ Owner # "none" /\ Goal = target[p]
  <2>1. pc[p] \in BootPCs
    BY DEF Bootstrap, BootDownload, BootStartKubelet, BootStartNPD, BootPCs
  <2>2. Owner = p
    BY <1>0, <2>1, OwnerCases, BusyLabels DEF HealthBusy
  <2> QED
    BY <1>0, <2>1, <2>2 DEF Goal
<1>2. ASSUME pc'[p] \in BootPCs \/ (p = "health" /\ pc'[p] = "bootFailed"), UNCHANGED target
      PROVE  Owner' = Owner /\ Goal' = Goal
  <2>1. Owner' = p
    BY <1>0, <1>2, OwnerCasesNext, BusyLabels DEF HealthBusy
  <2> QED
    BY <1>1, <1>2, <2>1 DEF Goal
<1>3. ASSUME BootstrapFails(p)
      PROVE  \/ Owner' = Owner /\ Goal' = Goal
             \/ Owner' = "none" /\ Goal' = Unknown
  <2>1. CASE p = "main"
    BY <1>3, <2>1, EndsOwner DEF BootstrapFails
  <2>2. CASE p = "health"
    <3>1. pc'[p] = "bootFailed" /\ UNCHANGED target
      BY <1>0, <1>3, <2>2 DEF BootstrapFails, locals
    <3> QED
      BY <1>2, <2>2, <3>1
  <2> QED
    BY <2>1, <2>2
<1>4. CASE BootDownload(p)
  <2>1. (binary' = target[p] \/ UNCHANGED binary) /\ UNCHANGED <<process, restarting>>
    BY <1>4 DEF BootDownload
  <2>2. \/ Owner' = Owner /\ Goal' = Goal
        \/ Owner' = "none" /\ Goal' = Unknown
    BY <1>0, <1>2, <1>3, <1>4 DEF BootDownload, BootPCs, locals
  <2> QED
    BY <1>1, <2>1, <2>2
       DEF Goal, Unknown, Work!Next, Work!Install, Work!MayLetGo, Work!Release, Work!kubelet,
           Work!work
<1>5. CASE BootStartKubelet(p)
  <2>1. /\ \/ UNCHANGED <<process, restarting>>
           \/ process = Unknown /\ process' = binary /\ restarting' = FALSE
        /\ UNCHANGED binary
    BY <1>5 DEF BootStartKubelet, StartsKubelet
  <2>2. \/ Owner' = Owner /\ Goal' = Goal
        \/ Owner' = "none" /\ Goal' = Unknown
    BY <1>0, <1>2, <1>3, <1>5 DEF BootStartKubelet, BootPCs, locals
  <2> QED
    BY <1>1, <2>1, <2>2
       DEF Goal, Unknown, Work!Next, Work!Start, Work!MayLetGo, Work!Release, Work!kubelet,
           Work!work
<1>6. CASE BootStartNPD(p)
  <2>1. UNCHANGED <<binary, process, restarting>>
    BY <1>6 DEF BootStartNPD, kubelet
  <2>2. CASE BootstrapFails(p)
    BY <1>1, <1>3, <2>1, <2>2
       DEF Goal, Unknown, Work!Next, Work!kubelet, Work!Release, Work!work
  <2>3. CASE pc' = [pc EXCEPT !["main"] = "cleanup"] /\ p = "main"
    <3>1. pc["health"] \notin HealthBusyPCs /\ pc["drift"] \notin UpgradePCs
      BY <1>1, <2>3, BusyLabels
         DEF IInv, GuardExclusive, OneWorker, PassNeedsMain, HealthBusy, BootPCs
    <3>2. Owner' = "none"
      BY <1>0, <2>3, <3>1, OwnerCasesNext DEF HealthBusy, Upgrading, BootPCs, Procs
    <3> QED
      BY <1>1, <2>1, <3>2 DEF Goal, Unknown, Work!Next, Work!kubelet, Work!Release
  <2>4. CASE pc' = [pc EXCEPT !["health"] = "idle"] /\ p = "health"
    <3>1. pc["main"] \notin BootPCs /\ pc["drift"] \notin UpgradePCs
      BY <1>1, <2>4, BusyLabels
         DEF IInv, GuardExclusive, OneWorker, HealthBusy, Upgrading, BootPCs
    <3>2. Owner' = "none"
      BY <1>0, <2>4, <3>1, OwnerCasesNext, BusyLabels DEF HealthBusy, Upgrading, Procs
    <3> QED
      BY <1>1, <2>1, <3>2 DEF Goal, Unknown, Work!Next, Work!kubelet, Work!Release
  <2> QED
    BY <1>6, <2>2, <2>3, <2>4 DEF BootStartNPD
<1> QED
  BY <1>4, <1>5, <1>6 DEF Bootstrap

\* Taking the guard, and giving it back.
LEMMA Takes ==
  ASSUME IInv, IInv', NEW p \in {"health", "drift"}, Owner = "none", Owner' = p,
         UNCHANGED kubelet
  PROVE  Work!Next
<1>1. target'[p] \in Versions
  BY DEF IInv, TypeOK, DataOK, Procs
<1> QED
  BY <1>1 DEF Goal, kubelet, Work!Next, Work!kubelet, Work!Take, Work!Workers

LEMMA Releases ==
  ASSUME Owner # "none", Owner' = "none", UNCHANGED kubelet
  PROVE  Work!Next
BY DEF Goal, Unknown, kubelet, Work!Next, Work!kubelet, Work!Release

\* The health check: it takes the guard, learns its target, bootstraps and
\* releases.
LEMMA HealthRefines == ASSUME IInv, IInv', Health PROVE [Work!Next]_(Work!work)
<1>0. /\ GuardExclusive /\ GuardExclusive'
      /\ pc \in [Procs -> Labels] /\ "health" \in Procs
      /\ HealthBusy => Owner = "health"
      /\ HealthBusy' => Owner' = "health"
  BY OwnerCases, OwnerCasesNext DEF IInv, TypeOK, ControlOK, Procs
<1>1. ASSUME pc["health"] \in HealthBusyPCs, HealthReleases
      PROVE  Owner # "none" /\ Owner' = "none"
  <2>1. /\ pc'["health"] = "idle" /\ pc'["main"] = pc["main"]
        /\ pc'["drift"] = pc["drift"]
    BY <1>0, <1>1 DEF HealthReleases, Procs
  <2>2. pc["main"] \notin BootPCs /\ pc["drift"] \notin UpgradePCs
    BY <1>0, <1>1 DEF GuardExclusive, OneWorker, HealthBusy, Upgrading, BootPCs
  <2> QED
    BY <1>0, <1>1, <2>1, <2>2, BusyLabels DEF Owner, HealthBusy, Upgrading
<1>2. ASSUME pc["health"] \in HealthBusyPCs, NEW l \in HealthBusyPCs, Goto("health", l),
             UNCHANGED <<target, kubelet>>
      PROVE  UNCHANGED Work!work
  BY <1>0, <1>2, Stutters DEF Goal, HealthBusy
<1>3. CASE HealthTick
  <2>1. Owner = "none"
    BY <1>0, <1>3 DEF HealthTick, GuardExclusive, OneWorker, Owner, BootPCs
  <2>2. Owner' = "health"
    BY <1>0, <1>3, BusyLabels DEF HealthTick, HealthBusy
  <2> QED
    BY <1>3, <2>1, <2>2, Takes DEF HealthTick
<1>4. CASE HealthCheck
  BY <1>1, <1>2, <1>4, BusyLabels, Releases DEF HealthCheck, BootPCs
<1>5. CASE SpecGet("health") \/ SpecPut("health")
  BY <1>2, <1>5, BusyLabels DEF SpecGet, SpecPut, AfterSpec
<1>6. CASE HealthOverride
  <2>1. Owner = "health" /\ Owner' = "health"
    BY <1>0, <1>6, BusyLabels DEF HealthOverride, HealthBusy, BootPCs
  <2>2. target'["health"] \in Versions
    BY DEF IInv, TypeOK, DataOK, Procs
  <2> QED
    BY <1>6, <2>1, <2>2 DEF HealthOverride, Goal, kubelet, Work!Next, Work!kubelet, Work!Aim
<1>7. CASE HealthBootFailed
  BY <1>1, <1>7, BusyLabels, Releases DEF HealthBootFailed
<1>8. CASE Bootstrap("health")
  BY <1>8, BootstrapRefines
<1> QED
  BY <1>3, <1>4, <1>5, <1>6, <1>7, <1>8 DEF Health

\* What a drift pass does without the guard nobody sees.
LEMMA PassUnseen ==
  ASSUME IInv, IInv', ~Upgrading, ~Upgrading', UNCHANGED kubelet,
         pc'["health"] = pc["health"],
         pc'["main"] \in BootPCs <=> pc["main"] \in BootPCs,
         \A p \in {"main", "health"} : target'[p] = target[p]
  PROVE  UNCHANGED Work!work
<1>1. Owner' = Owner /\ Owner # "drift"
  BY DEF Owner, HealthBusy
<1>2. Owner = "none" \/ Owner \in {"main", "health"}
  BY DEF Owner
<1> QED
  BY <1>1, <1>2, Stutters DEF Goal

\* While it upgrades, the drift loop owns the node.
LEMMA StaysOwner ==
  ASSUME IInv, IInv', Upgrading, NEW l \in UpgradePCs, Goto("drift", l), UNCHANGED target
  PROVE  /\ Owner = "drift" /\ Owner' = "drift"
         /\ Goal = target["drift"] /\ Goal' = target["drift"]
<1>1. Upgrading'
  BY DEF IInv, TypeOK, ControlOK, Procs, Upgrading
<1> QED
  BY <1>1, OwnerCases, OwnerCasesNext DEF IInv, Goal

\* The steps of an upgrade: stop, install, start, release; the others are
\* not seen.
LEMMA UpgradeRefines == ASSUME IInv, IInv', Upgrade PROVE [Work!Next]_(Work!work)
<1> USE DEF UpgradeStep
<1>1. CASE DriftIsCordoned \/ DriftCordon \/ DriftDrain \/ DriftUndoCordon
           \/ DriftUncordon \/ DriftLeaveCordoned \/ DriftRetryUncordon
  <2>1. /\ Upgrading /\ UNCHANGED <<target, kubelet>>
        /\ \E l \in UpgradePCs : Goto("drift", l)
    BY <1>1
       DEF DriftIsCordoned, DriftCordon, DriftDrain, DriftUndoCordon, DriftUncordon,
           DriftLeaveCordoned, DriftRetryUncordon, locals, Upgrading, UpgradePCs,
           MaintenancePCs, UpgradedPCs
  <2> QED
    BY <2>1, StaysOwner, Stutters
<1>2. CASE DriftStop
  <2>1. /\ Upgrading /\ UNCHANGED <<target, binary, restarting>>
        /\ process' \in {process, Unknown}
        /\ \E l \in UpgradePCs : Goto("drift", l)
    BY <1>2 DEF DriftStop, StopsKubelet, Upgrading, UpgradePCs, SwapPCs
  <2> QED
    BY <2>1, StaysOwner DEF Unknown, Work!Next, Work!Stop, Work!work
<1>3. CASE DriftDownload
  <2>1. /\ Upgrading /\ UNCHANGED <<target, process, restarting>>
        /\ binary' \in {binary, target["drift"]}
        /\ \E l \in UpgradePCs : Goto("drift", l)
    BY <1>3 DEF DriftDownload, Upgrading, UpgradePCs, SwapPCs
  <2> QED
    BY <2>1, StaysOwner DEF Work!Next, Work!Install, Work!MayLetGo, Work!work
<1>4. CASE DriftStart
  <2>1. /\ Upgrading /\ UNCHANGED <<target, binary>>
        /\ \/ UNCHANGED <<process, restarting>>
           \/ process = Unknown /\ process' = binary /\ restarting' = FALSE
        /\ \E l \in UpgradePCs : Goto("drift", l)
    BY <1>4 DEF DriftStart, StartsKubelet, Upgrading, UpgradePCs, SwapPCs, UpgradedPCs
  <2> QED
    BY <2>1, StaysOwner DEF Unknown, Work!Next, Work!Start, Work!MayLetGo, Work!work
<1>5. CASE DriftFinish
  <2>1. /\ Upgrading /\ ~Upgrading' /\ UNCHANGED kubelet
        /\ pc'["health"] = pc["health"]
        /\ pc'["main"] \in {pc["main"], "wait"}
    BY <1>5, BusyLabels
       DEF DriftFinish, DriftReturns, IInv, TypeOK, ControlOK, Procs, Upgrading, UpgradedPCs
  <2>2. pc["main"] \in {"wait", "drift0"} /\ ~HealthBusy
    BY <2>1, BusyLabels
       DEF IInv, GuardExclusive, OneWorker, PassNeedsMain, Upgrading
  <2>3. Owner = "drift" /\ Owner' = "none"
    BY <2>1, <2>2 DEF Owner, HealthBusy, BootPCs
  <2> QED
    BY <2>1, <2>3, Releases
<1> QED
  BY <1>1, <1>2, <1>3, <1>4, <1>5 DEF Upgrade

\* The drift loop.
LEMMA DriftRefines == ASSUME IInv, IInv', Drift PROVE [Work!Next]_(Work!work)
<1>0. pc \in [Procs -> Labels] /\ target \in [Procs -> Versions]
  BY DEF IInv, TypeOK, ControlOK, DataOK
<1>1. CASE Upgrade
  BY <1>1, UpgradeRefines
<1>2. CASE DriftAcquire
  <2>1. ~HealthBusy /\ ~Upgrading /\ pc["main"] \in {"wait", "drift0"}
    BY <1>2 DEF DriftAcquire, IInv, GuardExclusive, OneWorker, PassNeedsMain
  <2>2. Owner = "none"
    BY <2>1, OwnerCases DEF IInv, BootPCs
  <2>3. Upgrading'
    BY <1>0, <1>2, BusyLabels DEF DriftAcquire, Procs, Upgrading, MaintenancePCs
  <2>4. Owner' = "drift"
    BY <2>3, OwnerCasesNext DEF IInv
  <2> QED
    BY <1>2, <2>2, <2>4, Takes DEF DriftAcquire
<1>3. CASE DriftTick \/ SpecGet("drift") \/ SpecPut("drift") \/ DriftLoadSpec
           \/ DriftDetect \/ DriftSkip
  <2>1. /\ UNCHANGED kubelet
        /\ \A p \in {"main", "health"} : target'[p] = target[p]
    BY <1>0, <1>3
       DEF DriftTick, SpecGet, SpecPut, DriftLoadSpec, DriftDetect, DriftSkip, locals, Procs
  <2>2. /\ pc["drift"] \in {"idle", "get", "put", "loadSpec", "detect", "acquire"}
        /\ pc'["drift"] \in {"idle", "get", "put", "loadSpec", "detect", "acquire"}
    BY <1>0, <1>3
       DEF DriftTick, SpecGet, SpecPut, AfterSpec, DriftLoadSpec, DriftDetect, DriftSkip,
           DriftReturns, Procs
  <2>3. /\ pc'["health"] = pc["health"]
        /\ pc'["main"] = pc["main"] \/ (pc["main"] = "drift0" /\ pc'["main"] = "wait")
    BY <1>0, <1>3
       DEF DriftTick, SpecGet, SpecPut, DriftLoadSpec, DriftDetect, DriftSkip, DriftReturns,
           Procs
  <2>4. ~Upgrading /\ ~Upgrading'
    BY <2>2, BusyLabels DEF Upgrading
  <2>5. pc'["main"] \in BootPCs <=> pc["main"] \in BootPCs
    BY <2>3 DEF BootPCs
  <2> QED
    BY <2>1, <2>3, <2>4, <2>5, PassUnseen
<1> QED
  BY <1>1, <1>2, <1>3 DEF Drift

\* Whenever the process ends, NodeWork's agent dies.
LEMMA EndsRefines ==
  ASSUME ProcessEnds, UNCHANGED binary,
         UNCHANGED <<process, restarting>> \/ (process' = Unknown /\ restarting' = FALSE)
  PROVE  Work!Next
BY EndsOwner DEF Unknown, Work!Next, Work!AgentDies

\* A step that moves no worker in or out of its work is not seen.
LEMMA Unseen ==
  ASSUME UNCHANGED <<target, kubelet>>,
         pc'["main"] \in BootPCs <=> pc["main"] \in BootPCs,
         HealthBusy' <=> HealthBusy, Upgrading' <=> Upgrading
  PROVE  UNCHANGED Work!work
<1>1. Owner' = Owner
  BY DEF Owner
<1> QED
  BY <1>1, Stutters DEF Goal

\* main: it takes the node when it starts, and bootstraps it.
LEMMA MainRefines == ASSUME IInv, IInv', Main PROVE [Work!Next]_(Work!work)
<1> USE DEF Procs
<1>0. pc \in [Procs -> Labels] /\ GuardExclusive
  BY DEF IInv, TypeOK, ControlOK
<1>1. CASE AgentStart
  <2>1. ~HealthBusy /\ ~Upgrading
    BY <1>0, <1>1, BusyLabels
       DEF AgentStart, GuardExclusive, OneWorker, PassNeedsMain, Upgrading
  <2>2. Owner = "none"
    BY <1>1, <2>1 DEF AgentStart, Owner, BootPCs
  <2>3. Owner' = "main"
    BY <1>0, <1>1 DEF AgentStart, Owner, BootPCs
  <2>4. target'["main"] \in Versions
    BY DEF IInv, TypeOK, DataOK
  <2> QED
    BY <1>1, <2>2, <2>3, <2>4
       DEF AgentStart, Goal, kubelet, Work!Next, Work!kubelet, Work!Take, Work!Workers
<1>2. CASE Cleanup
  BY <1>0, <1>2, Unseen DEF Cleanup, locals, BootPCs, HealthBusy, Upgrading
<1>3. CASE DaemonReturns
  BY <1>3, EndsRefines DEF DaemonReturns, kubelet
<1>4. CASE Bootstrap("main")
  BY <1>4, BootstrapRefines
<1> QED
  BY <1>1, <1>2, <1>3, <1>4 DEF Main

\* The status loop owns nothing.
LEMMA StatusRefines == ASSUME IInv, IInv', Status PROVE UNCHANGED Work!work
<1> USE DEF Procs
<1>0. pc \in [Procs -> Labels] /\ PassNeedsMain
  BY DEF IInv, TypeOK, ControlOK, GuardExclusive
<1>1. CASE StatusTick \/ StatusVersion \/ StatusServices
  BY <1>0, <1>1, Unseen
     DEF StatusTick, StatusVersion, StatusServices, SampleServices, locals, HealthBusy, Upgrading
<1>2. CASE StatusWrite
  BY <1>0, <1>2, Unseen, BusyLabels
     DEF StatusWrite, PassNeedsMain, HealthBusy, Upgrading, BootPCs
<1> QED
  BY <1>1, <1>2 DEF Status

\* The end of a loop.
LEMMA ExitRefines ==
  ASSUME IInv, IInv', NEW p \in ActiveLoops, LoopExit(p)
  PROVE  UNCHANGED Work!work
<1>1. pc \in [Procs -> Labels]
  BY DEF IInv, TypeOK, ControlOK
<1>2. p \in Procs /\ p # "main"
  BY DEF ActiveLoops, Procs
<1> QED
  BY <1>1, <1>2, Unseen, BusyLabels
     DEF LoopExit, locals, HealthBusy, Upgrading, Procs

\* The environment only lets the agent or the kubelet die.
LEMMA EnvironmentRefines ==
  ASSUME IInv, IInv', Environment
  PROVE  [Work!Next]_(Work!work)
<1>1. CASE Crash
  BY <1>1, EndsRefines DEF Crash
<1>2. CASE KubeletDies \/ KubeletRestarts
  <2>1. Owner' = Owner /\ Goal' = Goal
    BY <1>2 DEF KubeletDies, KubeletRestarts, Owner, Goal, HealthBusy, Upgrading, locals
  <2> QED
    BY <1>2, <2>1
       DEF KubeletDies, KubeletRestarts, Unknown, Work!Next, Work!KubeletDies,
           Work!KubeletRestarts
<1>3. CASE Terminate \/ SnapshotAges \/ OperatorCordons \/ ClusterUpgrades
  BY <1>3, Unseen
     DEF Terminate, SnapshotAges, OperatorCordons, ClusterUpgrades, locals, HealthBusy,
         Upgrading
<1> QED
  BY <1>1, <1>2, <1>3 DEF Environment

\* For every set of versions, configuration and bound, the daemon implements
\* NodeWork: one worker at a time, and a kubelet binary that only ever becomes
\* the version its owner aims at.
THEOREM Refinement == Spec => ImplementsNodeWork
<1>1. Init => Work!Init
  BY InitRefines
<1>2. IInv /\ IInv' /\ [Next]_vars => [Work!Next]_(Work!work)
  <2> SUFFICES ASSUME IInv, IInv', [Next]_vars PROVE [Work!Next]_(Work!work)
    OBVIOUS
  <2>1. CASE UNCHANGED vars
    BY <2>1, Unseen DEF vars, locals, HealthBusy, Upgrading
  <2> QED
    BY <2>1, MainRefines, StatusRefines, HealthRefines, DriftRefines, ExitRefines,
       EnvironmentRefines DEF Next
<1> QED
  BY <1>1, <1>2, Invariance, PTL DEF Spec, ImplementsNodeWork, Work!Spec

-----------------------------------------------------------------------------
(* The upgrades of the daemon implement Maintenance.                       *)

\* A run that is about to cordon the node will take that back: what it tells
\* Maintenance when the call returns.
CordonIsOwn == pc["drift"] = "cordon" => uncordonAfter

\* What the drift loop has in hand in a phase, and what it does not.
LEMMA PhaseCases ==
  /\ ~Upgrading => Phase = "none"
  /\ Phase = "none" => ~OwnCordon
BY DEF Phase, OwnCordon, Upgrading, UpgradePCs, MaintenancePCs, SwapPCs, UpgradedPCs

\* The same of the next state.
LEMMA PhaseCasesNext ==
  /\ ~Upgrading' => Phase' = "none"
  /\ Phase' = "none" => ~OwnCordon'
BY DEF Phase, OwnCordon, Upgrading, UpgradePCs, MaintenancePCs, SwapPCs, UpgradedPCs

\* Nothing of an upgrade is touched.
LEMMA NoMaintenance ==
  ASSUME pc'["drift"] = pc["drift"], UNCHANGED <<uncordonAfter, cordonedBy>>
  PROVE  UNCHANGED Maint!maintenance
BY DEF Maint!maintenance, Phase, OwnCordon

\* The end of a run, whatever became of it.
LEMMA RunIsOver ==
  ASSUME ~Upgrading', UNCHANGED cordonedBy
  PROVE  [Maint!Next]_(Maint!maintenance)
<1>1. Phase' = "none" /\ OwnCordon' = FALSE
  BY PhaseCasesNext DEF OwnCordon
<1>2. CASE Phase = "none"
  <2>1. OwnCordon = FALSE
    BY <1>2, PhaseCases DEF OwnCordon
  <2> QED BY <1>1, <1>2, <2>1 DEF Maint!maintenance
<1>3. CASE Phase # "none"
  BY <1>1, <1>3 DEF Maint!Next, Maint!Forget
<1> QED BY <1>2, <1>3

\* The calls of an upgrade, each of which is one step of Maintenance.
LEMMA UpgradeMaintains ==
  ASSUME TypeOK, CordonIsOwn, Upgrade
  PROVE  [Maint!Next]_(Maint!maintenance)
<1> USE DEF UpgradeStep, Maint!Next, Maint!MayMark, Maint!MayUnmark, Maint!Fail,
            Maint!LastAttempt, Maint!maintenance
<1>0. pc \in [Procs -> Labels] /\ "drift" \in Procs /\ uncordonAfter \in BOOLEAN
  BY DEF TypeOK, ControlOK, DataOK, Procs
<1>1. \A l : Goto("drift", l) => pc'["drift"] = l
  BY <1>0
<1>2. CASE DriftIsCordoned
  <2>1. pc["drift"] = "isCordoned" /\ UNCHANGED cordonedBy
    BY <1>2 DEF DriftIsCordoned, cluster
  <2>2. CASE /\ uncordonAfter' = (cordonedBy = "nobody")
             /\ Goto("drift", IF cordonedBy = "nobody" THEN "cordon" ELSE "drain")
    BY <1>0, <1>1, <2>1, <2>2 DEF Phase, OwnCordon, Maint!Ask
  <2>3. CASE Goto("drift", "finishFailed") /\ UNCHANGED uncordonAfter
    BY <1>0, <1>1, <2>1, <2>3 DEF Phase, OwnCordon
  <2> QED BY <1>2, <2>2, <2>3 DEF DriftIsCordoned, UncordonAfter
<1>3. CASE DriftCordon
  BY <1>0, <1>1, <1>3 DEF DriftCordon, Cordons, CordonIsOwn, Phase, OwnCordon, Maint!Cordon
<1>4. CASE DriftDrain
  BY <1>0, <1>1, <1>4 DEF DriftDrain, Phase, OwnCordon, Maint!Drain, cluster
<1>5. CASE DriftUndoCordon
  BY <1>0, <1>1, <1>5 DEF DriftUndoCordon, Uncordons, Phase, OwnCordon
<1>6. CASE DriftStop
  BY <1>0, <1>1, <1>6 DEF DriftStop, Phase, OwnCordon, cluster
<1>7. CASE DriftDownload
  BY <1>0, <1>1, <1>7 DEF DriftDownload, Phase, OwnCordon, cluster
<1>8. CASE DriftStart
  BY <1>0, <1>1, <1>8 DEF DriftStart, Phase, OwnCordon, Maint!Upgrade, cluster
<1>9. CASE DriftUncordon
  BY <1>0, <1>1, <1>9 DEF DriftUncordon, Uncordons, Phase, OwnCordon, Maint!Uncordon
<1>10. CASE DriftLeaveCordoned
  BY <1>0, <1>1, <1>10 DEF DriftLeaveCordoned, Phase, OwnCordon, cluster, locals
<1>11. CASE DriftRetryUncordon
  BY <1>0, <1>1, <1>11 DEF DriftRetryUncordon, Uncordons, Phase, OwnCordon
<1>12. CASE DriftFinish
  <2>1. ~Upgrading' /\ UNCHANGED cordonedBy
    BY <1>0, <1>12, BusyLabels DEF DriftFinish, DriftReturns, Upgrading, Procs, cluster
  <2> QED BY <2>1, RunIsOver
<1> QED BY <1>2, <1>3, <1>4, <1>5, <1>6, <1>7, <1>8, <1>9, <1>10, <1>11, <1>12 DEF Upgrade

\* The rest of the drift loop: the run begins when the guard is taken.
LEMMA DriftMaintains ==
  ASSUME TypeOK, CordonIsOwn, Drift
  PROVE  [Maint!Next]_(Maint!maintenance)
<1>0. pc \in [Procs -> Labels] /\ "drift" \in Procs
  BY DEF TypeOK, ControlOK, Procs
<1>1. CASE DriftAcquire
  BY <1>0, <1>1 DEF DriftAcquire, Phase, OwnCordon, locals, cluster, Maint!Next, Maint!Begin
<1>2. CASE DriftTick \/ SpecGet("drift") \/ SpecPut("drift") \/ DriftLoadSpec
           \/ DriftDetect \/ DriftSkip
  <2>1. UNCHANGED cordonedBy
    BY <1>2 DEF DriftTick, SpecGet, SpecPut, DriftLoadSpec, DriftDetect, DriftSkip, cluster
  <2>2. pc'["drift"] \in {"idle", "get", "put", "loadSpec", "detect", "acquire"}
    BY <1>0, <1>2
       DEF DriftTick, SpecGet, SpecPut, AfterSpec, DriftLoadSpec, DriftDetect, DriftSkip,
           DriftReturns, Procs
  <2>3. ~Upgrading'
    BY <2>2, BusyLabels DEF Upgrading
  <2> QED BY <2>1, <2>3, RunIsOver
<1> QED BY <1>1, <1>2, UpgradeMaintains DEF Drift

\* Nobody else changes anything of it but the operator, and whoever ends the process.
LEMMA OthersMaintain ==
  ASSUME TypeOK, Main \/ Status \/ Health \/ Environment
                 \/ (\E p \in ActiveLoops : LoopExit(p))
  PROVE  [Maint!Next]_(Maint!maintenance)
<1>0. pc \in [Procs -> Labels] /\ Procs = {"main", "status", "health", "drift"}
  BY DEF TypeOK, ControlOK, Procs
<1>1. ASSUME ProcessEnds PROVE ~Upgrading'
  BY <1>0, <1>1, BusyLabels DEF ProcessEnds, Upgrading
<1>2. CASE Main
  <2>1. CASE AgentStart \/ Cleanup
    BY <1>0, <2>1, NoMaintenance DEF AgentStart, Cleanup, locals, cluster
  <2>2. CASE DaemonReturns
    BY <1>1, <2>2, RunIsOver DEF DaemonReturns, cluster
  <2>3. CASE Bootstrap("main")
    <3>1. ProcessEnds \/ (pc'["drift"] = pc["drift"] /\ UNCHANGED uncordonAfter)
      BY <1>0, <2>3
         DEF Bootstrap, BootDownload, BootStartKubelet, BootStartNPD, BootstrapFails, locals
    <3>2. UNCHANGED cordonedBy
      BY <2>3 DEF Bootstrap, BootDownload, BootStartKubelet, BootStartNPD, cluster
    <3> QED BY <1>1, <3>1, <3>2, NoMaintenance, RunIsOver
  <2> QED BY <1>2, <2>1, <2>2, <2>3 DEF Main
<1>3. CASE Status
  <2>1. pc'["drift"] \in {pc["drift"], "get"} /\ UNCHANGED <<uncordonAfter, cordonedBy>>
    BY <1>0, <1>3
       DEF Status, StatusTick, StatusVersion, StatusServices, SampleServices, StatusWrite,
           locals, cluster
  <2>2. CASE pc'["drift"] = "get"
    BY <2>1, <2>2, BusyLabels, RunIsOver DEF Upgrading
  <2> QED BY <2>1, <2>2, NoMaintenance
<1>4. CASE Health
  <2>1. pc'["drift"] = pc["drift"] /\ UNCHANGED <<uncordonAfter, cordonedBy>>
    BY <1>0, <1>4
       DEF Health, HealthTick, HealthCheck, HealthReleases, SpecGet, SpecPut, HealthOverride,
           HealthBootFailed, Bootstrap, BootDownload, BootStartKubelet, BootStartNPD,
           BootstrapFails, locals, cluster
  <2> QED BY <2>1, NoMaintenance
<1>5. ASSUME NEW p \in ActiveLoops, LoopExit(p) PROVE [Maint!Next]_(Maint!maintenance)
  <2>1. UNCHANGED <<uncordonAfter, cordonedBy>>
    BY <1>5 DEF LoopExit, locals, cluster
  <2>2. CASE p = "drift"
    BY <1>0, <1>5, <2>1, <2>2, BusyLabels, RunIsOver DEF LoopExit, Upgrading
  <2>3. CASE p # "drift"
    BY <1>0, <1>5, <2>1, <2>3, NoMaintenance DEF LoopExit
  <2> QED BY <2>2, <2>3
<1>6. CASE Environment
  <2>1. CASE Crash
    BY <1>1, <2>1, RunIsOver DEF Crash, cluster
  <2>2. CASE OperatorCordons
    BY <2>2 DEF OperatorCordons, locals, Phase, OwnCordon, Maint!Next, Maint!Operator
  <2>3. CASE Terminate \/ KubeletDies \/ KubeletRestarts \/ SnapshotAges \/ ClusterUpgrades
    BY <2>3, NoMaintenance
       DEF Terminate, KubeletDies, KubeletRestarts, SnapshotAges, ClusterUpgrades, locals, cluster
  <2> QED BY <1>6, <2>1, <2>2, <2>3 DEF Environment
<1> QED BY <1>2, <1>3, <1>4, <1>5, <1>6

\* Only the drift loop gets to the cordon, and only from a node it found schedulable.
LEMMA CordonIsOwnStep == ASSUME TypeOK, CordonIsOwn, [Next]_vars PROVE CordonIsOwn'
<1> USE DEF CordonIsOwn
<1>0. pc \in [Procs -> Labels] /\ Procs = {"main", "status", "health", "drift"}
  BY DEF TypeOK, ControlOK, Procs
<1>1. ASSUME ProcessEnds PROVE pc'["drift"] = "idle"
  BY <1>0, <1>1 DEF ProcessEnds
<1>2. CASE Upgrade
  <2>1. CASE DriftIsCordoned
    BY <1>0, <2>1 DEF DriftIsCordoned, UncordonAfter
  <2>2. CASE DriftFinish
    BY <1>0, <2>2 DEF DriftFinish, DriftReturns
  <2> QED
    BY <1>0, <1>2, <2>1, <2>2
       DEF Upgrade, UpgradeStep, DriftCordon, DriftDrain, DriftUndoCordon, DriftStop,
           DriftDownload, DriftStart, DriftUncordon, DriftLeaveCordoned, DriftRetryUncordon
<1>3. CASE Drift
  BY <1>0, <1>2, <1>3
     DEF Drift, DriftTick, SpecGet, SpecPut, AfterSpec, DriftLoadSpec, DriftDetect,
         DriftAcquire, DriftSkip, DriftReturns
<1>4. CASE Main
  <2>1. CASE AgentStart \/ Cleanup
    BY <1>0, <2>1 DEF AgentStart, Cleanup, locals
  <2>2. CASE DaemonReturns
    BY <1>1, <2>2 DEF DaemonReturns
  <2>3. CASE Bootstrap("main")
    <3>1. ProcessEnds \/ (pc'["drift"] = pc["drift"] /\ UNCHANGED uncordonAfter)
      BY <1>0, <2>3
         DEF Bootstrap, BootDownload, BootStartKubelet, BootStartNPD, BootstrapFails, locals
    <3> QED BY <1>1, <3>1
  <2> QED BY <1>4, <2>1, <2>2, <2>3 DEF Main
<1>5. CASE Status
  BY <1>0, <1>5 DEF Status, StatusTick, StatusVersion, StatusServices, StatusWrite, locals
<1>6. CASE Health
  BY <1>0, <1>6
     DEF Health, HealthTick, HealthCheck, HealthReleases, SpecGet, SpecPut, HealthOverride,
         HealthBootFailed, Bootstrap, BootDownload, BootStartKubelet, BootStartNPD,
         BootstrapFails, locals
<1>7. ASSUME NEW p \in ActiveLoops, LoopExit(p) PROVE CordonIsOwn'
  BY <1>0, <1>7 DEF LoopExit, locals
<1>8. CASE Environment
  BY <1>0, <1>1, <1>8
     DEF Environment, Crash, OperatorCordons, Terminate, KubeletDies, KubeletRestarts,
         SnapshotAges, ClusterUpgrades, locals
<1>9. CASE UNCHANGED vars
  BY <1>9 DEF vars, locals
<1> QED BY <1>3, <1>4, <1>5, <1>6, <1>7, <1>8, <1>9 DEF Next

\* Whatever the versions and bounds, and whatever the other loops, signals, crashes and
\* the operator do around it, the daemon's treatment of the node's schedulability is
\* that of Maintenance: a run takes back a cordon of its own and no other
\* (cordonAndDrainExecutor, uncordonExecutor, runKubernetesUpgradeRemediation).
THEOREM MaintenanceOfDaemon == Spec => DaemonImplementsMaintenance
<1>1. Init => Maint!Init /\ CordonIsOwn
  BY DEF Init, Procs, Maint!Init, Phase, OwnCordon, CordonIsOwn
<1>2. TypeOK /\ CordonIsOwn /\ [Next]_vars => CordonIsOwn'
  BY CordonIsOwnStep
<1>3. TypeOK /\ CordonIsOwn /\ [Next]_vars => [Maint!Next]_(Maint!maintenance)
  <2> SUFFICES ASSUME TypeOK, CordonIsOwn, [Next]_vars
               PROVE  [Maint!Next]_(Maint!maintenance)
    OBVIOUS
  <2>1. CASE UNCHANGED vars
    BY <2>1, NoMaintenance DEF vars, locals, cluster
  <2> QED BY <2>1, DriftMaintains, OthersMaintain DEF Next
<1> QED BY <1>1, <1>2, <1>3, TypeCorrect, PTL DEF Spec, DaemonImplementsMaintenance, Maint!Spec
===============================================================================
