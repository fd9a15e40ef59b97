-------------------------- MODULE AgentDaemonProofs --------------------------
(***************************************************************************)
(* Proofs, for every set of versions and every bound, that the states of   *)
(* the daemon are well-typed, that bootstrapInProgress serialises the      *)
(* workers, and what that gives a kubelet upgrade.                         *)
(***************************************************************************)
EXTENDS AgentDaemon, TLAPS

USE DEF At, Goto, GuardFree, LoopsRun

-----------------------------------------------------------------------------
(* Lemmas on the values and on how program counters move.                  *)

\* Every version, and Unknown, is a KnownOrNot.
LEMMA Known == Versions \subseteq KnownOrNot /\ Unknown \in KnownOrNot /\ Unknown \notin Versions
BY VersionsAssumption DEF KnownOrNot, Unknown

\* The empty snapshots and samples are typed.
LEMMA EmptyValues ==
  /\ NoSnapshot \in Snapshot
  /\ NoSpec \in [version : KnownOrNot, fresh : BOOLEAN]
  /\ NoSample \in [version : KnownOrNot, running : BOOLEAN, host : BOOLEAN]
BY Known DEF NoSnapshot, Snapshot, NoSpec, NoSample

\* The two read-modify-writes of drift remediation return snapshots.
LEMMA MarksType ==
  ASSUME NEW s \in Snapshot, NEW v \in Versions
  PROVE  /\ MarkKubeletUnhealthy(s) \in Snapshot
         /\ MarkKubeletHealthyAfterUpgrade(s, v) \in Snapshot
BY Known DEF MarkKubeletUnhealthy, MarkKubeletHealthyAfterUpgrade, Snapshot

\* The counter of faults stays within its bound, however a call ends.
LEMMA Counting ==
  ASSUME DataOK, Succeeds \/ Fails
  PROVE  faults' \in 0..MaxFaults
BY ConfigAssumption DEF DataOK, Succeeds, Fails

\* Which labels belong to which goroutine.
LEMMA LabelSets ==
  /\ LabelsOf("main") = MainPCs /\ LabelsOf("status") = StatusPCs
  /\ LabelsOf("health") = HealthPCs /\ LabelsOf("drift") = DriftPCs
  /\ \A p \in Procs : LabelsOf(p) \subseteq Labels
BY DEF LabelsOf, Labels, Procs

\* The program counter of one goroutine moves to a label of that goroutine.
LEMMA Moves ==
  ASSUME ControlOK, NEW p \in Procs, NEW l \in LabelsOf(p),
         Goto(p, l), l # "put", UNCHANGED fetched
  PROVE  ControlOK'
BY LabelSets DEF ControlOK

\* When a drift pass returns, main may return from its start-up pass.
LEMMA DriftReturnsMoves ==
  ASSUME ControlOK, DriftReturns, UNCHANGED fetched
  PROVE  ControlOK'
<1> DEFINE m == IF pc["main"] = "drift0" THEN "wait" ELSE pc["main"]
<1>1. m \in MainPCs /\ m \in Labels /\ m # "put"
  BY LabelSets DEF ControlOK, Procs, MainPCs, BootPCs
<1>2. /\ pc' \in [Procs -> Labels]
      /\ pc'["main"] = m /\ pc'["drift"] = "idle"
      /\ pc'["status"] = pc["status"] /\ pc'["health"] = pc["health"]
  BY <1>1, LabelSets DEF ControlOK, DriftReturns, Procs, DriftPCs
<1>3. \A p \in Procs : pc'[p] \in LabelsOf(p)
  BY <1>1, <1>2, LabelSets DEF ControlOK, Procs, DriftPCs
<1> QED
  BY <1>1, <1>2, <1>3 DEF ControlOK, Procs

\* A process that ends leaves typed memory behind.
LEMMA EndsType ==
  ASSUME ProcessEnds
  PROVE  /\ ControlOK'
         /\ ctxDone' \in BOOLEAN /\ inProgress' \in {0, 1} /\ uncordonAfter' \in BOOLEAN
         /\ target' \in [Procs -> Versions]
         /\ sample' \in [version : KnownOrNot, running : BOOLEAN, host : BOOLEAN]
<1> USE DEF ProcessEnds
<1>1. pc' \in [Procs -> Labels] /\ \A p \in Procs : pc'[p] \in LabelsOf(p) /\ pc'[p] # "put"
  BY LabelSets DEF Procs, MainPCs, StatusPCs, HealthPCs, DriftPCs, Labels
<1>2. fetched' \in [Procs -> KnownOrNot] /\ target' \in [Procs -> Versions]
  BY Known, ConfigAssumption
<1> QED
  BY <1>1, <1>2, EmptyValues DEF ControlOK

-----------------------------------------------------------------------------
(* Types.                                                                  *)

\* A fresh node with the agent down is typed.
LEMMA InitType == ASSUME Init PROVE TypeOK
<1> USE DEF Init
<1>1. pc \in [Procs -> Labels] /\ \A p \in Procs : pc[p] \in LabelsOf(p) /\ pc[p] # "put"
  BY LabelSets DEF Procs, MainPCs, StatusPCs, HealthPCs, DriftPCs, Labels
<1>2. fetched \in [Procs -> KnownOrNot] /\ target \in [Procs -> Versions]
  BY Known, ConfigAssumption
<1>3. ControlOK
  BY <1>1, <1>2 DEF ControlOK
<1>4. /\ ctxDone \in BOOLEAN /\ inProgress \in {0, 1} /\ uncordonAfter \in BOOLEAN
      /\ cordonedBy \in Cordoners /\ desired \in Versions
      /\ binary \in KnownOrNot /\ process \in KnownOrNot
  BY Known DEF Cordoners
<1>5. faults \in 0..MaxFaults /\ events \in 0..MaxEvents
  BY ConfigAssumption
<1>6. DataOK
  BY <1>2, <1>4, <1>5, EmptyValues DEF DataOK
<1> QED
  BY <1>3, <1>6 DEF TypeOK

\* A bootstrap step, of main or of the health check, keeps the types.
LEMMA BootstrapType ==
  ASSUME TypeOK, NEW p \in {"main", "health"}, Bootstrap(p)
  PROVE  TypeOK'
<1> USE DEF TypeOK
<1>0. /\ p \in Procs
      /\ \A l \in BootPCs \ {"download"} : l \in LabelsOf(p) /\ l # "put"
  BY LabelSets DEF Procs, BootPCs, MainPCs, HealthPCs, HealthBusyPCs
<1>1. BootstrapFails(p) => ControlOK'
  BY <1>0, EndsType, Moves, LabelSets
     DEF BootstrapFails, locals, HealthPCs, HealthBusyPCs, Procs
<1>2. CASE BootDownload(p)
  <2>1. ControlOK'
    BY <1>0, <1>1, <1>2, Moves DEF BootDownload, BootPCs, locals
  <2>2. DataOK'
    BY <1>0, <1>2, EndsType, Counting, Known
       DEF BootDownload, BootstrapFails, DataOK, locals, files, cluster
  <2> QED BY <2>1, <2>2
<1>3. CASE BootStartKubelet(p)
  <2>1. ControlOK'
    BY <1>0, <1>1, <1>3, Moves DEF BootStartKubelet, BootPCs, locals
  <2>2. DataOK'
    BY <1>3, EndsType, Counting
       DEF BootStartKubelet, StartsKubelet, BootstrapFails, DataOK, locals, files, cluster
  <2> QED BY <2>1, <2>2
<1>4. CASE BootStartNPD(p)
  <2>1. ControlOK'
    BY <1>0, <1>1, <1>4, Moves, LabelSets
       DEF BootStartNPD, BootPCs, MainPCs, HealthPCs, Procs
  <2>2. DataOK'
    BY <1>0, <1>4, EndsType, Counting, ConfigAssumption
       DEF BootStartNPD, BootstrapFails, DataOK, locals, files, kubelet, cluster
  <2> QED BY <2>1, <2>2
<1> QED
  BY <1>2, <1>3, <1>4 DEF Bootstrap

\* The steps of main keep the types.
LEMMA MainType == ASSUME TypeOK, Main PROVE TypeOK'
<1> USE DEF TypeOK
<1>1. CASE AgentStart
  <2>1. ControlOK'
    BY <1>1, Moves, LabelSets DEF AgentStart, MainPCs, BootPCs, Procs, locals
  <2>2. DataOK'
    BY <1>1 DEF AgentStart, DataOK, locals, files, kubelet, cluster
  <2> QED BY <2>1, <2>2
<1>2. CASE Cleanup
  <2>1. /\ pc' \in [Procs -> Labels] /\ fetched' = fetched
        /\ \A p \in Procs : pc'[p] \in LabelsOf(p) /\ (pc'[p] = "put" => pc[p] = "put")
    BY <1>2, LabelSets DEF Cleanup, ControlOK, MainPCs, StatusPCs, Procs, locals
  <2>2. DataOK'
    BY <1>2, EmptyValues DEF Cleanup, DataOK, locals, kubelet, cluster
  <2> QED BY <2>1, <2>2 DEF ControlOK
<1>3. CASE DaemonReturns
  BY <1>3, EndsType DEF DaemonReturns, DataOK, files, kubelet, cluster
<1>4. CASE Bootstrap("main")
  BY <1>4, BootstrapType
<1> QED
  BY <1>1, <1>2, <1>3, <1>4 DEF Main

\* The status loop keeps the types.
LEMMA StatusType == ASSUME TypeOK, Status PROVE TypeOK'
<1> USE DEF TypeOK
<1>1. CASE StatusTick
  <2>1. ControlOK'
    BY <1>1, Moves, LabelSets DEF StatusTick, StatusPCs, Procs, locals
  <2>2. DataOK'
    BY <1>1 DEF StatusTick, DataOK, locals, files, kubelet, cluster
  <2> QED BY <2>1, <2>2
<1>2. CASE StatusVersion
  <2>1. ControlOK'
    BY <1>2, Moves, LabelSets DEF StatusVersion, StatusPCs, Procs
  <2>2. DataOK'
    BY <1>2, Known, Counting DEF StatusVersion, DataOK, files, kubelet, cluster
  <2> QED BY <2>1, <2>2
<1>3. CASE StatusServices
  <2>1. ControlOK'
    BY <1>3, Moves, LabelSets DEF StatusServices, SampleServices, StatusPCs, Procs
  <2>2. DataOK'
    BY <1>3, Counting DEF StatusServices, SampleServices, DataOK, files, kubelet, cluster
  <2> QED BY <2>1, <2>2
<1>4. CASE StatusWrite
  <2>1. /\ pc' \in [Procs -> Labels] /\ fetched' = fetched
        /\ \A p \in Procs : pc'[p] \in LabelsOf(p) /\ (pc'[p] = "put" => pc[p] = "put")
    BY <1>4, LabelSets DEF StatusWrite, ControlOK, MainPCs, StatusPCs, DriftPCs, Procs
  <2>2. DataOK'
    BY <1>4, EmptyValues DEF StatusWrite, DataOK, Snapshot, kubelet, cluster
  <2> QED BY <2>1, <2>2 DEF ControlOK
<1> QED
  BY <1>1, <1>2, <1>3, <1>4 DEF Status

\* Collecting the managed cluster spec keeps the types.
LEMMA SpecType ==
  ASSUME TypeOK, NEW p \in {"health", "drift"}, SpecGet(p) \/ SpecPut(p)
  PROVE  TypeOK'
<1> USE DEF TypeOK
<1>0. /\ p \in Procs
      /\ "put" \in LabelsOf(p) /\ AfterSpec(p) \in LabelsOf(p) /\ AfterSpec(p) # "put"
  BY LabelSets DEF Procs, HealthPCs, HealthBusyPCs, DriftPCs, AfterSpec
<1>1. CASE SpecGet(p)
  <2>1. ASSUME Goto(p, "put"), fetched' = [fetched EXCEPT ![p] = desired]
        PROVE  ControlOK'
    <3>1. pc' \in [Procs -> Labels] /\ \A q \in Procs : pc'[q] \in LabelsOf(q)
      BY <1>0, <2>1, LabelSets DEF ControlOK
    <3>2. fetched' \in [Procs -> KnownOrNot]
      BY <2>1, Known DEF ControlOK, DataOK
    <3>3. \A q \in Procs : pc'[q] = "put" => fetched'[q] \in Versions
      BY <2>1 DEF ControlOK, DataOK
    <3> QED BY <3>1, <3>2, <3>3 DEF ControlOK
  <2>2. ASSUME UNCHANGED fetched, Goto(p, AfterSpec(p)) \/ DriftReturns
        PROVE  ControlOK'
    BY <1>0, <2>2, Moves, DriftReturnsMoves
  <2>3. ControlOK'
    BY <1>1, <2>1, <2>2 DEF SpecGet
  <2>4. DataOK'
    BY <1>1, Counting DEF SpecGet, DataOK, files, kubelet, cluster
  <2> QED BY <2>3, <2>4
<1>2. CASE SpecPut(p)
  <2>1. ControlOK'
    BY <1>0, <1>2, Known, LabelSets DEF SpecPut, ControlOK
  <2>2. DataOK'
    BY <1>0, <1>2 DEF SpecPut, ControlOK, DataOK, kubelet, cluster
  <2> QED BY <2>1, <2>2
<1> QED
  BY <1>1, <1>2

\* The health check loop keeps the types.
LEMMA HealthType == ASSUME TypeOK, Health PROVE TypeOK'
<1> USE DEF TypeOK
<1>0. "health" \in Procs /\ LabelsOf("health") = HealthPCs
  BY LabelSets DEF Procs
<1>1. CASE HealthTick
  <2>1. ControlOK'
    BY <1>0, <1>1, Moves DEF HealthTick, HealthPCs, HealthBusyPCs, locals
  <2>2. DataOK'
    BY <1>1 DEF HealthTick, DataOK, locals, files, kubelet, cluster
  <2> QED BY <2>1, <2>2
<1>2. CASE HealthCheck
  <2>1. ControlOK'
    BY <1>0, <1>2, Moves
       DEF HealthCheck, HealthReleases, HealthPCs, HealthBusyPCs, BootPCs
  <2>2. DataOK'
    BY <1>2, ConfigAssumption DEF HealthCheck, HealthReleases, DataOK, files, kubelet, cluster
  <2> QED BY <2>1, <2>2
<1>3. CASE HealthOverride
  <2>1. ControlOK'
    BY <1>0, <1>3, Moves DEF HealthOverride, HealthPCs, HealthBusyPCs, BootPCs
  <2>2. DataOK'
    BY <1>3, Known DEF HealthOverride, DataOK, KnownOrNot, files, kubelet, cluster
  <2> QED BY <2>1, <2>2
<1>4. CASE HealthBootFailed
  <2>1. ControlOK'
    BY <1>0, <1>4, Moves DEF HealthBootFailed, HealthReleases, HealthPCs
  <2>2. DataOK'
    BY <1>4, EmptyValues, ConfigAssumption
       DEF HealthBootFailed, HealthReleases, DataOK, kubelet, cluster
  <2> QED BY <2>1, <2>2
<1>5. CASE SpecGet("health") \/ SpecPut("health")
  BY <1>5, SpecType
<1>6. CASE Bootstrap("health")
  BY <1>6, BootstrapType
<1> QED
  BY <1>1, <1>2, <1>3, <1>4, <1>5, <1>6 DEF Health

\* An upgrade step that moves on or fails keeps the control types.
LEMMA UpgradeStepMoves ==
  ASSUME ControlOK, NEW l \in UpgradePCs, Goto("drift", l), UNCHANGED fetched
  PROVE  ControlOK'
BY Moves, LabelSets
   DEF UpgradePCs, MaintenancePCs, SwapPCs, UpgradedPCs, DriftPCs, Procs

\* Every step of an upgrade keeps the types.
LEMMA UpgradeType == ASSUME TypeOK, Upgrade PROVE TypeOK'
<1> USE DEF TypeOK, UpgradeStep
<1>0. /\ MaintenancePCs \subseteq UpgradePCs /\ SwapPCs \subseteq UpgradePCs
      /\ UpgradedPCs \subseteq UpgradePCs
      /\ "stop" \in UpgradePCs /\ "finishFailed" \in UpgradePCs
      /\ "finishBroken" \in UpgradePCs
  BY DEF UpgradePCs
<1>1. CASE DriftIsCordoned
  <2>1. ControlOK'
    BY <1>0, <1>1, UpgradeStepMoves DEF DriftIsCordoned, MaintenancePCs
  <2>2. DataOK'
    BY <1>1, Counting DEF DriftIsCordoned, UncordonAfter, DataOK, files, kubelet, cluster
  <2> QED BY <2>1, <2>2
<1>2. CASE DriftCordon
  <2>1. ControlOK'
    BY <1>0, <1>2, UpgradeStepMoves DEF DriftCordon, MaintenancePCs
  <2>2. DataOK'
    BY <1>2, Counting DEF DriftCordon, Cordons, Cordoners, DataOK, files, kubelet
  <2> QED BY <2>1, <2>2
<1>3. CASE DriftDrain
  <2>1. ControlOK'
    BY <1>0, <1>3, UpgradeStepMoves DEF DriftDrain, MaintenancePCs
  <2>2. DataOK'
    BY <1>3, Counting DEF DriftDrain, DataOK, files, kubelet, cluster
  <2> QED BY <2>1, <2>2
<1>4. CASE DriftUndoCordon
  <2>1. ControlOK'
    BY <1>0, <1>4, UpgradeStepMoves DEF DriftUndoCordon
  <2>2. DataOK'
    BY <1>4, Counting DEF DriftUndoCordon, Uncordons, Cordoners, DataOK, files, kubelet
  <2> QED BY <2>1, <2>2
<1>5. CASE DriftStop
  <2>1. ControlOK'
    BY <1>0, <1>5, UpgradeStepMoves DEF DriftStop, SwapPCs
  <2>2. DataOK'
    BY <1>5, Counting, Known DEF DriftStop, StopsKubelet, DataOK, files, cluster
  <2> QED BY <2>1, <2>2
<1>6. CASE DriftDownload
  <2>1. ControlOK'
    BY <1>0, <1>6, UpgradeStepMoves DEF DriftDownload, SwapPCs
  <2>2. DataOK'
    BY <1>6, Counting, Known DEF DriftDownload, DataOK, Procs, files, cluster
  <2> QED BY <2>1, <2>2
<1>7. CASE DriftStart
  <2>1. ControlOK'
    BY <1>0, <1>7, UpgradeStepMoves DEF DriftStart, UpgradedPCs
  <2>2. DataOK'
    BY <1>7, Counting DEF DriftStart, StartsKubelet, DataOK, files, cluster
  <2> QED BY <2>1, <2>2
<1>8. CASE DriftUncordon
  <2>1. ControlOK'
    BY <1>0, <1>8, UpgradeStepMoves DEF DriftUncordon, UpgradedPCs
  <2>2. DataOK'
    BY <1>8, Counting DEF DriftUncordon, Uncordons, Cordoners, DataOK, files, kubelet
  <2> QED BY <2>1, <2>2
<1>9. CASE DriftLeaveCordoned
  <2>1. ControlOK'
    BY <1>0, <1>9, UpgradeStepMoves DEF DriftLeaveCordoned, UpgradedPCs, locals
  <2>2. DataOK'
    BY <1>9 DEF DriftLeaveCordoned, DataOK, locals, files, kubelet, cluster
  <2> QED BY <2>1, <2>2
<1>10. CASE DriftRetryUncordon
  <2>1. ControlOK'
    BY <1>0, <1>10, UpgradeStepMoves DEF DriftRetryUncordon
  <2>2. DataOK'
    BY <1>10, Counting DEF DriftRetryUncordon, Uncordons, Cordoners, DataOK, files, kubelet
  <2> QED BY <2>1, <2>2
<1>11. CASE DriftFinish
  <2>1. ControlOK'
    BY <1>11, DriftReturnsMoves DEF DriftFinish
  <2>2. statusFile' \in Snapshot
    BY <1>11, MarksType DEF DriftFinish, DataOK, Procs
  <2>3. DataOK'
    BY <1>11, <2>2, ConfigAssumption DEF DriftFinish, DataOK, kubelet, cluster
  <2> QED BY <2>1, <2>3
<1> QED
  BY <1>1, <1>2, <1>3, <1>4, <1>5, <1>6, <1>7, <1>8, <1>9, <1>10, <1>11 DEF Upgrade

\* The rest of the drift loop keeps the types.
LEMMA DriftType == ASSUME TypeOK, Drift PROVE TypeOK'
<1> USE DEF TypeOK
<1>0. "drift" \in Procs /\ LabelsOf("drift") = DriftPCs
  BY LabelSets DEF Procs
<1>1. CASE DriftTick
  <2>1. ControlOK'
    BY <1>0, <1>1, Moves DEF DriftTick, DriftPCs, locals
  <2>2. DataOK'
    BY <1>1 DEF DriftTick, DataOK, locals, files, kubelet, cluster
  <2> QED BY <2>1, <2>2
<1>2. CASE DriftLoadSpec
  <2>1. ControlOK'
    BY <1>0, <1>2, Moves, DriftReturnsMoves DEF DriftLoadSpec, DriftPCs
  <2>2. DataOK'
    BY <1>2, Known DEF DriftLoadSpec, SpecUsable, DataOK, KnownOrNot, files, kubelet, cluster
  <2> QED BY <2>1, <2>2
<1>3. CASE DriftDetect
  <2>1. ControlOK'
    BY <1>0, <1>3, Moves, DriftReturnsMoves DEF DriftDetect, DriftPCs
  <2>2. DataOK'
    BY <1>3, ConfigAssumption DEF DriftDetect, DataOK, files, kubelet, cluster
  <2> QED BY <2>1, <2>2
<1>4. CASE DriftAcquire
  <2>1. ControlOK'
    BY <1>4, UpgradeStepMoves DEF DriftAcquire, UpgradePCs, MaintenancePCs, locals
  <2>2. DataOK'
    BY <1>4 DEF DriftAcquire, DataOK, locals, files, kubelet, cluster
  <2> QED BY <2>1, <2>2
<1>5. CASE DriftSkip
  <2>1. ControlOK'
    BY <1>5, DriftReturnsMoves DEF DriftSkip
  <2>2. DataOK'
    BY <1>5, ConfigAssumption DEF DriftSkip, DataOK, files, kubelet, cluster
  <2> QED BY <2>1, <2>2
<1>6. CASE SpecGet("drift") \/ SpecPut("drift")
  BY <1>6, SpecType
<1>7. CASE Upgrade
  BY <1>7, UpgradeType
<1> QED
  BY <1>1, <1>2, <1>3, <1>4, <1>5, <1>6, <1>7 DEF Drift

\* The end of a loop keeps the types.
LEMMA ExitType == ASSUME TypeOK, NEW p \in ActiveLoops, LoopExit(p) PROVE TypeOK'
<1> USE DEF TypeOK
<1>1. p \in Procs /\ "exited" \in LabelsOf(p)
  BY LabelSets DEF ActiveLoops, Procs, StatusPCs, HealthPCs, DriftPCs
<1>2. ControlOK'
  BY <1>1, Moves DEF LoopExit, locals
<1>3. DataOK'
  BY DEF LoopExit, DataOK, locals, files, kubelet, cluster
<1> QED
  BY <1>2, <1>3

\* The environment keeps the types.
LEMMA EnvironmentType == ASSUME TypeOK, Environment PROVE TypeOK'
<1> USE DEF TypeOK
<1>0. Event => events' \in 0..MaxEvents
  BY ConfigAssumption DEF Event, DataOK
<1>1. CASE Terminate
  <2>1. ControlOK' BY <1>1 DEF Terminate, ControlOK, locals
  <2>2. DataOK' BY <1>0, <1>1 DEF Terminate, DataOK, locals, files, kubelet, cluster
  <2> QED BY <2>1, <2>2
<1>2. CASE Crash
  <2>1. DataOK' BY <1>0, <1>2, EndsType, Known DEF Crash, DataOK, files, cluster
  <2> QED BY <1>2, <2>1, EndsType DEF Crash
<1>3. CASE KubeletDies
  <2>1. ControlOK' BY <1>3 DEF KubeletDies, ControlOK, locals
  <2>2. DataOK' BY <1>0, <1>3, Known DEF KubeletDies, DataOK, locals, files, cluster
  <2> QED BY <2>1, <2>2
<1>4. CASE SnapshotAges
  <2>1. ControlOK' BY <1>4 DEF SnapshotAges, ControlOK, locals
  <2>2. DataOK' BY <1>0, <1>4 DEF SnapshotAges, DataOK, Snapshot, locals, kubelet, cluster
  <2> QED BY <2>1, <2>2
<1>5. CASE OperatorCordons
  <2>1. ControlOK' BY <1>5 DEF OperatorCordons, ControlOK, locals
  <2>2. DataOK' BY <1>0, <1>5 DEF OperatorCordons, DataOK, Cordoners, locals, files, kubelet
  <2> QED BY <2>1, <2>2
<1>6. CASE ClusterUpgrades
  <2>1. ControlOK' BY <1>6 DEF ClusterUpgrades, ControlOK, locals
  <2>2. DataOK' BY <1>6 DEF ClusterUpgrades, DataOK, locals, files, kubelet
  <2> QED BY <2>1, <2>2
<1>7. CASE KubeletRestarts
  <2>1. ControlOK' BY <1>7 DEF KubeletRestarts, ControlOK, locals
  <2>2. DataOK' BY <1>7 DEF KubeletRestarts, DataOK, locals, files, cluster
  <2> QED BY <2>1, <2>2
<1> QED
  BY <1>1, <1>2, <1>3, <1>4, <1>5, <1>6, <1>7 DEF Environment

\* Every step, and every stutter, keeps the types.
LEMMA TypeStep == ASSUME TypeOK, [Next]_vars PROVE TypeOK'
<1>1. CASE UNCHANGED vars
  BY <1>1 DEF vars, TypeOK, ControlOK, DataOK, locals, files, kubelet, cluster
<1> QED
  BY <1>1, MainType, StatusType, HealthType, DriftType, ExitType, EnvironmentType DEF Next

\* For every set of versions, configuration and bound, every reachable state
\* of the daemon is typed: among others, what a collector is about to write and
\* what a bootstrap or an upgrade is about to install is a version of the
\* cluster or of the configuration, never "unknown".
THEOREM TypeCorrect == Spec => []TypeOK
<1>1. Init => TypeOK
  BY InitType
<1>2. TypeOK /\ [Next]_vars => TypeOK'
  BY TypeStep
<1> QED
  BY <1>1, <1>2, PTL DEF Spec

-----------------------------------------------------------------------------
(* The guard.                                                              *)

\* A step that neither begins nor ends a piece of work, nor moves main, keeps
\* the guard invariant.
LEMMA Quiet ==
  ASSUME OneWorker, UNCHANGED inProgress, pc'["main"] = pc["main"],
         HealthBusy' <=> HealthBusy, Upgrading' <=> Upgrading
  PROVE  OneWorker'
BY DEF OneWorker

\* When the process has ended nobody holds the guard.
LEMMA EndsGuard == ASSUME ProcessEnds PROVE OneWorker'
BY DEF ProcessEnds, OneWorker, HealthBusy, Upgrading, Procs, HealthBusyPCs, BootPCs,
       UpgradePCs, MaintenancePCs, SwapPCs, UpgradedPCs

\* Where the labels of work begin and end.
LEMMA BusyLabels ==
  /\ BootPCs \subseteq HealthBusyPCs
  /\ {"check", "get", "put", "override", "bootFailed"} \subseteq HealthBusyPCs
  /\ "idle" \notin HealthBusyPCs /\ "exited" \notin HealthBusyPCs
  /\ MaintenancePCs \subseteq UpgradePCs /\ SwapPCs \subseteq UpgradePCs
  /\ UpgradedPCs \subseteq UpgradePCs
  /\ {"stop", "finishFailed", "finishBroken"} \subseteq UpgradePCs
  /\ \A l \in {"idle", "exited", "get", "put", "loadSpec", "detect", "acquire"} :
       l \notin UpgradePCs
BY DEF HealthBusyPCs, BootPCs, UpgradePCs, MaintenancePCs, SwapPCs, UpgradedPCs

\* main bootstraps alone, and hands over to the loops only when it is done.
LEMMA MainGuard == ASSUME TypeOK, OneWorker, Main PROVE OneWorker'
<1> USE DEF TypeOK, ControlOK, Procs, OneWorker, HealthBusy, Upgrading
<1>1. CASE AgentStart
  BY <1>1 DEF AgentStart
<1>2. CASE Cleanup
  BY <1>2 DEF Cleanup
<1>3. CASE DaemonReturns
  BY <1>3, EndsGuard DEF DaemonReturns
<1>4. CASE Bootstrap("main")
  BY <1>4, EndsGuard
     DEF Bootstrap, BootDownload, BootStartKubelet, BootStartNPD, BootstrapFails, BootPCs
<1> QED
  BY <1>1, <1>2, <1>3, <1>4 DEF Main

\* The status loop has nothing to do with the guard, except that its first
\* collection lets main go on.
LEMMA StatusGuard == ASSUME TypeOK, GuardExclusive, Status PROVE OneWorker'
<1> USE DEF GuardExclusive, PassNeedsMain, TypeOK, ControlOK, Procs, OneWorker, HealthBusy,
            Upgrading
<1>1. CASE StatusTick
  BY <1>1 DEF StatusTick
<1>2. CASE StatusVersion
  BY <1>2 DEF StatusVersion
<1>3. CASE StatusServices
  BY <1>3 DEF StatusServices, SampleServices
<1>4. CASE StatusWrite
  BY <1>4, BusyLabels DEF StatusWrite
<1> QED
  BY <1>1, <1>2, <1>3, <1>4 DEF Status

\* The health check takes a free guard, keeps it while it works, and releases
\* it on every path.
LEMMA HealthGuard == ASSUME TypeOK, OneWorker, Health PROVE OneWorker'
<1> USE DEF TypeOK, ControlOK, Procs, HealthBusy, Upgrading
<1>1. CASE HealthTick
  BY <1>1, BusyLabels DEF HealthTick, OneWorker
<1>2. CASE HealthCheck
  BY <1>2, BusyLabels DEF HealthCheck, HealthReleases, OneWorker, BootPCs
<1>3. CASE HealthOverride
  BY <1>3, BusyLabels, Quiet DEF HealthOverride, BootPCs
<1>4. CASE HealthBootFailed
  BY <1>4, BusyLabels DEF HealthBootFailed, HealthReleases, OneWorker
<1>5. CASE SpecGet("health") \/ SpecPut("health")
  BY <1>5, BusyLabels, Quiet DEF SpecGet, SpecPut, AfterSpec
<1>6. CASE BootDownload("health") \/ BootStartKubelet("health")
  BY <1>6, BusyLabels, Quiet
     DEF BootDownload, BootStartKubelet, BootstrapFails, BootPCs
<1>7. CASE BootStartNPD("health")
  BY <1>7, BusyLabels DEF BootStartNPD, BootstrapFails, BootPCs, OneWorker
<1> QED
  BY <1>1, <1>2, <1>3, <1>4, <1>5, <1>6, <1>7 DEF Health, Bootstrap

\* A step of an upgrade before its last one leaves the guard alone.
LEMMA UpgradeKeepsGuard ==
  ASSUME ControlOK, OneWorker, UNCHANGED inProgress, Upgrading,
         NEW l \in UpgradePCs, Goto("drift", l)
  PROVE  OneWorker'
BY Quiet DEF ControlOK, Procs, HealthBusy, Upgrading

\* An upgrade keeps the guard to its last step, which releases it.
LEMMA UpgradeGuard == ASSUME TypeOK, OneWorker, Upgrade PROVE OneWorker'
<1> USE DEF TypeOK
<1>1. CASE DriftFinish
  BY <1>1, BusyLabels
     DEF DriftFinish, DriftReturns, ControlOK, Procs, OneWorker, HealthBusy, Upgrading,
         UpgradedPCs
<1>2. CASE DriftIsCordoned \/ DriftLeaveCordoned
  BY <1>2, BusyLabels, UpgradeKeepsGuard
     DEF DriftIsCordoned, DriftLeaveCordoned, MaintenancePCs, UpgradedPCs, Upgrading
<1>3. CASE DriftCordon \/ DriftDrain \/ DriftUndoCordon \/ DriftStop
  BY <1>3, BusyLabels, UpgradeKeepsGuard
     DEF DriftCordon, DriftDrain, DriftUndoCordon, DriftStop, UpgradeStep,
         MaintenancePCs, SwapPCs, Upgrading
<1>4. CASE DriftDownload \/ DriftStart \/ DriftUncordon \/ DriftRetryUncordon
  BY <1>4, BusyLabels, UpgradeKeepsGuard
     DEF DriftDownload, DriftStart, DriftUncordon, DriftRetryUncordon, UpgradeStep,
         SwapPCs, UpgradedPCs, Upgrading
<1> QED
  BY <1>1, <1>2, <1>3, <1>4 DEF Upgrade

\* A drift pass works on the node only after its compare-and-swap.
LEMMA DriftGuard == ASSUME TypeOK, OneWorker, Drift PROVE OneWorker'
<1> USE DEF TypeOK, ControlOK, Procs, HealthBusy, Upgrading
<1>1. CASE DriftTick
  BY <1>1, BusyLabels, Quiet DEF DriftTick
<1>2. CASE DriftReturns /\ ~Upgrading /\ UNCHANGED inProgress
  BY <1>2, BusyLabels DEF DriftReturns, OneWorker
<1>3. CASE DriftLoadSpec
  BY <1>2, <1>3, BusyLabels, Quiet DEF DriftLoadSpec
<1>4. CASE DriftDetect
  BY <1>2, <1>4, BusyLabels, Quiet DEF DriftDetect
<1>5. CASE DriftAcquire
  BY <1>5, BusyLabels DEF DriftAcquire, OneWorker, MaintenancePCs
<1>6. CASE DriftSkip
  BY <1>2, <1>6, BusyLabels DEF DriftSkip
<1>7. CASE SpecGet("drift") \/ SpecPut("drift")
  BY <1>2, <1>7, BusyLabels, Quiet DEF SpecGet, SpecPut, AfterSpec
<1>8. CASE Upgrade
  BY <1>8, UpgradeGuard
<1> QED
  BY <1>1, <1>3, <1>4, <1>5, <1>6, <1>7, <1>8 DEF Drift

\* Every step, and every stutter, keeps the guard invariant.
LEMMA GuardStep ==
  ASSUME TypeOK, GuardExclusive, [Next]_vars
  PROVE  GuardExclusive'
<1>1. OneWorker'
  <2>1. CASE UNCHANGED vars
    BY <2>1 DEF vars, GuardExclusive, OneWorker, HealthBusy, Upgrading
  <2>2. CASE \E p \in ActiveLoops : LoopExit(p)
    BY <2>2, BusyLabels, Quiet
       DEF LoopExit, ActiveLoops, GuardExclusive, TypeOK, ControlOK, Procs, HealthBusy, Upgrading
  <2>3. CASE Environment
    BY <2>3, EndsGuard, Quiet
       DEF Environment, Terminate, Crash, KubeletDies, KubeletRestarts, SnapshotAges,
           OperatorCordons,
           ClusterUpgrades, GuardExclusive, HealthBusy, Upgrading
  <2> QED
    BY <2>1, <2>2, <2>3, MainGuard, StatusGuard, HealthGuard, DriftGuard
       DEF Next, GuardExclusive
<1>2. PassNeedsMain'
  <2> USE DEF GuardExclusive, PassNeedsMain, TypeOK, ControlOK, Procs
  <2>1. CASE UNCHANGED pc
    BY <2>1
  <2>2. CASE ProcessEnds
    BY <2>2 DEF ProcessEnds
  <2>3. CASE Main
    BY <2>2, <2>3
       DEF Main, AgentStart, Cleanup, DaemonReturns, Bootstrap, BootDownload,
           BootStartKubelet, BootStartNPD, BootstrapFails
  <2>4. CASE Status
    BY <2>4 DEF Status, StatusTick, StatusVersion, StatusServices, SampleServices, StatusWrite
  <2>5. CASE Health
    BY <2>5
       DEF Health, HealthTick, HealthCheck, HealthReleases, SpecGet, SpecPut, HealthOverride,
           HealthBootFailed, Bootstrap, BootDownload, BootStartKubelet, BootStartNPD,
           BootstrapFails
  <2>6. CASE Drift
    <3>1. CASE DriftReturns
      BY <3>1 DEF DriftReturns
    <3>2. ASSUME NEW l, Goto("drift", l), pc["drift"] \notin {"idle", "exited"}
          PROVE  PassNeedsMain'
      BY <3>2
    <3>3. CASE DriftTick \/ SpecGet("drift") \/ SpecPut("drift")
      BY <3>1, <3>3 DEF DriftTick, SpecGet, SpecPut
    <3>4. CASE DriftLoadSpec \/ DriftDetect \/ DriftAcquire \/ DriftSkip
      BY <3>1, <3>2, <3>4 DEF DriftLoadSpec, DriftDetect, DriftAcquire, DriftSkip
    <3>5. CASE Upgrade
      BY <3>1, <3>2, <3>5
         DEF Upgrade, UpgradeStep, DriftIsCordoned, DriftCordon, DriftDrain, DriftUndoCordon,
             DriftStop, DriftDownload, DriftStart, DriftUncordon, DriftLeaveCordoned,
             DriftRetryUncordon, DriftFinish
    <3> QED
      BY <2>6, <3>3, <3>4, <3>5 DEF Drift
  <2>7. CASE \E p \in ActiveLoops : LoopExit(p)
    BY <2>7 DEF LoopExit, ActiveLoops
  <2>8. CASE Environment
    BY <2>1, <2>2, <2>8
       DEF Environment, Terminate, Crash, KubeletDies, KubeletRestarts, SnapshotAges,
           OperatorCordons,
           ClusterUpgrades
  <2> QED
    BY <2>1, <2>3, <2>4, <2>5, <2>6, <2>7, <2>8 DEF Next, vars
<1> QED
  BY <1>1, <1>2 DEF GuardExclusive

\* For every number of failures, crashes and interleavings, the word
\* bootstrapInProgress keeps the bootstrap of main, auto-bootstraps and drift
\* upgrades apart.
THEOREM GuardSerialises == Spec => []GuardExclusive
<1>1. Init => GuardExclusive
  BY DEF Init, GuardExclusive, OneWorker, PassNeedsMain, HealthBusy, Upgrading, Procs,
         HealthBusyPCs, BootPCs, UpgradePCs, MaintenancePCs, SwapPCs, UpgradedPCs
<1>2. TypeOK /\ GuardExclusive /\ [Next]_vars => GuardExclusive'
  BY GuardStep
<1> QED
  BY <1>1, <1>2, TypeCorrect, PTL DEF Spec

-----------------------------------------------------------------------------
(* The kubelet during an upgrade.                                          *)

(***************************************************************************)
(* UpgradeInstallsTarget is inductive only together with the guard: every  *)
(* bootstrap replaces the kubelet binary, and nothing but the guard keeps  *)
(* it from doing so meanwhile.                                             *)
(***************************************************************************)

\* It holds after every step that leaves no upgrade under way.
LEMMA NoUpgrade == ASSUME ~Upgrading' PROVE UpgradeInstallsTarget'
BY DEF UpgradeInstallsTarget, Upgrading, UpgradePCs, SwapPCs, UpgradedPCs

\* A step that leaves the upgrade and the binary alone keeps it.
LEMMA Undisturbed ==
  ASSUME UpgradeInstallsTarget, pc'["drift"] = pc["drift"],
         target'["drift"] = target["drift"], UNCHANGED binary
  PROVE  UpgradeInstallsTarget'
BY DEF UpgradeInstallsTarget

\* Bootstrap steps only run while there is no upgrade, and begin none.
LEMMA BootstrapAlone ==
  ASSUME TypeOK, GuardExclusive, NEW p \in {"main", "health"}, Bootstrap(p)
  PROVE  ~Upgrading /\ ~Upgrading'
<1>1. ~Upgrading
  BY BusyLabels
     DEF Bootstrap, BootDownload, BootStartKubelet, BootStartNPD, BootPCs, GuardExclusive,
         OneWorker, PassNeedsMain, HealthBusy, Upgrading
<1>2. pc'["drift"] = pc["drift"] \/ pc'["drift"] = "idle"
  BY DEF Bootstrap, BootDownload, BootStartKubelet, BootStartNPD, BootstrapFails, ProcessEnds,
         TypeOK, ControlOK, Procs
<1> QED
  BY <1>1, <1>2, BusyLabels DEF Upgrading

\* Each step of an upgrade establishes what the next one relies on.
LEMMA UpgradeStepInstalls ==
  ASSUME TypeOK, UpgradeInstallsTarget, Upgrade
  PROVE  UpgradeInstallsTarget'
<1> USE DEF TypeOK, ControlOK, Procs, UpgradeInstallsTarget, UpgradedPCs
<1>1. CASE DriftFinish
  <2>1. ~Upgrading'
    BY <1>1, BusyLabels DEF DriftFinish, DriftReturns, Upgrading
  <2> QED BY <2>1, NoUpgrade
<1>2. CASE DriftIsCordoned \/ DriftCordon \/ DriftDrain \/ DriftUndoCordon \/ DriftStop
  BY <1>2
     DEF DriftIsCordoned, DriftCordon, DriftDrain, DriftUndoCordon, DriftStop, UpgradeStep
<1>3. CASE DriftDownload
  BY <1>3 DEF DriftDownload, UpgradeStep
<1>4. CASE DriftStart
  BY <1>4 DEF DriftStart, UpgradeStep
<1>5. CASE DriftUncordon \/ DriftLeaveCordoned \/ DriftRetryUncordon
  BY <1>5
     DEF DriftUncordon, DriftLeaveCordoned, DriftRetryUncordon, UpgradeStep, kubelet, locals
<1> QED
  BY <1>1, <1>2, <1>3, <1>4, <1>5 DEF Upgrade

\* Every step, and every stutter, keeps what an upgrade has installed.
LEMMA InstallStep ==
  ASSUME TypeOK, GuardExclusive, UpgradeInstallsTarget, [Next]_vars
  PROVE  UpgradeInstallsTarget'
<1> USE DEF TypeOK, ControlOK, DataOK, Procs
<1>1. CASE UNCHANGED <<pc, target, binary>>
  BY <1>1, Undisturbed
<1>2. CASE ProcessEnds
  BY <1>2, BusyLabels, NoUpgrade DEF ProcessEnds, Upgrading
<1>3. CASE Main
  <2>1. CASE AgentStart \/ Cleanup
    BY <2>1, Undisturbed DEF AgentStart, Cleanup, locals, kubelet
  <2>2. CASE DaemonReturns
    BY <1>2, <2>2 DEF DaemonReturns
  <2>3. CASE Bootstrap("main")
    BY <2>3, BootstrapAlone, NoUpgrade
  <2> QED
    BY <1>3, <2>1, <2>2, <2>3 DEF Main
<1>4. CASE Status
  <2>1. CASE StatusTick \/ StatusVersion \/ StatusServices
    BY <2>1, Undisturbed DEF StatusTick, StatusVersion, StatusServices, SampleServices, locals, kubelet
  <2>2. CASE StatusWrite
    <3>1. pc'["drift"] = pc["drift"] \/ pc'["drift"] = "get"
      BY <2>2 DEF StatusWrite
    <3>2. UNCHANGED <<target, kubelet>>
      BY <2>2 DEF StatusWrite
    <3>3. CASE pc'["drift"] = "get"
      BY <3>3, BusyLabels, NoUpgrade DEF Upgrading
    <3> QED
      BY <3>1, <3>2, <3>3, Undisturbed DEF kubelet
  <2> QED
    BY <1>4, <2>1, <2>2 DEF Status
<1>5. CASE Health
  <2>1. CASE Bootstrap("health")
    BY <2>1, BootstrapAlone, NoUpgrade
  <2>2. CASE ~Bootstrap("health")
    BY <1>5, <2>2, Undisturbed
       DEF Health, HealthTick, HealthCheck, HealthReleases, SpecGet, SpecPut, HealthOverride,
           HealthBootFailed, locals, kubelet
  <2> QED
    BY <2>1, <2>2
<1>6. CASE Drift
  <2>1. CASE Upgrade
    BY <2>1, UpgradeStepInstalls
  <2>2. CASE ~Upgrade
    <3>1. pc'["drift"] \in {"idle", "get", "put", "loadSpec", "detect", "acquire", "isCordoned"}
      BY <1>6, <2>2
         DEF Drift, DriftTick, SpecGet, SpecPut, AfterSpec, DriftLoadSpec, DriftDetect,
             DriftAcquire, DriftSkip, DriftReturns
    <3> QED
      BY <3>1 DEF UpgradeInstallsTarget, UpgradedPCs
  <2> QED
    BY <2>1, <2>2
<1>7. CASE \E p \in ActiveLoops : LoopExit(p)
  <2>1. pc'["drift"] = pc["drift"] \/ pc'["drift"] = "exited"
    BY <1>7 DEF LoopExit, ActiveLoops
  <2>2. CASE pc'["drift"] = "exited"
    BY <2>2, BusyLabels, NoUpgrade DEF Upgrading
  <2> QED
    BY <1>7, <2>1, <2>2, Undisturbed DEF LoopExit, locals, kubelet
<1>8. CASE Environment
  <2>1. CASE Crash
    BY <1>2, <2>1 DEF Crash
  <2>2. CASE ~Crash
    BY <1>1, <1>8, <2>2
       DEF Environment, Terminate, KubeletDies, KubeletRestarts, SnapshotAges,
           OperatorCordons, ClusterUpgrades, locals, kubelet
  <2> QED
    BY <2>1, <2>2
<1> QED
  BY <1>1, <1>3, <1>4, <1>5, <1>6, <1>7, <1>8 DEF Next, vars, locals, kubelet

\* The inductive invariant of the daemon.
IInv == TypeOK /\ GuardExclusive /\ UpgradeInstallsTarget

\* IInv holds in every reachable state.
LEMMA Invariance == Spec => []IInv
<1>1. Init => IInv
  <2>1. Init => UpgradeInstallsTarget
    BY DEF Init, UpgradeInstallsTarget, Procs, UpgradedPCs
  <2>2. Init => GuardExclusive
    BY DEF Init, GuardExclusive, OneWorker, PassNeedsMain, HealthBusy, Upgrading, Procs,
           HealthBusyPCs, BootPCs, UpgradePCs, MaintenancePCs, SwapPCs, UpgradedPCs
  <2> QED
    BY <2>1, <2>2, InitType DEF IInv
<1>2. IInv /\ [Next]_vars => IInv'
  BY TypeStep, GuardStep, InstallStep DEF IInv
<1> QED
  BY <1>1, <1>2, PTL DEF Spec

\* An upgrade that reaches its start step has installed its target, and the
\* target stays installed until the result is recorded.
THEOREM UpgradeIsWhole == Spec => []UpgradeInstallsTarget
<1>1. IInv => UpgradeInstallsTarget
  BY DEF IInv
<1> QED
  BY <1>1, Invariance, PTL

\* While an upgrade has the kubelet stopped nobody starts one, but its own start
\* step and systemd's restart of a kubelet that had died.
THEOREM NobodyStartsDuringSwap == Spec => SwapUndisturbed
<1> DEFINE Disturbed ==
      /\ pc["drift"] \in SwapPCs /\ process = Unknown /\ process' # Unknown
      /\ ~restarting /\ ~DriftStart
<1>1. IInv /\ [Next]_vars => ~Disturbed
  <2> SUFFICES ASSUME IInv, Next, Disturbed PROVE FALSE
    BY DEF vars, kubelet
  <2>1. Upgrading
    BY BusyLabels DEF Upgrading
  <2>2. ~Bootstrap("main") /\ ~Bootstrap("health")
    BY <2>1, BootstrapAlone DEF IInv
  <2>3. ~Main /\ ~Status /\ ~Health
    BY <2>2
       DEF Main, AgentStart, Cleanup, DaemonReturns, Status, StatusTick, StatusVersion,
           StatusServices, SampleServices, StatusWrite, Health, HealthTick, HealthCheck, SpecGet, SpecPut,
           HealthOverride, HealthBootFailed, kubelet
  <2>4. ~Drift
    BY DEF Drift, DriftTick, SpecGet, SpecPut, DriftLoadSpec, DriftDetect, DriftAcquire,
           DriftSkip, Upgrade, DriftIsCordoned, DriftCordon, DriftDrain, DriftUndoCordon,
           DriftStop, StopsKubelet, DriftDownload, DriftUncordon, DriftLeaveCordoned,
           DriftRetryUncordon, DriftFinish, UpgradeStep, kubelet
  <2>5. ~Environment /\ ~(\E p \in ActiveLoops : LoopExit(p))
    BY DEF Environment, Terminate, Crash, KubeletDies, KubeletRestarts, SnapshotAges,
           OperatorCordons, ClusterUpgrades, LoopExit, kubelet
  <2> QED
    BY <2>3, <2>4, <2>5 DEF Next
<1>2. ~Disturbed => [pc["drift"] \in SwapPCs /\ process = Unknown /\ process' # Unknown
                       => restarting \/ DriftStart]_vars
  OBVIOUS
<1> QED
  BY <1>1, <1>2, Invariance, PTL DEF Spec, SwapUndisturbed
=============================================================================
