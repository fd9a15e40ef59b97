--------------------------- MODULE MaintenanceProofs ---------------------------
(***************************************************************************)
(* Proof that the calls of an upgrade implement Maintenance, for every     *)
(* constant: a call that is refused, tried again or given up is, with what *)
(* it wrote, one step of Maintenance or none.                              *)
(***************************************************************************)
EXTENDS ProceduresRefinement, ActionProofs

\* A call is under way in an upgrade only, at one of the labels of the calls; and
\* who uncordons has cordoned.
OpInv ==
  /\ op # "none" => pc \in CordonPCs /\ procedure = "upgrade"
  /\ op = "uncordon" => uncordonAfter

\* The step of an upgrade is in no other procedure.
LEMMA UpgradeRuns ==
  ASSUME InOrder, pc # "idle", steps[position] = "upgrade"
  PROVE  procedure = "upgrade"
<1>1. position \in 1..Len(steps) /\ procedure \in Procedures
  BY DEF InOrder, IInv, RunInv, ProceduresTypeOK
<1>2. CASE Bootstrapping
  <2>1. steps = BootstrapSteps
    BY <1>2 DEF InOrder, ProcedureInv
  <2> QED BY <1>1, <2>1 DEF BootstrapSteps
<1>3. CASE procedure = "unbootstrap"
  <2>1. steps = UnbootstrapSteps
    BY <1>3 DEF InOrder, ProcedureInv
  <2> QED BY <1>1, <2>1 DEF UnbootstrapSteps
<1>4. CASE procedure = "apply"
  BY <1>1, <1>4 DEF InOrder, ProcedureInv, Registered
<1> QED BY <1>1, <1>2, <1>3, <1>4 DEF Procedures, Bootstrapping

\* And an upgrade has no other.
LEMMA StepOfUpgrade ==
  ASSUME InOrder, pc # "idle", procedure = "upgrade"
  PROVE  steps[position] = "upgrade"
<1>1. steps = <<"upgrade">> /\ position \in 1..Len(steps)
  BY DEF InOrder, IInv, RunInv, ProcedureInv
<1>2. Len(steps) = 1
  BY <1>1
<1> QED BY <1>1, <1>2

\* Where a turn of the calls leads to, in the eyes of Maintenance.
LEMMA CallSeen ==
  ASSUME InOrder, OpInv, CordonTurn
  PROVE  /\ procedure = "upgrade" /\ procedure' = "upgrade"
         /\ pc \notin Ends /\ Phase = op
         /\ pc' \in CordonPCs => Phase' = op'
         /\ pc' \in Ends => Phase' = pc'
<1>1. pc \in CordonPCs \union {"next"} /\ pc' \in CordonPCs \union Ends
  BY DEF CordonTurn, Turn
<1>2. procedure = "upgrade" /\ procedure' = procedure
  BY <1>1, TurnsInSteps, UpgradeRuns DEF CordonTurn, OnlyCordon, Still, runVars, CordonPCs
<1> QED BY <1>1, <1>2 DEF Phase, CordonPCs, Ends

\* A call that goes on, or is answered, without Maintenance seeing anything.
LEMMA CallGoesOn ==
  ASSUME InOrder, OpInv, CordonTurn, pc' \in CordonPCs, UNCHANGED <<op, uncordonAfter, cordonedBy>>
  PROVE  UNCHANGED Maint!maintenance /\ OpInv'
BY CallSeen DEF Maint!maintenance, OwnCordon, OpInv

\* A call that is given up may have written what it was to write.
LEMMA CallGivenUp ==
  ASSUME InOrder, OpInv, CordonTypeOK, CordonTurn, GivenUp, op # "none",
         Writes \/ UNCHANGED cordonedBy
  PROVE  Maint!Next /\ OpInv'
<1> USE CallSeen DEF GivenUp, Proceed, Returns, Goto, CordonPCs, Ends, OwnCordon, OpInv,
                     Maint!Next, Maint!Fail, Maint!LastAttempt, Maint!MayMark, Maint!MayUnmark
<1>1. op \in NodeOps /\ uncordonAfter \in BOOLEAN
  BY DEF CordonTypeOK
<1>2. CASE op = "drain" /\ uncordonAfter
  BY <1>2 DEF Writes
<1>3. CASE op = "uncordon"
  BY <1>3 DEF Writes
<1>4. CASE op \notin {"drain", "uncordon"} \/ (op = "drain" /\ ~uncordonAfter)
  <2>1. op' = "none" /\ pc' = "failed"
    BY <1>4
  <2>2. Phase' = "failed" /\ OwnCordon' = FALSE
    BY <2>1
  <2>3. CASE op \in {"undo", "retry"}
    BY <2>1, <2>2, <2>3 DEF Writes
  <2>4. CASE op = "cordon"
    BY <2>1, <2>2, <2>4 DEF Writes
  <2>5. CASE op \in {"isCordoned", "upgrade"} \/ (op = "drain" /\ ~uncordonAfter)
    BY <2>1, <2>2, <2>5 DEF Writes
  <2> QED BY <1>1, <1>4, <2>1, <2>3, <2>4, <2>5 DEF NodeOps
<1> QED BY <1>2, <1>3, <1>4

\* One that succeeded has, and uncordoning leaves no mark of the agent.
LEMMA CallDone ==
  ASSUME InOrder, OpInv, CordonTypeOK, CordonTurn, Done, op # "none",
         Writes \/ UNCHANGED cordonedBy,
         op \in {"isCordoned", "upgrade"} => UNCHANGED cordonedBy,
         op = "uncordon" => cordonedBy' # "agent"
  PROVE  Maint!Next /\ OpInv'
<1> USE CallSeen DEF Done, AfterUpgrade, Proceed, Returns, Goto, CordonPCs, Ends, OwnCordon, OpInv,
                     Maint!Next
<1>1. op \in NodeOps /\ uncordonAfter \in BOOLEAN
  BY DEF CordonTypeOK
<1>2. CASE op = "isCordoned"
  BY <1>2 DEF Maint!Ask
<1>3. CASE op = "cordon"
  BY <1>3 DEF Maint!Cordon, Maint!MayMark, Writes
<1>4. CASE op = "drain"
  BY <1>1, <1>4 DEF Maint!Drain, Writes
<1>5. CASE op = "upgrade"
  BY <1>1, <1>5 DEF Maint!Upgrade
<1>6. CASE op = "uncordon"
  BY <1>6 DEF Maint!Uncordon, Maint!MayUnmark, Writes
<1>7. CASE op \in {"undo", "retry"}
  BY <1>7 DEF Maint!LastAttempt, Maint!MayUnmark, Writes
<1> QED BY <1>1, <1>2, <1>3, <1>4, <1>5, <1>6, <1>7 DEF NodeOps

\* The steps of the calls.
LEMMA CallsMaintain ==
  ASSUME InOrder, OpInv, CordonInv, CordonTurn
  PROVE  [Maint!Next]_(Maint!maintenance) /\ OpInv'
<1>0. CordonTypeOK /\ (pc \in CordonPCs => op \in NodeOps /\ op # "none")
  BY DEF InOrder, ProceduresTypeOK, CordonInv, CallInv, NodeOps
<1>1. CASE BeginCordonStep
  <2>1. pc = "next" /\ op = "none"
    BY <1>1 DEF BeginCordonStep, At, OpInv, CordonPCs
  <2>2. /\ pc' = "ncClient" /\ op' = "isCordoned" /\ UNCHANGED cordonedBy
    BY <1>1 DEF BeginCordonStep, BeginMaintenance
  <2> QED
    BY <2>1, <2>2, CallSeen DEF OwnCordon, OpInv, CordonPCs, Maint!Next, Maint!Begin
<1>2. ASSUME CordonStep PROVE pc \in CordonPCs /\ op # "none"
  BY <1>0, <1>2, StepsAt
<1>3. ASSUME CordonStep, GivenUp, Writes \/ UNCHANGED cordonedBy
      PROVE  Maint!Next /\ OpInv'
  BY <1>0, <1>2, <1>3, CallGivenUp
<1>4. CASE GetClient
  BY <1>4, CallGoesOn DEF GetClient, AfterClient, Goto, CordonPCs
<1>5. CASE LastResort
  <2>1. CASE GivenUp
    BY <1>3, <1>5, <2>1 DEF LastResort, CordonStep
  <2>2. CASE Goto(AfterClient) /\ UNCHANGED <<op, uncordonAfter>>
    BY <1>5, <2>2, CallGoesOn DEF LastResort, AfterClient, Goto, CordonPCs
  <2> QED BY <1>5, <2>1, <2>2 DEF LastResort
<1>6. CASE GetAdmin
  <2>1. CASE GivenUp
    BY <1>3, <1>6, <2>1 DEF GetAdmin, CordonStep
  <2>2. CASE pc' \in CordonPCs /\ UNCHANGED <<op, uncordonAfter>>
    BY <1>6, <2>2, CallGoesOn DEF GetAdmin
  <2> QED BY <1>6, <2>1, <2>2 DEF GetAdmin, Goto, CordonPCs
<1>7. CASE GetNode("ncGet", "ncWrite") \/ GetNode("ncGetAgain", "ncWriteAgain")
  <2>1. UNCHANGED cordonedBy
    BY <1>7 DEF GetNode
  <2>2. CASE GivenUp
    BY <1>3, <1>7, <2>1, <2>2 DEF CordonStep
  <2>3. CASE op = "isCordoned" /\ Done
    BY <1>0, <1>2, <1>7, <2>1, <2>3, CallDone DEF CordonStep
  <2>4. CASE pc' \in CordonPCs /\ UNCHANGED <<op, uncordonAfter>>
    BY <2>1, <2>4, CallGoesOn
  <2> QED BY <1>7, <2>2, <2>3, <2>4 DEF GetNode, Goto, CordonPCs
<1>8. CASE WriteNode("ncWrite", OnDenial) \/ WriteNode("ncWriteAgain", GivenUp)
  <2>1. pc \in {"ncWrite", "ncWriteAgain"}
    BY <1>8 DEF WriteNode
  <2>2. CASE Writes /\ Done
    <3>1. op = "uncordon" => cordonedBy' # "agent"
      BY <1>0, <2>1, <2>2 DEF Writes, CordonInv, CallInv
    <3>2. op \in {"isCordoned", "upgrade"} => UNCHANGED cordonedBy
      BY <2>2 DEF Writes
    <3> QED BY <1>0, <1>2, <1>8, <2>2, <3>1, <3>2, CallDone DEF CordonStep
  <2>3. CASE GivenUp /\ (Writes \/ UNCHANGED cordonedBy)
    BY <1>3, <1>8, <2>3 DEF CordonStep
  <2>4. CASE OnDenial /\ UNCHANGED cordonedBy
    BY <2>4, CallGoesOn DEF OnDenial, Goto, CordonPCs
  <2> QED BY <1>8, <2>2, <2>3, <2>4 DEF WriteNode
<1>9. CASE Upgrade
  <2>1. op = "upgrade" /\ UNCHANGED cordonedBy
    BY <1>9 DEF Upgrade, CordonInv, CallInv
  <2>2. CASE Done
    BY <1>0, <2>1, <2>2, CallDone
  <2>3. CASE GivenUp
    BY <1>0, <2>1, <2>3, CallGivenUp
  <2> QED BY <1>9, <2>2, <2>3 DEF Upgrade
<1> QED BY <1>1, <1>4, <1>5, <1>6, <1>7, <1>8, <1>9 DEF CordonTurn, CordonStep

\* A run that has ended, or never was.
LEMMA RunIsOver ==
  ASSUME UNCHANGED cordonedBy, op' = "none", pc' \notin Ends \/ procedure' # "upgrade"
  PROVE  [Maint!Next]_(Maint!maintenance) /\ OpInv'
<1>1. Phase' = "none" /\ OwnCordon' = FALSE /\ OpInv'
  BY DEF Phase, OwnCordon, OpInv
<1>2. CASE Phase = "none"
  <2>1. OwnCordon = FALSE
    BY <1>2 DEF OwnCordon
  <2> QED BY <1>1, <1>2, <2>1 DEF Maint!maintenance
<1>3. CASE Phase # "none"
  BY <1>1, <1>3 DEF Maint!Next, Maint!Forget
<1> QED BY <1>2, <1>3

LEMMA Maintains ==
  ASSUME InOrder, OpInv, CordonInv, [Next]_vars
  PROVE  [Maint!Next]_(Maint!maintenance) /\ OpInv'
<1>0. ProceduresTypeOK
  BY DEF InOrder
<1>1. CASE NodeTurn \/ DownloadTurn \/ HostTurn \/ ArcTurn \/ KubeadmTurn \/ AKSTurn
  <2>1. UNCHANGED cordonVars /\ UNCHANGED procedure /\ pc # "idle" /\ pc \notin CordonPCs
    BY <1>1 DEF NodeTurn, DownloadTurn, HostTurn, ArcTurn, KubeadmTurn, AKSTurn, Turn, OnlyNode,
         OnlyDownloads, OnlyHost, OnlyArc, OnlyKubeadm, OnlyAKS, Still, runVars, NodePCs,
         DownloadPCs, HostPCs, ArcPCs, KubeadmPCs, AKSPCs, CordonPCs
  <2>2. steps[position] # "upgrade"
    BY <1>1, TurnsInSteps DEF NodeSteps, DownloadSteps, HostSteps, ArcSteps, KubeadmSteps
  <2>3. procedure # "upgrade"
    BY <2>1, <2>2, StepOfUpgrade
  <2> QED BY <2>1, <2>3, RunIsOver DEF cordonVars, OpInv
<1>2. CASE ResetKubeletClean
  <2>1. steps[position] = "reset-kubelet" /\ pc # "idle" /\ pc \notin CordonPCs
    BY <1>2 DEF ResetKubeletClean, Call, Attempt, InOrder, LabelInv, NodeLabels, StepIs, CordonPCs
  <2>2. UNCHANGED cordonVars /\ UNCHANGED procedure
    BY <1>2 DEF ResetKubeletClean, Still, runVars
  <2> QED BY <2>1, <2>2, StepOfUpgrade, RunIsOver DEF cordonVars, OpInv
<1>3. CASE RunTurn
  <2>1. pc \notin CordonPCs /\ pc' \notin Ends /\ UNCHANGED cordonVars
    BY <1>3 DEF RunTurn, CordonPCs, Ends
  <2> QED BY <2>1, RunIsOver DEF cordonVars, OpInv
<1>4. CASE Killed \/ Reboot
  BY <1>4, RunIsOver DEF Killed, Reboot, Abandoned, CordonAbandoned, Goto, Ends
<1>5. CASE WorldTurn
  <2>1. UNCHANGED <<pc, procedure>>
    BY <1>5 DEF WorldTurn, Still, runVars
  <2>2. CASE OperatorMarks
    BY <2>1, <2>2 DEF OperatorMarks, Phase, OwnCordon, OpInv, Maint!Next, Maint!Operator
  <2>3. CASE UNCHANGED cordonVars \/ CertificatesRotate
    BY <2>1, <2>3 DEF CertificatesRotate, cordonVars, Phase, OwnCordon, OpInv, Maint!maintenance
  <2>4. UNCHANGED cordonVars \/ CertificatesRotate \/ OperatorMarks
    BY <1>5 DEF WorldTurn, World, NodeLives, OnlyNode, OnlyHost, OnlyArc, OnlyKubeadm, OnlyAKS
  <2> QED BY <2>2, <2>3, <2>4
<1>6. CASE UNCHANGED vars
  BY <1>6 DEF vars, runVars, cordonVars, Phase, OwnCordon, OpInv, Maint!maintenance
<1> QED BY <1>0, <1>1, <1>2, <1>3, <1>4, <1>5, <1>6, CallsMaintain, Turns

\* Whatever the instance, the credentials and their rights, and whatever is refused,
\* fails, is killed or marked by the operator meanwhile, an upgrade treats the
\* schedulability of its node as Maintenance says: a run takes back a cordon of its own
\* and no other, and one that succeeds leaves none (cordonOrUncordon, Drain,
\* cordonAndDrainExecutor, uncordonExecutor, runKubernetesUpgradeRemediation).
THEOREM MaintenanceOfCalls == Spec => CallsImplementMaintenance
<1>1. Init => Maint!Init /\ OpInv
  BY DEF Init, CordonInit, Maint!Init, Phase, OwnCordon, OpInv, Ends
<1>2. InOrder /\ CordonInv /\ [Next]_vars => CordonInv'
  BY CordonInvariance
<1>3. InOrder /\ OpInv /\ CordonInv /\ [Next]_vars
      => [Maint!Next]_(Maint!maintenance) /\ OpInv'
  BY Maintains
<1> QED BY <1>1, <1>2, <1>3, InitCordonInv, AlwaysInOrder, PTL
        DEF Spec, CallsImplementMaintenance, Maint!Spec
===============================================================================
