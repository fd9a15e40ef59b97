------------------------------ MODULE KubeadmNode -----------------------------
(***************************************************************************)
(* The other way into a cluster: the KubeadmNodeJoin and KubeadmNodeReset  *)
(* actions, which leave most of the work to the kubeadm command and handle *)
(* the kubelet's unit around it.                                           *)
(***************************************************************************)
EXTENDS StepProgram

VARIABLE kubeadm  \* the node as kubeadm and systemd have it, see KubeadmTypeOK

KubeadmPCs == {"joinUnit", "joinReload", "joinEnable", "joinRun", "joinPoll",
               "resetRun", "resetStatus", "resetStop", "resetDisable", "resetMask",
               "resetClean"}

KubeadmTypeOK ==
  kubeadm \in [config : BOOLEAN,    \* config.yaml is in the kubelet's directory
               file : {"none", "unit", "mask"},     \* the unit's file with its drop-in
               loaded : {"none", "unit", "mask"},   \* what systemd has read of it
               enabled : BOOLEAN,
               active : {"no", "yes", "restarting"}]

KubeadmInit ==
  kubeadm = [config |-> FALSE, file |-> "none", loaded |-> "none", enabled |-> FALSE,
             active |-> "no"]

KubeadmCall(from, after, next) ==
  Call(from, kubeadm' = after, UNCHANGED kubeadm, next)

-----------------------------------------------------------------------------
(* KubeadmNodeJoin.                                                        *)

\* canRun: where there is a configuration the node is taken to have joined, or
\* to be about to.
BeginJoin ==
  pc' = (IF kubeadm.config THEN "joinPoll" ELSE "joinUnit") /\ UNCHANGED kubeadm

\* ensureKubeletUnit writes the unit and its drop-in, over the link of a mask.
JoinUnit ==
  KubeadmCall("joinUnit", [kubeadm EXCEPT !.file = "unit"],
              IF kubeadm.file = "unit" THEN "joinEnable" ELSE "joinReload")

JoinReload == KubeadmCall("joinReload", [kubeadm EXCEPT !.loaded = kubeadm.file], "joinEnable")

JoinEnable == KubeadmCall("joinEnable", [kubeadm EXCEPT !.enabled = TRUE], "joinRun")

\* kubeadm join writes the kubelet's configuration, reloads systemd and starts
\* the unit, and waits for the node to have its certificate.
Configured == [kubeadm EXCEPT !.config = TRUE]
Joined == [Configured EXCEPT !.loaded = kubeadm.file,
                             !.active = IF kubeadm.file = "unit" THEN "yes" ELSE @]

JoinRun ==
  /\ pc = "joinRun"
  /\ \/ Succeeds /\ kubeadm' = Joined /\ Goto("joinPoll")
     \/ Fails /\ kubeadm' \in {kubeadm, Configured, Joined} /\ Goto("failed")

\* pollUntilKubeletActive, for three minutes.
JoinPoll ==
  /\ pc = "joinPoll" /\ UNCHANGED kubeadm
  /\ \/ Succeeds /\ Goto(IF kubeadm.active = "yes" THEN "ok" ELSE "failed")
     \/ Fails /\ Goto("failed")

Join == JoinUnit \/ JoinReload \/ JoinEnable \/ JoinRun \/ JoinPoll

-----------------------------------------------------------------------------
(* KubeadmNodeReset.                                                       *)

\* MUTANT of ResetOrder: the kubelet is masked before kubeadm reset, as the reset
\* of a node that was not joined by kubeadm does.
ResetOrderMasking == [begin |-> "resetStatus", run |-> "resetClean", mask |-> "resetRun"]

\* kubeadm reset, then the mask, then what is left of the directories.
ResetOrder == [begin |-> "resetRun", run |-> "resetStatus", mask |-> "resetClean"]

BeginReset == pc' = ResetOrder.begin /\ UNCHANGED kubeadm

\* kubeadm reset stops the kubelet, then removes its files.
Stopped == [kubeadm EXCEPT !.active = "no"]
ResetRun ==
  /\ pc = "resetRun"
  /\ LET Reset == [Stopped EXCEPT !.config = FALSE]
     IN  \/ Succeeds /\ kubeadm' = Reset /\ Goto(ResetOrder.run)
         \/ Fails /\ kubeadm' \in {kubeadm, Stopped, Reset} /\ Goto("failed")

\* EnsureUnitMasked: not for a unit that is not there; only an active one is
\* stopped. Asking for the status loads the unit.
ResetStatus ==
  /\ pc = "resetStatus"
  /\ kubeadm' = [kubeadm EXCEPT !.loaded = IF @ = "none" THEN kubeadm.file ELSE @]
  /\ \/ /\ Succeeds
        /\ Goto(IF kubeadm'.loaded = "none" THEN ResetOrder.mask
                ELSE IF kubeadm.active = "yes" THEN "resetStop" ELSE "resetDisable")
     \/ Fails /\ Goto("failed")

ResetStop == KubeadmCall("resetStop", Stopped, "resetDisable")
ResetDisable == KubeadmCall("resetDisable", [kubeadm EXCEPT !.enabled = FALSE], "resetMask")

\* The files are removed first; the mask is a link in their place.
ResetMask ==
  /\ pc = "resetMask"
  /\ \/ Succeeds /\ kubeadm' = [kubeadm EXCEPT !.file = "mask"] /\ Goto(ResetOrder.mask)
     \/ /\ Fails /\ Goto("failed")
        /\ kubeadm' \in {[kubeadm EXCEPT !.file = f] : f \in {kubeadm.file, "none", "mask"}}

\* CleanKubernetesDirs.
ResetClean == KubeadmCall("resetClean", [kubeadm EXCEPT !.config = FALSE], "ok")

Reset == ResetRun \/ ResetStatus \/ ResetStop \/ ResetDisable \/ ResetMask \/ ResetClean

KubeadmStep == Join \/ Reset

-----------------------------------------------------------------------------
(* The kubelet under systemd.                                              *)

KubeletFails ==
  /\ kubeadm.active = "yes" /\ kubeadm' = [kubeadm EXCEPT !.active = "restarting"]
  /\ UNCHANGED <<pc, faults>>

\* Restart=always. systemd goes by what it has read.
KubeletRestarts ==
  /\ kubeadm.active = "restarting"
  /\ kubeadm' = [kubeadm EXCEPT !.active = IF kubeadm.loaded = "unit" THEN "yes" ELSE "no"]
  /\ UNCHANGED <<pc, faults>>

KubeletLives == KubeletFails \/ KubeletRestarts

KubeadmReboots ==
  kubeadm' = [kubeadm EXCEPT !.loaded = kubeadm.file,
                             !.active = IF kubeadm.enabled /\ kubeadm.file = "unit"
                                        THEN "yes" ELSE "no"]

-----------------------------------------------------------------------------
\* A node that joined is still one after a reboot.
JoinLasts == kubeadm.enabled /\ kubeadm.file = "unit"
===============================================================================
