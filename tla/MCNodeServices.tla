---------------------------- MODULE MCNodeServices ----------------------------
(***************************************************************************)
(* Instances of NodeServices for TLC: every service, or those with a start *)
(* action of each shape.                                                   *)
(***************************************************************************)
EXTENDS NodeServices

CONSTANTS c1, c2

TwoConfigs == {c1, c2}
KubeletAndNPD == {"kubelet", "npd"}
AllServices == {"kubelet", "containerd", "npd"}
===============================================================================
