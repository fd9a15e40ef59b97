-------------------------- MODULE MCNodeProcedures ----------------------------
(* Small instances of NodeProcedures.                                      *)
EXTENDS ProceduresRefinement

MCFiles == [p \in Packages |->
  CASE p = "containerd" -> {"containerd", "shim"}
    [] p = "runc" -> {"runc"}
    [] p = "kube" -> {"kubelet", "kubectl"}]
MCRequired == MCFiles
MCReference == [p \in Packages |->
  CASE p = "containerd" -> "containerd" [] p = "runc" -> "runc" [] p = "kube" -> "kubelet"]

Plain == [wellFormed |-> TRUE, arc |-> FALSE, sp |-> "none", mi |-> FALSE,
          token |-> "none", server |-> FALSE, ca |-> FALSE]

Arc == [Plain EXCEPT !.arc = TRUE]
ServicePrincipal == [Plain EXCEPT !.sp = "full"]
Identity == [Plain EXCEPT !.sp = "partial", !.mi = TRUE]
Token == [Plain EXCEPT !.token = "good", !.server = TRUE, !.ca = TRUE]
TokenAlone == [Plain EXCEPT !.token = "good"]
Two == [Plain EXCEPT !.sp = "full", !.mi = TRUE]

MCConfigFiles == {Arc, ServicePrincipal, Identity, Token, TokenAlone, Two}

Bare == [tools |-> RequiredBinaries, docker |-> FALSE, fstab |-> "none"]
Used == [tools |-> {"jq"}, docker |-> TRUE, fstab |-> "swap"]

MCHosts == {Bare, Used}

MCSetups == {<<Arc, Bare>>, <<ServicePrincipal, Used>>, <<Identity, Bare>>, <<Token, Bare>>,
             <<TokenAlone, Bare>>, <<Two, Bare>>}
===============================================================================
