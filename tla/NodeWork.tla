------------------------------- MODULE NodeWork -------------------------------
(***************************************************************************)
(* What the agent promises about the kubelet of its node, without loops,   *)
(* files or locks: at most one worker owns the node; only the owner        *)
(* replaces the kubelet binary, and only with the version it aims at; only *)
(* an upgrade stops a kubelet, and only the owner starts one, or systemd   *)
(* after the kubelet died.                                                 *)
(***************************************************************************)
EXTENDS Naturals

CONSTANT Versions

VARIABLES
  owner,   \* who works on the node: main, health, drift, or none
  goal,    \* the version the owner aims at; 0 when there is no owner
  binary,  \* the kubelet on disk; 0: none
  process, \* the kubelet that runs; 0: none
  restarting \* the kubelet died and will be restarted

work == <<owner, goal, binary, process, restarting>>
kubelet == <<binary, process, restarting>>

Workers == {"main", "health", "drift"}

Init ==
  /\ owner = "none" /\ goal = 0
  /\ binary = 0 /\ process = 0 /\ restarting = FALSE

Take(p) ==
  /\ owner = "none"
  /\ owner' = p
  /\ goal' \in Versions
  /\ UNCHANGED kubelet

\* A step of the owner may be its last.
MayLetGo == UNCHANGED <<owner, goal>> \/ (owner' = "none" /\ goal' = 0)

Release ==
  /\ owner # "none"
  /\ owner' = "none" /\ goal' = 0
  /\ UNCHANGED kubelet

\* The health check learns what to aim at once it owns the node.
Aim ==
  /\ owner = "health"
  /\ goal' \in Versions
  /\ UNCHANGED <<owner, kubelet>>

Install ==
  /\ owner # "none"
  /\ binary' = goal
  /\ MayLetGo
  /\ UNCHANGED <<process, restarting>>

Stop ==
  /\ owner = "drift"
  /\ process' = 0
  /\ UNCHANGED <<owner, goal, binary, restarting>>

\* A running kubelet is left alone.
Start ==
  /\ owner # "none"
  /\ process = 0
  /\ process' = binary /\ restarting' = FALSE
  /\ MayLetGo
  /\ UNCHANGED binary

\* The agent may die at any time, alone or with the node.
AgentDies ==
  /\ owner' = "none" /\ goal' = 0
  /\ UNCHANGED <<process, restarting>> \/ (process' = 0 /\ restarting' = FALSE)
  /\ UNCHANGED binary

KubeletDies ==
  /\ process # 0
  /\ process' = 0 /\ restarting' \in BOOLEAN
  /\ UNCHANGED <<owner, goal, binary>>

KubeletRestarts ==
  /\ restarting
  /\ process' = binary /\ restarting' = FALSE
  /\ UNCHANGED <<owner, goal, binary>>

Next ==
  \/ \E p \in Workers : Take(p)
  \/ Release \/ Aim \/ Install \/ Stop \/ Start
  \/ AgentDies \/ KubeletDies \/ KubeletRestarts

Spec == Init /\ [][Next]_work
===============================================================================
