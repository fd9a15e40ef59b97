---------------------------- MODULE MCAgentDaemon ----------------------------
(***************************************************************************)
(* Instances of AgentDaemon for TLC: two or three versions, each of a      *)
(* minor of its own.                                                       *)
(***************************************************************************)
EXTENDS AgentDaemonRefinement

TwoVersions == {1, 2}
ThreeVersions == {1, 2, 3}

OwnMinor == [v \in Versions |-> v]
=============================================================================
