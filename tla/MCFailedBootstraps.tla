-------------------------- MODULE MCFailedBootstraps --------------------------
(***************************************************************************)
(* An instance of FailedBootstraps for TLC.                                *)
(***************************************************************************)
EXTENDS FailedBootstraps

OneVersion == {1}
OwnMinor == [v \in Versions |-> v]
===============================================================================
