------------------------- MODULE ProceduresRefinement -------------------------
(***************************************************************************)
(* The calls of an upgrade implement Maintenance: the clients they get,    *)
(* what is refused to them and what they read before they write are not    *)
(* seen in it.                                                             *)
(***************************************************************************)
EXTENDS NodeProcedures

Phase == IF procedure = "upgrade" /\ pc \in Ends THEN pc ELSE op

OwnCordon == uncordonAfter /\ Phase \in {"drain", "undo", "upgrade", "uncordon", "retry"}

Maint == INSTANCE Maintenance WITH phase <- Phase, mark <- cordonedBy, own <- OwnCordon

\* An upgrade, refused or not, with whatever credentials, cordons, undoes and
\* uncordons as Maintenance says (cordonOrUncordon, Drain, executeUpgradePlan).
CallsImplementMaintenance == Maint!Spec
===============================================================================
