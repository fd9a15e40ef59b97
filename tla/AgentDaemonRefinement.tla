------------------------ MODULE AgentDaemonRefinement ------------------------
(***************************************************************************)
(* The daemon implements NodeWork: the owner of the node is main while it  *)
(* bootstraps, else the loop that holds bootstrapInProgress. Its upgrades  *)
(* implement Maintenance.                                                  *)
(***************************************************************************)
EXTENDS AgentDaemon

Owner ==
  IF pc["main"] \in BootPCs THEN "main"
  ELSE IF HealthBusy THEN "health"
  ELSE IF Upgrading THEN "drift"
  ELSE "none"

Goal == IF Owner = "none" THEN Unknown ELSE target[Owner]

Work == INSTANCE NodeWork WITH owner <- Owner, goal <- Goal

\* Every behaviour of the daemon, seen through Owner, is one of NodeWork: one
\* worker at a time, and the binary only ever becomes its owner's version.
ImplementsNodeWork == Work!Spec

-----------------------------------------------------------------------------

\* Where the drift loop is in an upgrade.
Phase ==
  LET at == pc["drift"]
  IN  CASE at \in {"isCordoned", "cordon", "drain"}     -> at
        [] at = "undoCordon"                            -> "undo"
        [] at \in {"stop", "upDownload", "upStart"}     -> "upgrade"
        [] at = "uncordon" /\ uncordonAfter             -> "uncordon"
        [] at = "retryUncordon"                         -> "retry"
        [] at = "finishOk" \/ (at = "uncordon" /\ ~uncordonAfter) -> "ok"
        [] at \in {"finishFailed", "finishBroken"}      -> "failed"
        [] OTHER                                        -> "none"

OwnCordon == uncordonAfter /\ Phase \in {"drain", "undo", "upgrade", "uncordon", "retry"}

Maint == INSTANCE Maintenance WITH phase <- Phase, mark <- cordonedBy, own <- OwnCordon

\* The upgrades of the daemon, in whatever pass, with the other loops and the
\* environment around them, treat the schedulability of the node as Maintenance says
\* (runKubernetesUpgradeRemediation).
DaemonImplementsMaintenance == Maint!Spec
=============================================================================
