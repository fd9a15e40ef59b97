--------------------------- MODULE FailedBootstraps ---------------------------
(***************************************************************************)
(* The daemon with one history variable: owed is TRUE from an auto-        *)
(* bootstrap that failed until the next bootstrap starts. It constrains    *)
(* nothing.                                                                *)
(***************************************************************************)
EXTENDS AgentDaemon

VARIABLE owed

OwedInit == Init /\ owed = FALSE

OwedNext ==
  /\ Next
  /\ owed' = IF pc'["main"] = "down" \/ pc'["health"] = "download" THEN FALSE
             ELSE IF HealthBootFailed THEN TRUE
             ELSE owed

OwedSpec == OwedInit /\ [][OwedNext]_<<vars, owed>>

\* "Bootstrap failed - remove status file so next check will detect the
\* problem" (commands.go:399): the check after a failed auto-bootstrap
\* bootstraps again.
NextCheckDetects == owed /\ pc["health"] = "check" => NeedsBootstrap(statusFile)
===============================================================================
