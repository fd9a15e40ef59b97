------------------------------ MODULE ArcMachine ------------------------------
(***************************************************************************)
(* The host as an Azure Arc machine: the install-arc step, which installs  *)
(* the Arc agent, connects it and gives the identity of the machine its    *)
(* roles, and the ArcUnbootstrap step, which takes all this back. Both     *)
(* keep the errors they meet to themselves: the first reports them in a    *)
(* status nobody reads, the second only logs them.                         *)
(***************************************************************************)
EXTENDS StepProgram, Sequences

VARIABLES
  arc,        \* the agent on the host, the machine and its roles in Azure
  arcJob,     \* what the step under way holds: is there an identity, which role
              \* is next, and have there been errors?
  arcStatus   \* the status of the last install-arc: "none", "completed", "failed"

arcVars == <<arc, arcJob, arcStatus>>

\* getRoleAssignments of the installer, in its order: role and scope.
Assigned == <<
  [role |-> "Reader", scope |-> "subscription"],
  [role |-> "Contributor", scope |-> "resourceGroup"],
  [role |-> "RBACClusterAdmin", scope |-> "cluster"],
  [role |-> "ClusterAdmin", scope |-> "cluster"] >>

\* MUTANT of Removed: one of them is forgotten.
RemovedShort == <<
  [role |-> "Reader", scope |-> "cluster"],
  [role |-> "RBACClusterAdmin", scope |-> "cluster"] >>

\* getRoleAssignments of the uninstaller, which has a list of its own.
Removed == <<
  [role |-> "Reader", scope |-> "cluster"],
  [role |-> "RBACClusterAdmin", scope |-> "cluster"],
  [role |-> "ClusterAdmin", scope |-> "cluster"] >>

Roles == {Assigned[i] : i \in 1..Len(Assigned)}

ArcPCs == {"arcAuth", "arcInstall", "arcClients", "arcGet", "arcConnect", "arcWait",
           "arcValidate", "arcAssign", "arcPermissions", "arcVerify",
           "unAuth", "unClients", "unGet", "unRoles", "unRegister", "unDisconnect", "unAgent"}

ArcTypeOK ==
  /\ arc \in [spec : {"disabled", "incomplete", "complete"},  \* of the action
              rbac : BOOLEAN,        \* the cluster has Azure RBAC
              agent : BOOLEAN,       \* azcmagent is installed
              connected : BOOLEAN,   \* its services run and it says Connected
              machine : {"none", "bare", "ready"},  \* in Azure; with an identity?
              roles : SUBSET Roles,    \* what this identity may do
              orphans : SUBSET Roles]  \* what identities of deleted machines may
  /\ arcJob \in [identity : BOOLEAN, nth : 1..Len(Assigned), errors : BOOLEAN]
  /\ arcStatus \in {"none", "completed", "failed"}

NoJob == [identity |-> FALSE, nth |-> 1, errors |-> FALSE]

ArcInit(enabled) ==
  /\ \E rbac \in BOOLEAN,
        spec \in IF enabled THEN {"incomplete", "complete"} ELSE {"disabled"} :
       arc = [spec |-> spec, rbac |-> rbac, agent |-> FALSE, connected |-> FALSE,
              machine |-> "none", roles |-> {}, orphans |-> {}]
  /\ arcJob = NoJob /\ arcStatus = "none"

\* The step ends without an error, whatever it came to.
Reports(status) == Goto("ok") /\ arcJob' = NoJob /\ arcStatus' = status

\* A call of the installation. An error ends it with the status "failed".
Installs(from, effect, nothing, next) ==
  /\ pc = from
  /\ \/ Succeeds /\ effect /\ Goto(next) /\ UNCHANGED <<arcJob, arcStatus>>
     \/ Fails /\ (effect \/ nothing) /\ Reports("failed")

-----------------------------------------------------------------------------
(* install-arc.                                                            *)

\* Nothing to do if Arc is disabled. A field that is missing and has no default
\* is the one error that is returned.
BeginInstallArc ==
  /\ pc' = CASE arc.spec = "disabled" -> "ok"
             [] arc.spec = "complete" -> "arcAuth"
             [] OTHER                 -> "failed"
  /\ UNCHANGED arcVars

\* Some credential of the chain gives a token.
ArcAuth ==
  Installs("arcAuth", UNCHANGED arc, UNCHANGED arc,
           IF arc.agent THEN "arcClients" ELSE "arcInstall")

\* The old package is purged and the vendor's script is run.
ArcInstall ==
  Installs("arcInstall", arc' = [arc EXCEPT !.agent = TRUE], UNCHANGED arc, "arcClients")

ArcClients == Installs("arcClients", UNCHANGED arc, UNCHANGED arc, "arcGet")

\* registerArcMachine: a machine that is there need not be connected, or have an
\* identity yet; a GET that fails is taken for a machine that is not there.
ArcGet ==
  /\ pc = "arcGet" /\ UNCHANGED <<arc, arcStatus>>
  /\ \/ /\ Succeeds /\ arc.machine # "none"
        /\ arcJob' = [arcJob EXCEPT !.identity = arc.machine = "ready"]
        /\ Goto("arcValidate")
     \/ /\ Succeeds /\ arc.machine = "none" /\ UNCHANGED arcJob /\ Goto("arcConnect")
     \/ Fails /\ UNCHANGED arcJob /\ Goto("arcConnect")

\* azcmagent connect makes the machine, or takes over one that is there; it may
\* also refuse to, and does if it is connected already.
ArcConnect ==
  \/ /\ ~arc.connected
     /\ Installs("arcConnect",
                 arc' = [arc EXCEPT !.connected = TRUE,
                                    !.machine = IF @ = "none" THEN "bare" ELSE @],
                 UNCHANGED arc, "arcWait")
  \/ /\ arc.connected \/ arc.machine # "none"
     /\ pc = "arcConnect" /\ Succeeds
     /\ Reports("failed") /\ UNCHANGED arc

\* Up to ten GETs until the machine has an identity.
ArcWait ==
  /\ pc = "arcWait" /\ UNCHANGED arc
  /\ \/ /\ Succeeds /\ arc.machine = "ready"
        /\ arcJob' = [arcJob EXCEPT !.identity = TRUE]
        /\ Goto("arcValidate") /\ UNCHANGED arcStatus
     \/ Succeeds /\ arc.machine = "bare" /\ Reports("failed")
     \/ Fails /\ Reports("failed")

\* Azure RBAC must be enabled, and the machine have an identity.
ArcValidate ==
  /\ pc = "arcValidate" /\ UNCHANGED arc
  /\ \/ /\ Succeeds
        /\ IF arc.rbac /\ arcJob.identity
           THEN Goto("arcAssign") /\ UNCHANGED <<arcJob, arcStatus>>
           ELSE Reports("failed")
     \/ Fails /\ Reports("failed")

\* MUTANT of Worse: only the error of the last role counts.
WorseLast(error) == error

\* assignmentErrors collects the errors of all roles.
Worse(error) == arcJob.errors \/ error

\* After a role, the next one; after the last, an error if there was any.
NextRole(error) ==
  IF arcJob.nth < Len(Assigned)
  THEN /\ arcJob' = [arcJob EXCEPT !.nth = @ + 1, !.errors = Worse(error)]
       /\ UNCHANGED <<pc, arcStatus>>
  ELSE IF Worse(error) THEN Reports("failed")
  ELSE Goto("arcPermissions") /\ UNCHANGED <<arcJob, arcStatus>>

\* assignRole: that the assignment exists already is a success, that the
\* identity is not found yet is tried again; the failure is the last one.
ArcAssign ==
  /\ pc = "arcAssign"
  /\ LET Assigns == arc' = [arc EXCEPT !.roles = @ \union {Assigned[arcJob.nth]}]
     IN  \/ Succeeds /\ Assigns /\ NextRole(FALSE)
         \/ Fails /\ (Assigns \/ UNCHANGED arc) /\ NextRole(TRUE)

\* waitForPermissions polls the machine only.
ArcPermissions == Installs("arcPermissions", UNCHANGED arc, UNCHANGED arc, "arcVerify")

\* isCompleted.
ArcVerify ==
  /\ pc = "arcVerify" /\ UNCHANGED arc
  /\ \/ Succeeds /\ Reports(IF arc.connected THEN "completed" ELSE "failed")
     \/ Fails /\ Reports("failed")

InstallArc ==
  \/ ArcAuth \/ ArcInstall \/ ArcClients \/ ArcGet \/ ArcConnect \/ ArcWait \/ ArcValidate
  \/ ArcAssign \/ ArcPermissions \/ ArcVerify

-----------------------------------------------------------------------------
(* ArcUnbootstrap.                                                         *)

\* IsCompleted if Arc is disabled.
BeginUninstallArc ==
  /\ pc' = (IF arc.spec = "disabled" THEN "ok" ELSE "unAuth")
  /\ arcStatus' = IF arc.spec = "disabled" THEN arcStatus ELSE "none"
  /\ UNCHANGED <<arc, arcJob>>

\* A call of the uninstallation: an error is logged.
Uninstalls(from, effect, nothing, next) ==
  /\ Attempt(from, effect, nothing, next, next)
  /\ UNCHANGED <<arcJob, arcStatus>>

\* EnsureAuthenticated: without a login to the Azure CLI that is good it asks for
\* one. Its error and that of setUpClients are the ones that are returned.
UnAuth ==
  /\ Call("unAuth", UNCHANGED arc, UNCHANGED arc, "unClients")
  /\ UNCHANGED <<arcJob, arcStatus>>

UnClients ==
  /\ Call("unClients", UNCHANGED arc, UNCHANGED arc, "unGet")
  /\ UNCHANGED <<arcJob, arcStatus>>

\* Without the machine, or its identity, there are no roles to remove.
UnGet ==
  /\ pc = "unGet" /\ UNCHANGED <<arc, arcStatus>>
  /\ \/ /\ Succeeds
        /\ arcJob' = [arcJob EXCEPT !.identity = arc.machine = "ready"]
        /\ Goto(IF arc.machine = "ready" THEN "unRoles" ELSE "unRegister")
     \/ Fails /\ UNCHANGED arcJob /\ Goto("unRegister")

\* removeRoleAssignment: of the assignments listed for the scope those of the
\* identity and role are deleted, at the scope.
UnRoles ==
  /\ pc = "unRoles" /\ UNCHANGED arcStatus
  /\ LET Removes == arc' = [arc EXCEPT !.roles = @ \ {Removed[arcJob.nth]}]
     IN  \/ Succeeds /\ Removes /\ arcJob' = [arcJob EXCEPT
              !.nth = IF @ < Len(Removed) THEN @ + 1 ELSE @]
         \/ Fails /\ (Removes \/ UNCHANGED arc) /\ arcJob' = [arcJob EXCEPT
              !.nth = IF @ < Len(Removed) THEN @ + 1 ELSE @, !.errors = TRUE]
  /\ IF arcJob.nth < Len(Removed) THEN UNCHANGED pc ELSE Goto("unRegister")

\* The resource is deleted, and with it the identity; its roles stay behind.
UnRegister ==
  Uninstalls("unRegister",
             arc' = [arc EXCEPT !.machine = "none", !.roles = {},
                                !.orphans = @ \union arc.roles],
             UNCHANGED arc, "unDisconnect")

\* azcmagent disconnect --force-local-only.
UnDisconnect ==
  Uninstalls("unDisconnect", arc' = [arc EXCEPT !.connected = FALSE], UNCHANGED arc, "unAgent")

\* removeArcAgentBinary disconnects once more, stops the services and removes
\* every file; what remains is only warned of.
UnAgent ==
  /\ Attempt("unAgent", arc' = [arc EXCEPT !.agent = FALSE, !.connected = FALSE],
             UNCHANGED arc, "ok", "ok")
  /\ arcJob' = NoJob /\ UNCHANGED arcStatus

UninstallArc == UnAuth \/ UnClients \/ UnGet \/ UnRoles \/ UnRegister \/ UnDisconnect \/ UnAgent

ArcStep == InstallArc \/ UninstallArc

-----------------------------------------------------------------------------
(* Around the process.                                                     *)

ArcAbandoned == arcJob' = NoJob /\ UNCHANGED <<arc, arcStatus>>

\* Azure gives the machine its identity some time after it was made.
IdentityAppears ==
  /\ arc.machine = "bare" /\ arc' = [arc EXCEPT !.machine = "ready"]
  /\ UNCHANGED <<pc, faults, arcJob, arcStatus>>

\* The agent loses its registration or is stopped.
ArcDisconnects ==
  /\ arc.connected /\ arc' = [arc EXCEPT !.connected = FALSE]
  /\ UNCHANGED <<pc, faults, arcJob, arcStatus>>

-----------------------------------------------------------------------------
\* A completed installation has given the identity every role.
RolesReported == arcStatus = "completed" => arc.roles = Roles

\* The rights of an administrator of the cluster outlive their machine only if a
\* call failed.
AdminRevoked == faults = 0 => \A r \in arc.orphans : r.scope # "cluster"

\* removeRBACRoles removes all roles of the identity, if it reports no error.
RolesRemoved == pc = "unRegister" /\ arcJob.identity /\ ~arcJob.errors => arc.roles = {}
===============================================================================
