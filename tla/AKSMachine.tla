------------------------------ MODULE AKSMachine ------------------------------
(***************************************************************************)
(* The EnsureMachine action: the agent pool of flex nodes and this machine *)
(* in it, made where they are missing. The control plane manages a machine *)
(* that is there, so it must not be written twice.                         *)
(***************************************************************************)
EXTENDS StepProgram

VARIABLE aks  \* the spec of the action and the resources, see AKSTypeOK

AKSPCs == {"aksSpec", "aksCredential", "poolGet", "poolPut", "machineGet", "machinePut"}

AKSTypeOK ==
  aks \in [spec : {"disabled", "incomplete", "complete"},
           pool : {"none", "machines", "other"},  \* the pool of that name, by its mode
           machine : {"none", "registered", "managed"}]  \* as registered, or changed
                                                         \* by the control plane since

AKSInit ==
  aks \in [spec : {"disabled", "incomplete", "complete"}, pool : {"none", "other"},
           machine : {"none"}]

BeginEnsureMachine == pc' = "aksSpec" /\ UNCHANGED aks

\* Without drift remediation there is nothing to do; a field that is missing is an
\* error.
AKSSpec ==
  /\ Decide("aksSpec", CASE aks.spec = "disabled" -> "ok"
                         [] aks.spec = "complete" -> "aksCredential"
                         [] OTHER                 -> "failed")
  /\ UNCHANGED aks

\* credentialFromSpec.
AKSCredential == Call("aksCredential", UNCHANGED aks, UNCHANGED aks, "poolGet")

\* ensureAgentPool: a pool that is there is not looked at, whatever its mode.
PoolGet ==
  Call("poolGet", UNCHANGED aks, UNCHANGED aks,
       IF aks.pool = "none" THEN "poolPut" ELSE "machineGet")

\* The PUT and the poll until it is done.
PoolPut == Call("poolPut", aks' = [aks EXCEPT !.pool = "machines"], UNCHANGED aks, "machineGet")

\* MUTANT of AfterMachineError: any error of the GET is taken for a machine that
\* is not there.
AfterMachineErrorPuts == "machinePut"

\* Only a 404 means that there is none.
AfterMachineError == "failed"

MachineGet ==
  Attempt("machineGet", UNCHANGED aks, UNCHANGED aks,
          IF aks.machine = "none" THEN "machinePut" ELSE "ok", AfterMachineError)

\* buildK8sProfile: the version and settings of config.json, whatever was there.
MachinePut ==
  Call("machinePut", aks' = [aks EXCEPT !.machine = "registered"], UNCHANGED aks, "ok")

AKSStep == AKSSpec \/ AKSCredential \/ PoolGet \/ PoolPut \/ MachineGet \/ MachinePut

\* The control plane changes a machine, for one its version.
ControlPlaneManages ==
  /\ aks.machine = "registered" /\ aks' = [aks EXCEPT !.machine = "managed"]
  /\ UNCHANGED <<pc, faults>>

-----------------------------------------------------------------------------
\* What the control plane has changed is not overwritten.
ControlPlaneKept == aks.machine = "managed" => aks'.machine = "managed"
===============================================================================
