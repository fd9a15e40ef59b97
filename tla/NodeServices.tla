----------------------------- MODULE NodeServices -----------------------------
(***************************************************************************)
(* The services of the node, as the actions of the components API drive    *)
(* them through systemd: start (kubelet, containerd, node problem          *)
(* detector), stop (kubelet) and reset (kubelet, containerd).              *)
(*                                                                         *)
(* The agent applies one action at a time, in any order (`apply` lets the  *)
(* operator give any list; bootstrap, upgrade and unbootstrap give         *)
(* particular ones). An action is a sequence of file writes and calls to   *)
(* systemd; what it has changed so far it only remembers itself, so an     *)
(* action that fails or is killed half-way leaves no note of it.           *)
(*                                                                         *)
(* A service has a configuration file and a unit file on disk, a           *)
(* definition that systemd holds in memory, and a process that was started *)
(* from them. Configurations are compared as a whole: a file either has    *)
(* the content the action renders or another one.                          *)
(***************************************************************************)
EXTENDS Naturals

CONSTANTS
  Services,   \* the services of the instance
  Configs,    \* configurations, or releases of the agent, that differ in every
              \* file the agent renders
  MaxFaults,  \* bound: how many calls fail in a behaviour
  MaxEvents   \* bound: how many deaths, kills, reboots, configuration changes

ASSUME ServicesAssumption == Services \subseteq {"containerd", "kubelet", "npd"}

ASSUME ConfigsAssumption == Configs # {} /\ Configs \intersect {"none", "masked"} = {}

ASSUME BoundsAssumption == MaxFaults \in Nat /\ MaxEvents \in Nat

VARIABLES
  doing,    \* the service the agent's current or last action is about
  pc,       \* the next call of that action
  changed,  \* what the action changed: configuration, unit file
  wanted,   \* the configuration the agent was started with
  confFile, \* configuration file of each service; "none": no file
  unitFile, \* unit file and drop-ins; "masked": a link to /dev/null
  loaded,   \* the definition systemd has in memory; "none": not loaded
  state,    \* ActiveState; "restarting": activating, after the process died
  runs,     \* what the process was started from
  faults, events

files == <<confFile, unitFile>>
systemd == <<loaded, state, runs>>
vars == <<doing, pc, changed, wanted, files, systemd, faults, events>>

\* Services whose start action ends in EnsureUnitRunning.
Ensured == Services \ {"npd"}

\* Starting the kubelet pulls in containerd (Wants= of kubelet.service).
Wants(s) == IF s = "kubelet" THEN Services \intersect {"containerd"} ELSE {}

RestPCs == {"idle", "applied", "done"}
StartPCs == {"conf", "unit", "reload", "status", "npdStatus", "npdReload", "start", "restart"}
StopPCs == {"stopStatus", "stopUnit", "disable"}
ResetPCs == {"maskStatus", "maskStop", "maskDisable", "mask", "clean"}

Contents == Configs \union {"none"}
Definitions == Configs \union {"none", "masked"}
Process == [unit : Contents, conf : Contents]
NoProcess == [unit |-> "none", conf |-> "none"]
NoChange == [conf |-> FALSE, unit |-> FALSE]

TypeOK ==
  /\ doing \in Services
  /\ pc \in RestPCs \union StartPCs \union StopPCs \union ResetPCs
  /\ pc \in (StartPCs \ {"unit", "npdStatus", "npdReload", "start", "restart"})
            \union StopPCs \union ResetPCs => doing \in Ensured
  /\ pc \in {"npdStatus", "npdReload"} => doing \notin Ensured
  /\ changed \in [conf : BOOLEAN, unit : BOOLEAN]
  /\ wanted \in Configs
  /\ confFile \in [Services -> Contents]
  /\ unitFile \in [Services -> Definitions]
  /\ loaded \in [Services -> Definitions]
  /\ state \in [Services -> {"inactive", "active", "restarting"}]
  /\ runs \in [Services -> Process]
  /\ faults \in 0..MaxFaults
  /\ events \in 0..MaxEvents

\* A host without the services, and an agent that has nothing to do yet.
Init ==
  /\ doing \in Services /\ pc = "idle" /\ changed = NoChange
  /\ wanted \in Configs
  /\ confFile = [s \in Services |-> "none"]
  /\ unitFile = [s \in Services |-> "none"]
  /\ loaded = [s \in Services |-> "none"]
  /\ state = [s \in Services |-> "inactive"]
  /\ runs = [s \in Services |-> NoProcess]
  /\ faults = 0 /\ events = 0

-----------------------------------------------------------------------------
(* systemd. A definition that is not in memory is read from its file when  *)
(* the unit is referred to; one that is there is not read again before a   *)
(* daemon reload.                                                          *)

Definition(s) == IF loaded[s] = "none" THEN unitFile[s] ELSE loaded[s]

\* GetUnitStatus: a unit whose definition was not found is no unit.
Found(s) == Definition(s) # "none"

\* Does a job to start s find something to run?
Startable(s) == Definition(s) \in Configs

\* The processes a start job of s brings up: its own, anew if it is to be
\* restarted, and those it wants, unless they are active.
Launched(s, anew) ==
  {t \in {s} \union Wants(s) : Startable(t) /\ (state[t] # "active" \/ (t = s /\ anew))}

Launch(s, anew) ==
  LET up == Launched(s, anew) IN
    /\ state' = [t \in Services |-> IF t \in up THEN "active" ELSE state[t]]
    /\ runs' = [t \in Services |-> IF t \in up
                  THEN [unit |-> Definition(t), conf |-> confFile[t]] ELSE runs[t]]
    /\ loaded' = [t \in Services |-> IF t \in up THEN Definition(t) ELSE loaded[t]]

\* A daemon reload reads the file of every unit in memory.
ReloadAll ==
  loaded' = [s \in Services |-> IF loaded[s] = "none" THEN "none" ELSE unitFile[s]]

Stop(s) ==
  /\ state' = [state EXCEPT ![s] = "inactive"]
  /\ runs' = [runs EXCEPT ![s] = NoProcess]

-----------------------------------------------------------------------------
(* How the calls of an action end.                                         *)

Succeeds == UNCHANGED faults
Fails == faults < MaxFaults /\ faults' = faults + 1

\* The next call; an action that returns an error leaves the agent idle.
Goto(label) == pc' = label /\ UNCHANGED <<doing, changed>>
GivesUp == pc' = "idle" /\ changed' = NoChange /\ UNCHANGED doing

\* The call to systemd at label `from` does `effect` and leads to `next`; one
\* that fails may have done it, and ends the action.
Call(from, effect, nothing, next) ==
  /\ pc = from
  /\ \/ Succeeds /\ effect /\ Goto(next)
     \/ Fails /\ (effect \/ nothing) /\ GivesUp

Begin(s, label) ==
  /\ pc \in RestPCs
  /\ doing' = s /\ pc' = label /\ changed' = NoChange
  /\ UNCHANGED <<wanted, files, systemd, faults, events>>

-----------------------------------------------------------------------------
(* Start.                                                                  *)

\* MUTANT of BeginStart: the node problem detector is started like the others.
BeginStartAlike(s) == Begin(s, "conf")

BeginStart(s) == Begin(s, IF s \in Ensured THEN "conf" ELSE "unit")

\* Files are written only if what they hold is not what is wanted.
ConfDiffers == confFile[doing] # wanted
UnitDiffers == unitFile[doing] # wanted

\* ensureKubeletConfig, ensureContainerdConfig: a check before them, one of the
\* writes or something after the last of them may fail.
EnsureConfig ==
  /\ pc = "conf"
  /\ \/ /\ Succeeds
        /\ confFile' = [confFile EXCEPT ![doing] = wanted]
        /\ changed' = [changed EXCEPT !.conf = ConfDiffers]
        /\ pc' = "unit" /\ UNCHANGED doing
     \/ /\ Fails /\ GivesUp
        /\ confFile' \in {confFile, [confFile EXCEPT ![doing] = wanted]}
  /\ UNCHANGED <<wanted, unitFile, systemd, events>>

\* MUTANT of AfterUnitFile: a changed unit is restarted without a reload.
AfterUnitFileNoReload == IF doing \notin Ensured THEN "npdStatus" ELSE "status"

\* EnsureUnitRunning reloads the daemon if the unit file was changed.
AfterUnitFile ==
  IF doing \notin Ensured THEN "npdStatus"
  ELSE IF UnitDiffers THEN "reload" ELSE "status"

\* EnsureUnitFile and EnsureDropInFile; ensureServiceFile of the node problem
\* detector. An atomic rename replaces the link of a masked unit as well.
EnsureUnitFile ==
  /\ pc = "unit"
  /\ \/ /\ Succeeds
        /\ unitFile' = [unitFile EXCEPT ![doing] = wanted]
        /\ changed' = [changed EXCEPT !.unit = UnitDiffers]
        /\ pc' = AfterUnitFile /\ UNCHANGED doing
     \/ /\ Fails /\ GivesUp
        /\ unitFile' \in {unitFile, [unitFile EXCEPT ![doing] = wanted]}
  /\ UNCHANGED <<wanted, confFile, systemd, events>>

DaemonReload ==
  /\ Call("reload", ReloadAll, UNCHANGED loaded, "status")
  /\ UNCHANGED <<wanted, files, state, runs, events>>

\* MUTANT of EnsureStatus: like the node problem detector, starts only a unit
\* that does not exist.
EnsureStatusExists ==
  /\ pc = "status"
  /\ loaded' = [loaded EXCEPT ![doing] = Definition(doing)]
  /\ \/ /\ Succeeds
        /\ Goto(IF ~Found(doing) THEN "start"
                ELSE IF changed.conf \/ changed.unit THEN "restart" ELSE "applied")
     \/ Fails /\ GivesUp
  /\ UNCHANGED <<wanted, files, state, runs, events>>

\* GetUnitStatus loads the unit. A unit that is not active (or not found) is
\* started; an active one is restarted if something changed.
EnsureStatus ==
  /\ pc = "status"
  /\ loaded' = [loaded EXCEPT ![doing] = Definition(doing)]
  /\ \/ /\ Succeeds
        /\ Goto(IF state[doing] # "active" THEN "start"
                ELSE IF changed.conf \/ changed.unit THEN "restart" ELSE "applied")
     \/ Fails /\ GivesUp
  /\ UNCHANGED <<wanted, files, state, runs, events>>

\* The agent waits for the job to start or restart the unit: that of a unit
\* that has no definition is refused.
Job(from, anew) ==
  /\ IF Startable(doing)
     THEN Call(from, Launch(doing, anew), UNCHANGED systemd, "applied")
     ELSE pc = from /\ GivesUp /\ UNCHANGED <<systemd, faults>>
  /\ UNCHANGED <<wanted, files, events>>

StartUnit == Job("start", FALSE)

\* ReloadOrRestartUnit: none of the units has ExecReload=.
RestartUnit == Job("restart", TRUE)

\* The node problem detector: only a unit that systemd does not find is
\* started; one that it finds is restarted if its file changed, never reloaded.
\* A systemd that remembers a missing unit does not find a new file.
NPDStatus ==
  /\ pc = "npdStatus"
  /\ \/ /\ Succeeds
        /\ loaded' = [loaded EXCEPT ![doing] = Definition(doing)]
        /\ Goto(IF changed.unit THEN "restart" ELSE "applied")
     \/ /\ Succeeds
        /\ loaded[doing] = "none"
        /\ Goto("npdReload")
        /\ UNCHANGED loaded
     \/ Fails /\ GivesUp /\ UNCHANGED loaded
  /\ UNCHANGED <<wanted, files, state, runs, events>>

NPDReload ==
  /\ Call("npdReload", ReloadAll, UNCHANGED loaded, "start")
  /\ UNCHANGED <<wanted, files, state, runs, events>>

-----------------------------------------------------------------------------
(* Stop and reset: both stop a unit only if it is active.                  *)

BeginStop(s) == s = "kubelet" /\ Begin(s, "stopStatus")

\* EnsureUnitStoppedAndDisabled; a unit that does not exist is stopped.
StopStatus ==
  /\ pc = "stopStatus"
  /\ loaded' = [loaded EXCEPT ![doing] = Definition(doing)]
  /\ \/ /\ Succeeds
        /\ Goto(IF ~Found(doing) THEN "done"
                   ELSE IF state[doing] = "active" THEN "stopUnit" ELSE "disable")
     \/ Fails /\ GivesUp
  /\ UNCHANGED <<wanted, files, state, runs, events>>

StopUnit ==
  /\ Call("stopUnit", Stop(doing), UNCHANGED <<state, runs>>, "disable")
  /\ UNCHANGED <<wanted, files, loaded, events>>

\* No unit of these is ever enabled.
DisableUnit ==
  /\ Call("disable", TRUE, TRUE, "done")
  /\ UNCHANGED <<wanted, files, systemd, events>>

BeginReset(s) == s \in Ensured /\ Begin(s, "maskStatus")

MaskStatus ==
  /\ pc = "maskStatus"
  /\ loaded' = [loaded EXCEPT ![doing] = Definition(doing)]
  /\ \/ /\ Succeeds
        /\ Goto(IF ~Found(doing) THEN "clean"
                ELSE IF state[doing] = "active" THEN "maskStop" ELSE "maskDisable")
     \/ Fails /\ GivesUp
  /\ UNCHANGED <<wanted, files, state, runs, events>>

MaskStop ==
  /\ Call("maskStop", Stop(doing), UNCHANGED <<state, runs>>, "maskDisable")
  /\ UNCHANGED <<wanted, files, loaded, events>>

\* After the unit is disabled its file and drop-ins are removed.
MaskDisable ==
  /\ pc = "maskDisable"
  /\ \/ /\ Succeeds
        /\ unitFile' = [unitFile EXCEPT ![doing] = "none"]
        /\ Goto("mask")
     \/ /\ Fails /\ GivesUp
        /\ unitFile' \in {unitFile, [unitFile EXCEPT ![doing] = "none"]}
  /\ UNCHANGED <<wanted, confFile, systemd, events>>

\* MaskUnit does not reload the daemon: what is in memory stays.
MaskUnit ==
  /\ Call("mask", unitFile' = [unitFile EXCEPT ![doing] = "masked"],
          UNCHANGED unitFile, "clean")
  /\ UNCHANGED <<wanted, confFile, systemd, events>>

\* Unmount below the kubelet's root, then remove the directories.
Clean ==
  /\ Call("clean", confFile' = [confFile EXCEPT ![doing] = "none"],
          UNCHANGED confFile, "done")
  /\ UNCHANGED <<wanted, unitFile, systemd, events>>

-----------------------------------------------------------------------------
(* What happens to the services and the agent.                             *)

Event == events < MaxEvents /\ events' = events + 1

\* A process dies, for good or until systemd restarts it.
Dies(s) ==
  /\ state[s] = "active"
  /\ Event
  /\ state' \in {[state EXCEPT ![s] = "inactive"], [state EXCEPT ![s] = "restarting"]}
  /\ runs' = [runs EXCEPT ![s] = NoProcess]
  /\ UNCHANGED <<doing, pc, changed, wanted, files, loaded, faults>>

\* Restart=always, after RestartSec; it fails for good without a definition.
Restarts(s) ==
  /\ state[s] = "restarting"
  /\ IF Startable(s)
     THEN Launch(s, FALSE)
     ELSE state' = [state EXCEPT ![s] = "inactive"] /\ UNCHANGED <<loaded, runs>>
  /\ UNCHANGED <<doing, pc, changed, wanted, files, faults, events>>

\* systemd drops a unit that is inactive and that nothing refers to.
Forgets(s) ==
  /\ state[s] = "inactive" /\ loaded[s] # "none"
  /\ loaded' = [loaded EXCEPT ![s] = "none"]
  /\ UNCHANGED <<doing, pc, changed, wanted, files, state, runs, faults, events>>

\* Somebody else on the host reloads the daemon.
OthersReload ==
  /\ ReloadAll
  /\ UNCHANGED <<doing, pc, changed, wanted, files, state, runs, faults, events>>

\* The agent is killed, or restarted with another configuration.
AgentRestarts ==
  /\ Event
  /\ GivesUp
  /\ wanted' \in Configs
  /\ UNCHANGED <<files, systemd, faults>>

\* No service is enabled, so none is started at boot.
Reboot ==
  /\ Event
  /\ GivesUp
  /\ loaded' = [s \in Services |-> "none"]
  /\ state' = [s \in Services |-> "inactive"]
  /\ runs' = [s \in Services |-> NoProcess]
  /\ UNCHANGED <<wanted, files, faults>>

-----------------------------------------------------------------------------
Start ==
  \/ EnsureConfig \/ EnsureUnitFile \/ DaemonReload \/ EnsureStatus
  \/ StartUnit \/ RestartUnit \/ NPDStatus \/ NPDReload

StopOrReset ==
  \/ StopStatus \/ StopUnit \/ DisableUnit
  \/ MaskStatus \/ MaskStop \/ MaskDisable \/ MaskUnit \/ Clean

Begins == \E s \in Services : BeginStart(s) \/ BeginStop(s) \/ BeginReset(s)

Environment ==
  \/ \E s \in Services : Dies(s) \/ Restarts(s) \/ Forgets(s)
  \/ OthersReload \/ AgentRestarts \/ Reboot

Next == Begins \/ Start \/ StopOrReset \/ Environment

Spec == Init /\ [][Next]_vars

(***************************************************************************)
(* An action that has begun goes on. The health check keeps bootstrapping  *)
(* a node whose kubelet is down: strong fairness of the kubelet's start    *)
(* then. A containerd that is down beside a running kubelet is started by  *)
(* nobody. Nothing is assumed of systemd.                                  *)
(***************************************************************************)
KubeletStarts ==
  /\ "kubelet" \in Services
  /\ state["kubelet"] # "active"
  /\ BeginStart("kubelet")

Fairness == WF_vars(Start \/ StopOrReset) /\ SF_vars(KubeletStarts)

FairSpec == Spec /\ Fairness

-----------------------------------------------------------------------------
\* "if kubelet config is updated, we need to restart the service to pick up the
\* new config" (service.go:69): a start that changed a file and succeeds leaves
\* the process, if it still lives, running what the file says, although systemd
\* may have restarted it at any moment in between.
ChangeTakesEffect ==
  pc = "applied" /\ doing \in Ensured /\ state[doing] = "active" =>
    /\ changed.conf => runs[doing].conf = wanted
    /\ changed.unit => runs[doing] = [unit |-> wanted, conf |-> wanted]

\* Whatever half-finished action came before, once services are only started
\* again, nothing fails any more and systemd remembers no mask, the kubelet ends
\* up active, and so does containerd if it is started again and again, which the
\* agent does not do by itself beside a running kubelet. (A remembered mask may outlive its file: a start that wrote the unit
\* file and died before the reload leaves the next one nothing to reload for.)
StartsSettle ==
  <>[](/\ pc \notin StopPCs \union ResetPCs
       /\ \A s \in Services : loaded[s] # "masked")
    => \A s \in Ensured :
         s = "kubelet" \/ []<><<BeginStart(s)>>_vars => <>[](state[s] = "active")

\* "the implementation can check whether the state is already met and skip
\* redundant work. Applying the same action twice is safe"
\* (docs/components-api.md:36): a start that succeeds leaves the service, if it
\* lives, running what the action describes, whether or not a first attempt
\* failed. The code restarts only for what this attempt changed.
AppliedIsRunning ==
  pc = "applied" /\ doing \in Ensured /\ state[doing] = "active" =>
    runs[doing] = [unit |-> wanted, conf |-> wanted]
===============================================================================
