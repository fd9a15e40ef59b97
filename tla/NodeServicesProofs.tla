--------------------------- MODULE NodeServicesProofs ---------------------------
(***************************************************************************)
(* TLAPS proofs about NodeServices: types, and that a start that changed   *)
(* something takes effect, for any services, configurations and bounds.    *)
(***************************************************************************)
EXTENDS NodeServices, TLAPS

\* The calls of a start that follow the writing of the files.
Written == {"reload", "status", "start", "restart", "applied"}

\* The action's files have the content it renders until another action begins.
FilesFresh ==
  doing \in Ensured =>
    /\ pc \in Written \union {"unit"} => confFile[doing] = wanted
    /\ pc \in Written => unitFile[doing] = wanted

\* From the reload on, whoever starts a unit whose file was changed starts the
\* new definition.
DefinitionFresh ==
  doing \in Ensured /\ pc \in Written \ {"reload"} /\ changed.unit =>
    Definition(doing) = wanted

\* A process that lives at the call that starts it, or after the action, was
\* launched from what was changed: by the action or by systemd.
ProcessFresh ==
  doing \in Ensured /\ pc \in {"start", "applied"} /\ state[doing] = "active" =>
    /\ changed.conf => runs[doing].conf = wanted
    /\ changed.unit => runs[doing] = [unit |-> wanted, conf |-> wanted]

FreshInv == FilesFresh /\ DefinitionFresh /\ ProcessFresh

-----------------------------------------------------------------------------
(* Lemmas on how calls end and on the operators of systemd.                *)

\* The values of the functions are distinct kinds of things.
LEMMA Values ==
  /\ Configs \subseteq Contents /\ Configs \subseteq Definitions /\ Contents \subseteq Definitions
  /\ "none" \in Contents /\ "masked" \in Definitions
  /\ "none" \notin Configs /\ "masked" \notin Configs
  /\ NoProcess \in Process /\ NoChange \in [conf : BOOLEAN, unit : BOOLEAN]
BY ConfigsAssumption DEF Contents, Definitions, NoProcess, Process, NoChange

\* What systemd takes for a definition is one.
LEMMA DefinitionType ==
  ASSUME TypeOK, NEW s \in Services
  PROVE  Definition(s) \in Definitions
BY DEF TypeOK, Definition

\* The counter of faults stays within its bound, however a call ends.
LEMMA Counting ==
  ASSUME TypeOK, Succeeds \/ Fails
  PROVE  faults' \in 0..MaxFaults
BY BoundsAssumption DEF TypeOK, Succeeds, Fails

\* The bound on events is kept.
LEMMA CountingEvents ==
  ASSUME TypeOK, Event
  PROVE  events' \in 0..MaxEvents
BY BoundsAssumption DEF TypeOK, Event

\* A start job keeps systemd's variables typed.
LEMMA LaunchType ==
  ASSUME TypeOK, NEW s \in Services, NEW anew \in BOOLEAN, Launch(s, anew)
  PROVE  /\ loaded' \in [Services -> Definitions]
         /\ state' \in [Services -> {"inactive", "active", "restarting"}]
         /\ runs' \in [Services -> Process]
<1>1. \A t \in Launched(s, anew) : Definition(t) \in Configs
  BY DEF Launched, Startable
<1>2. \A t \in Services : Definition(t) \in Definitions
  BY DefinitionType
<1>3. \A t \in Launched(s, anew) \intersect Services :
        [unit |-> Definition(t), conf |-> confFile[t]] \in Process
  BY <1>1, Values DEF TypeOK, Process
<1>q. QED
  BY <1>2, <1>3 DEF Launch, TypeOK

\* A daemon reload keeps the definitions typed.
LEMMA ReloadType ==
  ASSUME TypeOK, ReloadAll
  PROVE  loaded' \in [Services -> Definitions]
BY Values DEF TypeOK, ReloadAll

\* Looking at a unit loads a definition.
LEMMA LookType ==
  ASSUME TypeOK, loaded' = [loaded EXCEPT ![doing] = Definition(doing)]
  PROVE  loaded' \in [Services -> Definitions]
BY DefinitionType DEF TypeOK

\* A stopped service has no process.
LEMMA StopType ==
  ASSUME TypeOK, NEW s \in Services, Stop(s)
  PROVE  /\ state' \in [Services -> {"inactive", "active", "restarting"}]
         /\ runs' \in [Services -> Process]
BY Values DEF TypeOK, Stop

-----------------------------------------------------------------------------
(* Types.                                                                  *)

\* Labels an action of every service, or of one kind of service, can be at.
Labels == RestPCs \union StartPCs \union StopPCs \union ResetPCs

ControlOK ==
  /\ doing \in Services
  /\ pc \in Labels
  /\ pc \in (StartPCs \ {"unit", "npdStatus", "npdReload", "start", "restart"})
            \union StopPCs \union ResetPCs => doing \in Ensured
  /\ pc \in {"npdStatus", "npdReload"} => doing \notin Ensured
  /\ changed \in [conf : BOOLEAN, unit : BOOLEAN]

\* An action that ends leaves the control typed.
LEMMA GivesUpType ==
  ASSUME TypeOK, GivesUp
  PROVE  ControlOK'
BY Values DEF TypeOK, GivesUp, ControlOK, Labels, RestPCs, StartPCs, StopPCs, ResetPCs

\* So does one that goes on to a label for its service.
LEMMA GotoType ==
  ASSUME TypeOK, NEW l \in Labels, Goto(l),
         l \in {"reload", "status", "conf"} \union StopPCs \union ResetPCs => doing \in Ensured,
         l \in {"npdStatus", "npdReload"} => doing \notin Ensured
  PROVE  ControlOK'
BY DEF TypeOK, Goto, ControlOK, Labels, RestPCs, StartPCs, StopPCs, ResetPCs

\* The beginning of each kind of action.
LEMMA BeginsType ==
  ASSUME TypeOK, Begins
  PROVE  TypeOK'
<1>1. PICK s \in Services : BeginStart(s) \/ BeginStop(s) \/ BeginReset(s)
  BY DEF Begins
<1>q. QED
  BY <1>1, Values
  DEF TypeOK, Begin, BeginStart, BeginStop, BeginReset, Ensured, files, systemd,
      RestPCs, StartPCs, StopPCs, ResetPCs

\* Every call of a start keeps the types.
LEMMA StartType ==
  ASSUME TypeOK, Start
  PROVE  TypeOK'
<1> USE DEF RestPCs, StartPCs, StopPCs, ResetPCs, Labels, files, systemd
<1>0. ASSUME Succeeds \/ Fails PROVE faults' \in 0..MaxFaults
  BY <1>0, Counting
<1>1. CASE EnsureConfig
  <2>1. ControlOK'
    BY <1>1, GivesUpType DEF EnsureConfig, ConfDiffers, TypeOK, ControlOK
  <2>2. confFile' \in [Services -> Contents]
    BY <1>1, Values DEF EnsureConfig, ConfDiffers, TypeOK
  <2>q. QED
    BY <1>0, <1>1, <2>1, <2>2 DEF EnsureConfig, ConfDiffers, TypeOK, ControlOK
<1>2. CASE EnsureUnitFile
  <2>1. ControlOK'
    BY <1>2, GivesUpType DEF EnsureUnitFile, UnitDiffers, AfterUnitFile, TypeOK, ControlOK
  <2>2. unitFile' \in [Services -> Definitions]
    BY <1>2, Values DEF EnsureUnitFile, UnitDiffers, TypeOK
  <2>q. QED
    BY <1>0, <1>2, <2>1, <2>2 DEF EnsureUnitFile, UnitDiffers, TypeOK, ControlOK
<1>3. CASE DaemonReload
  <2>1. ControlOK'
    BY <1>3, GivesUpType, GotoType DEF DaemonReload, Call, TypeOK
  <2>2. loaded' \in [Services -> Definitions]
    BY <1>3, ReloadType DEF DaemonReload, Call, TypeOK
  <2>q. QED
    BY <1>0, <1>3, <2>1, <2>2 DEF DaemonReload, Call, TypeOK, ControlOK
<1>4. CASE EnsureStatus
  <2>1. ControlOK'
    BY <1>4, GivesUpType, GotoType DEF EnsureStatus, TypeOK
  <2>2. loaded' \in [Services -> Definitions]
    BY <1>4, LookType DEF EnsureStatus
  <2>q. QED
    BY <1>0, <1>4, <2>1, <2>2 DEF EnsureStatus, TypeOK, ControlOK
<1>5. ASSUME NEW from \in Labels, NEW anew \in BOOLEAN, Job(from, anew)
      PROVE  TypeOK'
  <2>1. ControlOK'
    BY <1>5, GivesUpType, GotoType DEF Job, Call
  <2>2. doing \in Services
    BY DEF TypeOK
  <2>3. \/ Launch(doing, anew)
        \/ UNCHANGED <<loaded, state, runs>>
    BY <1>5 DEF Job, Call
  <2>4. /\ loaded' \in [Services -> Definitions]
        /\ state' \in [Services -> {"inactive", "active", "restarting"}]
        /\ runs' \in [Services -> Process]
    BY <2>2, <2>3, LaunchType DEF TypeOK
  <2>q. QED
    BY <1>0, <1>5, <2>1, <2>4 DEF Job, Call, TypeOK, ControlOK
<1>6. CASE NPDStatus
  <2>1. ControlOK'
    BY <1>6, GivesUpType, GotoType DEF NPDStatus, TypeOK
  <2>2. loaded' \in [Services -> Definitions]
    BY <1>6, LookType DEF NPDStatus, TypeOK
  <2>q. QED
    BY <1>0, <1>6, <2>1, <2>2 DEF NPDStatus, TypeOK, ControlOK
<1>7. CASE NPDReload
  <2>1. ControlOK'
    BY <1>7, GivesUpType, GotoType DEF NPDReload, Call, TypeOK
  <2>2. loaded' \in [Services -> Definitions]
    BY <1>7, ReloadType DEF NPDReload, Call, TypeOK
  <2>q. QED
    BY <1>0, <1>7, <2>1, <2>2 DEF NPDReload, Call, TypeOK, ControlOK
<1>q. QED
  BY <1>1, <1>2, <1>3, <1>4, <1>5, <1>6, <1>7 DEF Start, StartUnit, RestartUnit

\* So does every call of a stop or a reset.
LEMMA StopOrResetType ==
  ASSUME TypeOK, StopOrReset
  PROVE  TypeOK'
<1> USE DEF RestPCs, StartPCs, StopPCs, ResetPCs, Labels, files, systemd
<1>0. ASSUME Succeeds \/ Fails PROVE faults' \in 0..MaxFaults
  BY <1>0, Counting
<1>1. CASE StopStatus \/ MaskStatus
  <2>1. ControlOK'
    BY <1>1, GivesUpType, GotoType DEF StopStatus, MaskStatus, TypeOK
  <2>2. loaded' \in [Services -> Definitions]
    BY <1>1, LookType DEF StopStatus, MaskStatus
  <2>q. QED
    BY <1>0, <1>1, <2>1, <2>2 DEF StopStatus, MaskStatus, TypeOK, ControlOK
<1>2. CASE StopUnit \/ MaskStop
  <2>1. ControlOK'
    BY <1>2, GivesUpType, GotoType DEF StopUnit, MaskStop, Call, TypeOK
  <2>2. /\ state' \in [Services -> {"inactive", "active", "restarting"}]
        /\ runs' \in [Services -> Process]
    BY <1>2, StopType DEF StopUnit, MaskStop, Call, TypeOK
  <2>q. QED
    BY <1>0, <1>2, <2>1, <2>2 DEF StopUnit, MaskStop, Call, TypeOK, ControlOK
<1>3. CASE DisableUnit
  <2>1. ControlOK'
    BY <1>3, GivesUpType, GotoType DEF DisableUnit, Call
  <2>q. QED
    BY <1>0, <1>3, <2>1 DEF DisableUnit, Call, TypeOK, ControlOK
<1>4. CASE MaskDisable \/ MaskUnit
  <2>1. ControlOK'
    BY <1>4, GivesUpType, GotoType DEF MaskDisable, MaskUnit, Call, TypeOK
  <2>2. unitFile' \in [Services -> Definitions]
    BY <1>4, Values DEF MaskDisable, MaskUnit, Call, TypeOK
  <2>q. QED
    BY <1>0, <1>4, <2>1, <2>2 DEF MaskDisable, MaskUnit, Call, TypeOK, ControlOK
<1>5. CASE Clean
  <2>1. ControlOK'
    BY <1>5, GivesUpType, GotoType DEF Clean, Call
  <2>2. confFile' \in [Services -> Contents]
    BY <1>5, Values DEF Clean, Call, TypeOK
  <2>q. QED
    BY <1>0, <1>5, <2>1, <2>2 DEF Clean, Call, TypeOK, ControlOK
<1>q. QED
  BY <1>1, <1>2, <1>3, <1>4, <1>5 DEF StopOrReset

\* So does whatever happens to the services and the agent.
LEMMA EnvironmentType ==
  ASSUME TypeOK, Environment
  PROVE  TypeOK'
<1> USE DEF files, systemd
<1>1. ASSUME NEW s \in Services, Dies(s)
      PROVE  TypeOK'
  BY <1>1, Values, CountingEvents DEF Dies, TypeOK
<1>2. ASSUME NEW s \in Services, Restarts(s)
      PROVE  TypeOK'
  BY <1>2, LaunchType DEF Restarts, TypeOK
<1>3. ASSUME NEW s \in Services, Forgets(s)
      PROVE  TypeOK'
  BY <1>3, Values DEF Forgets, TypeOK
<1>4. CASE OthersReload
  BY <1>4, ReloadType DEF OthersReload, TypeOK
<1>5. CASE AgentRestarts
  BY <1>5, GivesUpType, CountingEvents DEF AgentRestarts, TypeOK, ControlOK, Labels
<1>6. CASE Reboot
  BY <1>6, GivesUpType, CountingEvents, Values DEF Reboot, TypeOK, ControlOK, Labels
<1>q. QED
  BY <1>1, <1>2, <1>3, <1>4, <1>5, <1>6 DEF Environment

\* Every variable keeps its type (the variables of NodeServices).
THEOREM ServicesTyped == Spec => []TypeOK
<1>1. Init => TypeOK
  BY Values, BoundsAssumption DEF Init, TypeOK, RestPCs, StartPCs, StopPCs, ResetPCs
<1>2. TypeOK /\ [Next]_vars => TypeOK'
  <2> SUFFICES ASSUME TypeOK, [Next]_vars PROVE TypeOK'
    OBVIOUS
  <2>1. CASE UNCHANGED vars
    BY <2>1 DEF vars, files, systemd, TypeOK
  <2>q. QED
    BY <2>1, BeginsType, StartType, StopOrResetType, EnvironmentType DEF Next
<1>q. QED
  BY <1>1, <1>2, PTL DEF Spec

-----------------------------------------------------------------------------
(* A change takes effect.                                                  *)

\* Where no action is under way nothing is promised.
LEMMA RestFresh ==
  ASSUME pc' \notin Written \union {"unit"}
  PROVE  FreshInv'
BY DEF FreshInv, FilesFresh, DefinitionFresh, ProcessFresh, Written

\* An action that ends early promises nothing.
LEMMA GivesUpFresh ==
  ASSUME GivesUp
  PROVE  FreshInv'
BY RestFresh DEF GivesUp, Written

\* A reload by somebody else only makes systemd's definitions newer.
LEMMA ReloadFresh ==
  ASSUME TypeOK, FreshInv, ReloadAll, UNCHANGED <<doing, pc, changed, wanted, files, state, runs>>
  PROVE  FreshInv'
BY ConfigsAssumption
DEF TypeOK, FreshInv, FilesFresh, DefinitionFresh, ProcessFresh, Definition, ReloadAll,
    Written, files

\* What is launched while an action waits is launched from its files.
LEMMA LaunchFresh ==
  ASSUME TypeOK, FreshInv, NEW s \in Services, Launch(s, TRUE) \/ Launch(s, FALSE),
         pc' # pc => /\ pc' = "applied" /\ pc \in {"start", "restart"} /\ s = doing
                     /\ pc = "restart" => Startable(s) /\ Launch(s, TRUE),
         UNCHANGED <<doing, changed, wanted, files>>
  PROVE  FreshInv'
<1> USE DEF Written
<1>1. FilesFresh'
  BY DEF FreshInv, FilesFresh, files
<1>2. DefinitionFresh'
  BY ConfigsAssumption
  DEF TypeOK, FreshInv, DefinitionFresh, Definition, Launch, Launched, Startable, files
<1>3. ProcessFresh'
  <2> SUFFICES ASSUME doing \in Ensured, pc' \in {"start", "applied"}, state'[doing] = "active"
               PROVE  /\ changed.conf => runs'[doing].conf = wanted
                      /\ changed.unit => runs'[doing] = [unit |-> wanted, conf |-> wanted]
    BY DEF ProcessFresh
  <2>1. confFile[doing] = wanted /\ (changed.unit => Definition(doing) = wanted)
    BY DEF FreshInv, FilesFresh, DefinitionFresh
  <2>2. PICK up \in {Launched(s, TRUE), Launched(s, FALSE)} :
          /\ doing \in up \/ state[doing] = "active"
          /\ pc = "restart" => doing \in up
          /\ runs' = [t \in Services |-> IF t \in up
                THEN [unit |-> Definition(t), conf |-> confFile[t]] ELSE runs[t]]
    BY DEF Launch, Launched, TypeOK
  <2>3. CASE doing \in up
    BY <2>1, <2>2, <2>3 DEF TypeOK
  <2>4. CASE doing \notin up
    BY <2>2, <2>4 DEF FreshInv, ProcessFresh, TypeOK
  <2>q. QED
    BY <2>3, <2>4
<1>q. QED
  BY <1>1, <1>2, <1>3 DEF FreshInv

\* Every call of a start keeps the invariant.
LEMMA StartFresh ==
  ASSUME TypeOK, FreshInv, Start
  PROVE  FreshInv'
<1> USE DEF Written, Goto, files, systemd
<1>1. CASE EnsureConfig
  BY <1>1, GivesUpFresh
  DEF EnsureConfig, ConfDiffers, TypeOK, FreshInv, FilesFresh, DefinitionFresh, ProcessFresh
<1>2. CASE EnsureUnitFile
  <2>1. CASE GivesUp
    BY <2>1, GivesUpFresh
  <2>2. CASE ~GivesUp
    <3>1. /\ unitFile' = [unitFile EXCEPT ![doing] = wanted] /\ pc = "unit"
          /\ changed' = [changed EXCEPT !.unit = unitFile[doing] # wanted]
          /\ pc' = AfterUnitFile /\ UNCHANGED <<doing, wanted, confFile, loaded, state, runs>>
      BY <1>2, <2>2 DEF EnsureUnitFile, UnitDiffers
    <3>2. doing \in Ensured /\ pc' = "status" => ~changed'.unit
      BY <3>1 DEF AfterUnitFile, UnitDiffers, TypeOK
    <3>q. QED
      BY <3>1, <3>2
      DEF AfterUnitFile, UnitDiffers, TypeOK, FreshInv, FilesFresh, DefinitionFresh, ProcessFresh
  <2>q. QED
    BY <2>1, <2>2
<1>3. CASE DaemonReload
  BY <1>3, GivesUpFresh, ConfigsAssumption
  DEF DaemonReload, Call, ReloadAll, Definition, TypeOK, FreshInv, FilesFresh,
      DefinitionFresh, ProcessFresh
<1>4. CASE EnsureStatus
  <2>1. CASE GivesUp
    BY <2>1, GivesUpFresh
  <2>2. CASE ~GivesUp
    BY <1>4, <2>2
    DEF EnsureStatus, Definition, TypeOK, FreshInv, FilesFresh, DefinitionFresh, ProcessFresh
  <2>q. QED
    BY <2>1, <2>2
<1>5. CASE StartUnit
  BY <1>5, GivesUpFresh, LaunchFresh DEF StartUnit, Job, Call, TypeOK
<1>6. CASE RestartUnit
  BY <1>6, GivesUpFresh, LaunchFresh DEF RestartUnit, Job, Call, TypeOK
<1>7. CASE NPDStatus \/ NPDReload
  BY <1>7, GivesUpFresh
  DEF NPDStatus, NPDReload, Call, TypeOK, FreshInv, FilesFresh, DefinitionFresh, ProcessFresh
<1>q. QED
  BY <1>1, <1>2, <1>3, <1>4, <1>5, <1>6, <1>7 DEF Start

\* A stop or a reset promises nothing.
LEMMA StopOrResetFresh ==
  ASSUME TypeOK, StopOrReset
  PROVE  FreshInv'
BY RestFresh, GivesUpFresh
DEF StopOrReset, StopStatus, StopUnit, DisableUnit, MaskStatus, MaskStop, MaskDisable,
    MaskUnit, Clean, Call, Goto, Written

\* Deaths, restarts and reboots keep the invariant.
LEMMA EnvironmentFresh ==
  ASSUME TypeOK, FreshInv, Environment
  PROVE  FreshInv'
<1> USE DEF files, systemd
<1>1. ASSUME NEW s \in Services, Dies(s)
      PROVE  FreshInv'
  BY <1>1
  DEF Dies, TypeOK, Definition, FreshInv, FilesFresh, DefinitionFresh, ProcessFresh
<1>2. ASSUME NEW s \in Services, Restarts(s)
      PROVE  FreshInv'
  <2>1. CASE Launch(s, FALSE)
    <3>1. pc' = pc
      BY <1>2 DEF Restarts
    <3>2. UNCHANGED <<doing, changed, wanted, files>>
      BY <1>2 DEF Restarts
    <3>q. QED
      BY <2>1, <3>1, <3>2, LaunchFresh
  <2>2. CASE ~Launch(s, FALSE)
    BY <1>2, <2>2
    DEF Restarts, TypeOK, Definition, FreshInv, FilesFresh, DefinitionFresh, ProcessFresh
  <2>q. QED
    BY <2>1, <2>2
<1>3. ASSUME NEW s \in Services, Forgets(s)
      PROVE  FreshInv'
  BY <1>3
  DEF Forgets, TypeOK, Definition, FreshInv, FilesFresh, DefinitionFresh, ProcessFresh, Written
<1>4. CASE OthersReload
  BY <1>4, ReloadFresh DEF OthersReload
<1>5. CASE AgentRestarts \/ Reboot
  BY <1>5, GivesUpFresh DEF AgentRestarts, Reboot
<1>q. QED
  BY <1>1, <1>2, <1>3, <1>4, <1>5 DEF Environment

\* A start that changed a file and succeeds leaves the process, if it lives,
\* running what the file says (property ChangeTakesEffect of NodeServices).
THEOREM ChangesApplied == Spec => []ChangeTakesEffect
<1>1. Init => FreshInv
  BY DEF Init, FreshInv, FilesFresh, DefinitionFresh, ProcessFresh, Written
<1>2. TypeOK /\ FreshInv /\ [Next]_vars => FreshInv'
  <2> SUFFICES ASSUME TypeOK, FreshInv, [Next]_vars PROVE FreshInv'
    OBVIOUS
  <2>1. CASE Begins
    BY <2>1
    DEF Begins, BeginStart, BeginStop, BeginReset, Begin, Ensured, FreshInv, FilesFresh,
        DefinitionFresh, ProcessFresh, Written
  <2>2. CASE UNCHANGED vars
    BY <2>2
    DEF vars, files, systemd, Definition, FreshInv, FilesFresh, DefinitionFresh, ProcessFresh
  <2>q. QED
    BY <2>1, <2>2, StartFresh, StopOrResetFresh, EnvironmentFresh DEF Next
<1>3. FreshInv => ChangeTakesEffect
  BY DEF FreshInv, ProcessFresh, ChangeTakesEffect
<1>q. QED
  BY <1>1, <1>2, <1>3, ServicesTyped, PTL DEF Spec

=================================================================================
