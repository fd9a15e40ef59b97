------------------------------ MODULE HostSetup -------------------------------
(***************************************************************************)
(* The steps that prepare the host: configure-os (packages, sysctls, swap, *)
(* DNS), disable-docker, configure-cni and configure-iptables. What they   *)
(* change is partly on disk, partly in the running kernel or in systemd,   *)
(* and a reboot brings the second back from the first.                     *)
(***************************************************************************)
EXTENDS StepProgram

CONSTANT Hosts  \* the hosts of the instance, as they were delivered

\* What configure-os looks for and has apt install, and what the kubelet's start
\* looks for.
RequiredPackages == {"iptables", "jq"}
RequiredBinaries == {"jq", "iptables", "ebtables"}

\* The packages of the distribution: that of iptables brings ebtables.
Brings(package) == IF package = "iptables" THEN {"iptables", "ebtables"} ELSE {package}

\* Which tools are installed? Does docker run? Is there swap?
AllHosts == [tools : SUBSET RequiredBinaries, docker : BOOLEAN, fstab : {"none", "swap"}]

\* A host with iptables has it from the distribution. On one without ebtables
\* nothing would install that, and its kubelet would never start.
ASSUME HostsAssumption ==
  /\ Hosts \subseteq AllHosts
  /\ \A h \in Hosts : "iptables" \in h.tools => Brings("iptables") \subseteq h.tools

VARIABLES
  host,     \* settings of the host that one call changes each, see HostSettings
  docker,   \* of each unit of docker: is it masked, enabled, and running?
  unit,     \* the unit of docker that is being masked
  slipped   \* history: docker was between two runs when it was disabled

hostVars == <<host, docker, unit, slipped>>

\* The files hold "swap" if swap is turned on at boot, "noswap" if those lines
\* are commented out, "none" if there is no file.
Fstab == {"none", "swap", "noswap"}

DockerUnits == {"socket", "service"}

HostPCs == {"osPackages", "osSysctl", "osSysctlApply", "osSwapoff", "osBackup", "osFstab",
            "osResolv", "osResolvReload", "osResolvStart",
            "dockerStatus", "dockerStop", "dockerDisable", "dockerMask", "dockerConfig",
            "cniConf", "ipRules", "ipUnit", "ipEnable", "ipEnableNew", "ipReload", "ipStart"}

HostSettings ==
  [tools : SUBSET RequiredBinaries,  \* on the PATH
   sysctlFile : BOOLEAN, sysctl : BOOLEAN,  \* on disk, in the kernel
   swap : BOOLEAN,            \* swap is in use
   fstab : Fstab, backup : Fstab,
   resolvUnit : BOOLEAN, resolv : BOOLEAN,  \* the unit, what it links
   cni : BOOLEAN,             \* the bridge configuration is there
   iptablesOff : BOOLEAN,     \* daemon.json forbids docker its rules
   rules : BOOLEAN,           \* docker's rules are in iptables
   clear : BOOLEAN, flushUnit : BOOLEAN, flushEnabled : BOOLEAN]

HostTypeOK ==
  /\ host \in HostSettings
  /\ docker \in [DockerUnits -> [found : BOOLEAN, masked : BOOLEAN, enabled : BOOLEAN,
                                 active : {"no", "yes", "restarting"}]]
  /\ unit \in DockerUnits \union {"none"}
  /\ slipped \in BOOLEAN

HostInit(delivered) ==
  /\ LET there == delivered.docker IN
       /\ host = [tools |-> delivered.tools, sysctlFile |-> FALSE, sysctl |-> FALSE,
                  swap |-> delivered.fstab = "swap", fstab |-> delivered.fstab,
                  backup |-> "none",
                  resolvUnit |-> FALSE, resolv |-> FALSE, cni |-> FALSE,
                  iptablesOff |-> FALSE, rules |-> there,
                  clear |-> FALSE, flushUnit |-> FALSE, flushEnabled |-> FALSE]
       /\ docker = [u \in DockerUnits |->
                      [found |-> there, masked |-> FALSE, enabled |-> there,
                       active |-> IF there THEN "yes" ELSE "no"]]
  /\ unit = "none" /\ slipped = FALSE

\* A call that changes one setting.
HostCall(from, field, value, next) ==
  /\ Call(from, host' = [host EXCEPT ![field] = value], UNCHANGED host, next)
  /\ UNCHANGED <<docker, unit, slipped>>

\* A test of the settings.
HostDecides(from, next) == Decide(from, next) /\ UNCHANGED hostVars

-----------------------------------------------------------------------------
(* configure-os.                                                           *)

PackagesToInstall == RequiredPackages \ host.tools

\* ensurePackages: apt installs what is missing.
OsPackages ==
  IF PackagesToInstall = {} THEN HostDecides("osPackages", "osSysctl")
  ELSE HostCall("osPackages", "tools",
                host.tools \union UNION {Brings(p) : p \in PackagesToInstall}, "osSysctl")

\* ensureSysctlConfig trusts a file that is there: "config is already applied".
OsSysctl ==
  IF host.sysctlFile THEN HostDecides("osSysctl", "osSwapoff")
  ELSE HostCall("osSysctl", "sysctlFile", TRUE, "osSysctlApply")

\* sysctl --system.
OsSysctlApply == HostCall("osSysctlApply", "sysctl", TRUE, "osSwapoff")

\* MUTANT of AfterSwapoff: the file is left alone if no swap was in use.
AfterSwapoffIfUsed == IF host.swap /\ host.fstab = "swap" THEN "osBackup" ELSE "osResolv"

\* commentOutSwapInFstab looks at the file whether or not swap was in use.
AfterSwapoff == IF host.fstab = "swap" THEN "osBackup" ELSE "osResolv"

OsSwapoff == HostCall("osSwapoff", "swap", FALSE, AfterSwapoff)

\* MUTANT of OsBackup: the backup is made of what was written.
OsBackupLate == HostCall("osBackup", "fstab", "noswap", "osFstab")

\* MUTANT of OsBackup: a backup that is there is not written over, which is an error.
OsBackupOnce ==
  IF host.backup = "none" THEN HostCall("osBackup", "backup", host.fstab, "osFstab")
  ELSE HostDecides("osBackup", "failed")

\* The original is saved before the change.
OsBackup == HostCall("osBackup", "backup", host.fstab, "osFstab")
OsFstab == HostCall("osFstab", "fstab", "noswap", "osResolv")

\* disableSystemdResolvedCache writes its unit, reloads the daemon if that is
\* new, and starts it: a oneshot unit is never found active.
OsResolv ==
  HostCall("osResolv", "resolvUnit", TRUE,
           IF host.resolvUnit THEN "osResolvStart" ELSE "osResolvReload")
OsResolvReload == HostCall("osResolvReload", "resolvUnit", TRUE, "osResolvStart")
OsResolvStart == HostCall("osResolvStart", "resolv", TRUE, "ok")

ConfigureBaseOS ==
  \/ OsPackages \/ OsSysctl \/ OsSysctlApply \/ OsSwapoff \/ OsBackup \/ OsFstab
  \/ OsResolv \/ OsResolvReload \/ OsResolvStart

-----------------------------------------------------------------------------
(* disable-docker: EnsureUnitMasked of the socket, then of the service.    *)

\* MUTANT of UnitOrder: the service is stopped and masked before its socket.
UnitOrderSwapped == <<"service", "socket">>

UnitOrder == <<"socket", "service">>

FirstUnit == UnitOrder[1]
SecondUnit == UnitOrder[2]

\* After a unit has been dealt with: the next one, then daemon.json.
NextUnit ==
  IF unit = FirstUnit THEN unit' = SecondUnit /\ Goto("dockerStatus")
  ELSE unit' = "none" /\ Goto("dockerConfig")

BeginDisableDocker == pc' = "dockerStatus" /\ unit' = FirstUnit

DockerGivenUp == Goto("failed") /\ unit' = "none"

\* A unit that is not found is not masked; one that is not active, be it about
\* to be restarted, is not stopped.
DockerStatus ==
  /\ pc = "dockerStatus" /\ UNCHANGED <<host, docker>>
  /\ \/ /\ Succeeds
        /\ IF ~docker[unit].found THEN NextUnit
           ELSE /\ Goto(IF docker[unit].active = "yes" THEN "dockerStop" ELSE "dockerDisable")
                /\ UNCHANGED unit
        /\ slipped' = (slipped \/ docker[unit].active = "restarting")
     \/ Fails /\ DockerGivenUp /\ UNCHANGED slipped

DockerCall(from, field, value, advance) ==
  /\ pc = from /\ UNCHANGED <<host, slipped>>
  /\ LET Changed == docker' = [docker EXCEPT ![unit][field] = value]
     IN  \/ Succeeds /\ Changed /\ advance
         \/ Fails /\ (Changed \/ UNCHANGED docker) /\ DockerGivenUp

DockerStop ==
  DockerCall("dockerStop", "active", "no", Goto("dockerDisable") /\ UNCHANGED unit)
DockerDisable ==
  DockerCall("dockerDisable", "enabled", FALSE, Goto("dockerMask") /\ UNCHANGED unit)

\* Masking does not reload the daemon.
DockerMask == DockerCall("dockerMask", "masked", TRUE, NextUnit)

\* ensureDaemonConfig: "iptables": false.
DockerConfig == HostCall("dockerConfig", "iptablesOff", TRUE, "ok")

DisableDocker == DockerStatus \/ DockerStop \/ DockerDisable \/ DockerMask \/ DockerConfig

-----------------------------------------------------------------------------
(* configure-cni and configure-iptables.                                   *)

\* ensureBridgeConfig installs 99-bridge.conf.
ConfigureCNI == HostCall("cniConf", "cni", TRUE, "ok")

IpRules == HostCall("ipRules", "clear", TRUE, "ipUnit")

IpUnit ==
  HostCall("ipUnit", "flushUnit", TRUE, IF host.flushUnit THEN "ipEnable" ELSE "ipEnableNew")

\* The unit is enabled before the daemon is reloaded for its new file.
IpEnable ==
  \/ HostCall("ipEnableNew", "flushEnabled", TRUE, "ipReload")
  \/ HostCall("ipEnable", "flushEnabled", TRUE, "ipStart")

IpReload == HostCall("ipReload", "flushUnit", TRUE, "ipStart")

\* Starting the unit empties every table, whoever wrote the rules.
IpStart == HostCall("ipStart", "rules", FALSE, "ok")

ConfigureIPTables == IpRules \/ IpUnit \/ IpEnable \/ IpReload \/ IpStart

HostStep == ConfigureBaseOS \/ DisableDocker \/ ConfigureCNI \/ ConfigureIPTables

-----------------------------------------------------------------------------
(* What else happens to the host: docker's life under systemd, and a       *)
(* reboot. They are conjoined with what they leave of the process.         *)

\* docker inserts its rules when it starts, unless its configuration says no.
DockerStarts ==
  /\ docker' = [docker EXCEPT !["service"].active = "yes"]
  /\ host' = [host EXCEPT !.rules = host.rules \/ ~host.iptablesOff]

\* docker fails and systemd waits a moment before it restarts it, or somebody
\* stops it. (Bound: not any more once it is masked.)
DockerDies ==
  /\ docker["service"].active = "yes" /\ ~docker["service"].masked
  /\ \E after \in {"restarting", "no"} :
       docker' = [docker EXCEPT !["service"].active = after]
  /\ UNCHANGED <<pc, faults, host, unit, slipped>>

\* A mask that systemd has not read does not stop the restart, one it has does.
DockerRestarts ==
  /\ docker["service"].active = "restarting"
  /\ \/ DockerStarts
     \/ /\ docker["service"].masked /\ docker' = [docker EXCEPT !["service"].active = "no"]
        /\ UNCHANGED host
  /\ UNCHANGED <<pc, faults, unit, slipped>>

\* Somebody talks to the socket of a docker that was stopped.
SocketActivates ==
  /\ docker["socket"].active = "yes" /\ docker["service"].active = "no"
  /\ ~docker["service"].masked
  /\ DockerStarts
  /\ UNCHANGED <<pc, faults, unit, slipped>>

DockerLives == DockerDies \/ DockerRestarts \/ SocketActivates

\* At boot swap and sysctls are read from disk, iptables is empty, and docker
\* starts if its units are enabled and, as it requires its socket, neither is
\* masked.
Boots(u) == docker[u].enabled /\ ~docker[u].masked /\ ~docker["socket"].masked

HostReboots ==
  /\ docker' = [u \in DockerUnits |->
                  [docker[u] EXCEPT !.active = IF Boots(u) THEN "yes" ELSE "no"]]
  /\ host' = [host EXCEPT !.swap = host.fstab = "swap", !.sysctl = host.sysctlFile,
                          !.rules = Boots("service") /\ ~host.iptablesOff]
  /\ unit' = "none" /\ UNCHANGED slipped

-----------------------------------------------------------------------------
\* The administrator's fstab is not lost: before its lines are commented out, and
\* ever after, the backup has it as it was. A file without swap is not touched.
FstabKept == host.fstab = "noswap" => host.backup = "swap"

\* docker is out of the way of the node's network.
DockerOut == docker["service"].active = "no" /\ ~host.rules
===============================================================================
