SPECIFICATION FairSpec
CONSTANTS
  MaxFaults = 2
  Spared = 1
  Packages = {"containerd", "runc"}
  Files <- MCFiles
  Required <- MCRequired
  Reference <- MCReference
  Releases = {1, 2}
  ConfigFiles <- MCConfigFiles
  Hosts <- MCHosts
  Setups <- MCSetups
  Ways = {"agent", "arc", "kubeadm", "machine", "upgrade"}
INVARIANTS
  ProceduresTypeOK KubeletPrepared BinariesUsable SingleIdentity SwapStaysOff FstabKept
  DockerStaysOut NothingDeletedInVolumes RolesReported AdminRevoked JoinSurvivesReboot
  RightsSuffice CordonTakenBack
PROPERTIES
  UnbootstrapGoesOn MachineKept CallsImplementMaintenance HostJoins
