SPECIFICATION Spec
CONSTANTS
  MaxFaults = 0
  Spared = 0
  Packages = {"containerd", "runc"}
  Files <- MCFiles
  Required <- MCRequired
  Reference <- MCReference
  Releases = {1, 2}
  ConfigFiles <- MCConfigFiles
  Hosts <- MCHosts
  Setups <- MCSetups
  Ways = {"arc"}
INVARIANT RolesRemoved
