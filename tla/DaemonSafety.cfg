SPECIFICATION Spec
CONSTANTS
  Versions <- TwoVersions
  Minor <- OwnMinor
  ConfigVersion = 1
  DriftEnabled = TRUE
  MaxFaults = 1
  MaxEvents = 2
INVARIANTS TypeOK GuardExclusive UpgradeInstallsTarget
PROPERTIES SwapUndisturbed ImplementsNodeWork DaemonImplementsMaintenance
