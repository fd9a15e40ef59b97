SPECIFICATION Spec
CONSTANTS
  Versions <- TwoVersions
  Minor <- OwnMinor
  ConfigVersion = 1
  DriftEnabled = TRUE
  MaxFaults = 0
  MaxEvents = 1
INVARIANT UpgradeRunsTarget
