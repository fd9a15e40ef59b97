SPECIFICATION TimedSpec
CONSTANTS
  Versions <- TwoVersions
  Minor <- OwnMinor
  ConfigVersion = 1
  DriftEnabled = TRUE
  MaxFaults = 1
  MaxEvents = 1
PROPERTY UpgradeArrives
