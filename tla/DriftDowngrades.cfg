SPECIFICATION Spec
CONSTANTS
  Versions <- ThreeVersions
  Minor <- OwnMinor
  ConfigVersion = 1
  DriftEnabled = TRUE
  MaxFaults = 0
  MaxEvents = 1
INVARIANT DriftNeverDowngrades
