SPECIFICATION OwedSpec
CONSTANTS
  Versions <- OneVersion
  Minor <- OwnMinor
  ConfigVersion = 1
  DriftEnabled = FALSE
  MaxFaults = 1
  MaxEvents = 1
INVARIANT NextCheckDetects
