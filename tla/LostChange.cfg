SPECIFICATION Spec
CONSTANTS
  c1 = c1
  c2 = c2
  Services <- KubeletAndNPD
  Configs <- TwoConfigs
  MaxFaults = 1
  MaxEvents = 1
INVARIANT AppliedIsRunning
