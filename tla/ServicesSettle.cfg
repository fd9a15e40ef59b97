SPECIFICATION FairSpec
CONSTANTS
  c1 = c1
  c2 = c2
  Services <- AllServices
  Configs <- TwoConfigs
  MaxFaults = 1
  MaxEvents = 1
INVARIANTS TypeOK ChangeTakesEffect
PROPERTY StartsSettle
