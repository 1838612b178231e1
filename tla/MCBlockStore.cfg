SPECIFICATION FairSpec
CONSTANTS
  Keys = {"k0", "k1", "k2", "path"}
  Partitions = {0, 1}
  Files = {"f0", "f1"}
  normal <- MCnormal
  alternate <- MCalternate
  home <- MChome
  fileOf <- MCfileOf
  MaxFaults = 3
INVARIANTS ClaimedComplete RestartSafe  
PROPERTIES BuiltInTheEnd
CHECK_DEADLOCK FALSE
