SPECIFICATION FairSpec
CONSTANTS
  Versions = {1, 2}
  MaxLoads = 1
  MaxBuilds = 1
  Leftovers = {"none", "saved"}
INVARIANTS LocalOnDisk  
PROPERTIES CloseHappens
