SPECIFICATION FairSpec
CONSTANTS
  Rejected = {2}
  Operations = {"refused", "write_failure", "reload_failure", "crash"}
  MaxVersion = 3
  MaxFaults = 2
INVARIANTS
  IndexResolves
  KnownGoodRestored
PROPERTIES
  AppliesAtomically
  
