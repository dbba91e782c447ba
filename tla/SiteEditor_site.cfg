SPECIFICATION FairSpec
CONSTANTS
  Configs = {"c1", "c2"}
  MaxChanges = 2
INVARIANTS
  CacheNeverOlderThanSave
  
PROPERTIES
  OnlySaveReplacesEdits
  DeletionIsFollowed
CHECK_DEADLOCK FALSE
