SPECIFICATION FairSpec
CONSTANTS
  Tokens = {t1, t2}
  NoToken = none
  MaxPending = 2
INVARIANTS
  
  ShownCommandWorks
PROPERTIES
  UninstallIsShown
CHECK_DEADLOCK FALSE
