SPECIFICATION FairSpec
CONSTANTS
  Tabs = {t1, t2}
  NoTab = none
  Sessions = {s1, s2}
  NoSession = empty
INVARIANTS
  
  ShownSecretIsTheAdmins
PROPERTIES
  ExpiryIsNoticed
