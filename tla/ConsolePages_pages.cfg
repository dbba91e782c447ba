SPECIFICATION PageSpec
CONSTANTS
  Domains = {"d1", "d2"}
  Nodes = {n1, n2}
  Ports = {1, 2}
  MaxForwards = 2
  Values = {0, 1}
  MaxRequests = 1
  MaxSaves = 2
  MaxChanges = 2
  MaxVersion = 1
  Sources = {s1, s2}
  MessageLimit = 2
  PageSize = 1
  MaxClock = 2
  MaxCalls = 1
  Targets = {t1, t2}
  PauseAfter = 2
  MaxMutations = 1
  LogSites = {1}
  Ranges = {1, 3}
  LogPageSize = 1
  MaxTime = 4
INVARIANTS
  
  HiddenOriginsAreIgnored
  UntouchedFormFollows
  AcknowledgedSecretNotResent
  
  
  
PROPERTIES
  SaveKeepsWhatIsShown
  
  OnlyTogglesSwitch
