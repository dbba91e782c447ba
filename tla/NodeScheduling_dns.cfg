SPECIFICATION FairSpec
CONSTANTS
  Sites = {s1}
  Nodes = {n1, n2}
  ProbedSites = {s1}
  Operations = {"round", "publish", "status", "answer", "dns_error", "timeout", "upgrade", "delete", "update", "crash"}
  FailLimit = 2
  SuccessLimit = 2
  AbnormalLimit = 1
  MaxChanges = 3
PROPERTIES
  KeepsPool
  DNSConverges
