\* The collectors with one goroutine on two servers, with a restart.
SPECIFICATION Spec
CONSTANTS
  Tools = {"kvm", "pfsense"}
  Servers = {s1, s2}
  Remotes = {"up", "late", "down"}
  MaxRestarts = 1
  MaxNow = 0
  None = None
  s1 = s1
  s2 = s2
INVARIANTS
  HistoryMatchesStatus
  
  NoRepeatedEvent
