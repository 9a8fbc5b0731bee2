\* Liveness on one server: a collector with one goroutine and ones with two,
\* whose visits race; no machine hangs, the process may restart once.
SPECIFICATION FairSpec
CONSTANTS
  Tools = {"kvm", "kubefile", "nas"}
  Servers = {s1}
  Remotes = {"up", "down"}
  MaxRestarts = 1
  MaxNow = 0
  None = None
  s1 = s1
  s2 = s2
PROPERTIES OutageDetected RecoveryDetected
