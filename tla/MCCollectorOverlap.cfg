\* All collectors on one server; those that start two goroutines have their
\* visits of it overlap in every way.
SPECIFICATION Spec
CONSTANTS
  Tools = {"kvm", "pfsense", "docker", "podman", "kubernetes", "kubefile", "proxmox", "nas", "ceph"}
  Servers = {s1}
  Remotes = {"up", "late", "down"}
  MaxRestarts = 0
  MaxNow = 1
  None = None
  s1 = s1
  s2 = s2
INVARIANTS
  TypeOK
  OfflineSinceMatches
  NoFalseAlarm
  OutageAlerted
  NoOrphanRows
  NoSecondInsert
  RowsFollowStatus
PROPERTIES
  OfflineSinceKept
  ImplementsBoard
