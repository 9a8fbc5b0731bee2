\* A Docker server whose listing fails after its host row was written.
SPECIFICATION Spec
CONSTANTS
  Tools = {"docker"}
  Servers = {s1}
  Remotes = {"up", "late"}
  MaxRestarts = 0
  MaxNow = 0
  None = None
  s1 = s1
  s2 = s2
INVARIANTS DownHostsShown
