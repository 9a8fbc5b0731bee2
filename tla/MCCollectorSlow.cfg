\* A machine that neither answers nor closes its connections, and another.
SPECIFICATION FairSpec
CONSTANTS
  Tools = {"docker"}
  Servers = {s1, s2}
  Remotes = {"up", "hung"}
  MaxRestarts = 0
  MaxNow = 0
  None = None
  s1 = s1
  s2 = s2
PROPERTIES SlowServersDoNotInterfere
