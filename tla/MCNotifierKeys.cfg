\* Outages of two servers of different tools that have the same id, with three
\* alert goroutines; a window of one tick.
SPECIFICATION Spec
CONSTANTS
  Servers <- SameId
  Others = {}
  Slots = {g1, g2, g3}
  Window = 1
  MaxNow = 1
  MaxRestarts = 0
  None = None
  g1 = g1
  g2 = g2
  g3 = g3
SYMMETRY SlotSymmetry
INVARIANTS
  TypeOK
  OwnOutageAnnounced
  SomeOutageAnnounced
