\* One KVM server, every kind of alert, a window of two ticks, a restart.
SPECIFICATION FairSpec
CONSTANTS
  Servers <- OneKVM
  Others = {"cpu", "test"}
  Slots = {g1, g2}
  Window = 2
  MaxNow = 2
  MaxRestarts = 1
  None = None
  g1 = g1
  g2 = g2
  g3 = g3
PROPERTIES
  ImplementsLimiter
  AlertsFinish
