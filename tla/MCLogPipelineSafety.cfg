\* Three goroutines (so that both connections can be held by readers while the
\* third logs), a channel of two entries.  The system may stop: readers that hold
\* all connections wait for ever.
SPECIFICATION Spec
CONSTANTS
  Threads = {t1, t2, t3}
  Writer = w
  Loggers = {std, sys}
  Conns = {c1, c2}
  Capacity = 2
  MaxHosts = 1
  MaxEntries = 4
  None = None
  t1 = t1
  t2 = t2
  t3 = t3
  w = w
  std = std
  sys = sys
  c1 = c1
  c2 = c2
CHECK_DEADLOCK FALSE
INVARIANTS
  TypeOK
  NothingLost
  StuckByReadersOnly
PROPERTIES
  ImplementsQueue
