\* Two goroutines, a channel of one entry.  The system may stop: readers that hold
\* all connections wait for ever, which the property allows.
SPECIFICATION FairSpec
CONSTANTS
  Threads = {t1, t2}
  Writer = w
  Loggers = {std}
  Conns = {c1, c2}
  Capacity = 1
  MaxHosts = 1
  MaxEntries = 3
  None = None
  t1 = t1
  t2 = t2
  t3 = t3
  w = w
  std = std
  sys = sys
  c1 = c1
  c2 = c2
CHECK_DEADLOCK FALSE
PROPERTIES CallsReturn
