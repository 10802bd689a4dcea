SPECIFICATION LSpec
CONSTANTS
  m = m
  c = c
  Threads = {t1, t2, t3}
  Consumers = {t1, t2}
  Objects = {m, c}
  Mutexes = {m}
  Addrs = {a1, a2, a3}
  NoAddr = NoAddr
  NoThread = NoThread
  LP64 = TRUE
  MaxLost = 0
  MaxDepth = 1
INVARIANTS WaitHoldsMutex
PROPERTIES SignalWakes NoLostWakeup
CHECK_DEADLOCK FALSE
