SPECIFICATION MSpec
CONSTANTS
  Threads = {t1, t2, t3}
  Objects = {m}
  Mutexes = {m}
  Addrs = {a1, a2, a3}
  NoAddr = NoAddr
  NoThread = NoThread
  LP64 = FALSE
  MaxLost = 0
  MaxDepth = 2
SYMMETRY Symmetry
INVARIANTS MTypeOK MutualExclusion
PROPERTY IsAMutex
