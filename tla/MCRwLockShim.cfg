SPECIFICATION RSpec
CONSTANTS
  Threads = {t1, t2, t3}
  Objects = {w}
  Mutexes = {}
  Addrs = {a1, a2, a3, a4}
  NoAddr = NoAddr
  LP64 = TRUE
  MaxLost = 1
  MaxReads = 2
SYMMETRY Symmetry
INVARIANTS WriterIsAlone
PROPERTIES IsARwLock
