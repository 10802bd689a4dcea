SPECIFICATION Spec
CONSTANTS
  Threads = {t1, t2}
  Addrs = {a, b}
  Files = {f, g}
  Standard = s
  Stdin = f
  Length = 1
  MaxSeeks = 1
INVARIANTS WTypeOK HandlesOwned
PROPERTIES ReadersFinish
CHECK_DEADLOCK FALSE
