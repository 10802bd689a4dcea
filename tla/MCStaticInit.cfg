SPECIFICATION Spec
CONSTANTS
  Threads = {t1, t2, t3}
  Objects = {m, c}
  Mutexes = {m}
  Addrs = {a1, a2, a3, a4, a5}
  NoAddr = NoAddr
  LP64 = TRUE
  MaxLost = 1
SYMMETRY Symmetry
INVARIANTS TypeOK CallersAgree KindHonoured OneOwner NoLeak LoserFindsWinner
PROPERTY PublishedIsKept
