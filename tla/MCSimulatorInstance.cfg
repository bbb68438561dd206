SPECIFICATION FairSpec
CONSTANTS
  Threads = {t1, t2}
  Pollers = {p1, p2}
  Servers = {s1, s2}
  Loops = {g1, g2}
  Serial = {c1}
  Unnamed = {c3}
  Tcp = {c2}
  None = None
CHECK_DEADLOCK FALSE
INVARIANTS TypeOK ServerOwned
PROPERTIES OnlyServingBlocks RootStopsStarting
