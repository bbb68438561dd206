SPECIFICATION FairSpec
CONSTANTS
  Threads = {t1, t2}
  Pollers = {p1, p2}
  Servers = {s1, s2}
  Loops = {g1, g2}
  Serial = {c1}
  Unnamed = {}
  Tcp = {}
  None = None
CHECK_DEADLOCK FALSE
PROPERTY CallsReturn
