SPECIFICATION FairSpec
CONSTANTS
  Sockets = {s1, s2, s3}
  Listeners = {l1, l2, l3}
  Acceptors = {a1, a2}
  MaxClients = 2
  None = None
INVARIANTS TypeOK ServerSafe
PROPERTIES BacklogServed PoolSpec
