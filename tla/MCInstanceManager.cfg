SPECIFICATION FairSpec
CONSTANTS
  Threads = {t1, t2, t3}
  Objects = {o1, o2}
  Keys = {k1, k2}
  FreshKeys = TRUE
  NoOverlap = TRUE
  None = None
INVARIANTS TypeOK AllManaged
PROPERTIES RemovedClosed CallsReturn DestroyAllEmpties
