SPECIFICATION Spec
CONSTANTS
  Threads = {t1, t2}
  Objects = {o1, o2}
  Keys = {k1}
  FreshKeys = TRUE
  NoOverlap = FALSE
  None = None
INVARIANT AllManaged
