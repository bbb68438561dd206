SPECIFICATION Spec
CONSTANTS
  Ids = {i1, i2}
  Names = {root, guest}
  RootName = root
  Tokens = {j1, j2}
  Workers = {w1, w2}
  Idle = 1
  Binders <- AnyBinder
  Nobody = Nobody
  None = None
SYMMETRY Symmetry
INVARIANTS TypeOK NoUseAfterEnd Entitled RootSafe
PROPERTIES RevocationIsFinal
