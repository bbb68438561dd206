SPECIFICATION Spec
CONSTANTS
  Uuids = {u1, u2, u3, u4}
  Names = {level, zone, site}
  Defaults = {level, zone}
  Workers = {w1, w2}
  None = None
SYMMETRY Symmetry
INVARIANTS TypeOK TableSound
PROPERTIES TableSpec
