SPECIFICATION Spec
CONSTANTS
  Attempts = {t1, t2, t3}
  Keys = {k1, k2}
  Identities = {i1, i2}
  Payloads = {p1, p2}
  None = None
SYMMETRY Symmetry
CHECK_DEADLOCK FALSE
INVARIANTS
  LocksSuffice
PROPERTIES
  ExecutesAtomically
