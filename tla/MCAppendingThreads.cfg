SPECIFICATION Spec
CONSTANTS
  Problems = {p1}
  Addresses = {a1}
  Threads = {t1, t2}
  MaxInside = 2
  Adapters = {i1, i2, i3}
  None = None
CHECK_DEADLOCK FALSE
INVARIANTS
  EncodesWithItsAdapter
