SPECIFICATION Spec
CONSTANTS
  Problems = {p1, p2, p3, p4}
  Addresses = {a1, a2}
  Threads = {t1, t2}
  MaxInside = 1
  Adapters = {i1, i2, i3}
  None = None
CHECK_DEADLOCK FALSE
INVARIANTS
  EncodesWithItsAdapter
  BuiltOnce
