SPECIFICATION EntitlementsSpec
CONSTANTS
  org = org
  m1 = m1
  m2 = m2
  e1 = e1
  e2 = e2
  s1 = s1
  s2 = s2
  Owner = org
  Member = {m1, m2}
  Id = {e1, e2}
  Slot = {s1, s2}
  MaxBegins = 3
SYMMETRY Symmetry
INVARIANTS NothingReleasedLate
CHECK_DEADLOCK FALSE
