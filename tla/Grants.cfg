SPECIFICATION Spec
CONSTANTS
  u1 = u1
  u2 = u2
  q1 = q1
  s1 = s1
  s2 = s2
  Nobody = Nobody
  Sub = {u1, u2}
  Custodian = {u2}
  Rid = {q1}
  MaxRows = 2
  Slot = {s1, s2}
  MaxBegins = 4
SYMMETRY Symmetry
INVARIANTS OneDecision LedgerDecides
PROPERTY CanonicalStays
CHECK_DEADLOCK FALSE
