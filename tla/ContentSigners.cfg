SPECIFICATION Spec
CONSTANTS
  n1 = n1
  n2 = n2
  a1 = a1
  a2 = a2
  k1 = k1
  k2 = k2
  i1 = i1
  s1 = s1
  s2 = s2
  NoSa = NoSa
  NoKey = NoKey
  Name = {n1, n2}
  Sa = {a1, a2}
  Key = {k1, k2}
  LiveKey <- OneKey
  Isolate = {i1}
  Slot = {s1, s2}
  MaxBegins = 3
  MaxChanges = 2
INVARIANTS TypeOK Authorised Resilient
SYMMETRY Symmetry
CHECK_DEADLOCK FALSE
