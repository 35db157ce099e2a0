SPECIFICATION Spec
CONSTANTS
  a1 = a1
  a2 = a2
  c1 = c1
  c2 = c2
  s1 = s1
  s2 = s2
  Agent = {a1, a2}
  Credential = {c1, c2}
  Slot = {s1, s2}
  Worlds = {"calm", "lossy", "garbled"}
  MaxBegins = 3
SYMMETRY Symmetry
INVARIANTS SavedIsKept
CHECK_DEADLOCK FALSE
