SPECIFICATION Spec
CONSTANTS
  home = home
  bible = bible
  a1 = a1
  a2 = a2
  c1 = c1
  NoAgent = NoAgent
  NoCredential = NoCredential
  s1 = s1
  s2 = s2
  App = {home, bible}
  Home = home
  Agent = {a1, a2}
  Credential = {c1}
  HomeOf <- MCHomeOf
  Worlds <- MCWorlds
  Freshness = 1
  SiweKeep = 1
  Limit = 1
  MaxTickets = 2
  MaxTime = 3
  Slot = {s1, s2}
  MaxBegins = 4
SYMMETRY Symmetry
INVARIANTS NoLateUse BoundToApp
PROPERTY FacetsOnlyGrow
CHECK_DEADLOCK FALSE
