SPECIFICATION Spec
CONSTANTS
  h1 = h1
  s1 = s1
  w1 = w1
  w2 = w2
  Hash = {h1}
  Subject = {s1}
  Worker = {w1, w2}
  Amount = {1000, 50000}
  PayPrice = 1000
  MaxSubs = 2
  MaxRequests = 2
SYMMETRY Symmetry
INVARIANT OneRowPerSettlement
CHECK_DEADLOCK FALSE
