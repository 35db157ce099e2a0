SPECIFICATION FairSpec
CONSTANTS
  h1 = h1
  h2 = h2
  s1 = s1
  s2 = s2
  w1 = w1
  w2 = w2
  Hash = {h1, h2}
  Subject = {s1}
  Worker = {w1, w2}
  Amount = {999, 1000, 8000, 50000}
  PayPrice = 1000
  MaxSubs = 3
  MaxRequests = 3
INVARIANTS CreditsBacked CreditCovered
PROPERTIES LateRequestsStop KeepsPromise Finishes
CHECK_DEADLOCK FALSE
