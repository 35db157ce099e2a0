SPECIFICATION Spec
CONSTANTS
  a1 = a1
  w1 = w1
  w2 = w2
  q1 = q1
  q2 = q2
  r1 = r1
  r2 = r2
  Account = {a1}
  Recorder = {w1, w2}
  Renewer = {q1, q2}
  Reader = {r1, r2}
  Period = 1
  MaxCap = 2
  MaxSubs = 2
  MaxRenewals = 2
  MaxReads = 2
  MaxNow = 2
SYMMETRY Symmetry
INVARIANTS PeriodsTrue CapKept OneActive
PROPERTY CanceledForGood
CHECK_DEADLOCK FALSE
