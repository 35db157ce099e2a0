SPECIFICATION Spec
CONSTANTS
  a1 = a1
  a2 = a2
  r1 = r1
  r2 = r2
  Account = {a1, a2}
  Reader = {r1, r2}
  MaxPasses = 2
  MaxReads = 4
  MaxUses = 2
  MaxNow = 1
SYMMETRY Symmetry
INVARIANTS StatusMatchesMeter MeterTrue
PROPERTY KeepsPromise
CHECK_DEADLOCK FALSE
