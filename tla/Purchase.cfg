SPECIFICATION PurchaseSpec
CONSTANTS
  Nobody = Nobody
  Person = {p1}
  Tab = {t1, t2}
  Tier = {payg, monthly}
  MaxRequests = 3
  MaxRuns = 4
  MaxTrouble = 2
SYMMETRY Symmetry
INVARIANTS PurchaseTypeOK ClaimIsPurchase SessionIsAsked NothingLost AnsweredIsOver
CHECK_DEADLOCK FALSE
