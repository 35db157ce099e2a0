SPECIFICATION FairSpec
CONSTANTS
  p1 = p1
  w1 = w1
  s1 = s1
  f1 = f1
  r1 = r1
  t1 = t1
  t2 = t2
  NoHome = NoHome
  Passkey = {p1}
  Wallet = {w1}
  Social = {s1}
  Before = {w1}
  Treasury = {r1}
  Fresh = {f1}
  NLabel = 2
  Wish = {0, 1}
  Tab = {t1, t2}
  Flows = {"passkey", "wallet", "social", "later", "treasury", "agent", "nameAgent", "act", "direct"}
  Attempts = 2
  Resends = 2
  MaxBegins = 2
INVARIANTS NoOrphanName NamesToldAreOwned EffectsAccounted RecordedIsApproved NoDoomedOperation NamelessOnlyIfTaken
PROPERTY Finishes
CHECK_DEADLOCK FALSE
