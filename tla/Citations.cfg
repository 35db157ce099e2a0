SPECIFICATION CitationsSpec
CONSTANTS
  v1 = v1
  v2 = v2
  i1 = i1
  i2 = i2
  s1 = s1
  s2 = s2
  Verse = {v1, v2}
  Sample = {v1}
  SampleVersion = 1
  Isolate = {i1, i2}
  Slot = {s1}
  MaxVersion = 2
  Settings <- MCSettings
  MaxBegins = 2
INVARIANTS CitationsTypeOK VerifiedIsAnchored QuotedIsCited ValidatedIsSound RangeIsOneVersion
CHECK_DEADLOCK FALSE
