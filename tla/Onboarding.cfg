CONSTANTS
  h1 = h1
  h2 = h2
  i1 = i1
  i2 = i2
  Host = {h1, h2}
  Identity = {i1, i2}
  Logins <- MCLogins
  Writers = {h2}
  Legacies <- FreshOrShared
  MaxId = 2
  MaxFaults = 2
SPECIFICATION Spec
INVARIANTS AccountAgreed PublishedOnce RecoveryCodeOpens StatusHonest
PROPERTIES KeysKept
