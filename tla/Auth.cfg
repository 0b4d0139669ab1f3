CONSTANTS
  t1 = t1
  t2 = t2
  n1 = n1
  o1 = o1
  o2 = o2
  d1 = d1
  Tenant = {t1, t2}
  Namespace <- MCNamespace
  Device = {d1}
  OpId = {o1, o2}
  Request = {q1}
  Binder = {b1}
  Migrated = {t1}
  Prior = {n1}
  MaxTokens = 4
  MaxChallenges = 2
  None = None
SPECIFICATION Spec
INVARIANTS AdmittedOwnsNamespace ContentReachable
PROPERTIES BindingForGood
CHECK_DEADLOCK FALSE
SYMMETRY Symmetry
