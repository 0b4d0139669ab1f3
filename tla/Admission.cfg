CONSTANTS
  r1 = r1
  r2 = r2
  r3 = r3
  r4 = r4
  r5 = r5
  r6 = r6
  t1 = t1
  t2 = t2
  t3 = t3
  Request <- MCRequest
  Tenant = {t1, t2, t3}
  op <- MCOp
  PoolSize = 2
  NoOne = NoOne
SPECIFICATION FairSpec
INVARIANTS PoolSound BindingAlone
PROPERTIES RequestsEnd
CHECK_DEADLOCK FALSE
