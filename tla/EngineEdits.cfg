CONSTANTS
  e1 = e1
  e2 = e2
  g1 = g1
  none = none
  u1 = u1
  u2 = u2
  Device = {1, 2}
  MaxCounter = 100
  Entity = {e1}
  Edge = {g1}
  LwwField = {"status"}
  ProseField = {"body"}
  Value = {"", "inbox", "read", "done", "p", "q"}
  Default <- MCDefault
  Parent <- MCNoParent
  NoParent = none
  UniqueKey <- MCOwnKey
  EdgeEntity <- MCEdgeEntity
  Blob = {}
  BATCH = 2
  Founders = {1, 2}
  Wall = {1}
  Edits <- AllEdits
  MaxEdits = 3
  MaxFaults = 1
SPECIFICATION Spec
INVARIANTS LoggedOnce Convergence ProseSafe
