CONSTANTS
  e1 = e1
  e2 = e2
  g1 = g1
  none = none
  u1 = u1
  u2 = u2
  Device = {1, 2}
  MaxCounter = 2
  Entity = {e1, e2}
  Edge = {}
  LwwField = {"status"}
  ProseField = {"body"}
  Value = {"", "inbox", "read", "done", "p", "q"}
  Default <- MCDefault
  Parent <- MCNoParent
  NoParent = none
  UniqueKey <- MCOneKey
  EdgeEntity <- MCEdgeEntity
  Blob = {u1, u2}
  BATCH = 2
  Founders = {1}
  Wall = {1, 2}
  Edits <- SharedEdits
  MaxEdits = 2
  MaxFaults = 1
SPECIFICATION FairSpec
INVARIANTS BlobsHeld NothingSkipped
PROPERTIES StampAhead EventuallySynced
