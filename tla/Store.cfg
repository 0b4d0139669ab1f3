CONSTANTS
  c1 = c1
  c2 = c2
  c3 = c3
  b1 = b1
  b2 = b2
  Account = {a1, a2}
  ChangeId <- MCChangeId
  Blob <- MCBlob
  BlobLen <- MCBlobLen
  EventRecord <- MCEventRecord
  Batch <- MCBatch
  Reader = {r1}
  Cursor = {0, 1, 2, 3, 4}
  PageLimit = 2
  MaxBytes = 5
  MaxObjects = 4
SPECIFICATION Spec
INVARIANTS TypeOK LogDense ChangeOnce UploadBeforeCommit QuotaRespected RepliesTruthful PageGapless
PROPERTIES ImplementsEventLog
