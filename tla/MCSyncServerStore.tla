-------------------------- MODULE MCSyncServerStore --------------------------
EXTENDS SyncServerStore

CONSTANTS c1, c2, c3, b1, b2

MCChangeId == {c1, c2, c3}
MCBlob == {b1, b2}
MCBlobLen == [b \in MCBlob |-> IF b = b1 THEN 1 ELSE 2]

Envelope(id, refs, len) == [change_id |-> id, blob_refs |-> refs, payload_bytes |-> len]

\* c1 needs nothing, c2 one blob and is re-encrypted to another length when it is
\* retried, c3 needs both blobs.
Plain == Envelope(c1, {}, 1)
OneBlob == Envelope(c2, {b1}, 1)
OneBlobAgain == Envelope(c2, {b1}, 2)
BothBlobs == Envelope(c3, {b1, b2}, 1)
MCEventRecord == {Plain, OneBlob, OneBlobAgain, BothBlobs}

\* A change twice in one batch, two changes, one that may fail after one that fits,
\* one alone.
MCBatch ==
  {<<Plain, Plain>>, <<Plain, OneBlob>>, <<OneBlob, BothBlobs>>, <<OneBlobAgain>>}
=============================================================================
