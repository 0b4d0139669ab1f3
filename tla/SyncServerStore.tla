-------------------------- MODULE SyncServerStore --------------------------
(***************************************************************************)
(* The content-blind store of the sync server                              *)
(* (crates/pergamon-sync-server/src/store.rs): one append-only event table *)
(* and one blob table per account, a single writer connection behind a     *)
(* mutex, and pooled readers that see WAL snapshots.                       *)
(*                                                                         *)
(* push_events runs one SQLite transaction over the whole batch.  It is    *)
(* modelled one event at a time, inside `tx', so that readers interleave   *)
(* with it and a failure or a crash can hit between any two inserts.       *)
(***************************************************************************)
EXTENDS Integers, Sequences, FiniteSets, FiniteSetsExt

CONSTANTS
  Account,      \* tenants
  ChangeId,     \* client-generated change ids (UUIDs in the code)
  Blob,         \* ciphertext hashes; the address is the content
  BlobLen,      \* [Blob -> Nat]: stored length of each blob
  EventRecord,  \* the event envelopes clients may send
  Batch,        \* the batches clients may send: sequences of EventRecord
  Reader,       \* threads serving a pull on a pooled connection
  Cursor,       \* the cursors a pull may ask after, inside the log or past its end
  PageLimit,    \* the page size a pull asks for
  MaxBytes,     \* QuotaConfig::max_account_bytes; 0 is unlimited
  MaxObjects    \* QuotaConfig::max_account_objects; 0 is unlimited

ASSUME StoreAssumption ==
  /\ EventRecord \subseteq
       [change_id : ChangeId, blob_refs : SUBSET Blob, payload_bytes : Nat]
  /\ Batch \subseteq Seq(EventRecord)
  /\ BlobLen \in [Blob -> Nat]
  /\ IsFiniteSet(Blob)
  /\ Cursor \subseteq Nat
  /\ PageLimit \in Nat \ {0}
  /\ MaxBytes \in Nat
  /\ MaxObjects \in Nat

VARIABLES
  events,   \* [Account -> table], a table maps each server_seq to its row
  blobs,    \* [Account -> SUBSET Blob]
  tx,       \* the write transaction of push_events, or NoTx
  replies,  \* the per-event results pushes have returned to clients
  read      \* [Reader -> the pull_page call it is serving]

vars == <<events, blobs, tx, replies, read>>

NoTx == [open |-> FALSE]
NoRead == [phase |-> "idle"]

-----------------------------------------------------------------------------
(* Queries. *)

\* Mutant: numbering from 0.
HighWaterZeroBased(table) == IF DOMAIN table = {} THEN -1 ELSE Max(DOMAIN table)

\* COALESCE(MAX(server_seq), 0)
HighWater(table) == IF DOMAIN table = {} THEN 0 ELSE Max(DOMAIN table)

\* SELECT server_seq ... WHERE change_id = ?: the rows holding a change.
SeqsOf(table, id) == {s \in DOMAIN table : table[s].change_id = id}

\* INSERT of one row under the primary key (account_id, server_seq).
Insert(table, seq, ev) ==
  [s \in DOMAIN table \cup {seq} |-> IF s = seq THEN ev ELSE table[s]]

\* account_usage_conn: usage is summed from the live rows.
TotalBytes(table, bs) ==
  MapThenSumSet(LAMBDA s : table[s].payload_bytes, DOMAIN table)
    + MapThenSumSet(LAMBDA b : BlobLen[b], bs)
TotalObjects(table, bs) == Cardinality(DOMAIN table) + Cardinality(bs)

Unlimited == MaxBytes = 0 /\ MaxObjects = 0

\* QuotaConfig::check: equality with a cap is allowed, 0 disables a cap.
WithinQuota(bytes, objects) ==
  /\ MaxBytes # 0 => bytes <= MaxBytes
  /\ MaxObjects # 0 => objects <= MaxObjects

\* Mutant: the cursor's own row is sent again.
PageSeqsInclusive(table, after) ==
  {s \in DOMAIN table :
     /\ s >= after
     /\ Cardinality({t \in DOMAIN table : after <= t /\ t < s}) < PageLimit}

\* The rows of one page: server_seq > after, ascending, at most PageLimit.
PageSeqs(table, after) ==
  {s \in DOMAIN table :
     /\ s > after
     /\ Cardinality({t \in DOMAIN table : after < t /\ t < s}) < PageLimit}

-----------------------------------------------------------------------------
(* blob_put: one write under the writer lock, refused over quota unless the *)
(* blob is already there.                                                   *)

BlobPutAllowed(a, b) ==
  \/ Unlimited
  \/ b \in blobs[a]
  \/ WithinQuota(TotalBytes(events[a], blobs[a]) + BlobLen[b],
                 TotalObjects(events[a], blobs[a]) + 1)

BlobPut(a, b) ==
  /\ ~tx.open
  /\ BlobPutAllowed(a, b)
  /\ blobs' = [blobs EXCEPT ![a] = @ \cup {b}]
  /\ UNCHANGED <<events, tx, replies, read>>

-----------------------------------------------------------------------------
(* push_events. *)

\* Take the writer lock, open the transaction, read MAX(server_seq) and, when a
\* cap is set, the account's usage.
PushBegin(a, batch) ==
  /\ ~tx.open
  /\ tx' = [open    |-> TRUE,
            account |-> a,
            todo    |-> batch,
            table   |-> events[a],
            next    |-> HighWater(events[a]),
            bytes   |-> IF Unlimited THEN 0 ELSE TotalBytes(events[a], blobs[a]),
            objects |-> IF Unlimited THEN 0 ELSE TotalObjects(events[a], blobs[a]),
            results |-> {}]
  /\ UNCHANGED <<events, blobs, replies, read>>

Event == Head(tx.todo)

\* Mutants: only committed rows are looked at; a blob of any account will do; the
\* event being added is not counted.
KnownCommitted == SeqsOf(events[tx.account], Event.change_id) # {}
AnyonesBlobs == Event.blob_refs \subseteq UNION {blobs[a] : a \in Account}
FitsQuotaBefore == Unlimited \/ WithinQuota(tx.bytes, tx.objects)

Known == SeqsOf(tx.table, Event.change_id) # {}
BlobsPresent == Event.blob_refs \subseteq blobs[tx.account]
FitsQuota ==
  Unlimited \/ WithinQuota(tx.bytes + Event.payload_bytes, tx.objects + 1)

\* What push_events reports for one event of the batch.
Result(seq, dup) ==
  [account |-> tx.account, change_id |-> Event.change_id,
   server_seq |-> seq, deduplicated |-> dup]

\* Mutants: a duplicate burns a sequence number; a duplicate is reported under the
\* sequence number it would have had.
PushDedupBurning ==
  /\ tx.open /\ tx.todo # <<>> /\ Known
  /\ LET seq == CHOOSE s \in SeqsOf(tx.table, Event.change_id) : TRUE
     IN tx' = [tx EXCEPT !.todo = Tail(tx.todo), !.next = @ + 1,
                         !.results = @ \cup {Result(seq, TRUE)}]
  /\ UNCHANGED <<events, blobs, replies, read>>
PushDedupRenumbered ==
  /\ tx.open /\ tx.todo # <<>> /\ Known
  /\ tx' = [tx EXCEPT !.todo = Tail(tx.todo),
                      !.results = @ \cup {Result(tx.next + 1, TRUE)}]
  /\ UNCHANGED <<events, blobs, replies, read>>

\* The change is already in the log: report its sequence, append nothing.
PushDedup ==
  /\ tx.open /\ tx.todo # <<>> /\ Known
  /\ LET seq == CHOOSE s \in SeqsOf(tx.table, Event.change_id) : TRUE
     IN tx' = [tx EXCEPT !.todo = Tail(tx.todo),
                         !.results = @ \cup {Result(seq, TRUE)}]
  /\ UNCHANGED <<events, blobs, replies, read>>

\* A new change whose blobs are present and which fits the quota.
PushAppend ==
  /\ tx.open /\ tx.todo # <<>> /\ ~Known
  /\ BlobsPresent
  /\ FitsQuota
  /\ tx' = [tx EXCEPT !.todo = Tail(tx.todo),
                      !.table = Insert(tx.table, tx.next + 1, Event),
                      !.next = tx.next + 1,
                      !.bytes = IF Unlimited THEN 0 ELSE @ + Event.payload_bytes,
                      !.objects = IF Unlimited THEN 0 ELSE @ + 1,
                      !.results = @ \cup {Result(tx.next + 1, FALSE)}]
  /\ UNCHANGED <<events, blobs, replies, read>>

\* Mutant: the events before the failing one are kept.
PushMissingBlobKeeping ==
  /\ tx.open /\ tx.todo # <<>> /\ ~Known
  /\ ~BlobsPresent
  /\ events' = [events EXCEPT ![tx.account] = tx.table]
  /\ tx' = NoTx
  /\ UNCHANGED <<blobs, replies, read>>

\* MissingBlob: the error drops the transaction, rolling back the whole batch.
PushMissingBlob ==
  /\ tx.open /\ tx.todo # <<>> /\ ~Known
  /\ ~BlobsPresent
  /\ tx' = NoTx
  /\ UNCHANGED <<events, blobs, replies, read>>

\* QuotaExceeded: likewise.
PushOverQuota ==
  /\ tx.open /\ tx.todo # <<>> /\ ~Known
  /\ BlobsPresent
  /\ ~FitsQuota
  /\ tx' = NoTx
  /\ UNCHANGED <<events, blobs, replies, read>>

\* The batch is exhausted: commit, release the lock, return the results.
PushCommit ==
  /\ tx.open /\ tx.todo = <<>>
  /\ events' = [events EXCEPT ![tx.account] = tx.table]
  /\ replies' = replies \cup tx.results
  /\ tx' = NoTx
  /\ UNCHANGED <<blobs, read>>

-----------------------------------------------------------------------------
(* pull_page: the page and the high-water mark are two statements of one    *)
(* deferred read transaction, which pins the snapshot its first statement   *)
(* sees; then the handler computes next_cursor from the page.               *)

PullPage(r, a, after) ==
  /\ read[r].phase = "idle"
  /\ read' = [read EXCEPT ![r] =
       [phase |-> "page", account |-> a, after |-> after,
        snapshot |-> events[a], page |-> PageSeqs(events[a], after)]]
  /\ UNCHANGED <<events, blobs, tx, replies>>

\* The account's high-water mark as the read transaction of r sees it.
SnapshotHighWater(r) == HighWater(read[r].snapshot)

PullHighWater(r) ==
  /\ read[r].phase = "page"
  /\ read' = [read EXCEPT ![r] =
       [phase |-> "done", account |-> read[r].account, after |-> read[r].after,
        page |-> read[r].page,
        high_water |-> SnapshotHighWater(r),
        next_cursor |-> Max(read[r].page \cup {read[r].after})]]
  /\ UNCHANGED <<events, blobs, tx, replies>>

PullReturn(r) ==
  /\ read[r].phase = "done"
  /\ read' = [read EXCEPT ![r] = NoRead]
  /\ UNCHANGED <<events, blobs, tx, replies>>

\* The process dies: SQLite discards the open transactions.
Crash ==
  /\ tx.open \/ \E r \in Reader : read[r].phase # "idle"
  /\ tx' = NoTx
  /\ read' = [r \in Reader |-> NoRead]
  /\ UNCHANGED <<events, blobs, replies>>

-----------------------------------------------------------------------------
Init ==
  /\ events = [a \in Account |-> <<>>]
  /\ blobs = [a \in Account |-> {}]
  /\ tx = NoTx
  /\ replies = {}
  /\ read = [r \in Reader |-> NoRead]

PushStep == PushDedup \/ PushAppend \/ PushMissingBlob \/ PushOverQuota \/ PushCommit

Next ==
  \/ \E a \in Account, b \in Blob : BlobPut(a, b)
  \/ \E a \in Account, batch \in Batch : PushBegin(a, batch)
  \/ PushStep
  \/ \E r \in Reader, a \in Account, after \in Cursor : PullPage(r, a, after)
  \/ \E r \in Reader : PullHighWater(r) \/ PullReturn(r)
  \/ Crash

Spec == Init /\ [][Next]_vars
-----------------------------------------------------------------------------
(* Properties. *)

IsTable(t) == DOMAIN t \subseteq Nat \ {0} /\ t \in [DOMAIN t -> EventRecord]
Reply == [account : Account, change_id : ChangeId, server_seq : Nat \ {0},
          deduplicated : BOOLEAN]

\* The table column types of init_schema and the shape of the calls in flight.
TypeOK ==
  /\ DOMAIN events = Account /\ \A a \in Account : IsTable(events[a])
  /\ blobs \in [Account -> SUBSET Blob]
  /\ tx = NoTx \/ /\ DOMAIN tx = {"open", "account", "todo", "table", "next",
                                 "bytes", "objects", "results"}
                  /\ tx.open = TRUE
                  /\ tx.account \in Account
                  /\ tx.todo \in Seq(EventRecord)
                  /\ IsTable(tx.table)
                  /\ tx.next \in Nat
                  /\ tx.results \subseteq Reply
  /\ replies \subseteq Reply

\* push_events numbers an account's events 1, 2, 3, ... with no gap, whatever
\* was rolled back or deduplicated in between.
LogDense ==
  \A a \in Account : DOMAIN events[a] = 1..HighWater(events[a])

\* A change_id is appended at most once per account, however often, and in
\* whatever batches, it is retried.
ChangeOnce ==
  \A a \in Account : \A s, t \in DOMAIN events[a] :
    events[a][s].change_id = events[a][t].change_id => s = t

\* Upload-before-commit: every blob a visible event refers to can be fetched.
UploadBeforeCommit ==
  \A a \in Account : \A s \in DOMAIN events[a] :
    events[a][s].blob_refs \subseteq blobs[a]

\* No interleaving of blob uploads and event batches takes an account past a
\* configured cap.
QuotaRespected ==
  \A a \in Account :
    Unlimited \/ WithinQuota(TotalBytes(events[a], blobs[a]),
                             TotalObjects(events[a], blobs[a]))

\* A sequence number reported to a client, whether for an append or for a
\* duplicate, stays the sequence number of that change: a client may drop its
\* outbox row on the strength of it.
RepliesTruthful ==
  \A rep \in replies :
    /\ rep.server_seq \in DOMAIN events[rep.account]
    /\ events[rep.account][rep.server_seq].change_id = rep.change_id

\* Committed events are immutable and new ones come after all of them: a reader
\* that has consumed a prefix never has to look back.
AppendOnlyStep ==
  \A a \in Account :
    /\ DOMAIN events[a] \subseteq DOMAIN events'[a]
    /\ \A s \in DOMAIN events[a] : events'[a][s] = events[a][s]
    /\ \A s \in DOMAIN events'[a] \ DOMAIN events[a] :
         \A t \in DOMAIN events[a] : t < s
AppendOnly == [][AppendOnlyStep]_vars

\* A page holds every event between the cursor it was asked for and the cursor it hands back,
\* so persisting next_cursor skips nothing; and it comes from one snapshot with the high-water
\* mark, so that a short page means the reader has caught up with the mark it is told.  A cursor
\* past that mark gets an empty page and stays where it is.
PageGapless ==
  \A r \in Reader : read[r].phase = "done" =>
    LET end == Max({read[r].after, read[r].high_water})
    IN  /\ read[r].page = (read[r].after + 1)..read[r].next_cursor
        /\ read[r].next_cursor <= end
        /\ Cardinality(read[r].page) < PageLimit => read[r].next_cursor = end

\* The store implements the abstract log, the transaction's inner steps being
\* invisible: a batch is appended as a whole or not at all.
Log == INSTANCE EventLog WITH log <- events
ImplementsEventLog == Log!Spec
=============================================================================
