# Verification of pergamon

TLA+ models of pergamon, a local-first reading library with end-to-end encrypted
sync. The TLC runs check the models on small instances; the TLAPS proofs show the
properties that matter most for every value of the constants. Source paths below
are relative to `crates/`.

## The system

| Component | State | Operations | Interacts with |
|---|---|---|---|
| Sync server store (`pergamon-sync-server/src/store.rs`, `quota.rs`, `routes/events.rs`) | per account: event table keyed by `server_seq`, blob table; one writer behind a mutex, pooled readers on WAL snapshots | `push_events`, `pull_page`, `blob_put`, probes, usage | HTTP routes; clients through `Transport` |
| Relay artifacts (`pergamon-sync-server/src/routes/relay.rs`) | device records, attestations, key wraps | put, list, append | onboarding |
| Server limits (`pool.rs`, `fairness.rs`, `abuse.rs`, `auth/throttle.rs`) | idle connections, permits per account, token buckets | check out, acquire, admit | every route |
| Accounts (`pergamon-sync-server/src/auth/*`) | credentials, tokens, bindings | register, login, refresh, bind | client `auth.rs`, `account_binding.rs` |
| Hybrid logical clock (`pergamon-core/src/sync/hlc.rs`) | wall millis, counter, device | `tick`, `observe`, order | tracked writes, apply |
| Merge policy (`pergamon-core/src/sync/merge.rs`) | none | `merge_lww`, `merge_conflict_copy`, `merge_set_member` | apply |
| Tracked writes (`pergamon-storage/src/sync.rs`) | canonical rows, field clocks, tombstones, set edges, outbox, applied ids, conflict inbox, cursor | `emit_change`, outbox and clock accessors, baseline | routes, engine |
| Apply (`pergamon-sync/src/apply.rs`) | the same tables | `apply_change` and its cases | engine |
| Sync engine (`pergamon-sync/src/engine.rs`) | device directory; locals of a round | `push`, `pull`, `verify_upload_complete` | transport, blob store, database |
| Worker and loop (`pergamon-server/src/sync_worker.rs`, `pergamon-sync/src/daemon.rs`, `schedule.rs`) | backoff, stop flag | `run_forever`, triggers | engine, web UI |
| Onboarding, keys (`pergamon-sync/src/onboarding.rs`, `pergamon-crypto`, `pergamon-keystore`) | account root key, epochs, device keys | bootstrap, enrol, approve, accept, recover, revoke | relay, command line, web onboarding |
| Web onboarding (`pergamon-server/src/onboarding.rs`, `pergamon-core/src/account_flow.rs`, `pergamon-storage/src/web_sync.rs`) | setup flow and phase, relay binding, key file, worker handle and shown status | the forms of the setup page | relay, accounts, key store, worker |
| Review (`pergamon-core/src/sync/review.rs`, `fsrs.rs`) | review logs and the card derived from them | fold the log union | apply |
| Library database (`pergamon-storage/src/db.rs`, `backup.rs`, `pergamon-core/src/{status,rule,model,smart_filter}.rs`) | items, tags, collections, feeds and folders, highlights, notes, review cards and logs, rules, link health, full-text index | CRUD, triage, bulk changes, restore, reports | every front end; tracked writes |
| Document tracking (`pergamon-server/src/sync_tracking.rs`) | the outbox | one call after a route's own write | routes, command line |
| HTTP API and web pages (`pergamon-server/src/routes`, `pagination.rs`) | feed fetches in flight; everything else is in the library | about sixty routes under one mutex | library, tracking |
| Command line and terminal (`pergamon-cli`) | the reader's list, cursor and prompt; the review session's queue of copies | commands, imports, exports, doctor, rules, keys | library, onboarding |
| Mobile (`pergamon-uniffi`, `apps/ios`) | the open library, the staging folder of the share extension | calls under a mutex, drain of captures | library |
| Converters (`pergamon-feed`, `pergamon-extract`, `pergamon-import`, `pergamon-export`) | none | parsing, formatting | front ends |

A device writes its canonical rows and an outbox row, pushes the outbox to the
account's log on the server, pulls the log past its cursor, verifies, decrypts and
merges every event. The server sees ciphertext only. There is no lock across
devices: whatever they agree on, they agree on because merging commutes.

What is hard here: rounds that end anywhere (crash, lost or truncated reply);
retries of what the server has already committed; page and batch boundaries; users
who edit while a round is running; clocks that differ; deletes crossing edits;
databases whose constraints refuse what another device could write; batches that
fail half way under one transaction; readers beside the writer; set-ups that span a
key file, a database and a relay and stop between two of them; and, in the library,
handlers that are several statements long and can be killed between any two, rows
that are kept a second time in an index or an outbox, and programs that act on
copies of rows another program changes. `PROJECT.json`
lists these hazards with their lines and the properties that cover them.

## Modules

| Module | Models |
|---|---|
| `EventLog` | abstract: per account an append-only log in which each change occurs once, extended by whole batches, and the blobs its events refer to |
| `SyncServerStore` | the store. `push_events` is split into begin, one step per event, and commit or rollback inside `tx`; `pull_page` into its two statements over a pinned snapshot; `blob_put`; process crash |
| `SyncServerStoreProofs` | theorems about the store, and that it implements `EventLog` |
| `HLC` | stamp, order, `tick`, `observe`, saturating counter |
| `SyncMerge` | the merge decisions for a field and a membership edge |
| `Positions`, `PositionProofs` | picking the members of a sequence at some positions, in order (a filtered query, a loop that skips rows), and what that returns |
| `SyncReplica` | one device's tables as a record; `emit_change` and `apply_change` as operators from replica to replica; the constraints of the schema |
| `SyncEngine` | devices running rounds against the log; each persistent write is a step, so a crash or an edit can come between any two |
| `SyncEngineProofs`, `ConvergenceProofs` | theorems about stamps and merging, and about the engine: what the log, the cursors, the blobs and the stamps promise, convergence, and what becomes of prose |
| `StoreAdmission` | how a request reaches the database: namespace lease, tenant slot, pooled reader or writer mutex, with the two condition variables, their sleepers, timeouts and spurious wakeups |
| `StoreAdmissionProofs` | theorems about admission |
| `ContentAuth` | tenants, device tokens, bindings of tenants to content namespaces, binding challenges, and the requests and binding commits in flight |
| `ContentAuthProofs` | theorems about content authorization |
| `WebOnboarding` | trusted web hosts that create, attach or join an account: database, key file, worker and running command of each host, and the relay's bindings, roster, attestations, wraps, recovery blobs and first events |
| `WebOnboardingProofs` | theorems about the set-up |
| `DeviceRoster` | devices that share accounts by the command line: key store, database and running command of each, the relay's records, wraps, attestations and recovery blobs, and what the user was told |
| `DeviceRosterProofs` | theorems about the command line's accounts |
| `LibraryDb` | the library as a record of tables; the functions of `db.rs` that write, as the clients call them, as operators on executions, and the queries that others need |
| `LibraryProcess` | a process that runs one execution to its end or dies within it |
| `LibraryReviews` | grading a card, the queue, and the card that logs derive |
| `LibraryPages` | what the API and the web pages list, count and link |
| `LibraryServer` | the routes that write, what they track for sync, and feed fetches that land late |
| `LibraryCli`, `LibraryMobile`, `TuiApp` | the commands, the phone's calls, and the keys of the terminal reader and review session |
| `LibraryReports`, `LibraryStats` | the reports over the library, and dates, streaks and periods |
| `LibraryBaseline` | the baseline of a library and its application on a device that has just joined |
| `LibraryLocal` | runs the command line, the terminal, the phone and the reports, one program per behaviour |
| `MC*` | the instances TLC checks |

`SyncReplica` extends `SyncMerge` extends `HLC`; `SyncEngine` extends
`SyncReplica`. `SyncServerStore` implements `EventLog` (its property
`ImplementsEventLog`), and the server inside `SyncEngine` is that log for one
account: `Appended` is `EventLog`'s deduplicating append. `StoreAdmission` and
`ContentAuth` meet at the lease: the first shows that a binding holds it alone and
that everybody gets and returns it, the second what its holders may then rely on.
`WebOnboarding` takes of the relay what `ContentAuth` establishes, that a binding
names an unused namespace and is for good, and keeps only its outcome; so does
`DeviceRoster`. `LibraryDb` is at the bottom of everything about the library:
`LibraryServer` and `LibraryLocal` extend it through `LibraryProcess` and so work on
the same `lib`; `LibraryLocal` instantiates the clients beside each other. Where
`LibraryDb` appends a row to the outbox, `SyncReplica` and `SyncEngine` take over.

### Correspondence and abstractions

- `events[a]` maps each `server_seq` to its row; `tx.table` is the table as the
  open transaction sees it. A rollback drops `tx`, as dropping the rusqlite
  transaction does. `replies` remembers what clients were told.
- Ciphertext, signatures and JSON are not modelled; of an envelope the change id,
  blob references and payload length matter. Saturating 64-bit sums are natural
  numbers: the sums of stored lengths stay far below the width.
- Device handles are numbers, since only their order is used. A change id is the
  device with the index of its outbox row, which stands for a fresh UUID.
- An entity has LWW fields and prose fields (`strategy_for`). Its foreign key and
  its unique key are attributes of the entity (`Parent`, `UniqueKey`): the code
  keeps them in columns, but no edit of the model changes a url, a tag's name or a
  note's item. The prose default `""` stands for NULL.
- A page is a range of sequence numbers, since rows of the log never change.
- `Crash(d)` covers a killed process and every retryable transport error: both
  lose the locals and keep the database. `Stopped` is the worker after a fatal
  error, `Restart` an operator starting it again.
- A blob missing on the server at `fetch_blobs` is not an action: `BlobsHeld`
  shows it does not happen. Forged signatures and events of a foreign account are
  inputs an honest relay never returns and are left out.
- `EmitChange` performs the canonical write and its tracking in one transaction,
  as `emit_change` does. The web routes call it after a canonical write of their
  own; that window is in `LibraryServer`.

- `StoreAdmission`: a step under a mutex is atomic; a release and its notification
  are two steps, because the code unlocks in between. `lapsed` are the waits whose
  deadline has passed. `run` covers the whole operation, whether it succeeds or
  not. The lease and the second look at the principal are one step (the look
  changes nothing and waits for nobody but short holders of the auth mutex), with
  both outcomes. `std::sync::RwLock` promises no order among its waiters, and the
  model assumes none.
- `ContentAuth`: the auth database sits behind one mutex, so an operation under one
  lock is one step, and where the code locks twice (admission, `start`, `finish`)
  the model does too. Revoked and expired tokens are refused alike, so a row is
  live or not; an expired challenge is a deleted one. Passwords, key proofs and
  signatures are taken to verify exactly when their owner made them. A revocation
  is looked at when a request is admitted and not again, as in the code. A tenant
  id is a fresh UUID; `RegisterLegacy` keeps the check that it was never used.
- `WebOnboarding`: the lock of `Runtime` spans a command, so a host runs one command
  at a time, and the model runs it as one step per durable write or relay call
  (`cmd[h].pc`); crashes, failures and the steps of other hosts come in between. A
  step whose conditions do not hold is a refusal (`Refuse`); what was written stays
  written. A form submitted from an older page carries an older revision and is
  refused, so the revision is left out and `Page` names the phases in which the
  template shows a form. Operators compare the SAS honestly, approve a device only
  while it waits for that, and sign in again when the page asks them to. While a
  binding is pending and a login needed the page shows the credentials form instead of
  the phase's own (`routes/web_sync.rs:61`); `Authenticate` is then possible in any
  phase. The other forms stay possible too, because the handlers look at the setup
  only and a page loaded before is not outdated by a lost login. The URL
  and the local label are fixed. Content ids and root keys are numbers in the order
  in which they were generated; a host is its own device handle. Bindings left over
  from the first protocol (`legacy_reserved`) are in `ContentAuth` only. Showing a
  SAS and triggering a round change nothing that is modelled.

- `LibraryDb`: an execution is the sequence of the libraries its statements leave
  (`trace`) and whether it is still going (`ok`); `Commit` appends one, `Require` is
  a constraint or an early return, `Transaction` keeps only the last of its block.
  A crash is a prefix of the trace, so handlers and their crashes come from one
  definition. Constraints (unique urls, names and guids, foreign keys with their
  cascades) are those of the migrations. Ids are numbers in the order of creation
  and stand for UUIDs and for `created_at`; a text is a word, enough to tell whether
  a search finds it. The index is a bag of rows, since nothing in SQLite stops two
  rows of one item.
- `LibraryServer`: the server keeps the library behind one mutex, so a handler is
  one step; the feed handlers let go of it while they fetch, and are two. A fetch is
  the version of the document the site has, and the redirect it follows. The
  server's errors that come before any write are no steps.
- `LibraryLocal`: a command line invocation is one step. The terminal programs keep a
  list or a queue between keys, and another process changes the library in between.
  The phone's calls hold a mutex; the share extension is another process that renames
  a finished file into the staging folder.
- `LibraryReviews`: what FSRS remembers of a card is the sequence of its grades, so
  two cards have the same schedule if they were graded alike; an interval is at
  least a day. `again` stands for the grade that fails, the three others are alike.
- `LibraryBaseline`: a change carries its fields in the order of a sorted map and
  each is written by itself, as `apply_fields` does for a device without clocks.
- `LibraryStats` works on proleptic Gregorian dates with the day numbers of
  `date_to_days`; it compares with the calendar itself (the day after).
- `DeviceRoster`: a command checks its guards, then its writes happen one by one and
  interleave with the other devices'; killed, the rest of the plan is dropped. One
  relay, one label. A sealed bundle is the record of what it seals. A creation runs with
  no recovery, with a passphrase (published as it is, whatever code was kept) or with a
  code (kept first); approving does not refuse the device's own record.

## Runs

| Run | Instance | Shows |
|---|---|---|
| `store` | 2 accounts, 3 changes (4 envelopes), 2 blobs, batches up to 2, page 2, cursors 0 to 4 (up to past the end), caps 5 bytes and 4 objects, 1 reader | all store properties and the refinement of `EventLog`; tenants see neither each other's blobs nor each other's numbering |
| `engine_edits` | 2 devices, 1 document and a tag, 3 edits of which one may be a delete, 1 fault, `BATCH` 2 | `LoggedOnce` (nothing appended twice, before its base, or acknowledged unlogged), `Convergence`, `ProseSafe` (text that loses is in the inbox, once) |
| `engine_rounds` | one founder, the second device enrols at any time, 2 shared blobs, 2 documents of one address, 2 edits, 1 fault, wall readings 1 and 2 in any order, counter maximum 2, fairness | `BlobsHeld`, `NothingSkipped`, `StampAhead`, `EventuallySynced` |
| `admission` | 6 requests (reads of three tenants, a write, a binding), pool of 2, cap 1, fairness | `PoolSound`, `BindingAlone`, `RequestsEnd` |
| `auth` | a migrated and a new tenant, a third namespace that may hold older content, 1 device, 2 operation ids, 2 token pairs, 2 challenges, one request and one binding commit in flight | `AdmittedOwnsNamespace`, `ContentReachable`, `BindingForGood` |
| `onboarding` | 2 hosts, 2 identities of which one operator knows both, fresh hosts or hosts that share an account with or without a content id, 1 library that gets items, 2 faults | `KeysKept`, `AccountAgreed`, `PublishedOnce`, `RecoveryCodeOpens`, `StatusHonest` |
| `library_server` | an empty library and one with a row in every table, 2 requests (feed fetches and publications besides), 1 fetch in flight, 1 kill | `SearchCurrent`, `ListingsAgree`, `OutboxCurrent`, `RefreshIngests` |
| `library_local` | shell: 2 commands; reader: 5 keys and another process; review session: 4 grades of 2 cards, one's own or elsewhere; phone: 3 calls and 2 captures; 1 kill each; statistics: every set of reading days in the five days up to a leap day, a new year and a first of March | `RestoreRoundTrip`, `RerunsSettle`, `ReviewsCounted`, `BaselineRebuilds`, `StatsSound`, `ClientsAgree`, `ActsOnShown` |
| `devices` | 3 devices, an open relay and one with sessions, all new, or one or two with an account, or one about to join; 2 or 3 commands, 1 kill | `RootsAgree`, `EpochAttested`, `SignersListed` |
| `engine_notes_lost` | notes with text on a document, and its delete | **violated** `ProseKept` |
| `join_refused` | 2 devices at an open relay, no kill | **violated** `JoinResumable` |
| `baseline_refused` | a shell on an empty library | **violated** `BaselineApplies` |

The bounds are the smallest that reach the cases meant: three edits give two
concurrent writes and one that follows one of them; `BATCH` 2 with three changes
gives a full page, a short page and an empty one; one fault hits every step of a
round, and a fault after a fault meets the same states again because a round has
no memory besides the database. Page size 2 with three changes does the same for
the reader. Four objects and five bytes are caps that one batch can stay under,
meet and pass. In `admission` two readers of one tenant meet the cap, three tenants
meet the pool's size, and sleepers of different tenants share a condition variable;
a pool of 2 is the smallest in which one connection is kept free. In `auth` two
token pairs give a login before and one after a binding, or two sessions at once (a
second device adds nothing: single tokens expire, so every set of dead tokens is
reached, and one device's sessions may answer each other's challenges);
two challenges give two operations racing, or one that is issued again. In
`onboarding` two hosts are a trusted device and a new one, or rivals for one
identity; two ids give two separate accounts; with two faults a retry of an
interrupted command is interrupted as well. Operators may submit forms for ever, so
no other bound is needed. Operation ids are only compared for equality and no
`CHOOSE` ranges over them, so permuting them is sound.

In the library runs every command and request is tried in the filled library, where
each meets rows of every table that the others left, and every pair of them one
after the other; with one kill the second works on what the first left half done.
Pages hold two rows and the filled library more, so that a last page is partly full.
Four ratings let a session rate a card, another one, and the first again from its own
copy. `RerunsSettle`, `RestoreRoundTrip` and `BaselineRebuilds` take further steps
from each state: the state is what commands and kills have made, the step is the
import, restore or join that meets it. In `devices` three commands are an enrolment, its
approval and its acceptance, and two a creation and its repetition.

Deadlock is not checked in the runs that end by their own bounds: `admission`, whose
requests are finite in number and for which `RequestsEnd` says more; `auth`, where
tokens run out; and the library and device runs, where the commands do.

Fairness (`FairSpec`): weak fairness on each device's rounds, which `run_forever`
justifies: a finished or failed round is followed by another one after a finite
delay, and a round that can take a step does. Edits, enrolment and restarts
have no fairness. The bound on faults states that the transport does not fail
forever. In `StoreAdmission` each thread takes its next step when it can (the blocking
pool is preemptive) and deadlines pass; spurious wakeups have no fairness, and the
requests are finitely many, so that a binding cannot be overtaken for ever. With
an endless stream of readers the lock's policy would decide that, and the standard
library promises none.

### What the violated properties say

1. `apply.rs` claims that prose a delete never observed goes to the inbox. It does
   for the deleted row's own fields, not for the notes that the row's delete
   cascades to (`engine_notes_lost`).
2. `enroll` tells the user to run `accept` next. At a relay without sessions it has
   saved the account id and no pending join by then, and `guard_cli_join` takes the
   device for one that already has an account (`join_refused`).
3. The baseline claims an order that respects foreign keys. A feed is sent with its
   folder, folders are not sent, and no joining device gets past the first such feed
   (`baseline_refused`). `BaselineRebuilds` shows that the rest of the baseline is as
   claimed, with the feeds taken out of their folders.

### Disagreements met while modelling

The models follow the code in each of these; the properties are stated so that they
hold beside them, and each says so where it matters. Paths without a crate are in
the file named first in the same item.

Sync:
- `apply.rs:9` says that applying changes commutes. A delete and a newer concurrent
  edit do not (the editor keeps row and text, the deleter re-creates the row without
  the text), so `Convergence` leaves out documents with a known delete.
- The claim about prose (`apply.rs:18`) has a second hole, met in the proof of
  `ProseIsSafe`. A text counts as observed when it is stamped no later than the delete's
  base version (`apply.rs:101`), the stamp of what the deleting device wrote last. Device
  2 deletes a document, a later status of device 1 keeps it there and brings it back on
  device 2, device 1 writes new text, device 2 writes another with a later stamp and
  deletes again. Device 1 knows the document to be deleted, so it sends the incoming text
  to the inbox, keeps its own with its earlier stamp, and the second delete erases it
  although its author never saw it. `EngineTextLost.cfg`, outside the table of runs, fixes
  these edits (`Scripted`), leaves open when they and the rounds happen, and has TLC find
  the loss. `ProseSafe` is `ProseKept` without this case and the notes'.
- Two devices that save one url before they sync each pull an event that their unique
  index refuses; the storage error is fatal and the event stays in front of the cursor
  (`engine.rs:205`). `engine_rounds` has two such documents: `NothingSkipped` shows the
  event is not passed over, and `EventuallySynced` names it as the one thing that keeps a
  device behind for ever although its worker is started again.
- `error.rs:118` calls fatal what retrying cannot fix; `IncompleteUpload`, raised when
  the user edits between push and verification, is among it and stops the worker
  (`sync_worker.rs:205`).
- ADR 029 (line 224) has creation persist its keys and a resumable intent; the web's
  `authenticate` writes the key file first (`onboarding.rs:595`) and the intent later,
  and stopped in between the host is refused by `guard_create_new` from then on.
- Only documents are tracked after the baseline (`sync_tracking.rs`): tags, notes,
  highlights, reviews and collections changed later stay where they are; so do
  changes by the terminal, bulk commands, imports and rules.
- The baseline leaves out highlight items without their own row, smart filters, sort
  orders and urls of highlights; a highlight arrives as `inbox`, because each field is
  written by `upsert_highlight` (`sync.rs:986`), which resets the status, and the title
  comes last. Rows from a peer never reach the full-text index.
- `DeviceRoster`: a key package is imported over whatever is there; a bootstrap after
  an enrolment keeps the other account's id beside a fresh root key and replaces its
  recovery blob; a bootstrap killed after the root key was saved cannot be repeated at
  an open relay; revocation re-wraps for devices revoked before, and other devices
  never advance their epoch; `current_epoch` reads one page of attestations; enabling
  from a key package, and finishing a cut-short attach by a login, publish no record;
  `sync-remote enable` after a key package of another account was imported keeps the
  key epoch of the old account (`main.rs:6998`). Accounts and devices that met these are
  in `mixed`, `unlisted` and `carried`.

Library:
- "R" in the terminal asks whether to archive all unread items of the view
  (`pergamon-cli/src/tui/event.rs:345`), but `bulk_update_status` numbers its placeholders
  wrongly (`db.rs:836`) and archives nothing. `ActsOnShown` lets the confirmed answer
  archive exactly those items, or none; it holds with the code's numbering and with a
  right one.
- A rule that adds to a collection passes the collection as the item and is refused
  (`pergamon-cli/src/main.rs:5781`).
- A smart filter with text never runs as SQL: such a collection is empty, and one such
  rule makes the administration page an error. The search page and `save-search` offer
  to save exactly such filters.
- `doctor merge` says it preserves extension tables; notes, cards and feed entries of
  the discarded item go.
- Bulk moves put members into smart collections, which a restore then refuses.
- Subscribing stores the etag before the entries are ingested; a crash in between
  hides them behind a 304. `RefreshIngests` is about refreshing, which is right.
- `merge_tags` refreshes the index after its transaction, and `run_migrations`
  documents a transaction that it does not open.
- Raindrop and Pocket imports killed between an item and its bookmark row do not add
  the row when they are run again.
- The phone's drain derives a highlight's id from the capture, "which is what makes
  finalization idempotent: reprocessing a drop file that survived a crash finds the
  highlight already present" (`pergamon-uniffi/src/lib.rs:456`). But the write is two:
  killed after the item (line 489) and before its meta row (490), it finds the item the
  next time, returns (470), and the meta row, with the quote and its source, is lost for
  good. `RerunsSettle` repeats the drain from each cut and makes an exception of this row
  only.
- The phone's restore empties the library before it reads the archive, and an emptied
  library is seeded with demo rows when it is opened.
- A review session overwrites a grade given elsewhere with its own copy
  (`ReviewsCounted` then only bounds the counters).
- The API accepts a page size of 0, for which the number of pages is a division by
  zero (`pagination.rs:76`); the web page raises it to 1.

## Proofs

TLC shows a property on a small instance, the theorems here for all values of the
constants that satisfy the named assumptions. Every module's argument has one shape:
an inductive invariant `IInv`, one lemma per action that it is kept
(`...KeepsIInv`), `NextKeepsIInv`, and the properties as consequences. The
assumptions give the constants their types and say what the code fixes: finite sets of
requests or blobs, positive page and batch sizes, a pool larger than the cap, edits of
fields and deletes that name a row, and one prose column per entity. TLC evaluates
each of them in some run.

**`SyncServerStoreProofs`** (from `StoreAssumption`)

- `StoreInvariant`. The properties of the committed table are not inductive, because a
  commit replaces it by the transaction's. The invariant says the same of the open
  transaction: its table is dense up to `tx.next`, extends the committed one, holds each
  change once with its blobs present, and its results name rows of it.
- `TypeCorrect`, `LogIsDense`, `ChangesOnce`, `UploadPrecedesCommit`, `RepliesStayTrue`
  follow; `StoreAppendsOnly` is the action property.
- `PagesAreGapless` adds what a reader holds: its snapshot is dense and a prefix of the
  table, so that a page has every number between its two cursors. A cursor past the end
  gets an empty page that ends at that cursor.
- `QuotaHolds` is `QuotaRespected`: rows and blobs of the committed and of the open
  table are counted, and their bytes summed, by the numbers the checks read. The bytes
  are a fold over a set, whose recursive function is a `CHOOSE`: the proof first shows
  that it exists (`AllSummable`: a smallest set without a sum would get one from its
  smaller parts) and then that members may be taken in any order (`SumTakes`, again by a
  smallest counterexample), which is what adding one row to a usage needs.
- `StoreImplementsEventLog` is the refinement, initial states and every step. The
  batch is consumed event by event and what was consumed is no longer in the state, so
  the proof carries it (`Consumed`): a batch that ends in the rest still to do, whose new
  changes are what the open table has over the committed one.

**`StoreAdmissionProofs`** (from `AdmissionAssumption`). `AdmissionInvariant`: the
properties speak of counters and holders, and what a thread holds is decided by the
place it is at, so the invariant reads every holder and counter off the places: the
gate is held by who is inside, each tenant's count is the number of its requests with a
slot, idle connections and readers add up to the pool. `BindingExcludes`, `PoolIsSound`
and `WritesAreSerial` follow, for any number of requests, tenants and connections.

**`ContentAuthProofs`** (from `AuthAssumption`). `AuthInvariant` adds that a tenant never
has two rows that are not retired and none before it registers: `binding_for` looks
among all rows, and only so is its answer determined. `AdmittedIsOwner`,
`ContentStaysReachable` and the action property `BindingsAreForGood` follow.

**`PositionProofs`**: `PickedInOrder`, the picked members are those at the positions, all
of them, in their order. `LeastMember` (a nonempty set of numbers has a least one, from
the well-foundedness of `<`) stands in for induction here and in the engine.

**`SyncEngineProofs`** (from `EngineAssumption`, `ReplicaAssumption`, `HlcAssumption`)

- `EngineInvariant`. The log holds, of every device, the first so many changes of its
  outbox, in their order; only logged changes are acknowledged or applied; the base of a
  change is the stamp of an earlier one; every clock in a replica is the stamp of a
  change the device knows, and the device's clock is not behind any of them; blobs are
  where their changes are (`DataOK`). Rounds have locals that outlive other devices'
  steps, so they get a part of their own (`RoundsOK`): a batch is in outbox order and
  leaves out only what is logged by now, the acknowledgements still to record are
  logged, and everything in front of a page's next event is the device's own or applied.
- `NothingIsSkipped`, `LoggedAtMostOnce`, `BlobsAreHeld` follow, whatever rounds are cut
  short; `StampsRunAhead` is the action property about `tick` and `observe`.

**`ConvergenceProofs`**: `ReplicasConverge`, that `Convergence` holds as long as no
counter has saturated. `Convergence` compares two replicas and says nothing of how they
came about, so the invariant (`CInv`) says what a replica is as a function of the set of
changes its device knows: of every field what the greatest stamp wrote, of every edge the
greatest add and remove, a row wherever a change wrote to one (`Settled`). Local writes
keep that because their stamps are later than all that is known; applied changes
because a stamp names its change and each merge keeps the greater. For this a change
must be stamped later than its base and than its device's earlier changes (`Ascending`),
and that is what ends when the counter saturates: after it, two changes of one device
can bear one stamp, and replicas do diverge.

`ProseIsSafe`, that `ProseSafe` holds as long, rests on the same invariant's other half
(`RepsHeld`). `ProseKept` is not inductive: live text may be overwritten or deleted next,
and whether it is then lost depends on what the clock of its column says of the changes
known. So of every text a device knows the invariant says which of four it is (`Held`):
in the inbox (`Boxed`), superseded by a change whose base is a version with that text
(`Superseded`), the value under the column's clock on a row nobody deleted (`Owned`), or
written by the device itself on a row it knew to be deleted (`Rewritten`), which only a
second delete can take. Undeleted rows are settled as above. Around it: clocks and
tombstones are those of known changes (`ClocksFrom`, `TombsFrom`), the base of a change is
the stamp of a version of its row that whoever knows the change also knows (`Grounded`,
from the author's knowledge and the order of the log), and an inbox row never bears the
stamp of what is live on an undeleted row, so that a replayed pull adds nothing
(`InboxFrom`). A local write, a merge, a conflict copy and a delete each keep that
(`...Held`). One assumption on the edits is used: of an entity one column at most is
prose, as `strategy_for` has it; with two, a base version would not tell which of them
its author saw.

**`WebOnboardingProofs`** (from `OnboardingAssumption`, which says that no host and no
identity is the string that stands for nobody)

- `OnboardingInvariant`. A command is a sequence of steps, each of which relies on what
  the earlier ones have written; between two of them the other hosts act, or the command
  fails and a later one finds what it left. The invariant says for each place of a
  command what its host has written by then (`Fits`: the flow is fixed, the key file is
  for the bound content, what is acknowledged was captured, what is shown runs), and
  what holds at the relay for a host at that place (`Holds`: its session is what its
  identity is bound to, who syncs or is about to is on the roster, the blob of a created
  account is the one its owner was shown). Three parts relate hosts to each other: all
  root keys of a content id are one, wherever they are, also sealed in a bundle or a
  recovery blob (`RootsOK`); the content id of a created account is shared only with
  those who join it (`ContentOwned`); ids and keys are generated once (`MintedOnce`).
- An action either leaves keys and relay alone (the `...Quiet` lemmas, `QuietKept`), or
  publishes something that no other host's part depends on (`Publishes`, `StepKept`), or
  generates or takes over keys (`Keyed`, `KeyedKept`).
- `AccountsAgree`, `PublishedAtMostOnce`, `CodesOpen`, `StatusIsHonest` and the action
  property `KeysAreKept` follow, for any hosts, identities, operators and faults.

**`DeviceRosterProofs`** (from `RosterAssumption`, which says of the set-ups what
`Sensible` does: devices and relay hold what commands leave that ran to their end, with
one root key per account, records and attestations for what is bound or sealed, and a
code for each recovery blob)

- `PlansFit`. A command is a plan that is data, any part of it may be all that is done,
  and the other devices act between two of its writes. The invariant (`Inv`) says of
  each write of each plan what it relies on (`Fits`), and each condition holds now or is
  brought about by an earlier write of the same plan: the identity is bound with the
  account's id, keys and a root key on the device, its record at the relay and an
  attestation of its epoch; a sealed bundle is for a listed device. Doing the first write
  of a plan then leaves a plan that fits (`WriteDone`), dropping a plan leaves what the
  device holds (`PlanDropped`), and a command only has to begin with one that fits
  (`...Keeps`).
- `BoundAreListed` follows, and `EpochsAreAttested`: `EpochAttested` holds while no account
  has more attestations than the relay lists at once. Past that page `current_epoch`
  misses the later ones, and the property fails in the code too.
- `AccountsAgree` is `RootsAgree`. A root key is tied to an id (`Tied`) where they are
  kept together, at the relay, by the user or on a device, and where a plan is still to
  bring them together. What a write leaves tied was tied before (`WriteTies`); a command
  ties a fresh id, or an id to the key it goes by, or marks the id as mixed
  (`...Agrees`). For the second half, a plan keeps or tells a code before it publishes
  its blob, and a kept code is not replaced (`Shows`).

**Stamps and merging** (at the head of `SyncEngineProofs`, from `HlcAssumption`): stamps are
totally ordered (`StampsTotallyOrdered`), `tick` and `observe` advance the clock past what they were
given while the counter has room (`TickAdvances`, `ObserveDominates`), two LWW writes
commute (`LwwCommutes`), and adds and removes of a member commute and may be repeated
(`SetMembersCommute`). The last two are about the merge functions by themselves, for
histories the engine may not produce.

Only model-checked:

- liveness (`EventuallySynced`, `RequestsEnd`): fairness and `ENABLED` are outside the
  prover;
- everything in the library modules (`SearchCurrent`, `ListingsAgree`, `OutboxCurrent`,
  `RefreshIngests`, `RestoreRoundTrip`, `RerunsSettle`, `ReviewsCounted`,
  `BaselineRebuilds`, `StatsSound`, `ClientsAgree`, `ActsOnShown`): they compare with
  recursive queries or rebuild the library by recursive folds.

## Not modelled

- Cryptographic primitives: out of TLC's reach; what they promise is assumed.
- FSRS arithmetic, which is floating point; the memory of a card is its grades.
- Parsing and formatting: feeds, articles, import files, exports, HTML, JSON, filter
  texts, command line arguments, diagnostics.
- The waiting times of the loop (`schedule.rs`), token buckets (`abuse.rs`) and the
  login throttle: a round or a request may come at any time in the models, and what
  the limits refuse is not told apart.
- Tracking errors, which the routes log and pass over (`sync_tracking.rs`), and two
  refreshes of one feed at the same time: the library instance has one fetch in flight.
- The operator's HTTP session, service installation, and the views of the apps.
- Two engines on one database at once (command line beside the server's worker), and
  two web hosts that attach one account at the same time and both publish a recovery
  blob: the models have one round per device and state `RecoveryCodeOpens` for
  accounts created by the host.

## Next

Models: two engines on one database, concurrent review cards, the login throttle.
Proofs: convergence with deletes, once a tombstone keeps the greater stamp.
