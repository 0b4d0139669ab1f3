------------------------------ MODULE SyncEngine ------------------------------
(***************************************************************************)
(* The client sync engine of crates/pergamon-sync/src/engine.rs: devices   *)
(* that edit their own replica, push their outbox to the account's log and *)
(* pull the log past their cursor.  Every persistent write is a step of its*)
(* own, so that a device can crash, and its user can edit, between any two.*)
(*                                                                         *)
(* Rounds are driven by the worker of pergamon-server/src/sync_worker.rs   *)
(* under daemon.rs: a retryable error ends the round, any other error stops*)
(* the worker until someone restarts it.                                   *)
(*                                                                         *)
(* The log is the EventLog the server implements: rows never change, so a  *)
(* page is held as a range of sequence numbers instead of a copy.          *)
(***************************************************************************)
EXTENDS SyncReplica, Positions

CONSTANTS
  Blob,        \* ciphertext hashes
  BATCH,       \* events per push or pull batch
  Wall,        \* readings of the devices' wall clocks, in any order (skew)
  Edits,       \* the local mutations users make: see Edit below
  Founders,    \* the devices enrolled from the start
  MaxEdits,    \* bound: local mutations in all
  MaxFaults    \* bound: crashes and lost or truncated replies in all

\* The field values a change carries, and what a user can ask for.
Fields == UNION {[some -> Value] : some \in SUBSET Field}
Edit ==
  [kind : {"fields", "delete", "edge"}, target : Entity \cup Edge, fields : Fields,
   present : BOOLEAN, refs : SUBSET Blob]

\* Of an entity one column at most is prose: a document's text, a note's body, a highlight's
\* note.
SameProse(x, y) ==
  x.kind = "fields" /\ y.kind = "fields" /\ x.target = y.target =>
    \A f \in DOMAIN x.fields \cap ProseField, g \in DOMAIN y.fields \cap ProseField : f = g

ASSUME EngineAssumption ==
  /\ BATCH \in Nat \ {0}
  /\ Wall \subseteq Nat
  /\ Edits \subseteq Edit
  /\ \A e \in Edits : e.kind # "edge" => e.target \in Entity
  /\ \A x, y \in Edits : SameProse(x, y)
  /\ Founders \subseteq Device
  /\ MaxEdits \in Nat
  /\ MaxFaults \in Nat

VARIABLES
  \* persistent, in the device's database
  hlc,      \* [Device -> Hlc]
  rep,      \* [Device -> replica]
  outbox,   \* [Device -> Seq(change)], in local_seq order
  acked,    \* [Device -> change ids with an acked_seq]
  applied,  \* [Device -> change ids in sync_applied]
  cursor,   \* [Device -> Nat]
  local,    \* [Device -> SUBSET Blob], the device's blob store
  \* volatile
  roster,   \* [Device -> SUBSET Device], the engine's device directory
  round,    \* [Device -> the locals of its sync round]
  \* the server
  enrolled, \* the devices whose record is published
  log,      \* Seq(change)
  blobs,    \* SUBSET Blob
  faults    \* faults so far

db == <<hlc, rep, outbox, acked, applied, cursor, local>>
server == <<enrolled, log, blobs>>
vars == <<db, roster, round, server, faults>>

\* The locals of push and pull: where the round is, the outbox rows being
\* pushed, the acknowledged ids still to be recorded, the next server_seq of
\* the page to handle and the last one of the page.
Locals(pc, batch, reply, pos, end) ==
  [pc |-> pc, batch |-> batch, reply |-> reply, pos |-> pos, end |-> end]
At(pc) == Locals(pc, <<>>, {}, 0, 0)
NoRound == At("idle")
Stopped == At("stopped")

Enter(d, locals) == round' = [round EXCEPT ![d] = locals]

Ids(s) == {s[i].id : i \in DOMAIN s}
Least(m, n) == IF m <= n THEN m ELSE n

-----------------------------------------------------------------------------
(* Local mutations: emit_change, one transaction each. *)

\* A mutation the user asks for: the row is there, or is created under an id
\* nobody has used.
UnusedId(e) == \A d \in Device : \A i \in DOMAIN outbox[d] : outbox[d][i].target # e

Possible(d, edit) ==
  CASE edit.kind = "fields" ->
         \/ rep[d].row[edit.target]
         \/ UnusedId(edit.target) /\ Insertable(rep[d], edit.target)
    [] edit.kind = "delete" -> rep[d].row[edit.target]
    [] edit.kind = "edge" ->
         /\ rep[d].row[EdgeEntity[edit.target]]
         /\ rep[d].member[edit.target] # edit.present

\* The body that goes into the outbox, and the replica after the write.
Body(d, edit, clock) ==
  CASE edit.kind = "fields" -> WriteBody(rep[d], edit.target, edit.fields, clock)
    [] edit.kind = "delete" -> DeleteBody(rep[d], edit.target, clock)
    [] edit.kind = "edge" -> EdgeBody(edit.target, edit.present, clock)

Written(d, edit, clock) ==
  CASE edit.kind = "fields" -> LocalWrite(rep[d], edit.target, edit.fields, clock)
    [] edit.kind = "delete" -> LocalDelete(rep[d], edit.target, clock)
    [] edit.kind = "edge" -> LocalEdge(rep[d], edit.target, edit.present, clock)

\* enqueue_outbox: the body under a fresh change id, from this device.
OutboxRow(d, body, refs) ==
  [id |-> <<d, Len(outbox[d]) + 1>>, device_id |-> d, refs |-> refs,
   kind |-> body.kind, target |-> body.target, clock |-> body.clock,
   base |-> body.base, fields |-> body.fields, present |-> body.present]

\* Every change emitted so far, by anyone.
Emitted == UNION {{outbox[d][i] : i \in DOMAIN outbox[d]} : d \in Device}

EmitChange(d, edit, now) ==
  /\ d \in enrolled
  /\ Cardinality(Emitted) < MaxEdits
  /\ Possible(d, edit)
  /\ LET clock == Tick(hlc[d], now) IN
       /\ hlc' = [hlc EXCEPT ![d] = clock]
       /\ rep' = [rep EXCEPT ![d] = Written(d, edit, clock)]
       /\ outbox' = [outbox EXCEPT ![d] =
            Append(@, OutboxRow(d, Body(d, edit, clock), edit.refs))]
  /\ local' = [local EXCEPT ![d] = @ \cup edit.refs]
  /\ UNCHANGED <<acked, applied, cursor, roster, round, server, faults>>

-----------------------------------------------------------------------------
(* A round: refresh the roster, push, pull, verify. *)

\* enroll_publish: a device publishes its record before it is let in.
Enroll(d) ==
  /\ d \notin enrolled
  /\ enrolled' = enrolled \cup {d}
  /\ UNCHANGED <<db, roster, round, log, blobs, faults>>

\* pending_outbox(BATCH)
Unacked(d) == {i \in DOMAIN outbox[d] : outbox[d][i].id \notin acked[d]}
Pending(d) ==
  LET rows == Picked(outbox[d], Unacked(d))
  IN SubSeq(rows, 1, Least(BATCH, Len(rows)))

In(d, pc) == round[d].pc = pc
Idle(d) == In(d, "idle")
BatchOf(d) == round[d].batch

\* Mutant: no round unless there is something to push.
StartSyncToPush(d) ==
  /\ Idle(d) /\ d \in enrolled /\ Pending(d) # <<>>
  /\ roster' = [roster EXCEPT ![d] = enrolled]
  /\ Enter(d, At("push"))
  /\ UNCHANGED <<db, server, faults>>

\* The worker's next round, with the roster the relay has now.
StartSync(d) ==
  /\ Idle(d) /\ d \in enrolled
  /\ roster' = [roster EXCEPT ![d] = enrolled]
  /\ Enter(d, At("push"))
  /\ UNCHANGED <<db, server, faults>>

\* Someone starts a stopped worker again.
Restart(d) ==
  /\ In(d, "stopped")
  /\ Enter(d, NoRound)
  /\ UNCHANGED <<db, roster, server, faults>>

-----------------------------------------------------------------------------
(* push *)

ReadPending(d) ==
  /\ In(d, "push") /\ Pending(d) # <<>>
  /\ Enter(d, Locals("upload", Pending(d), {}, 0, 0))
  /\ UNCHANGED <<db, roster, server, faults>>

\* Outbox drained: on to the pull.
PushDone(d) ==
  /\ In(d, "push") /\ Pending(d) = <<>>
  /\ Enter(d, At("pull"))
  /\ UNCHANGED <<db, roster, server, faults>>

\* upload_blobs: put one blob the server is missing.
BatchRefs(d) == UNION {BatchOf(d)[i].refs : i \in DOMAIN BatchOf(d)}

UploadBlob(d) ==
  /\ In(d, "upload")
  /\ \E b \in (BatchRefs(d) \cap local[d]) \ blobs : blobs' = blobs \cup {b}
  /\ UNCHANGED <<db, roster, round, enrolled, log, faults>>

\* Mutants: a retried change is appended again; the batch does not wait for its
\* blobs.
AppendedAgain(b) == log \o b
ReadyAnyway(d) == In(d, "upload")

\* transport.push: the server appends what it does not have.
NewIn(b) == {i \in DOMAIN b : b[i].id \notin Ids(log)}
Appended(b) == log \o Picked(b, NewIn(b))
ReadyToSend(d) == In(d, "upload") /\ BatchRefs(d) \subseteq blobs

SendBatch(d) ==
  /\ ReadyToSend(d)
  /\ log' = Appended(BatchOf(d))
  /\ Enter(d, Locals("ack", BatchOf(d), Ids(BatchOf(d)), 0, 0))
  /\ UNCHANGED <<db, roster, enrolled, blobs, faults>>

\* The same, but the reply leaves some of the batch's changes out.
SendTruncated(d) ==
  /\ ReadyToSend(d)
  /\ faults < MaxFaults
  /\ log' = Appended(BatchOf(d))
  /\ \E part \in SUBSET Ids(BatchOf(d)) \ {Ids(BatchOf(d))} :
       Enter(d, Locals("ack", BatchOf(d), part, 0, 0))
  /\ faults' = faults + 1
  /\ UNCHANGED <<db, roster, enrolled, blobs>>

\* The server commits, but the reply never arrives: push returns an error.
LoseReply(d) ==
  /\ ReadyToSend(d)
  /\ faults < MaxFaults
  /\ log' = Appended(BatchOf(d))
  /\ Enter(d, NoRound)
  /\ faults' = faults + 1
  /\ UNCHANGED <<db, roster, enrolled, blobs>>

\* mark_outbox_acked, one row at a time.
AckRow(d) ==
  /\ In(d, "ack")
  /\ \E id \in round[d].reply :
       /\ acked' = [acked EXCEPT ![d] = @ \cup {id}]
       /\ Enter(d, [round[d] EXCEPT !.reply = @ \ {id}])
  /\ UNCHANGED <<hlc, rep, outbox, applied, cursor, local, roster, server, faults>>

\* All results recorded: the next batch, or IncompleteUpload, which is fatal, if
\* some change of the batch was not acknowledged.
AckDone(d) ==
  /\ In(d, "ack") /\ round[d].reply = {}
  /\ Enter(d, IF Ids(BatchOf(d)) \subseteq acked[d] THEN At("push") ELSE Stopped)
  /\ UNCHANGED <<db, roster, server, faults>>

-----------------------------------------------------------------------------
(* pull *)

FetchPage(d) ==
  /\ In(d, "pull") /\ cursor[d] < Len(log)
  /\ Enter(d, Locals("apply", <<>>, {}, cursor[d] + 1, Least(cursor[d] + BATCH, Len(log))))
  /\ UNCHANGED <<db, roster, server, faults>>

\* An empty page: pull returns.
PullDone(d) ==
  /\ In(d, "pull") /\ cursor[d] >= Len(log)
  /\ Enter(d, At("verify"))
  /\ UNCHANGED <<db, roster, server, faults>>

InPage(d) == In(d, "apply") /\ round[d].pos <= round[d].end
NextEvent(d) == Enter(d, [round[d] EXCEPT !.pos = @ + 1])

\* The event pull handles next, and whether it is an echo or a re-delivery.
Incoming(d) == log[round[d].pos]
Skippable(d) == Incoming(d).device_id = d \/ Incoming(d).id \in applied[d]

SkipEvent(d) ==
  /\ InPage(d) /\ Skippable(d)
  /\ NextEvent(d)
  /\ UNCHANGED <<db, roster, server, faults>>

\* fetch_blobs stores one missing blob of the event, outside the transaction.
FetchBlob(d) ==
  /\ InPage(d) /\ ~Skippable(d)
  /\ Incoming(d).device_id \in roster[d]
  /\ \E b \in (Incoming(d).refs \cap blobs) \ local[d] :
       local' = [local EXCEPT ![d] = @ \cup {b}]
  /\ UNCHANGED <<hlc, rep, outbox, acked, applied, cursor, roster, round, server, faults>>

\* observe_remote_hlc, apply_change and mark_change_applied in one transaction.
ApplyEvent(d, now) ==
  /\ InPage(d) /\ ~Skippable(d)
  /\ Incoming(d).device_id \in roster[d]
  /\ Incoming(d).refs \subseteq local[d]
  /\ Applicable(rep[d], Incoming(d))
  /\ hlc' = [hlc EXCEPT ![d] = Observe(@, Incoming(d).clock, now)]
  /\ rep' = [rep EXCEPT ![d] = ApplyChange(@, Incoming(d))]
  /\ applied' = [applied EXCEPT ![d] = @ \cup {Incoming(d).id}]
  /\ NextEvent(d)
  /\ UNCHANGED <<outbox, acked, cursor, local, roster, server, faults>>

\* Mutants: an event that cannot be verified, or cannot be applied, is passed over.
PassUnknownSigner(d) ==
  /\ InPage(d) /\ ~Skippable(d)
  /\ Incoming(d).device_id \notin roster[d]
  /\ NextEvent(d)
  /\ UNCHANGED <<db, roster, server, faults>>

PassRefused(d) ==
  /\ InPage(d) /\ ~Skippable(d)
  /\ Incoming(d).device_id \in roster[d] /\ Incoming(d).refs \subseteq local[d]
  /\ ~Applicable(rep[d], Incoming(d))
  /\ NextEvent(d)
  /\ UNCHANGED <<db, roster, server, faults>>

\* UnknownSigner is retryable: the next round refreshes the roster.
RejectSigner(d) ==
  /\ InPage(d) /\ ~Skippable(d)
  /\ Incoming(d).device_id \notin roster[d]
  /\ Enter(d, NoRound)
  /\ UNCHANGED <<db, roster, server, faults>>

\* A constraint that the transaction violates is a storage error, and fatal.
RejectEvent(d) ==
  /\ InPage(d) /\ ~Skippable(d)
  /\ Incoming(d).device_id \in roster[d]
  /\ Incoming(d).refs \subseteq local[d]
  /\ ~Applicable(rep[d], Incoming(d))
  /\ Enter(d, Stopped)
  /\ UNCHANGED <<db, roster, server, faults>>

\* The page is handled: set_sync_cursor, then another page unless it was short.
AdvanceCursor(d) ==
  /\ In(d, "apply") /\ round[d].pos > round[d].end
  /\ Enter(d, IF round[d].end - cursor[d] < BATCH THEN At("verify") ELSE At("pull"))
  /\ cursor' = [cursor EXCEPT ![d] = round[d].end]
  /\ UNCHANGED <<hlc, rep, outbox, acked, applied, local, roster, server, faults>>

\* verify_upload_complete: the outbox must be drained and every blob it refers
\* to on the server, or the round ends in the fatal IncompleteUpload.
OutboxRefs(d) == UNION {outbox[d][i].refs : i \in DOMAIN outbox[d]}
UploadComplete(d) == Pending(d) = <<>> /\ OutboxRefs(d) \subseteq blobs

VerifyUpload(d) ==
  /\ In(d, "verify")
  /\ Enter(d, IF UploadComplete(d) THEN NoRound ELSE Stopped)
  /\ UNCHANGED <<db, roster, server, faults>>

\* The process dies and is started again, or the transport fails, anywhere in a
\* round.
Crash(d) ==
  /\ ~Idle(d) /\ ~In(d, "stopped")
  /\ faults < MaxFaults
  /\ Enter(d, NoRound)
  /\ faults' = faults + 1
  /\ UNCHANGED <<db, roster, server>>

-----------------------------------------------------------------------------
Init ==
  /\ hlc = [d \in Device |-> Zero(d)]
  /\ rep = [d \in Device |-> EmptyReplica]
  /\ outbox = [d \in Device |-> <<>>]
  /\ acked = [d \in Device |-> {}]
  /\ applied = [d \in Device |-> {}]
  /\ cursor = [d \in Device |-> 0]
  /\ local = [d \in Device |-> {}]
  /\ roster = [d \in Device |-> {}]
  /\ round = [d \in Device |-> NoRound]
  /\ enrolled = Founders
  /\ log = <<>>
  /\ blobs = {}
  /\ faults = 0

Push(d) ==
  \/ ReadPending(d) \/ PushDone(d) \/ UploadBlob(d) \/ SendBatch(d)
  \/ AckRow(d) \/ AckDone(d)

Pull(d) ==
  \/ FetchPage(d) \/ PullDone(d) \/ SkipEvent(d) \/ FetchBlob(d)
  \/ \E now \in Wall : ApplyEvent(d, now)
  \/ RejectSigner(d) \/ RejectEvent(d) \/ AdvanceCursor(d)

SyncStep(d) == StartSync(d) \/ Push(d) \/ Pull(d) \/ VerifyUpload(d)

Next ==
  \E d \in Device :
    \/ \E edit \in Edits, now \in Wall : EmitChange(d, edit, now)
    \/ SyncStep(d)
    \/ Enroll(d) \/ Restart(d)
    \/ SendTruncated(d) \/ LoseReply(d) \/ Crash(d)

Spec == Init /\ [][Next]_vars

\* The worker keeps running rounds (run_forever) and a round keeps moving; edits,
\* enrolment and restarts are up to the users and get no fairness.
FairSpec == Spec /\ \A d \in Device : WF_vars(SyncStep(d))
-----------------------------------------------------------------------------
(* Properties. *)

\* The changes a device has in its database: its own and the ones it applied.
Knows(d) == {c \in Emitted : c.device_id = d \/ c.id \in applied[d]}

\* The cursor never passes an event the device has neither written nor applied,
\* whatever rounds were cut short in between: pull persists the cursor last.
NothingSkipped ==
  \A d \in Device :
    /\ cursor[d] <= Len(log)
    /\ \A i \in 1..cursor[d] : log[i].device_id = d \/ log[i].id \in applied[d]

\* A change is in the log at most once however often its batch was retried, and push
\* acknowledges an outbox row, never to be sent again, only if it is there; the log lists each
\* device's changes in the order they were made, and a change only after the version it was
\* based on, so that a replica that pulls in order has the base of what it merges.
LoggedOnce ==
  /\ \A i, j \in DOMAIN log : log[i].id = log[j].id => i = j
  /\ \A d \in Device : acked[d] \subseteq Ids(log)
  /\ \A i \in DOMAIN log :
       /\ \A j \in 1..(i - 1) :
            log[j].device_id = log[i].device_id => log[j].id[2] < log[i].id[2]
       /\ log[i].base # NoClock => \E j \in 1..(i - 1) : log[j].clock = log[i].base

\* A new change is stamped later than every change its device knows, so that it
\* wins over all of them on every replica, wall clocks notwithstanding, until the
\* counter has run into its maximum, which it never passes.
Newest(s) == s[Len(s)]
StampAheadStep ==
  \A d \in Device :
    Len(outbox'[d]) > Len(outbox[d]) =>
      /\ Newest(outbox'[d]).clock \in Hlc
      /\ Newest(outbox'[d]).clock.counter < MaxCounter =>
           \A c \in Knows(d) : Before(c.clock, Newest(outbox'[d]).clock)
StampAhead == [][StampAheadStep]_vars

\* Devices that know the same changes show the same rows, values and tags, in whatever order
\* they came to know them, as long as none of the changes is a delete: set_tombstone replaces
\* whatever tombstone there is, and after two deletes the order of arrival decides.
Convergence ==
  \A d, o \in Device :
    Knows(d) = Knows(o) /\ (\A c \in Knows(d) : c.kind # "delete") =>
      /\ rep[d].row = rep[o].row
      /\ rep[d].val = rep[o].val
      /\ rep[d].member = rep[o].member

\* Authored prose is never lost silently: on every device that knows of it, what
\* someone wrote is the live text, is in the conflict inbox, or was replaced or
\* deleted by someone who had it in front of them.  (A delete of the parent may have
\* seen whatever is stamped before it.)
Live(d, c, f) == rep[d].row[c.target] /\ rep[d].val[c.target][f] = c.fields[f]
InInbox(d, c, f) ==
  \E x \in BagToSet(rep[d].inbox) :
    x.entity = c.target /\ x.field = f /\ x.value = c.fields[f]
Replaced(d, c, f) ==
  \/ \E n, seen \in Knows(d) :
       /\ n.target = c.target
       /\ n.kind = "delete" \/ f \in DOMAIN n.fields
       /\ n.base = seen.clock
       /\ f \in DOMAIN seen.fields /\ seen.fields[f] = c.fields[f]
  \/ \E n \in Knows(d) :
       n.kind = "delete" /\ n.target = Parent[c.target] /\ Before(c.clock, n.clock)
Kept(d, c, f) == Live(d, c, f) \/ InInbox(d, c, f) \/ Replaced(d, c, f)
ProseKept ==
  \A d \in Device : \A c \in Knows(d) : \A f \in DOMAIN c.fields \cap ProseField : Kept(d, c, f)

\* Where that claim ends.  Deleting the parent takes the row along unlooked at.  And text a
\* device writes on a row it knows to be deleted (a newer status had kept it) goes with the
\* next delete, if that one's author has written a version stamped later, which it may have
\* without having seen the text.
Deletes(d, e) == {n \in Knows(d) : n.kind = "delete" /\ n.target = e}
DeletedTwice(d, e) == \E n, m \in Deletes(d, e) : n # m
Undermined(d, c) ==
  \/ Deletes(d, Parent[c.target]) # {}
  \/ /\ c.device_id = d /\ DeletedTwice(d, c.target)
     /\ \E n \in Deletes(d, c.target) : Before(n.clock, c.clock)

\* Everywhere else no prose is lost; and what is in the inbox is there once, even if the pull
\* that found it was cut short and run again, unless the row has been deleted twice.
ProseSafe ==
  \A d \in Device :
    /\ \A c \in Knows(d) : \A f \in DOMAIN c.fields \cap ProseField :
         Kept(d, c, f) \/ Undermined(d, c)
    /\ \A x \in BagToSet(rep[d].inbox) :
         rep[d].inbox[x] = 1 \/ DeletedTwice(d, x.entity)

\* Upload before commit and download before apply: the log refers only to blobs
\* the server has, a device only to blobs it has itself.
BlobsHeld ==
  /\ \A i \in DOMAIN log : log[i].refs \subseteq blobs
  /\ \A d \in Device : \A c \in Knows(d) : c.refs \subseteq local[d]

\* Once users stop editing, every enrolled device ends up with an empty outbox
\* and the whole log behind its cursor, unless its worker has stopped for good, or an
\* event ahead of the cursor is one that its database refuses in every round.
Refuses(d) ==
  \E i \in cursor[d] + 1 .. Len(log) :
    log[i].device_id # d /\ log[i].id \notin applied[d] /\ ~Applicable(rep[d], log[i])
CaughtUp(d) == Pending(d) = <<>> /\ (cursor[d] = Len(log) \/ Refuses(d))
EventuallySynced ==
  <>[](\A d \in enrolled : In(d, "stopped") \/ CaughtUp(d))

=============================================================================
