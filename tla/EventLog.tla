------------------------------ MODULE EventLog ------------------------------
(***************************************************************************)
(* What the sync protocol needs of the server (ADR-022): per account, an   *)
(* append-only, gapless log in which every change occurs once, extended by *)
(* whole batches, and a content-addressed blob set that holds every blob a *)
(* logged event refers to.  SyncServerStore implements it; SyncEngine is   *)
(* written against it.                                                     *)
(***************************************************************************)
EXTENDS Integers, Sequences, FiniteSets

CONSTANTS Account, Blob, Batch

VARIABLES log, blobs

Ids(s) == {s[i].change_id : i \in DOMAIN s}

\* The positions of a batch that add something to a log: the first event of
\* every change the log does not hold yet.
NewAt(l, batch) ==
  {i \in DOMAIN batch :
     /\ batch[i].change_id \notin Ids(l)
     /\ \A j \in 1..(i - 1) : batch[j].change_id # batch[i].change_id}

\* Those events, in batch order.
Fresh(l, batch) ==
  LET at == NewAt(l, batch)
  IN [k \in 1..Cardinality(at) |->
        batch[CHOOSE i \in at : Cardinality({j \in at : j < i}) = k - 1]]

\* One idempotent push: all of the batch's new events at once.
PushBatch(a, batch) ==
  /\ \A i \in NewAt(log[a], batch) : batch[i].blob_refs \subseteq blobs[a]
  /\ log' = [log EXCEPT ![a] = @ \o Fresh(@, batch)]
  /\ UNCHANGED blobs

PutBlob(a, b) ==
  /\ blobs' = [blobs EXCEPT ![a] = @ \cup {b}]
  /\ UNCHANGED log

Init ==
  /\ log = [a \in Account |-> <<>>]
  /\ blobs = [a \in Account |-> {}]

Next ==
  \E a \in Account :
    \/ \E batch \in Batch : PushBatch(a, batch)
    \/ \E b \in Blob : PutBlob(a, b)

Spec == Init /\ [][Next]_<<log, blobs>>
=============================================================================
