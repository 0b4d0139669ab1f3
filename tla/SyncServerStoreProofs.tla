----------------------- MODULE SyncServerStoreProofs -----------------------
(***************************************************************************)
(* The store's invariants for every set of accounts, changes, blobs and    *)
(* readers, every batch and every quota.                                   *)
(*                                                                         *)
(* None of the invariants is inductive alone: a commit publishes the table *)
(* the open transaction has built, so that everything said of the committed*)
(* tables must be said of that table too, together with the fact that it   *)
(* extends the committed one and that its `next' is its high-water mark.   *)
(* The last part shows that the store implements EventLog.                 *)
(***************************************************************************)
EXTENDS SyncServerStore, PositionProofs

\* A well-formed table: numbered 1..n, each change once, its blobs present.
Good(t, bs) ==
  /\ HighWater(t) \in Nat
  /\ DOMAIN t = 1..HighWater(t)
  /\ \A s, u \in DOMAIN t : t[s].change_id = t[u].change_id => s = u
  /\ \A s \in DOMAIN t : t[s].blob_refs \subseteq bs

\* A table keeps the rows of an earlier one.
Extends(t, old) ==
  /\ DOMAIN old \subseteq DOMAIN t
  /\ \A s \in DOMAIN old : t[s] = old[s]

Truthful(r, t) ==
  /\ r.server_seq \in DOMAIN t
  /\ t[r.server_seq].change_id = r.change_id

\* What holds of the open transaction.
TxOK ==
  tx.open =>
    /\ Good(tx.table, blobs[tx.account])
    /\ tx.next = HighWater(tx.table)
    /\ Extends(tx.table, events[tx.account])
    /\ \A r \in tx.results : r.account = tx.account /\ Truthful(r, tx.table)

\* The inductive invariant.
IInv ==
  /\ TypeOK
  /\ \A a \in Account : Good(events[a], blobs[a])
  /\ TxOK
  /\ RepliesTruthful

-----------------------------------------------------------------------------
(* Tables. *)

\* MAX(server_seq) of a table numbered 1..n is n.
LEMMA HighWaterOfDense ==
  ASSUME NEW t, NEW n \in Nat, DOMAIN t = 1..n
  PROVE  HighWater(t) = n
<1>1. CASE n = 0
  BY <1>1 DEF HighWater
<1>2. CASE n # 0
  <2>1. n \in 1..n /\ \A y \in 1..n : n >= y
    BY <1>2
  <2>2. Max(1..n) \in 1..n /\ \A y \in 1..n : Max(1..n) >= y
    BY <2>1 DEF Max
  <2>3. Max(1..n) = n
    BY <2>1, <2>2
  <2> QED BY <1>2, <2>1, <2>3 DEF HighWater
<1> QED BY <1>1, <1>2

\* Appending a change the table does not hold, with its blobs present, at the
\* next number gives a well-formed table that extends it.
LEMMA InsertIsGood ==
  ASSUME NEW t, NEW bs, NEW ev, NEW n, NEW new,
         ev \in EventRecord, Good(t, bs), IsTable(t),
         SeqsOf(t, ev.change_id) = {}, ev.blob_refs \subseteq bs,
         n = HighWater(t), new = Insert(t, n + 1, ev)
  PROVE  /\ Good(new, bs) /\ IsTable(new) /\ Extends(new, t)
         /\ HighWater(new) = n + 1
         /\ n + 1 \in DOMAIN new
         /\ new[n + 1] = ev
<1>1. n \in Nat /\ DOMAIN t = 1..n
  BY DEF Good
<1>2. DOMAIN new = 1..(n + 1)
  BY <1>1 DEF Insert
<1>3. \A s \in 1..n : new[s] = t[s]
  BY <1>1 DEF Insert
<1>4. new[n + 1] = ev
  BY <1>1 DEF Insert
<1>5. HighWater(new) = n + 1
  BY <1>1, <1>2, HighWaterOfDense
<1>6. \A s \in 1..n : t[s].change_id # ev.change_id
  BY <1>1 DEF SeqsOf
<1>7. \A s \in 1..(n + 1) : s \in 1..n \/ s = n + 1
  BY <1>1
<1>8. \A s, u \in DOMAIN new : new[s].change_id = new[u].change_id => s = u
  <2> SUFFICES ASSUME NEW s \in 1..(n + 1), NEW u \in 1..(n + 1),
                      new[s].change_id = new[u].change_id
               PROVE  s = u
    BY <1>2
  <2>1. CASE s \in 1..n /\ u \in 1..n
    BY <1>1, <1>3, <2>1 DEF Good
  <2>2. CASE s = n + 1 \/ u = n + 1
    BY <1>3, <1>4, <1>6, <1>7, <2>2
  <2> QED BY <1>7, <2>1, <2>2
<1>9. \A s \in DOMAIN new : new[s].blob_refs \subseteq bs
  BY <1>1, <1>2, <1>3, <1>4, <1>7 DEF Good
<1>10. Good(new, bs)
  BY <1>1, <1>2, <1>5, <1>8, <1>9 DEF Good
<1>11. IsTable(new)
  <2>1. \A s \in DOMAIN new : new[s] \in EventRecord
    BY <1>1, <1>2, <1>3, <1>4, <1>7 DEF IsTable
  <2>2. new = [s \in DOMAIN new |-> new[s]]
    BY DEF Insert
  <2> QED BY <1>1, <1>2, <2>1, <2>2 DEF IsTable
<1>12. Extends(new, t)
  BY <1>1, <1>2, <1>3 DEF Extends
<1> QED
  BY <1>1, <1>2, <1>4, <1>5, <1>10, <1>11, <1>12

-----------------------------------------------------------------------------
(* The invariant. *)

LEMMA InitIInv == Init => IInv
<1> SUFFICES ASSUME Init PROVE IInv
  OBVIOUS
<1>1. IsTable(<<>>) /\ DOMAIN <<>> = 1..0
  BY DEF IsTable
<1>2. HighWater(<<>>) = 0
  BY <1>1, HighWaterOfDense
<1>3. \A a \in Account : Good(events[a], blobs[a])
  BY <1>1, <1>2 DEF Init, Good
<1>4. TypeOK
  BY <1>1 DEF Init, TypeOK
<1> QED
  BY <1>3, <1>4 DEF Init, IInv, TxOK, NoTx, RepliesTruthful

\* The fields of an open transaction have their types.
TxType ==
  /\ DOMAIN tx = {"open", "account", "todo", "table", "next", "bytes",
                  "objects", "results"}
  /\ tx.account \in Account
  /\ tx.todo \in Seq(EventRecord)
  /\ IsTable(tx.table)
  /\ tx.next \in Nat
  /\ tx.results \subseteq Reply

LEMMA OpenTxTyped == TypeOK /\ tx.open => TxType
BY DEF TypeOK, NoTx, TxType

\* The next event of an open transaction, and what is left after it.
LEMMA EventTyped ==
  ASSUME TxType, tx.todo # <<>>
  PROVE  Event \in EventRecord /\ Tail(tx.todo) \in Seq(EventRecord)
BY DEF Event, TxType

LEMMA BlobPutKeepsIInv ==
  ASSUME IInv, NEW a \in Account, NEW b \in Blob, BlobPut(a, b)
  PROVE  IInv'
<1>1. blobs' \in [Account -> SUBSET Blob]
  BY DEF IInv, TypeOK, BlobPut
<1>2. \A c \in Account : blobs[c] \subseteq blobs'[c]
  BY DEF IInv, TypeOK, BlobPut
<1>3. TypeOK'
  BY <1>1 DEF IInv, TypeOK, BlobPut
<1>4. \A c \in Account : Good(events[c], blobs'[c])
  BY <1>2 DEF IInv, Good
<1> QED
  BY <1>3, <1>4 DEF IInv, TxOK, RepliesTruthful, Truthful, BlobPut

LEMMA PushBeginKeepsIInv ==
  ASSUME IInv, NEW a \in Account, NEW batch \in Batch, PushBegin(a, batch)
  PROVE  IInv'
<1>1. batch \in Seq(EventRecord)
  BY StoreAssumption
<1>2. IsTable(events[a]) /\ Good(events[a], blobs[a]) /\ HighWater(events[a]) \in Nat
  BY DEF IInv, TypeOK, Good
<1>3. /\ tx'.open = TRUE /\ tx'.account = a /\ tx'.todo = batch
      /\ tx'.table = events[a] /\ tx'.next = HighWater(events[a])
      /\ tx'.results = {}
      /\ DOMAIN tx' = {"open", "account", "todo", "table", "next", "bytes",
                       "objects", "results"}
  BY DEF PushBegin
<1>4. events' = events /\ blobs' = blobs /\ replies' = replies
  BY DEF PushBegin
<1>5. TypeOK'
  BY <1>1, <1>2, <1>3, <1>4 DEF IInv, TypeOK
<1>6. TxOK'
  BY <1>2, <1>3, <1>4 DEF TxOK, Extends
<1> QED
  BY <1>4, <1>5, <1>6 DEF IInv, RepliesTruthful, Good

LEMMA PushDedupKeepsIInv ==
  ASSUME IInv, PushDedup
  PROVE  IInv'
<1> DEFINE seq == CHOOSE s \in SeqsOf(tx.table, Event.change_id) : TRUE
<1>1. TxType /\ tx.open = TRUE /\ TxOK /\ tx.open
  BY OpenTxTyped DEF IInv, PushDedup, TypeOK, NoTx
<1>2. Event \in EventRecord /\ Tail(tx.todo) \in Seq(EventRecord)
  BY <1>1, EventTyped DEF PushDedup
<1>3. seq \in SeqsOf(tx.table, Event.change_id)
  BY DEF PushDedup, Known
<1>4. seq \in DOMAIN tx.table /\ tx.table[seq].change_id = Event.change_id
  BY <1>3 DEF SeqsOf
<1> HIDE DEF seq
<1>5. Result(seq, TRUE) \in Reply
  BY <1>1, <1>2, <1>4, StoreAssumption DEF Result, Reply, TxType, IsTable
<1>6. tx' = [tx EXCEPT !.todo = Tail(tx.todo), !.results = @ \cup {Result(seq, TRUE)}]
  BY DEF PushDedup, seq
<1>7. /\ tx'.open = TRUE /\ tx'.account = tx.account /\ tx'.todo = Tail(tx.todo)
      /\ tx'.table = tx.table /\ tx'.next = tx.next
      /\ tx'.results = tx.results \cup {Result(seq, TRUE)}
      /\ DOMAIN tx' = DOMAIN tx
  BY <1>1, <1>6 DEF TxType
<1>8. events' = events /\ blobs' = blobs /\ replies' = replies
  BY DEF PushDedup
<1>9. TypeOK'
  BY <1>1, <1>2, <1>5, <1>7, <1>8 DEF IInv, TypeOK, TxType
<1>10. Result(seq, TRUE).account = tx.account /\ Truthful(Result(seq, TRUE), tx.table)
  BY <1>4 DEF Result, Truthful
<1>11. TxOK'
  BY <1>1, <1>7, <1>8, <1>10 DEF TxOK
<1> QED
  BY <1>8, <1>9, <1>11 DEF IInv, RepliesTruthful, Good

LEMMA PushAppendKeepsIInv ==
  ASSUME IInv, PushAppend
  PROVE  IInv'
<1> DEFINE new == Insert(tx.table, tx.next + 1, Event)
           res == Result(tx.next + 1, FALSE)
<1>1. TxType /\ tx.open = TRUE /\ TxOK /\ tx.open
  BY OpenTxTyped DEF IInv, PushAppend, TypeOK, NoTx
<1>2. Event \in EventRecord /\ Tail(tx.todo) \in Seq(EventRecord)
  BY <1>1, EventTyped DEF PushAppend
<1>3. /\ Good(tx.table, blobs[tx.account]) /\ IsTable(tx.table)
      /\ tx.next = HighWater(tx.table) /\ tx.next \in Nat
  BY <1>1 DEF TxOK, TxType
<1>4. SeqsOf(tx.table, Event.change_id) = {} /\ Event.blob_refs \subseteq blobs[tx.account]
  BY DEF PushAppend, Known, BlobsPresent
<1>5. /\ Good(new, blobs[tx.account]) /\ IsTable(new) /\ Extends(new, tx.table)
      /\ HighWater(new) = tx.next + 1
      /\ tx.next + 1 \in DOMAIN new /\ new[tx.next + 1] = Event
  <2> HIDE DEF new
  <2>1. new = Insert(tx.table, tx.next + 1, Event)
    BY DEF new
  <2>2. /\ Event \in EventRecord
        /\ Good(tx.table, blobs[tx.account]) /\ IsTable(tx.table)
        /\ SeqsOf(tx.table, Event.change_id) = {}
        /\ Event.blob_refs \subseteq blobs[tx.account]
        /\ tx.next = HighWater(tx.table)
    BY <1>2, <1>3, <1>4
  <2> QED BY <2>1, <2>2, InsertIsGood
<1> HIDE DEF new
<1>6. res \in Reply
  BY <1>1, <1>2, <1>3, StoreAssumption DEF Result, Reply, TxType
<1>7. res.account = tx.account /\ Truthful(res, new)
  BY <1>5 DEF Result, Truthful
<1> HIDE DEF res
<1>8. /\ tx'.open = TRUE /\ tx'.account = tx.account /\ tx'.todo = Tail(tx.todo)
      /\ tx'.table = new /\ tx'.next = tx.next + 1
      /\ tx'.results = tx.results \cup {res}
      /\ DOMAIN tx' = DOMAIN tx
  BY <1>1 DEF PushAppend, TxType, new, res
<1>9. events' = events /\ blobs' = blobs /\ replies' = replies
  BY DEF PushAppend
<1>10. TypeOK'
  BY <1>1, <1>2, <1>3, <1>5, <1>6, <1>8, <1>9 DEF IInv, TypeOK, TxType
<1>11. \A r \in tx.results : r.account = tx.account /\ Truthful(r, new)
  BY <1>1, <1>5 DEF TxOK, Truthful, Extends
<1>12. Extends(new, events[tx.account])
  BY <1>1, <1>5 DEF TxOK, Extends
<1>13. TxOK'
  BY <1>5, <1>7, <1>8, <1>9, <1>11, <1>12 DEF TxOK
<1> QED
  BY <1>9, <1>10, <1>13 DEF IInv, RepliesTruthful, Good

LEMMA PushCommitKeepsIInv ==
  ASSUME IInv, PushCommit
  PROVE  IInv'
<1>1. TxType /\ tx.open = TRUE /\ TxOK /\ tx.open
  BY OpenTxTyped DEF IInv, PushCommit, TypeOK, NoTx
<1>2. DOMAIN events = Account /\ tx.account \in Account
  BY <1>1 DEF IInv, TypeOK, TxType
<1>3. /\ DOMAIN events' = Account
      /\ events'[tx.account] = tx.table
      /\ \A a \in Account \ {tx.account} : events'[a] = events[a]
  BY <1>2 DEF PushCommit
<1>4. blobs' = blobs /\ replies' = replies \cup tx.results /\ tx' = NoTx
  BY DEF PushCommit
<1>5. TypeOK'
  BY <1>1, <1>3, <1>4 DEF IInv, TypeOK, TxType
<1>6. \A a \in Account : Good(events'[a], blobs'[a])
  BY <1>1, <1>3, <1>4 DEF IInv, TxOK
<1>7. \A a \in Account : Extends(events'[a], events[a])
  BY <1>1, <1>3 DEF TxOK, Extends
<1>8. RepliesTruthful'
  <2> SUFFICES ASSUME NEW r \in replies'
               PROVE  /\ r.server_seq \in DOMAIN events'[r.account]
                      /\ events'[r.account][r.server_seq].change_id = r.change_id
    BY DEF RepliesTruthful
  <2>1. CASE r \in tx.results
    BY <1>1, <1>3, <2>1 DEF TxOK, Truthful
  <2>2. CASE r \in replies
    <3>1. r.account \in Account
      BY <2>2 DEF IInv, TypeOK, Reply
    <3> QED BY <1>7, <2>2, <3>1 DEF IInv, RepliesTruthful, Extends
  <2> QED BY <1>4, <2>1, <2>2
<1> QED
  BY <1>4, <1>5, <1>6, <1>8 DEF IInv, TxOK, NoTx

\* Dropping the transaction, by an error or a crash, and the readers' steps.
LEMMA NoWriteKeepsIInv ==
  ASSUME IInv, UNCHANGED <<events, blobs, replies>>, UNCHANGED tx \/ tx' = NoTx
  PROVE  IInv'
<1>1. CASE UNCHANGED tx
  BY <1>1 DEF IInv, TypeOK, TxOK, RepliesTruthful, Good
<1>2. CASE tx' = NoTx
  BY <1>2 DEF IInv, TypeOK, TxOK, NoTx, RepliesTruthful, Good
<1> QED BY <1>1, <1>2

LEMMA NextKeepsIInv == IInv /\ [Next]_vars => IInv'
<1> SUFFICES ASSUME IInv, [Next]_vars PROVE IInv'
  OBVIOUS
<1>1. ASSUME NEW a \in Account, NEW b \in Blob, BlobPut(a, b) PROVE IInv'
  BY <1>1, BlobPutKeepsIInv
<1>2. ASSUME NEW a \in Account, NEW batch \in Batch, PushBegin(a, batch) PROVE IInv'
  BY <1>2, PushBeginKeepsIInv
<1>3. CASE PushDedup
  BY <1>3, PushDedupKeepsIInv
<1>4. CASE PushAppend
  BY <1>4, PushAppendKeepsIInv
<1>5. CASE PushMissingBlob \/ PushOverQuota
  BY <1>5, NoWriteKeepsIInv DEF PushMissingBlob, PushOverQuota
<1>6. CASE PushCommit
  BY <1>6, PushCommitKeepsIInv
<1>7. ASSUME NEW r \in Reader, NEW a \in Account, NEW after \in Cursor,
             PullPage(r, a, after)
      PROVE  IInv'
  BY <1>7, NoWriteKeepsIInv DEF PullPage
<1>8. ASSUME NEW r \in Reader, PullHighWater(r) \/ PullReturn(r) PROVE IInv'
  BY <1>8, NoWriteKeepsIInv DEF PullHighWater, PullReturn
<1>9. CASE Crash
  BY <1>9, NoWriteKeepsIInv DEF Crash
<1>10. CASE UNCHANGED vars
  BY <1>10, NoWriteKeepsIInv DEF vars
<1> QED
  BY <1>1, <1>2, <1>3, <1>4, <1>5, <1>6, <1>7, <1>8, <1>9, <1>10
  DEF Next, PushStep

\* The inductive invariant holds in every reachable state of the store.
THEOREM StoreInvariant == Spec => []IInv
BY InitIInv, NextKeepsIInv, PTL DEF Spec

\* The tables and the calls in flight keep their types (init_schema, push_events).
THEOREM TypeCorrect == Spec => []TypeOK
<1>1. IInv => TypeOK
  BY DEF IInv
<1> QED BY <1>1, StoreInvariant, PTL

\* push_events numbers every account's log 1, 2, 3, ... without a gap.
THEOREM LogIsDense == Spec => []LogDense
<1>1. IInv => LogDense
  BY DEF IInv, LogDense, Good
<1> QED BY <1>1, StoreInvariant, PTL

\* No change is ever appended twice to an account's log, within a batch or
\* across retries.
THEOREM ChangesOnce == Spec => []ChangeOnce
<1>1. IInv => ChangeOnce
  BY DEF IInv, ChangeOnce, Good
<1> QED BY <1>1, StoreInvariant, PTL

\* Every blob a committed event refers to is in the account's blob store.
THEOREM UploadPrecedesCommit == Spec => []UploadBeforeCommit
<1>1. IInv => UploadBeforeCommit
  BY DEF IInv, UploadBeforeCommit, Good
<1> QED BY <1>1, StoreInvariant, PTL

\* The sequence number push_events reports for a change stays that change's.
THEOREM RepliesStayTrue == Spec => []RepliesTruthful
<1>1. IInv => RepliesTruthful
  BY DEF IInv
<1> QED BY <1>1, StoreInvariant, PTL

LEMMA StepAppendsOnly == IInv /\ [Next]_vars => [AppendOnlyStep]_vars
<1> SUFFICES ASSUME IInv, [Next]_vars PROVE AppendOnlyStep
  OBVIOUS
<1>1. CASE UNCHANGED events
  BY <1>1 DEF AppendOnlyStep
<1>2. CASE PushCommit
  <2>1. TxType /\ tx.open = TRUE /\ TxOK /\ tx.open
    BY <1>2, OpenTxTyped DEF IInv, PushCommit, TypeOK, NoTx
  <2>2. DOMAIN events = Account /\ tx.account \in Account
    BY <2>1 DEF IInv, TypeOK, TxType
  <2>3. /\ events'[tx.account] = tx.table
        /\ \A a \in Account \ {tx.account} : events'[a] = events[a]
    BY <1>2, <2>2 DEF PushCommit
  <2>4. Extends(tx.table, events[tx.account])
    BY <2>1 DEF TxOK
  <2>5. \A s \in DOMAIN tx.table \ DOMAIN events[tx.account] :
          \A t \in DOMAIN events[tx.account] : t < s
    BY <2>1, <2>2 DEF IInv, TxOK, Good
  <2> QED BY <2>3, <2>4, <2>5 DEF AppendOnlyStep, Extends
<1>3. UNCHANGED events \/ PushCommit
  BY DEF Next, PushStep, BlobPut, PushBegin, PushDedup, PushAppend,
         PushMissingBlob, PushOverQuota, PullPage, PullHighWater, PullReturn,
         Crash, vars
<1> QED BY <1>1, <1>2, <1>3

\* Committed rows never change and new ones come after them, whatever fails,
\* crashes or reads in between.
THEOREM StoreAppendsOnly == Spec => AppendOnly
BY StoreInvariant, StepAppendsOnly, PTL DEF Spec, AppendOnly

-----------------------------------------------------------------------------
(* Pages. *)

\* The page of a table numbered 1..n after a cursor: the rows up to PageLimit further
\* on, or to the end; nothing when the cursor is past it.
LEMMA PageOfDense ==
  ASSUME NEW t, NEW n \in Nat, DOMAIN t = 1..n, NEW after \in Nat
  PROVE  \E m, end \in Nat :
           /\ end = Max({after, n}) /\ m <= end
           /\ PageSeqs(t, after) = (after + 1)..m
           /\ Max(PageSeqs(t, after) \cup {after}) = m
           /\ Cardinality(PageSeqs(t, after)) < PageLimit => m = end
<1> DEFINE end == IF after <= n THEN n ELSE after
           m == IF after + PageLimit <= end THEN after + PageLimit ELSE end
<1>0. Max({after, n}) = end
  <2>1. end \in {after, n} /\ \A y \in {after, n} : end >= y
    OBVIOUS
  <2>2. Max({after, n}) \in {after, n} /\ \A y \in {after, n} : Max({after, n}) >= y
    BY <2>1 DEF Max
  <2> QED BY <2>1, <2>2
<1>1. PageLimit \in Nat /\ PageLimit # 0 /\ after \in Nat /\ end \in Nat /\ after <= end
  BY StoreAssumption
<1>2. m \in after..end /\ m \in Nat
  BY <1>1
<1>3. ASSUME NEW s \in 1..n, s > after
      PROVE  Cardinality({u \in 1..n : after < u /\ u < s}) = s - 1 - after
  <2>1. {u \in 1..n : after < u /\ u < s} = (after + 1)..(s - 1)
    BY <1>1, <1>3
  <2>2. Cardinality((after + 1)..(s - 1)) =
          IF after + 1 > s - 1 THEN 0 ELSE (s - 1) - (after + 1) + 1
    BY <1>1, FS_Interval
  <2>3. (IF after + 1 > s - 1 THEN 0 ELSE (s - 1) - (after + 1) + 1) = s - 1 - after
    BY <1>1, <1>3
  <2> QED BY <2>1, <2>2, <2>3
<1>4. PageSeqs(t, after) = {s \in 1..n : s > after /\ s - 1 - after < PageLimit}
  BY <1>3 DEF PageSeqs
<1>5. PageSeqs(t, after) = (after + 1)..m
  BY <1>1, <1>4
<1>6. PageSeqs(t, after) \cup {after} = after..m
  BY <1>1, <1>2, <1>5
<1>7. Max(after..m) = m
  <2>1. m \in after..m /\ \A y \in after..m : m >= y
    BY <1>1, <1>2
  <2>2. Max(after..m) \in after..m /\ \A y \in after..m : Max(after..m) >= y
    BY <2>1 DEF Max
  <2> QED BY <1>1, <1>2, <2>1, <2>2
<1>8. Cardinality((after + 1)..m) = m - after
  <2> HIDE DEF m, end
  <2>1. Cardinality((after + 1)..m) = IF after + 1 > m THEN 0 ELSE m - (after + 1) + 1
    BY <1>1, <1>2, FS_Interval
  <2> QED BY <1>1, <1>2, <2>1
<1>9. m - after < PageLimit => m = end
  BY <1>1
<1> HIDE DEF m, end
<1>10. m <= end
  BY <1>1, <1>2
<1> QED BY <1>0, <1>1, <1>2, <1>5, <1>6, <1>7, <1>8, <1>9, <1>10

\* What holds of the calls of pull_page: the snapshot a page was read from is a
\* whole log and the cursor is a number.  PageGapless speaks of the answer only.
ReadOK ==
  /\ DOMAIN read = Reader
  /\ \A r \in Reader :
       /\ read[r].phase \in {"idle", "page", "done"}
       /\ read[r].phase = "page" =>
            /\ HighWater(read[r].snapshot) \in Nat
            /\ DOMAIN read[r].snapshot = 1..HighWater(read[r].snapshot)
            /\ read[r].after \in Nat
            /\ read[r].page = PageSeqs(read[r].snapshot, read[r].after)
  /\ PageGapless

LEMMA StepKeepsReadOK == IInv /\ ReadOK /\ [Next]_vars => ReadOK'
<1> SUFFICES ASSUME IInv, ReadOK, [Next]_vars PROVE ReadOK'
  OBVIOUS
<1>1. CASE UNCHANGED read
  BY <1>1 DEF ReadOK, PageGapless
<1>2. ASSUME NEW r \in Reader, NEW a \in Account, NEW after \in Cursor,
             PullPage(r, a, after)
      PROVE  ReadOK'
  <2>1. /\ DOMAIN read' = Reader
        /\ \A q \in Reader \ {r} : read'[q] = read[q]
        /\ read'[r].phase = "page" /\ read'[r].after = after
        /\ read'[r].snapshot = events[a]
        /\ read'[r].page = PageSeqs(events[a], after)
    BY <1>2 DEF PullPage, ReadOK
  <2>2. /\ HighWater(events[a]) \in Nat /\ DOMAIN events[a] = 1..HighWater(events[a])
        /\ after \in Nat
    BY StoreAssumption DEF IInv, Good
  <2>3. PageGapless'
    BY <2>1 DEF ReadOK, PageGapless
  <2> QED BY <2>1, <2>2, <2>3 DEF ReadOK
<1>3. ASSUME NEW r \in Reader, PullHighWater(r)
      PROVE  ReadOK'
  <2> DEFINE t == read[r].snapshot
             after == read[r].after
  <2>1. /\ DOMAIN read' = Reader
        /\ \A q \in Reader \ {r} : read'[q] = read[q]
        /\ read'[r].phase = "done" /\ read'[r].after = after
        /\ read'[r].page = read[r].page
        /\ read'[r].high_water = HighWater(t)
        /\ read'[r].next_cursor = Max(read[r].page \cup {after})
    BY <1>3 DEF PullHighWater, SnapshotHighWater, ReadOK
  <2>2. /\ HighWater(t) \in Nat /\ DOMAIN t = 1..HighWater(t)
        /\ after \in Nat /\ read[r].page = PageSeqs(t, after)
    BY <1>3 DEF ReadOK, PullHighWater
  <2> HIDE DEF t, after
  <2>3. PICK m, end \in Nat :
           /\ end = Max({after, HighWater(t)}) /\ m <= end
           /\ PageSeqs(t, after) = (after + 1)..m
           /\ Max(PageSeqs(t, after) \cup {after}) = m
           /\ Cardinality(PageSeqs(t, after)) < PageLimit => m = end
    BY <2>2, PageOfDense
  <2>4. PageGapless'
    BY <2>1, <2>2, <2>3 DEF ReadOK, PageGapless
  <2> QED BY <2>1, <2>4 DEF ReadOK
<1>4. ASSUME NEW r \in Reader, PullReturn(r)
      PROVE  ReadOK'
  BY <1>4 DEF PullReturn, ReadOK, PageGapless, NoRead
<1>5. CASE Crash
  BY <1>5 DEF Crash, ReadOK, PageGapless, NoRead
<1> QED
  BY <1>1, <1>2, <1>3, <1>4, <1>5
  DEF Next, vars, PushStep, BlobPut, PushBegin, PushDedup, PushAppend,
      PushMissingBlob, PushOverQuota, PushCommit

\* pull_page: a page holds every event between the cursor it was asked for and the one
\* it hands back, and a short page ends at the high-water mark it reports or at a cursor
\* beyond that.
THEOREM PagesAreGapless == Spec => []PageGapless
<1>1. Init => ReadOK
  BY DEF Init, ReadOK, PageGapless, NoRead
<1>2. ReadOK => PageGapless
  BY DEF ReadOK
<1> QED BY <1>1, <1>2, StepKeepsReadOK, StoreInvariant, PTL DEF Spec

-----------------------------------------------------------------------------
(* Sums over a finite set, in place of the library's facts on folds, which   *)
(* take operators as parameters.                                             *)

\* The member a fold takes first.
Pick(s) == CHOOSE x \in s : TRUE

\* g gives, for each part of S, the sum of w over it: the recursive function of a fold.
Summing(w, S, g) ==
  g = [s \in SUBSET S |-> IF s = {} THEN 0 ELSE w[Pick(s)] + g[s \ {Pick(s)}]]
Summable(w, S) == \E g : Summing(w, S, g)
Sum(w, S) == (CHOOSE g : Summing(w, S, g))[S]

LEMMA PickLess ==
  ASSUME NEW s, IsFiniteSet(s), s # {}
  PROVE  /\ Pick(s) \in s
         /\ IsFiniteSet(s \ {Pick(s)})
         /\ Cardinality(s) \in Nat /\ Cardinality(s \ {Pick(s)}) \in Nat
         /\ Cardinality(s \ {Pick(s)}) < Cardinality(s)
<1>1. PICK x \in s : x = Pick(s)
  BY DEF Pick
<1>2. IsFiniteSet(s \ {x}) /\ Cardinality(s \ {x}) = Cardinality(s) - 1
  BY FS_RemoveElement
<1>3. Cardinality(s) \in Nat /\ Cardinality(s \ {x}) \in Nat
  BY <1>2, FS_CardinalityType
<1> QED BY <1>1, <1>2, <1>3

\* Whatever two of them are defined on, they agree on the parts they share.
LEMMA SummingAgree ==
  ASSUME NEW w, NEW S, NEW U, NEW g, NEW h,
         Summing(w, S, g), Summing(w, U, h),
         NEW T, T \subseteq S, T \subseteq U, IsFiniteSet(T)
  PROVE  g[T] = h[T]
<1> DEFINE bad == {n \in Nat : \E V \in SUBSET T : Cardinality(V) = n /\ g[V] # h[V]}
<1>1. SUFFICES ASSUME bad # {} PROVE FALSE
  <2>1. Cardinality(T) \in Nat
    BY FS_CardinalityType
  <2> QED BY <2>1
<1>2. PICK n \in bad : \A m \in bad : n <= m
  BY <1>1, LeastMember
<1>3. PICK V \in SUBSET T : Cardinality(V) = n /\ g[V] # h[V]
  OBVIOUS
<1>4. IsFiniteSet(V)
  BY FS_Subset
<1>5. V \in SUBSET S /\ V \in SUBSET U
  OBVIOUS
<1>6. /\ g[V] = IF V = {} THEN 0 ELSE w[Pick(V)] + g[V \ {Pick(V)}]
      /\ h[V] = IF V = {} THEN 0 ELSE w[Pick(V)] + h[V \ {Pick(V)}]
  BY <1>5 DEF Summing
<1>7. V # {}
  BY <1>3, <1>6
<1> DEFINE X == V \ {Pick(V)}
<1>8. Cardinality(X) \in Nat /\ Cardinality(X) < n /\ n \in Nat
  BY <1>3, <1>4, <1>7, PickLess
<1>9. X \in SUBSET T /\ g[X] # h[X]
  BY <1>3, <1>6, <1>7
<1>10. Cardinality(X) \in bad
  BY <1>8, <1>9
<1> HIDE DEF bad, X
<1> QED BY <1>2, <1>8, <1>10

\* One member taken off, when the sum of the rest exists too.
LEMMA SumStep ==
  ASSUME NEW w, NEW S, IsFiniteSet(S), Summable(w, S), S # {},
         Summable(w, S \ {Pick(S)})
  PROVE  Sum(w, S) = w[Pick(S)] + Sum(w, S \ {Pick(S)})
<1> DEFINE g == CHOOSE f : Summing(w, S, f)
           X == S \ {Pick(S)}
           h == CHOOSE f : Summing(w, X, f)
<1>1. Summing(w, S, g) /\ Summing(w, X, h)
  BY DEF Summable
<1>2. Sum(w, S) = g[S] /\ Sum(w, X) = h[X]
  BY DEF Sum
<1> HIDE DEF g, h
<1>3. g[S] = w[Pick(S)] + g[X]
  BY <1>1 DEF Summing
<1>4. g[X] = h[X]
  <2>1. IsFiniteSet(X) /\ X \subseteq S /\ X \subseteq X
    BY PickLess
  <2> HIDE DEF X
  <2> QED BY <1>1, <2>1, SummingAgree
<1> QED BY <1>2, <1>3, <1>4

LEMMA SumOfNone ==
  ASSUME NEW w
  PROVE  Summable(w, {}) /\ Sum(w, {}) = 0
<1> DEFINE g == [s \in SUBSET {} |-> 0]
<1>1. Summing(w, {}, g)
  <2>1. \A s \in SUBSET {} : s = {}
    OBVIOUS
  <2>2. g = [s \in SUBSET {} |-> IF s = {} THEN 0 ELSE w[Pick(s)] + g[s \ {Pick(s)}]]
    BY <2>1
  <2> HIDE DEF g
  <2> QED BY <2>2 DEF Summing
<1> HIDE DEF g
<1>2. Summable(w, {})
  BY <1>1 DEF Summable
<1> DEFINE h == CHOOSE f : Summing(w, {}, f)
<1>3. Summing(w, {}, h) /\ Sum(w, {}) = h[{}]
  BY <1>2 DEF Summable, Sum
<1> HIDE DEF h
<1>4. h[{}] = 0
  BY <1>3 DEF Summing
<1> QED BY <1>2, <1>3, <1>4

\* The recursion is well founded: a smallest set without a sum would get one from its
\* smaller parts.
LEMMA AllSummable ==
  ASSUME NEW w, NEW S, IsFiniteSet(S)
  PROVE  Summable(w, S)
<1> DEFINE bad == {n \in Nat : \E V \in SUBSET S : Cardinality(V) = n /\ ~Summable(w, V)}
<1>1. SUFFICES ASSUME bad # {} PROVE FALSE
  <2>1. Cardinality(S) \in Nat
    BY FS_CardinalityType
  <2> QED BY <2>1
<1>2. PICK n \in bad : \A m \in bad : n <= m
  BY <1>1, LeastMember
<1>3. PICK T \in SUBSET S : Cardinality(T) = n /\ ~Summable(w, T)
  OBVIOUS
<1>4. IsFiniteSet(T) /\ n \in Nat
  BY FS_Subset
<1>5. ASSUME NEW V \in SUBSET T, V # T
      PROVE  Summable(w, V) /\ IsFiniteSet(V)
  <2>1. /\ IsFiniteSet(V) /\ Cardinality(V) \in Nat
        /\ Cardinality(V) < n /\ V \in SUBSET S
    BY <1>3, <1>4, <1>5, FS_Subset, FS_CardinalityType
  <2>2. Cardinality(V) \notin bad
    BY <1>2, <1>4, <2>1
  <2> QED BY <2>1, <2>2
<1> HIDE DEF bad
<1> DEFINE g == [s \in SUBSET T |-> IF s = {} THEN 0
                                   ELSE w[Pick(s)] + Sum(w, s \ {Pick(s)})]
<1>6. ASSUME NEW s \in SUBSET T, s # {}
      PROVE  g[s \ {Pick(s)}] = Sum(w, s \ {Pick(s)})
  <2> DEFINE V == s \ {Pick(s)}
  <2>1. Pick(s) \in s /\ V \in SUBSET T /\ V # T
    BY <1>6 DEF Pick
  <2>2. Summable(w, V) /\ IsFiniteSet(V)
    BY <1>5, <2>1
  <2>3. CASE V = {}
    BY <2>1, <2>3, SumOfNone
  <2>4. CASE V # {}
    <3>1. V \ {Pick(V)} \in SUBSET T /\ V \ {Pick(V)} # T
      BY <2>1
    <3>2. Summable(w, V \ {Pick(V)})
      BY <1>5, <3>1
    <3>3. Sum(w, V) = w[Pick(V)] + Sum(w, V \ {Pick(V)})
      BY <2>2, <2>4, <3>2, SumStep
    <3> QED BY <2>1, <2>4, <3>3
  <2> QED BY <2>3, <2>4
<1>7. g = [s \in SUBSET T |-> IF s = {} THEN 0 ELSE w[Pick(s)] + g[s \ {Pick(s)}]]
  <2>1. \A s \in SUBSET T : g[s] = IF s = {} THEN 0 ELSE w[Pick(s)] + g[s \ {Pick(s)}]
    BY <1>6
  <2>2. g = [s \in SUBSET T |-> g[s]]
    OBVIOUS
  <2> HIDE DEF g
  <2> QED BY <2>1, <2>2
<1> HIDE DEF g
<1>8. Summing(w, T, g)
  BY <1>7 DEF Summing
<1> QED BY <1>3, <1>8 DEF Summable

LEMMA SumPicks ==
  ASSUME NEW w, NEW S, IsFiniteSet(S), S # {}
  PROVE  Sum(w, S) = w[Pick(S)] + Sum(w, S \ {Pick(S)})
BY SumStep, AllSummable, PickLess

LEMMA SumType ==
  ASSUME NEW w, NEW S, IsFiniteSet(S), \A x \in S : w[x] \in Nat
  PROVE  Sum(w, S) \in Nat
<1> DEFINE bad == {n \in Nat : \E V \in SUBSET S : Cardinality(V) = n /\ Sum(w, V) \notin Nat}
<1>1. SUFFICES ASSUME bad # {} PROVE FALSE
  <2>1. Cardinality(S) \in Nat
    BY FS_CardinalityType
  <2> QED BY <2>1
<1>2. PICK n \in bad : \A m \in bad : n <= m
  BY <1>1, LeastMember
<1>3. PICK V \in SUBSET S : Cardinality(V) = n /\ Sum(w, V) \notin Nat
  OBVIOUS
<1>4. IsFiniteSet(V) /\ V # {} /\ n \in Nat
  <2>1. n \in Nat /\ IsFiniteSet(V)
    BY FS_Subset
  <2> HIDE DEF bad
  <2> QED BY <1>3, <2>1, SumOfNone
<1> DEFINE X == V \ {Pick(V)}
<1>5. Cardinality(X) \in Nat /\ Cardinality(X) < n /\ Pick(V) \in S /\ X \in SUBSET S
  BY <1>3, <1>4, PickLess
<1>6. Cardinality(X) \notin bad
  BY <1>2, <1>4, <1>5
<1>7. Sum(w, X) \in Nat
  BY <1>5, <1>6
<1> HIDE DEF bad, X
<1>8. Sum(w, V) = w[Pick(V)] + Sum(w, X)
  BY <1>4, SumPicks DEF X
<1>9. w[Pick(V)] \in Nat
  BY <1>5
<1> QED BY <1>3, <1>7, <1>8, <1>9

\* A sum may be taken in any order.
LEMMA SumTakes ==
  ASSUME NEW w, NEW S, IsFiniteSet(S), \A x \in S : w[x] \in Nat, NEW y \in S
  PROVE  Sum(w, S) = w[y] + Sum(w, S \ {y})
<1> DEFINE Fails(V, z) == Sum(w, V) # w[z] + Sum(w, V \ {z})
           bad == {n \in Nat : \E V \in SUBSET S : \E z \in V : Cardinality(V) = n /\ Fails(V, z)}
<1>1. SUFFICES ASSUME bad # {} PROVE FALSE
  <2>1. Cardinality(S) \in Nat
    BY FS_CardinalityType
  <2> QED BY <2>1
<1>2. PICK n \in bad : \A m \in bad : n <= m
  BY <1>1, LeastMember
<1>3. PICK V \in SUBSET S : \E z \in V : Cardinality(V) = n /\ Fails(V, z)
  OBVIOUS
<1>20. PICK z \in V : Cardinality(V) = n /\ Fails(V, z)
  BY <1>3
<1>4. IsFiniteSet(V) /\ V # {} /\ n \in Nat
  BY <1>3, FS_Subset
<1> DEFINE x == Pick(V)
           X == V \ {x}
<1>5. x \in V /\ IsFiniteSet(X) /\ Cardinality(X) \in Nat /\ Cardinality(X) < n
  BY <1>20, <1>4, PickLess
<1>6. Sum(w, V) = w[x] + Sum(w, X)
  BY <1>4, SumPicks
<1>7. x # z
  BY <1>20, <1>6
<1> HIDE DEF x
<1>8. X \in SUBSET S /\ z \in X /\ V \ {z} \in SUBSET S /\ x \in V \ {z}
  BY <1>5, <1>7
<1>9. ~Fails(X, z)
  <2>1. Cardinality(X) \notin bad
    <3> HIDE DEF bad, X
    <3> QED BY <1>2, <1>4, <1>5
  <2> HIDE DEF Fails, X
  <2> QED BY <1>5, <1>8, <2>1
<1>10. ~Fails(V \ {z}, x)
  <2>1. IsFiniteSet(V \ {z}) /\ Cardinality(V \ {z}) = n - 1 
    BY <1>20, <1>4, FS_RemoveElement
  <2>2. ~(n <= n - 1)
    BY <1>4
  <2>3. Cardinality(V \ {z}) \in Nat
    BY <2>1, FS_CardinalityType
  <2>4. Cardinality(V \ {z}) \notin bad
    BY <1>2, <1>4, <2>1, <2>2
  <2> HIDE DEF Fails, X
  <2> QED BY <1>8, <2>1, <2>3, <2>4
<1>11. X \ {z} = (V \ {z}) \ {x}
  OBVIOUS
<1> DEFINE r == Sum(w, X \ {z})
<1>12. w[x] \in Nat /\ w[z] \in Nat /\ r \in Nat
  <2>1. IsFiniteSet(X \ {z})
    BY <1>5, FS_Subset
  <2> QED BY <1>5, <1>8, <2>1, SumType
<1>13. Sum(w, X) = w[z] + r
  BY <1>9
<1>14. Sum(w, V \ {z}) = w[x] + r
  BY <1>10, <1>11
<1> HIDE DEF r, X
<1>15. Sum(w, V) = w[z] + Sum(w, V \ {z})
  BY <1>6, <1>12, <1>13, <1>14
<1> QED BY <1>20, <1>15

\* A sum looks at its members only.
LEMMA SumOfEqual ==
  ASSUME NEW w, NEW v, NEW S, IsFiniteSet(S), \A x \in S : w[x] = v[x]
  PROVE  Sum(w, S) = Sum(v, S)
<1> DEFINE bad == {n \in Nat : \E V \in SUBSET S : Cardinality(V) = n /\ Sum(w, V) # Sum(v, V)}
<1>1. SUFFICES ASSUME bad # {} PROVE FALSE
  <2>1. Cardinality(S) \in Nat
    BY FS_CardinalityType
  <2> QED BY <2>1
<1>2. PICK n \in bad : \A m \in bad : n <= m
  BY <1>1, LeastMember
<1>3. PICK V \in SUBSET S : Cardinality(V) = n /\ Sum(w, V) # Sum(v, V)
  OBVIOUS
<1>4. IsFiniteSet(V) /\ V # {} /\ n \in Nat
  <2>1. n \in Nat /\ IsFiniteSet(V)
    BY FS_Subset
  <2> HIDE DEF bad
  <2> QED BY <1>3, <2>1, SumOfNone
<1> DEFINE X == V \ {Pick(V)}
<1>5. Cardinality(X) \in Nat /\ Cardinality(X) < n /\ Pick(V) \in S /\ X \in SUBSET S
  BY <1>3, <1>4, PickLess
<1>6. Cardinality(X) \notin bad
  BY <1>2, <1>4, <1>5
<1>7. Sum(w, X) = Sum(v, X)
  BY <1>5, <1>6
<1>8. Sum(w, V) = w[Pick(V)] + Sum(w, X) /\ Sum(v, V) = v[Pick(V)] + Sum(v, X)
  BY <1>4, SumPicks
<1> HIDE DEF X
<1> QED BY <1>3, <1>5, <1>7, <1>8

\* The sizes account_usage_conn adds up.
Sizes(t) == [s \in DOMAIN t |-> t[s].payload_bytes]

\* Its SQL sum, written as a fold in the model, is that sum.
LEMMA UsageIsSum ==
  ASSUME NEW t, NEW bs, IsFiniteSet(DOMAIN t)
  PROVE  TotalBytes(t, bs) = Sum(Sizes(t), DOMAIN t) + Sum(BlobLen, bs)
<1> DEFINE S == DOMAIN t
           w == Sizes(t)
           P(g) == g = [s \in SUBSET S |->
                          IF s = {} THEN 0 ELSE t[Pick(s)].payload_bytes + g[s \ {Pick(s)}]]
           f == CHOOSE g : P(g)
<1>1. MapThenSumSet(LAMBDA s : t[s].payload_bytes, DOMAIN t) = f[S]
  BY DEF MapThenSumSet, MapThenFoldSet, Pick
<1>2. MapThenSumSet(LAMBDA b : BlobLen[b], bs) = Sum(BlobLen, bs)
  BY DEF MapThenSumSet, MapThenFoldSet, Sum, Summing, Pick
<1>3. \A s \in SUBSET S : s # {} => w[Pick(s)] = t[Pick(s)].payload_bytes
  BY DEF Sizes, Pick
<1>4. \A g : Summing(w, S, g) <=> P(g)
  BY <1>3 DEF Summing
<1>5. Summing(w, S, f)
  <2>1. \E g : P(g)
    BY <1>4, AllSummable DEF Summable
  <2>2. P(f)
    BY <2>1
  <2> QED BY <1>4, <2>2
<1> HIDE DEF f, P
<1> DEFINE h == CHOOSE g : Summing(w, S, g)
<1>6. Summing(w, S, h) /\ Sum(w, S) = h[S]
  BY <1>5 DEF Sum
<1> HIDE DEF h, w
<1>7. f[S] = h[S]
  BY <1>5, <1>6, SummingAgree
<1> QED BY <1>1, <1>2, <1>6, <1>7 DEF TotalBytes, w

-----------------------------------------------------------------------------
(* The quota. *)

\* The usage of one account, under the caps that are set.
Fits(t, bs) == WithinQuota(TotalBytes(t, bs), TotalObjects(t, bs))

\* The usage the open transaction carries is the one of its table, and it fits.
TxCounted ==
  tx.open /\ ~Unlimited =>
    /\ tx.bytes = TotalBytes(tx.table, blobs[tx.account])
    /\ tx.objects = TotalObjects(tx.table, blobs[tx.account])
    /\ Fits(tx.table, blobs[tx.account])

\* One row, or one blob, more in a well-formed account.
LEMMA UsageOfGood ==
  ASSUME NEW t, NEW bs \in SUBSET Blob, Good(t, bs), IsTable(t)
  PROVE  /\ TotalObjects(t, bs) = HighWater(t) + Cardinality(bs)
         /\ Cardinality(bs) \in Nat
         /\ TotalBytes(t, bs) = Sum(Sizes(t), 1..HighWater(t)) + Sum(BlobLen, bs)
         /\ Sum(Sizes(t), 1..HighWater(t)) \in Nat
         /\ Sum(BlobLen, bs) \in Nat
<1>1. HighWater(t) \in Nat /\ DOMAIN t = 1..HighWater(t)
  BY DEF Good
<1>2. IsFiniteSet(DOMAIN t) /\ Cardinality(DOMAIN t) = HighWater(t)
  BY <1>1, FS_Interval
<1>3. IsFiniteSet(bs) /\ Cardinality(bs) \in Nat
  BY StoreAssumption, FS_Subset, FS_CardinalityType
<1>4. \A s \in DOMAIN t : Sizes(t)[s] \in Nat
  BY StoreAssumption DEF IsTable, Sizes
<1>5. \A b \in bs : BlobLen[b] \in Nat
  BY StoreAssumption
<1>6. Sum(Sizes(t), DOMAIN t) \in Nat /\ Sum(BlobLen, bs) \in Nat
  BY <1>2, <1>3, <1>4, <1>5, SumType
<1> QED BY <1>1, <1>2, <1>3, <1>6, UsageIsSum DEF TotalObjects

LEMMA UsageWithBlob ==
  ASSUME NEW t, NEW bs \in SUBSET Blob, Good(t, bs), IsTable(t), NEW b \in Blob \ bs
  PROVE  /\ TotalBytes(t, bs \cup {b}) = TotalBytes(t, bs) + BlobLen[b]
         /\ TotalObjects(t, bs \cup {b}) = TotalObjects(t, bs) + 1
<1> DEFINE new == bs \cup {b}
<1>1. Good(t, new)
  BY DEF Good
<1>2. new \in SUBSET Blob
  OBVIOUS
<1>3. IsFiniteSet(bs) /\ IsFiniteSet(new) /\ Cardinality(new) = Cardinality(bs) + 1
  BY StoreAssumption, FS_Subset, FS_AddElement
<1>4. b \in new /\ new \ {b} = bs
  OBVIOUS
<1>5. \A c \in new : BlobLen[c] \in Nat
  BY <1>2, StoreAssumption
<1> HIDE DEF new
<1>6. Sum(BlobLen, new) = BlobLen[b] + Sum(BlobLen, bs)
  BY <1>3, <1>4, <1>5, SumTakes
<1>7. HighWater(t) \in Nat /\ BlobLen[b] \in Nat
  BY <1>4, <1>5 DEF Good
<1> DEFINE x == Sum(Sizes(t), 1..HighWater(t))
           y == Sum(BlobLen, bs)
           z == Sum(BlobLen, new)
<1>8. /\ TotalBytes(t, bs) = x + y /\ TotalBytes(t, new) = x + z
      /\ x \in Nat /\ y \in Nat /\ z = BlobLen[b] + y
      /\ TotalObjects(t, bs) = HighWater(t) + Cardinality(bs)
      /\ TotalObjects(t, new) = HighWater(t) + Cardinality(new)
      /\ Cardinality(bs) \in Nat
  BY <1>1, <1>2, <1>6, UsageOfGood
<1> HIDE DEF x, y, z
<1> QED BY <1>3, <1>7, <1>8 DEF new

LEMMA UsageWithRow ==
  ASSUME NEW t, NEW bs \in SUBSET Blob, Good(t, bs), IsTable(t),
         NEW ev \in EventRecord, NEW new, Good(new, bs), IsTable(new),
         new = Insert(t, HighWater(t) + 1, ev), HighWater(new) = HighWater(t) + 1
  PROVE  /\ TotalBytes(new, bs) = TotalBytes(t, bs) + ev.payload_bytes
         /\ TotalObjects(new, bs) = TotalObjects(t, bs) + 1
<1> DEFINE n == HighWater(t)
<1>1. n \in Nat /\ DOMAIN t = 1..n /\ HighWater(new) = n + 1 /\ DOMAIN new = 1..(n + 1)
  BY DEF Good
<1> HIDE DEF n
<1>2. IsFiniteSet(1..n) /\ IsFiniteSet(1..(n + 1)) /\ n + 1 \in 1..(n + 1)
      /\ (1..(n + 1)) \ {n + 1} = 1..n
  <2>1. IsFiniteSet(1..n) /\ IsFiniteSet(1..(n + 1))
    BY <1>1, FS_Interval
  <2>2. n + 1 \in 1..(n + 1) /\ (1..(n + 1)) \ {n + 1} = 1..n
    BY <1>1
  <2> QED BY <2>1, <2>2
<1>3. \A s \in 1..n : Sizes(new)[s] = Sizes(t)[s]
  <2>1. \A s \in 1..n : s \in 1..(n + 1) /\ s # n + 1
    BY <1>1
  <2> QED BY <1>1, <2>1 DEF Sizes, Insert, n
<1>4. Sizes(new)[n + 1] = ev.payload_bytes
  BY <1>1, <1>2 DEF Sizes, Insert, n
<1>5. \A s \in 1..(n + 1) : Sizes(new)[s] \in Nat
  BY <1>1, StoreAssumption DEF IsTable, Sizes
<1>6. Sum(Sizes(new), 1..(n + 1)) = Sizes(new)[n + 1] + Sum(Sizes(new), 1..n)
  <2>1. PICK S : S = 1..(n + 1) /\ IsFiniteSet(S) /\ n + 1 \in S /\ S \ {n + 1} = 1..n
    BY <1>2
  <2>2. PICK w : w = Sizes(new) /\ \A s \in S : w[s] \in Nat
    BY <1>5, <2>1
  <2>3. Sum(w, S) = w[n + 1] + Sum(w, S \ {n + 1})
    BY <2>1, <2>2, SumTakes
  <2> QED BY <2>1, <2>2, <2>3
<1>7. Sum(Sizes(new), 1..n) = Sum(Sizes(t), 1..n)
  BY <1>2, <1>3, SumOfEqual, ZenonT(60)
<1> DEFINE x == Sum(Sizes(t), 1..n)
           y == Sum(BlobLen, bs)
           z == Sum(Sizes(new), 1..(n + 1))
<1>8. /\ TotalBytes(t, bs) = x + y /\ TotalBytes(new, bs) = z + y
      /\ x \in Nat /\ y \in Nat /\ z = ev.payload_bytes + x
      /\ TotalObjects(t, bs) = n + Cardinality(bs)
      /\ TotalObjects(new, bs) = (n + 1) + Cardinality(bs)
      /\ Cardinality(bs) \in Nat
  BY <1>1, <1>4, <1>6, <1>7, UsageOfGood DEF n
<1>9. ev.payload_bytes \in Nat
  BY StoreAssumption
<1> HIDE DEF x, y, z
<1> QED BY <1>1, <1>8, <1>9, SMTT(30)

LEMMA StepKeepsQuota ==
  IInv /\ IInv' /\ QuotaRespected /\ TxCounted /\ [Next]_vars
    => QuotaRespected' /\ TxCounted'
<1> SUFFICES ASSUME IInv, IInv', QuotaRespected, TxCounted, [Next]_vars
             PROVE  QuotaRespected' /\ TxCounted'
  OBVIOUS
<1> USE DEF Fits
<1>1. ASSUME NEW a \in Account, NEW b \in Blob, BlobPut(a, b)
      PROVE  QuotaRespected' /\ TxCounted'
  <2>1. /\ blobs[a] \in SUBSET Blob /\ Good(events[a], blobs[a]) /\ IsTable(events[a])
        /\ events' = events /\ ~tx.open /\ tx' = tx
        /\ blobs'[a] = blobs[a] \cup {b}
        /\ \A c \in Account \ {a} : blobs'[c] = blobs[c]
    BY <1>1 DEF BlobPut, IInv, TypeOK
  <2>2. CASE b \in blobs[a]
    <3>1. blobs[a] \cup {b} = blobs[a]
      BY <2>2
    <3> QED BY <2>1, <3>1 DEF QuotaRespected, TxCounted, Unlimited
  <2>3. CASE b \notin blobs[a]
    <3>1. /\ TotalBytes(events[a], blobs[a] \cup {b})
               = TotalBytes(events[a], blobs[a]) + BlobLen[b]
          /\ TotalObjects(events[a], blobs[a] \cup {b}) = TotalObjects(events[a], blobs[a]) + 1
      BY <2>1, <2>3, UsageWithBlob
    <3>2. Unlimited \/ Fits(events[a], blobs[a] \cup {b})
      BY <1>1, <2>3, <3>1 DEF BlobPut, BlobPutAllowed
    <3>3. QuotaRespected'
      BY <2>1, <3>2 DEF QuotaRespected, Unlimited, WithinQuota
    <3> QED BY <2>1, <3>3 DEF TxCounted
  <2> QED BY <2>2, <2>3
<1>2. ASSUME NEW a \in Account, NEW batch \in Batch, PushBegin(a, batch)
      PROVE  QuotaRespected' /\ TxCounted'
  <2>1. /\ events' = events /\ blobs' = blobs
        /\ tx'.table = events[a] /\ tx'.account = a
        /\ ~Unlimited => /\ tx'.bytes = TotalBytes(events[a], blobs[a])
                         /\ tx'.objects = TotalObjects(events[a], blobs[a])
    BY <1>2 DEF PushBegin
  <2> QED BY <2>1 DEF QuotaRespected, TxCounted, Unlimited, WithinQuota
<1>3. CASE PushDedup
  <2>1. /\ tx.open /\ events' = events /\ blobs' = blobs
        /\ tx'.table = tx.table /\ tx'.account = tx.account
        /\ tx'.bytes = tx.bytes /\ tx'.objects = tx.objects
    BY <1>3, OpenTxTyped DEF PushDedup, IInv, TxType
  <2> QED BY <2>1 DEF QuotaRespected, TxCounted, Unlimited, WithinQuota
<1>4. CASE PushAppend
  <2>1. TxType /\ tx.open /\ TxOK /\ events' = events /\ blobs' = blobs /\ tx.todo # <<>>
    BY <1>4, OpenTxTyped DEF PushAppend, IInv
  <2>2. /\ tx'.table = Insert(tx.table, tx.next + 1, Event)
        /\ tx'.account = tx.account
        /\ tx'.open
        /\ tx'.next = tx.next + 1
        /\ ~Unlimited => /\ tx'.bytes = tx.bytes + Event.payload_bytes
                         /\ tx'.objects = tx.objects + 1
    BY <1>4, <2>1 DEF PushAppend, TxType
  <2>3. QuotaRespected'
    BY <2>1 DEF QuotaRespected, Unlimited, WithinQuota
  <2>4. /\ Good(tx.table, blobs[tx.account]) /\ IsTable(tx.table)
        /\ tx.next = HighWater(tx.table)
        /\ blobs[tx.account] \in SUBSET Blob
        /\ Event \in EventRecord
    BY <2>1, EventTyped DEF TxOK, TxType, IInv, TypeOK
  <2>5. Good(tx'.table, blobs[tx.account]) /\ tx'.next = HighWater(tx'.table)
    BY <2>1, <2>2 DEF IInv, TxOK
  <2>6. IsTable(tx'.table)
    BY <2>2 DEF IInv, TypeOK, NoTx
  <2> DEFINE t == tx.table
             new == tx'.table
             bs == blobs[tx.account]
             ev == Event
  <2>7. /\ TotalBytes(new, bs) = TotalBytes(t, bs) + ev.payload_bytes
        /\ TotalObjects(new, bs) = TotalObjects(t, bs) + 1
    <3>1. new = Insert(t, HighWater(t) + 1, ev) /\ HighWater(new) = HighWater(t) + 1
      BY <2>2, <2>4, <2>5
    <3> HIDE DEF t, new, bs, ev
    <3>2. /\ bs \in SUBSET Blob /\ Good(t, bs) /\ IsTable(t) /\ ev \in EventRecord
          /\ Good(new, bs) /\ IsTable(new)
      BY <2>4, <2>5, <2>6 DEF t, new, bs, ev
    <3> QED BY <3>1, <3>2, UsageWithRow
  <2>8. ASSUME ~Unlimited
        PROVE  /\ tx'.bytes = TotalBytes(new, bs) /\ tx'.objects = TotalObjects(new, bs)
               /\ Fits(new, bs)
    <3>1. tx.bytes = TotalBytes(t, bs) /\ tx.objects = TotalObjects(t, bs)
      BY <2>1, <2>8 DEF TxCounted
    <3>2. WithinQuota(tx.bytes + ev.payload_bytes, tx.objects + 1)
      BY <1>4, <2>8 DEF PushAppend, FitsQuota
    <3> QED BY <2>2, <2>7, <2>8, <3>1, <3>2
  <2> QED BY <2>1, <2>2, <2>3, <2>8 DEF TxCounted, Unlimited, WithinQuota
<1>5. CASE PushMissingBlob \/ PushOverQuota \/ Crash
  BY <1>5 DEF PushMissingBlob, PushOverQuota, Crash, NoTx, QuotaRespected, TxCounted,
              Unlimited, WithinQuota
<1>6. CASE PushCommit
  <2>1. TxType /\ tx.open
    BY <1>6, OpenTxTyped DEF PushCommit, IInv
  <2>2. /\ blobs' = blobs /\ ~tx'.open
        /\ events'[tx.account] = tx.table
        /\ \A a \in Account \ {tx.account} : events'[a] = events[a]
    BY <1>6, <2>1 DEF PushCommit, NoTx, TxType, IInv, TypeOK
  <2>3. Unlimited \/ Fits(tx.table, blobs[tx.account])
    BY <2>1 DEF TxCounted
  <2> QED BY <2>2, <2>3 DEF QuotaRespected, TxCounted, Unlimited, WithinQuota
<1>7. CASE UNCHANGED <<events, blobs, tx>>
  BY <1>7 DEF QuotaRespected, TxCounted, Unlimited, WithinQuota
<1> QED
  BY <1>1, <1>2, <1>3, <1>4, <1>5, <1>6, <1>7
  DEF Next, vars, PushStep, PullPage, PullHighWater, PullReturn

\* blob_put and push_events, each under the writer lock: no interleaving of the two, and
\* no batch, takes an account past its byte cap or its object cap.
THEOREM QuotaHolds == Spec => []QuotaRespected
<1>1. Init => QuotaRespected /\ TxCounted
  <2> SUFFICES ASSUME Init PROVE QuotaRespected /\ TxCounted
    OBVIOUS
  <2>1. \A a \in Account : events[a] = <<>> /\ DOMAIN events[a] = {} /\ blobs[a] = {}
    BY DEF Init
  <2>2. IsFiniteSet({}) /\ Cardinality({}) = 0
    BY FS_EmptySet
  <2>3. \A a \in Account : TotalObjects(events[a], blobs[a]) = 0
    BY <2>1, <2>2, SMTT(30) DEF TotalObjects
  <2>4. \A a \in Account : TotalBytes(events[a], blobs[a]) = 0
    <3> SUFFICES ASSUME NEW a \in Account PROVE TotalBytes(events[a], blobs[a]) = 0
      OBVIOUS
    <3>1. PICK t : t = events[a] /\ DOMAIN t = {}
      BY <2>1
    <3>2. TotalBytes(t, {}) = Sum(Sizes(t), {}) + Sum(BlobLen, {})
      BY <2>2, <3>1, UsageIsSum
    <3>3. TotalBytes(t, {}) = 0
      BY <3>2, SumOfNone
    <3> QED BY <2>1, <3>1, <3>3
  <2> QED BY <2>3, <2>4, StoreAssumption DEF Init, NoTx, QuotaRespected, WithinQuota, TxCounted
<1> QED BY <1>1, StepKeepsQuota, StoreInvariant, PTL DEF Spec

-----------------------------------------------------------------------------
(* The store implements the abstract log of EventLog: every step appends one *)
(* whole batch, adds one blob, or changes neither.                           *)
(*                                                                           *)
(* The batch is consumed one event at a time and only its rest is in the     *)
(* state, so the proof carries the part already consumed: the open table is  *)
(* the committed one followed by what EventLog's Fresh makes of it.          *)

(* What Fresh makes of a batch, one event further. *)

\* Fresh in these words (EventLog has Cardinality from an instance of its own).
LEMMA FreshInRanks ==
  ASSUME NEW l, NEW b
  PROVE  LET at == Log!NewAt(l, b)
         IN  Log!Fresh(l, b) = [k \in 1..Cardinality(at) |-> b[Nth(at, k)]]
BY DEF Log!Fresh, Nth, Below, Cardinality, Log!Cardinality

LEMMA FreshOfNone ==
  ASSUME NEW l
  PROVE  Log!NewAt(l, <<>>) = {} /\ Log!Fresh(l, <<>>) = <<>>
<1>1. Log!NewAt(l, <<>>) = {}
  BY DEF Log!NewAt
<1>2. Cardinality(Log!NewAt(l, <<>>)) = 0
  BY <1>1, FS_EmptySet
<1>3. Log!Fresh(l, <<>>) = [k \in 1..0 |-> <<>>[Nth({}, k)]]
  BY <1>1, <1>2, FreshInRanks
<1> QED BY <1>1, <1>3

LEMMA FreshIsSeq ==
  ASSUME NEW l, NEW b \in Seq(EventRecord), Ranked(Log!NewAt(l, b))
  PROVE  Log!Fresh(l, b) \in Seq(EventRecord)
<1> DEFINE at == Log!NewAt(l, b)
           f == Log!Fresh(l, b)
<1>1. f = [k \in 1..Cardinality(at) |-> b[Nth(at, k)]]
  BY FreshInRanks
<1>2. \A k \in 1..Cardinality(at) : b[Nth(at, k)] \in EventRecord
  <2>1. \A k \in 1..Cardinality(at) : Nth(at, k) \in DOMAIN b
    BY NthInRanked DEF Log!NewAt
  <2> QED BY <2>1, LenProperties
<1>3. Cardinality(at) \in Nat
  BY FS_CardinalityType DEF Ranked
<1>4. f \in [1..Cardinality(at) -> EventRecord]
  BY <1>1, <1>2
<1> QED BY <1>3, <1>4, SeqDef

\* A batch one event longer, under a name of its own to keep Append out of sight of the
\* steps that do not need it.
OneMore(more, b, e) == more = Append(b, e)

LEMMA FreshGrows ==
  ASSUME NEW l \in Seq(EventRecord), NEW b \in Seq(EventRecord), NEW e \in EventRecord,
         NEW more, OneMore(more, b, e), Ranked(Log!NewAt(l, b))
  PROVE  /\ e.change_id \in Log!Ids(l) \cup Log!Ids(b) =>
              /\ Log!NewAt(l, more) = Log!NewAt(l, b)
              /\ Log!Fresh(l, more) = Log!Fresh(l, b)
         /\ e.change_id \notin Log!Ids(l) \cup Log!Ids(b) =>
              /\ Log!NewAt(l, more) = Log!NewAt(l, b) \cup {Len(b) + 1}
              /\ Log!Fresh(l, more) = Append(Log!Fresh(l, b), e)
         /\ Ranked(Log!NewAt(l, more))
         /\ Log!Ids(more) = Log!Ids(b) \cup {e.change_id}
         /\ \A i \in Log!NewAt(l, b) : more[i] = b[i]
<1> DEFINE at == Log!NewAt(l, b)
           n == Len(b) + 1
<1>1. /\ Len(b) \in Nat /\ DOMAIN b = 1..Len(b) /\ DOMAIN more = 1..n
      /\ \A i \in 1..Len(b) : more[i] = b[i]
      /\ more[n] = e
  BY DEF OneMore
<1>2. at \in SUBSET Nat /\ at \subseteq 1..Len(b) /\ \A i \in at : i < n
  BY <1>1 DEF Log!NewAt
<1>3. Log!Ids(more) = Log!Ids(b) \cup {e.change_id}
  BY <1>1 DEF Log!Ids
<1>4. \A i \in 1..Len(b) : i \in Log!NewAt(l, more) <=> i \in at
  BY <1>1 DEF Log!NewAt
<1>5. n \in Log!NewAt(l, more) <=> e.change_id \notin Log!Ids(l) \cup Log!Ids(b)
  BY <1>1 DEF Log!NewAt, Log!Ids
<1>6. Log!NewAt(l, more) \subseteq 1..n
  BY <1>1 DEF Log!NewAt
<1>7. \A i \in 1..n : i \in 1..Len(b) \/ i = n
  BY <1>1
<1>8. Log!Fresh(l, b) = [k \in 1..Cardinality(at) |-> b[Nth(at, k)]]
  BY FreshInRanks
<1>9. Cardinality(at) \in Nat
  BY FS_CardinalityType DEF Ranked
<1>10. \A k \in 1..Cardinality(at) :
         Nth(at, k) \in at /\ Cardinality(Below(at, Nth(at, k))) = k - 1
  BY NthInRanked
<1> HIDE DEF at
<1>11. CASE e.change_id \in Log!Ids(l) \cup Log!Ids(b)
  <2>1. Log!NewAt(l, more) = at
    BY <1>2, <1>4, <1>5, <1>6, <1>7, <1>11
  <2>2. Log!Fresh(l, more) = [k \in 1..Cardinality(at) |-> more[Nth(at, k)]]
    BY <2>1, FreshInRanks
  <2>3. Log!Fresh(l, more) = Log!Fresh(l, b)
    BY <1>1, <1>2, <1>8, <1>10, <2>2
  <2> QED BY <1>1, <1>2, <1>3, <1>11, <2>1, <2>3 DEF at
<1>12. CASE e.change_id \notin Log!Ids(l) \cup Log!Ids(b)
  <2> DEFINE new == at \cup {n}
  <2>1. Log!NewAt(l, more) = new
    BY <1>2, <1>4, <1>5, <1>6, <1>7, <1>12
  <2>2. n \in Nat /\ Ranked(at)
    BY <1>1 DEF at
  <2>3. /\ Ranked(new) /\ Cardinality(new) = Cardinality(at) + 1
        /\ \A i \in at : Below(new, i) = Below(at, i)
        /\ Below(new, n) = at
    BY <1>2, <2>2, RankedAdd
  <2>4. Log!Fresh(l, more) = [k \in 1..Cardinality(new) |-> more[Nth(new, k)]]
    BY <2>1, FreshInRanks
  <2>5. \A k \in 1..Cardinality(at) : Nth(new, k) = Nth(at, k)
    <3> SUFFICES ASSUME NEW k \in 1..Cardinality(at) PROVE Nth(new, k) = Nth(at, k)
      OBVIOUS
    <3>1. k \in 1..Cardinality(new)
      BY <1>9, <2>3
    <3>2. Nth(at, k) \in new /\ Cardinality(Below(new, Nth(at, k))) = k - 1
      BY <1>10, <2>3
    <3> QED BY <2>3, <3>1, <3>2, NthInRanked
  <2>6. Nth(new, Cardinality(at) + 1) = n
    <3>1. Cardinality(at) + 1 \in 1..Cardinality(new)
      BY <1>9, <2>3
    <3>2. n \in new /\ Cardinality(Below(new, n)) = (Cardinality(at) + 1) - 1
      BY <1>9, <2>3
    <3> QED BY <2>3, <3>1, <3>2, NthInRanked
  <2> HIDE DEF new
  <2>7. Log!Fresh(l, more) = Append(Log!Fresh(l, b), e)
    <3>1. \A k \in 1..Cardinality(at) : more[Nth(new, k)] = b[Nth(at, k)]
      BY <1>1, <1>2, <1>10, <2>5
    <3>2. more[Nth(new, Cardinality(at) + 1)] = e
      BY <1>1, <2>6
    <3> PICK c \in Nat : c = Cardinality(at)
      BY <1>9
    <3> PICK F : F = Log!Fresh(l, b)
      OBVIOUS
    <3> PICK G : G = Log!Fresh(l, more)
      OBVIOUS
    <3>3. F = [k \in 1..c |-> b[Nth(at, k)]] /\ G = [k \in 1..(c + 1) |-> more[Nth(new, k)]]
      BY <1>8, <2>3, <2>4
    <3>4. /\ \A k \in 1..c : G[k] = F[k]
          /\ G[c + 1] = e
          /\ DOMAIN F = 1..c /\ DOMAIN G = 1..(c + 1)
      BY <3>1, <3>2, <3>3
    <3>5. F \in Seq(EventRecord)
      BY FreshIsSeq DEF at
    <3>6. G = Append(F, e)
      <4>1. G \in Seq(EventRecord) /\ Len(G) = c + 1
        <5>1. G = Log!Fresh(l, more) /\ Ranked(Log!NewAt(l, more)) /\ more \in Seq(EventRecord)
          BY <2>1, <2>3, AppendProperties DEF OneMore
        <5>2. G \in Seq(EventRecord)
          BY <5>1, FreshIsSeq
        <5> QED BY <3>4, <5>2, LenProperties
      <4>2. /\ Append(F, e) \in Seq(EventRecord)
            /\ Len(F) = c /\ Len(Append(F, e)) = c + 1
        BY <3>4, <3>5, LenProperties
      <4>3. \A k \in 1..(c + 1) : Append(F, e)[k] = G[k]
        BY <3>4, <3>5, <4>2
      <4> QED BY <4>1, <4>2, <4>3, SeqEqual
    <3> QED BY <3>6
  <2> QED BY <1>1, <1>2, <1>3, <1>12, <2>1, <2>3, <2>7 DEF at, new
<1> QED BY <1>11, <1>12

-----------------------------------------------------------------------------
(* Tables and batches as sequences. *)

LEMMA GoodIsSeq ==
  ASSUME NEW t, NEW bs, IsTable(t), Good(t, bs)
  PROVE  t \in Seq(EventRecord) /\ Len(t) = HighWater(t)
<1>1. HighWater(t) \in Nat /\ DOMAIN t = 1..HighWater(t) /\ t \in [1..HighWater(t) -> EventRecord]
  BY DEF IsTable, Good
<1> QED BY <1>1, SeqDef, LenProperties

\* INSERT at the next number appends.
LEMMA InsertIsAppend ==
  ASSUME NEW t \in Seq(EventRecord), NEW e \in EventRecord
  PROVE  Insert(t, Len(t) + 1, e) = Append(t, e)
<1>1. DOMAIN t = 1..Len(t) /\ Len(t) \in Nat
  BY LenProperties
<1>2. Insert(t, Len(t) + 1, e) = [s \in 1..(Len(t) + 1) |-> IF s = Len(t) + 1 THEN e ELSE t[s]]
  BY <1>1 DEF Insert
<1> QED BY <1>1, <1>2

LEMMA AppendAssociates ==
  ASSUME NEW l \in Seq(EventRecord), NEW f \in Seq(EventRecord), NEW e \in EventRecord
  PROVE  Append(l \o f, e) = l \o Append(f, e)
<1>1. /\ l \o f \in Seq(EventRecord) /\ <<e>> \in Seq(EventRecord)
      /\ Append(l \o f, e) = (l \o f) \o <<e>>
      /\ Append(f, e) = f \o <<e>>
  BY ConcatProperties, AppendIsConcat
<1> QED BY <1>1, ConcatAssociative, SMTT(30)

LEMMA MoveHead ==
  ASSUME NEW S, NEW d \in Seq(S), NEW todo \in Seq(S), todo # <<>>
  PROVE  /\ Append(d, Head(todo)) \in Seq(S)
         /\ Append(d, Head(todo)) \o Tail(todo) = d \o todo
<1>1. Head(todo) \in S /\ Tail(todo) \in Seq(S)
  BY HeadTailProperties
<1>2. <<Head(todo)>> \in Seq(S) /\ Append(d, Head(todo)) = d \o <<Head(todo)>>
  BY <1>1, AppendIsConcat
<1>3. <<Head(todo)>> \o Tail(todo) = todo
  <2>1. /\ <<Head(todo)>> \o Tail(todo) \in Seq(S)
        /\ Len(<<Head(todo)>> \o Tail(todo)) = 1 + Len(Tail(todo))
        /\ \A i \in 1..(1 + Len(Tail(todo))) :
             (<<Head(todo)>> \o Tail(todo))[i]
               = IF i <= 1 THEN <<Head(todo)>>[i] ELSE Tail(todo)[i - 1]
    BY <1>1, <1>2, ConcatProperties
  <2>2. /\ Len(Tail(todo)) = Len(todo) - 1 /\ Len(todo) \in Nat
        /\ \A i \in 1..Len(Tail(todo)) : Tail(todo)[i] = todo[i + 1]
    BY HeadTailProperties, LenProperties
  <2>3. \A i \in 1..Len(todo) : (<<Head(todo)>> \o Tail(todo))[i] = todo[i]
    BY <2>1, <2>2
  <2> QED BY <2>1, <2>2, <2>3, SeqEqual
<1> QED BY <1>1, <1>2, <1>3, ConcatAssociative, AppendProperties

-----------------------------------------------------------------------------
(* The part of the batch already consumed. *)

\* d is consumed: with the rest it is a batch, the table is the committed one
\* followed by its fresh events, and those events have their blobs.
ConsumedIs(d) ==
  LET l == events[tx.account]
      at == Log!NewAt(l, d)
  IN  /\ d \o tx.todo \in Batch
      /\ Ranked(at)
      /\ tx.table = l \o Log!Fresh(l, d)
      /\ Log!Ids(tx.table) = Log!Ids(l) \cup Log!Ids(d)
      /\ \A i \in at : d[i].blob_refs \subseteq blobs[tx.account]

Consumed == tx.open => \E d \in Seq(EventRecord) : ConsumedIs(d)

LEMMA BeginConsumes ==
  ASSUME IInv, NEW a \in Account, NEW batch \in Batch, PushBegin(a, batch)
  PROVE  Consumed'
<1>1. /\ tx'.account = a /\ tx'.todo = batch /\ tx'.table = events[a]
      /\ events' = events
  BY DEF PushBegin
<1>2. events[a] \in Seq(EventRecord) /\ batch \in Seq(EventRecord)
  BY GoodIsSeq, StoreAssumption DEF IInv, TypeOK
<1>3. /\ <<>> \in Seq(EventRecord) /\ <<>> \o batch = batch
      /\ events[a] \o <<>> = events[a]
  BY <1>2, ConcatEmptySeq
<1>4. Log!NewAt(events[a], <<>>) = {} /\ Log!Fresh(events[a], <<>>) = <<>>
  BY FreshOfNone
<1>5. Log!Ids(<<>>) = {}
  BY DEF Log!Ids
<1>6. ConsumedIs(<<>>)'
  BY <1>1, <1>3, <1>4, <1>5, RankedEmpty DEF ConsumedIs
<1> QED BY <1>3, <1>6 DEF Consumed

LEMMA DedupConsumes ==
  ASSUME IInv, Consumed, PushDedup
  PROVE  Consumed'
<1>1. TxType /\ tx.open
  BY OpenTxTyped DEF IInv, PushDedup
<1>2. PICK d \in Seq(EventRecord) : ConsumedIs(d)
  BY <1>1 DEF Consumed
<1> DEFINE l == events[tx.account]
<1> PICK more : OneMore(more, d, Event)
  BY DEF OneMore
<1>3. /\ tx'.account = tx.account /\ tx'.todo = Tail(tx.todo) /\ tx'.table = tx.table
      /\ events' = events /\ blobs' = blobs /\ tx.todo # <<>>
  BY <1>1 DEF PushDedup, TxType
<1>4. Event \in EventRecord /\ Event = Head(tx.todo)
  BY <1>1, <1>3, EventTyped DEF Event
<1>5. Event.change_id \in Log!Ids(l) \cup Log!Ids(d)
  <2>1. Event.change_id \in Log!Ids(tx.table)
    BY DEF PushDedup, Known, SeqsOf, Log!Ids
  <2> QED BY <1>2, <2>1 DEF ConsumedIs
<1>6. l \in Seq(EventRecord)
  BY <1>1, GoodIsSeq DEF IInv, TypeOK, TxType
<1>7. /\ Log!NewAt(l, more) = Log!NewAt(l, d)
      /\ Log!Fresh(l, more) = Log!Fresh(l, d)
      /\ Log!Ids(more) = Log!Ids(d) \cup {Event.change_id}
      /\ \A i \in Log!NewAt(l, d) : more[i] = d[i]
  <2>1. Ranked(Log!NewAt(l, d))
    BY <1>2 DEF ConsumedIs
  <2> HIDE DEF l
  <2> QED BY <1>4, <1>5, <1>6, <2>1, FreshGrows
<1>8. more \in Seq(EventRecord) /\ more \o Tail(tx.todo) = d \o tx.todo
  BY <1>1, <1>3, <1>4, MoveHead, SMTT(30) DEF TxType, OneMore
<1>9. Log!Ids(tx.table) = Log!Ids(l) \cup Log!Ids(more)
  BY <1>2, <1>5, <1>7 DEF ConsumedIs
<1>10. \A i \in Log!NewAt(l, more) : more[i].blob_refs \subseteq blobs[tx.account]
  BY <1>2, <1>7 DEF ConsumedIs
<1>11. ConsumedIs(more)'
  BY <1>2, <1>3, <1>7, <1>8, <1>9, <1>10 DEF ConsumedIs
<1> QED BY <1>8, <1>11 DEF Consumed

LEMMA AppendConsumes ==
  ASSUME IInv, Consumed, PushAppend
  PROVE  Consumed'
<1>1. TxType /\ tx.open /\ TxOK
  BY OpenTxTyped DEF IInv, PushAppend
<1>2. PICK d \in Seq(EventRecord) : ConsumedIs(d)
  BY <1>1 DEF Consumed
<1> DEFINE l == events[tx.account]
<1> PICK more : OneMore(more, d, Event)
  BY DEF OneMore
<1>3. /\ tx'.account = tx.account /\ tx'.todo = Tail(tx.todo)
      /\ tx'.table = Insert(tx.table, tx.next + 1, Event)
      /\ events' = events /\ blobs' = blobs /\ tx.todo # <<>>
  BY <1>1 DEF PushAppend, TxType
<1>4. Event \in EventRecord /\ Event = Head(tx.todo)
  BY <1>1, <1>3, EventTyped DEF Event
<1>5. Event.change_id \notin Log!Ids(l) \cup Log!Ids(d)
  <2>1. Event.change_id \notin Log!Ids(tx.table)
    BY DEF PushAppend, Known, SeqsOf, Log!Ids
  <2> QED BY <1>2, <2>1 DEF ConsumedIs
<1>6. l \in Seq(EventRecord)
  BY <1>1, GoodIsSeq DEF IInv, TypeOK, TxType
<1>7. /\ Log!NewAt(l, more) = Log!NewAt(l, d) \cup {Len(d) + 1}
      /\ Log!Fresh(l, more) = Append(Log!Fresh(l, d), Event)
      /\ Ranked(Log!NewAt(l, more))
      /\ Log!Ids(more) = Log!Ids(d) \cup {Event.change_id}
      /\ \A i \in Log!NewAt(l, d) : more[i] = d[i]
  <2>1. Ranked(Log!NewAt(l, d))
    BY <1>2 DEF ConsumedIs
  <2> HIDE DEF l
  <2> QED BY <1>4, <1>5, <1>6, <2>1, FreshGrows
<1>8. more \in Seq(EventRecord) /\ more \o Tail(tx.todo) = d \o tx.todo
  BY <1>1, <1>3, <1>4, MoveHead, SMTT(30) DEF TxType, OneMore
<1>9. more[Len(d) + 1] = Event
  BY <1>4, AppendProperties DEF OneMore
<1>10. tx'.table = Append(tx.table, Event) /\ tx.table \in Seq(EventRecord)
  <2>1. tx.table \in Seq(EventRecord) /\ tx.next = Len(tx.table)
    BY <1>1, GoodIsSeq DEF TxType, TxOK
  <2> QED BY <1>3, <1>4, <2>1, InsertIsAppend
<1>11. tx'.table = l \o Log!Fresh(l, more)
  <2>1. Log!Fresh(l, d) \in Seq(EventRecord)
    BY <1>2, FreshIsSeq DEF ConsumedIs
  <2>2. Append(l \o Log!Fresh(l, d), Event) = l \o Append(Log!Fresh(l, d), Event)
    <3> HIDE DEF l
    <3>1. \A e \in EventRecord : Append(l \o Log!Fresh(l, d), e) = l \o Append(Log!Fresh(l, d), e)
      BY <1>6, <2>1, AppendAssociates
    <3> QED BY <1>4, <3>1
  <2> QED BY <1>2, <1>7, <1>10, <2>2 DEF ConsumedIs
<1>12. Log!Ids(tx'.table) = Log!Ids(l) \cup Log!Ids(more)
  <2>1. Log!Ids(Append(tx.table, Event)) = Log!Ids(tx.table) \cup {Event.change_id}
    BY <1>4, <1>10, LenProperties, AppendProperties, SMTT(30) DEF Log!Ids
  <2> QED BY <1>2, <1>7, <1>10, <2>1 DEF ConsumedIs
<1>13. \A i \in Log!NewAt(l, more) : more[i].blob_refs \subseteq blobs[tx.account]
  BY <1>2, <1>7, <1>9 DEF ConsumedIs, PushAppend, BlobsPresent
<1>14. ConsumedIs(more)'
  BY <1>2, <1>3, <1>7, <1>8, <1>11, <1>12, <1>13 DEF ConsumedIs
<1> QED BY <1>8, <1>14 DEF Consumed

LEMMA StepConsumes == IInv /\ Consumed /\ [Next]_vars => Consumed'
<1> SUFFICES ASSUME IInv, Consumed, [Next]_vars PROVE Consumed'
  OBVIOUS
<1>1. CASE ~tx'.open
  BY <1>1 DEF Consumed
<1>2. CASE UNCHANGED <<events, blobs, tx>>
  BY <1>2 DEF Consumed, ConsumedIs
<1>3. ASSUME NEW a \in Account, NEW batch \in Batch, PushBegin(a, batch)
      PROVE  Consumed'
  BY <1>3, BeginConsumes
<1>4. CASE PushDedup \/ PushAppend
  BY <1>4, DedupConsumes, AppendConsumes
<1>5. ASSUME NEW a \in Account, NEW b \in Blob, BlobPut(a, b)
      PROVE  Consumed'
  BY <1>1, <1>5 DEF BlobPut
<1>6. CASE PushMissingBlob \/ PushOverQuota \/ PushCommit \/ Crash
  BY <1>1, <1>6 DEF PushMissingBlob, PushOverQuota, PushCommit, Crash, NoTx
<1>7. ASSUME NEW r \in Reader, NEW a \in Account, NEW after \in Cursor,
             PullPage(r, a, after)
      PROVE  Consumed'
  BY <1>2, <1>7 DEF PullPage
<1>8. ASSUME NEW r \in Reader, PullHighWater(r) \/ PullReturn(r)
      PROVE  Consumed'
  BY <1>2, <1>8 DEF PullHighWater, PullReturn
<1>9. CASE UNCHANGED vars
  BY <1>2, <1>9 DEF vars
<1> QED
  BY <1>3, <1>4, <1>5, <1>6, <1>7, <1>8, <1>9 DEF Next, PushStep

-----------------------------------------------------------------------------
(* The refinement. *)

LEMMA InitImplements == Init => Log!Init
BY DEF Init, Log!Init

\* A commit is one PushBatch of the batch its transaction consumed, an upload one
\* PutBlob, and the rest changes neither log nor blobs.
LEMMA StepImplements ==
  IInv /\ Consumed /\ [Next]_vars => [Log!Next]_<<events, blobs>>
<1> SUFFICES ASSUME IInv, Consumed, Next
             PROVE  Log!Next \/ UNCHANGED <<events, blobs>>
  BY DEF vars
<1>1. CASE PushCommit
  <2>1. TxType /\ tx.open /\ tx.todo = <<>>
    BY <1>1, OpenTxTyped DEF IInv, PushCommit
  <2>2. PICK d \in Seq(EventRecord) : ConsumedIs(d)
    BY <2>1 DEF Consumed
  <2>3. d \in Batch
    BY <2>1, <2>2, ConcatEmptySeq DEF ConsumedIs
  <2>4. Log!PushBatch(tx.account, d)
    BY <1>1, <2>2 DEF ConsumedIs, PushCommit, Log!PushBatch
  <2> QED BY <2>1, <2>3, <2>4 DEF TxType, Log!Next
<1>2. ASSUME NEW a \in Account, NEW b \in Blob, BlobPut(a, b)
      PROVE  Log!Next
  BY <1>2 DEF BlobPut, Log!PutBlob, Log!Next
<1> QED
  BY <1>1, <1>2
  DEF Next, PushStep, PushBegin, PushDedup, PushAppend, PushMissingBlob,
      PushOverQuota, PullPage, PullHighWater, PullReturn, Crash

\* store.rs implements what the protocol needs of the server: push_events appends the
\* new changes of a whole batch or nothing, in batch order, once each, whatever else runs,
\* fails or crashes between its inserts.
THEOREM StoreImplementsEventLog == Spec => ImplementsEventLog
<1>1. Init => Consumed
  BY DEF Init, NoTx, Consumed
<1> QED
  BY <1>1, InitImplements, StepImplements, StepConsumes, StoreInvariant, PTL
  DEF Spec, ImplementsEventLog, Log!Spec
=============================================================================
