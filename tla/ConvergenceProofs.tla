-------------------------- MODULE ConvergenceProofs --------------------------
(***************************************************************************)
(* Devices that know the same changes show the same rows, values and tags, *)
(* for every set of devices, entities, fields and edits, in whatever order *)
(* and by however many cut-short rounds the changes arrived; and no text a *)
(* device knows is lost to it, except where ProseSafe says how.            *)
(*                                                                         *)
(* The proof says what a replica holds as a function of the set of changes *)
(* the device knows: of every field and edge what the greatest stamp wrote *)
(* (Settled), and of every text whether it is the row's own, superseded or *)
(* in the inbox.  Every local write and every applied change keeps that.   *)
(* It needs stamps that order causally related changes, which is what the  *)
(* counter gives until it saturates.                                       *)
(***************************************************************************)
EXTENDS SyncEngineProofs

-----------------------------------------------------------------------------
(* The tables of a replica. *)

Slots == [add_clock : OptionHlc, remove_clock : OptionHlc]

Shaped(r) ==
  /\ DOMAIN r = {"row", "val", "clk", "tomb", "inbox", "edge", "member"}
  /\ r.row \in [Entity -> BOOLEAN]
  /\ r.val \in [Entity -> [Field -> Value]]
  /\ r.clk \in [Entity -> [Field -> OptionHlc]]
  /\ r.tomb \in [Entity -> OptionHlc]
  /\ r.edge \in [Edge -> Slots]
  /\ r.member \in [Edge -> BOOLEAN]

LEMMA EmptyShaped == Shaped(EmptyReplica)
BY ReplicaAssumption DEF Shaped, EmptyReplica, Slots, NoMember, OptionHlc

LEMMA ShapedClocked ==
  ASSUME NEW r, Shaped(r)
  PROVE  Clocked(r)
BY DEF Shaped, Clocked

LEMMA FieldsOf ==
  ASSUME NEW fs \in Fields
  PROVE  DOMAIN fs \subseteq Field /\ \A f \in DOMAIN fs : fs[f] \in Value
BY DEF Fields

\* upsert_single touches the row and its columns only.
LEMMA UpsertParts ==
  ASSUME NEW r, Shaped(r), NEW e \in Entity, NEW fs \in Fields, NEW u, u = UpsertSingle(r, e, fs)
  PROVE  /\ Shaped(u)
         /\ u.row = [r.row EXCEPT ![e] = TRUE]
         /\ u.val = [r.val EXCEPT ![e] = [f \in Field |-> IF f \in DOMAIN fs THEN fs[f] ELSE r.val[e][f]]]
         /\ u.clk = r.clk /\ u.tomb = r.tomb /\ u.edge = r.edge /\ u.member = r.member
<1>1. /\ u.row = [r.row EXCEPT ![e] = TRUE]
      /\ u.val = [r.val EXCEPT ![e] = [f \in Field |-> IF f \in DOMAIN fs THEN fs[f] ELSE r.val[e][f]]]
      /\ u.clk = r.clk /\ u.tomb = r.tomb /\ u.edge = r.edge /\ u.member = r.member
      /\ DOMAIN u = DOMAIN r
  BY DEF UpsertSingle, Shaped
<1>2. [f \in Field |-> IF f \in DOMAIN fs THEN fs[f] ELSE r.val[e][f]] \in [Field -> Value]
  BY FieldsOf DEF Shaped
<1>3. u.val \in [Entity -> [Field -> Value]]
  BY <1>1, <1>2 DEF Shaped
<1>4. u.row \in [Entity -> BOOLEAN]
  BY <1>1 DEF Shaped
<1> QED BY <1>1, <1>3, <1>4 DEF Shaped

LEMMA LocalWriteParts ==
  ASSUME NEW r, Shaped(r), NEW e \in Entity, NEW fs \in Fields, NEW c \in Hlc,
         NEW s, s = LocalWrite(r, e, fs, c)
  PROVE  /\ Shaped(s)
         /\ s.row = [r.row EXCEPT ![e] = TRUE]
         /\ \A f \in Field : /\ s.val[e][f] = IF f \in DOMAIN fs THEN fs[f] ELSE r.val[e][f]
                             /\ s.clk[e][f] = IF f \in DOMAIN fs THEN c ELSE r.clk[e][f]
         /\ \A x \in Entity : x # e => s.clk[x] = r.clk[x] /\ s.val[x] = r.val[x]
         /\ s.tomb = r.tomb /\ s.edge = r.edge /\ s.member = r.member
<1>1. PICK u : u = UpsertSingle(r, e, fs)
  OBVIOUS
<1>2. /\ Shaped(u)
      /\ u.row = [r.row EXCEPT ![e] = TRUE]
      /\ u.val = [r.val EXCEPT ![e] = [f \in Field |-> IF f \in DOMAIN fs THEN fs[f] ELSE r.val[e][f]]]
      /\ u.clk = r.clk /\ u.tomb = r.tomb /\ u.edge = r.edge /\ u.member = r.member
  BY <1>1, UpsertParts
<1>3. s = [u EXCEPT !.clk[e] = [f \in Field |-> IF f \in DOMAIN fs THEN c ELSE @[f]]]
  BY <1>1 DEF LocalWrite
<1>4. /\ s.row = u.row /\ s.val = u.val /\ s.tomb = u.tomb /\ s.edge = u.edge /\ s.member = u.member
      /\ s.clk = [u.clk EXCEPT ![e] = [f \in Field |-> IF f \in DOMAIN fs THEN c ELSE u.clk[e][f]]]
      /\ DOMAIN s = DOMAIN u
  BY <1>2, <1>3 DEF Shaped
<1>5. s.clk \in [Entity -> [Field -> OptionHlc]]
  <2>1. [f \in Field |-> IF f \in DOMAIN fs THEN c ELSE u.clk[e][f]] \in [Field -> OptionHlc]
    BY <1>2 DEF Shaped, OptionHlc
  <2> QED BY <1>2, <1>4, <2>1 DEF Shaped
<1>6. Shaped(s)
  BY <1>2, <1>4, <1>5 DEF Shaped
<1>7. \A f \in Field : /\ s.val[e][f] = IF f \in DOMAIN fs THEN fs[f] ELSE r.val[e][f]
                       /\ s.clk[e][f] = IF f \in DOMAIN fs THEN c ELSE r.clk[e][f]
  BY <1>2, <1>4 DEF Shaped
<1>8. \A x \in Entity : x # e => s.clk[x] = r.clk[x] /\ s.val[x] = r.val[x]
  BY <1>2, <1>4 DEF Shaped
<1> QED BY <1>2, <1>4, <1>6, <1>7, <1>8

LEMMA DeleteShaped ==
  ASSUME NEW r, Shaped(r), NEW e
  PROVE  Shaped(DeleteRow(r, e))
<1>1. Default \in [Field -> Value] /\ EdgeEntity \in [Edge -> Entity]
  BY ReplicaAssumption
<1> QED BY <1>1 DEF DeleteRow, Shaped

LEMMA LocalDeleteShaped ==
  ASSUME NEW r, Shaped(r), NEW e, NEW c \in Hlc
  PROVE  Shaped(LocalDelete(r, e, c))
<1>1. PICK u : u = DeleteRow(r, e)
  OBVIOUS
<1>2. Shaped(u)
  BY <1>1, DeleteShaped
<1>3. PICK s : s = [u EXCEPT !.tomb[e] = c]
  OBVIOUS
<1>4. /\ s.row = u.row /\ s.val = u.val /\ s.clk = u.clk /\ s.edge = u.edge /\ s.member = u.member
      /\ s.tomb = [u.tomb EXCEPT ![e] = c] /\ DOMAIN s = DOMAIN u
  BY <1>2, <1>3 DEF Shaped
<1>5. s.tomb \in [Entity -> OptionHlc]
  BY <1>2, <1>4 DEF Shaped, OptionHlc
<1>6. Shaped(s)
  BY <1>2, <1>4, <1>5 DEF Shaped
<1> QED BY <1>1, <1>3, <1>6 DEF LocalDelete

\* merge_set_member on a slot.
LEMMA MergedSlots ==
  ASSUME NEW m \in Slots, NEW p \in BOOLEAN, NEW c \in Hlc
  PROVE  /\ MergeSetMember(m, p, c) \in Slots
         /\ MergeSetMember(m, p, c).add_clock = IF p THEN Later(m.add_clock, c) ELSE m.add_clock
         /\ MergeSetMember(m, p, c).remove_clock = IF p THEN m.remove_clock ELSE Later(m.remove_clock, c)
BY DEF MergeSetMember, Slots, Later, OptionHlc

LEMMA EdgeParts ==
  ASSUME NEW r, Shaped(r), NEW g, NEW p \in BOOLEAN, NEW m \in Slots,
         NEW s, s = [SetMembership(r, g, p) EXCEPT !.edge[g] = m]
  PROVE  /\ Shaped(s)
         /\ s.row = r.row /\ s.val = r.val /\ s.clk = r.clk /\ s.tomb = r.tomb
         /\ s.edge = [r.edge EXCEPT ![g] = m]
         /\ s.member = [r.member EXCEPT ![g] = p]
<1>1. /\ s.row = r.row /\ s.val = r.val /\ s.clk = r.clk /\ s.tomb = r.tomb
      /\ s.edge = [r.edge EXCEPT ![g] = m]
      /\ s.member = [r.member EXCEPT ![g] = p]
      /\ DOMAIN s = DOMAIN r
  BY DEF SetMembership, Shaped
<1> QED BY <1>1, ZenonT(60) DEF Shaped

LEMMA LocalEdgeShaped ==
  ASSUME NEW r, Shaped(r), NEW g, NEW p \in BOOLEAN, NEW c \in Hlc
  PROVE  Shaped(LocalEdge(r, g, p, c))
<1>1. PICK m : m = MergeSetMember(r.edge[g], p, c)
  OBVIOUS
<1>2. PICK s : s = [SetMembership(r, g, p) EXCEPT !.edge[g] = m]
  OBVIOUS
<1>3. /\ s.row = r.row /\ s.val = r.val /\ s.clk = r.clk /\ s.tomb = r.tomb
      /\ s.edge = [r.edge EXCEPT ![g] = m]
      /\ s.member = [r.member EXCEPT ![g] = p]
      /\ DOMAIN s = DOMAIN r
  BY <1>2 DEF SetMembership, Shaped
<1>4. g \in Edge => m \in Slots
  BY <1>1, MergedSlots DEF Shaped
<1>5. s.edge \in [Edge -> Slots] /\ s.member \in [Edge -> BOOLEAN]
  BY <1>3, <1>4 DEF Shaped
<1>6. Shaped(s)
  BY <1>3, <1>5 DEF Shaped
<1>7. LocalEdge(r, g, p, c) = s
  BY <1>1, <1>2 DEF LocalEdge, SetMembership, Shaped
<1> QED BY <1>6, <1>7

LEMMA ApplyDeleteShaped ==
  ASSUME NEW r, Shaped(r), NEW c, c.clock \in Hlc
  PROVE  Shaped(ApplyDelete(r, c))
<1> DEFINE e == c.target
           kept == {Conflict(e, f, r.val[e][f], r.clk[e][f]) : f \in UnobservedProse(r, c)}
<1>1. PICK s : s = [SetTombstone(r, e, c.clock) EXCEPT !.inbox = @ (+) SetToBag(kept)]
  OBVIOUS
<1>2. /\ s.row = r.row /\ s.val = r.val /\ s.clk = r.clk /\ s.edge = r.edge /\ s.member = r.member
      /\ s.tomb = [r.tomb EXCEPT ![e] = c.clock] /\ DOMAIN s = DOMAIN r
  BY <1>1 DEF SetTombstone, Shaped
<1>3. s.tomb \in [Entity -> OptionHlc]
  BY <1>2 DEF Shaped, OptionHlc
<1>4. Shaped(s)
  BY <1>2, <1>3 DEF Shaped
<1>5. ApplyDelete(r, c) = s \/ ApplyDelete(r, c) = DeleteRow(s, e)
  BY <1>1 DEF ApplyDelete
<1> QED BY <1>4, <1>5, DeleteShaped

\* What a field's merge leaves: the decision as a value and a stamp of one side.
Merged(r, c, f, v, k) ==
  \/ v = c.fields[f] /\ k = c.clock
  \/ v = r.val[c.target][f] /\ k = r.clk[c.target][f]

LEMMA MergeLeaves ==
  ASSUME NEW r, NEW c, NEW f, MergeField(r, c, f).decision # "keep"
  PROVE  Merged(r, c, f, MergeField(r, c, f).value, MergeField(r, c, f).clock)
<1> DEFINE lval == r.val[c.target][f]
           lclock == LocalClock(r, c, f)
           ival == c.fields[f]
<1>1. CASE f \in ProseField
  <2> DEFINE m == MergeConflictCopy(lval, lclock, ival, c.clock, c.base)
  <2>1. MergeField(r, c, f) = m
    BY <1>1 DEF MergeField
  <2>2. lclock # NoClock => lclock = r.clk[c.target][f]
    BY DEF LocalClock
  <2> HIDE DEF lclock
  <2>3. m.decision # "keep" =>
          (m.value = ival /\ m.clock = c.clock) \/ (lclock # NoClock /\ m.value = lval /\ m.clock = lclock)
    <3> HIDE DEF lval, ival
    <3> QED BY DEF MergeConflictCopy, TakeIncoming, KeepLocal, ConflictCopy
  <2> HIDE DEF m
  <2> QED BY <2>1, <2>2, <2>3 DEF Merged
<1>2. CASE f \notin ProseField
  <2>1. MergeField(r, c, f) = MergeLww(lval, lclock, ival, c.clock, c.base)
    BY <1>2 DEF MergeField
  <2> HIDE DEF lclock
  <2> QED BY <2>1 DEF MergeLww, TakeIncoming, KeepLocal, Merged
<1> QED BY <1>1, <1>2

\* apply_fields touches the row, its columns, its clocks and the inbox.
Written1(r, c) == {f \in Mergeable(r, c) : MergeField(r, c, f).decision # "keep"}

LEMMA ApplyFieldsParts ==
  ASSUME NEW r, Shaped(r), NEW c \in Change, c.target \in Entity, NEW s, s = ApplyFields(r, c)
  PROVE  /\ Shaped(s)
         /\ s.row = [r.row EXCEPT ![c.target] = @ \/ ~Tombstoned(r, c) \/ Written1(r, c) # {}]
         /\ s.val = [r.val EXCEPT ![c.target] = [f \in Field |->
               IF f \in Written1(r, c) THEN MergeField(r, c, f).value ELSE r.val[c.target][f]]]
         /\ s.clk = [r.clk EXCEPT ![c.target] = [f \in Field |->
               IF f \in Written1(r, c) THEN MergeField(r, c, f).clock ELSE r.clk[c.target][f]]]
         /\ \A x \in Entity : x # c.target => s.clk[x] = r.clk[x] /\ s.val[x] = r.val[x]
         /\ s.tomb = r.tomb /\ s.edge = r.edge /\ s.member = r.member
<1> DEFINE e == c.target
           merge == [f \in Mergeable(r, c) |-> MergeField(r, c, f)]
           written == {f \in DOMAIN merge : merge[f].decision # "keep"}
           w == Written1(r, c)
           vals == [f \in Field |-> IF f \in w THEN MergeField(r, c, f).value ELSE r.val[e][f]]
           clks == [f \in Field |-> IF f \in w THEN MergeField(r, c, f).clock ELSE r.clk[e][f]]
<1>1. written = w
  BY DEF Written1
<1>2. /\ s.row = [r.row EXCEPT ![e] = @ \/ ~Tombstoned(r, c) \/ written # {}]
      /\ s.val = [r.val EXCEPT ![e] = [f \in Field |-> IF f \in written THEN merge[f].value ELSE r.val[e][f]]]
      /\ s.clk = [r.clk EXCEPT ![e] = [f \in Field |-> IF f \in written THEN merge[f].clock ELSE r.clk[e][f]]]
      /\ s.tomb = r.tomb /\ s.edge = r.edge /\ s.member = r.member
      /\ DOMAIN s = DOMAIN r
  BY DEF ApplyFields, Shaped
<1>3. [f \in Field |-> IF f \in written THEN merge[f].value ELSE r.val[e][f]] = vals
  BY <1>1
<1>4. [f \in Field |-> IF f \in written THEN merge[f].clock ELSE r.clk[e][f]] = clks
  BY <1>1
<1>5. /\ c.fields \in Fields /\ c.clock \in Hlc
      /\ w \subseteq DOMAIN c.fields
  BY DEF Change, Written1, Mergeable
<1>6. \A f \in w : Merged(r, c, f, MergeField(r, c, f).value, MergeField(r, c, f).clock)
  BY MergeLeaves DEF Written1
<1>7. \A f \in Field : r.val[e][f] \in Value /\ r.clk[e][f] \in OptionHlc
  BY DEF Shaped
<1>8. \A f \in w : f \in Field /\ c.fields[f] \in Value
  BY <1>5, FieldsOf
<1>9. \A f \in w : MergeField(r, c, f).value \in Value /\ MergeField(r, c, f).clock \in OptionHlc
  BY <1>5, <1>6, <1>7, <1>8 DEF Merged, OptionHlc
<1>10. vals \in [Field -> Value] /\ clks \in [Field -> OptionHlc]
  BY <1>7, <1>9
<1> HIDE DEF vals, clks, w, written, merge
<1>11. /\ s.row = [r.row EXCEPT ![e] = @ \/ ~Tombstoned(r, c) \/ w # {}]
       /\ s.val = [r.val EXCEPT ![e] = vals] /\ s.clk = [r.clk EXCEPT ![e] = clks]
  BY <1>1, <1>2, <1>3, <1>4
<1>12. Shaped(s)
  BY <1>2, <1>10, <1>11 DEF Shaped
<1>13. \A x \in Entity : x # e => s.clk[x] = r.clk[x] /\ s.val[x] = r.val[x]
  BY <1>11 DEF Shaped
<1> QED BY <1>2, <1>11, <1>12, <1>13 DEF vals, clks, w

LEMMA ApplyShaped ==
  ASSUME NEW r, Shaped(r), NEW c \in Change, c.kind # "edge" => c.target \in Entity
  PROVE  Shaped(ApplyChange(r, c))
<1>1. c.kind \in {"fields", "delete", "edge"} /\ c.clock \in Hlc /\ c.present \in BOOLEAN
  BY DEF Change
<1>2. CASE c.kind = "fields"
  BY <1>2, ApplyFieldsParts DEF ApplyChange
<1>3. CASE c.kind = "delete"
  BY <1>1, <1>3, ApplyDeleteShaped DEF ApplyChange
<1>4. CASE c.kind = "edge"
  <2>1. CASE c.target \in Edge
    <3>1. PICK m : m = MergeSetMember(r.edge[c.target], c.present, c.clock)
      OBVIOUS
    <3>2. m \in Slots
      BY <1>1, <2>1, <3>1, MergedSlots DEF Shaped
    <3>3. PICK s : s = [SetMembership(r, c.target, IsPresent(m)) EXCEPT !.edge[c.target] = m]
      OBVIOUS
    <3>4. IsPresent(m) \in BOOLEAN
      BY DEF IsPresent
    <3>5. Shaped(s)
      BY <3>2, <3>3, <3>4, EdgeParts
    <3>6. ApplyEdge(r, c) = s
      BY <3>1, <3>3 DEF ApplyEdge
    <3> QED BY <1>4, <3>5, <3>6 DEF ApplyChange
  <2>2. CASE c.target \notin Edge
    <3>1. PICK s : s = ApplyEdge(r, c)
      OBVIOUS
    <3>2. /\ s.row = r.row /\ s.val = r.val /\ s.clk = r.clk /\ s.tomb = r.tomb
          /\ s.edge = r.edge /\ s.member = r.member /\ DOMAIN s = DOMAIN r
      BY <2>2, <3>1 DEF ApplyEdge, SetMembership, Shaped
    <3> QED BY <1>4, <3>1, <3>2 DEF ApplyChange, Shaped
  <2> QED BY <2>1, <2>2
<1> QED BY <1>1, <1>2, <1>3, <1>4

-----------------------------------------------------------------------------
(* What a replica holds when the changes of K have been merged into it. *)

Writes(c, e) == c.kind = "fields" /\ c.target = e
Writers(K, e, f) == {c \in K : Writes(c, e) /\ f \in DOMAIN c.fields}
Members(K, g, p) == {c \in K : c.kind = "edge" /\ c.target = g /\ c.present = p}

\* k is the greatest stamp of the changes S, NoClock if there are none.
GreatestOf(k, S) ==
  IF S = {} THEN k = NoClock
  ELSE (\E c \in S : c.clock = k) /\ \A c \in S : AtMost(c.clock, k)

\* v is what the change of S with stamp k wrote to f, the default if there are none.
ValueOf(v, k, S, f) ==
  \/ S = {} /\ v = Default[f]
  \/ \E c \in S : c.clock = k /\ c.fields[f] = v

RowSettled(r, K, e) ==
  /\ r.row[e] <=> \E c \in K : Writes(c, e)
  /\ r.tomb[e] = NoClock
FieldSettled(r, K, e, f) ==
  /\ GreatestOf(r.clk[e][f], Writers(K, e, f))
  /\ ValueOf(r.val[e][f], r.clk[e][f], Writers(K, e, f), f)
EdgeSettled(r, K, g) ==
  /\ GreatestOf(r.edge[g].add_clock, Members(K, g, TRUE))
  /\ GreatestOf(r.edge[g].remove_clock, Members(K, g, FALSE))
  /\ r.member[g] = IsPresent(r.edge[g])
EntitySettled(r, K, e) == RowSettled(r, K, e) /\ \A f \in Field : FieldSettled(r, K, e, f)
Settled(r, K) ==
  /\ \A e \in Entity : EntitySettled(r, K, e)
  /\ \A g \in Edge : EdgeSettled(r, K, g)

LEMMA EmptySettled == Settled(EmptyReplica, {})
BY DEF Settled, EntitySettled, RowSettled, FieldSettled, EdgeSettled, GreatestOf, ValueOf, Writers, Members,
       EmptyReplica, NoMember, IsPresent

LEMMA StampNotNone ==
  ASSUME NEW c \in Hlc
  PROVE  c # NoClock
BY DEF Hlc, NoClock

\* A stamp that takes over: the greatest of one change more.
LEMMA GreatestTaken ==
  ASSUME NEW S \in SUBSET Change, NEW k, GreatestOf(k, S), NEW c \in Change,
         S = {} \/ Before(k, c.clock)
  PROVE  GreatestOf(c.clock, S \cup {c})
<1>1. c.clock \in Hlc /\ \A x \in S : x.clock \in Hlc
  BY DEF Change
<1>2. CASE S = {}
  BY <1>2 DEF GreatestOf, AtMost
<1>3. CASE S # {} /\ Before(k, c.clock)
  <2>1. k \in Hlc /\ \A x \in S : AtMost(x.clock, k)
    BY <1>1, <1>3 DEF GreatestOf
  <2>2. \A x \in S : AtMost(x.clock, c.clock)
    BY <1>1, <1>3, <2>1, StampsTotallyOrdered DEF AtMost
  <2> QED BY <2>2 DEF GreatestOf, AtMost
<1> QED BY <1>2, <1>3

\* One that stays.
LEMMA GreatestKept ==
  ASSUME NEW S \in SUBSET Change, NEW k, GreatestOf(k, S), NEW c \in Change,
         S # {}, ~Before(k, c.clock)
  PROVE  GreatestOf(k, S \cup {c})
<1>1. c.clock \in Hlc /\ k \in Hlc
  BY DEF Change, GreatestOf
<1>2. AtMost(c.clock, k)
  BY <1>1, StampsTotallyOrdered DEF AtMost
<1> QED BY <1>2 DEF GreatestOf

LEMMA LaterIsGreatest ==
  ASSUME NEW S \in SUBSET Change, NEW k, GreatestOf(k, S), NEW c \in Change
  PROVE  GreatestOf(Later(k, c.clock), S \cup {c})
<1>1. c.clock \in Hlc /\ \A x \in S : x.clock \in Hlc
  BY DEF Change
<1>2. CASE S = {}
  BY <1>2, GreatestTaken DEF GreatestOf, Later
<1>3. CASE S # {}
  <2>1. k \in Hlc /\ k # NoClock
    BY <1>1, <1>3, StampNotNone DEF GreatestOf
  <2>2. CASE AtMost(c.clock, k)
    <3>1. ~Before(k, c.clock)
      BY <1>1, <2>1, <2>2, StampsTotallyOrdered DEF AtMost
    <3> QED BY <1>3, <2>1, <2>2, <3>1, GreatestKept DEF Later
  <2>3. CASE ~AtMost(c.clock, k)
    <3>1. Before(k, c.clock)
      BY <1>1, <2>1, <2>3, StampsTotallyOrdered DEF AtMost
    <3> QED BY <2>3, <3>1, GreatestTaken DEF Later
  <2> QED BY <2>2, <2>3
<1> QED BY <1>2, <1>3

\* There is only one greatest stamp.
LEMMA GreatestUnique ==
  ASSUME NEW S \in SUBSET Change, NEW k, NEW l, GreatestOf(k, S), GreatestOf(l, S)
  PROVE  k = l
<1>1. CASE S = {}
  BY <1>1 DEF GreatestOf
<1>2. CASE S # {}
  <2>1. k \in Hlc /\ l \in Hlc /\ AtMost(k, l) /\ AtMost(l, k)
    BY <1>2 DEF GreatestOf, Change
  <2> QED BY <2>1, StampsTotallyOrdered DEF AtMost
<1> QED BY <1>1, <1>2

-----------------------------------------------------------------------------
(* Writes and merges keep a replica settled. *)

\* Field f of c.target after c: c has taken over, or what was there stays.
Takes(s, r, K, c, f) ==
  /\ s.clk[c.target][f] = c.clock /\ s.val[c.target][f] = c.fields[f]
  /\ Writers(K, c.target, f) = {} \/ Before(r.clk[c.target][f], c.clock)
Stays(s, r, e, f) == s.clk[e][f] = r.clk[e][f] /\ s.val[e][f] = r.val[e][f]
Meets(s, r, K, c, f) ==
  IF f \in DOMAIN c.fields
  THEN \/ Takes(s, r, K, c, f)
       \/ /\ Stays(s, r, c.target, f)
          /\ Writers(K, c.target, f) # {} /\ ~Before(r.clk[c.target][f], c.clock)
  ELSE Stays(s, r, c.target, f)

\* An entity the change does not touch.
LEMMA EntityStays ==
  ASSUME NEW K, NEW r, NEW c, NEW e \in Entity, EntitySettled(r, K, e), ~Writes(c, e),
         NEW s, s.row[e] = r.row[e], s.val[e] = r.val[e], s.clk[e] = r.clk[e], s.tomb[e] = r.tomb[e]
  PROVE  EntitySettled(s, K \cup {c}, e)
<1>1. RowSettled(s, K \cup {c}, e)
  BY DEF EntitySettled, RowSettled
<1>2. ASSUME NEW f \in Field PROVE FieldSettled(s, K \cup {c}, e, f)
  <2>1. Writers(K \cup {c}, e, f) = Writers(K, e, f)
    BY DEF Writers
  <2>2. FieldSettled(r, K, e, f)
    BY DEF EntitySettled
  <2> QED BY <2>1, <2>2 DEF FieldSettled
<1> QED BY <1>1, <1>2 DEF EntitySettled

\* The one it writes.
LEMMA EntityTakes ==
  ASSUME NEW K \in SUBSET Change, NEW r,
         NEW c \in Change, c.kind = "fields", EntitySettled(r, K, c.target),
         NEW s, s.row[c.target] = TRUE, s.tomb[c.target] = r.tomb[c.target],
         \A f \in Field : Meets(s, r, K, c, f)
  PROVE  EntitySettled(s, K \cup {c}, c.target)
<1> DEFINE e == c.target
           L == K \cup {c}
<1>1. RowSettled(s, L, e)
  BY DEF EntitySettled, RowSettled, Writes
<1>2. ASSUME NEW f \in Field PROVE FieldSettled(s, L, e, f)
  <2> DEFINE W == Writers(K, e, f)
  <2>1. GreatestOf(r.clk[e][f], W) /\ ValueOf(r.val[e][f], r.clk[e][f], W, f)
    BY DEF EntitySettled, FieldSettled
  <2>2. W \in SUBSET Change
    BY DEF Writers
  <2>3. Writers(L, e, f) = IF f \in DOMAIN c.fields THEN W \cup {c} ELSE W
    BY DEF Writers, Writes
  <2> HIDE DEF W
  <2>4. CASE f \notin DOMAIN c.fields
    <3>1. s.clk[e][f] = r.clk[e][f] /\ s.val[e][f] = r.val[e][f]
      BY <2>4 DEF Meets, Stays
    <3> QED BY <2>1, <2>3, <2>4, <3>1 DEF FieldSettled
  <2>5. CASE f \in DOMAIN c.fields
    <3>1. Writers(L, e, f) = W \cup {c}
      BY <2>3, <2>5
    <3>2. CASE Takes(s, r, K, c, f)
      <4>1. s.clk[e][f] = c.clock /\ s.val[e][f] = c.fields[f] /\ (W = {} \/ Before(r.clk[e][f], c.clock))
        BY <3>2 DEF Takes, W
      <4>2. GreatestOf(c.clock, W \cup {c})
        BY <2>1, <2>2, <4>1, GreatestTaken
      <4> QED BY <3>1, <4>1, <4>2 DEF FieldSettled, ValueOf
    <3>3. CASE /\ Stays(s, r, c.target, f)
               /\ Writers(K, c.target, f) # {} /\ ~Before(r.clk[c.target][f], c.clock)
      <4>1. /\ s.clk[e][f] = r.clk[e][f] /\ s.val[e][f] = r.val[e][f]
            /\ W # {} /\ ~Before(r.clk[e][f], c.clock)
        BY <3>3 DEF Stays, W
      <4>2. GreatestOf(r.clk[e][f], W \cup {c})
        BY <2>1, <2>2, <4>1, GreatestKept
      <4>3. ValueOf(r.val[e][f], r.clk[e][f], W \cup {c}, f)
        BY <2>1, <4>1 DEF ValueOf
      <4> QED BY <3>1, <4>1, <4>2, <4>3 DEF FieldSettled
    <3> QED BY <2>5, <3>2, <3>3 DEF Meets
  <2> QED BY <2>4, <2>5
<1> QED BY <1>1, <1>2 DEF EntitySettled

LEMMA FieldsSettle ==
  ASSUME NEW K \in SUBSET Change, NEW r, Shaped(r), Settled(r, K),
         NEW c \in Change, c.kind = "fields", c.target \in Entity,
         NEW s, Shaped(s),
         s.row = [r.row EXCEPT ![c.target] = TRUE],
         \A e \in Entity : e # c.target => s.clk[e] = r.clk[e] /\ s.val[e] = r.val[e],
         s.tomb = r.tomb, s.edge = r.edge, s.member = r.member,
         \A f \in Field : Meets(s, r, K, c, f)
  PROVE  Settled(s, K \cup {c})
<1> DEFINE L == K \cup {c}
<1>1. ASSUME NEW e \in Entity, e # c.target PROVE EntitySettled(s, L, e)
  <2>1. EntitySettled(r, K, e) /\ ~Writes(c, e)
    BY <1>1 DEF Settled, Writes
  <2>2. s.row[e] = r.row[e]
    BY <1>1 DEF Shaped
  <2> QED BY <1>1, <2>1, <2>2, EntityStays
<1>2. EntitySettled(s, L, c.target)
  <2>1. EntitySettled(r, K, c.target)
    BY DEF Settled
  <2>2. s.row[c.target] = TRUE
    BY DEF Shaped
  <2> QED BY <2>1, <2>2, EntityTakes
<1>3. ASSUME NEW g \in Edge PROVE EdgeSettled(s, L, g)
  <2>1. EdgeSettled(r, K, g)
    BY DEF Settled
  <2>2. Members(L, g, TRUE) = Members(K, g, TRUE) /\ Members(L, g, FALSE) = Members(K, g, FALSE)
    BY DEF Members
  <2> QED BY <2>1, <2>2 DEF EdgeSettled
<1> QED BY <1>1, <1>2, <1>3 DEF Settled

\* upsert_single and the clocks of emit_change.
LEMMA WriteMeets ==
  ASSUME NEW K \in SUBSET Change, NEW r, Shaped(r), NEW c \in Change, c.target \in Entity,
         EntitySettled(r, K, c.target),
         \A x \in K : Before(x.clock, c.clock),
         NEW s, s = LocalWrite(r, c.target, c.fields, c.clock)
  PROVE  \A f \in Field : Meets(s, r, K, c, f)
<1> DEFINE e == c.target
<1>2. c.fields \in Fields /\ c.clock \in Hlc
  BY DEF Change
<1>3. /\ Shaped(s)
      /\ s.row = [r.row EXCEPT ![e] = TRUE]
      /\ \A f \in Field : /\ s.val[e][f] = IF f \in DOMAIN c.fields THEN c.fields[f] ELSE r.val[e][f]
                          /\ s.clk[e][f] = IF f \in DOMAIN c.fields THEN c.clock ELSE r.clk[e][f]
      /\ \A x \in Entity : x # e => s.clk[x] = r.clk[x] /\ s.val[x] = r.val[x]
      /\ s.tomb = r.tomb /\ s.edge = r.edge /\ s.member = r.member
  BY <1>2, LocalWriteParts
<1>6. ASSUME NEW f \in Field PROVE Meets(s, r, K, c, f)
  <2>1. CASE f \notin DOMAIN c.fields
    BY <1>3, <2>1 DEF Meets, Stays
  <2>2. CASE f \in DOMAIN c.fields
    <3>1. s.clk[e][f] = c.clock /\ s.val[e][f] = c.fields[f]
      BY <1>3, <2>2
    <3>2. GreatestOf(r.clk[e][f], Writers(K, e, f))
      BY DEF EntitySettled, FieldSettled
    <3>3. Writers(K, e, f) = {} \/ Before(r.clk[e][f], c.clock)
      BY <3>2 DEF GreatestOf, Writers
    <3> QED BY <2>2, <3>1, <3>3 DEF Meets, Takes
  <2> QED BY <2>1, <2>2
<1> QED BY <1>6

LEMMA LocalWriteSettles ==
  ASSUME NEW K \in SUBSET Change, NEW r, Shaped(r), Settled(r, K),
         NEW c \in Change, c.kind = "fields", c.target \in Entity,
         \A x \in K : Before(x.clock, c.clock)
  PROVE  Settled(LocalWrite(r, c.target, c.fields, c.clock), K \cup {c})
<1>1. PICK s : s = LocalWrite(r, c.target, c.fields, c.clock)
  OBVIOUS
<1>2. c.fields \in Fields /\ c.clock \in Hlc
  BY DEF Change
<1>3. /\ Shaped(s)
      /\ s.row = [r.row EXCEPT ![c.target] = TRUE]
      /\ \A x \in Entity : x # c.target => s.clk[x] = r.clk[x] /\ s.val[x] = r.val[x]
      /\ s.tomb = r.tomb /\ s.edge = r.edge /\ s.member = r.member
  BY <1>1, <1>2, LocalWriteParts
<1>4. \A f \in Field : Meets(s, r, K, c, f)
  <2>1. EntitySettled(r, K, c.target)
    BY DEF Settled
  <2> QED BY <1>1, <2>1, WriteMeets
<1>5. Settled(s, K \cup {c})
  BY <1>3, <1>4, FieldsSettle
<1> QED BY <1>1, <1>5

\* apply_fields on a row without a tombstone, whichever branch merge_field takes.
Merges(s, r, K, c) ==
  /\ \A f \in Field : Meets(s, r, K, c, f)
  /\ Shaped(s) /\ s.row = [r.row EXCEPT ![c.target] = TRUE]
  /\ \A x \in Entity : x # c.target => s.clk[x] = r.clk[x] /\ s.val[x] = r.val[x]
  /\ s.tomb = r.tomb /\ s.edge = r.edge /\ s.member = r.member

LEMMA ApplyMeets ==
  ASSUME NEW K \in SUBSET Change, NEW r, Shaped(r), NEW c \in Change, c.target \in Entity,
         EntitySettled(r, K, c.target),
         c.base # NoClock => Before(c.base, c.clock),
         NEW s, s = ApplyFields(r, c)
  PROVE  Merges(s, r, K, c)
<1> DEFINE e == c.target
           w == Written1(r, c)
           vals == [f \in Field |-> IF f \in w THEN MergeField(r, c, f).value ELSE r.val[e][f]]
           clks == [f \in Field |-> IF f \in w THEN MergeField(r, c, f).clock ELSE r.clk[e][f]]
<1>2. c.fields \in Fields /\ c.clock \in Hlc
  BY DEF Change
<1>3. RowSettled(r, K, e) /\ ~Tombstoned(r, c)
  BY DEF EntitySettled, RowSettled, Tombstoned
<1>4. Mergeable(r, c) = DOMAIN c.fields
  BY <1>3 DEF Mergeable, ToInbox, Dominated
<1>5. /\ Shaped(s)
      /\ s.row = [r.row EXCEPT ![e] = @ \/ ~Tombstoned(r, c) \/ w # {}]
      /\ s.val = [r.val EXCEPT ![e] = vals] /\ s.clk = [r.clk EXCEPT ![e] = clks]
      /\ \A x \in Entity : x # e => s.clk[x] = r.clk[x] /\ s.val[x] = r.val[x]
      /\ s.tomb = r.tomb /\ s.edge = r.edge /\ s.member = r.member
  BY ApplyFieldsParts, SMTT(30)
<1>6. s.row = [r.row EXCEPT ![e] = TRUE]
  BY <1>3, <1>5 DEF Shaped
<1>7. s.val[e] = vals /\ s.clk[e] = clks
  BY <1>5 DEF Shaped
<1>9. ASSUME NEW f \in Field PROVE Meets(s, r, K, c, f)
  <2> DEFINE W == Writers(K, e, f)
             m == MergeField(r, c, f)
             l == r.clk[e][f]
  <2>1. CASE f \notin DOMAIN c.fields
    <3>1. f \notin w
      BY <1>4, <2>1 DEF Written1
    <3> QED BY <1>7, <2>1, <3>1 DEF Meets, Stays
  <2>2. CASE f \in DOMAIN c.fields
    <3>1. GreatestOf(l, W)
      BY DEF EntitySettled, FieldSettled
    <3>2. f \in w <=> m.decision # "keep"
      BY <1>4, <2>2 DEF Written1
    <3>3. LocalClock(r, c, f) = l
      <4>1. CASE W = {}
        BY <3>1, <4>1 DEF GreatestOf, LocalClock
      <4>2. CASE W # {}
        <5>1. r.row[e]
          BY <1>3, <4>2 DEF RowSettled, Writers
        <5> QED BY <5>1 DEF LocalClock
      <4> QED BY <4>1, <4>2
    <3>4. W = {} => l = NoClock
      BY <3>1 DEF GreatestOf
    <3>5. W # {} => l # NoClock /\ l \in Hlc
      <4>1. \A x \in W : x.clock \in Hlc
        BY DEF Writers, Change
      <4> QED BY <3>1, <4>1, StampNotNone DEF GreatestOf
    <3>6. s.val[e][f] = IF f \in w THEN m.value ELSE r.val[e][f]
      BY <1>7
    <3>7. s.clk[e][f] = IF f \in w THEN m.clock ELSE l
      BY <1>7
    <3> HIDE DEF m, W, l, w
    \* merge_lww and merge_conflict_copy: the incoming side wins over nothing or over an
    \* earlier stamp, and otherwise what is there stays.
    <3>8. \/ /\ m.decision # "keep" /\ m.value = c.fields[f] /\ m.clock = c.clock
             /\ l = NoClock \/ Before(l, c.clock)
          \/ /\ m.decision # "keep" /\ m.value = r.val[e][f] /\ m.clock = l
             /\ l # NoClock /\ ~Before(l, c.clock)
          \/ /\ m.decision = "keep"
             /\ l # NoClock /\ ~Before(l, c.clock)
      <4>1. PICK v : v = r.val[e][f]
        OBVIOUS
      <4>2. PICK i : i = c.fields[f]
        OBVIOUS
      <4>3. CASE f \in ProseField
        <5>1. m = MergeConflictCopy(v, l, i, c.clock, c.base)
          BY <3>3, <4>1, <4>2, <4>3 DEF MergeField, m
        <5>2. CASE l = NoClock
          BY <4>2, <5>1, <5>2 DEF MergeConflictCopy, TakeIncoming
        <5>3. CASE l # NoClock /\ v = i
          BY <4>1, <4>2, <5>1, <5>3 DEF MergeConflictCopy, TakeIncoming, KeepLocal
        <5>4. CASE l # NoClock /\ v # i /\ c.base = l
          BY <4>2, <5>1, <5>4 DEF MergeConflictCopy, TakeIncoming
        <5>5. CASE l # NoClock /\ v # i /\ c.base # l
          BY <4>1, <4>2, <5>1, <5>5 DEF MergeConflictCopy, ConflictCopy
        <5> QED BY <5>2, <5>3, <5>4, <5>5
      <4>4. CASE f \notin ProseField
        <5>1. m = MergeLww(v, l, i, c.clock, c.base)
          BY <3>3, <4>1, <4>2, <4>4 DEF MergeField, m
        <5> QED BY <4>2, <5>1 DEF MergeLww, TakeIncoming, KeepLocal
      <4> QED BY <4>3, <4>4
    <3>9. l # NoClock => W # {}
      BY <3>4
    <3>10. l = NoClock => W = {}
      BY <3>5
    <3>11. W = Writers(K, c.target, f) /\ l = r.clk[c.target][f]
      BY DEF W, l
    <3> QED BY <2>2, <3>2, <3>6, <3>7, <3>8, <3>9, <3>10, <3>11 DEF Meets, Takes, Stays
  <2> QED BY <2>1, <2>2
<1> HIDE DEF vals, clks, w
<1> QED BY <1>5, <1>6, <1>9 DEF Merges

LEMMA ApplyFieldsSettles ==
  ASSUME NEW K \in SUBSET Change, NEW r, Shaped(r), Settled(r, K),
         NEW c \in Change, c.kind = "fields", c.target \in Entity,
         c.base # NoClock => Before(c.base, c.clock)
  PROVE  Settled(ApplyFields(r, c), K \cup {c})
<1>1. PICK s : s = ApplyFields(r, c)
  OBVIOUS
<1>2. EntitySettled(r, K, c.target)
  BY DEF Settled
<1>3. Merges(s, r, K, c)
  BY <1>1, <1>2, ApplyMeets
<1>4. Settled(s, K \cup {c})
  BY <1>3, FieldsSettle DEF Merges
<1> QED BY <1>1, <1>4

\* The edges after an add or a remove of c.target has met them.
MeetsEdges(s, r, c) ==
  /\ \A g \in Edge : g # c.target => s.edge[g] = r.edge[g] /\ s.member[g] = r.member[g]
  /\ c.target \in Edge =>
       /\ s.edge[c.target] = MergeSetMember(r.edge[c.target], c.present, c.clock)
       /\ s.member[c.target] = IsPresent(s.edge[c.target])

LEMMA EdgesSettle ==
  ASSUME NEW K \in SUBSET Change, NEW r, Shaped(r), Settled(r, K),
         NEW c \in Change, c.kind = "edge",
         NEW s, Shaped(s),
         s.row = r.row, s.val = r.val, s.clk = r.clk, s.tomb = r.tomb,
         MeetsEdges(s, r, c)
  PROVE  Settled(s, K \cup {c})
<1> DEFINE L == K \cup {c}
<1>1. ASSUME NEW e \in Entity PROVE EntitySettled(s, L, e)
  <2>1. EntitySettled(r, K, e) /\ ~Writes(c, e)
    BY DEF Settled, Writes
  <2> QED BY <2>1, EntityStays
<1>2. ASSUME NEW g \in Edge PROVE EdgeSettled(s, L, g)
  <2>1. EdgeSettled(r, K, g)
    BY DEF Settled
  <2>2. CASE g # c.target
    <3>1. Members(L, g, TRUE) = Members(K, g, TRUE) /\ Members(L, g, FALSE) = Members(K, g, FALSE)
      BY <2>2 DEF Members
    <3> QED BY <2>1, <2>2, <3>1 DEF EdgeSettled, MeetsEdges
  <2>3. CASE g = c.target
    <3>1. r.edge[g] \in Slots /\ c.present \in BOOLEAN /\ c.clock \in Hlc
      BY DEF Shaped, Change
    <3>2. PICK m : m = r.edge[g]
      OBVIOUS
    <3>3. PICK A : A = Members(K, g, TRUE)
      OBVIOUS
    <3>4. PICK R : R = Members(K, g, FALSE)
      OBVIOUS
    <3>5. A \in SUBSET Change /\ R \in SUBSET Change
      BY <3>3, <3>4 DEF Members
    <3>6. GreatestOf(m.add_clock, A) /\ GreatestOf(m.remove_clock, R)
      BY <2>1, <3>2, <3>3, <3>4 DEF EdgeSettled
    <3>7. s.edge[g] = MergeSetMember(m, c.present, c.clock) /\ s.member[g] = IsPresent(s.edge[g])
      BY <2>3, <3>2 DEF MeetsEdges
    <3>8. CASE c.present = TRUE
      <4>1. Members(L, g, TRUE) = A \cup {c} /\ Members(L, g, FALSE) = R
        BY <2>3, <3>3, <3>4, <3>8 DEF Members
      <4>2. s.edge[g].add_clock = Later(m.add_clock, c.clock) /\ s.edge[g].remove_clock = m.remove_clock
        BY <3>1, <3>2, <3>7, <3>8, MergedSlots
      <4>3. GreatestOf(Later(m.add_clock, c.clock), A \cup {c})
        BY <3>5, <3>6, LaterIsGreatest
      <4> QED BY <3>6, <3>7, <4>1, <4>2, <4>3 DEF EdgeSettled
    <3>9. CASE c.present = FALSE
      <4>1. Members(L, g, TRUE) = A /\ Members(L, g, FALSE) = R \cup {c}
        BY <2>3, <3>3, <3>4, <3>9 DEF Members
      <4>2. s.edge[g].add_clock = m.add_clock /\ s.edge[g].remove_clock = Later(m.remove_clock, c.clock)
        BY <3>1, <3>2, <3>7, <3>9, MergedSlots
      <4>3. GreatestOf(Later(m.remove_clock, c.clock), R \cup {c})
        BY <3>5, <3>6, LaterIsGreatest
      <4> QED BY <3>6, <3>7, <4>1, <4>2, <4>3 DEF EdgeSettled
    <3> QED BY <3>1, <3>8, <3>9
  <2> QED BY <2>2, <2>3
<1> QED BY <1>1, <1>2 DEF Settled

\* apply_edge.
LEMMA ApplyEdgeSettles ==
  ASSUME NEW K \in SUBSET Change, NEW r, Shaped(r), Settled(r, K),
         NEW c \in Change, c.kind = "edge", NEW s, s = ApplyEdge(r, c), Shaped(s)
  PROVE  Settled(s, K \cup {c})
<1>1. PICK m : m = MergeSetMember(r.edge[c.target], c.present, c.clock)
  OBVIOUS
<1>2. /\ s.row = r.row /\ s.val = r.val /\ s.clk = r.clk /\ s.tomb = r.tomb
      /\ s.edge = [r.edge EXCEPT ![c.target] = m]
      /\ s.member = [r.member EXCEPT ![c.target] = IsPresent(m)]
  BY <1>1 DEF ApplyEdge, SetMembership, Shaped
<1>3. \A g \in Edge : g # c.target => s.edge[g] = r.edge[g] /\ s.member[g] = r.member[g]
  BY <1>2 DEF Shaped
<1>4. c.target \in Edge => s.edge[c.target] = m /\ s.member[c.target] = IsPresent(m)
  BY <1>2 DEF Shaped
<1>5. MeetsEdges(s, r, c)
  BY <1>1, <1>3, <1>4 DEF MeetsEdges
<1> QED BY <1>2, <1>5, EdgesSettle

\* A local add or remove, later than all that is known, decides the membership.
LEMMA LocalEdgeSettles ==
  ASSUME NEW K \in SUBSET Change, NEW r, Shaped(r), Settled(r, K),
         NEW c \in Change, c.kind = "edge", \A x \in K : Before(x.clock, c.clock),
         NEW s, s = LocalEdge(r, c.target, c.present, c.clock)
  PROVE  Shaped(s) /\ Settled(s, K \cup {c})
<1>1. PICK m : m = MergeSetMember(r.edge[c.target], c.present, c.clock)
  OBVIOUS
<1>2. /\ s.row = r.row /\ s.val = r.val /\ s.clk = r.clk /\ s.tomb = r.tomb
      /\ s.edge = [r.edge EXCEPT ![c.target] = m]
      /\ s.member = [r.member EXCEPT ![c.target] = c.present]
      /\ DOMAIN s = DOMAIN r
  BY <1>1 DEF LocalEdge, SetMembership, Shaped
<1>3. \A g \in Edge : g # c.target => s.edge[g] = r.edge[g] /\ s.member[g] = r.member[g]
  BY <1>2 DEF Shaped
<1>4. c.present \in BOOLEAN /\ c.clock \in Hlc
  BY DEF Change
<1>5. ASSUME c.target \in Edge
      PROVE  m \in Slots /\ s.edge[c.target] = m /\ s.member[c.target] = IsPresent(m)
  <2> DEFINE g == c.target
  <2>1. r.edge[g] \in Slots
    BY <1>5 DEF Shaped
  <2>2. PICK n : n = r.edge[g]
    OBVIOUS
  <2>3. /\ m \in Slots
        /\ m.add_clock = IF c.present THEN Later(n.add_clock, c.clock) ELSE n.add_clock
        /\ m.remove_clock = IF c.present THEN n.remove_clock ELSE Later(n.remove_clock, c.clock)
    BY <1>1, <1>4, <2>1, <2>2, MergedSlots
  <2>4. s.edge[g] = m /\ s.member[g] = c.present
    BY <1>2, <1>5 DEF Shaped
  <2>5. /\ n.add_clock = NoClock \/ Before(n.add_clock, c.clock)
        /\ n.remove_clock = NoClock \/ Before(n.remove_clock, c.clock)
    <3>1. GreatestOf(n.add_clock, Members(K, g, TRUE)) /\ GreatestOf(n.remove_clock, Members(K, g, FALSE))
      BY <1>5, <2>2 DEF Settled, EdgeSettled
    <3> QED BY <3>1 DEF GreatestOf, Members
  <2>6. n.add_clock \in OptionHlc /\ n.remove_clock \in OptionHlc
    BY <2>1, <2>2 DEF Slots
  <2>7. \A k \in OptionHlc : k = NoClock \/ Before(k, c.clock) => Later(k, c.clock) = c.clock
    <3> SUFFICES ASSUME NEW k \in OptionHlc, k # NoClock, Before(k, c.clock) PROVE Later(k, c.clock) = c.clock
      BY DEF Later
    <3>1. k \in Hlc
      BY DEF OptionHlc
    <3>2. ~AtMost(c.clock, k)
      BY <1>4, <3>1, StampsTotallyOrdered DEF AtMost
    <3> QED BY <3>2 DEF Later
  <2>8. c.clock # NoClock
    BY <1>4, StampNotNone
  <2>9. IsPresent(m) = c.present
    <3>1. CASE c.present
      <4>1. m.add_clock = c.clock /\ m.remove_clock = n.remove_clock
        BY <2>3, <2>5, <2>6, <2>7, <3>1
      <4> QED BY <2>5, <2>8, <3>1, <4>1 DEF IsPresent
    <3>2. CASE ~c.present
      <4>1. m.remove_clock = c.clock /\ m.add_clock = n.add_clock
        BY <2>3, <2>5, <2>6, <2>7, <3>2
      <4>2. n.add_clock = NoClock \/ ~Before(c.clock, n.add_clock)
        <5>1. n.add_clock \in Hlc \/ n.add_clock = NoClock
          BY <2>6 DEF OptionHlc
        <5> QED BY <1>4, <2>5, <5>1, StampsTotallyOrdered
      <4> QED BY <1>4, <2>8, <3>2, <4>1, <4>2 DEF IsPresent
    <3> QED BY <3>1, <3>2
  <2> QED BY <2>3, <2>4, <2>9
<1>6. Shaped(s)
  <2>1. s.edge \in [Edge -> Slots] /\ s.member \in [Edge -> BOOLEAN]
    BY <1>2, <1>4, <1>5, ZenonT(60) DEF Shaped
  <2> QED BY <1>2, <2>1 DEF Shaped
<1>7. MeetsEdges(s, r, c)
  BY <1>1, <1>3, <1>5 DEF MeetsEdges
<1>8. Settled(s, K \cup {c})
  BY <1>2, <1>6, <1>7, EdgesSettle
<1> QED BY <1>6, <1>8

\* apply_change, of anything but a delete.
LEMMA ApplySettles ==
  ASSUME NEW K \in SUBSET Change, NEW r, Shaped(r), Settled(r, K),
         NEW c \in Change, c.kind # "delete", c.kind # "edge" => c.target \in Entity,
         c.base # NoClock => Before(c.base, c.clock)
  PROVE  Settled(ApplyChange(r, c), K \cup {c})
<1>1. c.kind = "fields" \/ c.kind = "edge"
  BY DEF Change
<1>2. CASE c.kind = "fields"
  <2>1. ApplyChange(r, c) = ApplyFields(r, c)
    BY <1>2 DEF ApplyChange
  <2>2. c.target \in Entity
    BY <1>2
  <2> QED BY <1>2, <2>1, <2>2, ApplyFieldsSettles
<1>3. CASE c.kind = "edge"
  <2>1. PICK s : s = ApplyEdge(r, c)
    OBVIOUS
  <2>2. ApplyChange(r, c) = s
    BY <1>3, <2>1 DEF ApplyChange
  <2>3. Shaped(s)
    BY <1>3, <2>2, ApplyShaped
  <2> QED BY <1>3, <2>1, <2>2, <2>3, ApplyEdgeSettles
<1> QED BY <1>1, <1>2, <1>3

\* Two replicas settled on the same changes show the same, if no two changes bear one stamp.
LEMMA SettledAgree ==
  ASSUME NEW K \in SUBSET Change, NEW r, NEW s, Shaped(r), Shaped(s), Settled(r, K), Settled(s, K),
         \A x \in K : \A y \in K : x.clock = y.clock => x = y
  PROVE  r.row = s.row /\ r.val = s.val /\ r.member = s.member
<1>1. r.row = s.row
  <2>1. \A e \in Entity : r.row[e] = s.row[e]
    <3> SUFFICES ASSUME NEW e \in Entity PROVE r.row[e] = s.row[e]
      OBVIOUS
    <3>1. RowSettled(r, K, e) /\ RowSettled(s, K, e)
      BY DEF Settled, EntitySettled
    <3>2. r.row[e] \in BOOLEAN /\ s.row[e] \in BOOLEAN
      BY DEF Shaped
    <3>3. r.row[e] <=> s.row[e]
      BY <3>1 DEF RowSettled
    <3> QED BY <3>2, <3>3
  <2> QED BY <2>1 DEF Shaped
<1>2. ASSUME NEW e \in Entity, NEW f \in Field PROVE r.val[e][f] = s.val[e][f]
  <2>1. PICK W : W = Writers(K, e, f)
    OBVIOUS
  <2>2. PICK k : k = r.clk[e][f]
    OBVIOUS
  <2>3. PICK l : l = s.clk[e][f]
    OBVIOUS
  <2>4. W \in SUBSET Change /\ W \subseteq K
    BY <2>1 DEF Writers
  <2>5. /\ GreatestOf(k, W) /\ ValueOf(r.val[e][f], k, W, f)
        /\ GreatestOf(l, W) /\ ValueOf(s.val[e][f], l, W, f)
    BY <2>1, <2>2, <2>3 DEF Settled, EntitySettled, FieldSettled
  <2>6. k = l
    BY <2>4, <2>5, GreatestUnique
  <2> QED BY <2>4, <2>5, <2>6 DEF ValueOf
<1>3. r.val = s.val
  <2>1. \A e \in Entity : r.val[e] = s.val[e]
    BY <1>2 DEF Shaped
  <2> QED BY <2>1 DEF Shaped
<1>4. ASSUME NEW g \in Edge PROVE r.member[g] = s.member[g]
  <2>1. PICK A : A = Members(K, g, TRUE)
    OBVIOUS
  <2>2. PICK R : R = Members(K, g, FALSE)
    OBVIOUS
  <2>3. PICK m : m = r.edge[g]
    OBVIOUS
  <2>4. PICK n : n = s.edge[g]
    OBVIOUS
  <2>5. A \in SUBSET Change /\ R \in SUBSET Change
    BY <2>1, <2>2 DEF Members
  <2>6. /\ GreatestOf(m.add_clock, A) /\ GreatestOf(m.remove_clock, R) /\ r.member[g] = IsPresent(m)
        /\ GreatestOf(n.add_clock, A) /\ GreatestOf(n.remove_clock, R) /\ s.member[g] = IsPresent(n)
    BY <2>1, <2>2, <2>3, <2>4 DEF Settled, EdgeSettled
  <2>7. m.add_clock = n.add_clock /\ m.remove_clock = n.remove_clock
    BY <2>5, <2>6, GreatestUnique
  <2>8. m \in Slots /\ n \in Slots
    BY <2>3, <2>4 DEF Shaped
  <2>9. m = n
    BY <2>7, <2>8 DEF Slots
  <2> QED BY <2>6, <2>9
<1>5. r.member = s.member
  BY <1>4 DEF Shaped
<1> QED BY <1>1, <1>3, <1>5

-----------------------------------------------------------------------------
(* What becomes of prose, deletes included.  The argument keeps, of every   *)
(* text a device knows, whether it is in the inbox, was superseded by a     *)
(* change based on a version that had it, or is the row's own; and that a   *)
(* row nobody has deleted is settled, so that its clock is not behind any   *)
(* version a delete may have seen.                                          *)

Deleted(K, e) == {n \in K : n.kind = "delete" /\ n.target = e}
Twice(K, e) == \E n, m \in Deleted(K, e) : n # m
ProseOf(c) == DOMAIN c.fields \cap ProseField

\* Changes as devices make them: of an entity one column is prose, a stamp names its change.
Sound(K) ==
  /\ K \in SUBSET Change
  /\ \A c \in K : /\ c.kind # "edge" => c.target \in Entity
                  /\ c.kind # "fields" => DOMAIN c.fields = {}
  /\ \A x, y \in K : x.target = y.target => \A f \in ProseOf(x) : \A g \in ProseOf(y) : f = g
  /\ \A x, y \in K : x.clock = y.clock => x = y

\* The base of a change is the stamp of a prose version of its row.
Grounded(K, c) ==
  c.base # NoClock => \E v \in K : v.clock = c.base /\ Writes(v, c.target) /\ ProseOf(v) # {}
BasesKnown(K) == \A c \in K : Grounded(K, c)

\* Clocks and tombstones are those of known changes.
ClocksFrom(r, K) ==
  \A e \in Entity : \A f \in Field :
    r.clk[e][f] = NoClock \/ \E w \in Writers(K, e, f) : w.clock = r.clk[e][f]
TombsFrom(r, K) == \A e \in Entity : r.tomb[e] = NoClock <=> Deleted(K, e) = {}

\* An inbox row bears the stamp of a known change, and not the one that is live.
Entry(r, K, x) ==
  /\ x.entity \in Entity /\ x.field \in Field
  /\ \E w \in Writers(K, x.entity, x.field) : w.clock = x.clock
  /\ Deleted(K, x.entity) = {} => x.clock # r.clk[x.entity][x.field]
InboxFrom(r, K) ==
  \A x \in DOMAIN r.inbox :
    /\ Entry(r, K, x)
    /\ r.inbox[x] \in Nat
    /\ r.inbox[x] = 1 \/ Twice(K, x.entity)

\* The text c wrote to f: in the inbox, superseded, or the row's.
Boxed(r, c, f) ==
  \E x \in DOMAIN r.inbox : x.entity = c.target /\ x.field = f /\ x.value = c.fields[f]
Supersedes(n, v, c, f) ==
  /\ n.target = c.target
  /\ n.kind = "delete" \/ f \in DOMAIN n.fields
  /\ n.base = v.clock
  /\ f \in DOMAIN v.fields /\ v.fields[f] = c.fields[f]
Superseded(K, c, f) == \E n, v \in K : Supersedes(n, v, c, f)
Owned(r, K, c, f) ==
  /\ r.row[c.target] /\ r.val[c.target][f] = c.fields[f]
  /\ \E w \in Writers(K, c.target, f) : w.clock = r.clk[c.target][f] /\ w.fields[f] = c.fields[f]
Rewritten(K, d, c) == c.device_id = d /\ \E n \in Deleted(K, c.target) : Before(n.clock, c.clock)
Held(r, K, d, c, f) ==
  \/ Boxed(r, c, f)
  \/ Superseded(K, c, f)
  \/ Deleted(K, c.target) = {} /\ Owned(r, K, c, f)
  \/ Rewritten(K, d, c) /\ (Owned(r, K, c, f) \/ Twice(K, c.target))

ProseHeld(r, K, d, e) == \A c \in K : c.target = e => \A f \in ProseOf(c) : Held(r, K, d, c, f)
EntityHeld(r, K, d, e) ==
  Deleted(K, Parent[e]) = {} =>
    /\ Deleted(K, e) = {} => EntitySettled(r, K, e)
    /\ ProseHeld(r, K, d, e)
HeldBy(r, K, d) ==
  /\ BasesKnown(K) /\ ClocksFrom(r, K) /\ TombsFrom(r, K) /\ InboxFrom(r, K)
  /\ \A e \in Entity : EntityHeld(r, K, d, e)

LEMMA MoreDeleted ==
  ASSUME NEW K, NEW c, NEW e
  PROVE  /\ Deleted(K, e) \subseteq Deleted(K \cup {c}, e)
         /\ c.kind = "delete" /\ c.target = e => Deleted(K \cup {c}, e) = Deleted(K, e) \cup {c}
         /\ c.kind # "delete" \/ c.target # e => Deleted(K \cup {c}, e) = Deleted(K, e)
         /\ Twice(K, e) => Twice(K \cup {c}, e)
BY DEF Deleted, Twice

LEMMA MoreWriters ==
  ASSUME NEW K, NEW c, NEW e, NEW f
  PROVE  /\ Writers(K, e, f) \subseteq Writers(K \cup {c}, e, f)
         /\ Writes(c, e) /\ f \in DOMAIN c.fields => c \in Writers(K \cup {c}, e, f)
BY DEF Writers

LEMMA SoundParts ==
  ASSUME NEW K, NEW c, Sound(K \cup {c})
  PROVE  Sound(K) /\ c \in Change
BY DEF Sound

LEMMA BasesGrow ==
  ASSUME NEW K, NEW c, BasesKnown(K), Grounded(K, c)
  PROVE  BasesKnown(K \cup {c})
BY DEF BasesKnown, Grounded

\* A clock moves only to the stamp of the change that writes the field.
ClocksMove(s, r, c) ==
  \A e \in Entity : \A f \in Field :
    \/ s.clk[e][f] = r.clk[e][f]
    \/ s.clk[e][f] = c.clock /\ Writes(c, e) /\ f \in DOMAIN c.fields

LEMMA ClocksGrow ==
  ASSUME NEW K, NEW r, NEW s, NEW c, ClocksFrom(r, K), ClocksMove(s, r, c)
  PROVE  ClocksFrom(s, K \cup {c})
<1> SUFFICES ASSUME NEW e \in Entity, NEW f \in Field, s.clk[e][f] # NoClock
             PROVE  \E w \in Writers(K \cup {c}, e, f) : w.clock = s.clk[e][f]
  BY DEF ClocksFrom
<1>0. s.clk[e][f] = r.clk[e][f] \/ (s.clk[e][f] = c.clock /\ Writes(c, e) /\ f \in DOMAIN c.fields)
  BY DEF ClocksMove
<1>1. CASE s.clk[e][f] = r.clk[e][f]
  BY <1>1, MoreWriters DEF ClocksFrom
<1>2. CASE s.clk[e][f] = c.clock /\ Writes(c, e) /\ f \in DOMAIN c.fields
  BY <1>2, MoreWriters
<1> QED BY <1>0, <1>1, <1>2

LEMMA TombsGrow ==
  ASSUME NEW K, NEW r, Shaped(r), NEW s, NEW c \in Change, TombsFrom(r, K),
         \/ c.kind = "delete" /\ s.tomb = [r.tomb EXCEPT ![c.target] = c.clock]
         \/ c.kind # "delete" /\ s.tomb = r.tomb
  PROVE  TombsFrom(s, K \cup {c})
<1> SUFFICES ASSUME NEW e \in Entity
             PROVE  s.tomb[e] = NoClock <=> Deleted(K \cup {c}, e) = {}
  BY DEF TombsFrom
<1>1. c.clock # NoClock
  BY StampNotNone DEF Change
<1>2. CASE c.kind = "delete" /\ c.target = e
  <2>1. s.tomb[e] = c.clock
    BY <1>2 DEF Shaped
  <2>2. c \in Deleted(K \cup {c}, e)
    BY <1>2 DEF Deleted
  <2> QED BY <1>1, <2>1, <2>2
<1>3. CASE c.kind # "delete" \/ c.target # e
  <2>1. s.tomb[e] = r.tomb[e]
    BY <1>3 DEF Shaped
  <2>2. Deleted(K \cup {c}, e) = Deleted(K, e)
    BY <1>3, MoreDeleted
  <2> QED BY <2>1, <2>2 DEF TombsFrom
<1> QED BY <1>2, <1>3

\* What is in the inbox stays, and what is superseded stays superseded.
LEMMA HeldGrows ==
  ASSUME NEW K, NEW r, NEW s, NEW c, NEW x, NEW f, DOMAIN r.inbox \subseteq DOMAIN s.inbox
  PROVE  /\ Boxed(r, x, f) => Boxed(s, x, f)
         /\ Superseded(K, x, f) => Superseded(K \cup {c}, x, f)
BY DEF Boxed, Superseded

\* An entity the change leaves alone, or whose parent it deletes.
LEMMA OthersHeld ==
  ASSUME NEW K, NEW r, NEW s, NEW d, NEW c, NEW e \in Entity,
         EntityHeld(r, K, d, e), DOMAIN r.inbox \subseteq DOMAIN s.inbox,
         c.kind = "edge" => DOMAIN c.fields = {},
         c.kind = "edge" \/ c.target # e,
         \/ Deleted(K \cup {c}, Parent[e]) # {}
         \/ s.row[e] = r.row[e] /\ s.val[e] = r.val[e] /\ s.clk[e] = r.clk[e] /\ s.tomb[e] = r.tomb[e]
  PROVE  EntityHeld(s, K \cup {c}, d, e)
<1> SUFFICES ASSUME Deleted(K \cup {c}, Parent[e]) = {}
             PROVE  /\ Deleted(K \cup {c}, e) = {} => EntitySettled(s, K \cup {c}, e)
                    /\ ProseHeld(s, K \cup {c}, d, e)
  BY DEF EntityHeld
<1>1. s.row[e] = r.row[e] /\ s.val[e] = r.val[e] /\ s.clk[e] = r.clk[e] /\ s.tomb[e] = r.tomb[e]
  OBVIOUS
<1>2. Deleted(K, Parent[e]) = {} /\ Deleted(K \cup {c}, e) = Deleted(K, e) /\ ~Writes(c, e)
  BY MoreDeleted, ZenonT(60) DEF Writes
<1>3. Deleted(K \cup {c}, e) = {} => EntitySettled(s, K \cup {c}, e)
  BY <1>1, <1>2, EntityStays DEF EntityHeld
<1>4. ASSUME NEW x \in K \cup {c}, x.target = e, NEW f \in ProseOf(x)
      PROVE  Held(s, K \cup {c}, d, x, f)
  <2>1. x \in K
    BY <1>4 DEF ProseOf
  <2>2. Held(r, K, d, x, f)
    BY <1>2, <1>4, <2>1 DEF EntityHeld, ProseHeld
  <2>3. Owned(r, K, x, f) => Owned(s, K \cup {c}, x, f)
    BY <1>1, <1>4, MoreWriters DEF Owned
  <2>4. Rewritten(K, d, x) => Rewritten(K \cup {c}, d, x)
    BY MoreDeleted DEF Rewritten
  <2>5. Twice(K, e) => Twice(K \cup {c}, e)
    BY MoreDeleted
  <2> QED BY <1>2, <1>4, <2>2, <2>3, <2>4, <2>5, HeldGrows DEF Held
<1> QED BY <1>3, <1>4 DEF ProseHeld

\* The inbox, when a set of rows is added to it.
Enters(N, s, r, L) ==
  \A x \in N : Entry(s, L, x) /\ (x \notin DOMAIN r.inbox \/ Twice(L, x.entity))
Filled(s, r, L, N) ==
  /\ InboxFrom(s, L)
  /\ DOMAIN r.inbox \subseteq DOMAIN s.inbox /\ N \subseteq DOMAIN s.inbox

LEMMA InboxGrows ==
  ASSUME NEW K, NEW r, NEW s, NEW c, Sound(K \cup {c}), c \notin K, InboxFrom(r, K),
         NEW N, s.inbox = r.inbox (+) SetToBag(N),
         ClocksMove(s, r, c), Enters(N, s, r, K \cup {c})
  PROVE  Filled(s, r, K \cup {c}, N)
<1> DEFINE L == K \cup {c}
<1>1. /\ DOMAIN s.inbox = DOMAIN r.inbox \cup N
      /\ \A x \in DOMAIN r.inbox \cup N :
           s.inbox[x] = (IF x \in DOMAIN r.inbox THEN r.inbox[x] ELSE 0) + (IF x \in N THEN 1 ELSE 0)
  BY DEF (+), SetToBag
<1>2. ASSUME NEW x \in DOMAIN r.inbox PROVE Entry(s, L, x)
  <2>1. Entry(r, K, x)
    BY DEF InboxFrom
  <2>2. PICK w \in Writers(K, x.entity, x.field) : w.clock = x.clock
    BY <2>1 DEF Entry
  <2>3. w \in K /\ w # c
    BY DEF Writers
  <2>4. x.clock # c.clock
    BY <2>2, <2>3 DEF Sound
  <2>5. Deleted(L, x.entity) = {} => Deleted(K, x.entity) = {}
    BY MoreDeleted
  <2>6. s.clk[x.entity][x.field] = r.clk[x.entity][x.field] \/ s.clk[x.entity][x.field] = c.clock
    BY <2>1 DEF Entry, ClocksMove
  <2>7. Deleted(L, x.entity) = {} => x.clock # s.clk[x.entity][x.field]
    BY <2>1, <2>4, <2>5, <2>6 DEF Entry
  <2>8. w \in Writers(L, x.entity, x.field)
    BY MoreWriters
  <2> QED BY <2>1, <2>2, <2>7, <2>8 DEF Entry
<1>3. ASSUME NEW x \in DOMAIN s.inbox
      PROVE  Entry(s, L, x) /\ s.inbox[x] \in Nat /\ (s.inbox[x] = 1 \/ Twice(L, x.entity))
  <2>1. CASE x \in N
    <3>1. x \in DOMAIN r.inbox => r.inbox[x] \in Nat
      BY DEF InboxFrom
    <3>2. Entry(s, L, x) /\ (x \notin DOMAIN r.inbox \/ Twice(L, x.entity))
      BY <2>1 DEF Enters
    <3>3. s.inbox[x] = (IF x \in DOMAIN r.inbox THEN r.inbox[x] ELSE 0) + 1
      BY <1>1, <2>1
    <3>4. s.inbox[x] \in Nat /\ (x \notin DOMAIN r.inbox => s.inbox[x] = 1)
      BY <3>1, <3>3
    <3> QED BY <3>2, <3>4
  <2>2. CASE x \notin N
    <3>1. x \in DOMAIN r.inbox
      BY <1>1, <2>2
    <3>2. r.inbox[x] \in Nat /\ (r.inbox[x] = 1 \/ Twice(K, x.entity))
      BY <3>1 DEF InboxFrom
    <3>3. s.inbox[x] = r.inbox[x]
      BY <1>1, <2>2, <3>1, <3>2
    <3> QED BY <1>2, <3>1, <3>2, <3>3, MoreDeleted
  <2> QED BY <2>1, <2>2
<1> QED BY <1>1, <1>3 DEF InboxFrom, Filled

LEMMA InboxStays ==
  ASSUME NEW K, NEW r, NEW s, NEW c, Sound(K \cup {c}), c \notin K, InboxFrom(r, K),
         s.inbox = r.inbox,
         ClocksMove(s, r, c)
  PROVE  InboxFrom(s, K \cup {c})
<1> SUFFICES ASSUME NEW x \in DOMAIN r.inbox
             PROVE  /\ Entry(s, K \cup {c}, x) /\ r.inbox[x] \in Nat
                    /\ r.inbox[x] = 1 \/ Twice(K \cup {c}, x.entity)
  BY DEF InboxFrom
<1>1. Entry(r, K, x) /\ r.inbox[x] \in Nat /\ (r.inbox[x] = 1 \/ Twice(K, x.entity))
  BY DEF InboxFrom
<1>2. PICK w \in Writers(K, x.entity, x.field) : w.clock = x.clock
  BY <1>1 DEF Entry
<1>3. w \in K /\ w # c
  BY DEF Writers
<1>4. x.clock # c.clock
  BY <1>2, <1>3 DEF Sound
<1>5. Deleted(K \cup {c}, x.entity) = {} => Deleted(K, x.entity) = {}
  BY MoreDeleted
<1>6. s.clk[x.entity][x.field] = r.clk[x.entity][x.field] \/ s.clk[x.entity][x.field] = c.clock
  BY <1>1 DEF Entry, ClocksMove
<1>7. Deleted(K \cup {c}, x.entity) = {} => x.clock # s.clk[x.entity][x.field]
  BY <1>1, <1>4, <1>5, <1>6 DEF Entry
<1>8. w \in Writers(K \cup {c}, x.entity, x.field)
  BY MoreWriters
<1>9. Entry(s, K \cup {c}, x)
  BY <1>1, <1>2, <1>7, <1>8 DEF Entry
<1> QED BY <1>1, <1>9, MoreDeleted

-----------------------------------------------------------------------------
(* What the writes do to the inbox and, when a row goes, to the others. *)

LEMMA WriteInbox ==
  ASSUME NEW r, Shaped(r), NEW e, NEW fs, NEW c
  PROVE  LocalWrite(r, e, fs, c).inbox = r.inbox
BY DEF LocalWrite, UpsertSingle, Shaped

LEMMA EdgeInbox ==
  ASSUME NEW r, Shaped(r), NEW g, NEW p, NEW m
  PROVE  [SetMembership(r, g, p) EXCEPT !.edge[g] = m].inbox = r.inbox
BY DEF SetMembership, Shaped

\* delete_entity_row takes the row and its children.
Bereft(s, r, e) ==
  /\ s.clk = r.clk
  /\ \A x \in Entity : x # e /\ Parent[x] # e => s.row[x] = r.row[x] /\ s.val[x] = r.val[x]

LEMMA DeleteParts ==
  ASSUME NEW r, Shaped(r), NEW e \in Entity
  PROVE  Bereft(DeleteRow(r, e), r, e) /\ DeleteRow(r, e).tomb = r.tomb /\ DeleteRow(r, e).inbox = r.inbox
<1> DEFINE gone == {x \in Entity : x = e \/ Parent[x] = e}
           row == [x \in Entity |-> r.row[x] /\ x \notin gone]
           val == [x \in Entity |-> IF x \in gone THEN Default ELSE r.val[x]]
<1>1. PICK s : s = DeleteRow(r, e)
  OBVIOUS
<1>2. s.row = row /\ s.val = val /\ s.clk = r.clk /\ s.tomb = r.tomb /\ s.inbox = r.inbox
  BY <1>1 DEF DeleteRow, Shaped
<1>3. ASSUME NEW x \in Entity, x # e, Parent[x] # e PROVE row[x] = r.row[x] /\ val[x] = r.val[x]
  BY <1>3 DEF Shaped
<1> HIDE DEF row, val
<1>4. Bereft(s, r, e)
  BY <1>2, <1>3 DEF Bereft
<1> QED BY <1>1, <1>2, <1>4

LEMMA LocalDeleteParts ==
  ASSUME NEW r, Shaped(r), NEW e \in Entity, NEW c, NEW s, s = LocalDelete(r, e, c)
  PROVE  Bereft(s, r, e) /\ s.tomb = [r.tomb EXCEPT ![e] = c] /\ s.inbox = r.inbox
<1>1. PICK u : u = DeleteRow(r, e)
  OBVIOUS
<1>2. Bereft(u, r, e) /\ u.tomb = r.tomb /\ u.inbox = r.inbox /\ Shaped(u)
  BY <1>1, DeleteParts, DeleteShaped
<1>3. s = [u EXCEPT !.tomb[e] = c]
  BY <1>1 DEF LocalDelete
<1>4. /\ s.row = u.row /\ s.val = u.val /\ s.clk = u.clk /\ s.inbox = u.inbox
      /\ s.tomb = [u.tomb EXCEPT ![e] = c]
  BY <1>2, <1>3 DEF Shaped
<1> QED BY <1>2, <1>4 DEF Bereft

\* preserve_unobserved_prose's copies.
Copied(r, c) == {Conflict(c.target, f, r.val[c.target][f], r.clk[c.target][f]) : f \in UnobservedProse(r, c)}

LEMMA ApplyDeleteParts ==
  ASSUME NEW r, Shaped(r), NEW c \in Change, c.target \in Entity, NEW s, s = ApplyDelete(r, c)
  PROVE  /\ Bereft(s, r, c.target) /\ s.tomb = [r.tomb EXCEPT ![c.target] = c.clock]
         /\ s.inbox = r.inbox (+) SetToBag(Copied(r, c))
<1> DEFINE e == c.target
           bag == r.inbox (+) SetToBag(Copied(r, c))
<1>1. PICK u : u = [SetTombstone(r, e, c.clock) EXCEPT !.inbox = bag]
  OBVIOUS
<1>2. s = IF DeleteDominates(r, c) THEN DeleteRow(u, e) ELSE u
  <2>1. u = [SetTombstone(r, e, c.clock) EXCEPT !.inbox = @ (+) SetToBag(Copied(r, c))]
    BY <1>1 DEF SetTombstone, Shaped
  <2> QED BY <2>1 DEF ApplyDelete, Copied
<1>3. /\ u.row = r.row /\ u.val = r.val /\ u.clk = r.clk /\ u.edge = r.edge /\ u.member = r.member
      /\ u.tomb = [r.tomb EXCEPT ![e] = c.clock] /\ u.inbox = bag /\ DOMAIN u = DOMAIN r
  <2> HIDE DEF bag
  <2> QED BY <1>1 DEF SetTombstone, Shaped
<1> HIDE DEF bag
<1>4. Shaped(u)
  <2>1. c.clock \in Hlc
    BY DEF Change
  <2>2. u.tomb \in [Entity -> OptionHlc]
    BY <1>3, <2>1 DEF Shaped, OptionHlc
  <2> QED BY <1>3, <2>2 DEF Shaped
<1>5. Bereft(u, r, e)
  BY <1>3 DEF Bereft
<1>6. PICK w : w = DeleteRow(u, e)
  OBVIOUS
<1>7. Bereft(w, u, e) /\ w.tomb = u.tomb /\ w.inbox = u.inbox
  BY <1>4, <1>6, DeleteParts
<1>8. Bereft(w, r, e)
  BY <1>3, <1>7 DEF Bereft
<1>9. s = u \/ s = w
  BY <1>2, <1>6
<1>10. s.tomb = [r.tomb EXCEPT ![e] = c.clock] /\ s.inbox = bag /\ Bereft(s, r, e)
  BY <1>3, <1>5, <1>7, <1>8, <1>9
<1> QED BY <1>10 DEF bag

\* The copies apply_fields makes: of prose for a deleted row, and of what loses a merge.
Dead(r, c) == {Conflict(c.target, f, c.fields[f], c.clock) : f \in ToInbox(r, c)}
Conflicting(r, c) == {f \in Mergeable(r, c) : MergeField(r, c, f).decision = "conflict"}
Copies(r, c) ==
  {Conflict(c.target, f, MergeField(r, c, f).loser, MergeField(r, c, f).loser_clock) : f \in Conflicting(r, c)}

LEMMA ApplyFieldsInbox ==
  ASSUME NEW r, Shaped(r), NEW c, NEW s, s = ApplyFields(r, c)
  PROVE  s.inbox = r.inbox (+) SetToBag(Dead(r, c) \cup Copies(r, c))
<1> DEFINE e == c.target
           merge == [f \in Mergeable(r, c) |-> MergeField(r, c, f)]
           losers == {f \in DOMAIN merge : merge[f].decision = "conflict"}
           dead == {Conflict(e, f, c.fields[f], c.clock) : f \in ToInbox(r, c)}
           copies == {Conflict(e, f, merge[f].loser, merge[f].loser_clock) : f \in losers}
<1>1. s.inbox = r.inbox (+) SetToBag(dead \cup copies)
  BY DEF ApplyFields, Shaped
<1>2. losers = Conflicting(r, c) /\ \A f \in losers : merge[f] = MergeField(r, c, f)
  BY DEF Conflicting
<1> HIDE DEF merge, losers
<1>3. copies = Copies(r, c)
  BY <1>2 DEF Copies
<1>4. dead = Dead(r, c)
  BY DEF Dead
<1> HIDE DEF copies, dead
<1> QED BY <1>1, <1>3, <1>4

-----------------------------------------------------------------------------
(* Every write and every application of a change keeps what is held. *)

\* A change not known yet, as its author or the log hands it to a device.
Arrives(r, K, d, c) ==
  /\ Sound(K \cup {c}) /\ c \notin K /\ Grounded(K, c)
  /\ Shaped(r) /\ HeldBy(r, K, d)

LEMMA ArrivalParts ==
  ASSUME NEW r, NEW K, NEW d, NEW c, Arrives(r, K, d, c)
  PROVE  /\ Sound(K \cup {c}) /\ Sound(K) /\ c \notin K /\ c \in Change /\ c.clock \in Hlc
         /\ K \in SUBSET Change /\ Shaped(r) /\ ClocksFrom(r, K) /\ TombsFrom(r, K) /\ InboxFrom(r, K)
         /\ BasesKnown(K \cup {c})
         /\ \A e \in Entity : EntityHeld(r, K, d, e)
<1>1. Sound(K) /\ c \in Change
  BY SoundParts DEF Arrives
<1>2. c.clock \in Hlc /\ K \in SUBSET Change
  BY <1>1 DEF Change, Sound
<1>3. BasesKnown(K \cup {c})
  BY BasesGrow DEF Arrives, HeldBy
<1> QED BY <1>1, <1>2, <1>3 DEF Arrives, HeldBy

\* Of an entity one column is prose.
LEMMA OneColumn ==
  ASSUME NEW K, Sound(K), NEW x \in K, NEW y \in K, x.target = y.target,
         NEW f \in ProseOf(x), NEW g \in ProseOf(y)
  PROVE  f = g
BY DEF Sound

\* A text known before: it is enough that the row's own stays the row's own, or goes to the
\* inbox, or is superseded, or that the row is deleted for the second time.
LEMMA OldHeld ==
  ASSUME NEW K, NEW r, NEW s, NEW d, NEW c, NEW x, NEW f, Held(r, K, d, x, f),
         DOMAIN r.inbox \subseteq DOMAIN s.inbox,
         Owned(r, K, x, f) =>
           \/ Boxed(s, x, f)
           \/ Superseded(K \cup {c}, x, f)
           \/ Deleted(K \cup {c}, x.target) = Deleted(K, x.target) /\ Owned(s, K \cup {c}, x, f)
           \/ Deleted(K, x.target) # {} /\ Twice(K \cup {c}, x.target)
  PROVE  Held(s, K \cup {c}, d, x, f)
<1> DEFINE L == K \cup {c}
<1>1. (Boxed(r, x, f) => Boxed(s, x, f)) /\ (Superseded(K, x, f) => Superseded(L, x, f))
  BY HeldGrows
<1>2. Rewritten(K, d, x) => Rewritten(L, d, x)
  BY MoreDeleted DEF Rewritten
<1>3. Twice(K, x.target) => Twice(L, x.target)
  BY MoreDeleted
<1>4. Rewritten(K, d, x) => Deleted(K, x.target) # {}
  BY DEF Rewritten
<1> QED BY <1>1, <1>2, <1>3, <1>4 DEF Held

\* base_version_for
FromClock(r, c) ==
  /\ \A f \in ProseOf(c) : c.base = r.clk[c.target][f]
  /\ c.base # NoClock => \E f \in ProseOf(c) : c.base = r.clk[c.target][f]

LEMMA ProseBase ==
  ASSUME NEW K, NEW r, NEW c, c \in K, Sound(K), c.base = BaseVersionFor(r, c.target, c.fields)
  PROVE  FromClock(r, c)
<1>1. ASSUME NEW f \in ProseOf(c) PROVE c.base = r.clk[c.target][f]
  <2>1. \A g \in ProseOf(c) : g = f
    BY OneColumn
  <2>2. ProseOf(c) = {f}
    BY <2>1
  <2>3. (CHOOSE g \in DOMAIN c.fields \cap ProseField : TRUE) = f
    BY <2>2 DEF ProseOf
  <2> QED BY <2>2, <2>3 DEF BaseVersionFor, ProseOf
<1>2. c.base # NoClock => \E f \in ProseOf(c) : TRUE
  BY DEF BaseVersionFor, ProseOf
<1>3. c.base # NoClock => \E f \in ProseOf(c) : c.base = r.clk[c.target][f]
  BY <1>1, <1>2
<1>4. \A f \in ProseOf(c) : c.base = r.clk[c.target][f]
  BY <1>1
<1> QED BY <1>3, <1>4 DEF FromClock

\* observed_prose_version
LEMMA ObservedIsClock ==
  ASSUME NEW K, NEW r, NEW e \in Entity, Sound(K), ClocksFrom(r, K)
  PROVE  /\ r.row[e] => \A f \in ProseField : r.clk[e][f] # NoClock => ObservedProseVersion(r, e) = r.clk[e][f]
         /\ ObservedProseVersion(r, e) # NoClock =>
              \E f \in ProseField : ObservedProseVersion(r, e) = r.clk[e][f]
<1> DEFINE seen == {r.clk[e][f] : f \in ProseField} \ {NoClock}
<1>1. ASSUME NEW f \in ProseField, r.clk[e][f] # NoClock
      PROVE  seen = {r.clk[e][f]}
  <2>1. ASSUME NEW g \in ProseField, r.clk[e][g] # NoClock PROVE g = f
    <3>1. f \in Field /\ g \in Field
      BY DEF Field
    <3>2. PICK v \in Writers(K, e, f) : v.clock = r.clk[e][f]
      BY <1>1, <3>1 DEF ClocksFrom
    <3>3. PICK w \in Writers(K, e, g) : w.clock = r.clk[e][g]
      BY <2>1, <3>1 DEF ClocksFrom
    <3>4. v \in K /\ w \in K /\ v.target = w.target /\ f \in ProseOf(v) /\ g \in ProseOf(w)
      BY DEF Writers, Writes, ProseOf
    <3> QED BY <3>4, OneColumn
  <2> QED BY <1>1, <2>1
<1>2. ASSUME r.row[e], NEW f \in ProseField, r.clk[e][f] # NoClock
      PROVE  ObservedProseVersion(r, e) = r.clk[e][f]
  <2>1. seen = {r.clk[e][f]}
    BY <1>1, <1>2
  <2>2. PICK k : k = r.clk[e][f]
    OBVIOUS
  <2>3. (CHOOSE c \in seen : \A m \in seen : AtMost(m, c)) = k
    <3> HIDE DEF seen
    <3>1. seen = {k}
      BY <2>1, <2>2
    <3> QED BY <3>1 DEF AtMost
  <2> QED BY <1>2, <2>1, <2>2, <2>3 DEF ObservedProseVersion
<1>3. ASSUME ObservedProseVersion(r, e) # NoClock
      PROVE  \E f \in ProseField : ObservedProseVersion(r, e) = r.clk[e][f]
  <2>1. r.row[e] /\ seen # {}
    BY <1>3 DEF ObservedProseVersion
  <2>2. PICK f \in ProseField : r.clk[e][f] # NoClock
    BY <2>1
  <2> QED BY <1>2, <2>1, <2>2
<1> QED BY <1>2, <1>3

\* What a clock on a prose field of the row grounds.
LEMMA ClockGrounds ==
  ASSUME NEW K, NEW r, NEW c, ClocksFrom(r, K),
         c.target \in Entity,
         c.base # NoClock => \E f \in ProseField : c.base = r.clk[c.target][f]
  PROVE  Grounded(K, c)
<1> SUFFICES ASSUME c.base # NoClock
             PROVE  \E v \in K : v.clock = c.base /\ Writes(v, c.target) /\ ProseOf(v) # {}
  BY DEF Grounded
<1>1. PICK f \in ProseField : c.base = r.clk[c.target][f]
  OBVIOUS
<1>2. f \in Field
  BY DEF Field
<1>3. PICK w \in Writers(K, c.target, f) : w.clock = c.base
  BY <1>1, <1>2 DEF ClocksFrom
<1> QED BY <1>3 DEF Writers, ProseOf

LEMMA LocalWriteHeld ==
  ASSUME NEW r, NEW K, NEW d, NEW c, Arrives(r, K, d, c),
         c.kind = "fields", c.target \in Entity, c.device_id = d,
         c.base = BaseVersionFor(r, c.target, c.fields),
         \A x \in K : Before(x.clock, c.clock),
         NEW s, s = LocalWrite(r, c.target, c.fields, c.clock)
  PROVE  HeldBy(s, K \cup {c}, d)
<1> DEFINE e == c.target
           L == K \cup {c}
<1>1. /\ Sound(L) /\ Sound(K) /\ c \notin K /\ c \in Change /\ c.clock \in Hlc
      /\ K \in SUBSET Change /\ Shaped(r) /\ ClocksFrom(r, K) /\ TombsFrom(r, K) /\ InboxFrom(r, K)
      /\ BasesKnown(L)
      /\ \A x \in Entity : EntityHeld(r, K, d, x)
  BY ArrivalParts
<1>2. c.fields \in Fields /\ DOMAIN c.fields \subseteq Field
  BY <1>1, FieldsOf DEF Change
<1>3. /\ Shaped(s)
      /\ s.row = [r.row EXCEPT ![e] = TRUE]
      /\ \A f \in Field : /\ s.val[e][f] = IF f \in DOMAIN c.fields THEN c.fields[f] ELSE r.val[e][f]
                          /\ s.clk[e][f] = IF f \in DOMAIN c.fields THEN c.clock ELSE r.clk[e][f]
      /\ \A x \in Entity : x # e => s.clk[x] = r.clk[x] /\ s.val[x] = r.val[x]
      /\ s.tomb = r.tomb /\ s.edge = r.edge /\ s.member = r.member
  BY <1>1, <1>2, LocalWriteParts, SMTT(30)
<1>4. s.inbox = r.inbox
  BY <1>1, WriteInbox
<1>5. \A x \in Entity : s.row[x] = IF x = e THEN TRUE ELSE r.row[x]
  BY <1>1, <1>3 DEF Shaped
<1>6. ClocksMove(s, r, c)
  BY <1>3 DEF Writes, ClocksMove
<1>7. ClocksFrom(s, L)
  BY <1>1, <1>6, ClocksGrow
<1>8. TombsFrom(s, L)
  BY <1>1, <1>3, TombsGrow
<1>9. InboxFrom(s, L)
  BY <1>1, <1>4, <1>6, InboxStays
<1>10. ASSUME NEW x \in Entity, x # e PROVE EntityHeld(s, L, d, x)
  BY <1>1, <1>3, <1>4, <1>5, <1>10, OthersHeld
<1>11. FromClock(r, c)
  <2>1. PICK M : M = L
    OBVIOUS
  <2>2. Sound(M) /\ c \in M
    BY <1>1, <2>1
  <2> QED BY <2>2, ProseBase
<1>12. ASSUME Deleted(L, Parent[e]) = {}
       PROVE  /\ Deleted(L, e) = {} => EntitySettled(s, L, e)
              /\ ProseHeld(s, L, d, e)
  <2>1. Deleted(L, e) = Deleted(K, e) /\ Deleted(K, Parent[e]) = {}
    BY <1>12, MoreDeleted, ZenonT(60)
  <2>2. (Deleted(K, e) = {} => EntitySettled(r, K, e)) /\ ProseHeld(r, K, d, e)
    BY <1>1, <2>1 DEF EntityHeld
  <2>3. ASSUME Deleted(L, e) = {} PROVE EntitySettled(s, L, e)
    <3>1. EntitySettled(r, K, e)
      BY <2>1, <2>2, <2>3
    <3>2. \A f \in Field : Meets(s, r, K, c, f)
      BY <1>1, <3>1, WriteMeets
    <3> QED BY <1>1, <1>3, <1>5, <3>1, <3>2, EntityTakes
  <2>4. ASSUME NEW f \in ProseOf(c) PROVE Held(s, L, d, c, f)
    <3>1. f \in Field /\ f \in DOMAIN c.fields
      BY DEF ProseOf, Field
    <3>2. c \in Writers(L, e, f)
      BY <3>1, MoreWriters DEF Writes
    <3>3. Owned(s, L, c, f)
      BY <1>3, <1>5, <3>1, <3>2 DEF Owned
    <3>4. \A n \in Deleted(L, e) : Before(n.clock, c.clock)
      BY <2>1 DEF Deleted
    <3> QED BY <3>3, <3>4 DEF Held, Rewritten
  <2>5. ASSUME NEW x \in K, x.target = e, NEW f \in ProseOf(x) PROVE Held(s, L, d, x, f)
    <3>1. Held(r, K, d, x, f) /\ f \in Field /\ f \in ProseField
      BY <2>2, <2>5 DEF ProseHeld, ProseOf, Field
    <3>2. ASSUME Owned(r, K, x, f)
          PROVE  Superseded(L, x, f) \/ Owned(s, L, x, f)
      <4>1. PICK w \in Writers(K, e, f) : w.clock = r.clk[e][f] /\ w.fields[f] = x.fields[f]
        BY <2>5, <3>2 DEF Owned
      <4>2. w \in L /\ w \in Writers(L, e, f) /\ f \in DOMAIN w.fields
        BY MoreWriters DEF Writers
      <4>3. CASE f \in DOMAIN c.fields
        <5>1. f \in ProseOf(c) /\ c \in L
          BY <3>1, <4>3 DEF ProseOf
        <5>2. c.base = r.clk[e][f]
          BY <1>11, <5>1 DEF FromClock
        <5>3. Supersedes(c, w, x, f)
          BY <2>5, <4>1, <4>2, <4>3, <5>2 DEF Supersedes
        <5> QED BY <4>2, <5>1, <5>3 DEF Superseded
      <4>4. CASE f \notin DOMAIN c.fields
        <5>1. s.val[e][f] = r.val[e][f] /\ s.clk[e][f] = r.clk[e][f] /\ s.row[e]
          BY <1>3, <1>5, <3>1, <4>4
        <5> QED BY <2>5, <3>2, <4>1, <4>2, <5>1 DEF Owned
      <4> QED BY <4>3, <4>4
    <3> QED BY <1>4, <2>1, <2>5, <3>1, <3>2, OldHeld
  <2> QED BY <2>3, <2>4, <2>5 DEF ProseHeld
<1>13. EntityHeld(s, L, d, e)
  BY <1>12 DEF EntityHeld
<1> QED BY <1>1, <1>7, <1>8, <1>9, <1>10, <1>13 DEF HeldBy

LEMMA LocalDeleteHeld ==
  ASSUME NEW r, NEW K, NEW d, NEW c, Arrives(r, K, d, c),
         c.kind = "delete", c.target \in Entity,
         c.base = ObservedProseVersion(r, c.target),
         NEW s, s = LocalDelete(r, c.target, c.clock)
  PROVE  HeldBy(s, K \cup {c}, d)
<1> DEFINE e == c.target
           L == K \cup {c}
<1>1. /\ Sound(L) /\ Sound(K) /\ c \notin K /\ c \in Change /\ c.clock \in Hlc
      /\ K \in SUBSET Change /\ Shaped(r) /\ ClocksFrom(r, K) /\ TombsFrom(r, K) /\ InboxFrom(r, K)
      /\ BasesKnown(L)
      /\ \A x \in Entity : EntityHeld(r, K, d, x)
  BY ArrivalParts
<1>2. Bereft(s, r, e) /\ s.tomb = [r.tomb EXCEPT ![e] = c.clock] /\ s.inbox = r.inbox
  BY <1>1, LocalDeleteParts
<1>3. s.clk = r.clk /\ ClocksMove(s, r, c)
  BY <1>2 DEF Bereft, ClocksMove
<1>4. ClocksFrom(s, L)
  BY <1>1, <1>3, ClocksGrow
<1>5. TombsFrom(s, L)
  BY <1>1, <1>2, TombsGrow
<1>6. InboxFrom(s, L)
  BY <1>1, <1>2, <1>3, InboxStays
<1>7. c \in Deleted(L, e)
  BY DEF Deleted
<1>8. ASSUME NEW x \in Entity, x # e PROVE EntityHeld(s, L, d, x)
  <2>1. CASE Parent[x] = e
    BY <1>7, <2>1 DEF EntityHeld
  <2>2. CASE Parent[x] # e
    <3>1. s.row[x] = r.row[x] /\ s.val[x] = r.val[x] /\ s.clk[x] = r.clk[x] /\ s.tomb[x] = r.tomb[x]
      BY <1>1, <1>2, <1>3, <1>8, <2>2 DEF Bereft, Shaped
    <3> QED BY <1>1, <1>2, <1>8, <3>1, OthersHeld
  <2> QED BY <2>1, <2>2
<1>9. ASSUME Deleted(L, Parent[e]) = {}
      PROVE  ProseHeld(s, L, d, e)
  <2>1. Deleted(K, Parent[e]) = {}
    BY <1>9, MoreDeleted
  <2>2. ProseHeld(r, K, d, e)
    BY <1>1, <2>1 DEF EntityHeld
  <2>3. ProseOf(c) = {}
    BY <1>1 DEF Sound, ProseOf
  <2>4. ASSUME NEW x \in K, x.target = e, NEW f \in ProseOf(x) PROVE Held(s, L, d, x, f)
    <3>1. Held(r, K, d, x, f) /\ f \in Field /\ f \in ProseField
      BY <2>2, <2>4 DEF ProseHeld, ProseOf, Field
    <3>2. ASSUME Owned(r, K, x, f) PROVE Superseded(L, x, f)
      <4>1. PICK w \in Writers(K, e, f) : w.clock = r.clk[e][f] /\ w.fields[f] = x.fields[f]
        BY <2>4, <3>2 DEF Owned
      <4>2. w \in L /\ w \in Change /\ f \in DOMAIN w.fields
        BY <1>1 DEF Writers
      <4>3. r.clk[e][f] # NoClock
        BY <4>1, <4>2, StampNotNone DEF Change
      <4>4. r.row[e]
        BY <2>4, <3>2 DEF Owned
      <4>5. c.base = r.clk[e][f]
        BY <1>1, <3>1, <4>3, <4>4, ObservedIsClock
      <4>6. Supersedes(c, w, x, f)
        BY <2>4, <4>1, <4>2, <4>5 DEF Supersedes
      <4> QED BY <4>2, <4>6 DEF Superseded
    <3> QED BY <1>2, <3>1, <3>2, OldHeld
  <2> QED BY <2>3, <2>4 DEF ProseHeld
<1>10. EntityHeld(s, L, d, e)
  BY <1>7, <1>9 DEF EntityHeld
<1> QED BY <1>1, <1>4, <1>5, <1>6, <1>8, <1>10 DEF HeldBy

\* An edge leaves the rows alone, here and at a device that applies it.
LEMMA EdgeHeld ==
  ASSUME NEW r, NEW K, NEW d, NEW c, Arrives(r, K, d, c), c.kind = "edge",
         NEW s, s.row = r.row, s.val = r.val, s.clk = r.clk, s.tomb = r.tomb, s.inbox = r.inbox
  PROVE  HeldBy(s, K \cup {c}, d)
<1> DEFINE L == K \cup {c}
<1>1. /\ Sound(L) /\ Sound(K) /\ c \notin K /\ c \in Change /\ c.clock \in Hlc
      /\ K \in SUBSET Change /\ Shaped(r) /\ ClocksFrom(r, K) /\ TombsFrom(r, K) /\ InboxFrom(r, K)
      /\ BasesKnown(L)
      /\ \A x \in Entity : EntityHeld(r, K, d, x)
  BY ArrivalParts
<1>2. ClocksMove(s, r, c)
  BY DEF ClocksMove
<1>3. ClocksFrom(s, L)
  BY <1>1, <1>2, ClocksGrow
<1>4. TombsFrom(s, L)
  BY <1>1, TombsGrow
<1>5. InboxFrom(s, L)
  BY <1>1, <1>2, InboxStays
<1>6. ASSUME NEW x \in Entity PROVE EntityHeld(s, L, d, x)
  <2>1. DOMAIN c.fields = {}
    BY <1>1 DEF Sound
  <2> QED BY <1>1, <2>1, OthersHeld
<1> QED BY <1>1, <1>3, <1>4, <1>5, <1>6 DEF HeldBy

\* apply_delete: prose the delete has not seen goes to the inbox; what it has seen is its base.
LEMMA ApplyDeleteHeld ==
  ASSUME NEW r, NEW K, NEW d, NEW c, Arrives(r, K, d, c),
         c.kind = "delete", c.target \in Entity,
         NEW s, s = ApplyDelete(r, c)
  PROVE  HeldBy(s, K \cup {c}, d)
<1> DEFINE e == c.target
           L == K \cup {c}
           N == Copied(r, c)
<1>1. /\ Sound(L) /\ Sound(K) /\ c \notin K /\ c \in Change /\ c.clock \in Hlc
      /\ K \in SUBSET Change /\ Shaped(r) /\ ClocksFrom(r, K) /\ TombsFrom(r, K) /\ InboxFrom(r, K)
      /\ BasesKnown(L)
      /\ \A x \in Entity : EntityHeld(r, K, d, x)
  BY ArrivalParts
<1>2. Bereft(s, r, e) /\ s.tomb = [r.tomb EXCEPT ![e] = c.clock] /\ s.inbox = r.inbox (+) SetToBag(N)
  BY <1>1, ApplyDeleteParts
<1>3. s.clk = r.clk /\ ClocksMove(s, r, c)
  BY <1>2 DEF Bereft, ClocksMove
<1>4. ClocksFrom(s, L)
  BY <1>1, <1>3, ClocksGrow
<1>5. TombsFrom(s, L)
  BY <1>1, <1>2, TombsGrow
<1>6. c \in Deleted(L, e) /\ (Deleted(K, e) # {} => Twice(L, e))
  <2>1. c \in Deleted(L, e) /\ c \notin Deleted(K, e) /\ Deleted(K, e) \subseteq Deleted(L, e)
    BY <1>1, MoreDeleted DEF Deleted
  <2> QED BY <2>1 DEF Twice
<1>7. ASSUME NEW x \in N
      PROVE  Entry(s, L, x) /\ (x \notin DOMAIN r.inbox \/ Twice(L, x.entity))
  <2>1. PICK f \in UnobservedProse(r, c) : x = Conflict(e, f, r.val[e][f], r.clk[e][f])
    BY DEF Copied
  <2>2. x.entity = e /\ x.field = f /\ x.clock = r.clk[e][f]
    BY <2>1 DEF Conflict
  <2>3. f \in Field /\ r.clk[e][f] # NoClock
    BY <2>1 DEF UnobservedProse, Field
  <2>4. PICK w \in Writers(K, e, f) : w.clock = r.clk[e][f]
    BY <1>1, <2>3 DEF ClocksFrom
  <2>5. w \in Writers(L, e, f)
    BY <2>4, MoreWriters
  <2>6. Entry(s, L, x)
    BY <1>6, <2>2, <2>3, <2>4, <2>5 DEF Entry
  <2>7. ASSUME x \in DOMAIN r.inbox PROVE Deleted(K, e) # {}
    <3>1. Entry(r, K, x)
      BY <1>1, <2>7 DEF InboxFrom
    <3> QED BY <2>2, <3>1 DEF Entry
  <2> QED BY <1>6, <2>2, <2>6, <2>7
<1> HIDE DEF N
<1>8. /\ InboxFrom(s, L)
      /\ DOMAIN r.inbox \subseteq DOMAIN s.inbox /\ N \subseteq DOMAIN s.inbox
  <2>1. Enters(N, s, r, L)
    BY <1>7 DEF Enters
  <2>2. Filled(s, r, L, N)
    BY <1>1, <1>2, <1>3, <2>1, InboxGrows
  <2> QED BY <2>2 DEF Filled
<1>9. ASSUME NEW x \in Entity, x # e PROVE EntityHeld(s, L, d, x)
  <2>1. CASE Parent[x] = e
    BY <1>6, <2>1 DEF EntityHeld
  <2>2. CASE Parent[x] # e
    <3>1. s.row[x] = r.row[x] /\ s.val[x] = r.val[x] /\ s.clk[x] = r.clk[x] /\ s.tomb[x] = r.tomb[x]
      BY <1>1, <1>2, <1>3, <1>9, <2>2 DEF Bereft, Shaped
    <3> QED BY <1>1, <1>8, <1>9, <3>1, OthersHeld
  <2> QED BY <2>1, <2>2
<1>10. ASSUME Deleted(L, Parent[e]) = {}
       PROVE  ProseHeld(s, L, d, e)
  <2>1. Deleted(K, Parent[e]) = {}
    BY <1>10, MoreDeleted
  <2>2. ProseHeld(r, K, d, e) /\ (Deleted(K, e) = {} => EntitySettled(r, K, e))
    BY <1>1, <2>1 DEF EntityHeld
  <2>3. ProseOf(c) = {}
    BY <1>1 DEF Sound, ProseOf
  <2>4. ASSUME NEW x \in K, x.target = e, NEW f \in ProseOf(x) PROVE Held(s, L, d, x, f)
    <3>1. Held(r, K, d, x, f) /\ f \in Field /\ f \in ProseField
      BY <2>2, <2>4 DEF ProseHeld, ProseOf, Field
    <3>2. ASSUME Owned(r, K, x, f), Deleted(K, e) = {}
          PROVE  Boxed(s, x, f) \/ Superseded(L, x, f)
      <4>1. PICK w \in Writers(K, e, f) : w.clock = r.clk[e][f] /\ w.fields[f] = x.fields[f]
        BY <2>4, <3>2 DEF Owned
      <4>2. w \in L /\ w \in Change /\ f \in DOMAIN w.fields /\ w.clock \in Hlc
        BY <1>1 DEF Writers, Change
      <4>3. r.clk[e][f] # NoClock /\ r.row[e] /\ r.val[e][f] = x.fields[f]
        BY <2>4, <3>2, <4>1, <4>2, StampNotNone DEF Owned
      <4>4. CASE f \in UnobservedProse(r, c)
        <5>1. PICK y : y = Conflict(e, f, r.val[e][f], r.clk[e][f])
          OBVIOUS
        <5>2. y \in N
          BY <4>4, <5>1 DEF N, Copied
        <5>3. y.entity = x.target /\ y.field = f /\ y.value = x.fields[f]
          BY <2>4, <4>3, <5>1 DEF Conflict
        <5> QED BY <1>8, <5>2, <5>3 DEF Boxed
      <4>5. CASE f \notin UnobservedProse(r, c)
        <5>1. c.base # NoClock /\ AtMost(r.clk[e][f], c.base)
          BY <3>1, <4>3, <4>5 DEF UnobservedProse
        <5>2. PICK v \in K : v.clock = c.base /\ Writes(v, e) /\ ProseOf(v) # {}
          BY <5>1 DEF Arrives, Grounded
        <5>3. PICK g \in ProseOf(v) : TRUE
          BY <5>2
        <5>4. v.target = e
          BY <5>2 DEF Writes
        <5>5. g = f
          BY <1>1, <2>4, <5>4, OneColumn
        <5>6. v \in Writers(K, e, f)
          BY <5>2, <5>5 DEF Writers, ProseOf
        <5>7. GreatestOf(r.clk[e][f], Writers(K, e, f))
          BY <2>2, <3>1, <3>2 DEF EntitySettled, FieldSettled
        <5>8. AtMost(c.base, r.clk[e][f])
          BY <5>2, <5>6, <5>7 DEF GreatestOf
        <5>9. c.base \in Hlc
          BY <1>1, <5>2 DEF Change
        <5>10. c.base = r.clk[e][f]
          BY <4>1, <4>2, <5>1, <5>8, <5>9, StampsTotallyOrdered DEF AtMost
        <5>11. Supersedes(c, w, x, f)
          BY <2>4, <4>1, <4>2, <5>10 DEF Supersedes
        <5> QED BY <4>2, <5>11 DEF Superseded
      <4> QED BY <4>4, <4>5
    <3> QED BY <1>6, <1>8, <2>4, <3>1, <3>2, OldHeld
  <2> QED BY <2>3, <2>4 DEF ProseHeld
<1>11. EntityHeld(s, L, d, e)
  BY <1>6, <1>10 DEF EntityHeld
<1> QED BY <1>1, <1>4, <1>5, <1>8, <1>9, <1>11 DEF HeldBy

\* What apply_fields leaves, column by column.
FieldsApplied(s, r, c) ==
  /\ \A f \in Field :
       /\ s.val[c.target][f] = IF f \in Written1(r, c) THEN MergeField(r, c, f).value ELSE r.val[c.target][f]
       /\ s.clk[c.target][f] = IF f \in Written1(r, c) THEN MergeField(r, c, f).clock ELSE r.clk[c.target][f]
  /\ r.row[c.target] \/ ~Tombstoned(r, c) => s.row[c.target]
  /\ \A x \in Entity : x # c.target => s.row[x] = r.row[x] /\ s.val[x] = r.val[x] /\ s.clk[x] = r.clk[x]
  /\ s.tomb = r.tomb

LEMMA FieldsAre ==
  ASSUME NEW r, Shaped(r), NEW c \in Change, c.target \in Entity, NEW s, s = ApplyFields(r, c)
  PROVE  FieldsApplied(s, r, c)
<1> DEFINE e == c.target
           w == Written1(r, c)
           vals == [f \in Field |-> IF f \in w THEN MergeField(r, c, f).value ELSE r.val[e][f]]
           clks == [f \in Field |-> IF f \in w THEN MergeField(r, c, f).clock ELSE r.clk[e][f]]
<1>1. /\ Shaped(s)
      /\ s.row = [r.row EXCEPT ![e] = @ \/ ~Tombstoned(r, c) \/ w # {}]
      /\ s.val = [r.val EXCEPT ![e] = vals] /\ s.clk = [r.clk EXCEPT ![e] = clks]
      /\ \A x \in Entity : x # e => s.clk[x] = r.clk[x] /\ s.val[x] = r.val[x]
      /\ s.tomb = r.tomb /\ s.edge = r.edge /\ s.member = r.member
  BY ApplyFieldsParts, SMTT(30)
<1>2. s.val[e] = vals /\ s.clk[e] = clks
  BY <1>1 DEF Shaped
<1>3. r.row[e] \/ ~Tombstoned(r, c) => s.row[e]
  BY <1>1 DEF Shaped
<1>4. \A x \in Entity : x # e => s.row[x] = r.row[x]
  BY <1>1 DEF Shaped
<1>5. \A f \in Field :
        /\ s.val[e][f] = IF f \in w THEN MergeField(r, c, f).value ELSE r.val[e][f]
        /\ s.clk[e][f] = IF f \in w THEN MergeField(r, c, f).clock ELSE r.clk[e][f]
  BY <1>2
<1> QED BY <1>1, <1>3, <1>4, <1>5 DEF FieldsApplied

\* merge_conflict_copy, of ours v with clock l and theirs i.
Outcome(m, l, v, i, c) ==
  \/ /\ m.decision = "take" /\ m.value = i /\ m.clock = c.clock
     /\ l = NoClock \/ v = i \/ c.base = l
  \/ m.decision = "keep" /\ l # NoClock /\ v = i
  \/ /\ m.decision = "conflict" /\ m.value = i /\ m.clock = c.clock /\ m.loser = v /\ m.loser_clock = l
     /\ l # NoClock
  \/ /\ m.decision = "conflict" /\ m.value = v /\ m.clock = l /\ m.loser = i /\ m.loser_clock = c.clock
     /\ l # NoClock

LEMMA ProseOutcome ==
  ASSUME NEW r, NEW c, NEW f \in ProseField
  PROVE  Outcome(MergeField(r, c, f), LocalClock(r, c, f), r.val[c.target][f], c.fields[f], c)
<1>1. PICK l : l = LocalClock(r, c, f)
  OBVIOUS
<1>2. PICK v : v = r.val[c.target][f]
  OBVIOUS
<1>3. PICK i : i = c.fields[f]
  OBVIOUS
<1>4. PICK m : m = MergeConflictCopy(v, l, i, c.clock, c.base)
  OBVIOUS
<1>5. MergeField(r, c, f) = m
  BY <1>1, <1>2, <1>3, <1>4 DEF MergeField
<1> SUFFICES Outcome(m, l, v, i, c)
  BY <1>1, <1>2, <1>3, <1>5
<1>6. CASE l = NoClock
  BY <1>4, <1>6 DEF MergeConflictCopy, TakeIncoming, Outcome
<1>7. CASE l # NoClock /\ v = i
  BY <1>4, <1>7 DEF MergeConflictCopy, TakeIncoming, KeepLocal, Outcome
<1>8. CASE l # NoClock /\ v # i /\ c.base = l
  BY <1>4, <1>8 DEF MergeConflictCopy, TakeIncoming, Outcome
<1>9. CASE l # NoClock /\ v # i /\ c.base # l
  BY <1>4, <1>9 DEF MergeConflictCopy, ConflictCopy, Outcome
<1> QED BY <1>6, <1>7, <1>8, <1>9

\* Only prose conflicts, and only on a row that is not deleted.
LEMMA ConflictsOnProse ==
  ASSUME NEW r, NEW c, NEW f \in Conflicting(r, c)
  PROVE  f \in ProseField /\ ~Tombstoned(r, c) /\ f \in DOMAIN c.fields /\ f \in Written1(r, c)
<1>1. f \in Mergeable(r, c) /\ MergeField(r, c, f).decision = "conflict"
  BY DEF Conflicting
<1>2. f \in ProseField
  <2>1. SUFFICES ASSUME f \notin ProseField PROVE FALSE
    OBVIOUS
  <2>2. PICK l : l = LocalClock(r, c, f)
    OBVIOUS
  <2>3. MergeField(r, c, f) = MergeLww(r.val[c.target][f], l, c.fields[f], c.clock, c.base)
    BY <2>1, <2>2 DEF MergeField
  <2> QED BY <1>1, <2>3 DEF MergeLww, TakeIncoming, KeepLocal
<1> QED BY <1>1, <1>2 DEF Mergeable, ToInbox, Written1

LEMMA FieldsMove ==
  ASSUME NEW r, NEW c, c.kind = "fields", NEW s, FieldsApplied(s, r, c)
  PROVE  ClocksMove(s, r, c)
<1> SUFFICES ASSUME NEW e \in Entity, NEW f \in Field, s.clk[e][f] # r.clk[e][f]
             PROVE  s.clk[e][f] = c.clock /\ e = c.target /\ f \in Written1(r, c)
  <2>1. \A f \in Written1(r, c) : f \in DOMAIN c.fields
    BY DEF Written1, Mergeable
  <2> QED BY <2>1 DEF ClocksMove, Writes
<1>1. e = c.target /\ f \in Written1(r, c)
  BY DEF FieldsApplied
<1>2. s.clk[e][f] = MergeField(r, c, f).clock
  BY <1>1 DEF FieldsApplied
<1>3. MergeField(r, c, f).decision # "keep"
  BY <1>1 DEF Written1
<1>4. Merged(r, c, f, MergeField(r, c, f).value, MergeField(r, c, f).clock)
  BY <1>3, MergeLeaves
<1> QED BY <1>1, <1>2, <1>4 DEF Merged

\* The copies are of known changes, none is there already, and none is of the live text.
LEMMA FieldsEnter ==
  ASSUME NEW r, NEW K, NEW d, NEW c, Arrives(r, K, d, c),
         c.kind = "fields", c.target \in Entity,
         NEW s, FieldsApplied(s, r, c)
  PROVE  Enters(Dead(r, c) \cup Copies(r, c), s, r, K \cup {c})
<1> DEFINE e == c.target
           L == K \cup {c}
<1>1. /\ Sound(L) /\ Sound(K) /\ c \notin K /\ c \in Change /\ c.clock \in Hlc
      /\ K \in SUBSET Change /\ Shaped(r) /\ ClocksFrom(r, K) /\ TombsFrom(r, K) /\ InboxFrom(r, K)
      /\ BasesKnown(L)
      /\ \A x \in Entity : EntityHeld(r, K, d, x)
  BY ArrivalParts
<1>2. Deleted(L, e) = Deleted(K, e) /\ (Tombstoned(r, c) <=> Deleted(K, e) # {})
  <2>1. Deleted(L, e) = Deleted(K, e)
    BY MoreDeleted
  <2>2. r.tomb[e] = NoClock <=> Deleted(K, e) = {}
    BY <1>1 DEF TombsFrom
  <2> QED BY <2>1, <2>2 DEF Tombstoned
<1>3. \A w \in K : w.clock # c.clock
  BY <1>1 DEF Sound
<1>4. ASSUME NEW f \in Field, f \in DOMAIN c.fields PROVE c \in Writers(L, e, f)
  BY <1>4, MoreWriters DEF Writes
\* Its own stamp is new.
<1>5. ASSUME NEW x, x.clock = c.clock, x \in DOMAIN r.inbox PROVE FALSE
  <2>1. Entry(r, K, x)
    BY <1>1, <1>5 DEF InboxFrom
  <2> QED BY <1>3, <1>5, <2>1 DEF Entry, Writers
<1>6. ASSUME NEW x \in Dead(r, c)
      PROVE  Entry(s, L, x) /\ x \notin DOMAIN r.inbox
  <2>1. PICK f \in ToInbox(r, c) : x = Conflict(e, f, c.fields[f], c.clock)
    BY DEF Dead
  <2>2. x.entity = e /\ x.field = f /\ x.clock = c.clock
    BY <2>1 DEF Conflict
  <2>3. f \in Field /\ f \in DOMAIN c.fields /\ Tombstoned(r, c)
    BY <2>1 DEF ToInbox, Field
  <2>4. c \in Writers(L, e, f)
    BY <1>4, <2>3
  <2> QED BY <1>2, <1>5, <2>2, <2>3, <2>4 DEF Entry
<1>7. ASSUME NEW x \in Copies(r, c)
      PROVE  Entry(s, L, x) /\ x \notin DOMAIN r.inbox
  <2>1. PICK f \in Conflicting(r, c) :
          x = Conflict(e, f, MergeField(r, c, f).loser, MergeField(r, c, f).loser_clock)
    BY DEF Copies
  <2>2. f \in ProseField /\ ~Tombstoned(r, c) /\ f \in DOMAIN c.fields /\ f \in Written1(r, c)
    BY ConflictsOnProse
  <2>3. f \in Field
    BY <2>2 DEF Field
  <2>4. PICK m : m = MergeField(r, c, f)
    OBVIOUS
  <2>5. PICK l : l = LocalClock(r, c, f)
    OBVIOUS
  <2>6. m.decision = "conflict"
    BY <2>4 DEF Conflicting
  <2>7. PICK v : v = r.val[c.target][f]
    OBVIOUS
  <2>8. PICK i : i = c.fields[f]
    OBVIOUS
  <2>9. Outcome(m, l, v, i, c)
    BY <2>2, <2>4, <2>5, <2>7, <2>8, ProseOutcome
  <2>10. /\ l # NoClock
         /\ \/ m.clock = c.clock /\ m.loser_clock = l
            \/ m.clock = l /\ m.loser_clock = c.clock
    BY <2>6, <2>9 DEF Outcome
  <2>11. l = r.clk[e][f]
    BY <2>5, <2>10 DEF LocalClock
  <2>12. x.entity = e /\ x.field = f /\ x.clock = m.loser_clock
    BY <2>1, <2>4 DEF Conflict
  <2>13. s.clk[e][f] = m.clock
    BY <2>2, <2>3, <2>4 DEF FieldsApplied
  <2>14. PICK w \in Writers(K, e, f) : w.clock = l
    BY <1>1, <2>3, <2>10, <2>11 DEF ClocksFrom
  <2>15. l # c.clock
    BY <1>3, <2>14 DEF Writers
  <2>16. w \in Writers(L, e, f) /\ c \in Writers(L, e, f)
    BY <1>4, <2>2, <2>3, MoreWriters
  <2>17. x.clock # s.clk[e][f]
    BY <2>10, <2>12, <2>13, <2>15
  <2>18. Entry(s, L, x)
    BY <2>3, <2>10, <2>12, <2>14, <2>16, <2>17 DEF Entry
  <2>19. ASSUME x \in DOMAIN r.inbox, x.clock = l PROVE FALSE
    <3>1. Entry(r, K, x)
      BY <1>1, <2>19 DEF InboxFrom
    <3>2. Deleted(K, e) = {}
      BY <1>2, <2>2
    <3> QED BY <2>11, <2>12, <2>19, <3>1, <3>2 DEF Entry
  <2> QED BY <1>5, <2>10, <2>12, <2>18, <2>19
<1> QED BY <1>6, <1>7 DEF Enters

\* A text of a row that is not deleted, when c writes the column it is in.
Settles(s, r, L, c, x, f) ==
  Boxed(s, x, f) \/ Superseded(L, x, f) \/ Owned(s, L, x, f)

LEMMA MergedTextHeld ==
  ASSUME NEW r, NEW K, NEW d, NEW c, Arrives(r, K, d, c),
         c.kind = "fields", c.target \in Entity, ~Tombstoned(r, c),
         NEW s, FieldsApplied(s, r, c), Copies(r, c) \subseteq DOMAIN s.inbox,
         EntitySettled(r, K, c.target), NEW f \in ProseOf(c)
  PROVE  /\ Settles(s, r, K \cup {c}, c, c, f)
         /\ \A x \in K : x.target = c.target /\ Owned(r, K, x, f) => Settles(s, r, K \cup {c}, c, x, f)
<1> DEFINE e == c.target
           L == K \cup {c}
<1>1. Sound(K) /\ c \in Change /\ c.clock \in Hlc /\ K \in SUBSET Change
  BY ArrivalParts
<1>2. f \in Field /\ f \in ProseField /\ f \in DOMAIN c.fields
  BY DEF ProseOf, Field
<1>3. f \in Mergeable(r, c)
  BY <1>2 DEF Mergeable, ToInbox, Dominated
<1>4. PICK m : m = MergeField(r, c, f)
  OBVIOUS
<1>5. PICK l : l = LocalClock(r, c, f)
  OBVIOUS
<1>6. PICK v : v = r.val[e][f]
  OBVIOUS
<1>7. PICK i : i = c.fields[f]
  OBVIOUS
<1>8. Outcome(m, l, v, i, c)
  BY <1>2, <1>4, <1>5, <1>6, <1>7, ProseOutcome
<1>9. /\ s.val[e][f] = IF m.decision = "keep" THEN v ELSE m.value
      /\ s.clk[e][f] = IF m.decision = "keep" THEN r.clk[e][f] ELSE m.clock
      /\ s.row[e]
  <2>1. f \in Written1(r, c) <=> m.decision # "keep"
    BY <1>3, <1>4 DEF Written1
  <2> QED BY <1>2, <1>4, <1>6, <2>1 DEF FieldsApplied
<1>10. l # NoClock => l = r.clk[e][f]
  BY <1>5 DEF LocalClock
<1>11. c \in Writers(L, e, f) /\ c \in L
  BY <1>2, MoreWriters DEF Writes
\* The loser of a conflict is in the inbox.
<1>12. ASSUME m.decision = "conflict", NEW x, x.target = e, x.fields[f] = m.loser
       PROVE  Boxed(s, x, f)
  <2>1. PICK y : y = Conflict(e, f, m.loser, m.loser_clock)
    OBVIOUS
  <2>2. y \in Copies(r, c)
    BY <1>3, <1>4, <1>12, <2>1 DEF Copies, Conflicting
  <2>3. y.entity = x.target /\ y.field = f /\ y.value = x.fields[f]
    BY <1>12, <2>1 DEF Conflict
  <2> QED BY <2>2, <2>3 DEF Boxed
\* The incoming text, where it is the one that is live.
<1>13. ASSUME m.decision # "keep", m.value = i, m.clock = c.clock, NEW x, x.target = e, x.fields[f] = i
       PROVE  Owned(s, L, x, f)
  BY <1>7, <1>9, <1>11, <1>13 DEF Owned
<1>14. Settles(s, r, L, c, c, f)
  <2>1. CASE m.decision # "keep" /\ m.value = i /\ m.clock = c.clock
    BY <1>7, <1>13, <2>1 DEF Settles
  <2>2. CASE m.decision = "keep" /\ l # NoClock /\ v = i
    <3>1. GreatestOf(l, Writers(K, e, f)) /\ ValueOf(v, l, Writers(K, e, f), f)
      BY <1>2, <1>6, <1>10, <2>2 DEF EntitySettled, FieldSettled
    <3>2. PICK w \in Writers(K, e, f) : w.clock = l /\ w.fields[f] = v
      BY <2>2, <3>1 DEF GreatestOf, ValueOf
    <3>3. w \in Writers(L, e, f)
      BY MoreWriters
    <3> QED BY <1>7, <1>9, <1>10, <2>2, <3>2, <3>3 DEF Settles, Owned
  <2>3. CASE m.decision = "conflict" /\ m.loser = i
    BY <1>7, <1>12, <2>3 DEF Settles
  <2> QED BY <1>8, <2>1, <2>2, <2>3 DEF Outcome
<1>15. ASSUME NEW x \in K, x.target = e, Owned(r, K, x, f)
       PROVE  Settles(s, r, L, c, x, f)
  <2>1. PICK w \in Writers(K, e, f) : w.clock = r.clk[e][f] /\ w.fields[f] = x.fields[f]
    BY <1>15 DEF Owned
  <2>2. w \in L /\ w \in Writers(L, e, f) /\ f \in DOMAIN w.fields /\ w.clock \in Hlc
    BY <1>1, MoreWriters DEF Writers, Change
  <2>3. r.row[e] /\ v = x.fields[f]
    BY <1>6, <1>15 DEF Owned
  <2>4. l = w.clock /\ l # NoClock
    BY <1>5, <2>1, <2>2, <2>3, StampNotNone DEF LocalClock
  <2>5. ASSUME s.val[e][f] = v, s.clk[e][f] = l PROVE Owned(s, L, x, f)
    BY <1>9, <1>15, <2>1, <2>2, <2>3, <2>4, <2>5 DEF Owned
  <2>6. CASE m.decision = "take" /\ m.value = i /\ m.clock = c.clock /\ v = i
    BY <1>13, <1>15, <2>3, <2>6 DEF Settles
  <2>7. CASE m.decision = "take" /\ c.base = l
    <3>1. Supersedes(c, w, x, f)
      BY <1>2, <1>15, <2>1, <2>2, <2>4, <2>7 DEF Supersedes
    <3> QED BY <1>11, <2>2, <3>1 DEF Settles, Superseded
  <2>8. CASE m.decision = "keep"
    BY <1>9, <1>10, <2>4, <2>5, <2>8 DEF Settles
  <2>9. CASE m.decision = "conflict" /\ m.loser = v
    BY <1>12, <1>15, <2>3, <2>9 DEF Settles
  <2>10. CASE m.decision = "conflict" /\ m.value = v /\ m.clock = l
    BY <1>9, <2>5, <2>10 DEF Settles
  <2> QED BY <1>8, <2>4, <2>6, <2>7, <2>8, <2>9, <2>10 DEF Outcome
<1> QED BY <1>14, <1>15

LEMMA ApplyFieldsHeld ==
  ASSUME NEW r, NEW K, NEW d, NEW c, Arrives(r, K, d, c),
         c.kind = "fields", c.target \in Entity,
         c.base # NoClock => Before(c.base, c.clock),
         NEW s, s = ApplyFields(r, c)
  PROVE  HeldBy(s, K \cup {c}, d)
<1> DEFINE e == c.target
           L == K \cup {c}
           N == Dead(r, c) \cup Copies(r, c)
<1>1. /\ Sound(L) /\ Sound(K) /\ c \notin K /\ c \in Change /\ c.clock \in Hlc
      /\ K \in SUBSET Change /\ Shaped(r) /\ ClocksFrom(r, K) /\ TombsFrom(r, K) /\ InboxFrom(r, K)
      /\ BasesKnown(L)
      /\ \A x \in Entity : EntityHeld(r, K, d, x)
  BY ArrivalParts
<1>2. FieldsApplied(s, r, c) /\ ClocksMove(s, r, c)
  <2>1. FieldsApplied(s, r, c)
    BY <1>1, FieldsAre
  <2> QED BY <2>1, FieldsMove
<1>3. ClocksFrom(s, L)
  BY <1>1, <1>2, ClocksGrow
<1>4. TombsFrom(s, L)
  <2>1. s.tomb = r.tomb
    BY <1>2 DEF FieldsApplied
  <2> QED BY <1>1, <2>1, TombsGrow
<1>5. /\ InboxFrom(s, L) /\ DOMAIN r.inbox \subseteq DOMAIN s.inbox
      /\ Dead(r, c) \subseteq DOMAIN s.inbox /\ Copies(r, c) \subseteq DOMAIN s.inbox
  <2>1. Enters(N, s, r, L)
    BY <1>2, FieldsEnter
  <2>2. s.inbox = r.inbox (+) SetToBag(N)
    BY <1>1, ApplyFieldsInbox
  <2>3. PICK M : M = N
    OBVIOUS
  <2>4. Filled(s, r, L, M)
    <3> HIDE DEF N
    <3> QED BY <1>1, <1>2, <2>1, <2>2, <2>3, InboxGrows
  <2> QED BY <2>3, <2>4 DEF Filled
<1>6. ASSUME NEW x \in Entity, x # e PROVE EntityHeld(s, L, d, x)
  <2>1. s.row[x] = r.row[x] /\ s.val[x] = r.val[x] /\ s.clk[x] = r.clk[x] /\ s.tomb[x] = r.tomb[x]
    BY <1>2, <1>6 DEF FieldsApplied
  <2> QED BY <1>1, <1>5, <1>6, <2>1, OthersHeld
<1>7. Deleted(L, e) = Deleted(K, e) /\ (Tombstoned(r, c) <=> Deleted(K, e) # {})
  <2>1. Deleted(L, e) = Deleted(K, e)
    BY MoreDeleted
  <2>2. r.tomb[e] = NoClock <=> Deleted(K, e) = {}
    BY <1>1 DEF TombsFrom
  <2> QED BY <2>1, <2>2 DEF Tombstoned
<1>8. ASSUME Deleted(L, Parent[e]) = {}
      PROVE  /\ Deleted(L, e) = {} => EntitySettled(s, L, e)
             /\ ProseHeld(s, L, d, e)
  <2>1. Deleted(K, Parent[e]) = {}
    BY <1>8, MoreDeleted
  <2>2. ProseHeld(r, K, d, e) /\ (Deleted(K, e) = {} => EntitySettled(r, K, e))
    BY <1>1, <2>1 DEF EntityHeld
  \* Nobody has deleted the row.
  <2>3. CASE Deleted(K, e) = {}
    <3>1. EntitySettled(r, K, e)
      BY <2>2, <2>3
    <3>2. Merges(s, r, K, c)
      BY <1>1, <3>1, ApplyMeets
    <3>3. s.row[e] = TRUE /\ s.tomb[e] = r.tomb[e]
      BY <1>1, <3>2 DEF Merges, Shaped
    <3>4. EntitySettled(s, L, e)
      BY <1>1, <3>1, <3>2, <3>3, EntityTakes DEF Merges
    <3>5. ASSUME NEW f \in ProseOf(c)
          PROVE  /\ Settles(s, r, L, c, c, f)
                 /\ \A x \in K : x.target = e /\ Owned(r, K, x, f) => Settles(s, r, L, c, x, f)
      BY <1>2, <1>5, <1>7, <2>3, <3>1, MergedTextHeld
    <3>6. ASSUME NEW f \in ProseOf(c) PROVE Held(s, L, d, c, f)
      BY <1>7, <2>3, <3>5 DEF Settles, Held
    <3>7. ASSUME NEW x \in K, x.target = e, NEW f \in ProseOf(x) PROVE Held(s, L, d, x, f)
      <4>1. Held(r, K, d, x, f)
        BY <2>2, <3>7 DEF ProseHeld
      <4>2. f \in Field /\ f \in ProseField
        BY DEF ProseOf, Field
      <4>3. ASSUME Owned(r, K, x, f) PROVE Settles(s, r, L, c, x, f)
        <5>1. CASE f \in DOMAIN c.fields
          <6>1. f \in ProseOf(c)
            BY <4>2, <5>1 DEF ProseOf
          <6> QED BY <3>5, <3>7, <4>3, <6>1
        <5>2. CASE f \notin DOMAIN c.fields
          <6>1. f \notin Written1(r, c)
            BY <5>2 DEF Written1, Mergeable
          <6>2. s.val[e][f] = r.val[e][f] /\ s.clk[e][f] = r.clk[e][f] /\ s.row[e]
            BY <1>2, <3>3, <4>2, <6>1 DEF FieldsApplied
          <6>3. Owned(s, L, x, f)
            BY <3>7, <4>3, <6>2, MoreWriters DEF Owned
          <6> QED BY <6>3 DEF Settles
        <5> QED BY <5>1, <5>2
      <4> QED BY <1>5, <1>7, <3>7, <4>1, <4>3, OldHeld DEF Settles
    <3> QED BY <3>4, <3>6, <3>7 DEF ProseHeld
  \* Somebody has: prose goes to the inbox, and the row's own stays.
  <2>4. CASE Deleted(K, e) # {}
    <3>1. ASSUME NEW f \in ProseOf(c) PROVE Held(s, L, d, c, f)
      <4>1. PICK y : y = Conflict(e, f, c.fields[f], c.clock)
        OBVIOUS
      <4>2. y \in Dead(r, c)
        BY <1>7, <2>4, <4>1 DEF Dead, ToInbox, ProseOf
      <4>3. y.entity = c.target /\ y.field = f /\ y.value = c.fields[f]
        BY <4>1 DEF Conflict
      <4>4. Boxed(s, c, f)
        BY <1>5, <4>2, <4>3 DEF Boxed
      <4> QED BY <4>4 DEF Held
    <3>2. ASSUME NEW x \in K, x.target = e, NEW f \in ProseOf(x) PROVE Held(s, L, d, x, f)
      <4>1. Held(r, K, d, x, f)
        BY <2>2, <3>2 DEF ProseHeld
      <4>2. f \in Field /\ f \in ProseField
        BY DEF ProseOf, Field
      <4>3. ASSUME Owned(r, K, x, f) PROVE Owned(s, L, x, f)
        <5>1. f \notin Written1(r, c)
          BY <1>7, <2>4, <4>2 DEF Written1, Mergeable, ToInbox
        <5>2. r.row[e]
          BY <3>2, <4>3 DEF Owned
        <5>3. s.val[e][f] = r.val[e][f] /\ s.clk[e][f] = r.clk[e][f] /\ s.row[e]
          BY <1>2, <4>2, <5>1, <5>2 DEF FieldsApplied
        <5> QED BY <3>2, <4>3, <5>3, MoreWriters DEF Owned
      <4> QED BY <1>5, <1>7, <3>2, <4>1, <4>3, OldHeld
    <3> QED BY <1>7, <2>4, <3>1, <3>2 DEF ProseHeld
  <2> QED BY <2>3, <2>4
<1>9. EntityHeld(s, L, d, e)
  BY <1>8 DEF EntityHeld
<1> QED BY <1>1, <1>3, <1>4, <1>5, <1>6, <1>9 DEF HeldBy

\* apply_change
LEMMA ApplyHeld ==
  ASSUME NEW r, NEW K, NEW d, NEW c, Arrives(r, K, d, c),
         c.kind # "edge" => c.target \in Entity,
         c.base # NoClock => Before(c.base, c.clock),
         NEW s, s = ApplyChange(r, c)
  PROVE  HeldBy(s, K \cup {c}, d)
<1>1. Shaped(r) /\ c \in Change
  BY ArrivalParts
<1>2. c.kind \in {"fields", "delete", "edge"}
  BY <1>1 DEF Change
<1>3. CASE c.kind = "fields"
  <2>1. s = ApplyFields(r, c) /\ c.target \in Entity
    BY <1>3 DEF ApplyChange
  <2> QED BY <1>3, <2>1, ApplyFieldsHeld
<1>4. CASE c.kind = "delete"
  <2>1. s = ApplyDelete(r, c) /\ c.target \in Entity
    BY <1>4 DEF ApplyChange
  <2> QED BY <1>4, <2>1, ApplyDeleteHeld
<1>5. CASE c.kind = "edge"
  <2>1. s = ApplyEdge(r, c)
    BY <1>5 DEF ApplyChange
  <2>2. s.row = r.row /\ s.val = r.val /\ s.clk = r.clk /\ s.tomb = r.tomb /\ s.inbox = r.inbox
    BY <1>1, <2>1 DEF ApplyEdge, SetMembership, Shaped
  <2> QED BY <1>5, <2>2, EdgeHeld
<1> QED BY <1>2, <1>3, <1>4, <1>5

-----------------------------------------------------------------------------
(* A local edit, and the state everything starts from. *)

\* emit_change: the body of the outbox row, and the replica after the write.
Wrote(c, r, s) ==
  \/ /\ c.kind = "fields" /\ c.base = BaseVersionFor(r, c.target, c.fields)
     /\ s = LocalWrite(r, c.target, c.fields, c.clock)
  \/ /\ c.kind = "delete" /\ c.base = ObservedProseVersion(r, c.target)
     /\ s = LocalDelete(r, c.target, c.clock)
  \/ /\ c.kind = "edge" /\ c.base = NoClock
     /\ s = LocalEdge(r, c.target, c.present, c.clock)

LEMMA EditArrives ==
  ASSUME NEW r, NEW K, NEW d, NEW c, NEW s, Wrote(c, r, s),
         Sound(K \cup {c}), c \notin K, Shaped(r), HeldBy(r, K, d)
  PROVE  Arrives(r, K, d, c)
<1>1. ClocksFrom(r, K) /\ Sound(K)
  BY SoundParts DEF HeldBy
<1>2. c.kind # "edge" => c.target \in Entity
  BY DEF Sound
<1>3. Grounded(K, c)
  <2>1. CASE c.kind = "fields" /\ c.base = BaseVersionFor(r, c.target, c.fields)
    <3>1. PICK M : M = K \cup {c}
      OBVIOUS
    <3>2. Sound(M) /\ c \in M
      BY <3>1
    <3>3. FromClock(r, c)
      BY <2>1, <3>2, ProseBase
    <3>4. c.base # NoClock => \E f \in ProseField : c.base = r.clk[c.target][f]
      BY <3>3 DEF FromClock, ProseOf
    <3> QED BY <1>1, <1>2, <2>1, <3>4, ClockGrounds
  <2>2. CASE c.kind = "delete" /\ c.base = ObservedProseVersion(r, c.target)
    <3>1. PICK e \in Entity : e = c.target
      BY <1>2, <2>2
    <3>2. /\ r.row[e] => \A f \in ProseField : r.clk[e][f] # NoClock => ObservedProseVersion(r, e) = r.clk[e][f]
          /\ ObservedProseVersion(r, e) # NoClock =>
               \E f \in ProseField : ObservedProseVersion(r, e) = r.clk[e][f]
      BY <1>1, ObservedIsClock
    <3>3. c.base # NoClock => \E f \in ProseField : c.base = r.clk[c.target][f]
      BY <2>2, <3>1, <3>2
    <3> QED BY <1>1, <1>2, <2>2, <3>3, ClockGrounds
  <2>3. CASE c.kind = "edge" /\ c.base = NoClock
    BY <2>3 DEF Grounded
  <2> QED BY <2>1, <2>2, <2>3 DEF Wrote
<1> QED BY <1>3 DEF Arrives

LEMMA EditHeld ==
  ASSUME NEW r, NEW K, NEW d, NEW c, NEW s, Wrote(c, r, s), Arrives(r, K, d, c),
         c.device_id = d, \A x \in K : Before(x.clock, c.clock)
  PROVE  HeldBy(s, K \cup {c}, d)
<1>1. Shaped(r) /\ Sound(K \cup {c})
  BY DEF Arrives
<1>2. c.kind # "edge" => c.target \in Entity
  BY <1>1 DEF Sound
<1>3. CASE /\ c.kind = "fields" /\ c.base = BaseVersionFor(r, c.target, c.fields)
           /\ s = LocalWrite(r, c.target, c.fields, c.clock)
  BY <1>2, <1>3, LocalWriteHeld
<1>4. CASE /\ c.kind = "delete" /\ c.base = ObservedProseVersion(r, c.target)
           /\ s = LocalDelete(r, c.target, c.clock)
  BY <1>2, <1>4, LocalDeleteHeld
<1>5. CASE c.kind = "edge" /\ s = LocalEdge(r, c.target, c.present, c.clock)
  <2>1. s.row = r.row /\ s.val = r.val /\ s.clk = r.clk /\ s.tomb = r.tomb /\ s.inbox = r.inbox
    BY <1>1, <1>5 DEF LocalEdge, SetMembership, Shaped
  <2> QED BY <1>5, <2>1, EdgeHeld
<1> QED BY <1>3, <1>4, <1>5 DEF Wrote

\* Rows come from edits.
FromEdit(c) ==
  /\ c.kind = "fields" => \E x \in Edits : x.kind = "fields" /\ x.target = c.target /\ x.fields = c.fields
  /\ c.kind # "fields" => DOMAIN c.fields = {}

LEMMA EditsSound ==
  ASSUME NEW K \in SUBSET Change,
         \A c \in K : FromEdit(c) /\ (c.kind # "edge" => c.target \in Entity),
         \A x \in K : \A y \in K : x.clock = y.clock => x = y
  PROVE  Sound(K)
<1>1. ASSUME NEW x \in K, NEW y \in K, x.target = y.target, NEW f \in ProseOf(x), NEW g \in ProseOf(y)
      PROVE  f = g
  <2>1. f \in DOMAIN x.fields /\ g \in DOMAIN y.fields
    BY DEF ProseOf
  <2>2. x.kind = "fields" /\ y.kind = "fields"
    BY <2>1 DEF FromEdit
  <2>3. PICK a \in Edits : a.kind = "fields" /\ a.target = x.target /\ a.fields = x.fields
    BY <2>2 DEF FromEdit
  <2>4. PICK b \in Edits : b.kind = "fields" /\ b.target = y.target /\ b.fields = y.fields
    BY <2>2 DEF FromEdit
  <2>5. SameProse(a, b)
    BY EngineAssumption
  <2> QED BY <1>1, <2>3, <2>4, <2>5 DEF SameProse, ProseOf
<1>2. \A c \in K : (c.kind # "edge" => c.target \in Entity) /\ (c.kind # "fields" => DOMAIN c.fields = {})
  BY DEF FromEdit
<1> QED BY <1>1, <1>2 DEF Sound

LEMMA EmptyHeld ==
  ASSUME NEW d
  PROVE  HeldBy(EmptyReplica, {}, d)
<1> DEFINE r == EmptyReplica
<1>1. BasesKnown({})
  BY DEF BasesKnown
<1>2. ClocksFrom(r, {})
  BY DEF ClocksFrom, EmptyReplica
<1>3. TombsFrom(r, {})
  BY DEF TombsFrom, EmptyReplica, Deleted
<1>4. InboxFrom(r, {})
  <2>1. DOMAIN r.inbox = {}
    BY DEF EmptyReplica, EmptyBag, SetToBag
  <2> QED BY <2>1 DEF InboxFrom
<1>5. ASSUME NEW e \in Entity PROVE EntityHeld(r, {}, d, e)
  <2>1. EntitySettled(r, {}, e)
    BY EmptySettled DEF Settled
  <2> QED BY <2>1 DEF EntityHeld, ProseHeld
<1> QED BY <1>1, <1>2, <1>3, <1>4, <1>5 DEF HeldBy

-----------------------------------------------------------------------------
(* The inductive invariant. *)

\* No counter has run into its maximum.
Unsaturated ==
  \A d \in Device : \A k \in 1..Len(outbox[d]) : outbox[d][k].clock.counter < MaxCounter

RepsShaped == \A d \in Device : \A r \in {rep[d]} : Shaped(r)

\* A device stamps with its own handle, in ascending order, and later than what it builds on.
OwnStamps ==
  \A d \in Device :
    /\ hlc[d].device_id = d
    /\ \A k \in 1..Len(outbox[d]) : outbox[d][k].clock.device_id = d
Ascending ==
  \A d \in Device : \A k \in 1..Len(outbox[d]) :
    /\ \A j \in 1..(k - 1) : Before(outbox[d][j].clock, outbox[d][k].clock)
    /\ outbox[d][k].base # NoClock => Before(outbox[d][k].base, outbox[d][k].clock)

\* As long as a device knows of no delete, its replica is settled on what it knows.
NoneDeleted(K) == \A c \in K : c.kind # "delete"
RepsSettled ==
  \A d \in Device : \A r \in {rep[d]} : \A K \in {Knows(d)} : NoneDeleted(K) => Settled(r, K)

\* What becomes of prose.
RowsFromEdits == \A d \in Device : \A k \in 1..Len(outbox[d]) : FromEdit(outbox[d][k])
RepsHeld == \A d \in Device : \A r \in {rep[d]} : \A K \in {Knows(d)} : HeldBy(r, K, d)

CInv ==
  /\ RepsShaped
  /\ OwnStamps
  /\ RowsFromEdits
  /\ Unsaturated => Ascending /\ RepsSettled /\ RepsHeld

LEMMA KnowsChanges ==
  ASSUME IInv, NEW d \in Device
  PROVE  Knows(d) \in SUBSET Change
<1> SUFFICES ASSUME NEW c \in Knows(d) PROVE c \in Change
  OBVIOUS
<1>1. PICK o \in Device : \E k \in 1..Len(outbox[o]) : outbox[o][k] = c /\ Has(d, o, k)
  BY KnownRow
<1> QED BY <1>1, LenTypes DEF IInv, DataOK

LEMMA RowKnown ==
  ASSUME IInv, NEW d \in Device, NEW o \in Device, NEW k \in 1..Len(outbox[o]), Has(d, o, k)
  PROVE  outbox[o][k] \in Knows(d)
<1>1. outbox[o] \in Seq(Change) /\ DOMAIN outbox[o] = 1..Len(outbox[o])
  BY LenProperties DEF IInv, DataOK, TypeOK
<1>2. outbox[o][k] \in Emitted
  BY <1>1 DEF Emitted
<1>3. outbox[o][k].id = <<o, k>> /\ outbox[o][k].device_id = o
  BY DEF IInv, DataOK, Numbered
<1> QED BY <1>2, <1>3 DEF Has, Knows

LEMMA EmittedRow ==
  ASSUME IInv, NEW x \in Emitted
  PROVE  \E o \in Device : \E k \in 1..Len(outbox[o]) : outbox[o][k] = x
<1>1. PICK o \in Device : x \in {outbox[o][i] : i \in DOMAIN outbox[o]}
  BY DEF Emitted
<1>2. DOMAIN outbox[o] = 1..Len(outbox[o])
  BY LenTypes, LenProperties DEF IInv, DataOK
<1> QED BY <1>1, <1>2

\* A stamp names its change: the device in it, and the ascending order of that device's own.
LEMMA StampsDistinct ==
  ASSUME IInv, OwnStamps, Ascending,
         NEW x \in Emitted, NEW y \in Emitted, x.clock = y.clock
  PROVE  x = y
<1>1. PICK a \in Device : \E i \in 1..Len(outbox[a]) : outbox[a][i] = x
  BY EmittedRow
<1>2. PICK i \in 1..Len(outbox[a]) : outbox[a][i] = x
  BY <1>1
<1>3. PICK b \in Device : \E j \in 1..Len(outbox[b]) : outbox[b][j] = y
  BY EmittedRow
<1>4. PICK j \in 1..Len(outbox[b]) : outbox[b][j] = y
  BY <1>3
<1>5. a = b
  BY <1>2, <1>4 DEF OwnStamps
<1>6. x.clock \in Hlc /\ ~Before(x.clock, x.clock)
  <2>1. x \in Change
    BY <1>2, LenTypes DEF IInv, DataOK
  <2>2. x.clock \in Hlc
    BY <2>1 DEF Change
  <2> QED BY <2>2, StampsTotallyOrdered
<1>7. i \in Nat /\ j \in Nat /\ Len(outbox[a]) \in Nat
  BY LenTypes DEF IInv, DataOK
<1>8. CASE i < j
  <2>1. i \in 1..(j - 1)
    BY <1>7, <1>8
  <2> QED BY <1>2, <1>4, <1>5, <1>6, <2>1 DEF Ascending
<1>9. CASE j < i
  <2>1. j \in 1..(i - 1)
    BY <1>7, <1>9
  <2> QED BY <1>2, <1>4, <1>5, <1>6, <2>1 DEF Ascending
<1>10. i < j \/ j < i \/ i = j
  BY <1>7
<1> QED BY <1>2, <1>4, <1>5, <1>8, <1>9, <1>10

LEMMA EmittedSound ==
  ASSUME IInv, OwnStamps, RowsFromEdits, Ascending
  PROVE  Sound(Emitted)
<1>1. ASSUME NEW c \in Emitted
      PROVE  c \in Change /\ FromEdit(c) /\ (c.kind # "edge" => c.target \in Entity)
  <2>1. PICK o \in Device : \E k \in 1..Len(outbox[o]) : outbox[o][k] = c
    BY EmittedRow
  <2>2. PICK k \in 1..Len(outbox[o]) : outbox[o][k] = c
    BY <2>1
  <2> QED BY <2>2, LenTypes DEF IInv, DataOK, Numbered, RowsFromEdits
<1>2. \A x \in Emitted : \A y \in Emitted : x.clock = y.clock => x = y
  BY StampsDistinct
<1>3. PICK L : L = Emitted
  OBVIOUS
<1>4. Sound(L)
  BY <1>1, <1>2, <1>3, EditsSound
<1> QED BY <1>3, <1>4

LEMMA SoundBelow ==
  ASSUME NEW L, Sound(L), NEW K \in SUBSET L
  PROVE  Sound(K)
BY DEF Sound

LEMMA InitCInv == Init => CInv
<1> SUFFICES ASSUME Init PROVE CInv
  OBVIOUS
<1>1. /\ hlc = [d \in Device |-> Zero(d)] /\ rep = [d \in Device |-> EmptyReplica]
      /\ outbox = [d \in Device |-> <<>>]
  BY DEF Init
<1>2. \A d \in Device : 1..Len(outbox[d]) = {} /\ DOMAIN outbox[d] = {}
  <2>1. \A d \in Device : outbox[d] = <<>>
    BY <1>1
  <2>2. Len(<<>>) = 0 /\ DOMAIN <<>> = {} /\ 1..0 = {}
    OBVIOUS
  <2> QED BY <2>1, <2>2
<1>3. RepsShaped
  BY <1>1, EmptyShaped DEF RepsShaped
<1>4. OwnStamps
  BY <1>1, <1>2 DEF OwnStamps, Zero
<1>5. Ascending
  BY <1>2 DEF Ascending
<1>6. \A d \in Device : Knows(d) = {}
  <2>1. Emitted = {}
    BY <1>2 DEF Emitted
  <2> QED BY <2>1 DEF Knows
<1>7. RepsSettled
  BY <1>1, <1>6, EmptySettled DEF RepsSettled
<1>8. RepsHeld
  BY <1>1, <1>6, EmptyHeld DEF RepsHeld
<1>9. RowsFromEdits
  BY <1>2 DEF RowsFromEdits
<1> QED BY <1>3, <1>4, <1>5, <1>7, <1>8, <1>9 DEF CInv

\* Steps that change neither what devices know nor their replicas.
LEMMA UnchangedKeepsC ==
  ASSUME CInv, UNCHANGED <<hlc, rep, outbox, applied>>
  PROVE  CInv'
<1>1. Emitted' = Emitted
  BY DEF Emitted
<1>2. \A d \in Device : Knows(d)' = Knows(d)
  BY <1>1 DEF Knows
<1>3. RepsShaped'
  BY DEF CInv, RepsShaped
<1>4. OwnStamps'
  BY DEF CInv, OwnStamps
<1>5. Unsaturated' => Unsaturated
  BY DEF Unsaturated
<1>6. Ascending => Ascending'
  BY DEF Ascending
<1>7. RepsSettled => RepsSettled'
  BY <1>2 DEF RepsSettled
<1>8. RepsHeld => RepsHeld'
  BY <1>2 DEF RepsHeld
<1>9. RowsFromEdits'
  BY DEF CInv, RowsFromEdits
<1> QED BY <1>3, <1>4, <1>5, <1>6, <1>7, <1>8, <1>9 DEF CInv

\* What the row of an edit says, and what the edit writes.
LEMMA EmitBody ==
  ASSUME NEW d \in Device, NEW edit \in Edits, NEW clock \in Hlc, NEW r, rep[d] = r,
         NEW new, new = OutboxRow(d, Body(d, edit, clock), edit.refs)
  PROVE  Wrote(new, r, Written(d, edit, clock)) /\ FromEdit(new)
<1> DEFINE body == Body(d, edit, clock)
<1>1. /\ new.kind = body.kind /\ new.target = body.target /\ new.fields = body.fields
      /\ new.present = body.present /\ new.clock = body.clock /\ new.base = body.base
  <2>1. new = OutboxRow(d, body, edit.refs)
    OBVIOUS
  <2> HIDE DEF body
  <2> QED BY <2>1 DEF OutboxRow
<1> HIDE DEF body
<1>2. CASE edit.kind = "fields"
  <2>1. body = WriteBody(r, edit.target, edit.fields, clock)
    BY <1>2 DEF Body, body
  <2>2. /\ new.kind = "fields" /\ new.target = edit.target /\ new.fields = edit.fields
        /\ new.clock = clock /\ new.base = BaseVersionFor(r, edit.target, edit.fields)
    BY <1>1, <2>1 DEF WriteBody, ChangeBody
  <2>3. Written(d, edit, clock) = LocalWrite(r, edit.target, edit.fields, clock)
    BY <1>2 DEF Written
  <2> QED BY <1>2, <2>2, <2>3 DEF Wrote, FromEdit
<1>3. CASE edit.kind = "delete"
  <2>1. body = DeleteBody(r, edit.target, clock)
    BY <1>3 DEF Body, body
  <2>2. /\ new.kind = "delete" /\ new.target = edit.target /\ new.fields = NoFields
        /\ new.clock = clock /\ new.base = ObservedProseVersion(r, edit.target)
    BY <1>1, <2>1 DEF DeleteBody, ChangeBody
  <2>3. Written(d, edit, clock) = LocalDelete(r, edit.target, clock)
    BY <1>3 DEF Written
  <2> QED BY <2>2, <2>3 DEF Wrote, FromEdit, NoFields
<1>4. CASE edit.kind = "edge"
  <2>1. body = EdgeBody(edit.target, edit.present, clock)
    BY <1>4 DEF Body, body
  <2>2. /\ new.kind = "edge" /\ new.target = edit.target /\ new.present = edit.present
        /\ new.fields = NoFields /\ new.clock = clock /\ new.base = NoClock
    BY <1>1, <2>1 DEF EdgeBody, ChangeBody
  <2>3. Written(d, edit, clock) = LocalEdge(r, edit.target, edit.present, clock)
    BY <1>4 DEF Written
  <2> QED BY <2>2, <2>3 DEF Wrote, FromEdit, NoFields
<1>5. edit.kind \in {"fields", "delete", "edge"}
  BY EngineAssumption DEF Edit
<1> QED BY <1>2, <1>3, <1>4, <1>5

LEMMA EmitKeepsC ==
  ASSUME IInv, CInv, NEW d \in Device, NEW edit \in Edits, NEW now \in Wall, EmitChange(d, edit, now)
  PROVE  CInv'
<1>1. PICK clock : clock = Tick(hlc[d], now)
  OBVIOUS
<1>2. PICK new : new = OutboxRow(d, Body(d, edit, clock), edit.refs)
  OBVIOUS
<1>3. PICK r : r = rep[d]
  OBVIOUS
<1>4. PICK n : n = Len(outbox[d])
  OBVIOUS
<1>5. PICK K : K = Knows(d)
  OBVIOUS
<1>6. PICK s : s = Written(d, edit, clock)
  OBVIOUS
<1>7. /\ hlc' = [hlc EXCEPT ![d] = clock]
      /\ rep' = [rep EXCEPT ![d] = s]
      /\ outbox' = [outbox EXCEPT ![d] = Append(outbox[d], new)]
      /\ UNCHANGED applied
  BY <1>1, <1>2, <1>6 DEF EmitChange
<1>8. clock \in Hlc /\ clock.device_id = d
  <2>1. now \in Nat /\ hlc[d] \in Hlc /\ hlc[d].device_id = d
    BY EngineAssumption DEF IInv, DataOK, TypeOK, CInv, OwnStamps
  <2> QED BY <1>1, <2>1, TickAdvances
<1>9. /\ outbox[d] \in Seq(Change) /\ n \in Nat
      /\ \A o \in Device : outbox[o] \in Seq(Change) /\ Len(outbox[o]) \in Nat
  BY <1>4, LenTypes DEF IInv, DataOK
<1>10. /\ new \in Change /\ new.id = <<d, n + 1>> /\ new.device_id = d /\ new.clock = clock
       /\ new.kind # "edge" => new.target \in Entity
       /\ new.base = NoClock \/ \E e \in Entity : \E f \in Field : new.base = r.clk[e][f]
  <2>1. Clocked(r)
    BY <1>3 DEF IInv, DataOK, TypeOK
  <2>2. rep[d] = r
    BY <1>3
  <2>3. Emits(d, r, edit, clock, new)
    BY <1>2, <1>8, <1>9, <2>1, <2>2, EmitWrites
  <2> QED BY <1>4, <2>3 DEF Emits
<1>11. /\ outbox'[d] = Append(outbox[d], new) /\ Len(outbox'[d]) = n + 1 /\ outbox'[d][n + 1] = new
       /\ \A k \in 1..n : outbox'[d][k] = outbox[d][k]
       /\ \A o \in Device : o # d => outbox'[o] = outbox[o]
  <2>1. outbox'[d] = Append(outbox[d], new) /\ \A o \in Device : o # d => outbox'[o] = outbox[o]
    BY <1>7 DEF IInv, DataOK, TypeOK
  <2> QED BY <1>4, <1>9, <1>10, <2>1, AppendProperties
<1>12. \A o \in Device : \A k \in 1..Len(outbox[o]) :
         k \in 1..Len(outbox'[o]) /\ outbox'[o][k] = outbox[o][k]
  <2>1. \A k \in 1..n : k \in 1..(n + 1)
    BY <1>9
  <2> QED BY <1>4, <1>11, <2>1
<1>13. \A o \in Device : \A k \in 1..Len(outbox'[o]) :
         \/ k \in 1..Len(outbox[o]) /\ outbox'[o][k] = outbox[o][k]
         \/ o = d /\ k = n + 1 /\ outbox'[o][k] = new
  <2> SUFFICES ASSUME NEW o \in Device, NEW k \in 1..Len(outbox'[o])
               PROVE  \/ k \in 1..Len(outbox[o]) /\ outbox'[o][k] = outbox[o][k]
                      \/ o = d /\ k = n + 1 /\ outbox'[o][k] = new
    OBVIOUS
  <2>1. CASE o = d
    <3>1. k \in 1..n \/ k = n + 1
      BY <1>9, <1>11, <2>1
    <3> QED BY <1>4, <1>11, <2>1, <3>1
  <2>2. CASE o # d
    BY <1>11, <2>2
  <2> QED BY <2>1, <2>2
<1>14. K \in SUBSET Change /\ Shaped(r)
  BY <1>3, <1>5, KnowsChanges DEF CInv, RepsShaped
\* The new stamp is later than all that is known.
<1>15. Unsaturated' => Unsaturated /\ \A x \in K : Before(x.clock, clock)
  <2> SUFFICES ASSUME Unsaturated'
               PROVE  Unsaturated /\ \A x \in K : Before(x.clock, clock)
    OBVIOUS
  <2>1. Unsaturated
    BY <1>12 DEF Unsaturated
  <2>2. n + 1 \in 1..Len(outbox'[d])
    BY <1>9, <1>11
  <2>3. clock.counter < MaxCounter
    BY <1>10, <1>11, <2>2 DEF Unsaturated
  <2>4. StampAheadStep
    BY EmitStampsAhead
  <2>5. Newest(outbox'[d]) = new
    BY <1>11 DEF Newest
  <2>6. Len(outbox'[d]) > Len(outbox[d])
    BY <1>4, <1>9, <1>11
  <2> QED BY <1>5, <1>10, <2>1, <2>3, <2>4, <2>5, <2>6 DEF StampAheadStep
\* Who knows what.
<1>16. Emitted' = Emitted \cup {new}
  <2>1. DOMAIN outbox[d] = 1..n /\ DOMAIN outbox'[d] = 1..(n + 1)
    <3>1. outbox'[d] \in Seq(Change)
      BY <1>9, <1>10, <1>11, AppendProperties
    <3> QED BY <1>4, <1>9, <1>11, <3>1, LenProperties
  <2>2. {outbox'[d][i] : i \in DOMAIN outbox'[d]} = {outbox[d][i] : i \in DOMAIN outbox[d]} \cup {new}
    <3>1. \A i \in 1..(n + 1) : i \in 1..n \/ i = n + 1
      BY <1>9
    <3>2. 1..n \subseteq 1..(n + 1) /\ n + 1 \in 1..(n + 1)
      BY <1>9
    <3> QED BY <1>11, <2>1, <3>1, <3>2
  <2> QED BY <1>11, <2>2 DEF Emitted
<1>17. Knows(d)' = K \cup {new}
  BY <1>5, <1>7, <1>10, <1>16 DEF Knows
<1>18. ASSUME NEW q \in Device, q # d PROVE Knows(q)' = Knows(q)
  <2>1. new.id \notin applied[q]
    <3>1. SUFFICES ASSUME new.id \in applied[q] PROVE FALSE
      OBVIOUS
    <3>2. <<d, n + 1>> \in Ids(log)
      BY <1>10, <3>1 DEF IInv, DataOK, Recorded
    <3>3. PICK i \in 1..Len(log) : log[i].id = <<d, n + 1>>
      BY <3>2, IdsOf DEF IInv, DataOK, TypeOK
    <3>4. n + 1 \in Nat /\ ~(n + 1 \in 1..n)
      BY <1>9
    <3>5. RowOfLog(i, d, n + 1)
      BY <3>3, <3>4, LogRow DEF IInv, DataOK, RowsOfLog
    <3> QED BY <1>4, <3>3, <3>4, <3>5 DEF RowOfLog
  <2> QED BY <1>7, <1>10, <1>16, <1>18, <2>1 DEF Knows
\* What is written.
<1>19. Wrote(new, r, s) /\ FromEdit(new)
  <2>1. rep[d] = r
    BY <1>3
  <2> QED BY <1>2, <1>6, <1>8, <2>1, EmitBody
<1>20. Shaped(s)
  <2>1. new.clock \in Hlc /\ new.fields \in Fields /\ new.present \in BOOLEAN
    BY <1>10 DEF Change
  <2>2. CASE new.kind = "fields" /\ s = LocalWrite(r, new.target, new.fields, new.clock)
    <3>1. new.target \in Entity
      BY <1>10, <2>2
    <3> QED BY <1>14, <2>1, <2>2, <3>1, LocalWriteParts
  <2>3. CASE new.kind = "delete" /\ s = LocalDelete(r, new.target, new.clock)
    BY <1>14, <2>1, <2>3, LocalDeleteShaped
  <2>4. CASE new.kind = "edge" /\ s = LocalEdge(r, new.target, new.present, new.clock)
    BY <1>14, <2>1, <2>4, LocalEdgeShaped
  <2> QED BY <1>19, <2>2, <2>3, <2>4 DEF Wrote
<1>21. ASSUME Unsaturated', Settled(r, K), new.kind # "delete"
       PROVE  Settled(s, K \cup {new})
  <2>1. \A x \in K : Before(x.clock, new.clock)
    BY <1>10, <1>15, <1>21
  <2>2. CASE new.kind = "fields" /\ s = LocalWrite(r, new.target, new.fields, new.clock)
    BY <1>10, <1>14, <1>21, <2>1, <2>2, LocalWriteSettles
  <2>3. CASE new.kind = "edge" /\ s = LocalEdge(r, new.target, new.present, new.clock)
    BY <1>10, <1>14, <1>21, <2>1, <2>3, LocalEdgeSettles
  <2> QED BY <1>19, <1>21, <2>2, <2>3 DEF Wrote
<1>22. \A o \in Device : rep'[o] = IF o = d THEN s ELSE rep[o]
  BY <1>7 DEF IInv, DataOK, TypeOK
<1>23. RepsShaped'
  BY <1>20, <1>22 DEF CInv, RepsShaped
<1>24. OwnStamps'
  <2>1. \A o \in Device : hlc'[o].device_id = o
    BY <1>7, <1>8 DEF IInv, DataOK, TypeOK, CInv, OwnStamps
  <2>2. ASSUME NEW o \in Device, NEW k \in 1..Len(outbox'[o]) PROVE outbox'[o][k].clock.device_id = o
    BY <1>8, <1>10, <1>13 DEF CInv, OwnStamps
  <2> QED BY <2>1, <2>2 DEF OwnStamps
<1>25. ASSUME Unsaturated' PROVE Ascending'
  <2>1. Ascending /\ \A x \in K : Before(x.clock, clock)
    BY <1>15, <1>25 DEF CInv
  <2> SUFFICES ASSUME NEW o \in Device, NEW k \in 1..Len(outbox'[o])
               PROVE  /\ \A j \in 1..(k - 1) : Before(outbox'[o][j].clock, outbox'[o][k].clock)
                      /\ outbox'[o][k].base # NoClock => Before(outbox'[o][k].base, outbox'[o][k].clock)
    BY DEF Ascending
  <2>2. CASE k \in 1..Len(outbox[o]) /\ outbox'[o][k] = outbox[o][k]
    <3>1. \A j \in 1..(k - 1) : j \in 1..Len(outbox[o])
      BY <1>9, <2>2
    <3> QED BY <1>12, <2>1, <2>2, <3>1 DEF Ascending
  <2>3. CASE o = d /\ k = n + 1 /\ outbox'[o][k] = new
    <3>1. ASSUME NEW j \in 1..n PROVE Before(outbox'[d][j].clock, clock)
      <4>1. outbox[d][j] \in K
        BY <1>4, <1>5, RowKnown DEF Has
      <4> QED BY <1>11, <2>1, <4>1
    <3>2. ASSUME new.base # NoClock PROVE Before(new.base, clock)
      <4>1. PICK e \in Entity : \E f \in Field : new.base = r.clk[e][f]
        BY <1>10, <3>2
      <4>2. PICK f \in Field : new.base = r.clk[e][f]
        BY <4>1
      <4>3. PICK p \in Device : \E m \in 1..Len(outbox[p]) : Has(d, p, m) /\ outbox[p][m].clock = new.base
        BY <1>3, <3>2, <4>2 DEF IInv, DataOK, ClocksKnown
      <4>4. PICK m \in 1..Len(outbox[p]) : Has(d, p, m) /\ outbox[p][m].clock = new.base
        BY <4>3
      <4>5. outbox[p][m] \in K
        BY <1>5, <4>4, RowKnown
      <4> QED BY <2>1, <4>4, <4>5
    <3>3. k - 1 = n
      BY <1>9, <2>3
    <3> QED BY <1>10, <2>3, <3>1, <3>2, <3>3
  <2> QED BY <1>13, <2>2, <2>3
<1>26. ASSUME Unsaturated' PROVE RepsSettled'
  <2> SUFFICES ASSUME NEW q \in Device, NoneDeleted(Knows(q)')
               PROVE  Settled(rep'[q], Knows(q)')
    BY DEF RepsSettled
  <2>1. RepsSettled
    BY <1>15, <1>26 DEF CInv
  <2>2. CASE q # d
    BY <1>18, <1>22, <2>1, <2>2 DEF RepsSettled
  <2>3. CASE q = d
    <3>1. NoneDeleted(K \cup {new})
      BY <1>17, <2>3
    <3>2. NoneDeleted(K) /\ new.kind # "delete"
      BY <3>1 DEF NoneDeleted
    <3>3. Settled(r, K)
      BY <1>3, <1>5, <2>1, <3>2 DEF RepsSettled
    <3>4. Settled(s, K \cup {new})
      BY <1>21, <1>26, <3>2, <3>3
    <3>5. rep'[q] = s /\ Knows(q)' = K \cup {new}
      BY <1>17, <1>22, <2>3
    <3> QED BY <3>4, <3>5
  <2> QED BY <2>2, <2>3
<1>27. RowsFromEdits'
  <2> SUFFICES ASSUME NEW o \in Device, NEW k \in 1..Len(outbox'[o]) PROVE FromEdit(outbox'[o][k])
    BY DEF RowsFromEdits
  <2> QED BY <1>13, <1>19 DEF CInv, RowsFromEdits
<1>28. ASSUME Unsaturated' PROVE RepsHeld'
  <2>1. RepsHeld /\ Ascending /\ \A x \in K : Before(x.clock, clock)
    BY <1>15, <1>28 DEF CInv
  <2>2. HeldBy(r, K, d)
    BY <1>3, <1>5, <2>1 DEF RepsHeld
  <2>3. \A x \in K : x.clock # new.clock
    <3> SUFFICES ASSUME NEW x \in K, x.clock = clock PROVE FALSE
      BY <1>10
    <3>1. Before(clock, clock)
      BY <2>1
    <3> QED BY <1>8, <3>1, StampsTotallyOrdered
  <2>4. Sound(K)
    <3>1. Sound(Emitted)
      BY <2>1, EmittedSound DEF CInv
    <3>2. PICK E : E = Emitted
      OBVIOUS
    <3>3. Sound(E) /\ K \subseteq E
      BY <1>5, <3>1, <3>2 DEF Knows
    <3> QED BY <3>3, SoundBelow
  <2>5. PICK L : L = K \cup {new}
    OBVIOUS
  <2>6. Sound(L)
    <3>1. L \in SUBSET Change
      BY <1>10, <1>14, <2>5
    <3>2. ASSUME NEW x \in L PROVE FromEdit(x) /\ (x.kind # "edge" => x.target \in Entity)
      <4>1. CASE x = new
        BY <1>10, <1>19, <4>1
      <4>2. CASE x \in Knows(d)
        <5>1. x \in Emitted
          BY <4>2 DEF Knows
        <5>2. PICK o \in Device : \E k \in 1..Len(outbox[o]) : outbox[o][k] = x
          BY <5>1, EmittedRow
        <5>3. PICK k \in 1..Len(outbox[o]) : outbox[o][k] = x
          BY <5>2
        <5> QED BY <5>3 DEF CInv, RowsFromEdits, IInv, DataOK, Numbered
      <4> QED BY <1>5, <2>5, <4>1, <4>2
    <3>3. \A x \in L : \A y \in L : x.clock = y.clock => x = y
      BY <2>3, <2>4, <2>5 DEF Sound
    <3> QED BY <3>1, <3>2, <3>3, EditsSound
  <2>7. new \notin K
    BY <2>3
  <2>8. Arrives(r, K, d, new)
    BY <1>14, <1>19, <2>2, <2>5, <2>6, <2>7, EditArrives
  <2>9. \A x \in K : Before(x.clock, new.clock)
    BY <1>10, <2>1
  <2>10. HeldBy(s, K \cup {new}, d)
    BY <1>10, <1>19, <2>8, <2>9, EditHeld
  <2> SUFFICES ASSUME NEW q \in Device PROVE HeldBy(rep'[q], Knows(q)', q)
    BY DEF RepsHeld
  <2>11. CASE q # d
    BY <1>18, <1>22, <2>1, <2>11 DEF RepsHeld
  <2>12. CASE q = d
    BY <1>17, <1>22, <2>10, <2>12
  <2> QED BY <2>11, <2>12
<1> QED BY <1>23, <1>24, <1>25, <1>26, <1>27, <1>28 DEF CInv

LEMMA ApplyKeepsC ==
  ASSUME IInv, CInv, NEW d \in Device, NEW now \in Wall, ApplyEvent(d, now)
  PROVE  CInv'
<1>1. PICK c : c = log[round[d].pos]
  OBVIOUS
<1>2. PICK r : r = rep[d]
  OBVIOUS
<1>3. PICK s : s = ApplyChange(r, c)
  OBVIOUS
<1>4. PICK K : K = Knows(d)
  OBVIOUS
<1>5. PICK h : h = Observe(hlc[d], c.clock, now)
  OBVIOUS
<1>6. /\ round[d].pc = "apply" /\ round[d].pos <= round[d].end
      /\ hlc' = [hlc EXCEPT ![d] = h]
      /\ rep' = [rep EXCEPT ![d] = s]
      /\ applied' = [applied EXCEPT ![d] = applied[d] \cup {c.id}]
      /\ UNCHANGED outbox
  BY <1>1, <1>2, <1>3, <1>5 DEF ApplyEvent, InPage, In, Incoming
<1>7. round[d].pos \in 1..Len(log)
  <2>1. round[d] \in Round /\ PageFits(d, round[d])
    BY DEF IInv, DataOK, TypeOK, RoundsOK
  <2>2. Len(log) \in Nat
    BY LenTypes DEF IInv, DataOK
  <2> QED BY <1>6, <2>1, <2>2 DEF PageFits, Round
<1>8. c \in Change /\ c.clock \in Hlc /\ c.device_id \in Device
  <2>1. c \in Change
    BY <1>1, <1>7, LenTypes DEF IInv, DataOK
  <2> QED BY <2>1 DEF Change
<1>9. PICK o : o = c.device_id
  OBVIOUS
<1>10. PICK m : m = c.id[2]
  OBVIOUS
<1>11. o \in Device /\ m \in 1..Len(outbox[o]) /\ c = outbox[o][m]
  BY <1>1, <1>7, <1>8, <1>9, <1>10 DEF IInv, DataOK, LogSent, SentBy
<1>12. c.id = <<o, m>> /\ (c.kind # "edge" => c.target \in Entity)
  BY <1>11 DEF IInv, DataOK, Numbered
<1>13. h \in Hlc /\ h.device_id = d
  <2>1. now \in Nat /\ hlc[d] \in Hlc /\ hlc[d].device_id = d
    BY EngineAssumption DEF IInv, DataOK, TypeOK, CInv, OwnStamps
  <2> QED BY <1>5, <1>8, <2>1, ObserveDominates
<1>14. K \in SUBSET Change /\ Shaped(r)
  BY <1>2, <1>4, KnowsChanges DEF CInv, RepsShaped
<1>15. Shaped(s)
  BY <1>3, <1>8, <1>12, <1>14, ApplyShaped
<1>16. \A q \in Device : rep'[q] = IF q = d THEN s ELSE rep[q]
  BY <1>6 DEF IInv, DataOK, TypeOK
\* Who knows what.
<1>17. Emitted' = Emitted
  BY <1>6 DEF Emitted
<1>18. c \in Emitted /\ \A x \in Emitted : x.id = c.id => x = c
  <2>1. \A q \in Device : DOMAIN outbox[q] = 1..Len(outbox[q])
    BY LenTypes, LenProperties DEF IInv, DataOK, TypeOK
  <2>2. ASSUME NEW x \in Emitted, x.id = c.id PROVE x = c
    <3>1. PICK q \in Device : x \in {outbox[q][i] : i \in DOMAIN outbox[q]}
      BY DEF Emitted
    <3>2. PICK i \in 1..Len(outbox[q]) : x = outbox[q][i]
      BY <2>1, <3>1
    <3>3. x.id = <<q, i>>
      BY <3>2 DEF IInv, DataOK, Numbered
    <3>4. q = o /\ i = m
      BY <1>12, <2>2, <3>3
    <3> QED BY <1>11, <3>2, <3>4
  <2> QED BY <1>11, <2>1, <2>2 DEF Emitted
<1>19. Knows(d)' = K \cup {c}
  <2>1. applied'[d] = applied[d] \cup {c.id}
    BY <1>6 DEF IInv, DataOK, TypeOK
  <2> QED BY <1>4, <1>17, <1>18, <2>1 DEF Knows
<1>20. ASSUME NEW q \in Device, q # d PROVE Knows(q)' = Knows(q)
  BY <1>6, <1>17, <1>20 DEF Knows
\* What is written.
<1>21. RepsShaped'
  BY <1>15, <1>16 DEF CInv, RepsShaped
<1>22. OwnStamps'
  <2>1. \A q \in Device : hlc'[q].device_id = q
    BY <1>6, <1>13 DEF IInv, DataOK, TypeOK, CInv, OwnStamps
  <2> QED BY <1>6, <2>1 DEF CInv, OwnStamps
<1>23. ASSUME Unsaturated' PROVE Unsaturated /\ Ascending /\ Ascending'
  <2>1. Unsaturated
    BY <1>6, <1>23 DEF Unsaturated
  <2>2. Ascending
    BY <2>1 DEF CInv
  <2> QED BY <1>6, <2>1, <2>2 DEF Ascending
<1>24. ASSUME Unsaturated' PROVE RepsSettled'
  <2> SUFFICES ASSUME NEW q \in Device, NoneDeleted(Knows(q)')
               PROVE  Settled(rep'[q], Knows(q)')
    BY DEF RepsSettled
  <2>1. RepsSettled
    BY <1>23, <1>24 DEF CInv
  <2>2. CASE q # d
    BY <1>16, <1>20, <2>1, <2>2 DEF RepsSettled
  <2>3. CASE q = d
    <3>1. NoneDeleted(K \cup {c})
      BY <1>19, <2>3
    <3>2. NoneDeleted(K) /\ c.kind # "delete"
      BY <3>1 DEF NoneDeleted
    <3>3. Settled(r, K)
      BY <1>2, <1>4, <2>1, <3>2 DEF RepsSettled
    <3>4. c.base # NoClock => Before(c.base, c.clock)
      BY <1>11, <1>23, <1>24 DEF Ascending
    <3>5. Settled(s, K \cup {c})
      BY <1>3, <1>8, <1>12, <1>14, <3>2, <3>3, <3>4, ApplySettles
    <3>6. rep'[q] = s /\ Knows(q)' = K \cup {c}
      BY <1>16, <1>19, <2>3
    <3> QED BY <3>5, <3>6
  <2> QED BY <2>2, <2>3
<1>25. RowsFromEdits'
  BY <1>6 DEF CInv, RowsFromEdits
<1>26. ASSUME Unsaturated' PROVE RepsHeld'
  <2>1. RepsHeld /\ Ascending /\ Unsaturated
    BY <1>23, <1>26 DEF CInv
  <2>2. HeldBy(r, K, d)
    BY <1>2, <1>4, <2>1 DEF RepsHeld
  <2>3. PICK E : E = Emitted
    OBVIOUS
  <2>4. Sound(E) /\ K \subseteq E /\ c \in E
    <3>1. Sound(Emitted)
      BY <2>1, EmittedSound DEF CInv
    <3> QED BY <1>4, <1>18, <2>3, <3>1 DEF Knows
  <2>5. Sound(K \cup {c})
    <3>1. PICK L : L = K \cup {c}
      OBVIOUS
    <3>2. L \in SUBSET E
      BY <2>4, <3>1
    <3> QED BY <2>4, <3>1, <3>2, SoundBelow
  <2>6. c \notin K
    <3>1. c.device_id # d /\ c.id \notin applied[d]
      BY <1>1 DEF ApplyEvent, Skippable, Incoming
    <3> QED BY <1>4, <3>1 DEF Knows
  \* What its author had in front of it, the log has before it.
  <2>7. Grounded(K, c)
    <3> SUFFICES ASSUME c.base # NoClock
                 PROVE  \E v \in K : v.clock = c.base /\ Writes(v, c.target) /\ ProseOf(v) # {}
      BY DEF Grounded
    <3>1. PICK A : A = Knows(o)
      OBVIOUS
    <3>2. PICK a : a = rep[o]
      OBVIOUS
    <3>3. HeldBy(a, A, o)
      BY <1>11, <2>1, <3>1, <3>2 DEF RepsHeld
    <3>4. c \in A /\ A \subseteq Emitted
      BY <1>9, <1>18, <3>1 DEF Knows
    <3>5. Grounded(A, c)
      BY <3>3, <3>4 DEF HeldBy, BasesKnown
    <3>6. PICK v \in A : v.clock = c.base /\ Writes(v, c.target) /\ ProseOf(v) # {}
      BY <3>5 DEF Grounded
    <3>7. PICK j \in 1..(round[d].pos - 1) : log[j].clock = c.base
      BY <1>1, <1>7 DEF IInv, DataOK, LogBased
    <3>8. Passed(d, j) /\ j \in 1..Len(log)
      <4>1. round[d] \in Round /\ PageFits(d, round[d])
        BY DEF IInv, DataOK, TypeOK, RoundsOK
      <4>2. Passed(d, j)
        BY <1>6, <4>1 DEF PageFits
      <4>3. Len(log) \in Nat /\ round[d].pos \in 1..Len(log)
        BY <1>7, LenTypes DEF IInv, DataOK
      <4> QED BY <4>2, <4>3
    <3>9. log[j] \in Emitted
      <4>1. log[j] \in Change
        BY <3>8, LenTypes DEF IInv, DataOK
      <4>2. SentBy(log[j].device_id, log[j]) /\ log[j].device_id \in Device
        BY <3>8, <4>1 DEF IInv, DataOK, LogSent, Change
      <4>3. DOMAIN outbox[log[j].device_id] = 1..Len(outbox[log[j].device_id])
        BY <4>2, LenTypes, LenProperties DEF IInv, DataOK
      <4> QED BY <4>2, <4>3 DEF SentBy, Emitted
    <3>10. log[j] \in K
      BY <1>4, <3>8, <3>9 DEF Passed, Knows
    <3>11. v = log[j]
      BY <2>3, <2>4, <3>4, <3>6, <3>7, <3>9 DEF Sound
    <3> QED BY <3>6, <3>10, <3>11
  <2>8. Arrives(r, K, d, c)
    BY <1>14, <2>2, <2>5, <2>6, <2>7 DEF Arrives
  <2>9. c.base # NoClock => Before(c.base, c.clock)
    BY <1>11, <2>1 DEF Ascending
  <2>10. HeldBy(s, K \cup {c}, d)
    BY <1>3, <1>12, <2>8, <2>9, ApplyHeld
  <2> SUFFICES ASSUME NEW q \in Device PROVE HeldBy(rep'[q], Knows(q)', q)
    BY DEF RepsHeld
  <2>11. CASE q # d
    BY <1>16, <1>20, <2>1, <2>11 DEF RepsHeld
  <2>12. CASE q = d
    BY <1>16, <1>19, <2>10, <2>12
  <2> QED BY <2>11, <2>12
<1> QED BY <1>21, <1>22, <1>23, <1>24, <1>25, <1>26 DEF CInv

LEMMA NextKeepsC == IInv /\ CInv /\ [Next]_vars => CInv'
<1> SUFFICES ASSUME IInv, CInv, [Next]_vars PROVE CInv'
  OBVIOUS
<1>1. ASSUME NEW d \in Device, NEW edit \in Edits, NEW now \in Wall, EmitChange(d, edit, now)
      PROVE  CInv'
  BY <1>1, EmitKeepsC
<1>2. ASSUME NEW d \in Device, NEW now \in Wall, ApplyEvent(d, now) PROVE CInv'
  BY <1>2, ApplyKeepsC
<1>3. ASSUME NEW d \in Device, SyncStep(d) PROVE CInv'
  <2>1. CASE \E now \in Wall : ApplyEvent(d, now)
    BY <1>2, <2>1
  <2>2. CASE UNCHANGED <<hlc, rep, outbox, applied>>
    BY <2>2, UnchangedKeepsC
  <2>3. (\E now \in Wall : ApplyEvent(d, now)) \/ UNCHANGED <<hlc, rep, outbox, applied>>
    BY <1>3 DEF SyncStep, Push, Pull, StartSync, ReadPending, PushDone, UploadBlob, SendBatch,
                AckRow, AckDone, FetchPage, PullDone, SkipEvent, FetchBlob,
                RejectSigner, RejectEvent, AdvanceCursor, VerifyUpload, db
  <2> QED BY <2>1, <2>2, <2>3
<1>4. ASSUME NEW d \in Device,
             Enroll(d) \/ Restart(d) \/ SendTruncated(d) \/ LoseReply(d) \/ Crash(d)
      PROVE  CInv'
  <2>1. UNCHANGED <<hlc, rep, outbox, applied>>
    BY <1>4 DEF Enroll, Restart, SendTruncated, LoseReply, Crash, db
  <2> QED BY <2>1, UnchangedKeepsC
<1>5. CASE UNCHANGED vars
  <2>1. UNCHANGED <<hlc, rep, outbox, applied>>
    BY <1>5 DEF vars, db
  <2> QED BY <2>1, UnchangedKeepsC
<1>6. CASE Next
  BY <1>1, <1>3, <1>4, <1>6 DEF Next
<1> QED BY <1>5, <1>6

-----------------------------------------------------------------------------
(* Convergence. *)

LEMMA SettledConverge == IInv /\ CInv /\ Unsaturated => Convergence
<1> SUFFICES ASSUME IInv, CInv, Unsaturated,
                    NEW d \in Device, NEW o \in Device,
                    Knows(d) = Knows(o), \A c \in Knows(d) : c.kind # "delete"
             PROVE  /\ rep[d].row = rep[o].row
                    /\ rep[d].val = rep[o].val
                    /\ rep[d].member = rep[o].member
  BY DEF Convergence
<1>1. PICK K : K = Knows(d)
  OBVIOUS
<1>2. PICK r : r = rep[d]
  OBVIOUS
<1>3. PICK s : s = rep[o]
  OBVIOUS
<1>4. K \in SUBSET Change /\ NoneDeleted(K)
  BY <1>1, KnowsChanges DEF NoneDeleted
<1>5. Shaped(r) /\ Shaped(s) /\ Settled(r, K) /\ Settled(s, K)
  BY <1>1, <1>2, <1>3, <1>4 DEF CInv, RepsShaped, RepsSettled
<1>6. \A x \in K : \A y \in K : x.clock = y.clock => x = y
  <2>1. K \subseteq Emitted
    BY <1>1 DEF Knows
  <2> QED BY <2>1, StampsDistinct DEF CInv
<1>7. r.row = s.row /\ r.val = s.val /\ r.member = s.member
  BY <1>4, <1>5, <1>6, SettledAgree
<1> QED BY <1>2, <1>3, <1>7

\* apply_change with merge_lww, merge_conflict_copy and merge_set_member: whatever order the log
\* interleaves the devices' changes in, and wherever their rounds were cut short, devices that
\* know the same changes, none of them a delete, show the same rows, values and tags, until a
\* counter has run into its maximum.
THEOREM ReplicasConverge == Spec => [](Unsaturated => Convergence)
<1>1. Init => IInv /\ CInv
  BY InitIInv, InitCInv
<1>2. (IInv /\ CInv) /\ [Next]_vars => (IInv /\ CInv)'
  BY NextKeepsIInv, NextKeepsC
<1>3. IInv /\ CInv => (Unsaturated => Convergence)
  BY SettledConverge
<1> QED BY <1>1, <1>2, <1>3, PTL DEF Spec

-----------------------------------------------------------------------------
(* No prose is lost silently. *)

LEMMA HeldIsKept ==
  ASSUME NEW d \in Device, NEW r, r = rep[d], NEW K, K = Knows(d), Sound(K), HeldBy(r, K, d)
  PROVE  /\ \A c \in K : \A f \in ProseOf(c) : Kept(d, c, f) \/ Undermined(d, c)
         /\ \A x \in DOMAIN r.inbox : r.inbox[x] = 1 \/ DeletedTwice(d, x.entity)
<1>1. ASSUME NEW e PROVE Deletes(d, e) = Deleted(K, e) /\ (DeletedTwice(d, e) <=> Twice(K, e))
  BY DEF Deletes, Deleted, DeletedTwice, Twice
<1>2. ASSUME NEW c \in K, NEW f \in ProseOf(c) PROVE Kept(d, c, f) \/ Undermined(d, c)
  <2>1. c.target \in Entity
    <3>1. f \in DOMAIN c.fields
      BY DEF ProseOf
    <3>2. c.kind = "fields"
      BY <3>1 DEF Sound
    <3> QED BY <3>2 DEF Sound
  <2>2. CASE Deleted(K, Parent[c.target]) # {}
    BY <1>1, <2>2 DEF Undermined
  <2>3. CASE Deleted(K, Parent[c.target]) = {}
    <3>1. EntityHeld(r, K, d, c.target)
      BY <2>1 DEF HeldBy
    <3>2. ProseHeld(r, K, d, c.target)
      BY <2>3, <3>1 DEF EntityHeld
    <3>3. Held(r, K, d, c, f)
      BY <3>2 DEF ProseHeld
    <3>4. Boxed(r, c, f) => Kept(d, c, f)
      BY DEF Boxed, Kept, InInbox, BagToSet
    <3>5. Superseded(K, c, f) => Kept(d, c, f)
      BY DEF Superseded, Supersedes, Kept, Replaced
    <3>6. Owned(r, K, c, f) => Kept(d, c, f)
      BY DEF Owned, Kept, Live
    <3>7. Rewritten(K, d, c) /\ Twice(K, c.target) => Undermined(d, c)
      BY <1>1 DEF Rewritten, Undermined
    <3> QED BY <3>3, <3>4, <3>5, <3>6, <3>7 DEF Held
  <2> QED BY <2>2, <2>3
<1>3. ASSUME NEW x \in DOMAIN r.inbox PROVE r.inbox[x] = 1 \/ DeletedTwice(d, x.entity)
  BY <1>1 DEF HeldBy, InboxFrom
<1> QED BY <1>2, <1>3

LEMMA HeldIsSafe == IInv /\ CInv /\ Unsaturated => ProseSafe
<1> SUFFICES ASSUME IInv, CInv, Unsaturated, NEW d \in Device
             PROVE  /\ \A c \in Knows(d) : \A f \in DOMAIN c.fields \cap ProseField :
                         Kept(d, c, f) \/ Undermined(d, c)
                    /\ \A x \in BagToSet(rep[d].inbox) :
                         rep[d].inbox[x] = 1 \/ DeletedTwice(d, x.entity)
  BY DEF ProseSafe
<1>1. PICK K : K = Knows(d)
  OBVIOUS
<1>2. PICK r : r = rep[d]
  OBVIOUS
<1>3. HeldBy(r, K, d)
  BY <1>1, <1>2 DEF CInv, RepsHeld
<1>4. Sound(K)
  <2>1. Sound(Emitted)
    BY EmittedSound DEF CInv
  <2>2. PICK E : E = Emitted
    OBVIOUS
  <2>3. Sound(E) /\ K \subseteq E
    BY <1>1, <2>1, <2>2 DEF Knows
  <2> QED BY <2>3, SoundBelow
<1>5. /\ \A c \in K : \A f \in ProseOf(c) : Kept(d, c, f) \/ Undermined(d, c)
      /\ \A x \in DOMAIN r.inbox : r.inbox[x] = 1 \/ DeletedTwice(d, x.entity)
  BY <1>1, <1>2, <1>3, <1>4, HeldIsKept
<1> QED BY <1>1, <1>2, <1>5 DEF ProseOf, BagToSet

\* merge_conflict_copy, preserve_unobserved_prose and the inbox: in every run, whatever the
\* devices edit, delete and merge in whatever order, authored text that a device knows of is
\* live, in its inbox or replaced by someone who had it in front of them, except where
\* Undermined says, and pull puts nothing into the inbox twice, until a counter has run into its
\* maximum.
THEOREM ProseIsSafe == Spec => [](Unsaturated => ProseSafe)
<1>1. Init => IInv /\ CInv
  BY InitIInv, InitCInv
<1>2. (IInv /\ CInv) /\ [Next]_vars => (IInv /\ CInv)'
  BY NextKeepsIInv, NextKeepsC
<1>3. IInv /\ CInv => (Unsaturated => ProseSafe)
  BY HeldIsSafe
<1> QED BY <1>1, <1>2, <1>3, PTL DEF Spec
=============================================================================
