-------------------------- MODULE SyncEngineProofs --------------------------
(***************************************************************************)
(* The safety of the sync engine, for every set of devices, every batch    *)
(* size, every choice of edits and any number of crashes and lost replies, *)
(* after the stamps and the merge it rests on.                             *)
(***************************************************************************)
EXTENDS SyncEngine, PositionProofs

-----------------------------------------------------------------------------
(* The stamps of hlc.rs and the last-writer-wins merge of merge.rs. *)

\* The parts of a stamp.
LEMMA StampParts ==
  ASSUME NEW a \in Hlc
  PROVE  /\ a.wall_millis \in Nat
         /\ a.counter \in Nat /\ a.counter <= MaxCounter
         /\ a.device_id \in Device /\ a.device_id \in Nat
<1>1. a.wall_millis \in Nat /\ a.counter \in 0..MaxCounter /\ a.device_id \in Device
  BY DEF Hlc
<1>2. Device \subseteq Nat /\ MaxCounter \in Nat
  BY HlcAssumption
<1>3. a.counter \in Nat /\ a.counter <= MaxCounter
  BY <1>1, <1>2
<1>4. a.device_id \in Nat
  BY <1>1, <1>2
<1> QED BY <1>1, <1>3, <1>4

\* A stamp is determined by its parts.
LEMMA StampsEqual ==
  ASSUME NEW a \in Hlc, NEW b \in Hlc, a.wall_millis = b.wall_millis,
         a.counter = b.counter, a.device_id = b.device_id
  PROVE  a = b
BY DEF Hlc

\* Ord for Hlc is a strict total order: with distinct stamps exactly one of two
\* writes wins, and winning is transitive.
THEOREM StampsTotallyOrdered ==
  /\ \A a \in Hlc : ~Before(a, a)
  /\ \A a, b, c \in Hlc : Before(a, b) /\ Before(b, c) => Before(a, c)
  /\ \A a, b \in Hlc : a = b \/ Before(a, b) \/ Before(b, a)
<1>1. ASSUME NEW a \in Hlc PROVE ~Before(a, a)
  BY StampParts DEF Before
<1>2. ASSUME NEW a \in Hlc, NEW b \in Hlc, NEW c \in Hlc, Before(a, b), Before(b, c)
      PROVE  Before(a, c)
  BY <1>2, StampParts DEF Before
<1>3. ASSUME NEW a \in Hlc, NEW b \in Hlc, ~Before(a, b), ~Before(b, a) PROVE a = b
  <2>1. /\ a.wall_millis = b.wall_millis
        /\ a.counter = b.counter
        /\ a.device_id = b.device_id
    BY <1>3, StampParts DEF Before
  <2> QED BY <2>1, StampsEqual
<1> QED BY <1>1, <1>2, <1>3

\* Incrementing a counter keeps it in range, and raises it if it has room.
LEMMA IncInRange ==
  ASSUME NEW n \in Nat, n <= MaxCounter
  PROVE  /\ SaturatingInc(n) \in 0..MaxCounter
         /\ n < MaxCounter => n < SaturatingInc(n)
BY HlcAssumption DEF SaturatingInc

\* Tick stays a stamp of its device, and is later than the clock it advances as
\* long as the counter has room.
THEOREM TickAdvances ==
  ASSUME NEW h \in Hlc, NEW now \in Nat
  PROVE  /\ Tick(h, now) \in Hlc
         /\ Tick(h, now).device_id = h.device_id
         /\ h.counter < MaxCounter \/ now > h.wall_millis => Before(h, Tick(h, now))
<1>1. h.wall_millis \in Nat /\ h.counter \in Nat /\ h.counter <= MaxCounter
  BY StampParts
<1>2. CASE now > h.wall_millis
  <2>1. Tick(h, now) = [h EXCEPT !.wall_millis = now, !.counter = 0]
    BY <1>2 DEF Tick
  <2>2. 0 \in 0..MaxCounter
    BY HlcAssumption
  <2>3. /\ Tick(h, now) \in Hlc /\ Tick(h, now).device_id = h.device_id
        /\ Tick(h, now).wall_millis = now
    BY <2>1, <2>2 DEF Hlc
  <2> QED BY <1>1, <1>2, <2>3 DEF Before
<1>3. CASE ~(now > h.wall_millis)
  <2>1. Tick(h, now) = [h EXCEPT !.wall_millis = h.wall_millis,
                                 !.counter = SaturatingInc(h.counter)]
    BY <1>3 DEF Tick, Hlc
  <2>2. /\ SaturatingInc(h.counter) \in 0..MaxCounter
        /\ h.counter < MaxCounter => h.counter < SaturatingInc(h.counter)
    BY <1>1, IncInRange
  <2>3. /\ Tick(h, now) \in Hlc /\ Tick(h, now).device_id = h.device_id
        /\ Tick(h, now).wall_millis = h.wall_millis
        /\ Tick(h, now).counter = SaturatingInc(h.counter)
    BY <1>1, <2>1, <2>2 DEF Hlc
  <2> QED BY <1>1, <1>3, <2>2, <2>3 DEF Before
<1> QED BY <1>2, <1>3

\* Observe is later than both the local clock and the remote stamp as long as
\* both counters have room: the next local change wins over what was received.
THEOREM ObserveDominates ==
  ASSUME NEW h \in Hlc, NEW remote \in Hlc, NEW now \in Nat
  PROVE  /\ Observe(h, remote, now) \in Hlc
         /\ Observe(h, remote, now).device_id = h.device_id
         /\ h.counter < MaxCounter /\ remote.counter < MaxCounter =>
              Before(h, Observe(h, remote, now)) /\ Before(remote, Observe(h, remote, now))
<1> DEFINE wall == Greatest(Greatest(h.wall_millis, remote.wall_millis), now)
           most == Greatest(h.counter, remote.counter)
           o == Observe(h, remote, now)
           Stamp(n) == [h EXCEPT !.wall_millis = wall, !.counter = n]
<1>1. /\ h.wall_millis \in Nat /\ h.counter \in Nat /\ h.counter <= MaxCounter
      /\ remote.wall_millis \in Nat /\ remote.counter \in Nat
      /\ remote.counter <= MaxCounter
  BY StampParts
<1>2. wall \in Nat /\ wall >= h.wall_millis /\ wall >= remote.wall_millis
  BY <1>1 DEF Greatest
<1>3. /\ most \in Nat /\ most <= MaxCounter
      /\ most >= h.counter /\ most >= remote.counter
      /\ most = h.counter \/ most = remote.counter
  BY <1>1 DEF Greatest
<1>4. 0 \in 0..MaxCounter
  BY HlcAssumption
<1>5. ASSUME NEW n \in 0..MaxCounter, o = Stamp(n)
      PROVE  /\ o \in Hlc /\ o.device_id = h.device_id
             /\ o.wall_millis = wall /\ o.counter = n
  <2> HIDE DEF wall, o
  <2> QED BY <1>2, <1>5 DEF Hlc
<1>6. CASE wall = h.wall_millis /\ wall = remote.wall_millis
  <2>1. o = Stamp(SaturatingInc(most))
    BY <1>6 DEF Observe
  <2> HIDE DEF wall, most, o
  <2>2. /\ SaturatingInc(most) \in 0..MaxCounter
        /\ most < MaxCounter => most < SaturatingInc(most)
    BY <1>3, IncInRange
  <2>3. /\ o \in Hlc /\ o.device_id = h.device_id
        /\ o.wall_millis = wall /\ o.counter = SaturatingInc(most)
    BY <1>5, <2>1, <2>2
  <2>4. h.counter < MaxCounter /\ remote.counter < MaxCounter =>
          Before(h, o) /\ Before(remote, o)
    BY <1>1, <1>3, <1>6, <2>2, <2>3 DEF Before
  <2> QED BY <2>3, <2>4 DEF o
<1>7. CASE wall = h.wall_millis /\ wall # remote.wall_millis
  <2>1. o = Stamp(SaturatingInc(h.counter))
    BY <1>7 DEF Observe
  <2> HIDE DEF wall, o
  <2>2. /\ SaturatingInc(h.counter) \in 0..MaxCounter
        /\ h.counter < MaxCounter => h.counter < SaturatingInc(h.counter)
    BY <1>1, IncInRange
  <2>3. /\ o \in Hlc /\ o.device_id = h.device_id
        /\ o.wall_millis = wall /\ o.counter = SaturatingInc(h.counter)
    BY <1>5, <2>1, <2>2
  <2>4. h.counter < MaxCounter => Before(h, o) /\ Before(remote, o)
    BY <1>1, <1>2, <1>7, <2>2, <2>3 DEF Before
  <2> QED BY <2>3, <2>4 DEF o
<1>8. CASE wall # h.wall_millis /\ wall = remote.wall_millis
  <2>1. o = Stamp(SaturatingInc(remote.counter))
    BY <1>8 DEF Observe
  <2> HIDE DEF wall, o
  <2>2. /\ SaturatingInc(remote.counter) \in 0..MaxCounter
        /\ remote.counter < MaxCounter => remote.counter < SaturatingInc(remote.counter)
    BY <1>1, IncInRange
  <2>3. /\ o \in Hlc /\ o.device_id = h.device_id
        /\ o.wall_millis = wall /\ o.counter = SaturatingInc(remote.counter)
    BY <1>5, <2>1, <2>2
  <2>4. remote.counter < MaxCounter => Before(h, o) /\ Before(remote, o)
    BY <1>1, <1>2, <1>8, <2>2, <2>3 DEF Before
  <2> QED BY <2>3, <2>4 DEF o
<1>9. CASE wall # h.wall_millis /\ wall # remote.wall_millis
  <2>1. o = Stamp(0)
    BY <1>9 DEF Observe
  <2> HIDE DEF wall, o
  <2>2. o \in Hlc /\ o.device_id = h.device_id /\ o.wall_millis = wall
    BY <1>4, <1>5, <2>1
  <2>3. Before(h, o) /\ Before(remote, o)
    BY <1>1, <1>2, <1>9, <2>2 DEF Before
  <2> QED BY <2>2, <2>3 DEF o
<1> QED BY <1>6, <1>7, <1>8, <1>9

\* A field as merge_lww leaves it.
LwwResult(cell, v, c) ==
  LET m == MergeLww(cell[1], cell[2], v, c, NoClock)
  IN IF m.decision = "take" THEN <<m.value, m.clock>> ELSE cell

\* Two differently stamped writes leave a last-writer-wins field the same in
\* whichever order they arrive.
THEOREM LwwCommutes ==
  ASSUME NEW cell, cell = <<cell[1], cell[2]>>, cell[2] \in OptionHlc,
         NEW v, NEW c \in Hlc, NEW w, NEW k \in Hlc, c # k
  PROVE  LwwResult(LwwResult(cell, v, c), w, k) = LwwResult(LwwResult(cell, w, k), v, c)
<1>1. c # NoClock /\ k # NoClock
  BY StampParts DEF NoClock
<1>2. ASSUME NEW z, NEW y, NEW r, NEW x
      PROVE  LwwResult(<<z, y>>, r, x) =
               IF y = NoClock \/ Before(y, x) THEN <<r, x>> ELSE <<z, y>>
  BY DEF LwwResult, MergeLww, TakeIncoming, KeepLocal
<1>3. PICK p, q : cell = <<p, q>> /\ q \in OptionHlc
  OBVIOUS
<1>4. Before(c, k) \/ Before(k, c)
  BY StampsTotallyOrdered
<1>5. ~(Before(c, k) /\ Before(k, c))
  BY StampsTotallyOrdered
<1>6. CASE q = NoClock
  <2>1. LwwResult(cell, v, c) = <<v, c>> /\ LwwResult(cell, w, k) = <<w, k>>
    <3>1. /\ LwwResult(<<p, q>>, v, c) =
               IF q = NoClock \/ Before(q, c) THEN <<v, c>> ELSE <<p, q>>
          /\ LwwResult(<<p, q>>, w, k) =
               IF q = NoClock \/ Before(q, k) THEN <<w, k>> ELSE <<p, q>>
      BY <1>2
    <3> QED BY <1>3, <1>6, <3>1
  <2>2. /\ LwwResult(<<v, c>>, w, k) = IF Before(c, k) THEN <<w, k>> ELSE <<v, c>>
        /\ LwwResult(<<w, k>>, v, c) = IF Before(k, c) THEN <<v, c>> ELSE <<w, k>>
    BY <1>1, <1>2
  <2> QED BY <1>4, <1>5, <2>1, <2>2
<1>7. CASE q \in Hlc
  <2>1. q # NoClock
    BY <1>7, StampParts DEF NoClock
  <2>2. /\ Before(q, c) /\ Before(c, k) => Before(q, k)
        /\ Before(q, k) /\ Before(k, c) => Before(q, c)
    BY <1>7, StampsTotallyOrdered
  <2>3. /\ LwwResult(cell, v, c) = IF Before(q, c) THEN <<v, c>> ELSE <<p, q>>
        /\ LwwResult(cell, w, k) = IF Before(q, k) THEN <<w, k>> ELSE <<p, q>>
        /\ LwwResult(<<p, q>>, v, c) = IF Before(q, c) THEN <<v, c>> ELSE <<p, q>>
        /\ LwwResult(<<p, q>>, w, k) = IF Before(q, k) THEN <<w, k>> ELSE <<p, q>>
    BY <1>2, <1>3, <2>1
  <2>4. /\ LwwResult(<<v, c>>, w, k) = IF Before(c, k) THEN <<w, k>> ELSE <<v, c>>
        /\ LwwResult(<<w, k>>, v, c) = IF Before(k, c) THEN <<v, c>> ELSE <<w, k>>
    BY <1>1, <1>2
  <2>5. CASE Before(q, c) /\ Before(q, k)
    BY <1>4, <1>5, <2>3, <2>4, <2>5
  <2>6. CASE ~Before(q, c) /\ Before(q, k)
    BY <1>4, <1>5, <2>2, <2>3, <2>4, <2>6
  <2>7. CASE Before(q, c) /\ ~Before(q, k)
    BY <1>4, <1>5, <2>2, <2>3, <2>4, <2>7
  <2>8. CASE ~Before(q, c) /\ ~Before(q, k)
    BY <2>3, <2>8
  <2> QED BY <2>5, <2>6, <2>7, <2>8
<1> QED BY <1>3, <1>6, <1>7 DEF OptionHlc

\* The clocks of a membership edge.
SetMember == [add_clock : OptionHlc, remove_clock : OptionHlc]

\* The greater of two stamps does not depend on which was there first, and seeing
\* one twice changes nothing.
LEMMA LaterCommutes ==
  ASSUME NEW s \in OptionHlc, NEW c \in Hlc, NEW k \in Hlc
  PROVE  /\ Later(s, c) \in Hlc
         /\ Later(Later(s, c), k) = Later(Later(s, k), c)
         /\ Later(Later(s, c), c) = Later(s, c)
<1>1. \A x \in Hlc : x # NoClock
  BY StampParts DEF NoClock
<1>2. \A x, y \in Hlc : Later(x, y) = IF AtMost(y, x) THEN x ELSE y
  BY <1>1 DEF Later
<1>3. \A y \in Hlc : Later(NoClock, y) = y
  BY DEF Later
<1>4. /\ \A x, y \in Hlc : AtMost(x, y) \/ AtMost(y, x)
      /\ \A x, y \in Hlc : AtMost(x, y) /\ AtMost(y, x) => x = y
      /\ \A x, y, z \in Hlc : AtMost(x, y) /\ AtMost(y, z) => AtMost(x, z)
  BY StampsTotallyOrdered DEF AtMost
<1>5. CASE s = NoClock
  BY <1>2, <1>3, <1>4, <1>5
<1>6. CASE s \in Hlc
  BY <1>2, <1>4, <1>6
<1> QED BY <1>5, <1>6 DEF OptionHlc

\* merge_set_member commutes and is idempotent: the adds and removes of a member
\* leave the same edge in whichever order, and however often, they arrive.
THEOREM SetMembersCommute ==
  ASSUME NEW m \in SetMember, NEW p \in BOOLEAN, NEW c \in Hlc, NEW q \in BOOLEAN, NEW k \in Hlc
  PROVE  /\ MergeSetMember(MergeSetMember(m, p, c), q, k)
              = MergeSetMember(MergeSetMember(m, q, k), p, c)
         /\ MergeSetMember(MergeSetMember(m, p, c), p, c) = MergeSetMember(m, p, c)
<1> DEFINE Member(a, r) == [add_clock |-> a, remove_clock |-> r]
           Add(n, x) == MergeSetMember(n, TRUE, x)
           Remove(n, x) == MergeSetMember(n, FALSE, x)
<1>1. PICK a \in OptionHlc, r \in OptionHlc : m = Member(a, r)
  BY DEF SetMember
<1>2. \A b, s, x : Add(Member(b, s), x) = Member(Later(b, x), s)
  BY DEF MergeSetMember
<1>3. \A b, s, x : Remove(Member(b, s), x) = Member(b, Later(s, x))
  BY DEF MergeSetMember
<1>4. /\ Later(Later(a, c), k) = Later(Later(a, k), c) /\ Later(Later(a, c), c) = Later(a, c)
      /\ Later(Later(r, c), k) = Later(Later(r, k), c) /\ Later(Later(r, c), c) = Later(r, c)
  BY <1>1, LaterCommutes
<1>5. /\ Add(Add(m, c), k) = Add(Add(m, k), c) /\ Add(Add(m, c), c) = Add(m, c)
      /\ Remove(Remove(m, c), k) = Remove(Remove(m, k), c)
      /\ Remove(Remove(m, c), c) = Remove(m, c)
  <2> HIDE DEF Member, Add, Remove
  <2> QED BY <1>1, <1>2, <1>3, <1>4, SMT
<1>6. /\ Remove(Add(m, c), k) = Add(Remove(m, k), c)
      /\ Add(Remove(m, c), k) = Remove(Add(m, k), c)
  <2> HIDE DEF Member, Add, Remove
  <2> QED BY <1>1, <1>2, <1>3, SMT
<1>7. p \in {TRUE, FALSE} /\ q \in {TRUE, FALSE}
  OBVIOUS
<1> QED BY <1>5, <1>6, <1>7, Zenon

-----------------------------------------------------------------------------
(* The types of the engine's state. *)

ChangeId == Device \X Nat
Change ==
  [id : ChangeId, device_id : Device, refs : SUBSET Blob,
   kind : {"fields", "delete", "edge"}, target : Entity \cup Edge, clock : Hlc,
   base : OptionHlc, fields : Fields, present : BOOLEAN]

-----------------------------------------------------------------------------
(* The clocks of a replica. *)

\* A database with a clock, or none, for every field of every row.
Clocked(r) == "clk" \in DOMAIN r /\ r.clk \in [Entity -> [Field -> OptionHlc]]

\* s has the clocks of r, or c in their place.
Restamped(s, r, c) ==
  /\ Clocked(s)
  /\ \A e \in Entity, f \in Field : s.clk[e][f] = r.clk[e][f] \/ s.clk[e][f] = c

LEMMA FieldsAreFields ==
  ASSUME NEW fs \in Fields
  PROVE  DOMAIN fs \subseteq Field
BY DEF Fields

LEMMA EmptyClocked == Clocked(EmptyReplica)
BY DEF Clocked, EmptyReplica, OptionHlc

LEMMA UpsertClocked ==
  ASSUME NEW r, Clocked(r), NEW e, NEW fs
  PROVE  UpsertSingle(r, e, fs).clk = r.clk /\ Clocked(UpsertSingle(r, e, fs))
BY DEF UpsertSingle, Clocked

LEMMA DeleteClocked ==
  ASSUME NEW r, Clocked(r), NEW e
  PROVE  DeleteRow(r, e).clk = r.clk /\ Clocked(DeleteRow(r, e))
BY DEF DeleteRow, Clocked

LEMMA RestampedRow ==
  ASSUME NEW r, Clocked(r), NEW e \in Entity, NEW c, NEW g \in [Field -> OptionHlc],
         \A f \in Field : g[f] = r.clk[e][f] \/ g[f] = c,
         NEW s, "clk" \in DOMAIN s, s.clk = [r.clk EXCEPT ![e] = g]
  PROVE  Restamped(s, r, c)
BY DEF Restamped, Clocked

\* A tracked write stamps what it writes with its own clock, and nothing else.
LEMMA LocalWriteRestamps ==
  ASSUME NEW r, Clocked(r), NEW e \in Entity, NEW fs, NEW c \in Hlc
  PROVE  Restamped(LocalWrite(r, e, fs, c), r, c)
<1> DEFINE u == UpsertSingle(r, e, fs)
           s == LocalWrite(r, e, fs, c)
<1>1. u.clk = r.clk /\ Clocked(u)
  BY UpsertClocked
<1> HIDE DEF u
<1>2. s.clk = [r.clk EXCEPT ![e] = [f \in Field |-> IF f \in DOMAIN fs THEN c ELSE r.clk[e][f]]]
  BY <1>1 DEF LocalWrite, u, Clocked
<1>3. "clk" \in DOMAIN s
  BY <1>1 DEF LocalWrite, u, Clocked
<1> DEFINE g == [f \in Field |-> IF f \in DOMAIN fs THEN c ELSE r.clk[e][f]]
<1>4. \A f \in Field : r.clk[e][f] \in OptionHlc
  BY DEF Clocked
<1>5. g \in [Field -> OptionHlc]
  BY <1>4 DEF OptionHlc
<1>6. \A f \in Field : g[f] = r.clk[e][f] \/ g[f] = c
  OBVIOUS
<1>7. s.clk = [r.clk EXCEPT ![e] = g]
  BY <1>2
<1>8. Restamped(s, r, c)
  <2> HIDE DEF s, g
  <2> QED BY <1>3, <1>5, <1>6, <1>7, RestampedRow
<1> QED BY <1>8

LEMMA LocalDeleteRestamps ==
  ASSUME NEW r, Clocked(r), NEW e, NEW c
  PROVE  Restamped(LocalDelete(r, e, c), r, c)
<1>1. DeleteRow(r, e).clk = r.clk /\ Clocked(DeleteRow(r, e))
  BY DeleteClocked
<1> QED BY <1>1 DEF LocalDelete, Restamped, Clocked

LEMMA LocalEdgeRestamps ==
  ASSUME NEW r, Clocked(r), NEW g, NEW p, NEW c
  PROVE  Restamped(LocalEdge(r, g, p, c), r, c)
BY DEF LocalEdge, SetMembership, Restamped, Clocked

\* A merge that writes leaves the incoming stamp or the local one.
LEMMA MergeStamps ==
  ASSUME NEW r, NEW c, NEW f, MergeField(r, c, f).decision # "keep"
  PROVE  \/ MergeField(r, c, f).clock = c.clock
         \/ MergeField(r, c, f).clock = r.clk[c.target][f]
<1> DEFINE lval == r.val[c.target][f]
           lclock == LocalClock(r, c, f)
           ival == c.fields[f]
<1>1. CASE f \in ProseField
  <2> DEFINE m == MergeConflictCopy(lval, lclock, ival, c.clock, c.base)
  <2>1. MergeField(r, c, f) = m
    BY <1>1 DEF MergeField
  <2>2. lclock # NoClock => lclock = r.clk[c.target][f]
    BY DEF LocalClock
  <2> HIDE DEF lval, lclock, ival
  <2>3. m.decision # "keep" => m.clock = c.clock \/ (lclock # NoClock /\ m.clock = lclock)
    BY DEF MergeConflictCopy, TakeIncoming, KeepLocal, ConflictCopy
  <2> QED BY <2>1, <2>2, <2>3
<1>2. CASE f \notin ProseField
  <2>1. MergeField(r, c, f) = MergeLww(lval, lclock, ival, c.clock, c.base)
    BY <1>2 DEF MergeField
  <2> HIDE DEF lval, lclock, ival
  <2> QED BY <2>1 DEF MergeLww, TakeIncoming, KeepLocal
<1> QED BY <1>1, <1>2

LEMMA ApplyFieldsRestamps ==
  ASSUME NEW r, Clocked(r), NEW c \in Change, c.target \in Entity
  PROVE  Restamped(ApplyFields(r, c), r, c.clock)
<1> DEFINE e == c.target
           merge == [f \in Mergeable(r, c) |-> MergeField(r, c, f)]
           written == {f \in DOMAIN merge : merge[f].decision # "keep"}
           s == ApplyFields(r, c)
<1>1. "clk" \in DOMAIN s
  BY DEF ApplyFields, Clocked
<1>2. s.clk = [r.clk EXCEPT ![e] = [f \in Field |-> IF f \in written THEN merge[f].clock ELSE r.clk[e][f]]]
  BY DEF ApplyFields, Clocked
<1>3. \A f \in written : merge[f].clock = c.clock \/ merge[f].clock = r.clk[e][f]
  <2> SUFFICES ASSUME NEW f \in written
               PROVE  merge[f].clock = c.clock \/ merge[f].clock = r.clk[e][f]
    OBVIOUS
  <2>1. merge[f] = MergeField(r, c, f) /\ merge[f].decision # "keep"
    OBVIOUS
  <2> QED BY <2>1, MergeStamps
<1>4. c.clock \in OptionHlc
  BY DEF Change, OptionHlc
<1> HIDE DEF s, written, merge
<1> DEFINE g == [f \in Field |-> IF f \in written THEN merge[f].clock ELSE r.clk[e][f]]
<1>5. \A f \in Field : r.clk[e][f] \in OptionHlc
  BY DEF Clocked
<1>6. \A f \in Field : g[f] = r.clk[e][f] \/ g[f] = c.clock
  BY <1>3
<1>7. g \in [Field -> OptionHlc]
  BY <1>4, <1>5, <1>6
<1>8. s.clk = [r.clk EXCEPT ![e] = g]
  BY <1>2
<1>9. Restamped(s, r, c.clock)
  <2> HIDE DEF g
  <2> QED BY <1>1, <1>6, <1>7, <1>8, RestampedRow
<1> QED BY <1>9 DEF s

LEMMA ApplyDeleteRestamps ==
  ASSUME NEW r, Clocked(r), NEW c
  PROVE  Restamped(ApplyDelete(r, c), r, c.clock)
<1> DEFINE e == c.target
           kept == {Conflict(e, f, r.val[e][f], r.clk[e][f]) : f \in UnobservedProse(r, c)}
           marked == [SetTombstone(r, e, c.clock) EXCEPT !.inbox = @ (+) SetToBag(kept)]
<1>1. Clocked(marked) /\ marked.clk = r.clk
  BY DEF SetTombstone, Clocked
<1> HIDE DEF marked
<1>2. Clocked(DeleteRow(marked, e)) /\ DeleteRow(marked, e).clk = r.clk
  BY <1>1, DeleteClocked
<1>3. ApplyDelete(r, c) = marked \/ ApplyDelete(r, c) = DeleteRow(marked, e)
  BY DEF ApplyDelete, marked
<1> QED BY <1>1, <1>2, <1>3 DEF Restamped

LEMMA ApplyEdgeRestamps ==
  ASSUME NEW r, Clocked(r), NEW c
  PROVE  Restamped(ApplyEdge(r, c), r, c.clock)
BY DEF ApplyEdge, SetMembership, Restamped, Clocked

\* Applying a change stamps what it writes with the stamp of the change.
LEMMA ApplyRestamps ==
  ASSUME NEW r, Clocked(r), NEW c \in Change, c.kind # "edge" => c.target \in Entity
  PROVE  Restamped(ApplyChange(r, c), r, c.clock)
<1>1. c.kind \in {"fields", "delete", "edge"}
  BY DEF Change
<1>2. CASE c.kind = "fields"
  BY <1>2, ApplyFieldsRestamps DEF ApplyChange
<1>3. CASE c.kind = "delete"
  BY <1>3, ApplyDeleteRestamps DEF ApplyChange
<1>4. CASE c.kind = "edge"
  BY <1>4, ApplyEdgeRestamps DEF ApplyChange
<1> QED BY <1>1, <1>2, <1>3, <1>4

-----------------------------------------------------------------------------
(* The inductive invariant. *)

Round ==
  [pc : {"idle", "stopped", "push", "upload", "ack", "pull", "apply", "verify"},
   batch : Seq(Change), reply : SUBSET ChangeId, pos : Nat, end : Nat]

TypeOK ==
  /\ hlc \in [Device -> Hlc]
  /\ DOMAIN rep = Device
  /\ \A d \in Device : Clocked(rep[d])
  /\ outbox \in [Device -> Seq(Change)]
  /\ acked \in [Device -> SUBSET ChangeId]
  /\ applied \in [Device -> SUBSET ChangeId]
  /\ cursor \in [Device -> Nat]
  /\ local \in [Device -> SUBSET Blob]
  /\ round \in [Device -> Round]
  /\ log \in Seq(Change)
  /\ blobs \in SUBSET Blob

\* The outbox of a device numbers its changes from 1; what is in the outbox of o at k is
\* known to o itself and to whoever applied it.
Numbered ==
  \A d \in Device : \A k \in 1..Len(outbox[d]) :
    /\ outbox[d][k].id = <<d, k>> /\ outbox[d][k].device_id = d
    /\ outbox[d][k].kind # "edge" => outbox[d][k].target \in Entity
Has(d, o, k) == o = d \/ <<o, k>> \in applied[d]

\* c is in the outbox of device d, at the place its id says.
SentBy(d, c) ==
  c.id[2] \in 1..Len(outbox[d]) /\ c = outbox[d][c.id[2]]

\* The log holds, of every device, the first so many changes of its outbox, in their order.
LogSent ==
  \A i \in 1..Len(log) : SentBy(log[i].device_id, log[i])
LogInOrder ==
  \A i \in 1..Len(log) : \A j \in 1..(i - 1) :
    log[j].device_id = log[i].device_id => log[j].id[2] < log[i].id[2]
LogWithoutGap ==
  \A i \in 1..Len(log) : \A m \in 1..(log[i].id[2] - 1) :
    \E j \in 1..(i - 1) : log[j].id = <<log[i].device_id, m>>

\* Only what is in the log is acknowledged or applied.
Recorded ==
  \A d \in Device : acked[d] \subseteq Ids(log) /\ applied[d] \subseteq Ids(log)

\* The base of a change is the stamp of an earlier one: of its own device, or in the log.
Based(d, k) ==
  outbox[d][k].base # NoClock =>
    \E o \in Device : \E m \in 1..Len(outbox[o]) :
      /\ outbox[o][m].clock = outbox[d][k].base
      /\ (o = d /\ m < k) \/ <<o, m>> \in Ids(log)
RowsBased == \A d \in Device : \A k \in 1..Len(outbox[d]) : Based(d, k)
LogBased ==
  \A i \in 1..Len(log) :
    log[i].base # NoClock => \E j \in 1..(i - 1) : log[j].clock = log[i].base

\* A field's clock is the stamp of a change the device knows, and the device's own clock is
\* not behind any of those.
ClocksKnown ==
  \A d \in Device : \A e \in Entity : \A f \in Field :
    rep[d].clk[e][f] # NoClock =>
      \E o \in Device : \E k \in 1..Len(outbox[o]) :
        Has(d, o, k) /\ outbox[o][k].clock = rep[d].clk[e][f]
NotAfter(c, h) ==
  \/ c.wall_millis < h.wall_millis
  \/ c.wall_millis = h.wall_millis /\ c.counter <= h.counter
ClockAhead ==
  \A d \in Device : \A o \in Device : \A k \in 1..Len(outbox[o]) :
    Has(d, o, k) => NotAfter(outbox[o][k].clock, hlc[d])

\* The blobs of a change are where the change is.
LogBlobs == \A i \in 1..Len(log) : log[i].refs \subseteq blobs
LocalBlobs ==
  \A d \in Device : \A o \in Device : \A k \in 1..Len(outbox[o]) :
    Has(d, o, k) => outbox[o][k].refs \subseteq local[d]

\* The batch of a round: rows of the outbox, in order, that leave out only what is in the
\* log already; and only what is in the log is about to be acknowledged.
BatchFits(d, x) ==
  /\ x.pc \in {"upload", "ack"} =>
       /\ \A i \in 1..Len(x.batch) : SentBy(d, x.batch[i])
       /\ \A i, j \in 1..Len(x.batch) : j < i => x.batch[j].id[2] < x.batch[i].id[2]
       /\ \A i \in 1..Len(x.batch) : \A m \in 1..(x.batch[i].id[2] - 1) :
            <<d, m>> \in Ids(log) \/ \E j \in 1..(i - 1) : x.batch[j].id = <<d, m>>
  /\ x.pc = "ack" => x.reply \subseteq Ids(log)

\* The page of a round: everything before the next event is the device's own or applied.
Passed(d, i) == log[i].device_id = d \/ log[i].id \in applied[d]
PageFits(d, x) ==
  x.pc = "apply" =>
    /\ x.pos \in 1..(x.end + 1)
    /\ x.end <= Len(log)
    /\ \A i \in 1..(x.pos - 1) : Passed(d, i)
RoundsOK ==
  \A d \in Device : \A x \in {round[d]} : BatchFits(d, x) /\ PageFits(d, x)

DataOK ==
  /\ TypeOK
  /\ Numbered
  /\ LogSent /\ LogInOrder /\ LogWithoutGap
  /\ Recorded
  /\ RowsBased /\ LogBased
  /\ ClocksKnown /\ ClockAhead
  /\ LogBlobs /\ LocalBlobs
  /\ NothingSkipped
IInv == DataOK /\ RoundsOK

-----------------------------------------------------------------------------
(* What only grows. *)

\* Outboxes and the log are only appended to, and what was applied stays applied.
Grows ==
  /\ \A d \in Device :
       /\ Len(outbox[d]) <= Len(outbox'[d])
       /\ \A k \in 1..Len(outbox[d]) : outbox'[d][k] = outbox[d][k]
       /\ applied[d] \subseteq applied'[d]
  /\ Len(log) <= Len(log')
  /\ \A i \in 1..Len(log) : log'[i] = log[i]

LEMMA IdsOf ==
  ASSUME NEW s \in Seq(Change), NEW x
  PROVE  x \in Ids(s) <=> \E i \in 1..Len(s) : s[i].id = x
BY LenProperties DEF Ids

LEMMA LenTypes ==
  ASSUME TypeOK
  PROVE  /\ \A d \in Device : outbox[d] \in Seq(Change) /\ Len(outbox[d]) \in Nat
         /\ \A d \in Device : \A k \in 1..Len(outbox[d]) : outbox[d][k] \in Change
         /\ Len(log) \in Nat
         /\ \A i \in 1..Len(log) : log[i] \in Change
BY LenProperties DEF TypeOK

LEMMA IdsGrow ==
  ASSUME TypeOK, TypeOK', Grows
  PROVE  Ids(log) \subseteq Ids(log')
<1>1. log \in Seq(Change) /\ log' \in Seq(Change) /\ Len(log) \in Nat /\ Len(log') \in Nat
  BY LenTypes, LenProperties DEF TypeOK
<1>2. ASSUME NEW x \in Ids(log) PROVE x \in Ids(log')
  <2>1. PICK i \in 1..Len(log) : log[i].id = x
    BY <1>1, IdsOf
  <2>2. i \in 1..Len(log') /\ log'[i].id = x
    BY <1>1, <2>1 DEF Grows
  <2> QED BY <1>1, <2>2, IdsOf
<1> QED BY <1>2

\* What fits a round goes on fitting it while outboxes and the log grow.
LEMMA FitsKept ==
  ASSUME TypeOK, TypeOK', Grows, NEW d \in Device, NEW x \in Round,
         BatchFits(d, x), PageFits(d, x)
  PROVE  BatchFits(d, x)' /\ PageFits(d, x)'
<1>1. Ids(log) \subseteq Ids(log')
  BY IdsGrow
<1>2. \A c : SentBy(d, c) => SentBy(d, c)'
  <2> SUFFICES ASSUME NEW c, SentBy(d, c) PROVE SentBy(d, c)'
    OBVIOUS
  <2>1. Len(outbox[d]) \in Nat /\ Len(outbox[d])' \in Nat
    <3>1. Len(outbox[d])' \in Nat
      BY LenProperties DEF TypeOK
    <3> QED BY <3>1, LenTypes
  <2> QED BY <2>1 DEF SentBy, Grows
<1>3. BatchFits(d, x)'
  BY <1>1, <1>2 DEF BatchFits
<1>4. \A i \in 1..Len(log) : Passed(d, i) => Passed(d, i)'
  BY DEF Passed, Grows
<1>5. PageFits(d, x)'
  <2>1. Len(log) \in Nat /\ Len(log)' \in Nat
    BY LenProperties DEF TypeOK
  <2>2. x.pos \in Nat /\ x.end \in Nat
    BY DEF Round
  <2>3. SUFFICES ASSUME x.pc = "apply" PROVE PageFits(d, x)'
    BY DEF PageFits
  <2>4. x.pos \in 1..(x.end + 1) /\ x.end <= Len(log) /\ \A i \in 1..(x.pos - 1) : Passed(d, i)
    BY <2>3 DEF PageFits
  <2>5. x.end <= Len(log)'
    BY <2>1, <2>2, <2>4 DEF Grows
  <2>6. \A i \in 1..(x.pos - 1) : Passed(d, i)'
    BY <1>4, <2>1, <2>2, <2>4
  <2> QED BY <2>4, <2>5, <2>6 DEF PageFits
<1> QED BY <1>3, <1>5

\* The round of one device takes a step; the others still fit.
LEMMA RoundsKept ==
  ASSUME TypeOK, TypeOK', Grows, RoundsOK, NEW d \in Device, NEW x \in Round,
         round' = [round EXCEPT ![d] = x], BatchFits(d, x)', PageFits(d, x)'
  PROVE  RoundsOK'
<1> SUFFICES ASSUME NEW o \in Device, NEW y \in {round'[o]}
             PROVE  BatchFits(o, y)' /\ PageFits(o, y)'
  BY DEF RoundsOK
<1>1. CASE o = d
  <2>1. y = x
    BY <1>1 DEF TypeOK
  <2> QED BY <1>1, <2>1
<1>2. CASE o # d
  <2>1. y \in Round /\ y \in {round[o]}
    BY <1>2 DEF TypeOK
  <2>2. BatchFits(o, y) /\ PageFits(o, y)
    BY <2>1 DEF RoundsOK
  <2> QED BY <2>1, <2>2, FitsKept
<1> QED BY <1>1, <1>2

-----------------------------------------------------------------------------
(* Steps that touch neither the databases nor the log. *)

LEMMA OrderKept ==
  ASSUME DataOK, UNCHANGED <<outbox, log>>
  PROVE  Numbered' /\ LogSent' /\ LogInOrder' /\ LogWithoutGap' /\ RowsBased' /\ LogBased'
<1>1. Numbered'
  BY DEF DataOK, Numbered
<1>2. LogSent'
  BY DEF DataOK, LogSent, SentBy
<1>3. LogInOrder'
  BY DEF DataOK, LogInOrder
<1>4. LogWithoutGap'
  BY DEF DataOK, LogWithoutGap
<1>5. RowsBased'
  <2>1. ASSUME NEW d \in Device, NEW k \in 1..Len(outbox[d]) PROVE Based(d, k)'
    <3>1. Based(d, k)
      BY DEF DataOK, RowsBased
    <3>2. Ids(log)' = Ids(log)
      BY DEF Ids
    <3> QED BY <3>1, <3>2 DEF Based
  <2> QED BY <2>1 DEF RowsBased
<1>6. LogBased'
  BY DEF DataOK, LogBased
<1> QED BY <1>1, <1>2, <1>3, <1>4, <1>5, <1>6

LEMMA DataKept ==
  ASSUME DataOK, UNCHANGED <<db, log>>, blobs \subseteq blobs', blobs' \in SUBSET Blob,
         round' \in [Device -> Round]
  PROVE  DataOK' /\ Grows
<1>1. UNCHANGED <<hlc, rep, outbox, acked, applied, cursor, local, log>>
  BY DEF db
<1>2. TypeOK'
  BY <1>1 DEF DataOK, TypeOK
<1>3. Numbered' /\ LogSent' /\ LogInOrder' /\ LogWithoutGap' /\ RowsBased' /\ LogBased'
  BY <1>1, OrderKept
<1>4. Recorded' /\ ClocksKnown' /\ ClockAhead'
  <2>1. Recorded'
    BY <1>1 DEF DataOK, Recorded, Ids
  <2>2. ClocksKnown'
    BY <1>1 DEF DataOK, ClocksKnown, Has
  <2>3. ClockAhead'
    BY <1>1 DEF DataOK, ClockAhead, Has
  <2> QED BY <2>1, <2>2, <2>3
<1>5. LogBlobs' /\ LocalBlobs' /\ NothingSkipped'
  BY <1>1 DEF DataOK, LogBlobs, LocalBlobs, NothingSkipped, Has
<1>6. Grows
  BY <1>1, LenTypes DEF DataOK, Grows
<1> QED BY <1>2, <1>3, <1>4, <1>5, <1>6 DEF DataOK

LEMMA RoundStepKeeps ==
  ASSUME IInv, UNCHANGED <<db, log, blobs>>, NEW d \in Device, NEW x \in Round,
         round' = [round EXCEPT ![d] = x], BatchFits(d, x), PageFits(d, x)
  PROVE  IInv'
<1>1. round' \in [Device -> Round] /\ blobs' \in SUBSET Blob /\ blobs \subseteq blobs'
  BY DEF IInv, DataOK, TypeOK
<1>2. DataOK' /\ Grows
  BY <1>1, DataKept DEF IInv
<1>3. BatchFits(d, x)' /\ PageFits(d, x)'
  BY <1>2, FitsKept DEF IInv, DataOK
<1> QED BY <1>2, <1>3, RoundsKept DEF IInv, DataOK

\* A round that holds no batch and no page fits whatever the databases hold.
LEMMA RestFits ==
  ASSUME NEW d, NEW pc \in {"idle", "stopped", "push", "pull", "verify"}
  PROVE  At(pc) \in Round /\ BatchFits(d, At(pc)) /\ PageFits(d, At(pc))
<1>1. <<>> \in Seq(Change)
  OBVIOUS
<1> QED BY <1>1 DEF At, Locals, Round, BatchFits, PageFits

LEMMA RestStepKeeps ==
  ASSUME IInv, UNCHANGED <<db, log, blobs>>, NEW d \in Device,
         NEW pc \in {"idle", "stopped", "push", "pull", "verify"}, Enter(d, At(pc))
  PROVE  IInv'
<1>1. PICK x : x = At(pc)
  OBVIOUS
<1>2. round' = [round EXCEPT ![d] = x]
  BY <1>1 DEF Enter
<1>3. x \in Round /\ BatchFits(d, x) /\ PageFits(d, x)
  BY <1>1, RestFits
<1> QED BY <1>2, <1>3, RoundStepKeeps

LEMMA UploadKeeps ==
  ASSUME IInv, NEW d \in Device, UploadBlob(d)
  PROVE  IInv'
<1>1. UNCHANGED <<db, log, round>> /\ \E b \in BatchRefs(d) \cap local[d] : blobs' = blobs \cup {b}
  BY DEF UploadBlob
<1>2. blobs \subseteq blobs' /\ blobs' \in SUBSET Blob /\ round' \in [Device -> Round]
  BY <1>1 DEF IInv, DataOK, TypeOK
<1>3. DataOK' /\ Grows
  BY <1>1, <1>2, DataKept DEF IInv
<1> SUFFICES ASSUME NEW o \in Device, NEW x \in {round[o]}
             PROVE  BatchFits(o, x)' /\ PageFits(o, x)'
  BY <1>1, <1>3 DEF IInv, RoundsOK
<1>4. x \in Round /\ BatchFits(o, x) /\ PageFits(o, x)
  BY DEF IInv, DataOK, TypeOK, RoundsOK
<1> QED BY <1>3, <1>4, FitsKept DEF IInv, DataOK

\* pending_outbox: the unacknowledged rows, in order, from the first one.
LEMMA PendingFits ==
  ASSUME DataOK, NEW d \in Device
  PROVE  /\ Locals("upload", Pending(d), {}, 0, 0) \in Round
         /\ BatchFits(d, Locals("upload", Pending(d), {}, 0, 0))
         /\ PageFits(d, Locals("upload", Pending(d), {}, 0, 0))
<1> DEFINE s == outbox[d]
           at == Unacked(d)
           rows == Picked(s, at)
           len == Least(BATCH, Len(rows))
           b == Pending(d)
           x == Locals("upload", b, {}, 0, 0)
<1>1. s \in Seq(Change) /\ Len(s) \in Nat /\ DOMAIN s = 1..Len(s)
  BY LenProperties DEF DataOK, TypeOK
<1>2. at \in SUBSET (1..Len(s))
  BY <1>1 DEF Unacked
<1>3. rows \in Seq(Change) /\ \E f : PicksBy(f, rows, s, at)
  BY <1>1, <1>2, PickedInOrder
<1>4. PICK f : PicksBy(f, rows, s, at)
  BY <1>3
<1>5. Len(rows) \in Nat /\ len \in Nat /\ len <= Len(rows)
  BY <1>3, EngineAssumption, LenProperties DEF Least
<1>6. b = SubSeq(rows, 1, len)
  BY DEF Pending
<1>7. b \in Seq(Change) /\ Len(b) = len /\ \A i \in 1..len : b[i] = rows[i]
  <2>1. \A i \in 1..len : rows[i] \in Change
    BY <1>3, <1>5, ElementOfSeq
  <2> HIDE DEF rows, len, b
  <2>2. /\ SubSeq(rows, 1, len) \in Seq(Change)
        /\ Len(SubSeq(rows, 1, len)) = IF 1 <= len THEN len - 1 + 1 ELSE 0
        /\ \A i \in 1..(len - 1 + 1) : SubSeq(rows, 1, len)[i] = rows[1 + i - 1]
    BY <1>5, <2>1, SubSeqProperties
  <2> QED BY <1>5, <1>6, <2>2
<1>8. \A i \in 1..len : f[i] \in at /\ f[i] \in 1..Len(s) /\ b[i] = s[f[i]]
  <2> HIDE DEF b, rows, len, s, at
  <2>1. \A i \in 1..len : i \in 1..Len(rows)
    BY <1>5
  <2>2. \A i \in 1..len : f[i] \in at /\ rows[i] = s[f[i]]
    BY <1>4, <2>1 DEF PicksBy
  <2> QED BY <1>2, <1>7, <2>2
<1>9. \A k \in 1..Len(s) : s[k].id = <<d, k>>
  BY DEF DataOK, Numbered
<1>10. \A i \in 1..len : b[i].id = <<d, f[i]>> /\ b[i].id[2] = f[i]
  BY <1>8, <1>9
<1>11. \A i, j \in 1..len : j < i => f[j] < f[i]
  <2> HIDE DEF b, rows, len, s, at
  <2> QED BY <1>4, <1>5 DEF PicksBy
<1>12. ASSUME NEW i \in 1..len, NEW m \in 1..(f[i] - 1)
       PROVE  <<d, m>> \in Ids(log) \/ \E j \in 1..(i - 1) : b[j].id = <<d, m>>
  <2>1. m \in 1..Len(s) /\ m < f[i]
    BY <1>1, <1>8
  <2>2. CASE m \notin at
    <3>1. s[m].id \in acked[d]
      BY <1>1, <2>1, <2>2 DEF Unacked
    <3> QED BY <1>9, <2>1, <3>1 DEF DataOK, Recorded
  <2>3. CASE m \in at
    <3>1. PICK j \in 1..Len(rows) : f[j] = m
      <4> HIDE DEF rows, s, at
      <4> QED BY <1>4, <2>3 DEF PicksBy
    <3>2. j < i
      <4>1. SUFFICES ASSUME i <= j PROVE FALSE
        BY <1>5, <3>1
      <4>2. i = j \/ f[i] < f[j]
        <5> HIDE DEF rows, s, at, len
        <5> QED BY <1>4, <1>5, <3>1, <4>1 DEF PicksBy
      <4>3. f[i] \in Nat /\ f[j] \in Nat
        BY <1>1, <1>8, <2>1, <3>1
      <4> QED BY <2>1, <3>1, <4>2, <4>3
    <3>3. j \in 1..(i - 1) /\ j \in 1..len
      BY <1>5, <3>1, <3>2
    <3> QED BY <1>10, <3>1, <3>3
  <2> QED BY <2>2, <2>3
<1>13. \A i \in 1..len : SentBy(d, b[i])
  BY <1>8, <1>10 DEF SentBy
<1> HIDE DEF b, rows, len, s, at
<1>14. x.pc = "upload" /\ x.batch = b
  BY DEF Locals
<1>15. x \in Round
  BY <1>7 DEF Locals, Round
<1>16. BatchFits(d, x)
  <2> HIDE DEF x
  <2> QED BY <1>7, <1>10, <1>11, <1>12, <1>13, <1>14 DEF BatchFits
<1>17. PageFits(d, x)
  <2> HIDE DEF x
  <2> QED BY <1>14 DEF PageFits
<1> QED BY <1>15, <1>16, <1>17 DEF b

-----------------------------------------------------------------------------
(* push: the server appends what it does not have of a batch. *)

\* A row of the log is the row of the outbox that its id names.
RowOfLog(i, o, q) ==
  /\ log[i].id = <<log[i].device_id, log[i].id[2]>>
  /\ log[i].device_id \in Device /\ log[i].id[2] \in Nat
  /\ log[i].id = <<o, q>> =>
       q \in 1..Len(outbox[o]) /\ log[i] = outbox[o][q] /\ log[i].device_id = o
RowsOfLog == \A i \in 1..Len(log) : \A o \in Device : \A q \in Nat : RowOfLog(i, o, q)

LEMMA LogRow == TypeOK /\ Numbered /\ LogSent => RowsOfLog
<1> SUFFICES ASSUME TypeOK, Numbered, LogSent, NEW i \in 1..Len(log), NEW o \in Device, NEW q \in Nat
             PROVE  RowOfLog(i, o, q)
  BY DEF RowsOfLog
<1> DEFINE c == log[i]
<1>1. c \in Change
  BY LenTypes
<1>2. c.device_id \in Device /\ c.id \in Device \X Nat
  BY <1>1 DEF Change, ChangeId
<1>3. c.id[2] \in 1..Len(outbox[c.device_id]) /\ c = outbox[c.device_id][c.id[2]]
  BY DEF LogSent, SentBy
<1>4. c.id = <<c.device_id, c.id[2]>>
  BY <1>2, <1>3 DEF Numbered
<1> HIDE DEF c
<1>5. c.id = <<o, q>> => c.device_id = o /\ c.id[2] = q
  BY <1>4
<1> QED BY <1>2, <1>3, <1>4, <1>5 DEF c, RowOfLog

NoRoundFits == \A d : BatchFits(d, NoRound) /\ PageFits(d, NoRound)
LEMMA RestAlwaysFits == NoRoundFits
BY RestFits DEF NoRound, NoRoundFits

\* What the batch adds to the log: at which positions of the batch its members were.
Added(b, f, m) ==
  /\ Len(log') = Len(log) + m
  /\ \A i \in 1..Len(log) : log'[i] = log[i]
  /\ \A k \in 1..m : f[k] \in 1..Len(b) /\ log'[Len(log) + k] = b[f[k]]
                   /\ b[f[k]].id \notin Ids(log)
  /\ \A k, l \in 1..m : k < l => f[k] < f[l]
  /\ \A i \in 1..Len(b) : b[i].id \notin Ids(log) => \E k \in 1..m : f[k] = i

LEMMA AppendedAdds ==
  ASSUME TypeOK, NEW b \in Seq(Change), log' = Appended(b)
  PROVE  log' \in Seq(Change) /\ \E f : \E m \in Nat : Added(b, f, m)
<1> DEFINE at == NewIn(b)
           p == Picked(b, at)
<1>1. log \in Seq(Change) /\ Len(log) \in Nat
  BY LenProperties DEF TypeOK
<1>2. Len(b) \in Nat /\ DOMAIN b = 1..Len(b)
  BY LenProperties
<1>3. at \in SUBSET (1..Len(b)) /\ \A i \in 1..Len(b) : i \in at <=> b[i].id \notin Ids(log)
  BY <1>2 DEF NewIn
<1> HIDE DEF at
<1>4. p \in Seq(Change) /\ \E f : PicksBy(f, p, b, at)
  BY <1>3, PickedInOrder
<1>5. log' = log \o p
  BY DEF Appended, at
<1> HIDE DEF p
<1>6. Len(p) \in Nat
  BY <1>4, LenProperties
<1>7. /\ log' \in Seq(Change)
      /\ Len(log') = Len(log) + Len(p)
      /\ \A i \in 1..(Len(log) + Len(p)) :
           log'[i] = IF i <= Len(log) THEN log[i] ELSE p[i - Len(log)]
  BY <1>1, <1>4, <1>5, ConcatProperties
<1>8. PICK f : PicksBy(f, p, b, at)
  BY <1>4
<1>9. \A i \in 1..Len(log) : log'[i] = log[i]
  BY <1>1, <1>6, <1>7
<1>10. \A k \in 1..Len(p) : log'[Len(log) + k] = p[k]
  <2> SUFFICES ASSUME NEW k \in 1..Len(p) PROVE log'[Len(log) + k] = p[k]
    OBVIOUS
  <2>1. /\ Len(log) + k \in 1..(Len(log) + Len(p)) /\ ~(Len(log) + k <= Len(log))
        /\ Len(log) + k - Len(log) = k
    BY <1>1, <1>6
  <2> QED BY <1>7, <2>1
<1>11. \A k \in 1..Len(p) : f[k] \in at /\ p[k] = b[f[k]]
  BY <1>8 DEF PicksBy
<1>12. \A k, l \in 1..Len(p) : k < l => f[k] < f[l]
  BY <1>8 DEF PicksBy
<1>13. \A i \in at : \E k \in 1..Len(p) : f[k] = i
  BY <1>8 DEF PicksBy
<1>14. Added(b, f, Len(p))
  <2>1. \A k \in 1..Len(p) : f[k] \in 1..Len(b) /\ log'[Len(log) + k] = b[f[k]]
                            /\ b[f[k]].id \notin Ids(log)
    BY <1>3, <1>10, <1>11
  <2>2. \A i \in 1..Len(b) : b[i].id \notin Ids(log) => \E k \in 1..Len(p) : f[k] = i
    BY <1>3, <1>13
  <2> QED BY <1>7, <1>9, <1>12, <2>1, <2>2 DEF Added
<1> QED BY <1>6, <1>7, <1>14

\* The batch of the device that is about to push.
LEMMA UploadBatch ==
  ASSUME IInv, NEW d \in Device, round[d].pc = "upload"
  PROVE  /\ BatchOf(d) \in Seq(Change) /\ round[d] \in Round
         /\ BatchFits(d, round[d])
         /\ \A i \in 1..Len(BatchOf(d)) :
              /\ SentBy(d, BatchOf(d)[i]) /\ BatchOf(d)[i] \in Change
              /\ BatchOf(d)[i].device_id = d /\ BatchOf(d)[i].id = <<d, BatchOf(d)[i].id[2]>>
              /\ BatchOf(d)[i].refs \subseteq BatchRefs(d)
<1>1. round[d] \in Round /\ BatchOf(d) \in Seq(Change)
  BY DEF IInv, DataOK, TypeOK, Round, BatchOf
<1>2. BatchFits(d, round[d])
  BY DEF IInv, RoundsOK
<1>3. \A i \in 1..Len(BatchOf(d)) : SentBy(d, BatchOf(d)[i])
  BY <1>2 DEF BatchFits, BatchOf
<1>4. \A i \in 1..Len(BatchOf(d)) :
        BatchOf(d)[i].device_id = d /\ BatchOf(d)[i].id = <<d, BatchOf(d)[i].id[2]>>
  BY <1>3 DEF SentBy, IInv, DataOK, Numbered
<1>5. DOMAIN BatchOf(d) = 1..Len(BatchOf(d)) /\ \A i \in 1..Len(BatchOf(d)) : BatchOf(d)[i] \in Change
  BY <1>1, LenProperties
<1>6. \A i \in 1..Len(BatchOf(d)) : BatchOf(d)[i].refs \subseteq BatchRefs(d)
  BY <1>5 DEF BatchRefs
<1> QED BY <1>1, <1>2, <1>3, <1>4, <1>5, <1>6

\* The log after the append keeps every device's changes in order and without a gap.
LEMMA AppendOrders ==
  ASSUME TypeOK, Numbered, LogSent, LogInOrder, LogWithoutGap,
         NEW d \in Device, NEW b \in Seq(Change),
         \A i \in 1..Len(b) : b[i].device_id = d /\ b[i].id = <<d, b[i].id[2]>> /\ b[i].id[2] \in Nat \ {0},
         \A i, j \in 1..Len(b) : j < i => b[j].id[2] < b[i].id[2],
         \A i \in 1..Len(b) : \A m \in 1..(b[i].id[2] - 1) :
            <<d, m>> \in Ids(log) \/ \E j \in 1..(i - 1) : b[j].id = <<d, m>>,
         NEW f, NEW n \in Nat, Added(b, f, n)
  PROVE  LogInOrder' /\ LogWithoutGap'
<1> DEFINE old == Len(log)
<1>1. old \in Nat /\ Len(log') = old + n /\ Len(b) \in Nat /\ log \in Seq(Change)
  BY LenTypes, LenProperties DEF Added, TypeOK
<1>2. \A i \in 1..old : log'[i] = log[i]
  BY DEF Added
<1>3. \A k \in 1..n : /\ f[k] \in 1..Len(b) /\ log'[old + k] = b[f[k]]
                     /\ b[f[k]].id \notin Ids(log)
  BY DEF Added
<1>4. \A k, l \in 1..n : k < l => f[k] < f[l]
  BY DEF Added
<1>5. \A i \in 1..Len(b) : b[i].id \notin Ids(log) => \E k \in 1..n : f[k] = i
  BY DEF Added
<1>6. \A i \in 1..(old + n) : i \in 1..old \/ \E k \in 1..n : i = old + k
  <2> SUFFICES ASSUME NEW i \in 1..(old + n), i \notin 1..old PROVE \E k \in 1..n : i = old + k
    OBVIOUS
  <2>1. i - old \in 1..n /\ i = old + (i - old)
    BY <1>1
  <2> QED BY <2>1
<1>7. \A x : x \in Ids(log) <=> \E i \in 1..old : log[i].id = x
  BY <1>1, IdsOf
<1>8. \A i \in 1..old : log[i].id = <<log[i].device_id, log[i].id[2]>> /\ log[i].id[2] \in Nat
  BY LogRow DEF RowsOfLog, RowOfLog
<1> HIDE DEF old
<1>9. LogInOrder'
  <2> SUFFICES ASSUME NEW i \in 1..(old + n), NEW j \in 1..(i - 1),
                      log'[j].device_id = log'[i].device_id
               PROVE  log'[j].id[2] < log'[i].id[2]
    BY <1>1 DEF LogInOrder
  <2>1. CASE i \in 1..old
    <3>1. j \in 1..old
      BY <1>1, <2>1
    <3> QED BY <1>2, <2>1, <3>1 DEF LogInOrder, old
  <2>2. ASSUME NEW k \in 1..n, i = old + k PROVE log'[j].id[2] < log'[i].id[2]
    <3> DEFINE c == b[f[k]]
    <3>1. log'[i] = c /\ c.device_id = d /\ c.id = <<d, c.id[2]>>
          /\ c.id[2] \in Nat \ {0} /\ c.id \notin Ids(log)
      BY <1>3, <2>2
    <3> HIDE DEF c
    <3>2. CASE j \in 1..old
      <4>1. log[j].id = <<d, log[j].id[2]>> /\ log[j].id[2] \in Nat /\ log[j].device_id = d
        BY <1>2, <1>8, <3>1, <3>2
      <4>2. log[j].id[2] # c.id[2]
        BY <1>7, <3>1, <3>2, <4>1
      <4>3. SUFFICES ASSUME c.id[2] < log[j].id[2] PROVE FALSE
        BY <1>2, <3>1, <3>2, <4>1, <4>2
      <4>4. c.id[2] \in 1..(log[j].id[2] - 1)
        BY <3>1, <4>1, <4>3
      <4>5. PICK h \in 1..(j - 1) : log[h].id = <<log[j].device_id, c.id[2]>>
        BY <3>2, <4>4 DEF LogWithoutGap, old
      <4>6. h \in 1..old /\ log[h].id = c.id
        BY <1>1, <3>1, <3>2, <4>1, <4>5
      <4> QED BY <1>7, <3>1, <4>6
    <3>3. ASSUME NEW l \in 1..n, j = old + l PROVE log'[j].id[2] < log'[i].id[2]
      <4>1. l < k
        BY <1>1, <2>2, <3>3
      <4>2. f[l] < f[k] /\ f[l] \in 1..Len(b) /\ f[k] \in 1..Len(b)
        BY <1>3, <1>4, <4>1
      <4>3. b[f[l]].id[2] < b[f[k]].id[2]
        BY <4>2
      <4> QED BY <1>3, <2>2, <3>3, <4>3
    <3>4. j \in 1..(old + n)
      BY <1>1
    <3> QED BY <1>6, <3>2, <3>3, <3>4
  <2> QED BY <1>6, <2>1, <2>2
<1>10. LogWithoutGap'
  <2> SUFFICES ASSUME NEW i \in 1..(old + n), NEW m \in 1..(log'[i].id[2] - 1)
               PROVE  \E j \in 1..(i - 1) : log'[j].id = <<log'[i].device_id, m>>
    BY <1>1 DEF LogWithoutGap
  <2>1. CASE i \in 1..old
    <3>1. \E j \in 1..(i - 1) : log[j].id = <<log[i].device_id, m>>
      BY <1>2, <2>1 DEF LogWithoutGap, old
    <3>2. \A j \in 1..(i - 1) : j \in 1..old
      BY <1>1, <2>1
    <3> QED BY <1>2, <2>1, <3>1, <3>2
  <2>2. ASSUME NEW k \in 1..n, i = old + k
        PROVE  \E j \in 1..(i - 1) : log'[j].id = <<log'[i].device_id, m>>
    <3>1. log'[i] = b[f[k]] /\ f[k] \in 1..Len(b) /\ b[f[k]].device_id = d
      BY <1>3, <2>2
    <3>2. m \in 1..(b[f[k]].id[2] - 1)
      BY <3>1
    <3>3. CASE <<d, m>> \in Ids(log)
      <4>1. PICK j \in 1..old : log[j].id = <<d, m>>
        BY <1>7, <3>3
      <4>2. j \in 1..(i - 1)
        BY <1>1, <2>2
      <4> QED BY <1>2, <3>1, <4>1, <4>2
    <3>4. ASSUME NEW h \in 1..(f[k] - 1), b[h].id = <<d, m>>, <<d, m>> \notin Ids(log)
          PROVE  \E j \in 1..(i - 1) : log'[j].id = <<log'[i].device_id, m>>
      <4>1. h \in 1..Len(b) /\ h < f[k]
        BY <1>1, <3>1
      <4>2. PICK l \in 1..n : f[l] = h
        BY <1>5, <3>4, <4>1
      <4>3. l < k
        <5>1. SUFFICES ASSUME k <= l PROVE FALSE
          BY <4>2
        <5>2. l = k \/ f[k] < f[l]
          BY <1>4, <4>2, <5>1
        <5> QED BY <1>1, <3>1, <4>1, <4>2, <5>2
      <4>4. old + l \in 1..(i - 1)
        BY <1>1, <2>2, <4>3
      <4>5. log'[old + l] = b[h]
        BY <1>3, <4>2
      <4> QED BY <3>1, <3>4, <4>4, <4>5
    <3>5. <<d, m>> \in Ids(log) \/ \E h \in 1..(f[k] - 1) : b[h].id = <<d, m>>
      BY <3>1, <3>2
    <3> QED BY <3>3, <3>4, <3>5
  <2> QED BY <1>6, <2>1, <2>2
<1> QED BY <1>9, <1>10

LEMMA AppendKeeps ==
  ASSUME IInv, NEW d \in Device, round[d].pc = "upload", BatchRefs(d) \subseteq blobs,
         log' = Appended(BatchOf(d)), UNCHANGED <<db, blobs>>, round' \in [Device -> Round]
  PROVE  DataOK' /\ Grows /\ Ids(BatchOf(d)) \subseteq Ids(log')
<1>1. PICK b \in Seq(Change) : b = BatchOf(d)
  BY UploadBatch
<1>2. UNCHANGED <<hlc, rep, outbox, acked, applied, cursor, local>>
  BY DEF db
<1>3. TypeOK /\ Numbered /\ LogSent /\ LogInOrder /\ LogWithoutGap
  BY DEF IInv, DataOK
<1>4. \A i \in 1..Len(b) : /\ SentBy(d, b[i]) /\ b[i] \in Change /\ b[i].device_id = d
                         /\ b[i].id = <<d, b[i].id[2]>> /\ b[i].refs \subseteq BatchRefs(d)
  BY <1>1, UploadBatch
<1>5. /\ \A i, j \in 1..Len(b) : j < i => b[j].id[2] < b[i].id[2]
      /\ \A i \in 1..Len(b) : \A m \in 1..(b[i].id[2] - 1) :
           <<d, m>> \in Ids(log) \/ \E j \in 1..(i - 1) : b[j].id = <<d, m>>
  <2>1. round[d].batch = b /\ BatchFits(d, round[d])
    BY <1>1, UploadBatch DEF BatchOf
  <2> QED BY <2>1 DEF BatchFits
<1>6. log' \in Seq(Change) /\ \E f : \E n \in Nat : Added(b, f, n)
  BY <1>1, <1>3, AppendedAdds
<1>7. TypeOK'
  BY <1>2, <1>3, <1>6 DEF TypeOK
<1>8. PICK f : \E n \in Nat : Added(b, f, n)
  BY <1>6
<1>9. PICK n \in Nat : Added(b, f, n)
  BY <1>8
<1> DEFINE old == Len(log)
<1>10. old \in Nat /\ Len(log') = old + n /\ \A i \in 1..old : log'[i] = log[i]
  BY <1>3, <1>9, LenTypes DEF Added
<1>11. \A k \in 1..n : f[k] \in 1..Len(b) /\ log'[old + k] = b[f[k]]
  BY <1>9 DEF Added
<1>12. \A i \in 1..(old + n) : i \in 1..old \/ \E k \in 1..n : i = old + k
  <2> SUFFICES ASSUME NEW i \in 1..(old + n), i \notin 1..old PROVE \E k \in 1..n : i = old + k
    OBVIOUS
  <2>1. i - old \in 1..n /\ i = old + (i - old)
    BY <1>10
  <2> QED BY <2>1
<1>13. Grows
  BY <1>2, <1>3, <1>10, LenTypes DEF Grows
<1>14. Ids(log) \subseteq Ids(log')
  BY <1>3, <1>7, <1>13, IdsGrow
<1>15. Ids(b) \subseteq Ids(log')
  <2> SUFFICES ASSUME NEW i \in 1..Len(b), b[i].id \notin Ids(log) PROVE b[i].id \in Ids(log')
    BY <1>14, IdsOf
  <2>1. PICK k \in 1..n : f[k] = i
    BY <1>9 DEF Added
  <2>2. old + k \in 1..Len(log') /\ log'[old + k].id = b[i].id
    BY <1>10, <1>11, <2>1
  <2> QED BY <1>6, <2>2, IdsOf
<1>16. Numbered'
  BY <1>2, <1>3 DEF Numbered
<1>17. LogSent'
  <2> SUFFICES ASSUME NEW i \in 1..(old + n) PROVE SentBy(log'[i].device_id, log'[i])
    BY <1>2, <1>10 DEF LogSent, SentBy
  <2>1. CASE i \in 1..old
    BY <1>3, <1>10, <2>1 DEF LogSent
  <2>2. CASE \E k \in 1..n : i = old + k
    <3>1. PICK h \in 1..Len(b) : log'[i] = b[h]
      BY <1>11, <2>2
    <3> QED BY <1>4, <3>1
  <2> QED BY <1>12, <2>1, <2>2
<1>18. LogInOrder' /\ LogWithoutGap'
  <2>1. \A i \in 1..Len(b) : /\ b[i].device_id = d /\ b[i].id = <<d, b[i].id[2]>>
                           /\ b[i].id[2] \in Nat \ {0}
    <3>1. Len(outbox[d]) \in Nat
      BY <1>3, LenTypes
    <3> QED BY <1>4, <3>1 DEF SentBy
  <2> QED BY <1>3, <1>5, <1>9, <2>1, AppendOrders
<1>19. Recorded'
  BY <1>2, <1>14 DEF IInv, DataOK, Recorded
<1>20. RowsBased'
  <2> SUFFICES ASSUME NEW o \in Device, NEW k \in 1..Len(outbox[o]) PROVE Based(o, k)'
    BY <1>2 DEF RowsBased
  <2>1. Based(o, k)
    BY DEF IInv, DataOK, RowsBased
  <2> QED BY <1>2, <1>14, <2>1 DEF Based
<1>21. LogBased'
  <2> SUFFICES ASSUME NEW i \in 1..(old + n), log'[i].base # NoClock
               PROVE  \E j \in 1..(i - 1) : log'[j].clock = log'[i].base
    BY <1>10 DEF LogBased
  <2>1. CASE i \in 1..old
    <3>1. \E j \in 1..(i - 1) : log[j].clock = log[i].base
      BY <1>10, <2>1 DEF IInv, DataOK, LogBased
    <3>2. \A j \in 1..(i - 1) : j \in 1..old
      BY <1>10, <2>1
    <3> QED BY <1>10, <2>1, <3>1, <3>2
  <2>2. ASSUME NEW h \in 1..Len(b), old < i, log'[i] = b[h]
        PROVE  \E j \in 1..(i - 1) : log'[j].clock = log'[i].base
    <3> DEFINE q == b[h].id[2]
    <3>1. q \in 1..Len(outbox[d]) /\ b[h] = outbox[d][q] /\ b[h].device_id = d
      BY <1>4 DEF SentBy
    <3>2. Based(d, q)
      BY <3>1 DEF IInv, DataOK, RowsBased
    <3>3. PICK o \in Device : \E m \in 1..Len(outbox[o]) :
            /\ outbox[o][m].clock = outbox[d][q].base
            /\ (o = d /\ m < q) \/ <<o, m>> \in Ids(log)
      BY <2>2, <3>1, <3>2 DEF Based
    <3>4. PICK m \in 1..Len(outbox[o]) :
            /\ outbox[o][m].clock = outbox[d][q].base
            /\ (o = d /\ m < q) \/ <<o, m>> \in Ids(log)
      BY <3>3
    <3>5. m \in Nat /\ q \in Nat /\ m >= 1
      BY <1>3, <3>1, LenTypes
    <3>6. \E j \in 1..(i - 1) : log'[j].id = <<o, m>>
      <4>1. CASE <<o, m>> \in Ids(log)
        <5>1. PICK j \in 1..old : log[j].id = <<o, m>>
          BY <1>3, <4>1, IdsOf DEF TypeOK
        <5> QED BY <1>10, <2>2, <5>1
      <4>2. CASE o = d /\ m < q
        <5>1. m \in 1..(log'[i].id[2] - 1) /\ log'[i].device_id = d
          BY <2>2, <3>1, <3>5, <4>2
        <5> QED BY <1>10, <1>18, <4>2, <5>1 DEF LogWithoutGap
      <4> QED BY <3>4, <4>1, <4>2
    <3>7. PICK j \in 1..(i - 1) : log'[j].id = <<o, m>>
      BY <3>6
    <3>8. j \in 1..Len(log')
      BY <1>10, <3>7
    <3>9. RowsOfLog'
      <4>1. (TypeOK /\ Numbered /\ LogSent => RowsOfLog)'
        BY LogRow, PTL
      <4> QED BY <1>7, <1>16, <1>17, <4>1
    <3>10. log'[j] = outbox[o][m]
      BY <1>2, <3>5, <3>7, <3>8, <3>9 DEF RowsOfLog, RowOfLog
    <3>11. log'[j].clock = outbox[o][m].clock /\ log'[i].base = outbox[d][q].base
      BY <2>2, <3>1, <3>10
    <3>12. log'[j].clock = log'[i].base
      BY <3>4, <3>11
    <3> QED BY <3>7, <3>12
  <2>3. CASE \E k \in 1..n : i = old + k
    <3>1. PICK k \in 1..n : i = old + k
      BY <2>3
    <3>2. old < i /\ f[k] \in 1..Len(b) /\ log'[i] = b[f[k]]
      BY <1>10, <1>11, <3>1
    <3> QED BY <2>2, <3>2
  <2> QED BY <1>12, <2>1, <2>3
<1>22. ClocksKnown' /\ ClockAhead' /\ LocalBlobs'
  <2>1. ClocksKnown'
    BY <1>2 DEF IInv, DataOK, ClocksKnown, Has
  <2>2. ClockAhead'
    BY <1>2 DEF IInv, DataOK, ClockAhead, Has
  <2>3. LocalBlobs'
    BY <1>2 DEF IInv, DataOK, LocalBlobs, Has
  <2> QED BY <2>1, <2>2, <2>3
<1>23. LogBlobs'
  <2> SUFFICES ASSUME NEW i \in 1..(old + n) PROVE log'[i].refs \subseteq blobs
    BY <1>10 DEF LogBlobs
  <2>1. CASE i \in 1..old
    BY <1>10, <2>1 DEF IInv, DataOK, LogBlobs
  <2>2. CASE \E k \in 1..n : i = old + k
    <3>1. PICK h \in 1..Len(b) : log'[i] = b[h]
      BY <1>11, <2>2
    <3> QED BY <1>4, <3>1
  <2> QED BY <1>12, <2>1, <2>2
<1>24. NothingSkipped'
  <2> SUFFICES ASSUME NEW o \in Device
               PROVE  /\ cursor[o] <= Len(log')
                      /\ \A i \in 1..cursor[o] : log'[i].device_id = o \/ log'[i].id \in applied[o]
    BY <1>2 DEF NothingSkipped
  <2>1. cursor[o] \in Nat /\ cursor[o] <= old
        /\ \A i \in 1..cursor[o] : log[i].device_id = o \/ log[i].id \in applied[o]
    BY DEF IInv, DataOK, TypeOK, NothingSkipped
  <2>2. \A i \in 1..cursor[o] : i \in 1..old
    BY <1>10, <2>1
  <2> QED BY <1>10, <2>1, <2>2
<1>25. DataOK'
  BY <1>7, <1>16, <1>17, <1>18, <1>19, <1>20, <1>21, <1>22, <1>23, <1>24 DEF DataOK
<1> QED BY <1>1, <1>13, <1>15, <1>25

\* The three outcomes of a push: all acknowledged, some, or the reply lost.
LEMMA SendKeeps ==
  ASSUME IInv, NEW d \in Device, SendBatch(d) \/ SendTruncated(d) \/ LoseReply(d)
  PROVE  IInv'
<1>1. /\ round[d].pc = "upload" /\ BatchRefs(d) \subseteq blobs
      /\ log' = Appended(BatchOf(d)) /\ UNCHANGED <<db, blobs>>
  BY DEF SendBatch, SendTruncated, LoseReply, ReadyToSend, In
<1>2. BatchOf(d) \in Seq(Change) /\ BatchFits(d, round[d]) /\ round[d] \in Round
  BY <1>1, UploadBatch
<1>3. \A i \in 1..Len(BatchOf(d)) : BatchOf(d)[i].id \in ChangeId
  BY <1>1, UploadBatch DEF Change
<1>4. Ids(BatchOf(d)) \in SUBSET ChangeId
  BY <1>2, <1>3, IdsOf
<1>5. ASSUME NEW x \in Round, round' = [round EXCEPT ![d] = x],
             x = NoRound \/ \E part \in SUBSET Ids(BatchOf(d)) : x = Locals("ack", BatchOf(d), part, 0, 0)
      PROVE  IInv'
  <2>1. round' \in [Device -> Round]
    BY <1>5 DEF IInv, DataOK, TypeOK
  <2>2. DataOK' /\ Grows /\ Ids(BatchOf(d)) \subseteq Ids(log')
    BY <1>1, <2>1, AppendKeeps
  <2>3. CASE x = NoRound
    <3>1. (BatchFits(d, NoRound) /\ PageFits(d, NoRound))'
      <4>1. NoRoundFits'
        BY RestAlwaysFits, PTL
      <4> QED BY <4>1 DEF NoRoundFits
    <3>2. BatchFits(d, x)' /\ PageFits(d, x)'
      BY <2>3, <3>1
    <3> QED BY <1>5, <2>2, <3>2, RoundsKept DEF IInv, DataOK
  <2>4. ASSUME NEW part \in SUBSET Ids(BatchOf(d)), x = Locals("ack", BatchOf(d), part, 0, 0)
        PROVE  IInv'
    <3>1. PICK y \in Round : y = round[d]
      BY <1>2
    <3>2. BatchFits(d, y) /\ PageFits(d, y) /\ y.pc = "upload" /\ y.batch = BatchOf(d)
      BY <1>1, <1>2, <3>1 DEF PageFits, BatchOf
    <3>3. BatchFits(d, y)'
      BY <2>2, <3>2, FitsKept DEF IInv, DataOK
    <3>4. x.pc = "ack" /\ x.batch = y.batch /\ x.reply \subseteq Ids(log')
      BY <2>2, <2>4, <3>2 DEF Locals
    <3>5. BatchFits(d, x)'
      BY <3>2, <3>3, <3>4 DEF BatchFits
    <3>6. PageFits(d, x)'
      BY <3>4 DEF PageFits
    <3> QED BY <1>5, <2>2, <3>5, <3>6, RoundsKept DEF IInv, DataOK
  <2> QED BY <1>5, <2>3, <2>4
<1>6. PICK x : \/ x = NoRound /\ round' = [round EXCEPT ![d] = x]
               \/ \E part \in SUBSET Ids(BatchOf(d)) :
                    x = Locals("ack", BatchOf(d), part, 0, 0) /\ round' = [round EXCEPT ![d] = x]
  BY DEF SendBatch, SendTruncated, LoseReply, Enter
<1>7. x \in Round
  <2>1. \A part \in SUBSET Ids(BatchOf(d)) : Locals("ack", BatchOf(d), part, 0, 0) \in Round
    BY <1>2, <1>4 DEF Locals, Round
  <2>2. NoRound \in Round
    BY RestFits DEF NoRound
  <2> QED BY <1>6, <2>1, <2>2
<1> QED BY <1>5, <1>6, <1>7

-----------------------------------------------------------------------------
(* mark_outbox_acked, fetch_blobs and set_sync_cursor. *)

LEMMA AckRowKeeps ==
  ASSUME IInv, NEW d \in Device, AckRow(d)
  PROVE  IInv'
<1>1. PICK id \in round[d].reply : /\ acked' = [acked EXCEPT ![d] = @ \cup {id}]
                                  /\ round' = [round EXCEPT ![d] = [round[d] EXCEPT !.reply = @ \ {id}]]
  BY DEF AckRow, Enter
<1>2. round[d].pc = "ack" /\ UNCHANGED <<hlc, rep, outbox, applied, cursor, local, log, blobs>>
  BY DEF AckRow, In, server
<1>3. round[d] \in Round /\ BatchFits(d, round[d])
  BY DEF IInv, DataOK, TypeOK, RoundsOK
<1>4. id \in Ids(log) /\ id \in ChangeId
  BY <1>2, <1>3 DEF BatchFits, Round
<1>5. PICK x : x = [round[d] EXCEPT !.reply = @ \ {id}]
  OBVIOUS
<1>6. x \in Round /\ x.pc = "ack" /\ x.batch = round[d].batch /\ x.reply \subseteq round[d].reply
  BY <1>2, <1>3, <1>5 DEF Round
<1>7. BatchFits(d, x) /\ PageFits(d, x)
  BY <1>2, <1>3, <1>6 DEF BatchFits, PageFits
<1>8. TypeOK'
  BY <1>1, <1>2, <1>4, <1>5, <1>6 DEF IInv, DataOK, TypeOK
<1>9. Numbered' /\ LogSent' /\ LogInOrder' /\ LogWithoutGap' /\ RowsBased' /\ LogBased'
  BY <1>2, OrderKept DEF IInv
<1>10. Ids(log)' = Ids(log)
  BY <1>2 DEF Ids
<1>11. Recorded'
  BY <1>1, <1>2, <1>4, <1>10 DEF IInv, DataOK, TypeOK, Recorded
<1>12. ClocksKnown'
  BY <1>2 DEF IInv, DataOK, ClocksKnown, Has
<1>13. ClockAhead'
  BY <1>2 DEF IInv, DataOK, ClockAhead, Has
<1>14. LogBlobs' /\ LocalBlobs' /\ NothingSkipped'
  BY <1>2 DEF IInv, DataOK, LogBlobs, LocalBlobs, NothingSkipped, Has
<1>15. Grows
  BY <1>2, LenTypes DEF IInv, DataOK, Grows
<1>16. DataOK'
  BY <1>8, <1>9, <1>11, <1>12, <1>13, <1>14 DEF DataOK
<1>17. BatchFits(d, x)' /\ PageFits(d, x)'
  BY <1>6, <1>7, <1>8, <1>15, FitsKept DEF IInv, DataOK
<1> QED BY <1>1, <1>5, <1>6, <1>8, <1>15, <1>16, <1>17, RoundsKept DEF IInv, DataOK

LEMMA FetchBlobKeeps ==
  ASSUME IInv, NEW d \in Device, FetchBlob(d)
  PROVE  IInv'
<1>1. PICK b \in blobs : local' = [local EXCEPT ![d] = @ \cup {b}]
  BY DEF FetchBlob
<1>2. UNCHANGED <<hlc, rep, outbox, acked, applied, cursor, round, log, blobs>>
  BY DEF FetchBlob, server
<1>3. TypeOK'
  BY <1>1, <1>2 DEF IInv, DataOK, TypeOK
<1>4. Numbered' /\ LogSent' /\ LogInOrder' /\ LogWithoutGap' /\ RowsBased' /\ LogBased'
  BY <1>2, OrderKept DEF IInv
<1>5. Recorded'
  BY <1>2 DEF IInv, DataOK, Recorded, Ids
<1>6. ClocksKnown'
  BY <1>2 DEF IInv, DataOK, ClocksKnown, Has
<1>7. ClockAhead'
  BY <1>2 DEF IInv, DataOK, ClockAhead, Has
<1>8. LogBlobs' /\ NothingSkipped'
  BY <1>2 DEF IInv, DataOK, LogBlobs, NothingSkipped
<1>9. LocalBlobs'
  <2>1. \A o \in Device : local[o] \subseteq local'[o]
    BY <1>1 DEF IInv, DataOK, TypeOK
  <2>2. ASSUME NEW q \in Device, NEW o \in Device, NEW k \in 1..Len(outbox[o]), Has(q, o, k)
        PROVE  outbox[o][k].refs \subseteq local[q]
    BY <2>2 DEF IInv, DataOK, LocalBlobs
  <2> QED BY <1>2, <2>1, <2>2 DEF LocalBlobs, Has
<1>10. Grows
  BY <1>2, LenTypes DEF IInv, DataOK, Grows
<1>11. RoundsOK'
  <2> SUFFICES ASSUME NEW o \in Device, NEW x \in {round[o]}
               PROVE  BatchFits(o, x)' /\ PageFits(o, x)'
    BY <1>2 DEF RoundsOK
  <2>1. x \in Round /\ BatchFits(o, x) /\ PageFits(o, x)
    BY DEF IInv, DataOK, TypeOK, RoundsOK
  <2> QED BY <1>3, <1>10, <2>1, FitsKept DEF IInv, DataOK
<1> QED BY <1>3, <1>4, <1>5, <1>6, <1>7, <1>8, <1>9, <1>11 DEF IInv, DataOK

\* The cursor is persisted last, when everything up to the end of the page is passed.
LEMMA AdvanceKeeps ==
  ASSUME IInv, NEW d \in Device, AdvanceCursor(d)
  PROVE  IInv'
<1>1. /\ round[d].pc = "apply" /\ round[d].pos > round[d].end
      /\ cursor' = [cursor EXCEPT ![d] = round[d].end]
      /\ UNCHANGED <<hlc, rep, outbox, acked, applied, local, log, blobs>>
  BY DEF AdvanceCursor, In, server
<1>2. round[d] \in Round /\ PageFits(d, round[d])
  BY DEF IInv, DataOK, TypeOK, RoundsOK
<1>3. /\ round[d].end \in Nat /\ round[d].end <= Len(log)
      /\ \A i \in 1..round[d].end : Passed(d, i)
  <2>1. round[d].pos \in 1..(round[d].end + 1) /\ round[d].end \in Nat /\ round[d].pos \in Nat
    BY <1>1, <1>2 DEF PageFits, Round
  <2>2. round[d].pos - 1 = round[d].end
    BY <1>1, <2>1
  <2> QED BY <1>1, <1>2, <2>1, <2>2 DEF PageFits
<1>4. PICK x : x \in {At("verify"), At("pull")} /\ round' = [round EXCEPT ![d] = x]
  BY DEF AdvanceCursor, Enter
<1>5. x \in Round /\ BatchFits(d, x) /\ PageFits(d, x)
  BY <1>4, RestFits
<1>6. TypeOK'
  BY <1>1, <1>3, <1>4, <1>5 DEF IInv, DataOK, TypeOK
<1>7. Numbered' /\ LogSent' /\ LogInOrder' /\ LogWithoutGap' /\ RowsBased' /\ LogBased'
  BY <1>1, OrderKept DEF IInv
<1>8. Recorded'
  BY <1>1 DEF IInv, DataOK, Recorded, Ids
<1>9. ClocksKnown'
  BY <1>1 DEF IInv, DataOK, ClocksKnown, Has
<1>10. ClockAhead'
  BY <1>1 DEF IInv, DataOK, ClockAhead, Has
<1>11. LogBlobs' /\ LocalBlobs'
  BY <1>1 DEF IInv, DataOK, LogBlobs, LocalBlobs, Has
<1>12. NothingSkipped'
  <2> SUFFICES ASSUME NEW o \in Device
               PROVE  /\ cursor'[o] <= Len(log)
                      /\ \A i \in 1..cursor'[o] : log[i].device_id = o \/ log[i].id \in applied[o]
    BY <1>1 DEF NothingSkipped
  <2>1. CASE o = d
    BY <1>1, <1>3, <2>1 DEF IInv, DataOK, TypeOK, Passed
  <2>2. CASE o # d
    BY <1>1, <2>2 DEF IInv, DataOK, TypeOK, NothingSkipped
  <2> QED BY <2>1, <2>2
<1>13. Grows
  BY <1>1, LenTypes DEF IInv, DataOK, Grows
<1>14. DataOK'
  BY <1>6, <1>7, <1>8, <1>9, <1>10, <1>11, <1>12 DEF DataOK
<1>15. BatchFits(d, x)' /\ PageFits(d, x)'
  BY <1>5, <1>6, <1>13, FitsKept DEF IInv, DataOK
<1> QED BY <1>4, <1>5, <1>6, <1>13, <1>14, <1>15, RoundsKept DEF IInv, DataOK

-----------------------------------------------------------------------------
(* Clocks that do not fall behind. *)

LEMMA IncNotLess ==
  ASSUME NEW n \in Nat, n <= MaxCounter
  PROVE  n <= SaturatingInc(n) /\ SaturatingInc(n) \in Nat
BY HlcAssumption DEF SaturatingInc

\* Even a clock whose counter has run into its maximum does not go back.
LEMMA TickNotBehind ==
  ASSUME NEW h \in Hlc, NEW now \in Nat, NEW x \in Hlc, NotAfter(x, h)
  PROVE  NotAfter(x, Tick(h, now))
<1>1. /\ h.wall_millis \in Nat /\ h.counter \in Nat /\ h.counter <= MaxCounter
      /\ x.wall_millis \in Nat /\ x.counter \in Nat
  BY StampParts
<1>2. CASE now > h.wall_millis
  <2>1. Tick(h, now).wall_millis = now
    BY <1>2 DEF Tick, Hlc
  <2> QED BY <1>1, <1>2, <2>1 DEF NotAfter
<1>3. CASE ~(now > h.wall_millis)
  <2>1. Tick(h, now).wall_millis = h.wall_millis /\ Tick(h, now).counter = SaturatingInc(h.counter)
    BY <1>3 DEF Tick, Hlc
  <2>2. h.counter <= SaturatingInc(h.counter) /\ SaturatingInc(h.counter) \in Nat
    BY <1>1, IncNotLess
  <2> QED BY <1>1, <2>1, <2>2 DEF NotAfter
<1> QED BY <1>2, <1>3

LEMMA ObserveNotBehind ==
  ASSUME NEW h \in Hlc, NEW r \in Hlc, NEW now \in Nat
  PROVE  /\ NotAfter(r, Observe(h, r, now))
         /\ \A x \in Hlc : NotAfter(x, h) => NotAfter(x, Observe(h, r, now))
<1> DEFINE wall == Greatest(Greatest(h.wall_millis, r.wall_millis), now)
           o == Observe(h, r, now)
<1>1. /\ h.wall_millis \in Nat /\ h.counter \in Nat /\ h.counter <= MaxCounter
      /\ r.wall_millis \in Nat /\ r.counter \in Nat /\ r.counter <= MaxCounter
  BY StampParts
<1>2. wall \in Nat /\ h.wall_millis <= wall /\ r.wall_millis <= wall
  BY <1>1 DEF Greatest
<1>3. o.wall_millis = wall
  BY DEF Observe, Hlc
<1>4. /\ wall = h.wall_millis /\ wall = r.wall_millis =>
            o.counter = SaturatingInc(Greatest(h.counter, r.counter))
      /\ wall = h.wall_millis /\ wall # r.wall_millis => o.counter = SaturatingInc(h.counter)
      /\ wall # h.wall_millis /\ wall = r.wall_millis => o.counter = SaturatingInc(r.counter)
  BY DEF Observe, Hlc
<1> HIDE DEF wall, o
<1>5. LET g == Greatest(h.counter, r.counter)
      IN  g \in Nat /\ g <= MaxCounter /\ h.counter <= g /\ r.counter <= g
  BY <1>1 DEF Greatest
<1>6. /\ wall = h.wall_millis => h.counter <= o.counter /\ o.counter \in Nat
      /\ wall = r.wall_millis => r.counter <= o.counter /\ o.counter \in Nat
  <2>1. CASE wall = h.wall_millis /\ wall = r.wall_millis
    <3> DEFINE g == Greatest(h.counter, r.counter)
    <3>1. g \in Nat /\ g <= MaxCounter /\ h.counter <= g /\ r.counter <= g /\ o.counter = SaturatingInc(g)
      BY <1>4, <1>5, <2>1
    <3> HIDE DEF g
    <3>2. g <= o.counter /\ o.counter \in Nat
      BY <3>1, IncNotLess
    <3> QED BY <1>1, <3>1, <3>2
  <2>2. CASE wall = h.wall_millis /\ wall # r.wall_millis
    BY <1>1, <1>4, <2>2, IncNotLess
  <2>3. CASE wall # h.wall_millis /\ wall = r.wall_millis
    BY <1>1, <1>4, <2>3, IncNotLess
  <2> QED BY <2>1, <2>2, <2>3
<1>7. NotAfter(r, o)
  BY <1>1, <1>2, <1>3, <1>6 DEF NotAfter
<1>8. ASSUME NEW x \in Hlc, NotAfter(x, h) PROVE NotAfter(x, o)
  <2>1. x.wall_millis \in Nat /\ x.counter \in Nat
    BY StampParts
  <2> QED BY <1>1, <1>2, <1>3, <1>6, <1>8, <2>1 DEF NotAfter
<1> QED BY <1>7, <1>8 DEF o

-----------------------------------------------------------------------------
(* pull: one event is applied. *)

LEMMA ApplyKeeps ==
  ASSUME IInv, NEW d \in Device, NEW now \in Wall, ApplyEvent(d, now)
  PROVE  IInv'
<1>1. PICK c : c = log[round[d].pos]
  OBVIOUS
<1>2. /\ round[d].pc = "apply" /\ round[d].pos <= round[d].end
      /\ c.refs \subseteq local[d]
      /\ hlc' = [hlc EXCEPT ![d] = Observe(hlc[d], c.clock, now)]
      /\ rep' = [rep EXCEPT ![d] = ApplyChange(rep[d], c)]
      /\ applied' = [applied EXCEPT ![d] = @ \cup {c.id}]
      /\ round' = [round EXCEPT ![d] = [round[d] EXCEPT !.pos = @ + 1]]
      /\ UNCHANGED <<outbox, acked, cursor, local, log, blobs>>
  BY <1>1 DEF ApplyEvent, InPage, In, Incoming, NextEvent, Enter, server
<1>3. now \in Nat
  BY EngineAssumption
<1>4. round[d] \in Round /\ PageFits(d, round[d])
  BY DEF IInv, DataOK, TypeOK, RoundsOK
<1>5. /\ round[d].pos \in 1..Len(log) /\ round[d].pos \in 1..(round[d].end + 1)
      /\ round[d].end <= Len(log) /\ round[d].end \in Nat
      /\ \A i \in 1..(round[d].pos - 1) : Passed(d, i)
  <2>1. Len(log) \in Nat
    BY LenTypes DEF IInv, DataOK
  <2> QED BY <1>2, <1>4, <2>1 DEF PageFits, Round
<1>6. c \in Change /\ c.clock \in Hlc /\ c.id \in ChangeId /\ c.device_id \in Device
  <2>1. c \in Change
    BY <1>1, <1>5, LenTypes DEF IInv, DataOK
  <2> QED BY <2>1 DEF Change
<1>7. /\ c.id[2] \in 1..Len(outbox[c.device_id]) /\ c = outbox[c.device_id][c.id[2]]
      /\ c.id = <<c.device_id, c.id[2]>>
  <2>1. SentBy(c.device_id, c)
    BY <1>1, <1>5 DEF IInv, DataOK, LogSent
  <2>2. c.id = <<c.device_id, c.id[2]>>
    <3>1. RowOfLog(round[d].pos, c.device_id, 0)
      BY <1>5, <1>6, LogRow DEF IInv, DataOK, RowsOfLog
    <3> QED BY <1>1, <3>1 DEF RowOfLog
  <2> QED BY <2>1, <2>2 DEF SentBy
<1>8. c.kind # "edge" => c.target \in Entity
  BY <1>6, <1>7 DEF IInv, DataOK, Numbered
<1>9. Restamped(ApplyChange(rep[d], c), rep[d], c.clock)
  BY <1>6, <1>8, ApplyRestamps DEF IInv, DataOK, TypeOK
<1>10. c.id \in Ids(log)
  BY <1>1, <1>5, IdsOf DEF IInv, DataOK, TypeOK
<1>11. PICK x : x = [round[d] EXCEPT !.pos = @ + 1]
  OBVIOUS
<1>12. x \in Round /\ x.pc = "apply" /\ x.pos = round[d].pos + 1 /\ x.end = round[d].end
  BY <1>2, <1>4, <1>11 DEF Round
<1>13. Observe(hlc[d], c.clock, now) \in Hlc
  BY <1>3, <1>6, ObserveDominates DEF IInv, DataOK, TypeOK
<1>14. TypeOK'
  <2>1. hlc' \in [Device -> Hlc]
    BY <1>2, <1>13 DEF IInv, DataOK, TypeOK
  <2>2. DOMAIN rep' = Device /\ \A o \in Device : Clocked(rep'[o])
    <3>1. \A o \in Device : rep'[o] = IF o = d THEN ApplyChange(rep[d], c) ELSE rep[o]
      BY <1>2 DEF IInv, DataOK, TypeOK
    <3>2. DOMAIN rep' = Device
      BY <1>2 DEF IInv, DataOK, TypeOK
    <3>3. \A o \in Device : Clocked(rep[o])
      BY DEF IInv, DataOK, TypeOK
    <3> QED BY <1>9, <3>1, <3>2, <3>3 DEF Restamped
  <2>3. applied' \in [Device -> SUBSET ChangeId]
    BY <1>2, <1>6 DEF IInv, DataOK, TypeOK
  <2>4. round' \in [Device -> Round]
    BY <1>2, <1>11, <1>12 DEF IInv, DataOK, TypeOK
  <2>5. \A o \in Device : Clocked(rep[o])'
    BY <2>2 DEF Clocked
  <2> QED BY <1>2, <2>1, <2>2, <2>3, <2>4, <2>5 DEF IInv, DataOK, TypeOK
<1>15. Numbered' /\ LogSent' /\ LogInOrder' /\ LogWithoutGap' /\ RowsBased' /\ LogBased'
  BY <1>2, OrderKept DEF IInv
<1>16. \A o \in Device : applied[o] \subseteq applied'[o] /\ (o # d => applied'[o] = applied[o])
  BY <1>2 DEF IInv, DataOK, TypeOK
<1>17. applied'[d] = applied[d] \cup {c.id}
  BY <1>2 DEF IInv, DataOK, TypeOK
<1>18. Recorded'
  <2>1. Ids(log)' = Ids(log)
    BY <1>2 DEF Ids
  <2> QED BY <1>2, <1>10, <1>16, <1>17, <2>1 DEF IInv, DataOK, Recorded
\* What d has after the step is what it had, and c.
<1>19. ASSUME NEW q \in Device, NEW o \in Device, NEW k \in 1..Len(outbox[o]), Has(q, o, k)'
       PROVE  Has(q, o, k) \/ (q = d /\ outbox[o][k] = c)
  <2>1. o = q \/ <<o, k>> \in applied'[q]
    BY <1>19 DEF Has
  <2>2. CASE q = d /\ <<o, k>> = c.id
    <3>1. o = c.device_id /\ k = c.id[2]
      BY <1>7, <2>2
    <3> QED BY <1>7, <2>2, <3>1
  <2> QED BY <1>16, <1>17, <2>1, <2>2 DEF Has
<1>20. ClocksKnown'
  <2> SUFFICES ASSUME NEW q \in Device, NEW e \in Entity, NEW f \in Field,
                      rep'[q].clk[e][f] # NoClock
               PROVE  \E o \in Device : \E k \in 1..Len(outbox[o]) :
                        Has(q, o, k)' /\ outbox[o][k].clock = rep'[q].clk[e][f]
    BY <1>2 DEF ClocksKnown
  <2>1. \A o \in Device : \A k : Has(q, o, k) => Has(q, o, k)'
    BY <1>16 DEF Has
  <2>2. CASE rep'[q].clk[e][f] = rep[q].clk[e][f]
    <3>1. \E o \in Device : \E k \in 1..Len(outbox[o]) :
            Has(q, o, k) /\ outbox[o][k].clock = rep[q].clk[e][f]
      BY <2>2 DEF IInv, DataOK, ClocksKnown
    <3> QED BY <2>1, <2>2, <3>1
  <2>3. CASE q = d /\ rep'[q].clk[e][f] = c.clock
    <3>1. Has(d, c.device_id, c.id[2])'
      BY <1>7, <1>17 DEF Has
    <3> QED BY <1>6, <1>7, <2>3, <3>1
  <2>4. rep'[q] = IF q = d THEN ApplyChange(rep[d], c) ELSE rep[q]
    BY <1>2 DEF IInv, DataOK, TypeOK
  <2>5. rep'[q].clk[e][f] = rep[q].clk[e][f] \/ (q = d /\ rep'[q].clk[e][f] = c.clock)
    BY <1>9, <2>4 DEF Restamped
  <2> QED BY <2>2, <2>3, <2>5
<1>21. ClockAhead'
  <2> SUFFICES ASSUME NEW q \in Device, NEW o \in Device, NEW k \in 1..Len(outbox[o]), Has(q, o, k)'
               PROVE  NotAfter(outbox[o][k].clock, hlc'[q])
    BY <1>2 DEF ClockAhead, NotAfter
  <2>1. Has(q, o, k) => NotAfter(outbox[o][k].clock, hlc[q])
    BY DEF IInv, DataOK, ClockAhead
  <2>2. outbox[o][k].clock \in Hlc
    BY LenTypes DEF IInv, DataOK, Change
  <2>3. CASE q = d
    <3>1. hlc'[q] = Observe(hlc[d], c.clock, now) /\ hlc[d] \in Hlc
      BY <1>2, <2>3 DEF IInv, DataOK, TypeOK
    <3>2. /\ NotAfter(c.clock, Observe(hlc[d], c.clock, now))
          /\ \A y \in Hlc : NotAfter(y, hlc[d]) => NotAfter(y, Observe(hlc[d], c.clock, now))
      BY <1>3, <1>6, <3>1, ObserveNotBehind
    <3>3. Has(q, o, k) \/ outbox[o][k] = c
      BY <1>19
    <3> QED BY <2>1, <2>2, <2>3, <3>1, <3>2, <3>3
  <2>4. CASE q # d
    <3>1. hlc'[q] = hlc[q]
      BY <1>2, <2>4 DEF IInv, DataOK, TypeOK
    <3> QED BY <1>19, <2>1, <2>4, <3>1
  <2> QED BY <2>3, <2>4
<1>22. LogBlobs'
  BY <1>2 DEF IInv, DataOK, LogBlobs
<1>23. LocalBlobs'
  <2> SUFFICES ASSUME NEW q \in Device, NEW o \in Device, NEW k \in 1..Len(outbox[o]), Has(q, o, k)'
               PROVE  outbox[o][k].refs \subseteq local[q]
    BY <1>2 DEF LocalBlobs
  <2>1. Has(q, o, k) => outbox[o][k].refs \subseteq local[q]
    BY DEF IInv, DataOK, LocalBlobs
  <2> QED BY <1>2, <1>19, <2>1
<1>24. NothingSkipped'
  BY <1>2, <1>16 DEF IInv, DataOK, NothingSkipped
<1>25. Grows
  BY <1>2, <1>16, LenTypes DEF IInv, DataOK, Grows
<1>26. DataOK'
  BY <1>14, <1>15, <1>18, <1>20, <1>21, <1>22, <1>23, <1>24 DEF DataOK
<1>27. BatchFits(d, x)'
  BY <1>12 DEF BatchFits
<1>28. PageFits(d, x)'
  <2>1. x.pos \in 1..(x.end + 1) /\ x.end <= Len(log)
    BY <1>2, <1>5, <1>12
  <2>2. ASSUME NEW i \in 1..(x.pos - 1) PROVE Passed(d, i)'
    <3>1. i \in 1..(round[d].pos - 1) \/ i = round[d].pos
      BY <1>5, <1>12
    <3>2. CASE i = round[d].pos
      BY <1>1, <1>2, <1>17, <3>2 DEF Passed
    <3>3. CASE i \in 1..(round[d].pos - 1)
      <4>1. Passed(d, i)
        BY <1>5, <3>3
      <4> QED BY <1>2, <1>16, <4>1 DEF Passed
    <3> QED BY <3>1, <3>2, <3>3
  <2> QED BY <1>2, <2>1, <2>2 DEF PageFits
<1>29. round' = [round EXCEPT ![d] = x]
  BY <1>2, <1>11
<1> QED BY <1>12, <1>14, <1>25, <1>26, <1>27, <1>28, <1>29, RoundsKept DEF IInv, DataOK

-----------------------------------------------------------------------------
(* emit_change: a local mutation. *)

\* A finite set of stamps has a greatest one: what the CHOOSE of ObservedProseVersion
\* relies on.
LEMMA GreatestStamp ==
  ASSUME NEW S \in SUBSET Hlc, IsFiniteSet(S), S # {}
  PROVE  \E c \in S : \A k \in S : AtMost(k, c)
<1> DEFINE Has1(T) == \E c \in T : \A k \in T : AtMost(k, c)
           bad == {n \in Nat : \E T \in SUBSET Hlc :
                     /\ IsFiniteSet(T) /\ T # {} /\ Cardinality(T) = n /\ ~Has1(T)}
<1>1. SUFFICES ASSUME bad # {} PROVE FALSE
  <2>1. Cardinality(S) \in Nat
    BY FS_CardinalityType
  <2> QED BY <2>1
<1>2. PICK n \in bad : \A m \in bad : n <= m
  BY <1>1, LeastMember
<1>3. PICK T \in SUBSET Hlc : IsFiniteSet(T) /\ T # {} /\ Cardinality(T) = n /\ ~Has1(T)
  OBVIOUS
<1>4. PICK x \in T : TRUE
  BY <1>3
<1> DEFINE U == T \ {x}
<1>5. IsFiniteSet(U) /\ Cardinality(U) = n - 1 /\ U \in SUBSET Hlc /\ x \in Hlc
  BY <1>3, <1>4, FS_RemoveElement
<1>6. n \in Nat /\ n - 1 \in Nat
  BY <1>5, FS_CardinalityType
<1>7. U = {} \/ Has1(U)
  <2>1. SUFFICES ASSUME U # {}, ~Has1(U) PROVE FALSE
    OBVIOUS
  <2>2. n - 1 \in bad
    BY <1>5, <1>6, <2>1
  <2> HIDE DEF bad
  <2> QED BY <1>2, <1>6, <2>2
<1>8. CASE U = {}
  <2>1. \A k \in T : k = x
    BY <1>8
  <2> QED BY <1>3, <1>4, <2>1 DEF AtMost
<1>9. CASE Has1(U)
  <2>1. PICK c \in U : \A k \in U : AtMost(k, c)
    BY <1>9
  <2>2. c \in Hlc /\ c \in T /\ (c = x \/ Before(c, x) \/ Before(x, c))
    BY <1>5, <2>1, StampsTotallyOrdered
  <2>3. CASE AtMost(x, c)
    <3>1. \A k \in T : AtMost(k, c)
      BY <2>1, <2>3
    <3> QED BY <1>3, <2>2, <3>1
  <2>4. CASE Before(c, x)
    <3>1. ASSUME NEW k \in T PROVE AtMost(k, x)
      <4>1. k = x \/ AtMost(k, c)
        BY <2>1
      <4>2. k \in Hlc
        OBVIOUS
      <4> QED BY <1>5, <2>2, <2>4, <4>1, <4>2, StampsTotallyOrdered DEF AtMost
    <3> QED BY <1>3, <1>4, <3>1
  <2> QED BY <2>2, <2>3, <2>4 DEF AtMost
<1> QED BY <1>7, <1>8, <1>9

\* The base of a change is a clock of the device's replica, or none.
LEMMA BaseIsClock ==
  ASSUME NEW r, Clocked(r), NEW e \in Entity
  PROVE  /\ \A fs \in Fields :
              BaseVersionFor(r, e, fs) = NoClock \/ \E f \in Field : BaseVersionFor(r, e, fs) = r.clk[e][f]
         /\ \/ ObservedProseVersion(r, e) = NoClock
            \/ \E f \in Field : ObservedProseVersion(r, e) = r.clk[e][f]
<1>1. ASSUME NEW fs \in Fields
      PROVE  BaseVersionFor(r, e, fs) = NoClock \/ \E f \in Field : BaseVersionFor(r, e, fs) = r.clk[e][f]
  <2>1. CASE DOMAIN fs \cap ProseField = {}
    BY <2>1 DEF BaseVersionFor
  <2>2. CASE DOMAIN fs \cap ProseField # {}
    <3>1. PICK f : f = CHOOSE g \in DOMAIN fs \cap ProseField : TRUE
      OBVIOUS
    <3>2. f \in ProseField
      BY <2>2, <3>1
    <3>3. BaseVersionFor(r, e, fs) = r.clk[e][f]
      BY <2>2, <3>1 DEF BaseVersionFor
    <3> QED BY <3>2, <3>3 DEF Field
  <2> QED BY <2>1, <2>2
<1>2. \/ ObservedProseVersion(r, e) = NoClock
      \/ \E f \in Field : ObservedProseVersion(r, e) = r.clk[e][f]
  <2> DEFINE all == {r.clk[e][f] : f \in ProseField}
             seen == all \ {NoClock}
  <2>1. CASE ~r.row[e] \/ seen = {}
    BY <2>1 DEF ObservedProseVersion
  <2>2. CASE r.row[e] /\ seen # {}
    <3>1. seen \in SUBSET Hlc
      BY DEF Clocked, Field, OptionHlc
    <3>2. IsFiniteSet(all)
      <4>1. IsFiniteSet(ProseField)
        BY ReplicaAssumption
      <4> DEFINE g == [f \in ProseField |-> r.clk[e][f]]
      <4>2. g \in [ProseField -> all] /\ \A t \in all : \E f \in ProseField : g[f] = t
        OBVIOUS
      <4>3. g \in Surjection(ProseField, all)
        BY <4>2 DEF Surjection
      <4> HIDE DEF g, all
      <4> QED BY <4>1, <4>3, FS_Surjection
    <3>3. IsFiniteSet(seen)
      BY <3>2, FS_Subset
    <3>4. \E c \in seen : \A k \in seen : AtMost(k, c)
      <4> HIDE DEF seen
      <4> QED BY <2>2, <3>1, <3>3, GreatestStamp
    <3>5. PICK c : c = CHOOSE m \in seen : \A k \in seen : AtMost(k, m)
      OBVIOUS
    <3>6. c \in seen
      <4> HIDE DEF seen
      <4> QED BY <3>4, <3>5
    <3>7. ObservedProseVersion(r, e) = c
      BY <2>2, <3>5 DEF ObservedProseVersion
    <3> QED BY <3>6, <3>7 DEF Field
  <2> QED BY <2>1, <2>2
<1> QED BY <1>1, <1>2

\* What emit_change writes, whatever the kind of the edit.
Emits(d, r, edit, clock, new) ==
  /\ Restamped(Written(d, edit, clock), r, clock)
  /\ new \in Change
  /\ new.id = <<d, Len(outbox[d]) + 1>> /\ new.device_id = d
  /\ new.clock = clock /\ new.refs = edit.refs
  /\ new.kind # "edge" => new.target \in Entity
  /\ new.base = NoClock \/ \E e \in Entity : \E f \in Field : new.base = r.clk[e][f]

LEMMA EmitWrites ==
  ASSUME NEW r, Clocked(r), NEW edit \in Edits, NEW clock \in Hlc, NEW d \in Device,
         rep[d] = r, outbox[d] \in Seq(Change),
         NEW new, new = OutboxRow(d, Body(d, edit, clock), edit.refs)
  PROVE  Emits(d, r, edit, clock, new)
<1> DEFINE body == Body(d, edit, clock)
<1>1. edit \in Edit /\ (edit.kind # "edge" => edit.target \in Entity)
  BY EngineAssumption
<1>2. /\ edit.kind \in {"fields", "delete", "edge"} /\ edit.target \in Entity \cup Edge
      /\ edit.fields \in Fields /\ edit.present \in BOOLEAN /\ edit.refs \in SUBSET Blob
  BY <1>1 DEF Edit
<1>3. NoFields \in Fields
  <2>1. NoFields \in [{} -> Value]
    BY DEF NoFields
  <2> QED BY <2>1 DEF Fields
<1>4. /\ body.kind = edit.kind /\ body.target = edit.target /\ body.clock = clock
      /\ body.fields \in Fields /\ body.present \in BOOLEAN
      /\ body.base = NoClock \/ \E e \in Entity : \E f \in Field : body.base = r.clk[e][f]
  <2>1. CASE edit.kind = "fields"
    <3>1. body = WriteBody(r, edit.target, edit.fields, clock)
      BY <2>1 DEF Body
    <3>2. edit.target \in Entity
      BY <1>1, <2>1
    <3>3. \/ BaseVersionFor(r, edit.target, edit.fields) = NoClock
          \/ \E f \in Field : BaseVersionFor(r, edit.target, edit.fields) = r.clk[edit.target][f]
      BY <1>2, <3>2, BaseIsClock
    <3> HIDE DEF body
    <3> QED BY <1>2, <2>1, <3>1, <3>2, <3>3 DEF WriteBody, ChangeBody
  <2>2. CASE edit.kind = "delete"
    <3>1. body = DeleteBody(r, edit.target, clock)
      BY <2>2 DEF Body
    <3>2. edit.target \in Entity
      BY <1>1, <2>2
    <3>3. \/ ObservedProseVersion(r, edit.target) = NoClock
          \/ \E f \in Field : ObservedProseVersion(r, edit.target) = r.clk[edit.target][f]
      BY <3>2, BaseIsClock
    <3> HIDE DEF body
    <3> QED BY <1>2, <1>3, <2>2, <3>1, <3>2, <3>3 DEF DeleteBody, ChangeBody
  <2>3. CASE edit.kind = "edge"
    <3>1. body = EdgeBody(edit.target, edit.present, clock)
      BY <2>3 DEF Body
    <3> HIDE DEF body
    <3> QED BY <1>2, <1>3, <2>3, <3>1 DEF EdgeBody, ChangeBody
  <2> QED BY <1>2, <2>1, <2>2, <2>3
<1>5. Restamped(Written(d, edit, clock), r, clock)
  <2>1. CASE edit.kind = "fields"
    <3>1. Written(d, edit, clock) = LocalWrite(r, edit.target, edit.fields, clock)
      BY <2>1 DEF Written
    <3> QED BY <1>1, <2>1, <3>1, LocalWriteRestamps
  <2>2. CASE edit.kind = "delete"
    <3>1. Written(d, edit, clock) = LocalDelete(r, edit.target, clock)
      BY <2>2 DEF Written
    <3> QED BY <3>1, LocalDeleteRestamps
  <2>3. CASE edit.kind = "edge"
    <3>1. Written(d, edit, clock) = LocalEdge(r, edit.target, edit.present, clock)
      BY <2>3 DEF Written
    <3> QED BY <3>1, LocalEdgeRestamps
  <2> QED BY <1>2, <2>1, <2>2, <2>3
<1> HIDE DEF body
<1>6. /\ new.id = <<d, Len(outbox[d]) + 1>> /\ new.device_id = d /\ new.refs = edit.refs
      /\ new.clock = clock /\ new.kind = edit.kind /\ new.target = edit.target /\ new.base = body.base
  <2>1. new = OutboxRow(d, body, edit.refs)
    BY DEF body
  <2> QED BY <1>4, <2>1 DEF OutboxRow
<1>7. new \in Change
  <2>1. <<d, Len(outbox[d]) + 1>> \in ChangeId
    BY LenProperties DEF ChangeId
  <2>2. body.base \in OptionHlc
    <3>1. \A e \in Entity : \A f \in Field : r.clk[e][f] \in OptionHlc
      BY DEF Clocked
    <3> QED BY <1>4, <3>1 DEF OptionHlc
  <2>3. new = OutboxRow(d, body, edit.refs)
    BY DEF body
  <2> QED BY <1>2, <1>4, <2>1, <2>2, <2>3 DEF OutboxRow, Change
<1>8. new.kind # "edge" => new.target \in Entity
  BY <1>1, <1>6
<1>9. \/ new.base = NoClock
      \/ \E e \in Entity : \E f \in Field : new.base = r.clk[e][f]
  BY <1>4, <1>6
<1> QED BY <1>5, <1>6, <1>7, <1>8, <1>9 DEF Emits

LEMMA EmitKeeps ==
  ASSUME IInv, NEW d \in Device, NEW edit \in Edits, NEW now \in Wall, EmitChange(d, edit, now)
  PROVE  IInv'
<1>1. PICK clock : clock = Tick(hlc[d], now)
  OBVIOUS
<1>2. PICK new : new = OutboxRow(d, Body(d, edit, clock), edit.refs)
  OBVIOUS
<1>3. PICK n : n = Len(outbox[d])
  OBVIOUS
<1>4. /\ hlc' = [hlc EXCEPT ![d] = clock]
      /\ rep' = [rep EXCEPT ![d] = Written(d, edit, clock)]
      /\ outbox' = [outbox EXCEPT ![d] = Append(outbox[d], new)]
      /\ local' = [local EXCEPT ![d] = @ \cup edit.refs]
      /\ UNCHANGED <<acked, applied, cursor, round, log, blobs>>
  BY <1>1, <1>2 DEF EmitChange, server
<1>5. now \in Nat /\ hlc[d] \in Hlc /\ clock \in Hlc
  <2>1. now \in Nat /\ hlc[d] \in Hlc
    BY EngineAssumption DEF IInv, DataOK, TypeOK
  <2> QED BY <1>1, <2>1, TickAdvances
<1>6. /\ outbox[d] \in Seq(Change) /\ n \in Nat
      /\ \A o \in Device : outbox[o] \in Seq(Change) /\ Len(outbox[o]) \in Nat
  BY <1>3, LenTypes DEF IInv, DataOK
<1>7. /\ Restamped(Written(d, edit, clock), rep[d], clock)
      /\ new \in Change
      /\ new.id = <<d, n + 1>> /\ new.device_id = d
      /\ new.clock = clock /\ new.refs = edit.refs
      /\ new.kind # "edge" => new.target \in Entity
      /\ new.base = NoClock \/ \E e \in Entity : \E f \in Field : new.base = rep[d].clk[e][f]
  <2>1. PICK r : r = rep[d]
    OBVIOUS
  <2>2. Clocked(r)
    BY <2>1 DEF IInv, DataOK, TypeOK
  <2>3. rep[d] = r /\ clock \in Hlc /\ outbox[d] \in Seq(Change)
    BY <1>5, <1>6, <2>1
  <2>4. Emits(d, r, edit, clock, new)
    BY <1>2, <2>2, <2>3, EmitWrites
  <2> QED BY <1>3, <2>1, <2>4 DEF Emits
<1>8. /\ outbox'[d] \in Seq(Change) /\ Len(outbox'[d]) = n + 1 /\ outbox'[d][n + 1] = new
      /\ \A k \in 1..n : outbox'[d][k] = outbox[d][k]
      /\ \A o \in Device : o # d => outbox'[o] = outbox[o]
  <2>1. outbox'[d] = Append(outbox[d], new) /\ \A o \in Device : o # d => outbox'[o] = outbox[o]
    BY <1>4 DEF IInv, DataOK, TypeOK
  <2> QED BY <1>3, <1>6, <1>7, <2>1, AppendProperties
\* A row of an outbox is an old one, in its place, or the new one.
<1>9. \A o \in Device : \A k \in 1..Len(outbox'[o]) :
        \/ k \in 1..Len(outbox[o]) /\ outbox'[o][k] = outbox[o][k]
        \/ o = d /\ k = n + 1 /\ outbox'[o][k] = new
  <2> SUFFICES ASSUME NEW o \in Device, NEW k \in 1..Len(outbox'[o])
               PROVE  \/ k \in 1..Len(outbox[o]) /\ outbox'[o][k] = outbox[o][k]
                      \/ o = d /\ k = n + 1 /\ outbox'[o][k] = new
    OBVIOUS
  <2>1. CASE o = d
    <3>1. k \in 1..n \/ k = n + 1
      BY <1>6, <1>8, <2>1
    <3> QED BY <1>3, <1>8, <2>1, <3>1
  <2>2. CASE o # d
    BY <1>8, <2>2
  <2> QED BY <2>1, <2>2
<1>10. \A o \in Device : \A k \in 1..Len(outbox[o]) :
         k \in 1..Len(outbox'[o]) /\ outbox'[o][k] = outbox[o][k]
  <2>1. \A k \in 1..n : k \in 1..(n + 1)
    BY <1>6
  <2> QED BY <1>3, <1>8, <2>1
<1>11. TypeOK'
  <2>1. hlc' \in [Device -> Hlc]
    BY <1>4, <1>5 DEF IInv, DataOK, TypeOK
  <2>2. DOMAIN rep' = Device /\ \A o \in Device : Clocked(rep'[o])
    <3>1. \A o \in Device : rep'[o] = IF o = d THEN Written(d, edit, clock) ELSE rep[o]
      BY <1>4 DEF IInv, DataOK, TypeOK
    <3>2. DOMAIN rep' = Device
      BY <1>4 DEF IInv, DataOK, TypeOK
    <3>3. \A o \in Device : Clocked(rep[o])
      BY DEF IInv, DataOK, TypeOK
    <3> QED BY <1>7, <3>1, <3>2, <3>3 DEF Restamped
  <2>3. \A o \in Device : Clocked(rep[o])'
    BY <2>2 DEF Clocked
  <2>4. outbox' \in [Device -> Seq(Change)]
    <3>1. Append(outbox[d], new) \in Seq(Change)
      BY <1>6, <1>7, AppendProperties
    <3> QED BY <1>4, <3>1 DEF IInv, DataOK, TypeOK
  <2>5. local' \in [Device -> SUBSET Blob]
    <3>1. edit.refs \in SUBSET Blob
      BY EngineAssumption DEF Edit
    <3> QED BY <1>4, <3>1 DEF IInv, DataOK, TypeOK
  <2> QED BY <1>4, <2>1, <2>2, <2>3, <2>4, <2>5 DEF IInv, DataOK, TypeOK
<1>12. Numbered'
  <2> SUFFICES ASSUME NEW o \in Device, NEW k \in 1..Len(outbox'[o])
               PROVE  /\ outbox'[o][k].id = <<o, k>> /\ outbox'[o][k].device_id = o
                      /\ outbox'[o][k].kind # "edge" => outbox'[o][k].target \in Entity
    BY DEF Numbered
  <2>1. CASE k \in 1..Len(outbox[o]) /\ outbox'[o][k] = outbox[o][k]
    BY <2>1 DEF IInv, DataOK, Numbered
  <2>2. CASE o = d /\ k = n + 1 /\ outbox'[o][k] = new
    BY <1>7, <2>2
  <2> QED BY <1>9, <2>1, <2>2
<1>13. LogSent'
  <2> SUFFICES ASSUME NEW i \in 1..Len(log)
               PROVE  /\ log[i].id[2] \in 1..Len(outbox'[log[i].device_id])
                      /\ log[i] = outbox'[log[i].device_id][log[i].id[2]]
    BY <1>4 DEF LogSent, SentBy
  <2>1. log[i].device_id \in Device
    BY LenTypes DEF IInv, DataOK, Change
  <2>2. /\ log[i].id[2] \in 1..Len(outbox[log[i].device_id])
        /\ log[i] = outbox[log[i].device_id][log[i].id[2]]
    BY DEF IInv, DataOK, LogSent, SentBy
  <2> QED BY <1>10, <2>1, <2>2
<1>14. LogInOrder' /\ LogBased' /\ LogBlobs' /\ NothingSkipped'
  <2>1. LogInOrder'
    BY <1>4 DEF IInv, DataOK, LogInOrder
  <2>2. LogBased'
    BY <1>4 DEF IInv, DataOK, LogBased
  <2>3. LogBlobs' /\ NothingSkipped'
    BY <1>4 DEF IInv, DataOK, LogBlobs, NothingSkipped
  <2> QED BY <2>1, <2>2, <2>3
<1>15. LogWithoutGap'
  BY <1>4 DEF IInv, DataOK, LogWithoutGap
<1>16. Ids(log)' = Ids(log)
  BY <1>4 DEF Ids
<1>17. Recorded'
  BY <1>4, <1>16 DEF IInv, DataOK, Recorded
\* Nobody has heard of the new change but d.
<1>18. ASSUME NEW q \in Device, NEW o \in Device, NEW k \in 1..Len(outbox'[o]), Has(q, o, k)'
       PROVE  \/ k \in 1..Len(outbox[o]) /\ outbox'[o][k] = outbox[o][k] /\ Has(q, o, k)
              \/ q = d /\ outbox'[o][k] = new
  <2>1. Has(q, o, k)
    BY <1>4, <1>18 DEF Has
  <2>2. CASE o = d /\ k = n + 1 /\ outbox'[o][k] = new
    <3>1. SUFFICES ASSUME q # d PROVE FALSE
      BY <2>2
    <3>2. <<d, n + 1>> \in Ids(log)
      BY <2>1, <2>2, <3>1 DEF Has, IInv, DataOK, Recorded
    <3>3. PICK i \in 1..Len(log) : log[i].id = <<d, n + 1>>
      BY <3>2, IdsOf DEF IInv, DataOK, TypeOK
    <3>4. n + 1 \in Nat /\ ~(n + 1 \in 1..n)
      BY <1>6
    <3>5. RowOfLog(i, d, n + 1)
      BY <3>3, <3>4, LogRow DEF IInv, DataOK, RowsOfLog
    <3> QED BY <1>3, <3>3, <3>4, <3>5 DEF RowOfLog
  <2> QED BY <1>9, <2>1, <2>2
<1>19. RowsBased'
  <2> SUFFICES ASSUME NEW o \in Device, NEW k \in 1..Len(outbox'[o]), outbox'[o][k].base # NoClock
               PROVE  \E p \in Device : \E m \in 1..Len(outbox'[p]) :
                        /\ outbox'[p][m].clock = outbox'[o][k].base
                        /\ (p = o /\ m < k) \/ <<p, m>> \in Ids(log)
    BY <1>16 DEF RowsBased, Based
  <2>1. CASE k \in 1..Len(outbox[o]) /\ outbox'[o][k] = outbox[o][k]
    <3>1. Based(o, k)
      BY <2>1 DEF IInv, DataOK, RowsBased
    <3>2. \E p \in Device : \E m \in 1..Len(outbox[p]) :
            /\ outbox[p][m].clock = outbox[o][k].base
            /\ (p = o /\ m < k) \/ <<p, m>> \in Ids(log)
      BY <2>1, <3>1 DEF Based
    <3> QED BY <1>10, <2>1, <3>2
  <2>2. CASE o = d /\ k = n + 1 /\ outbox'[o][k] = new
    <3>1. PICK e \in Entity : \E f \in Field : new.base = rep[d].clk[e][f]
      BY <1>7, <2>2
    <3>2. PICK f \in Field : new.base = rep[d].clk[e][f]
      BY <3>1
    <3>3. \E p \in Device : \E m \in 1..Len(outbox[p]) :
            Has(d, p, m) /\ outbox[p][m].clock = new.base
      BY <2>2, <3>2 DEF IInv, DataOK, ClocksKnown
    <3>4. PICK p \in Device : \E m \in 1..Len(outbox[p]) :
            Has(d, p, m) /\ outbox[p][m].clock = new.base
      BY <3>3
    <3>5. PICK m \in 1..Len(outbox[p]) : Has(d, p, m) /\ outbox[p][m].clock = new.base
      BY <3>4
    <3>6. (p = o /\ m < k) \/ <<p, m>> \in Ids(log)
      <4>1. CASE p = d
        BY <1>3, <1>6, <2>2, <4>1
      <4>2. CASE <<p, m>> \in applied[d]
        BY <4>2 DEF IInv, DataOK, Recorded
      <4> QED BY <3>5, <4>1, <4>2 DEF Has
    <3>7. m \in 1..Len(outbox'[p]) /\ outbox'[p][m].clock = outbox'[o][k].base
      BY <1>10, <2>2, <3>5
    <3> QED BY <3>6, <3>7
  <2> QED BY <1>9, <2>1, <2>2
<1>20. ClocksKnown'
  <2> SUFFICES ASSUME NEW q \in Device, NEW e \in Entity, NEW f \in Field,
                      rep'[q].clk[e][f] # NoClock
               PROVE  \E o \in Device : \E k \in 1..Len(outbox'[o]) :
                        Has(q, o, k)' /\ outbox'[o][k].clock = rep'[q].clk[e][f]
    BY DEF ClocksKnown
  <2>1. rep'[q] = IF q = d THEN Written(d, edit, clock) ELSE rep[q]
    BY <1>4 DEF IInv, DataOK, TypeOK
  <2>2. rep'[q].clk[e][f] = rep[q].clk[e][f] \/ (q = d /\ rep'[q].clk[e][f] = clock)
    BY <1>7, <2>1 DEF Restamped
  <2>3. CASE rep'[q].clk[e][f] = rep[q].clk[e][f]
    <3>1. \E o \in Device : \E k \in 1..Len(outbox[o]) :
            Has(q, o, k) /\ outbox[o][k].clock = rep[q].clk[e][f]
      BY <2>3 DEF IInv, DataOK, ClocksKnown
    <3>2. \A o, k : Has(q, o, k) => Has(q, o, k)'
      BY <1>4 DEF Has
    <3> QED BY <1>10, <2>3, <3>1, <3>2
  <2>4. CASE q = d /\ rep'[q].clk[e][f] = clock
    <3>1. n + 1 \in 1..Len(outbox'[d]) /\ outbox'[d][n + 1].clock = clock
      BY <1>6, <1>7, <1>8
    <3>2. Has(d, d, n + 1)'
      BY DEF Has
    <3> QED BY <2>4, <3>1, <3>2
  <2> QED BY <2>2, <2>3, <2>4
<1>21. ClockAhead'
  <2> SUFFICES ASSUME NEW q \in Device, NEW o \in Device, NEW k \in 1..Len(outbox'[o]), Has(q, o, k)'
               PROVE  NotAfter(outbox'[o][k].clock, hlc'[q])
    BY DEF ClockAhead, NotAfter
  <2>1. hlc'[q] = IF q = d THEN clock ELSE hlc[q]
    BY <1>4 DEF IInv, DataOK, TypeOK
  <2>2. CASE k \in 1..Len(outbox[o]) /\ outbox'[o][k] = outbox[o][k] /\ Has(q, o, k)
    <3>1. NotAfter(outbox[o][k].clock, hlc[q])
      BY <2>2 DEF IInv, DataOK, ClockAhead
    <3>2. outbox[o][k].clock \in Hlc
      BY <2>2, LenTypes DEF IInv, DataOK, Change
    <3>3. q = d => NotAfter(outbox[o][k].clock, clock)
      BY <1>1, <1>5, <3>1, <3>2, TickNotBehind
    <3> QED BY <2>1, <2>2, <3>1, <3>3
  <2>3. CASE q = d /\ outbox'[o][k] = new
    <3>1. clock.counter <= clock.counter
      BY <1>5, StampParts
    <3> QED BY <1>7, <2>1, <2>3, <3>1 DEF NotAfter
  <2> QED BY <1>18, <2>2, <2>3
<1>22. LocalBlobs'
  <2> SUFFICES ASSUME NEW q \in Device, NEW o \in Device, NEW k \in 1..Len(outbox'[o]), Has(q, o, k)'
               PROVE  outbox'[o][k].refs \subseteq local'[q]
    BY DEF LocalBlobs
  <2>1. local[q] \subseteq local'[q] /\ (q = d => edit.refs \subseteq local'[q])
    BY <1>4 DEF IInv, DataOK, TypeOK
  <2>2. CASE k \in 1..Len(outbox[o]) /\ outbox'[o][k] = outbox[o][k] /\ Has(q, o, k)
    BY <2>1, <2>2 DEF IInv, DataOK, LocalBlobs
  <2>3. CASE q = d /\ outbox'[o][k] = new
    BY <1>7, <2>1, <2>3
  <2> QED BY <1>18, <2>2, <2>3
<1>23. Grows
  <2>1. \A o \in Device : Len(outbox[o]) <= Len(outbox'[o])
    BY <1>3, <1>6, <1>8
  <2>2. Len(log) \in Nat
    BY LenTypes DEF IInv, DataOK
  <2> QED BY <1>4, <1>10, <2>1, <2>2 DEF Grows
<1>24. RoundsOK'
  <2> SUFFICES ASSUME NEW o \in Device, NEW x \in {round[o]}
               PROVE  BatchFits(o, x)' /\ PageFits(o, x)'
    BY <1>4 DEF RoundsOK
  <2>1. x \in Round /\ BatchFits(o, x) /\ PageFits(o, x)
    BY DEF IInv, DataOK, TypeOK, RoundsOK
  <2> QED BY <1>11, <1>23, <2>1, FitsKept DEF IInv, DataOK
<1> QED BY <1>11, <1>12, <1>13, <1>14, <1>15, <1>17, <1>19, <1>20, <1>21, <1>22, <1>24
        DEF IInv, DataOK

-----------------------------------------------------------------------------
(* The invariant holds initially and every step keeps it. *)

LEMMA InitIInv == Init => IInv
<1> SUFFICES ASSUME Init PROVE IInv
  OBVIOUS
<1>1. /\ hlc = [d \in Device |-> Zero(d)] /\ rep = [d \in Device |-> EmptyReplica]
      /\ outbox = [d \in Device |-> <<>>] /\ acked = [d \in Device |-> {}]
      /\ applied = [d \in Device |-> {}] /\ cursor = [d \in Device |-> 0]
      /\ local = [d \in Device |-> {}] /\ round = [d \in Device |-> NoRound]
      /\ log = <<>> /\ blobs = {}
  BY DEF Init
<1>2. <<>> \in Seq(Change) /\ Len(log) = 0 /\ \A d \in Device : Len(outbox[d]) = 0
  BY <1>1
<1>3. /\ \A i \in 1..0 : FALSE
      /\ \A d \in Device : 1..Len(outbox[d]) = {}
  BY <1>2
<1>4. TypeOK
  <2>1. NoRound \in Round
    BY RestFits DEF NoRound
  <2>2. \A d \in Device : Zero(d) \in Hlc
    BY HlcAssumption DEF Zero, Hlc
  <2>3. \A d \in Device : Clocked(rep[d])
    BY <1>1, EmptyClocked
  <2> QED BY <1>1, <1>2, <2>1, <2>2, <2>3 DEF TypeOK
<1>5. Numbered /\ RowsBased /\ ClockAhead /\ LocalBlobs
  BY <1>3 DEF Numbered, RowsBased, ClockAhead, LocalBlobs
<1>6. LogSent /\ LogInOrder /\ LogWithoutGap /\ LogBased /\ LogBlobs
  BY <1>2, <1>3 DEF LogSent, LogInOrder, LogWithoutGap, LogBased, LogBlobs
<1>7. Recorded
  BY <1>1 DEF Recorded
<1>8. NothingSkipped
  <2> SUFFICES ASSUME NEW d \in Device
               PROVE  /\ cursor[d] <= Len(log)
                      /\ \A i \in 1..cursor[d] : log[i].device_id = d \/ log[i].id \in applied[d]
    BY DEF NothingSkipped
  <2>1. cursor[d] = 0
    BY <1>1
  <2>2. cursor[d] <= Len(log) /\ \A i \in 1..cursor[d] : FALSE
    BY <1>2, <2>1
  <2> QED BY <2>2
<1>9. ClocksKnown
  BY <1>1 DEF ClocksKnown, EmptyReplica
<1>10. RoundsOK
  <2>1. \A d \in Device : BatchFits(d, NoRound) /\ PageFits(d, NoRound)
    BY RestAlwaysFits DEF NoRoundFits
  <2> QED BY <1>1, <2>1 DEF RoundsOK
<1> QED BY <1>4, <1>5, <1>6, <1>7, <1>8, <1>9, <1>10 DEF IInv, DataOK

LEMMA EnrollKeeps ==
  ASSUME IInv, NEW d \in Device, Enroll(d)
  PROVE  IInv'
<1>1. UNCHANGED <<db, log, blobs, round>>
  BY DEF Enroll
<1>2. blobs \subseteq blobs' /\ blobs' \in SUBSET Blob /\ round' \in [Device -> Round]
  BY <1>1 DEF IInv, DataOK, TypeOK
<1>3. DataOK' /\ Grows
  BY <1>1, <1>2, DataKept DEF IInv
<1> SUFFICES ASSUME NEW o \in Device, NEW x \in {round[o]}
             PROVE  BatchFits(o, x)' /\ PageFits(o, x)'
  BY <1>1, <1>3 DEF IInv, RoundsOK
<1>4. x \in Round /\ BatchFits(o, x) /\ PageFits(o, x)
  BY DEF IInv, DataOK, TypeOK, RoundsOK
<1> QED BY <1>3, <1>4, FitsKept DEF IInv, DataOK

LEMMA ReadPendingKeeps ==
  ASSUME IInv, NEW d \in Device, ReadPending(d)
  PROVE  IInv'
<1>1. PICK x : x = Locals("upload", Pending(d), {}, 0, 0)
  OBVIOUS
<1>2. round' = [round EXCEPT ![d] = x] /\ UNCHANGED <<db, log, blobs>>
  BY <1>1 DEF ReadPending, Enter, server
<1>3. x \in Round /\ BatchFits(d, x) /\ PageFits(d, x)
  BY <1>1, PendingFits DEF IInv
<1> QED BY <1>2, <1>3, RoundStepKeeps

LEMMA FetchPageKeeps ==
  ASSUME IInv, NEW d \in Device, FetchPage(d)
  PROVE  IInv'
<1>1. PICK x : x = Locals("apply", <<>>, {}, cursor[d] + 1, Least(cursor[d] + BATCH, Len(log)))
  OBVIOUS
<1>2. round' = [round EXCEPT ![d] = x] /\ UNCHANGED <<db, log, blobs>> /\ cursor[d] < Len(log)
  BY <1>1 DEF FetchPage, Enter, server
<1>3. cursor[d] \in Nat /\ Len(log) \in Nat /\ BATCH \in Nat \ {0} /\ <<>> \in Seq(Change)
  BY LenTypes, EngineAssumption DEF IInv, DataOK, TypeOK
<1>4. /\ x.pc = "apply" /\ x.batch = <<>> /\ x.reply = {} /\ x.pos = cursor[d] + 1
      /\ x.end = Least(cursor[d] + BATCH, Len(log)) /\ x.pc # "ack" /\ x.pc # "upload"
  BY <1>1 DEF Locals
<1>5. x.end \in Nat /\ x.end <= Len(log) /\ cursor[d] < x.end
  BY <1>2, <1>3, <1>4 DEF Least
<1>6. x \in Round
  BY <1>1, <1>3, <1>4, <1>5 DEF Locals, Round
<1>7. BatchFits(d, x)
  BY <1>4 DEF BatchFits
<1>8. PageFits(d, x)
  <2>1. \A i \in 1..cursor[d] : Passed(d, i)
    BY DEF IInv, DataOK, NothingSkipped, Passed
  <2>2. x.pos - 1 = cursor[d] /\ x.pos \in 1..(x.end + 1)
    BY <1>3, <1>4, <1>5
  <2> QED BY <1>5, <2>1, <2>2 DEF PageFits
<1> QED BY <1>2, <1>6, <1>7, <1>8, RoundStepKeeps

LEMMA SkipEventKeeps ==
  ASSUME IInv, NEW d \in Device, SkipEvent(d)
  PROVE  IInv'
<1>1. PICK y : y = round[d]
  OBVIOUS
<1>2. PICK x : x = [y EXCEPT !.pos = y.pos + 1]
  OBVIOUS
<1>3. round' = [round EXCEPT ![d] = x] /\ UNCHANGED <<db, log, blobs>>
  BY <1>1, <1>2 DEF SkipEvent, NextEvent, Enter, server
<1>4. y \in Round /\ PageFits(d, y) /\ y.pc = "apply" /\ y.pos <= y.end
  BY <1>1 DEF IInv, DataOK, TypeOK, RoundsOK, SkipEvent, InPage, In
<1>5. Passed(d, y.pos)
  BY <1>1 DEF SkipEvent, Skippable, Incoming, Passed
<1>6. x \in Round /\ x.pc = "apply" /\ x.pos = y.pos + 1 /\ x.end = y.end
  BY <1>2, <1>4 DEF Round
<1>7. y.pos \in Nat /\ y.end \in Nat
  BY <1>4 DEF Round
<1>8. PageFits(d, x)
  <2>1. \A i \in 1..(x.pos - 1) : i \in 1..(y.pos - 1) \/ i = y.pos
    BY <1>6, <1>7
  <2>2. y.pos \in 1..(y.end + 1) /\ y.end <= Len(log) /\ \A i \in 1..(y.pos - 1) : Passed(d, i)
    BY <1>4 DEF PageFits
  <2>3. x.pos \in 1..(x.end + 1)
    BY <1>4, <1>6, <1>7, <2>2
  <2>4. \A i \in 1..(x.pos - 1) : Passed(d, i)
    BY <1>5, <2>1, <2>2
  <2> QED BY <1>6, <2>2, <2>3, <2>4 DEF PageFits
<1>9. BatchFits(d, x)
  BY <1>6 DEF BatchFits
<1> QED BY <1>3, <1>6, <1>8, <1>9, RoundStepKeeps

LEMMA NextKeepsIInv == IInv /\ [Next]_vars => IInv'
<1> SUFFICES ASSUME IInv, [Next]_vars PROVE IInv'
  OBVIOUS
<1>1. ASSUME NEW d \in Device, NEW pc \in {"idle", "stopped", "push", "pull", "verify"},
             Enter(d, At(pc)), UNCHANGED <<db, log, blobs>>
      PROVE  IInv'
  BY <1>1, RestStepKeeps
<1>2. ASSUME NEW d \in Device, SyncStep(d) PROVE IInv'
  <2>1. CASE StartSync(d)
    BY <1>1, <2>1 DEF StartSync, server
  <2>2. CASE ReadPending(d)
    BY <2>2, ReadPendingKeeps
  <2>3. CASE PushDone(d)
    BY <1>1, <2>3 DEF PushDone, server
  <2>4. CASE UploadBlob(d)
    BY <2>4, UploadKeeps
  <2>5. CASE SendBatch(d)
    BY <2>5, SendKeeps
  <2>6. CASE AckRow(d)
    BY <2>6, AckRowKeeps
  <2>7. CASE AckDone(d)
    <3>1. Enter(d, At("push")) \/ Enter(d, At("stopped"))
      BY <2>7 DEF AckDone, Stopped
    <3> QED BY <1>1, <2>7, <3>1 DEF AckDone, server
  <2>8. CASE FetchPage(d)
    BY <2>8, FetchPageKeeps
  <2>9. CASE PullDone(d)
    BY <1>1, <2>9 DEF PullDone, server
  <2>10. CASE SkipEvent(d)
    BY <2>10, SkipEventKeeps
  <2>11. CASE FetchBlob(d)
    BY <2>11, FetchBlobKeeps
  <2>12. ASSUME NEW now \in Wall, ApplyEvent(d, now) PROVE IInv'
    BY <2>12, ApplyKeeps
  <2>13. CASE RejectSigner(d)
    BY <1>1, <2>13 DEF RejectSigner, NoRound, server
  <2>14. CASE RejectEvent(d)
    BY <1>1, <2>14 DEF RejectEvent, Stopped, server
  <2>15. CASE AdvanceCursor(d)
    BY <2>15, AdvanceKeeps
  <2>16. CASE VerifyUpload(d)
    <3>1. Enter(d, At("idle")) \/ Enter(d, At("stopped"))
      BY <2>16 DEF VerifyUpload, NoRound, Stopped
    <3> QED BY <1>1, <2>16, <3>1 DEF VerifyUpload, server
  <2> QED BY <1>2, <2>1, <2>2, <2>3, <2>4, <2>5, <2>6, <2>7, <2>8, <2>9, <2>10, <2>11,
             <2>12, <2>13, <2>14, <2>15, <2>16 DEF SyncStep, Push, Pull
<1>3. ASSUME NEW d \in Device, Restart(d) \/ Crash(d) PROVE IInv'
  BY <1>1, <1>3 DEF Restart, Crash, NoRound, server
<1>4. CASE UNCHANGED vars
  <2>1. UNCHANGED <<db, log, blobs, round>>
    BY <1>4 DEF vars, server
  <2>2. blobs \subseteq blobs' /\ blobs' \in SUBSET Blob /\ round' \in [Device -> Round]
    BY <2>1 DEF IInv, DataOK, TypeOK
  <2>3. DataOK' /\ Grows
    BY <2>1, <2>2, DataKept DEF IInv
  <2>4. ASSUME NEW o \in Device, NEW x \in {round[o]}
        PROVE  BatchFits(o, x)' /\ PageFits(o, x)'
    <3>1. x \in Round /\ BatchFits(o, x) /\ PageFits(o, x)
      BY DEF IInv, DataOK, TypeOK, RoundsOK
    <3> QED BY <2>3, <3>1, FitsKept DEF IInv, DataOK
  <2> QED BY <2>1, <2>3, <2>4 DEF IInv, RoundsOK
<1>5. ASSUME NEW d \in Device, NEW edit \in Edits, NEW now \in Wall, EmitChange(d, edit, now)
      PROVE  IInv'
  BY <1>5, EmitKeeps
<1>6. ASSUME NEW d \in Device, Enroll(d) PROVE IInv'
  BY <1>6, EnrollKeeps
<1>7. ASSUME NEW d \in Device, SendTruncated(d) \/ LoseReply(d) PROVE IInv'
  BY <1>7, SendKeeps
<1> QED BY <1>2, <1>3, <1>4, <1>5, <1>6, <1>7 DEF Next

\* engine.rs, push and pull, with emit_change: in every reachable state the log is, of every
\* device, the first changes of its outbox in their order, what is acknowledged or applied is
\* in it, and every device's clock and blob store cover the changes it knows.
THEOREM EngineInvariant == Spec => []IInv
BY InitIInv, NextKeepsIInv, PTL DEF Spec

-----------------------------------------------------------------------------
(* What the invariant gives. *)

\* pull: the cursor, persisted last, never passes an event the device has neither written
\* nor applied, for any page size and wherever rounds were cut short.
THEOREM NothingIsSkipped == Spec => []NothingSkipped
<1>1. IInv => NothingSkipped
  BY DEF IInv, DataOK
<1> QED BY <1>1, EngineInvariant, PTL

LEMMA LoggedInOrder == IInv => LoggedOnce
<1> SUFFICES ASSUME IInv PROVE LoggedOnce
  OBVIOUS
<1>1. /\ TypeOK /\ Len(log) \in Nat /\ DOMAIN log = 1..Len(log) /\ log \in Seq(Change)
      /\ RowsOfLog /\ LogInOrder /\ LogBased /\ Recorded
  BY LenTypes, LenProperties, LogRow DEF IInv, DataOK, TypeOK
<1>2. ASSUME NEW i \in 1..Len(log), NEW j \in 1..Len(log), log[i].id = log[j].id, j < i
      PROVE  FALSE
  <2>1. j \in 1..(i - 1)
    BY <1>2, <1>1
  <2>2. /\ log[i].device_id \in Device /\ log[j].device_id \in Device
        /\ log[i].id = <<log[i].device_id, log[i].id[2]>> /\ log[i].id[2] \in Nat
        /\ log[j].id = <<log[j].device_id, log[j].id[2]>> /\ log[j].id[2] \in Nat
    BY <1>1 DEF RowsOfLog, RowOfLog, Change, ChangeId
  <2>3. log[j].device_id = log[i].device_id /\ log[j].id[2] = log[i].id[2]
    BY <1>2, <2>2
  <2> QED BY <1>1, <2>1, <2>2, <2>3 DEF LogInOrder
<1>3. \A i, j \in DOMAIN log : log[i].id = log[j].id => i = j
  <2> SUFFICES ASSUME NEW i \in DOMAIN log, NEW j \in DOMAIN log, log[i].id = log[j].id
               PROVE  i = j
    OBVIOUS
  <2>1. i \in 1..Len(log) /\ j \in 1..Len(log) /\ (i = j \/ i < j \/ j < i)
    BY <1>1
  <2> QED BY <1>2, <2>1
<1>4. \A d \in Device : acked[d] \subseteq Ids(log)
  BY <1>1 DEF Recorded
<1>5. \A i \in DOMAIN log :
        /\ \A j \in 1..(i - 1) :
             log[j].device_id = log[i].device_id => log[j].id[2] < log[i].id[2]
        /\ log[i].base # NoClock => \E j \in 1..(i - 1) : log[j].clock = log[i].base
  BY <1>1 DEF LogInOrder, LogBased
<1> QED BY <1>3, <1>4, <1>5 DEF LoggedOnce

\* push and transport.push: however often a batch is retried, after a lost or a truncated
\* reply or a crash, the log holds each change once, each device's changes in the order it
\* made them and every change after its base; an outbox row is acknowledged only if it is there.
THEOREM LoggedAtMostOnce == Spec => []LoggedOnce
BY LoggedInOrder, EngineInvariant, PTL

\* A change a device knows is a row of some outbox.
LEMMA KnownRow ==
  ASSUME IInv, NEW d \in Device, NEW c \in Knows(d)
  PROVE  \E o \in Device : \E k \in 1..Len(outbox[o]) : outbox[o][k] = c /\ Has(d, o, k)
<1>1. c \in Emitted /\ (c.device_id = d \/ c.id \in applied[d])
  BY DEF Knows
<1>2. PICK o \in Device : c \in {outbox[o][i] : i \in DOMAIN outbox[o]}
  BY <1>1 DEF Emitted
<1>3. outbox[o] \in Seq(Change) /\ DOMAIN outbox[o] = 1..Len(outbox[o])
  BY LenProperties DEF IInv, DataOK, TypeOK
<1>4. PICK k \in 1..Len(outbox[o]) : outbox[o][k] = c
  BY <1>2, <1>3
<1>5. c.id = <<o, k>> /\ c.device_id = o
  BY <1>4 DEF IInv, DataOK, Numbered
<1> QED BY <1>1, <1>4, <1>5 DEF Has

LEMMA KnownBlobs == IInv => BlobsHeld
<1> SUFFICES ASSUME IInv PROVE BlobsHeld
  OBVIOUS
<1>1. \A i \in DOMAIN log : log[i].refs \subseteq blobs
  BY LenProperties DEF IInv, DataOK, TypeOK, LogBlobs
<1>2. ASSUME NEW d \in Device, NEW c \in Knows(d) PROVE c.refs \subseteq local[d]
  <2>1. PICK o \in Device : \E k \in 1..Len(outbox[o]) : outbox[o][k] = c /\ Has(d, o, k)
    BY KnownRow
  <2> QED BY <2>1 DEF IInv, DataOK, LocalBlobs
<1> QED BY <1>1, <1>2 DEF BlobsHeld

\* upload_blobs before push, fetch_blobs before apply_change: the log refers only to blobs the
\* server has, and a device knows only changes whose blobs it has itself.
THEOREM BlobsAreHeld == Spec => []BlobsHeld
BY KnownBlobs, EngineInvariant, PTL

LEMMA EmitStampsAhead ==
  ASSUME IInv, NEW d \in Device, NEW edit \in Edits, NEW now \in Wall, EmitChange(d, edit, now)
  PROVE  StampAheadStep
<1>1. PICK clock : clock = Tick(hlc[d], now)
  OBVIOUS
<1>2. PICK new : new = OutboxRow(d, Body(d, edit, clock), edit.refs)
  OBVIOUS
<1>3. PICK h : h = hlc[d]
  OBVIOUS
<1>4. now \in Nat /\ h \in Hlc /\ clock \in Hlc /\ clock = Tick(h, now)
  <2>1. now \in Nat /\ hlc[d] \in Hlc
    BY EngineAssumption DEF IInv, DataOK, TypeOK
  <2> QED BY <1>1, <1>3, <2>1, TickAdvances
<1>5. outbox[d] \in Seq(Change) /\ Len(outbox[d]) \in Nat
  BY LenTypes DEF IInv, DataOK
<1>6. new.clock = clock /\ new \in Change
  <2>1. PICK r : r = rep[d]
    OBVIOUS
  <2>2. Clocked(r)
    BY <2>1 DEF IInv, DataOK, TypeOK
  <2>3. rep[d] = r /\ clock \in Hlc /\ outbox[d] \in Seq(Change)
    BY <1>4, <1>5, <2>1
  <2>4. Emits(d, r, edit, clock, new)
    BY <1>2, <2>2, <2>3, EmitWrites
  <2> QED BY <2>4 DEF Emits
<1>7. outbox' = [outbox EXCEPT ![d] = Append(outbox[d], new)]
  BY <1>1, <1>2 DEF EmitChange
<1>8. Newest(outbox'[d]) = new /\ \A o \in Device : o # d => outbox'[o] = outbox[o]
  <2>1. outbox'[d] = Append(outbox[d], new) /\ \A o \in Device : o # d => outbox'[o] = outbox[o]
    BY <1>7 DEF IInv, DataOK, TypeOK
  <2>2. Len(outbox'[d]) = Len(outbox[d]) + 1 /\ outbox'[d][Len(outbox[d]) + 1] = new
    BY <1>5, <1>6, <2>1, AppendProperties
  <2> QED BY <2>1, <2>2 DEF Newest
<1>9. ASSUME clock.counter < MaxCounter, NEW c \in Hlc, NotAfter(c, h) PROVE Before(c, clock)
  <2>1. /\ h.wall_millis \in Nat /\ h.counter \in Nat /\ h.counter <= MaxCounter
        /\ c.wall_millis \in Nat /\ c.counter \in Nat /\ MaxCounter \in Nat
    BY <1>4, StampParts, HlcAssumption
  <2>2. CASE now > h.wall_millis
    <3>1. clock.wall_millis = now
      BY <1>4, <2>2 DEF Tick, Hlc
    <3> QED BY <1>4, <1>9, <2>1, <2>2, <3>1 DEF NotAfter, Before
  <2>3. CASE ~(now > h.wall_millis)
    <3>1. clock.wall_millis = h.wall_millis /\ clock.counter = SaturatingInc(h.counter)
      BY <1>4, <2>3 DEF Tick, Hlc
    <3>2. clock.counter = h.counter + 1
      BY <1>9, <2>1, <3>1 DEF SaturatingInc
    <3> QED BY <1>9, <2>1, <3>1, <3>2 DEF NotAfter, Before
  <2> QED BY <2>2, <2>3
<1>10. ASSUME NEW c \in Knows(d) PROVE c.clock \in Hlc /\ NotAfter(c.clock, h)
  <2>1. PICK o \in Device : \E k \in 1..Len(outbox[o]) : outbox[o][k] = c /\ Has(d, o, k)
    BY KnownRow
  <2>2. PICK k \in 1..Len(outbox[o]) : outbox[o][k] = c /\ Has(d, o, k)
    BY <2>1
  <2>3. c.clock \in Hlc
    BY <2>2, LenTypes DEF IInv, DataOK, Change
  <2> QED BY <1>3, <2>2, <2>3 DEF IInv, DataOK, ClockAhead
<1> SUFFICES ASSUME NEW o \in Device, Len(outbox'[o]) > Len(outbox[o])
             PROVE  /\ Newest(outbox'[o]).clock \in Hlc
                    /\ Newest(outbox'[o]).clock.counter < MaxCounter =>
                         \A c \in Knows(o) : Before(c.clock, Newest(outbox'[o]).clock)
  BY DEF StampAheadStep
<1>11. o = d
  <2>1. SUFFICES ASSUME o # d PROVE FALSE
    OBVIOUS
  <2>2. outbox'[o] = outbox[o] /\ Len(outbox[o]) \in Nat
    BY <1>8, <2>1, LenTypes DEF IInv, DataOK
  <2>3. ~(Len(outbox[o]) > Len(outbox[o]))
    BY <2>2
  <2> QED BY <2>2, <2>3
<1>12. Newest(outbox'[o]).clock = clock
  BY <1>6, <1>8, <1>11
<1> QED BY <1>4, <1>9, <1>10, <1>11, <1>12

\* emit_change with Hlc::tick and observe: until the counter has run into its maximum, a new
\* change is stamped later than every change its device knows, whatever the wall clocks show.
THEOREM StampsRunAhead == Spec => StampAhead
<1>1. IInv /\ [Next]_vars => [StampAheadStep]_vars
  <2> SUFFICES ASSUME IInv, Next PROVE StampAheadStep
    OBVIOUS
  <2>1. CASE \E d \in Device, edit \in Edits, now \in Wall : EmitChange(d, edit, now)
    BY <2>1, EmitStampsAhead
  <2>2. CASE UNCHANGED outbox
    <3>1. \A d \in Device : ~(Len(outbox'[d]) > Len(outbox[d]))
      <4>1. \A d \in Device : Len(outbox[d]) \in Nat
        BY LenTypes DEF IInv, DataOK
      <4> QED BY <2>2, <4>1
    <3> QED BY <3>1 DEF StampAheadStep
  <2>3. ASSUME NEW d \in Device, SyncStep(d) PROVE UNCHANGED outbox
    BY <2>3 DEF SyncStep, Push, Pull, StartSync, ReadPending, PushDone, UploadBlob, SendBatch,
                AckRow, AckDone, FetchPage, PullDone, SkipEvent, FetchBlob, ApplyEvent,
                RejectSigner, RejectEvent, AdvanceCursor, VerifyUpload, db
  <2>4. ASSUME NEW d \in Device,
               Enroll(d) \/ Restart(d) \/ SendTruncated(d) \/ LoseReply(d) \/ Crash(d)
        PROVE  UNCHANGED outbox
    BY <2>4 DEF Enroll, Restart, SendTruncated, LoseReply, Crash, db
  <2> QED BY <2>1, <2>2, <2>3, <2>4 DEF Next
<1> QED BY <1>1, EngineInvariant, PTL DEF Spec, StampAhead
=============================================================================
