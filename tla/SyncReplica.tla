----------------------------- MODULE SyncReplica -----------------------------
(***************************************************************************)
(* One device's database as sync sees it: the canonical rows, the per-field*)
(* clocks, the delete tombstones, the membership edges and the conflict    *)
(* inbox (crates/pergamon-storage/src/sync.rs), the tracked local writes   *)
(* that change them (Database::emit_change) and the application of a       *)
(* pulled change (crates/pergamon-sync/src/apply.rs).                      *)
(*                                                                         *)
(* An Entity is a document, a note, a tag, ...: a row with LWW fields and  *)
(* authored-prose fields.  Parent gives its NOT NULL foreign key (a note's *)
(* content item), UniqueKey what its UNIQUE index ranges over (a document's*)
(* url, a tag's name).  An Edge is a tag membership of an entity.          *)
(***************************************************************************)
EXTENDS SyncMerge, Bags, FiniteSets

CONSTANTS
  Entity, Edge,
  LwwField, ProseField,
  Value, Default,     \* Default: [Field -> Value], the column defaults
  Parent, NoParent,   \* [Entity -> Entity \cup {NoParent}]
  UniqueKey,          \* [Entity -> keys]
  EdgeEntity          \* [Edge -> Entity]: the tagged item

Field == LwwField \cup ProseField

ASSUME ReplicaAssumption ==
  /\ LwwField \cap ProseField = {}
  /\ IsFiniteSet(ProseField)
  /\ Default \in [Field -> Value]
  /\ Parent \in [Entity -> Entity \cup {NoParent}]
  /\ NoParent \notin Entity
  /\ \A e \in Entity : Parent[e] # NoParent => Parent[Parent[e]] = NoParent
  /\ EdgeEntity \in [Edge -> Entity]

EmptyReplica ==
  [row    |-> [e \in Entity |-> FALSE],     \* does the canonical row exist
   val    |-> [e \in Entity |-> Default],   \* its columns; Default when absent
   clk    |-> [e \in Entity |-> [f \in Field |-> NoClock]],  \* sync_entity_clock
   tomb   |-> [e \in Entity |-> NoClock],   \* sync_tombstones
   inbox  |-> EmptyBag,                     \* sync_conflicts
   edge   |-> [g \in Edge |-> NoMember],    \* sync_set_edge
   member |-> [g \in Edge |-> FALSE]]       \* content_item_tags

Conflict(e, f, v, c) == [entity |-> e, field |-> f, value |-> v, clock |-> c]

-----------------------------------------------------------------------------
(* Rows and the constraints SQLite enforces on them. *)

\* May a row for e be inserted: its foreign key resolves, no other row holds
\* its unique key.
Insertable(r, e) ==
  /\ Parent[e] # NoParent => r.row[Parent[e]]
  /\ \A o \in Entity \ {e} : r.row[o] => UniqueKey[o] # UniqueKey[e]

\* upsert_single: update the given columns, or insert them with the defaults.
UpsertSingle(r, e, fs) ==
  [r EXCEPT !.row[e] = TRUE,
            !.val[e] = [f \in Field |-> IF f \in DOMAIN fs THEN fs[f] ELSE @[f]]]

\* delete_entity_row: ON DELETE CASCADE takes the children and the edges along.
\* Clocks and tombstones live in tables of their own and stay.
DeleteRow(r, e) ==
  LET gone == {x \in Entity : x = e \/ Parent[x] = e}
  IN [r EXCEPT !.row = [x \in Entity |-> r.row[x] /\ x \notin gone],
               !.val = [x \in Entity |-> IF x \in gone THEN Default ELSE r.val[x]],
               !.member = [g \in Edge |-> r.member[g] /\ EdgeEntity[g] \notin gone]]

\* apply_edge_membership
SetMembership(r, g, present) == [r EXCEPT !.member[g] = present]

-----------------------------------------------------------------------------
(* emit_change: the canonical write, the clocks, and the body of the outbox *)
(* row, in one transaction.                                                 *)

\* The clock of the prose field a write replaces, NoClock if it writes none.
BaseVersionFor(r, e, fs) ==
  IF DOMAIN fs \cap ProseField = {} THEN NoClock
  ELSE r.clk[e][CHOOSE f \in DOMAIN fs \cap ProseField : TRUE]

\* The greatest prose clock of the row a delete removes.
ObservedProseVersion(r, e) ==
  LET seen == {r.clk[e][f] : f \in ProseField} \ {NoClock}
  IN IF ~r.row[e] \/ seen = {} THEN NoClock
     ELSE CHOOSE c \in seen : \A k \in seen : AtMost(k, c)

ChangeBody(kind, x, clock, base, fields, present) ==
  [kind |-> kind, target |-> x, clock |-> clock, base |-> base,
   fields |-> fields, present |-> present]

NoFields == [f \in {} |-> f]

WriteBody(r, e, fs, clock) ==
  ChangeBody("fields", e, clock, BaseVersionFor(r, e, fs), fs, TRUE)
DeleteBody(r, e, clock) ==
  ChangeBody("delete", e, clock, ObservedProseVersion(r, e), NoFields, TRUE)
EdgeBody(g, present, clock) ==
  ChangeBody("edge", g, clock, NoClock, NoFields, present)

LocalWrite(r, e, fs, clock) ==
  [UpsertSingle(r, e, fs) EXCEPT
     !.clk[e] = [f \in Field |-> IF f \in DOMAIN fs THEN clock ELSE @[f]]]

LocalDelete(r, e, clock) ==
  [DeleteRow(r, e) EXCEPT !.tomb[e] = clock]

LocalEdge(r, g, present, clock) ==
  [SetMembership(r, g, present) EXCEPT
     !.edge[g] = MergeSetMember(@, present, clock)]

-----------------------------------------------------------------------------
(* apply_change *)

\* apply_fields, one field: what the tombstone leaves to the merge.
Tombstoned(r, c) == r.tomb[c.target] # NoClock

ToInbox(r, c) == IF Tombstoned(r, c) THEN DOMAIN c.fields \cap ProseField ELSE {}

Dominated(r, c) ==
  IF Tombstoned(r, c) /\ Before(c.clock, r.tomb[c.target])
  THEN DOMAIN c.fields \cap LwwField ELSE {}

Mergeable(r, c) == DOMAIN c.fields \ (ToInbox(r, c) \cup Dominated(r, c))

\* A field exists locally when both its row and its clock do.
LocalClock(r, c, f) == IF r.row[c.target] THEN r.clk[c.target][f] ELSE NoClock

MergeField(r, c, f) ==
  IF f \in ProseField
  THEN MergeConflictCopy(r.val[c.target][f], LocalClock(r, c, f),
                         c.fields[f], c.clock, c.base)
  ELSE MergeLww(r.val[c.target][f], LocalClock(r, c, f),
                c.fields[f], c.clock, c.base)

ApplyFields(r, c) ==
  LET e == c.target
      merge == [f \in Mergeable(r, c) |-> MergeField(r, c, f)]
      written == {f \in DOMAIN merge : merge[f].decision # "keep"}
      losers == {f \in DOMAIN merge : merge[f].decision = "conflict"}
      dead == {Conflict(e, f, c.fields[f], c.clock) : f \in ToInbox(r, c)}
      copies == {Conflict(e, f, merge[f].loser, merge[f].loser_clock) : f \in losers}
  IN [r EXCEPT
        !.row[e] = @ \/ ~Tombstoned(r, c) \/ written # {},
        !.val[e] = [f \in Field |-> IF f \in written THEN merge[f].value ELSE @[f]],
        !.clk[e] = [f \in Field |-> IF f \in written THEN merge[f].clock ELSE @[f]],
        !.inbox = @ (+) SetToBag(dead \cup copies)]

\* Does apply_fields insert a row, so that the constraints apply.
Inserts(r, c) ==
  /\ ~r.row[c.target]
  /\ \/ ~Tombstoned(r, c)
     \/ \E f \in Mergeable(r, c) : MergeField(r, c, f).decision # "keep"

\* Mutant: a delete takes whatever prose there is.
NoUnobservedProse(r, c) == {}

\* preserve_unobserved_prose: prose the delete's base version does not cover.
UnobservedProse(r, c) ==
  {f \in ProseField :
     /\ r.row[c.target]
     /\ r.clk[c.target][f] # NoClock
     /\ c.base = NoClock \/ ~AtMost(r.clk[c.target][f], c.base)}

\* max_field_clock_dominated: no non-prose field was written after the delete.
DeleteDominates(r, c) ==
  r.row[c.target] =>
    \A f \in LwwField :
      r.clk[c.target][f] # NoClock => AtMost(r.clk[c.target][f], c.clock)

\* set_tombstone replaces whatever tombstone there is.
SetTombstone(r, e, clock) == [r EXCEPT !.tomb[e] = clock]

ApplyDelete(r, c) ==
  LET e == c.target
      kept == {Conflict(e, f, r.val[e][f], r.clk[e][f]) : f \in UnobservedProse(r, c)}
      marked == [SetTombstone(r, e, c.clock) EXCEPT !.inbox = @ (+) SetToBag(kept)]
  IN IF DeleteDominates(r, c) THEN DeleteRow(marked, e) ELSE marked

ApplyEdge(r, c) ==
  LET m == MergeSetMember(r.edge[c.target], c.present, c.clock)
  IN [SetMembership(r, c.target, IsPresent(m)) EXCEPT !.edge[c.target] = m]

ApplyChange(r, c) ==
  CASE c.kind = "fields" -> ApplyFields(r, c)
    [] c.kind = "delete" -> ApplyDelete(r, c)
    [] c.kind = "edge" -> ApplyEdge(r, c)

\* Does the transaction that applies c commit: INSERT OR IGNORE does not excuse
\* a foreign key, ON CONFLICT(id) does not excuse another unique index.
Applicable(r, c) ==
  /\ c.kind = "fields" /\ Inserts(r, c) => Insertable(r, c.target)
  /\ c.kind = "edge" /\ IsPresent(ApplyEdge(r, c).edge[c.target])
       => r.row[EdgeEntity[c.target]]
=============================================================================
