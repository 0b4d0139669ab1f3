------------------------------ MODULE SyncMerge ------------------------------
(***************************************************************************)
(* The merge policy of crates/pergamon-core/src/sync/merge.rs: how one     *)
(* incoming field, or one membership edge, meets the local one.            *)
(***************************************************************************)
EXTENDS HLC

\* A decision of merge_field.  The live side is the value kept in the row; a
\* conflict also carries the loser, kept for the user.
KeepLocal == [decision |-> "keep"]
TakeIncoming(v, c) == [decision |-> "take", value |-> v, clock |-> c]
ConflictCopy(winner, wclock, loser, lclock) ==
  [decision |-> "conflict", value |-> winner, clock |-> wclock,
   loser |-> loser, loser_clock |-> lclock]

\* Mutant: the last to arrive wins.
MergeArrival(lval, lclock, ival, iclock, base) == TakeIncoming(ival, iclock)

\* Greater clock wins.  lclock = NoClock: the field does not exist locally.
MergeLww(lval, lclock, ival, iclock, base) ==
  IF lclock = NoClock \/ Before(lclock, iclock)
  THEN TakeIncoming(ival, iclock)
  ELSE KeepLocal

\* Authored prose: a causal successor of what we hold applies cleanly, genuine
\* concurrency keeps the greater clock live and the other as a copy.
MergeConflictCopy(lval, lclock, ival, iclock, base) ==
  CASE lclock = NoClock -> TakeIncoming(ival, iclock)
    [] lclock # NoClock /\ lval = ival ->
         IF Before(lclock, iclock) THEN TakeIncoming(ival, iclock) ELSE KeepLocal
    [] lclock # NoClock /\ lval # ival /\ base = lclock -> TakeIncoming(ival, iclock)
    [] lclock # NoClock /\ lval # ival /\ base # lclock ->
         IF Before(lclock, iclock)
         THEN ConflictCopy(ival, iclock, lval, lclock)
         ELSE ConflictCopy(lval, lclock, ival, iclock)

-----------------------------------------------------------------------------
(* Membership edges: the greatest add and the greatest remove. *)

NoMember == [add_clock |-> NoClock, remove_clock |-> NoClock]

IsPresent(m) ==
  /\ m.add_clock # NoClock
  /\ m.remove_clock = NoClock \/ Before(m.remove_clock, m.add_clock)

Later(slot, clock) ==
  IF slot # NoClock /\ AtMost(clock, slot) THEN slot ELSE clock

MergeSetMember(m, isAdd, clock) ==
  IF isAdd THEN [m EXCEPT !.add_clock = Later(@, clock)]
           ELSE [m EXCEPT !.remove_clock = Later(@, clock)]
=============================================================================
