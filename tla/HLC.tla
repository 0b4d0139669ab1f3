--------------------------------- MODULE HLC ---------------------------------
(***************************************************************************)
(* The hybrid logical clock of crates/pergamon-core/src/sync/hlc.rs: the   *)
(* stamp carried by every change, its total order, and the two rules that  *)
(* advance a device's clock.                                               *)
(*                                                                         *)
(* Devices are natural numbers: of a device_id only the order of the       *)
(* handles matters (the final tiebreak).  The counter saturates at         *)
(* MaxCounter, which is u32::MAX in the code.                              *)
(***************************************************************************)
EXTENDS Integers

CONSTANTS Device, MaxCounter

ASSUME HlcAssumption ==
  /\ Device \subseteq Nat
  /\ MaxCounter \in Nat \ {0}

Hlc == [wall_millis : Nat, counter : 0..MaxCounter, device_id : Device]

\* No stamp: the None of an Option<Hlc>.  It is never compared, only tested.
NoClock == [wall_millis |-> -1, counter |-> -1, device_id |-> -1]
OptionHlc == Hlc \cup {NoClock}

\* Ord for Hlc: (wall_millis, counter, device_id), lexicographically.
Before(a, b) ==
  \/ a.wall_millis < b.wall_millis
  \/ /\ a.wall_millis = b.wall_millis
     /\ \/ a.counter < b.counter
        \/ a.counter = b.counter /\ a.device_id < b.device_id

AtMost(a, b) == a = b \/ Before(a, b)

Greatest(m, n) == IF m >= n THEN m ELSE n

\* u32::saturating_add(1)
SaturatingInc(c) == IF c < MaxCounter THEN c + 1 ELSE MaxCounter

Zero(d) == [wall_millis |-> 0, counter |-> 0, device_id |-> d]

\* A new local event at physical time now.
Tick(h, now) ==
  IF now > h.wall_millis
  THEN [h EXCEPT !.wall_millis = now, !.counter = 0]
  ELSE [h EXCEPT !.counter = SaturatingInc(@)]

\* Mutant: only the local clock and the wall clock count.
ObserveNothing(h, remote, now) == Tick(h, now)

\* Receiving a remote stamp at physical time now.
Observe(h, remote, now) ==
  LET wall == Greatest(Greatest(h.wall_millis, remote.wall_millis), now)
      own == wall = h.wall_millis
      theirs == wall = remote.wall_millis
  IN [h EXCEPT
        !.wall_millis = wall,
        !.counter =
          CASE own /\ theirs -> SaturatingInc(Greatest(@, remote.counter))
            [] own /\ ~theirs -> SaturatingInc(@)
            [] ~own /\ theirs -> SaturatingInc(remote.counter)
            [] ~own /\ ~theirs -> 0]
=============================================================================
