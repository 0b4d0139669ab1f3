------------------------------ MODULE Positions ------------------------------
(***************************************************************************)
(* Picking the members of a sequence at some of its positions, in order:   *)
(* what a filtered query ORDER BY rowid, or a loop that skips some rows,   *)
(* returns.  It is SelectSeq with the test given as a set of positions, and*)
(* without its recursion, so that it can be reasoned about.                *)
(***************************************************************************)
EXTENDS Naturals, Sequences, FiniteSets

\* The members of a set of positions below one of them.
Below(at, i) == {j \in at : j < i}

\* The position of rank k, counted from 1.
Nth(at, k) == CHOOSE i \in at : Cardinality(Below(at, i)) = k - 1

Picked(s, at) == [k \in 1..Cardinality(at) |-> s[Nth(at, k)]]
=============================================================================
