--------------------------- MODULE LibraryReviews ---------------------------
(***************************************************************************)
(* How a review moves a card: the FSRS scheduler (pergamon-core fsrs.rs),  *)
(* the grade every client writes, and the fold of the review logs into a   *)
(* card that sync applies (pergamon-core sync/review.rs).                  *)
(*                                                                         *)
(* Stability and difficulty are numbers computed from the grades and the   *)
(* days between them; the model keeps what they are computed from, the     *)
(* sequence of grades (TRUE for Again).  Time is in days and every review  *)
(* of a behaviour is on the same one; ids order the logs of a day.         *)
(***************************************************************************)
EXTENDS LibraryDb

\* next_interval is clamped to at least a day, however the grade was.
next_interval(memory) == IF Last(memory) THEN 1 ELSE 2

\* schedule: a card without a memory starts learning when it is failed, any other relearning.
schedule(memory, again) ==
    LET new == Append(memory, again)
    IN  [memory |-> new, days |-> next_interval(new),
         state |-> IF ~again THEN "review" ELSE IF memory = <<>> THEN "learning" ELSE "relearning"]

\* The card of a copy after a grade.
Graded(card, again, now) ==
    LET out == schedule(card.memory, again)
    IN  [card EXCEPT !.state = out.state, !.memory = out.memory, !.due = now + out.days,
                     !.reviews = @ + 1, !.lapses = IF again THEN @ + 1 ELSE @]

\* A grade writes the card, then the log, in two statements.
Grade(x, c, card, again) ==
    insert_review_log(update_review_card(x, c, card), [card |-> c, again |-> again])

-----------------------------------------------------------------------------
(* Derived-merge. *)

\* review_log_entries_for_card, in the order of the fold: by time, then by id.
review_log_entries_for_card(l, c) ==
    Ascending({g \in DOMAIN l.logs : l.logs[g].card = c})

\* derive_card_state: every log replayed through the scheduler from a new card.
derive_card_state(l, c, now) ==
    LET entries == review_log_entries_for_card(l, c)
    IN  FoldLeft(LAMBDA card, g : Graded(card, l.logs[g].again, now),
                 NewCard(l.cards[c].item, l.cards[c].due), entries)

\* write_derived_card_state: the schedule is replaced, the highlight of the card is not.
write_derived_card_state(x, c, derived) ==
    Commit(x, [At(x) EXCEPT !.cards[c] = [derived EXCEPT !.item = At(x).cards[c].item]])

\* recompute_review_card: nothing without a card or without a log.
recompute_review_card(x, c, now) ==
    IF ~x.ok \/ c \notin DOMAIN At(x).cards \/ review_log_entries_for_card(At(x), c) = <<>> THEN x
    ELSE write_derived_card_state(x, c, derive_card_state(At(x), c, now))
=============================================================================
