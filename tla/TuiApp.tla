------------------------------- MODULE TuiApp -------------------------------
(***************************************************************************)
(* The terminal reader and the terminal review session                     *)
(* (pergamon-cli/src/tui).  Both run for a long time on copies of rows:    *)
(* the reader on the list it last loaded, the review session on the cards  *)
(* that were due when it started.  The reader's state is a record; a key   *)
(* gives the next record and an execution on the library.                  *)
(* Scrolling and the status line are left out.                             *)
(***************************************************************************)
EXTENDS LibraryReviews

CONSTANT Words      \* what can be typed

-----------------------------------------------------------------------------
(* The reader: app.rs. *)

ItemLimit == 1000

All == [is |-> "all"]
OfStatus(s) == [is |-> "status", of |-> s]

\* build_filter: a search and a smart collection filter nothing here.
build_filter(f) ==
    CASE f.is \in {"all", "search"} -> AnyItem
      [] f.is = "status" -> [AnyItem EXCEPT !.status = f.of]
      [] f.is = "feed"   -> [AnyItem EXCEPT !.feed = f.of]
      [] f.is = "folder" -> [AnyItem EXCEPT !.folder = f.of]

selected_item(app) ==
    IF app.selected < Len(app.items) THEN app.items[app.selected + 1] ELSE None

\* Mutant: the cursor stays where it was.
clamp_selectionNever(app) == app

clamp_selection(app) ==
    [app EXCEPT !.selected = IF app.items = <<>> THEN 0 ELSE Min({@, Len(app.items) - 1})]

\* reload_metadata: the numbers of the header, and the lists of the pickers.
reload_metadata(l, app) ==
    [app EXCEPT
       !.unread = count_content_items_filtered(l, [AnyItem EXCEPT !.status = "inbox"]),
       !.total = IF app.filter.is = "search" THEN Cardinality(search_filtered(l, app.filter.of, AnyItem))
                 ELSE count_content_items_filtered(l, build_filter(app.filter)),
       !.feeds = Ascending(DOMAIN l.feeds), !.folders = Ascending(DOMAIN l.folders)]

\* Action::Reload in run_tui.
Reload(l, app) ==
    LET rows == IF app.filter.is = "search" THEN Descending(search_filtered(l, app.filter.of, AnyItem))
                ELSE list_content_items_filtered(l, build_filter(app.filter), ItemLimit, 0)
    IN  reload_metadata(l, clamp_selection([app EXCEPT !.items = rows]))

\* App::new and the first load.
NewApp(l) ==
    Reload(l, [view |-> "list", quit |-> FALSE, items |-> <<>>, selected |-> 0, help |-> FALSE,
               filter |-> OfStatus("inbox"), feeds |-> <<>>, folders |-> <<>>,
               picker |-> None, picked |-> 0, unread |-> 0, total |-> 0,
               confirm |-> None, searching |-> None, marking |-> None])

-----------------------------------------------------------------------------
(* Keys: event.rs.  A handler returns the record, the execution and whether to reload. *)

Same(x, app) == [app |-> app, x |-> x, reload |-> FALSE]
Changed(x, app) == [app |-> app, x |-> x, reload |-> TRUE]

StatusKeys == [r |-> "reading", s |-> "reference", a |-> "archived", d |-> "discarded", l |-> "later"]

\* change_status acts on the row under the cursor, as it was loaded.
change_status(x, app, s) ==
    IF selected_item(app) = None THEN Same(x, app)
    ELSE Changed(update_content_item_status(x, selected_item(app), s), app)

cycle_filter(f) ==
    LET order == <<All, OfStatus("inbox"), OfStatus("later"), OfStatus("reading"),
                   OfStatus("reference"), OfStatus("archived")>>
    IN  IF f \in {order[k] : k \in 1 .. 5} THEN order[(CHOOSE k \in 1 .. 5 : order[k] = f) + 1] ELSE All

ShowFilter(x, app, f) == Changed(x, [app EXCEPT !.filter = f, !.selected = 0])

InboxOf(app) == [build_filter(app.filter) EXCEPT !.status = "inbox"]

initiate_bulk_mark_read(x, app) ==
    LET n == count_content_items_filtered(At(x), InboxOf(app))
    IN  Same(x, IF n = 0 THEN app ELSE [app EXCEPT !.confirm = n])

handle_confirm_keys(x, app, key) ==
    CASE key \in {"y", "Enter"} ->
            Changed(bulk_update_status(x, InboxOf(app), "archived"), [app EXCEPT !.confirm = None])
      [] key \in {"n", "Esc"} -> Same(x, [app EXCEPT !.confirm = None])
      [] OTHER -> Same(x, app)

\* Moves of a cursor over n rows: j, k, g and G.
Moved(at, n, key) ==
    CASE key = "j" -> IF at + 1 < n THEN at + 1 ELSE at
      [] key = "k" -> IF at > 0 THEN at - 1 ELSE at
      [] key = "g" -> 0
      [] key = "G" -> IF n > 0 THEN n - 1 ELSE at
Moves == {"j", "k", "g", "G"}

handle_picker_keys(x, app, key) ==
    LET rows == IF app.picker = "feed" THEN app.feeds ELSE app.folders
        shut == [app EXCEPT !.picker = None]
    IN  CASE key \in {"Esc", "q"} -> Same(x, shut)
          [] key \in Moves -> Same(x, [app EXCEPT !.picked = Moved(@, Len(rows), key)])
          [] key = "Enter" ->
                IF app.picked < Len(rows)
                THEN ShowFilter(x, shut, [is |-> app.picker, of |-> rows[app.picked + 1]])
                ELSE Same(x, app)
          [] key = "Tab" -> Same(x, [app EXCEPT !.picker = IF @ = "feed" THEN "folder" ELSE "feed",
                                                !.picked = 0])
          [] OTHER -> Same(x, app)

\* Typed text: a word stands for the letters of it, Backspace for taking them back.
Typed(app, field, key) ==
    [app EXCEPT ![field] = IF key = "Backspace" THEN "" ELSE key]

handle_search_input(x, app, key) ==
    LET shut == [app EXCEPT !.searching = None]
    IN  CASE key = "Esc" \/ (key = "Enter" /\ app.searching = "") -> Same(x, shut)
          [] key = "Enter" /\ app.searching # "" ->
                ShowFilter(x, shut, [is |-> "search", of |-> app.searching])
          [] key \in Words \cup {"Backspace"} -> Same(x, Typed(app, "searching", key))
          [] OTHER -> Same(x, app)

\* handle_highlight_input: a highlight that fails is only reported.
handle_highlight_input(x, app, key) ==
    LET shut == [app EXCEPT !.marking = None]
    IN  CASE key = "Esc" \/ (key = "Enter" /\ app.marking = "") -> Same(x, shut)
          [] key = "Enter" /\ app.marking # "" ->
                Same(IF selected_item(app) = None THEN x
                     ELSE Ignoring(x, create_highlight(x, selected_item(app), app.marking, None)), shut)
          [] key \in Words \cup {"Backspace"} -> Same(x, Typed(app, "marking", key))
          [] OTHER -> Same(x, app)

FilterKeys == "1" :> OfStatus("inbox") @@ "2" :> OfStatus("later") @@ "3" :> OfStatus("reading")
              @@ "4" :> OfStatus("reference") @@ "5" :> OfStatus("archived") @@ "0" :> All

handle_list_keys(x, app, key) ==
    CASE key \in {"q", "Esc"} -> Same(x, [app EXCEPT !.quit = TRUE])
      [] key \in Moves -> Same(x, [app EXCEPT !.selected = Moved(@, Len(app.items), key)])
      [] key = "Enter" -> Same(x, IF app.items = <<>> THEN app ELSE [app EXCEPT !.view = "reader"])
      [] key \in DOMAIN StatusKeys -> change_status(x, app, StatusKeys[key])
      [] key \in {"f", "F"} -> Same(x, [app EXCEPT !.picker = IF key = "f" THEN "feed" ELSE "folder",
                                                   !.picked = 0])
      [] key = "Tab" -> ShowFilter(x, app, cycle_filter(app.filter))
      [] key \in DOMAIN FilterKeys -> ShowFilter(x, app, FilterKeys[key])
      [] key = "R" -> initiate_bulk_mark_read(x, app)
      [] key = "/" -> Same(x, [app EXCEPT !.searching = ""])
      [] OTHER -> Same(x, app)

handle_reader_keys(x, app, key) ==
    CASE key \in {"q", "Esc"} -> Same(x, [app EXCEPT !.view = "list"])
      [] key \in DOMAIN StatusKeys -> change_status(x, app, StatusKeys[key])
      [] key = "/" -> Same(x, [app EXCEPT !.view = "list", !.searching = ""])
      [] key = "h" -> Same(x, [app EXCEPT !.marking = ""])
      [] OTHER -> Same(x, app)

\* handle_events: what is on top takes the key.
handle_events(x, app, key) ==
    CASE key = "Ctrl-c" -> Same(x, [app EXCEPT !.quit = TRUE])
      [] key # "Ctrl-c" /\ app.confirm # None -> handle_confirm_keys(x, app, key)
      [] OTHER ->
           IF key = "?" THEN Same(x, [app EXCEPT !.help = ~@])
           ELSE IF app.help THEN Same(x, [app EXCEPT !.help = FALSE])
           ELSE IF app.picker # None THEN handle_picker_keys(x, app, key)
           ELSE IF app.searching # None THEN handle_search_input(x, app, key)
           ELSE IF app.marking # None THEN handle_highlight_input(x, app, key)
           ELSE IF app.view = "list" THEN handle_list_keys(x, app, key)
           ELSE handle_reader_keys(x, app, key)

\* One turn of run_tui's loop; an error ends the program.
Turn(x, app, key) ==
    LET got == handle_events(x, app, key)
    IN  [x |-> got.x,
         app |-> IF ~got.x.ok \/ got.app.quit THEN None
                 ELSE IF got.reload THEN Reload(At(got.x), got.app) ELSE got.app]

-----------------------------------------------------------------------------
(* The review session: run_review. *)

\* review_start: copies of the cards that are due, and where the session is.
review_start(l, now) ==
    LET due == list_due_review_cards(l, now)
    IN  [queue |-> [k \in DOMAIN due |-> [id |-> due[k], card |-> l.cards[due[k]]]],
         at |-> 1, shown |-> FALSE]

Reveal(s) == [s EXCEPT !.shown = TRUE]

\* Mutant: a card to be seen again is queued as it was when the session started.
RateOld(x, s, again, now) ==
    LET copy == s.queue[s.at]
    IN  [x |-> Grade(x, copy.id, Graded(copy.card, again, now), again),
         s |-> [queue |-> IF again THEN Append(s.queue, copy) ELSE s.queue,
                at |-> s.at + 1, shown |-> FALSE]]

\* A rating writes the copy, then the log; with Again the updated copy is queued again.
Rate(x, s, again, now) ==
    LET copy == s.queue[s.at]
        new == [copy EXCEPT !.card = Graded(@, again, now)]
    IN  [x |-> Grade(x, copy.id, new.card, again),
         s |-> [queue |-> IF again THEN Append(s.queue, new) ELSE s.queue,
                at |-> s.at + 1, shown |-> FALSE]]
=============================================================================
