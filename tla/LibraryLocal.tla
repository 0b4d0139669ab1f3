---------------------------- MODULE LibraryLocal ----------------------------
(***************************************************************************)
(* The programs that open the library themselves: commands typed at a      *)
(* shell, the terminal reader, the terminal review session and the phone   *)
(* app.  A behaviour follows one of them, the host; while the terminal     *)
(* programs run, another process works on the same file.  What the shell   *)
(* and the phone do to the library is LibraryCli and LibraryMobile, what   *)
(* a key does is TuiApp; this module runs them, kills them, and states     *)
(* what must survive.                                                      *)
(***************************************************************************)
EXTENDS LibraryProcess

CONSTANTS
    Names,      \* tag, collection and folder names
    Words,      \* what texts can be told apart by
    Urls,       \* canonical addresses of pages
    Keys,       \* the keys of the terminal
    Filters,    \* smart filters users write
    Actions,    \* what a rule may do
    FeedDoc,    \* the entries a feed serves, by version
    Outlines, Bookmarks, Clips,     \* files to import
    Captures,   \* pages shared with the phone app
    Archive,    \* a backup of another library
    Libraries,  \* what the library of each host may hold at first
    Budget,     \* bound: commands, keys or calls of each host in a behaviour
    Histories   \* what the statistics are computed from: [today, dates, log]

VARIABLES
    host,       \* the program that is followed
    app,        \* the reader's state, whether the phone app is open, or the dates looked at
    session,    \* the review session
    raced,      \* another process has graded a card during the session
    drops       \* captures in the staging folder

vars == <<lib, ops, kills, host, app, session, raced, drops>>
hostVars == <<host, app, session, raced, drops>>

Cli == INSTANCE LibraryCli
Mobile == INSTANCE LibraryMobile
Tui == INSTANCE TuiApp
Stats == INSTANCE LibraryStats
Reports == INSTANCE LibraryReports
Baseline == INSTANCE LibraryBaseline
Pages == INSTANCE LibraryPages WITH DefaultPerPage <- 2, MaxPerPage <- 2, SidebarTagLimit <- 1

Here == Start(lib)
Items == DOMAIN lib.items
Colls == DOMAIN lib.colls
Now == 1

-----------------------------------------------------------------------------
(* The shell: every command is a process of its own. *)

Command(x) == host = "shell" /\ Runs(x) /\ UNCHANGED hostVars

Save ==
    \E u \in Urls, w \in Words, names \in {<<>>, <<"a">>}, bookmark, article \in BOOLEAN :
        Command(Cli!save_url(Here, u, w, names, bookmark, article))

\* An answer is a version of the document, or None for a fetch that failed.
Feeds ==
    \/ \E v \in DOMAIN FeedDoc : Command(Cli!feed_add(Here, "f", v, FeedDoc[v]))
    \/ \E f \in DOMAIN lib.feeds :
          \/ \E v \in DOMAIN FeedDoc : Command(Cli!refresh_feeds(Here, f, v, FeedDoc[v]))
          \/ Command(Cli!refresh_feeds(Here, f, None, <<>>))
          \/ Command(Cli!feed_remove(Here, f))
          \/ \E n \in Names : Command(Cli!feed_move(Here, f, n))

Rules ==
    \/ \E filter \in Filters, a \in Actions : Command(Cli!rules_add(Here, "new", filter, <<a>>, 0))
    \/ \E n \in {"old", "new"} :
          \/ Command(Cli!rules_remove(Here, n))
          \/ \E on \in BOOLEAN : Command(Cli!rules_set_enabled(Here, n, on))
    \/ Command(Cli!rules_run(Here))

Import ==
    \/ \E o \in Outlines : Command(Cli!import_opml(Here, o))
    \/ \E b \in Bookmarks : Command(Cli!import_raindrop(Here, b)) \/ Command(Cli!import_pocket(Here, b))
    \/ \E review \in BOOLEAN :
          \/ \E c \in Clips.kindle : Command(Cli!import_kindle(Here, c, review))
          \/ \E c \in Clips.readwise : Command(Cli!import_readwise(Here, c, review))

\* A backup of another library is restored.
Restore == Command(Cli!restore_backup_cmd(Here, Archive))

Collections ==
    \/ \E n \in Names, p \in Colls \cup {None} : Command(Cli!collection_create(Here, n, p, None))
    \/ \E n \in Names, f \in Filters : Command(Cli!save_search(Here, n, f))
    \/ \E c \in Colls :
          \/ \E p \in Colls \cup {None} : Command(Cli!collection_move(Here, c, p))
          \/ \E i \in Items : \/ Command(Cli!collection_add(Here, c, <<i>>))
                              \/ Command(Cli!collection_remove(Here, c, <<i>>))
          \/ \E f \in Filters : Command(Cli!collection_edit_filter(Here, c, f))
          \/ Command(delete_collection(Here, c))

Tags ==
    \E n \in Names :
        \/ \E i \in Items : Command(Cli!tag_add(Here, n, <<i>>)) \/ Command(Cli!tag_remove(Here, n, <<i>>))
        \/ \E to \in Names : Command(Cli!tag_rename(Here, n, to))
        \/ Command(Cli!tag_delete(Here, n))

BulkFilters == {AnyItem, [AnyItem EXCEPT !.status = "inbox"]}
Bulk ==
    \E f \in BulkFilters :
        \/ \E n \in Names : Command(Cli!bulk_tag_cmd(Here, n, f))
        \/ \E c \in Colls : Command(Cli!bulk_move(Here, c, f))
        \/ Command(Cli!bulk_archive_cmd(Here, f)) \/ Command(Cli!bulk_delete(Here, f))

Doctor ==
    \/ \E keep, discard \in Items : Command(Cli!doctor_merge(Here, keep, discard))
    \/ \E status \in {200, 404} : Command(Cli!doctor_links(Here, [i \in Items |-> Cli!check_url(0, status, None)]))

Annotate ==
    \/ \E i \in Items, w \in Words :
          \/ Command(Cli!highlight_add(Here, i, w, None, <<"a">>))
          \/ Command(Cli!note_add(Here, i, w))
          \/ Command(Cli!review_enable(Here, i)) \/ Command(Cli!review_disable(Here, i))
    \/ \E n \in DOMAIN lib.notes :
          Command(Cli!note_edit(Here, n, "b")) \/ Command(Cli!note_delete(Here, n))

Shell == Save \/ Feeds \/ Rules \/ Import \/ Restore \/ Collections \/ Tags \/ Bulk \/ Doctor \/ Annotate

-----------------------------------------------------------------------------
(* The terminal programs, and what another process does meanwhile. *)

\* run_tui takes a key.
Press ==
    /\ host = "terminal" /\ app # None /\ ops > 0
    /\ \E key \in Keys :
         LET turn == Tui!Turn(Here, app, key)
         IN  lib' = At(turn.x) /\ app' = turn.app /\ <<lib', app'>> # <<lib, app>>
    /\ ops' = ops - 1
    /\ UNCHANGED <<kills, host, session, raced, drops>>

Elsewhere ==
    /\ host = "terminal" /\ app # None
    /\ \E i \in Items : Run(delete_content_item(Here, i)) \/ Run(update_content_item_status(Here, i, "later"))
    /\ UNCHANGED hostVars

Shown ==
    /\ host = "review" /\ session.at <= Len(session.queue) /\ ~session.shown
    /\ session' = Tui!Reveal(session)
    /\ UNCHANGED <<lib, ops, kills, host, app, raced, drops>>

\* The session ends when it is killed.
RateCard ==
    /\ host = "review" /\ session.at <= Len(session.queue) /\ session.shown
    /\ \E again \in BOOLEAN :
         LET rated == Tui!Rate(Here, session, again, Now)
         IN  \/ Run(rated.x) /\ session' = rated.s
             \/ RunKilled(rated.x) /\ session' = [session EXCEPT !.queue = <<>>]
    /\ UNCHANGED <<host, app, raced, drops>>

\* The phone, or the web page, grades a card the session also holds.
GradeElsewhere ==
    /\ host = "review"
    /\ \E c \in DOMAIN lib.cards, again \in BOOLEAN :
         Run(Mobile!grade_card(Here, c, again, Now))
    /\ raced' = TRUE
    /\ UNCHANGED <<host, app, session, drops>>

-----------------------------------------------------------------------------
(* The phone: calls hold a mutex; killed, the app is opened again. *)

Open ==
    /\ host = "phone" /\ app = "closed"
    /\ \/ Run(Mobile!open(Here)) /\ app' = "open"
       \/ ~is_empty(lib) /\ app' = "open" /\ UNCHANGED processVars
       \/ RunKilled(Mobile!open(Here)) /\ UNCHANGED app
    /\ UNCHANGED <<host, session, raced, drops>>

Call(x) ==
    /\ host = "phone" /\ app = "open"
    /\ \/ Run(x) /\ UNCHANGED app
       \/ RunKilled(x) /\ app' = "closed"
    /\ UNCHANGED <<host, session, raced, drops>>

Triage ==
    \E i \in Items :
        \/ \E n \in Names : Call(Mobile!add_tag(Here, i, n)) \/ Call(Mobile!remove_tag(Here, i, n))
        \/ \E c \in Colls : \/ Call(Mobile!add_to_collection_call(Here, i, c))
                            \/ Call(Mobile!remove_from_collection_call(Here, i, c))
        \/ Call(Mobile!mark_read(Here, i)) \/ Call(Mobile!mark_unread(Here, i))
        \/ Call(Mobile!archive(Here, i)) \/ Call(Mobile!save_for_later(Here, i))

Study ==
    \/ \E i \in Items, w \in Words : Call(Mobile!add_highlight(Here, i, w, None))
    \/ \E h \in DOMAIN lib.highlights :
          \/ Call(Mobile!set_highlight_note(Here, h, "b"))
          \/ Call(Mobile!delete_highlight(Here, h))
    \/ \E c \in DOMAIN lib.cards, again \in BOOLEAN : Call(Mobile!grade_card(Here, c, again, Now))

Organize == \E n \in Names, p \in Colls \cup {None} : Call(Mobile!create_collection(Here, n, p))

\* An archive of this library's own, or one that cannot be read.
Replace ==
    \/ Call(Mobile!restore_backup_call(Here, Mobile!export_backup(lib)))
    \/ Call(Require(reset(Here), FALSE))

\* The share extension, a process of its own, publishes a capture by renaming its file.
Share ==
    /\ host = "phone" /\ ops > 0
    /\ \E cap \in Captures \ drops : drops' = drops \cup {cap}
    /\ ops' = ops - 1 /\ UNCHANGED <<lib, kills, host, app, session, raced>>

\* drain takes one file after the other, oldest first; the file goes once the call has returned.
Drain ==
    /\ host = "phone" /\ app = "open" /\ drops # {}
    /\ LET cap == CHOOSE c \in drops : \A d \in drops : c.id <= d.id
           x == Mobile!ingest_share_capture(Here, cap)
       IN  \/ Run(x) /\ drops' = (IF x.ok THEN drops \ {cap} ELSE drops) /\ UNCHANGED app
           \/ RunKilled(x) /\ app' = "closed" /\ UNCHANGED drops
           \* Killed between the last statement and the removal of the file.
           \/ /\ ops > 0 /\ kills > 0 /\ ops' = ops - 1 /\ kills' = kills - 1
              /\ lib' = At(x) /\ app' = "closed" /\ UNCHANGED drops
    /\ UNCHANGED <<host, session, raced>>

Phone == Open \/ Triage \/ Study \/ Organize \/ Replace \/ Share \/ Drain

Next == Shell \/ Press \/ Elsewhere \/ Shown \/ RateCard \/ GradeElsewhere \/ Phone

-----------------------------------------------------------------------------
(* The specification. *)

Init ==
    /\ host \in DOMAIN Libraries
    /\ lib \in Libraries[host] /\ ops = Budget[host] /\ kills = Kills
    /\ app \in CASE host = "terminal" -> {Tui!NewApp(lib)}
                 [] host = "phone" -> {"closed"}
                 [] host = "stats" -> Histories
                 [] OTHER -> {None}
    /\ session = IF host = "review" THEN Tui!review_start(lib, Now) ELSE None
    /\ raced = FALSE /\ drops = {}

Spec == Init /\ [][Next]_vars

-----------------------------------------------------------------------------
(* Properties. *)

\* The feeds a folder tree exports are imported into the same tree, and the files of an export
\* hold every note and every highlight whose source is there, whichever format is asked for.
ExportsComplete ==
    LET opml == Cli!build_opml_tree(lib)
        copy == At(Cli!import_opml(Start(EmptyLibrary), opml))
        files == Cli!export_markdown(lib, None)
        quoted(bundles) == UNION {b.highlights : b \in bundles}
    IN  /\ Range(Cli!build_opml_tree(copy)) = Range(opml)
        /\ quoted(files) = {h \in DOMAIN lib.highlights : lib.highlights[h].source \in Items}
        /\ quoted(Cli!export_obsidian(lib).sources) = quoted(files)
        /\ UNION {b.notes : b \in files} = DOMAIN lib.notes
        /\ {b.item : b \in {r \in Cli!export_json(lib, None) : r.bookmark}} = DOMAIN lib.bookmarks

\* A backup restored into the emptied library gives every archived row back and an index with
\* one row per item, whatever commands and kills made the library (restore_backup inserts the
\* rows in its own order and indexes items before their tags).  Members of a smart collection,
\* which bulk move can make, are refused on restore and left out here.  The other exports leave
\* nothing out either.
RestoreRoundTrip ==
    /\ ExportsComplete
    /\ (\A p \in DOMAIN lib.members : ~IsSmart(lib, p[2])) =>
        LET back == restore_backup(reset(Here), Export(lib))
        IN  /\ back.ok /\ Export(At(back)) = Export(lib)
            /\ At(back).fts = SetToBag({IndexRow(lib, i) : i \in Items})

\* A command killed after any of its statements, and run again, leaves what it leaves when it
\* is not killed; so does running it a second time.
Settles(Do(_), View(_)) ==
    LET once == Do(Here)
    IN  \A k \in DOMAIN once.trace : View(At(Do(Start(once.trace[k])))) = View(At(once))

Indexed(l) == <<Export(l), l.fts>>
Archived(l) == Export(l)
\* Of a bookmark import the bookmark's own row and its index row are not made up for.
Imported(l) == [t \in ArchiveTables \ {"bookmarks"} |-> l[t]]

\* The drain of a capture c takes a highlight for present whose item is there, and does not
\* look for the meta row (pergamon-uniffi/src/lib.rs:470).
Quoteless(l, c) == c.id \in DOMAIN l.items \ DOMAIN l.highlights
Drained(l, c) == [Export(l) EXCEPT !.highlights = Restrict(@, DOMAIN @ \ {c.id})]

\* Imports, the merge of duplicates and the drain of shared pages can be repeated after a crash
\* without a lost or a doubled row (each looks its rows up before it writes them), but for one:
\* a drain killed after the item of a highlight and before its meta row (lib.rs:489) is repeated
\* without that row, though lib.rs:456 calls the highlight's id "what makes finalization
\* idempotent" after a crash.  Of imports of bookmarks and of the drain, the rows of a backup are
\* compared and not those of the index.  The kill here is the one kill of the instance.
RerunsSettle ==
    /\ host = "shell" /\ ~Torn =>
        /\ \A o \in Outlines : Settles(LAMBDA x : Cli!import_opml(x, o), Archived)
        /\ \A b \in Bookmarks : /\ Settles(LAMBDA x : Cli!import_raindrop(x, b), Imported)
                                /\ Settles(LAMBDA x : Cli!import_pocket(x, b), Imported)
        /\ \A c \in Clips.kindle : Settles(LAMBDA x : Cli!import_kindle(x, c, TRUE), Indexed)
        /\ \A c \in Clips.readwise : Settles(LAMBDA x : Cli!import_readwise(x, c, TRUE), Indexed)
        /\ \A keep, gone \in Items : keep # gone => Settles(LAMBDA x : Cli!doctor_merge(x, keep, gone), Indexed)
    /\ host = "phone" => \A cap \in Captures :
          LET once == Mobile!ingest_share_capture(Here, cap)
          IN  \A k \in DOMAIN once.trace :
                LET again == At(Mobile!ingest_share_capture(Start(once.trace[k]), cap))
                IN  IF Quoteless(once.trace[k], cap)
                    THEN Export(again) = Drained(At(once), cap)
                    ELSE Export(again) = Export(At(once))

LogsOf(c) == {g \in DOMAIN lib.logs : lib.logs[g].card = c}

\* The counters of a card are the reviews that are logged of it, also when a session queues a
\* card again and works on its copy; a grade given elsewhere during the session is overwritten
\* by the copy, and then the counters stay behind the log.
ReviewsCounted ==
    ~Torn => \A c \in DOMAIN lib.cards :
        LET card == lib.cards[c]
        IN  /\ card.reviews <= Cardinality(LogsOf(c)) /\ card.lapses <= card.reviews
            /\ ~raced => /\ card.reviews = Cardinality(LogsOf(c))
                         /\ card.lapses = Cardinality({g \in LogsOf(c) : lib.logs[g].again})

\* A device that joins with an empty library and pulls the baseline has every row the library
\* had, whatever commands and kills made it: no change is refused on the way (each refers only
\* to rows sent before it), and a card that was reviewed is derived from its logs, to what the
\* reviews had left unless one of them was killed or overwritten.  The feeds are taken out of
\* their folders first (see BaselineApplies); the phone's library is never synced.
BaselineRebuilds ==
    LET sent == Baseline!Unfiled(lib)
        joined == Baseline!Joined(sent, Now)
        peer == At(joined)
    IN  host # "phone" /\ Baseline!Complete(sent) =>
          /\ joined.ok /\ Baseline!Synced(peer) = Baseline!Synced(sent)
          /\ \A c \in DOMAIN lib.cards :
               /\ LogsOf(c) # {} => peer.cards[c].reviews = Cardinality(LogsOf(c))
               /\ ~Torn /\ ~raced => peer.cards[c] = lib.cards[c]

\* The cursor of the terminal is on a row whenever there is one, the header counts the rows
\* that are listed, and a key changes the status of nothing but the row under the cursor,
\* whatever another process has deleted or moved since the list was loaded.  The one exception
\* is the answer to a bulk mark as read that was asked for (R, then y or Enter): it archives
\* every unread item of the view's filter, or none of them.
CursorSound ==
    app # None => app.selected < Max({1, Len(app.items)}) /\ app.total = Len(app.items)
ActsOnShown ==
    [][Press =>
         LET moved == {i \in Items \cap DOMAIN lib'.items : lib'.items[i].status # lib.items[i].status}
             unread == {i \in Items : ItemMatches(lib, i, Tui!InboxOf(app))}
         IN  /\ CursorSound'
             /\ \/ moved \subseteq {Tui!selected_item(app)}
                \/ /\ app.confirm # None /\ moved = unread
                   /\ \A i \in moved : lib'.items[i].status = "archived"]_vars

\* Dates survive their day numbers, both streak functions give the runs of days that the
\* calendar has, and the periods of every report add up to what happened in its window.
StatsSound ==
    host = "stats" =>
        /\ Stats!CalendarRight(app.today)
        /\ Stats!StreaksRight(app.dates, app.today)
        /\ Stats!TotalsRight(app.log, app.today, 7, 2, 2)

Addresses == {lib.items[i].url : i \in Items}

\* The importer whose addresses u is one of.
Scheme(u) ==
    LET of(importer) == u \in {s[1].source : s \in Clips[importer]}
    IN  IF of("kindle") THEN "Kindle" ELSE IF of("readwise") THEN "Readwise" ELSE None

\* Every report counts each card, each reading and each tagging once, though it reaches them by
\* joins of its own: a card whose highlight has no row, or a tagging whose item is gone, would
\* be in one number and not in the other.
ReportsAgree ==
    LET reviews == Reports!review_stats(lib, Now)
        sources == Reports!usage_top_sources(lib)
        tagged == Reports!usage_tag_distribution(lib)
        page == Reports!dashboard(lib)
        overview == Reports!usage_overview(lib)
        months == [t \in {lib.items[i].created : i \in Items} |-> t \div 10]
    IN  /\ Reports!Total(Reports!review_source_breakdown(lib, [u \in Addresses |-> Scheme(u)])) = reviews.total
        /\ Reports!Total(reviews.states) = reviews.total
        /\ Mobile!review_summary(lib, Now).due = reviews.due
        /\ Reports!Total(sources.total) = Cardinality(Reports!OfKind(lib, Reports!Readable))
        /\ Reports!Total(sources.read) <= overview.archived
        /\ Reports!Total(tagged) = Reports!Total(Reports!usage_tag_trends(lib, months))
        /\ \A t \in DOMAIN lib.tags : list_items_by_tag(lib, t) # {} =>
              tagged[lib.tags[t]] = Cardinality(list_items_by_tag(lib, t))
        /\ page # None =>
              /\ page.system.items = overview.items /\ page.system.feeds = Reports!Total(page.feeds)
              /\ Reports!Total(page.types) = overview.items /\ Reports!Total(page.statuses) = overview.items
              /\ page.broken = list_unhealthy_links(lib)

NoFacet == [kind |-> None, status |-> None, tag |-> None, source |-> None]

\* What one client selects in its own way another selects in the database: rules and smart
\* filters, the phone's facets and its lists, the queue of the shell and of the phone, the
\* health of a link on its card and in the list of broken ones; and merging what the doctor
\* reports leaves it nothing to report.
ListsAgree ==
    LET one == [u \in Addresses |-> IF u \in Urls THEN "p1" ELSE u]
        Merge(x, S) == FoldLeft(LAMBDA y, i : Cli!doctor_merge(y, Min(S), i), x, Ascending(S \ {Min(S)}))
        merged == FoldLeft(Merge, Here, SetToSeq(Cli!doctor_dupes(lib, one)))
    IN  /\ \A f \in Filters : SmartQueryRuns(f) => Cli!rules_test(lib, f) = SmartItems(lib, f)
        /\ \A c \in Colls :
              /\ Cli!collection_list(lib)[c] = Cardinality(Cli!collection_show(lib, c))
              /\ IsSmart(lib, c) /\ Cli!collection_list(lib)[c] > 0 =>
                    Cli!run_saved_search(lib, c) = Cli!collection_show(lib, c)
        /\ \A n \in Range(lib.tags) :
              Mobile!search_facets(lib, None, [NoFacet EXCEPT !.tag = n]) = Mobile!items_with_tag(lib, n)
        /\ Mobile!due_cards(lib, Now) = Cli!review_due(lib, Now, Cardinality(DOMAIN lib.cards))
        /\ \A h \in DOMAIN lib.highlights : Cli!highlight_show(lib, h) # None
        /\ \A i \in Items :
              i \in list_unhealthy_links(lib) <=> Pages!build_card(lib, i).health \in {"broken", "unreachable"}
        /\ Cli!doctor_dupes(At(merged), one) = {}

\* Every collection is reached from a root, so that the shell's tree and the phone's list show
\* it, at the depth the phone computes going up, what each client counts the other lists, and
\* the reports agree (move_collection refuses a cycle, delete_collection makes roots of the
\* children).
ClientsAgree ==
    LET shown == Mobile!push_collection_children(lib)
    IN  /\ Cli!collection_list_tree(lib) = Colls /\ DOMAIN shown = Colls
        /\ \A c \in Colls :
              /\ shown[c].depth = Mobile!collection_depth(lib, c)
              /\ shown[c].count = Cardinality(Mobile!items_in_collection(lib, c))
        /\ \A n \in Range(lib.tags) : Mobile!tags(lib)[n] = Cardinality(Mobile!items_with_tag(lib, n))
        /\ Mobile!storage_info(lib).documents = Cardinality(Mobile!list_documents(lib, None))
        /\ ReportsAgree /\ ListsAgree

\* Violated: "a peer applies them without violating referential integrity on the way in".  The
\* folder of a feed is a synced column, and folders are not sent: the first change of the
\* baseline is refused at every device that joins, and with it all that follow.
BaselineApplies == Baseline!Complete(lib) => Baseline!Joined(lib, Now).ok

=============================================================================
