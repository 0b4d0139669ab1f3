---------------------------- MODULE LibraryServer ----------------------------
(***************************************************************************)
(* The server's JSON API and web pages as they change the library          *)
(* (pergamon-server/src/routes).  A handler holds the database mutex from  *)
(* its first statement to its last, so handlers do not interleave; those   *)
(* that fetch something first (subscribing to a feed, refreshing feeds)    *)
(* work with what they read before they waited.  Remote sync is set up, so *)
(* sync_tracking records.                                                  *)
(***************************************************************************)
EXTENDS LibraryProcess, LibraryReviews, LibraryPages

CONSTANTS
    Names,      \* tag names and collection names
    Words,      \* what texts can be told apart by
    Urls,       \* canonical addresses of pages
    FeedUrls,   \* addresses of feeds
    Final,      \* where a feed address redirects to
    Doc,        \* the entries a feed serves: Doc[u][v] for version v
    TagLists,   \* the tags a request names
    Filters,    \* smart filters users write
    Outlines,   \* OPML documents
    Libraries,  \* what the database may hold when the process starts
    Ops,        \* bound: handlers run in a behaviour
    Flights     \* bound: requests that wait for an answer at the same time

VARIABLES
    site,       \* the version of its document each feed serves
    flights     \* handlers that wait for an answer

vars == <<lib, ops, kills, site, flights>>

Here == Start(lib)

-----------------------------------------------------------------------------
(* Items. *)

apply_tags(x, i, names) ==
    ForEach(x, names, LAMBDA y, n :
        LET z == get_or_create_tag(y, n) IN tag_content_item(z, i, TagNamed(z, n)))

\* extract_content: a page asked for as a bookmark, or that has no article in it, is one.
ExtractedKind(bookmark, article) == IF bookmark \/ ~article THEN "bookmark" ELSE "article"

\* create_item after the fetch: a known address gets the tags and the bookmark's description.
create_item(x, u, word, names, bookmark, article) ==
    LET known == get_content_item_by_url(At(x), u)
        old == CHOOSE i \in known : TRUE
        tagged == apply_tags(x, old, names)
        i == Fresh(x)
        y == insert_content_item(x, NewItem(u, ExtractedKind(bookmark, article), "inbox", word))
        z == track_document_upsert(y, i)
    IN  IF known # {}
        THEN IF bookmark THEN Ignoring(tagged, upsert_bookmark_meta(tagged, old, word)) ELSE tagged
        ELSE apply_tags(Ignoring(z, insert_bookmark_meta(z, i, word)), i, names)

\* update_item: tags are replaced one by one, and the document is tracked once at the end if
\* the request gave a status or tags.
update_item(x, i, status, names) ==
    LET y == Require(x, i \in DOMAIN At(x).items)
        z == IF status = None THEN y ELSE update_content_item_status(y, i, status)
        bare == IF names = None THEN z
                ELSE ForEach(z, Ascending(TagIds(At(z), i)), LAMBDA w, t :
                        Ignoring(w, untag_content_item(w, i, t)))
        done == IF names = None THEN bare
                ELSE ForEach(bare, names, LAMBDA w, n :
                        LET v == get_or_create_tag(w, n)
                        IN  Ignoring(v, tag_content_item(v, i, TagNamed(v, n))))
    IN  IF ~y.ok \/ (status = None /\ names = None) THEN y ELSE track_document_upsert(done, i)

delete_item(x, i) ==
    IF i \in DOMAIN At(x).items
    THEN track_document_delete(delete_content_item(x, i), i) ELSE Require(x, FALSE)

\* Mutant: what is tracked is the item before the change.
item_statusTrackedFirst(x, i, s) == update_content_item_status(track_document_by_id(x, i), i, s)

\* item_status: the item is read again before it is tracked.
item_status(x, i, s) ==
    LET y == update_content_item_status(x, i, s) IN track_document_by_id(y, i)

\* bulk: each item by itself; what fails is passed over.
bulk(x, ids, action) ==
    ForEach(x, ids, LAMBDA y, i :
        Ignoring(y, IF action = "delete" THEN delete_item(y, i) ELSE item_status(y, i, action)))

-----------------------------------------------------------------------------
(* Notes, highlights and reviews. *)

create_note(x, i, body) == insert_note(x, i, body)

\* delete_highlight looks at the kind, and does not track.
delete_highlight(x, i) ==
    LET y == Require(x, i \in DOMAIN At(x).items /\ At(x).items[i].kind = "highlight")
    IN  IF y.ok THEN delete_content_item(y, i) ELSE y

\* update_highlight keeps what the request leaves out; the web form clears on empty.
update_highlight(x, i, note) ==
    LET y == Require(x, i \in DOMAIN At(x).highlights)
    IN  IF y.ok THEN update_highlight_meta(y, i, OrElse(note, At(y).highlights[i].note)) ELSE y
update_highlight_note(x, i, note) == update_highlight_meta(x, i, note)

\* apply_review_rating: the card, then the log, as two statements.
apply_review_rating(x, c, again, now) ==
    LET y == Require(x, c \in DOMAIN At(x).cards)
    IN  IF y.ok THEN Grade(y, c, Graded(At(y).cards[c], again, now), again) ELSE y

-----------------------------------------------------------------------------
(* Tags and collections. *)

\* add_tags, and the web's add_tag with one name: the tag is made even if tagging then fails.
add_tags(x, i, names) ==
    LET y == Require(x, i \in DOMAIN At(x).items)
    IN  ForEach(y, names, LAMBDA z, n :
          IF ~z.ok THEN z
          ELSE LET w == get_or_create_tag(z, n)
               IN  Ignoring(w, tag_content_item(w, i, TagNamed(w, n))))
add_tag(x, i, n) ==
    LET w == get_or_create_tag(x, n) IN Ignoring(w, tag_content_item(w, i, TagNamed(w, n)))

remove_tag(x, i, n) ==
    LET y == Require(x, get_tag_by_name(At(x), n) # {})
    IN  IF y.ok THEN untag_content_item(y, i, TagNamed(y, n)) ELSE y

\* The web's rename merges when another tag has the name already.
rename_tag_web(x, from, to) ==
    LET y == Require(x, get_tag_by_name(At(x), from) # {})
        taken == get_tag_by_name(At(y), to) \ {TagNamed(y, from)}
    IN  IF ~y.ok THEN y
        ELSE IF taken # {} THEN merge_tags(y, TagNamed(y, from), TagNamed(y, to))
        ELSE rename_tag(y, TagNamed(y, from), to)

merge_tag(x, from, to) ==
    LET y == Require(x, get_tag_by_name(At(x), from) # {})
        z == get_or_create_tag(y, to)
    IN  IF y.ok THEN merge_tags(z, TagNamed(z, from), TagNamed(z, to)) ELSE y

delete_tag_web(x, n) ==
    LET y == Require(x, get_tag_by_name(At(x), n) # {})
    IN  IF y.ok THEN delete_tag(y, TagNamed(y, n)) ELSE y

\* create_collection and create_saved_search: the name must be free.
create_collection(x, name, parent, filter) ==
    LET y == Require(x, get_collection_by_name(At(x), name) = {})
    IN  insert_collection(y, name, parent, filter)

\* add_collection_items refuses a smart collection.
add_collection_items(x, c, S) ==
    LET y == Require(x, Manual(At(x), c)) IN bulk_add_to_collection(y, S, c)

\* move_item swaps two neighbours of the list as it is shown, and writes the list back.
Swapped(s, k, m) == [s EXCEPT ![k] = s[m], ![m] = s[k]]
MovedList(l, c, i, dir) ==
    LET s == list_collection_items(l, c)
        k == CHOOSE n \in DOMAIN s : s[n] = i
        m == IF dir = "up" THEN k - 1 ELSE k + 1
    IN  IF i \in Range(s) /\ m \in DOMAIN s THEN Swapped(s, k, m) ELSE s
move_item(x, c, i, dir) ==
    IF c \notin DOMAIN At(x).colls \/ MovedList(At(x), c, i, dir) = list_collection_items(At(x), c)
    THEN x
    ELSE reorder_collection_items(x, c, MovedList(At(x), c, i, dir))

\* save_search: the form posts what build_dsl built.
save_search(x, name, q) ==
    LET y == Require(x, build_dsl(At(x), q) # <<>> /\ get_collection_by_name(At(x), name) = {})
    IN  insert_collection(y, name, None, build_dsl(At(x), q))

\* add_bookmark (web): nothing is fetched, and nothing is tracked.
add_bookmark(x, u, word, names) ==
    LET known == get_content_item_by_url(At(x), u)
        i == IF known # {} THEN CHOOSE k \in known : TRUE ELSE Fresh(x)
        y == IF known # {} THEN x ELSE insert_content_item(x, NewItem(u, "bookmark", "inbox", word))
        z == IF known # {} THEN y ELSE Ignoring(y, upsert_bookmark_meta(y, i, None))
    IN  ForEach(z, names, LAMBDA w, n : Ignoring(w, add_tag(w, i, n)))

\* The forms of one collection; what the database refuses is passed over.
rename(x, c, n) == Ignoring(x, rename_collection(x, c, n))
update_filter(x, c, f) == Ignoring(x, update_smart_filter(x, c, f))
delete(x, c) == delete_collection(x, c)
remove_item(x, c, i) == Ignoring(x, remove_from_collection(x, i, c))
\* reorder: the ids as the browser posts them, which may be those of an older list.
reorder(x, c, ids) == Ignoring(x, reorder_collection_items(x, c, ids))

-----------------------------------------------------------------------------
(* Feeds. *)

\* An entry is known by its guid, or by its address when it has none.
Known(l, f, e) ==
    \/ e.guid # None /\ feed_item_exists_by_guid(l, f, e.guid)
    \/ e.guid = None /\ e.url # None /\ feed_item_exists_by_url(l, f, e.url)

\* ingest_entries: an address that any item has already ends the loop with an error.
ingest_entries(x, f, entries) ==
    ForEach(x, entries, LAMBDA y, e :
        LET i == Fresh(y)
            z == insert_content_item(y, NewItem(e.url, "feed_item", "inbox", e.word))
            w == insert_feed_item_meta(z, i, f, e.guid)
        IN  IF ~y.ok \/ Known(At(y), f, e) THEN y
            ELSE Ignoring(w, insert_extraction_event(w, [source |-> "feed_sync",
                                                          success |-> e.word # None])))

\* subscribe_feed after the answer: the row is written with the answer's etag first.
subscribe_feed(x, u, v) ==
    LET f == Fresh(x)
        y == ingest_entries(insert_feed(x, u, None, v), f, Doc[u][v])
    IN  update_feed_fetch_success(y, f, v)

\* Mutant: the success is recorded before the entries are stored.
refresh_single_feedEarly(x, feed, v) ==
    LET y == update_feed_fetch_success(x, feed.id, v)
    IN  IF feed.etag = v THEN y ELSE ingest_entries(y, feed.id, Doc[feed.url][v])

\* refresh_single_feed after the answer, for a feed as it was read before the request.
refresh_single_feed(x, feed, v) ==
    IF feed.etag = v THEN update_feed_fetch_success(x, feed.id, feed.etag)
    ELSE update_feed_fetch_success(ingest_entries(x, feed.id, Doc[feed.url][v]), feed.id, v)

\* One turn of sync_feeds' loop: an error is counted at the feed and the loop goes on.
sync_one(x, feed, v) ==
    LET y == IF v = None THEN Require(x, FALSE) ELSE refresh_single_feed(x, feed, v)
    IN  IF y.ok THEN y ELSE update_feed_fetch_error([y EXCEPT !.ok = TRUE], feed.id)

\* get_or_create_folder for each name of a path, from the root down.
get_or_create_folder(x, path) ==
    FoldLeft(LAMBDA st, name :
        LET found == get_feed_folder_by_name(At(st.x), name, st.folder)
        IN  IF found # {} THEN [st EXCEPT !.folder = CHOOSE d \in found : TRUE]
            ELSE [x |-> insert_feed_folder(st.x, name, st.folder), folder |-> Fresh(st.x)],
        [x |-> x, folder |-> None], path)

\* import_outlines: an outline is a feed below a path of folders, or a folder alone.  A feed
\* that is there already moves to the folder of its outline.
import_outlines(x, outlines) ==
    ForEach(x, outlines, LAMBDA y, o :
        LET st == get_or_create_folder(y, o.path)
            there == get_feed_by_url(At(y), o.url)
            f == CHOOSE g \in there : TRUE
        IN  IF o.url = None THEN st.x
            ELSE IF there = {} THEN insert_feed(st.x, o.url, st.folder, None)
            ELSE IF At(y).feeds[f].folder = st.folder THEN st.x
            ELSE update_feed_folder_id(st.x, f, st.folder))

-----------------------------------------------------------------------------
(* The process. *)

Items == DOMAIN lib.items
Colls == DOMAIN lib.colls

\* One handler runs; with the process the handlers that wait die too.
Handler(x) ==
    /\ \/ Run(x) /\ UNCHANGED flights
       \/ RunKilled(x) /\ flights' = <<>>
    /\ UNCHANGED site

SaveItem ==
    \E u \in Urls, w \in Words, names \in TagLists :
        \/ \E bookmark, article \in BOOLEAN : Handler(create_item(Here, u, w, names, bookmark, article))
        \/ Handler(add_bookmark(Here, u, w, names))
        \/ Handler(add_bookmark(Here, None, w, names))
EditItem ==
    \E i \in Items :
        \/ \E s \in Statuses \cup {None}, names \in TagLists \cup {None} :
              Handler(update_item(Here, i, s, names))
        \/ \E s \in Statuses : Handler(item_status(Here, i, s))
        \/ Handler(delete_item(Here, i))
Bulk ==
    \E i, j \in Items, a \in {"archived", "discarded", "delete"} :
        i # j /\ Handler(bulk(Here, <<i, j>>, a))

EditNotes ==
    \/ \E i \in Items, w \in Words : Handler(create_note(Here, i, w))
    \/ \E n \in DOMAIN lib.notes :
          \/ \E w \in Words : Handler(update_note(Here, n, w))
          \/ Handler(delete_note(Here, n))
EditHighlights ==
    \E i \in Items :
        \/ \E w \in Words : Handler(create_highlight(Here, i, w, None))
        \/ \E w \in Words \cup {None} :
              \/ Handler(update_highlight(Here, i, w))
              \/ Handler(update_highlight_note(Here, i, w))
        \/ Handler(delete_highlight(Here, i))
Review ==
    \E c \in DOMAIN lib.cards, again \in BOOLEAN : Handler(apply_review_rating(Here, c, again, 1))

EditTags ==
    \E n \in Names :
        \/ \E i \in Items \cup {0} :
              \/ Handler(add_tags(Here, i, <<n>>))
              \/ Handler(add_tag(Here, i, n))
              \/ Handler(remove_tag(Here, i, n))
        \/ \E m \in Names : \/ Handler(rename_tag_web(Here, n, m))
                            \/ Handler(merge_tag(Here, n, m))
        \/ Handler(delete_tag_web(Here, n))

EditCollections ==
    \/ \E n \in Names, p \in Colls \cup {None}, f \in Filters \cup {None} :
          Handler(create_collection(Here, n, p, f))
    \/ \E c \in Colls :
          \/ \E n \in Names : Handler(rename(Here, c, n))
          \/ \E f \in Filters : Handler(update_filter(Here, c, f))
          \/ Handler(delete(Here, c))
    \/ \E n \in Names, w \in Words, t \in Names \cup {None} :
          Handler(save_search(Here, n, [AnyQuery EXCEPT !.search = w, !.tag = t]))
EditMembers ==
    \E c \in Colls, i \in Items :
        \/ \E j \in Items : Handler(add_collection_items(Here, c, {i, j}))
        \/ Handler(remove_item(Here, c, i))
        \/ \E dir \in {"up", "down"} : Handler(move_item(Here, c, i, dir))
        \/ \E j \in Items : Handler(reorder(Here, c, <<i, j>>))

EditFeeds ==
    \/ \E f \in DOMAIN lib.feeds : Handler(delete_feed(Here, f))
    \/ \E o \in Outlines : Handler(import_outlines(Here, o))

\* What a request for a feed may bring: the document served now, or no answer.
Answers(u) == {site[u], None}

\* A handler that waits: the feeds it still has to do, and the answer for the first.
Depart(feeds, kind) ==
    /\ ops > 0 /\ Len(flights) < Flights /\ feeds # <<>>
    /\ \E v \in Answers(feeds[1].url) :
         flights' = Append(flights, [kind |-> kind, feeds |-> feeds, got |-> v])
    /\ UNCHANGED <<lib, ops, kills, site>>

\* subscribe_feed up to the answer: the address as typed is looked up, the final one is kept.
SubscribeFeed ==
    \E u \in FeedUrls :
        /\ get_feed_by_url(lib, u) = {}
        /\ Depart(<<[id |-> None, url |-> Final[u], etag |-> None]>>, "subscribe")

FeedRow(f) == [id |-> f, url |-> lib.feeds[f].url, etag |-> lib.feeds[f].etag]

\* sync_feeds: one feed, or all as they are now.
SyncFeeds ==
    \/ \E f \in DOMAIN lib.feeds : Depart(<<FeedRow(f)>>, "sync")
    \/ /\ Cardinality(DOMAIN lib.feeds) > 1
       /\ Depart([k \in 1 .. Cardinality(DOMAIN lib.feeds) |->
                    FeedRow(Ascending(DOMAIN lib.feeds)[k])], "sync")

\* The answer is worked in; sync_feeds then asks for the next feed of its list.
Land ==
    \E k \in DOMAIN flights :
        LET fl == flights[k]
            feed == fl.feeds[1]
            x == IF fl.kind = "sync" THEN sync_one(Here, feed, fl.got)
                 ELSE IF fl.got = None THEN Here ELSE subscribe_feed(Here, feed.url, fl.got)
            more == Tail(fl.feeds)
        IN  \/ /\ Run(x)
               /\ IF more = <<>> THEN flights' = RemoveAt(flights, k)
                  ELSE \E v \in Answers(more[1].url) :
                         flights' = [flights EXCEPT ![k] = [@ EXCEPT !.feeds = more, !.got = v]]
               /\ UNCHANGED site
            \* The process and with it every waiting handler dies.
            \/ RunKilled(x) /\ flights' = <<>> /\ UNCHANGED site
            \* The subscription failed: nothing was written.
            \/ /\ Len(x.trace) = 1 /\ flights' = RemoveAt(flights, k)
               /\ UNCHANGED <<lib, ops, kills, site>>

\* The publisher changes the document.
Publish ==
    /\ ops > 0
    /\ \E u \in DOMAIN site : site[u] < Len(Doc[u]) /\ site' = [site EXCEPT ![u] = @ + 1]
    /\ UNCHANGED <<lib, ops, kills, flights>>

Next ==
    \/ SaveItem \/ EditItem \/ Bulk
    \/ EditNotes \/ EditHighlights \/ Review
    \/ EditTags \/ EditCollections \/ EditMembers
    \/ EditFeeds \/ SubscribeFeed \/ SyncFeeds \/ Land \/ Publish

-----------------------------------------------------------------------------
(* The specification. *)

Init ==
    /\ lib \in Libraries
    /\ ops = Ops /\ kills = Kills
    /\ site = [u \in DOMAIN Doc |-> 1] /\ flights = <<>>

Spec == Init /\ [][Next]_vars

-----------------------------------------------------------------------------
(* Properties. *)

\* The full-text index has no row of an item that is gone and no two rows of one item,
\* wherever the process was killed; without a kill it has one row per item, with the tags the
\* item has now, whichever of tagging, renaming, merging and deleting got it there
\* (upsert_fts and refresh_fts_tags are separate statements of every caller).
SearchCurrent ==
    /\ \A r \in DOMAIN lib.fts : r.item \in Items /\ lib.fts[r] = 1
    /\ \A r, q \in DOMAIN lib.fts : r.item = q.item => r = q
    /\ ~Torn => DOMAIN lib.fts = {IndexRow(lib, i) : i \in Items}

\* The number beside a sidebar link is the number of items the link opens (build_sidebar
\* counts by its own queries, inbox resolves the link's parameters again).
SidebarHonest == \A link \in build_sidebar(lib) : link.count = inbox(lib, link.query).total

\* Following the page links shows every item once (offset and total_pages), in the API as on
\* the page.
PagesComplete ==
    LET q(n) == [AnyQuery EXCEPT !.status = "inbox", !.per = MaxPerPage, !.page = n]
        first == inbox(lib, q(1))
        pages == [n \in 1 .. first.total_pages |-> inbox(lib, q(n))]
        walk == FoldLeft(LAMBDA acc, p : acc \o p.rows, <<>>, pages)
        api == list_items(lib, q(first.total_pages))
    IN  /\ Len(walk) = first.total
        /\ Range(walk) = Filtered(lib, [AnyItem EXCEPT !.status = "inbox"])
        /\ Last(pages).next = None /\ (walk # <<>> => Last(pages).rows # <<>>)
        /\ api.rows = Last(pages).rows /\ api.links["last"] = first.total_pages

\* What one page counts another page lists: collections and their detail, tags and the items
\* that have them, due cards and the card the review page opens.
PanelsAgree ==
    /\ \A c \in Colls : CollectionCount(lib, c) = Cardinality(collection_detail(lib, c))
    /\ \A n \in Range(lib.tags) :
          list_tags(lib)[n] = Cardinality(list_items_by_tag(lib, TagFilter(lib, n)))
    /\ build_review_panel(lib, 1).remaining > 0 => build_review_panel(lib, 1).card # None
    /\ build_notes_panel(lib, None) = DOMAIN lib.notes

\* The highlights page, its groups and its export hold the same rows; a source is offered as a
\* filter exactly when it heads a group (a deleted source unlinks its highlights).
HighlightsAgree ==
    LET page == build_highlights_template(lib, None, None)
        file == highlights_export(lib, None, None)
    IN  /\ page.total = Len(file.rows) /\ UNION Range(page.groups) = Range(file.rows)
        /\ file.headings = DOMAIN page.groups
        /\ page.sources = DOMAIN page.groups \ {None}

\* A status narrows a search to the hits that the listing of that status has, and in the cloud
\* no tag is smaller than one with fewer items.
SearchNarrows ==
    LET hits(s) == search_page(lib, [AnyQuery EXCEPT !.search = "w", !.status = s]).hits
        counts == list_tags_with_counts(lib)
        weight(n) == weight_for(counts[n], Max(Range(counts)))
    IN  /\ \A s \in Statuses : hits(s) = hits(None) \cap Filtered(lib, [AnyItem EXCEPT !.status = s])
        /\ list_items(lib, [AnyQuery EXCEPT !.search = "w"]).hits = hits(None)
        /\ \A n, m \in DOMAIN counts : counts[n] <= counts[m] => weight(n) <= weight(m)

\* Listings and counts that different handlers compute agree with each other.
ListingsAgree == SidebarHonest /\ PagesComplete /\ PanelsAgree /\ HighlightsAgree /\ SearchNarrows

Last_row(i) == SelectLastInSeq(lib.outbox, LAMBDA r : r.item = i)

\* A document that was ever handed to sync has its present status, or its deletion, as the
\* last row of the outbox, so that what a peer applies last is what is here.  Only the API's
\* delete_highlight leaves a document behind, and only when nothing was killed in between.
OutboxCurrent ==
    ~Torn => \A i \in {r.item : r \in Range(lib.outbox)} :
        LET row == lib.outbox[Last_row(i)]
        IN  IF i \in Items THEN row.op = "upsert" /\ row.status = lib.items[i].status
            ELSE row.op = "delete" \/ row.kind = "highlight"

\* The etag of a feed moves to a version only when every entry of that version is in the
\* library: a later 304 answer then loses nothing (refresh_single_feed ingests first).
RefreshIngests ==
    [][\A f \in DOMAIN lib.feeds \cap DOMAIN lib'.feeds :
         LET now == lib'.feeds[f]
         IN  now.etag # lib.feeds[f].etag =>
               \A k \in DOMAIN Doc[now.url][now.etag] : Known(lib', f, Doc[now.url][now.etag][k])]_vars

=============================================================================
