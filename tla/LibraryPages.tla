---------------------------- MODULE LibraryPages ----------------------------
(***************************************************************************)
(* What the HTTP API and the web pages show of a library: listings with    *)
(* their page links, the sidebar, and the panels for highlights, notes,    *)
(* reviews, collections, tags and search                                   *)
(* (pergamon-server/src/routes, pagination.rs).  A page is the set or      *)
(* sequence of rows it lists; markup and wording are left out.             *)
(***************************************************************************)
EXTENDS LibraryDb

CONSTANTS
    DefaultPerPage, MaxPerPage,     \* rows per page when none is asked for, and at most
    SidebarTagLimit                 \* tags the sidebar has room for

-----------------------------------------------------------------------------
(* Pages of a listing. *)

PageOf(q) == Max({1, OrElse(q.page, 1)})
\* The API lets a size of 0 through, the web page raises it to 1.
ApiPerPage(q) == Min({OrElse(q.per, DefaultPerPage), MaxPerPage})
WebPerPage(q) == Max({1, ApiPerPage(q)})
Offset(page, per) == (page - 1) * per

\* Mutant: the last, partly filled page is not counted.
total_pagesFloor(total, per) == IF total = 0 THEN 1 ELSE total \div per

\* total.div_ceil(per_page), and one page when there is nothing.
total_pages(total, per) == IF total = 0 THEN 1 ELSE (total + per - 1) \div per

\* The rows of one page, and where its links lead: None is no link.
Listing(l, f, page, per) ==
    LET total == count_content_items_filtered(l, f)
        pages == total_pages(total, per)
    IN  [rows  |-> list_content_items_filtered(l, f, per, Offset(page, per)),
         total |-> total, page |-> page, total_pages |-> pages,
         prev  |-> IF page > 1 THEN page - 1 ELSE None,
         next  |-> IF page < pages THEN page + 1 ELSE None]

\* link_header: first and last besides.
link_header(page, pages) ==
    ("first" :> 1) @@ ("last" :> pages)
    @@ (IF page > 1 THEN "prev" :> page - 1 ELSE NoRows)
    @@ (IF page < pages THEN "next" :> page + 1 ELSE NoRows)

\* A tag name that no tag has is no filter at all.
TagFilter(l, name) ==
    IF name # None /\ get_tag_by_name(l, name) # {}
    THEN CHOOSE t \in get_tag_by_name(l, name) : TRUE ELSE None

QueryFilter(l, q) ==
    [AnyItem EXCEPT !.kind = q.kind, !.status = q.status, !.feed = q.feed,
                    !.folder = q.folder, !.tag = TagFilter(l, q.tag)]

list_items(l, q) ==
    IF q.search # None
    THEN [hits |-> search_filtered(l, q.search, q)]       \* the best of them, up to the page size
    ELSE Listing(l, QueryFilter(l, q), PageOf(q), ApiPerPage(q))
            @@ [links |-> link_header(PageOf(q),
                            total_pages(count_content_items_filtered(l, QueryFilter(l, q)),
                                        ApiPerPage(q)))]

inbox(l, q) == Listing(l, QueryFilter(l, q), PageOf(q), WebPerPage(q))

bookmarks(l, status, page) ==
    Listing(l, [AnyItem EXCEPT !.kind = "bookmark", !.status = status],
            Max({1, page}), Min({DefaultPerPage, MaxPerPage}))

AnyQuery == [search |-> None, status |-> None, kind |-> None, tag |-> None, feed |-> None,
             folder |-> None, page |-> None, per |-> None]

-----------------------------------------------------------------------------
(* The sidebar: links and the number shown beside each. *)

\* SIDEBAR_STATUSES: discarded items have no link.
SidebarStatuses == {"inbox", "later", "reading", "reference", "archived"}

StatusLinks(l) ==
    {[query |-> [AnyQuery EXCEPT !.status = s],
      count |-> count_content_items_filtered(l, [AnyItem EXCEPT !.status = s])] :
        s \in SidebarStatuses}

FeedNav(l, f) ==
    [query |-> [AnyQuery EXCEPT !.feed = f],
     count |-> count_content_items_filtered(l, [AnyItem EXCEPT !.feed = f])]

\* Feeds under their folder, and those without one.
FolderNavs(l) ==
    [d \in DOMAIN l.folders |->
        {FeedNav(l, f) : f \in {g \in DOMAIN l.feeds : l.feeds[g].folder = d}}]
FeedsRoot(l) == {FeedNav(l, f) : f \in {g \in DOMAIN l.feeds : l.feeds[g].folder = None}}

\* The most used tags first; among equals, ids stand for the order of the names.
TopTags(l) ==
    LET counts == list_tags_with_counts(l)
        Id(n) == CHOOSE t \in DOMAIN l.tags : l.tags[t] = n
        Above(n) == {k \in DOMAIN counts : \/ counts[k] > counts[n]
                                           \/ counts[k] = counts[n] /\ Id(k) < Id(n)}
    IN  {n \in DOMAIN counts : Cardinality(Above(n)) < SidebarTagLimit}

TagLinks(l) ==
    {[query |-> [AnyQuery EXCEPT !.tag = n], count |-> list_tags_with_counts(l)[n]] :
        n \in TopTags(l)}

build_sidebar(l) ==
    StatusLinks(l) \cup UNION Range(FolderNavs(l)) \cup FeedsRoot(l) \cup TagLinks(l)

-----------------------------------------------------------------------------
(* Rows and panels. *)

\* item_source: the feed's, else what the bookmark or the address says.
item_source(l, i) ==
    IF l.items[i].kind = "feed_item"
    THEN IF i \in DOMAIN l.feedMeta /\ l.feedMeta[i].feed \in DOMAIN l.feeds
         THEN l.feeds[l.feedMeta[i].feed].url ELSE "Feed"
    ELSE OrElse(l.items[i].url, l.items[i].kind)

build_item_view(l, i) ==
    [id |-> i, source |-> item_source(l, i), status |-> l.items[i].status,
     read |-> l.items[i].read \/ l.items[i].status = "archived"]

\* reader: the item with its tags; None is the 404 page.
reader(l, i) ==
    IF i \in DOMAIN l.items
    THEN [item |-> build_item_view(l, i), tags |-> tags_for_item(l, i)] ELSE None

\* classify_health: an unreachable link has no status.
classify_health(http) ==
    CASE http = None -> "unreachable"
      [] http >= 400 -> "broken"
      [] http >= 300 -> "redirect"
      [] OTHER       -> "ok"

build_card(l, i) ==
    [item |-> build_item_view(l, i),
     description |-> IF i \in DOMAIN l.bookmarks THEN l.bookmarks[i] ELSE None,
     health |-> IF i \in DOMAIN l.health THEN classify_health(l.health[i]) ELSE None]

\* highlight_source_context: the source if it is still there.
highlight_source_context(l, h) ==
    IF l.highlights[h].source \in DOMAIN l.items THEN l.highlights[h].source ELSE None

\* Highlights grouped by source; the filters offer the sources that highlights refer to.
build_highlights_template(l, source, tag) ==
    LET rows == list_highlights(l, source, tag)
        keys == {highlight_source_context(l, h) : h \in rows}
    IN  [groups |-> [k \in keys |-> {h \in rows : highlight_source_context(l, h) = k}],
         sources |-> {l.highlights[h].source : h \in list_highlights(l, None, None)} \ {None},
         total |-> Cardinality(rows)]

\* highlights_export: newest first, with a heading whenever the source differs from the row
\* before; the sources of the headings, and the rows.
highlights_export(l, source, tag) ==
    LET rows == SetToSortSeq(list_highlights(l, source, tag),
                             LAMBDA a, b : l.items[a].created > l.items[b].created)
        src(k) == highlight_source_context(l, rows[k])
    IN  [headings |-> {src(k) : k \in {j \in DOMAIN rows : j = 1 \/ src(j) # src(j - 1)}},
         rows |-> rows]

\* build_notes_panel: a note whose item is gone would not be listed.
build_notes_panel(l, source) ==
    {n \in DOMAIN l.notes : /\ source # None => l.notes[n].item = source
                            /\ l.notes[n].item \in DOMAIN l.items}

\* build_review_panel shows the first due card, if its highlight can be read.
build_review_panel(l, now) ==
    LET queue == list_due_review_cards(l, now)
        shown == queue # <<>> /\ l.cards[queue[1]].item \in DOMAIN l.highlights
    IN  [card |-> IF shown THEN queue[1] ELSE None, remaining |-> Len(queue)]

\* The collections page, and one collection.
CollectionCount(l, c) ==
    IF IsSmart(l, c) THEN count_smart_collection_items(l, c) ELSE Len(list_collection_items(l, c))
collection_detail(l, c) ==
    IF IsSmart(l, c) THEN list_smart_collection_items(l, c) ELSE Range(list_collection_items(l, c))
collections(l) ==
    [regular |-> {c \in DOMAIN l.colls : ~IsSmart(l, c)},
     smart   |-> {c \in DOMAIN l.colls : IsSmart(l, c)}]

\* The tags page and GET /tags: tags in use with their counts, then the others with 0.
list_tags(l) ==
    list_tags_with_counts(l) @@ [n \in Range(l.tags) |-> 0]

\* weight_for: five sizes, by the share of the most used tag.
weight_for(count, max) ==
    IF max <= 0 \/ count <= 0 THEN 1
    ELSE Min({5, Max({1, 1 + (count * 4 + max \div 2) \div max})})

\* build_dsl: the smart filter a search can be saved as.
build_dsl(l, q) ==
    LET Part(is, v) == IF v = None THEN <<>> ELSE <<[is |-> is, of |-> {v}]>>
    IN  Part("text", q.search) \o Part("type", q.kind) \o Part("status", q.status)
            \o Part("tag", q.tag) \o Part("source", IF q.feed \in DOMAIN l.feeds THEN l.feeds[q.feed].url ELSE None)

\* The search page: without a word there are no hits.
search_page(l, q) ==
    [hits |-> IF q.search = None THEN {} ELSE search_filtered(l, q.search, q),
     can_save |-> build_dsl(l, q) # <<>>]
=============================================================================
