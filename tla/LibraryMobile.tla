---------------------------- MODULE LibraryMobile ----------------------------
(***************************************************************************)
(* The library as the phone apps see it (pergamon-uniffi/src/lib.rs): the  *)
(* calls of the Library object, each of which holds its mutex, and the     *)
(* finalizer that takes shared pages out of the staging folder.  The       *)
(* screens are sets of ids.  Tag names are compared without case, so a     *)
(* name stands for all its spellings.                                      *)
(***************************************************************************)
EXTENDS LibraryReviews

-----------------------------------------------------------------------------
(* Screens. *)

is_document(l, i) == l.items[i].kind # "highlight"

\* Lookups and item_view: what a row shows besides the item.
source_name(l, i) ==
    IF i \in DOMAIN l.feedMeta /\ l.feedMeta[i].feed \in DOMAIN l.feeds
    THEN l.feeds[l.feedMeta[i].feed].url ELSE None
item_view(l, i) ==
    [id |-> i, source |-> source_name(l, i), tags |-> tags_for_item(l, i),
     collections |-> CollectionsOf(l, i), read |-> l.items[i].read, status |-> l.items[i].status]

list_documents(l, status) ==
    {item_view(l, i) : i \in {j \in DOMAIN l.items :
        is_document(l, j) /\ (status = None \/ l.items[j].status = status)}}
inbox(l) == list_documents(l, "inbox")
sources(l) == {v.source : v \in list_documents(l, None)} \ {None}
items_with_tag(l, n) == {v \in list_documents(l, None) : n \in v.tags}
items_in_collection(l, c) == {v \in list_documents(l, None) : c \in v.collections}

\* search_filtered: over the rows, not the index; nothing asked for finds nothing.
item_text_matches(l, v, word) == word = None \/ l.items[v.id].word = word
item_facets_match(l, v, q) ==
    /\ q.kind # None => l.items[v.id].kind = q.kind
    /\ q.status # None => v.status = q.status
    /\ q.tag # None => q.tag \in v.tags
    /\ q.source # None => v.source = q.source
has_active_facets(q) == {q.kind, q.status, q.tag, q.source} # {None}
search_facets(l, word, q) ==
    IF word = None /\ ~has_active_facets(q) THEN {}
    ELSE {v \in list_documents(l, None) : item_text_matches(l, v, word) /\ item_facets_match(l, v, q)}

\* tags_impl counts documents only, and shows tags nothing has.
tags(l) ==
    [n \in Range(l.tags) |->
        Cardinality({i \in DOMAIN l.items : is_document(l, i) /\ n \in tags_for_item(l, i)})]

\* collections_impl: from the roots down, with the depth and the documents of each.
Children(l, S) == {c \in DOMAIN l.colls : l.colls[c].parent \in S}
push_collection_children(l) ==
    LET level[k \in Nat] == IF k = 0 THEN Children(l, {None}) ELSE Children(l, level[k - 1])
    IN  [c \in UNION {level[k] : k \in 0 .. Cardinality(DOMAIN l.colls)} |->
            [depth |-> Min({k \in 0 .. Cardinality(DOMAIN l.colls) : c \in level[k]}),
             count |-> Cardinality({p \in DOMAIN l.members :
                                      p[2] = c /\ p[1] \in DOMAIN l.items /\ is_document(l, p[1])})]]
\* collection_depth: the steps up to a root.
collection_depth(l, c) == Cardinality(AncestorsOf(l, c)) - 1

\* highlights of an item, due_cards: a card whose highlight cannot be read is left out.
highlights(l, i) ==
    {[id |-> h, card |-> get_review_card_for_item(l, h) # {}] : h \in list_highlights(l, i, None)}
due_cards(l, now) ==
    SelectSeq(list_due_review_cards(l, now), LAMBDA c : l.cards[c].item \in DOMAIN l.highlights)

review_summary(l, now) ==
    [due |-> Cardinality({c \in DOMAIN l.cards : l.cards[c].due <= now}),
     total |-> Cardinality(DOMAIN l.cards),
     new |-> Cardinality({c \in DOMAIN l.cards : l.cards[c].state = "new"})]
storage_info(l) ==
    LET marks == Cardinality({i \in DOMAIN l.items : ~is_document(l, i)})
    IN  [schema |-> SchemaVersion, highlights |-> marks,
         documents |-> Cardinality(DOMAIN l.items) - marks]

-----------------------------------------------------------------------------
(* Opening. *)

\* seed: the demo corpus, statement by statement: a feed, its entry, tags, two collections one
\* below the other, a membership, a highlight and its card.
seed(x) ==
    LET f == Fresh(x)
        a == insert_feed(x, "demo", None, None)
        i == Fresh(a)
        b == insert_feed_item_meta(insert_content_item(a, NewItem("demo1", "feed_item", "inbox", "w")), i, f, None)
        c == get_or_create_tag(b, "a")
        d == tag_content_item(c, i, TagNamed(c, "a"))
        e == insert_collection(d, "a", None, None)
        g == insert_collection(e, "b", Fresh(d), None)
        h == add_to_collection(g, i, Fresh(e), 0)
        k == create_highlight(h, i, "w", None)
    IN  insert_review_card(k, NewCard(Fresh(h), 0))

\* open: an empty library is taken for a first launch.
open(x) == IF is_empty(At(x)) THEN seed(x) ELSE x

-----------------------------------------------------------------------------
(* Calls. *)

item_or_not_found(x, i) == Require(x, i \in DOMAIN At(x).items)
collection_or_not_found(x, c) == Require(x, c \in DOMAIN At(x).colls)

add_tag(x, i, n) ==
    LET y == get_or_create_tag(item_or_not_found(x, i), n)
    IN  IF y.ok THEN tag_content_item(y, i, TagNamed(y, n)) ELSE y
\* A tag nothing is called is passed over.
remove_tag(x, i, n) ==
    LET y == item_or_not_found(x, i)
    IN  IF y.ok /\ get_tag_by_name(At(y), n) # {} THEN untag_content_item(y, i, TagNamed(y, n)) ELSE y

create_collection(x, name, parent) ==
    insert_collection(IF parent = None THEN x ELSE collection_or_not_found(x, parent), name, parent, None)
add_to_collection_call(x, i, c) ==
    add_to_collection(item_or_not_found(collection_or_not_found(x, c), i), i, c, 0)
remove_from_collection_call(x, i, c) ==
    remove_from_collection(collection_or_not_found(item_or_not_found(x, i), c), i, c)

mark_read(x, i) ==
    LET y == item_or_not_found(x, i)
    IN  IF y.ok /\ At(y).items[i].read THEN y ELSE set_content_item_read_at(y, i, TRUE)
mark_unread(x, i) == set_content_item_read_at(x, i, FALSE)
archive(x, i) == update_content_item_status(x, i, "archived")
save_for_later(x, i) == update_content_item_status(x, i, "later")

\* add_highlight: every highlight made here has a card, in a statement of its own.
add_highlight(x, i, quote, note) ==
    LET h == Fresh(x) IN insert_review_card(create_highlight(x, i, quote, note), NewCard(h, 0))
set_highlight_note(x, h, note) == update_highlight_meta(x, h, note)
\* delete_highlight does not look at the kind.
delete_highlight(x, h) == delete_content_item(x, h)

\* grade_card: the card as it is now, then the log.
grade_card(x, c, again, now) ==
    LET y == Require(x, c \in DOMAIN At(x).cards)
    IN  IF y.ok THEN Grade(y, c, Graded(At(y).cards[c], again, now), again) ELSE y

export_backup(l) == Export(l)
\* restore_backup replaces: the reset is committed before the archive is read.
restore_backup_call(x, a) == LET y == reset(x) IN restore_backup(y, a)

-----------------------------------------------------------------------------
(* Shared pages: a capture has an address, a selection, or both. *)

\* Mutant: the selection is stored under an id of its own each time.
stage_share_highlightAnew(x, cap, source) ==
    LET h == Fresh(x)
        y == insert_content_item(x, NewItem(None, "highlight", "inbox", cap.text))
    IN  insert_highlight_meta(y, h, [source |-> source, quote |-> cap.text, note |-> None])

\* stage_share_highlight: known by the id of the capture, whatever became of its meta row.
stage_share_highlight(x, cap, source) ==
    LET h == cap.id
        y == InsertItemAs(x, h, NewItem(None, "highlight", "inbox", cap.text))
    IN  IF x.ok /\ h \in DOMAIN At(x).items THEN x
        ELSE insert_highlight_meta(y, h, [source |-> source, quote |-> cap.text, note |-> None])

\* ingest_share_capture: the page is found or made, then the selection is attached to it.
ingest_share_capture(x, cap) ==
    LET known == get_content_item_by_url(At(x), cap.url)
        i == IF known # {} THEN CHOOSE k \in known : TRUE ELSE Fresh(x)
        page == IF known # {} THEN upsert_bookmark_meta(x, i, None)
                ELSE insert_bookmark_meta(
                       insert_content_item(x, NewItem(cap.url, "bookmark", "inbox", cap.title)), i, None)
    IN  CASE cap.url # None /\ cap.text = None -> page
          [] cap.url # None /\ cap.text # None -> stage_share_highlight(page, cap, i)
          [] cap.url = None /\ cap.text # None -> stage_share_highlight(x, cap, None)
          [] cap.url = None /\ cap.text = None -> Require(x, FALSE)
=============================================================================
