------------------------------ MODULE LibraryDb ------------------------------
(***************************************************************************)
(* The SQLite library (pergamon-storage/src/db.rs) as one value: a record  *)
(* of tables.  A table is a function from row ids to rows, or a set when   *)
(* the row is its own key.  Ids are numbers given out in creation order,   *)
(* so an id also stands for created_at until a row is backdated; ids that  *)
(* come from elsewhere are negative.                                       *)
(*                                                                         *)
(* An operation of the database takes an execution and returns an          *)
(* execution: the sequence of library values that are committed one after  *)
(* the other, and whether an error has already ended the caller.  A caller *)
(* that runs to its end leaves the last value; a process that is killed    *)
(* leaves any of them.                                                     *)
(***************************************************************************)
EXTENDS Integers, Sequences, SequencesExt, FiniteSets, FiniteSetsExt, Functions, Bags

CONSTANTS
    None,       \* SQL NULL, and Option::None
    Statuses    \* DocumentStatus

-----------------------------------------------------------------------------
(* The tables. *)

NoRows == [x \in {} |-> None]

Put(table, key, row) == (key :> row) @@ table
Without(table, keys) == [k \in DOMAIN table \ keys |-> table[k]]
OrElse(value, default) == IF value = None THEN default ELSE value

\* A database on which the migrations have just run.
EmptyLibrary ==
    [next |-> 1,
     items |-> NoRows, fts |-> EmptyBag,
     tags |-> NoRows, itemTags |-> {},
     colls |-> NoRows, members |-> NoRows,
     feeds |-> NoRows, folders |-> NoRows, feedMeta |-> NoRows,
     bookmarks |-> NoRows, highlights |-> NoRows, notes |-> NoRows,
     cards |-> NoRows, logs |-> NoRows, rules |-> NoRows,
     health |-> NoRows, imports |-> <<>>, extractions |-> <<>>,
     outbox |-> <<>>]

\* schema_version: what the tables above are is the result of every migration.
SchemaVersion == 16

-----------------------------------------------------------------------------
(* Executions. *)

Start(l) == [trace |-> <<l>>, ok |-> TRUE]
At(x) == Last(x.trace)

\* One autocommitted statement.
Commit(x, l) == IF x.ok THEN [x EXCEPT !.trace = Append(@, l)] ELSE x

\* An early return with an error unless c holds.
Require(x, c) == IF x.ok THEN [x EXCEPT !.ok = c] ELSE x

\* in_transaction, and BEGIN ... COMMIT or ROLLBACK: all of the statements or none.
in_transaction(x, y) == IF y.ok THEN Commit(x, At(y)) ELSE [x EXCEPT !.ok = FALSE]
Transaction(x, Body(_)) == IF x.ok THEN in_transaction(x, Body(Start(At(x)))) ELSE x

\* `let _ = f()`: what f did stays, that it failed is forgotten.
Ignoring(x, y) == IF x.ok THEN [y EXCEPT !.ok = TRUE] ELSE x

\* `for e in s { f(e)?; }`
ForEach(x, s, Body(_, _)) == FoldLeft(Body, x, s)

\* Rows are visited in creation order unless a query says otherwise.
Ascending(S) == SetToSortSeq(S, <)
Descending(S) == SetToSortSeq(S, >)

Fresh(x) == At(x).next

-----------------------------------------------------------------------------
(* Queries. *)

get_content_item_by_url(l, u) ==
    IF u = None THEN {} ELSE {i \in DOMAIN l.items : l.items[i].url = u}
get_tag_by_name(l, n) == {t \in DOMAIN l.tags : l.tags[t] = n}
get_feed_by_url(l, u) == {f \in DOMAIN l.feeds : l.feeds[f].url = u}
get_collection_by_name(l, n) == {c \in DOMAIN l.colls : l.colls[c].name = n}
get_rule_by_name(l, n) == {r \in DOMAIN l.rules : l.rules[r].name = n}
get_feed_folder_by_name(l, n, parent) ==
    {f \in DOMAIN l.folders : l.folders[f].name = n /\ l.folders[f].parent = parent}
get_review_card_for_item(l, i) == {c \in DOMAIN l.cards : l.cards[c].item = i}
list_notes_for_item(l, i) == {n \in DOMAIN l.notes : l.notes[n].item = i}

TagIds(l, i) == {t \in DOMAIN l.tags : <<i, t>> \in l.itemTags}
tags_for_item(l, i) == {l.tags[t] : t \in TagIds(l, i)}
list_items_by_tag(l, t) == {i \in DOMAIN l.items : <<i, t>> \in l.itemTags}

CollectionsOf(l, i) == {c \in DOMAIN l.colls : <<i, c>> \in DOMAIN l.members}
MembersOf(l, c) == {i \in DOMAIN l.items : <<i, c>> \in DOMAIN l.members}
\* ORDER BY sort_order, created_at DESC
list_collection_items(l, c) ==
    SetToSortSeq(MembersOf(l, c),
        LAMBDA a, b : \/ l.members[<<a, c>>] < l.members[<<b, c>>]
                      \/ /\ l.members[<<a, c>>] = l.members[<<b, c>>]
                         /\ l.items[a].created > l.items[b].created)

feed_item_exists_by_guid(l, f, g) ==
    \E i \in DOMAIN l.feedMeta : l.feedMeta[i] = [feed |-> f, guid |-> g]
feed_item_exists_by_url(l, f, u) ==
    \E i \in DOMAIN l.feedMeta :
        i \in DOMAIN l.items /\ l.feedMeta[i].feed = f /\ l.items[i].url = u /\ u # None

is_empty(l) ==
    DOMAIN l.feeds \cup DOMAIN l.items \cup DOMAIN l.tags \cup DOMAIN l.colls = {}

list_highlights(l, source, tag) ==
    {i \in DOMAIN l.items :
        /\ l.items[i].kind = "highlight" /\ i \in DOMAIN l.highlights
        /\ source # None => l.highlights[i].source = source
        /\ tag # None => tag \in tags_for_item(l, i)}

\* ORDER BY due_at
list_due_review_cards(l, now) ==
    SetToSortSeq({c \in DOMAIN l.cards : l.cards[c].due <= now},
        LAMBDA a, b : \/ l.cards[a].due < l.cards[b].due
                      \/ l.cards[a].due = l.cards[b].due /\ a < b)

list_urls_for_health_check(l) == {i \in DOMAIN l.items : l.items[i].url # None}
list_unhealthy_links(l) ==
    {i \in DOMAIN l.health : l.health[i] = None \/ l.health[i] >= 400}

-----------------------------------------------------------------------------
(* The full-text index. *)

\* The row an item has in the index: its text never changes after the insert, its tags do.
IndexRow(l, i) == [item |-> i, word |-> l.items[i].word, tags |-> tags_for_item(l, i)]

\* The index is a bag: upsert_fts inserts, and nothing is deleted first.
AddIndexRow(l, i) == [l EXCEPT !.fts = @ (+) SetToBag({IndexRow(l, i)})]
upsert_fts(x, i) == IF x.ok THEN Commit(x, AddIndexRow(At(x), i)) ELSE x

WithoutIndexRows(l, i) == [l EXCEPT !.fts = RestrictDomain(@, LAMBDA r : r.item # i)]

\* refresh_fts_tags: the tags and the text are read, the row is deleted, and then inserted.
refresh_fts_tags(x, i) ==
    LET y == Require(x, i \in DOMAIN At(x).items)
        z == Commit(y, WithoutIndexRows(At(y), i))
    IN  upsert_fts(z, i)

RefreshAll(x, S) == ForEach(x, Ascending(S), refresh_fts_tags)

\* search: the items of the index rows that hold the word in their text or their tags.
search(l, w) == {r.item : r \in {q \in DOMAIN l.fts : w = q.word \/ w \in q.tags}}

\* search_filtered joins the rows with the items and narrows by type, status, tag and feed.
search_filtered(l, w, f) ==
    {i \in search(l, w) \cap DOMAIN l.items :
        /\ f.kind # None => l.items[i].kind = f.kind
        /\ f.status # None => l.items[i].status = f.status
        /\ f.tag # None => f.tag \in tags_for_item(l, i)
        /\ f.feed # None => i \in DOMAIN l.feedMeta /\ l.feedMeta[i].feed = f.feed}

-----------------------------------------------------------------------------
(* Content items. *)

NewItem(url, kind, status, word) ==
    [url |-> url, kind |-> kind, status |-> status, read |-> FALSE, word |-> word]

\* insert_content_item under an id the caller has chosen.
InsertItemAs(x, i, item) ==
    LET l == At(x)
        y == Require(x, i \notin DOMAIN l.items /\ get_content_item_by_url(l, item.url) = {})
    IN  upsert_fts(Commit(y, [l EXCEPT !.next = IF i = @ THEN @ + 1 ELSE @,
                                       !.items = Put(@, i, item @@ [created |-> i])]), i)
insert_content_item(x, item) == InsertItemAs(x, Fresh(x), item)

\* Archiving also marks the item read, unless it already is.
update_content_item_status(x, i, s) ==
    LET y == Require(x, i \in DOMAIN At(x).items)
    IN  Commit(y, [At(y) EXCEPT !.items[i].status = s,
                                !.items[i].read = @ \/ s = "archived"])

set_content_item_read_at(x, i, read) ==
    LET y == Require(x, i \in DOMAIN At(x).items)
    IN  Commit(y, [At(y) EXCEPT !.items[i].read = read])

backdate_created_at(x, i, t) ==
    Commit(x, [At(x) EXCEPT !.items =
        [j \in DOMAIN @ |-> IF j = i /\ @[j].created > t
                            THEN [@[j] EXCEPT !.created = t] ELSE @[j]]])

\* DELETE FROM content_items, with what the foreign keys cascade to.
DeleteItem(l, i) ==
    LET gone == get_review_card_for_item(l, i)
    IN  [l EXCEPT
          !.items = Without(@, {i}),
          !.itemTags = {p \in @ : p[1] # i},
          !.members = [p \in {q \in DOMAIN @ : q[1] # i} |-> @[p]],
          !.feedMeta = Without(@, {i}), !.bookmarks = Without(@, {i}),
          !.health = Without(@, {i}),
          !.highlights = [h \in DOMAIN @ \ {i} |->
                            IF @[h].source = i THEN [@[h] EXCEPT !.source = None] ELSE @[h]],
          !.notes = RestrictDomain(@, LAMBDA n : l.notes[n].item # i),
          !.cards = Without(@, gone),
          !.logs = RestrictDomain(@, LAMBDA g : l.logs[g].card \notin gone)]

delete_content_item(x, i) ==
    LET y == Commit(x, WithoutIndexRows(At(x), i))
    IN  Commit(y, DeleteItem(At(y), i))

bulk_archive(x, S) ==
    Commit(x, [At(x) EXCEPT !.items =
        [j \in DOMAIN @ |-> IF j \in S THEN [@[j] EXCEPT !.status = "archived"] ELSE @[j]]])

bulk_discard(x, S) ==
    Commit(x, [At(x) EXCEPT !.items =
        [j \in DOMAIN @ |-> IF j \in S THEN [@[j] EXCEPT !.status = "discarded"] ELSE @[j]]])

-----------------------------------------------------------------------------
(* Tags. *)

\* INSERT OR IGNORE, then the row of that name.
get_or_create_tag(x, n) ==
    IF get_tag_by_name(At(x), n) # {} THEN x
    ELSE Commit(x, [At(x) EXCEPT !.next = @ + 1, !.tags = Put(@, At(x).next, n)])
TagNamed(x, n) == CHOOSE t \in get_tag_by_name(At(x), n) : TRUE

tag_content_item(x, i, t) ==
    LET y == Require(x, i \in DOMAIN At(x).items /\ t \in DOMAIN At(x).tags)
    IN  refresh_fts_tags(Commit(y, [At(y) EXCEPT !.itemTags = @ \cup {<<i, t>>}]), i)

untag_content_item(x, i, t) ==
    IF x.ok /\ <<i, t>> \in At(x).itemTags
    THEN refresh_fts_tags(Commit(x, [At(x) EXCEPT !.itemTags = @ \ {<<i, t>>}]), i)
    ELSE x

DeleteTag(l, t) ==
    [l EXCEPT !.tags = Without(@, {t}), !.itemTags = {p \in @ : p[2] # t}]

delete_tag(x, t) ==
    LET affected == list_items_by_tag(At(x), t)
    IN  RefreshAll(Commit(x, DeleteTag(At(x), t)), affected)

rename_tag(x, t, n) ==
    LET y == Require(x, t \in DOMAIN At(x).tags /\ get_tag_by_name(At(x), n) \subseteq {t})
    IN  RefreshAll(Commit(y, [At(y) EXCEPT !.tags[t] = n]), list_items_by_tag(At(y), t))

\* Mutant: the index keeps the old name.
merge_tagsUnindexed(x, from, to) ==
    LET y == Require(x, {from, to} \subseteq DOMAIN At(x).tags)
        moved == [At(y) EXCEPT !.itemTags = @ \cup {<<i, to>> : i \in list_items_by_tag(At(y), from)}]
    IN  IF from = to THEN x ELSE Commit(y, DeleteTag(moved, from))

\* The links move and the tag goes in one transaction; the index follows after its COMMIT.
merge_tags(x, from, to) ==
    LET y == Require(x, {from, to} \subseteq DOMAIN At(x).tags)
        affected == list_items_by_tag(At(y), from)
        moved == [At(y) EXCEPT !.itemTags = @ \cup {<<i, to>> : i \in affected}]
    IN  IF from = to THEN x ELSE RefreshAll(Commit(y, DeleteTag(moved, from)), affected)

\* bulk_tag, in one transaction; only an item that was not yet tagged is indexed again.
bulk_tag(x, S, t) ==
    Transaction(x, LAMBDA b :
        ForEach(b, Ascending(S), LAMBDA y, i :
            IF y.ok /\ <<i, t>> \in At(y).itemTags THEN y ELSE tag_content_item(y, i, t)))

transfer_tags(x, from, to) ==
    LET y == Commit(x, [At(x) EXCEPT !.itemTags = @ \cup {<<to, t>> : t \in TagIds(At(x), from)}])
    IN  refresh_fts_tags(y, to)

list_tags_with_counts(l) ==
    [n \in {l.tags[p[2]] : p \in l.itemTags} |->
        Cardinality({p \in l.itemTags : l.tags[p[2]] = n})]

-----------------------------------------------------------------------------
(* Collections. *)

\* Every collection above c, itself included: the walk of move_collection.
AncestorsOf(l, c) ==
    LET up[k \in 0 .. Cardinality(DOMAIN l.colls)] ==
          IF k = 0 THEN {c} \cap DOMAIN l.colls
          ELSE up[k - 1] \cup ({l.colls[d].parent : d \in up[k - 1]} \cap DOMAIN l.colls)
    IN  up[Cardinality(DOMAIN l.colls)]

\* A smart collection has a filter, a manual one has none (the triggers of V9).
insert_collection(x, name, parent, filter) ==
    LET y == Require(x, parent \in DOMAIN At(x).colls \cup {None})
    IN  Commit(y, [At(y) EXCEPT !.next = @ + 1,
          !.colls = Put(@, At(y).next, [name |-> name, parent |-> parent, filter |-> filter])])

IsSmart(l, c) == l.colls[c].filter # None
Manual(l, c) == c \in DOMAIN l.colls /\ ~IsSmart(l, c)

AddMember(l, i, c, pos) ==
    IF <<i, c>> \in DOMAIN l.members THEN l ELSE [l EXCEPT !.members = Put(@, <<i, c>>, pos)]

add_to_collection(x, i, c, pos) ==
    LET y == Require(x, Manual(At(x), c) /\ i \in DOMAIN At(x).items)
    IN  Commit(y, AddMember(At(y), i, c, pos))

remove_from_collection(x, i, c) ==
    LET y == Require(x, Manual(At(x), c))
    IN  Commit(y, [At(y) EXCEPT !.members = Without(@, {<<i, c>>})])

\* bulk_add_to_collection does not look whether the collection is smart.
bulk_add_to_collection(x, S, c) ==
    Transaction(x, LAMBDA b :
        ForEach(b, Ascending(S), LAMBDA y, i :
            LET z == Require(y, i \in DOMAIN At(y).items /\ c \in DOMAIN At(y).colls)
            IN  Commit(z, AddMember(At(z), i, c, 0))))

rename_collection(x, c, n) ==
    LET y == Require(x, c \in DOMAIN At(x).colls)
    IN  Commit(y, [At(y) EXCEPT !.colls[c].name = n])

\* Mutant: only the collection itself is refused as its parent.
move_collectionUnchecked(x, c, parent) ==
    LET y == Require(x, parent # c /\ c \in DOMAIN At(x).colls
                        /\ parent \in DOMAIN At(x).colls \cup {None})
    IN  Commit(y, [At(y) EXCEPT !.colls[c].parent = parent])

\* Refused when the new parent is the collection or one of its descendants.
move_collection(x, c, parent) ==
    LET y == Require(x, /\ parent # None => parent # c /\ c \notin AncestorsOf(At(x), parent)
                        /\ c \in DOMAIN At(x).colls
                        /\ parent \in DOMAIN At(x).colls \cup {None})
    IN  Commit(y, [At(y) EXCEPT !.colls[c].parent = parent])

\* Its memberships go with it, its children become roots.
delete_collection(x, c) ==
    Commit(x, [At(x) EXCEPT
        !.colls = [d \in DOMAIN @ \ {c} |->
                     IF @[d].parent = c THEN [@[d] EXCEPT !.parent = None] ELSE @[d]],
        !.members = [p \in {q \in DOMAIN @ : q[2] # c} |-> @[p]]])

\* Position k of the list becomes the sort order; items not in the list keep theirs.
reorder_collection_items(x, c, ids) ==
    LET y == Require(x, Manual(At(x), c))
    IN  Commit(y, [At(y) EXCEPT !.members =
          [p \in DOMAIN @ |-> IF p[2] = c /\ \E k \in DOMAIN ids : ids[k] = p[1]
                              THEN Max({k \in DOMAIN ids : ids[k] = p[1]}) - 1 ELSE @[p]]])

transfer_collections(x, from, to) ==
    LET l == At(x)
        mine == {c \in CollectionsOf(l, from) : <<to, c>> \notin DOMAIN l.members}
    IN  Commit(x, [l EXCEPT !.members =
          [p \in {<<to, c>> : c \in mine} |-> l.members[<<from, p[2]>>]] @@ @])

update_smart_filter(x, c, filter) ==
    Commit(x, IF c \in DOMAIN At(x).colls /\ IsSmart(At(x), c)
              THEN [At(x) EXCEPT !.colls[c].filter = filter] ELSE At(x))

-----------------------------------------------------------------------------
(* Feeds and folders. *)

insert_feed(x, url, folder, etag) ==
    LET y == Require(x, /\ get_feed_by_url(At(x), url) = {}
                        /\ folder \in DOMAIN At(x).folders \cup {None})
    IN  Commit(y, [At(y) EXCEPT !.next = @ + 1,
          !.feeds = Put(@, At(y).next, [url |-> url, folder |-> folder, errors |-> 0, etag |-> etag])])

\* ON DELETE CASCADE reaches feed_item_meta; the items the feed brought stay.
delete_feed(x, f) ==
    Commit(x, [At(x) EXCEPT !.feeds = Without(@, {f}),
                            !.feedMeta = RestrictValues(@, LAMBDA m : m.feed # f)])

update_feed_fetch_success(x, f, etag) ==
    Commit(x, IF f \in DOMAIN At(x).feeds
              THEN [At(x) EXCEPT !.feeds[f].etag = etag, !.feeds[f].errors = 0] ELSE At(x))

update_feed_fetch_error(x, f) ==
    Commit(x, IF f \in DOMAIN At(x).feeds
              THEN [At(x) EXCEPT !.feeds[f].errors = @ + 1] ELSE At(x))

update_feed_folder_id(x, f, folder) ==
    Commit(x, IF f \in DOMAIN At(x).feeds THEN [At(x) EXCEPT !.feeds[f].folder = folder] ELSE At(x))

insert_feed_folder(x, name, parent) ==
    LET y == Require(x, get_feed_folder_by_name(At(x), name, parent) = {})
    IN  Commit(y, [At(y) EXCEPT !.next = @ + 1,
          !.folders = Put(@, At(y).next, [name |-> name, parent |-> parent])])

\* Feeds and sub-folders of the folder are left without one.
insert_feed_item_meta(x, i, f, guid) ==
    LET y == Require(x, /\ i \in DOMAIN At(x).items /\ f \in DOMAIN At(x).feeds
                        /\ i \notin DOMAIN At(x).feedMeta
                        /\ guid # None => ~feed_item_exists_by_guid(At(x), f, guid))
    IN  Commit(y, [At(y) EXCEPT !.feedMeta = Put(@, i, [feed |-> f, guid |-> guid])])

-----------------------------------------------------------------------------
(* Highlights, notes, review cards, rules and the side tables. *)

\* A highlight is an item of its own, then its meta row; its source must exist.
insert_highlight_meta(x, i, meta) ==
    LET y == Require(x, /\ i \in DOMAIN At(x).items /\ i \notin DOMAIN At(x).highlights
                        /\ meta.source \in DOMAIN At(x).items \cup {None})
    IN  Commit(y, [At(y) EXCEPT !.highlights = Put(@, i, meta)])

create_highlight(x, source, quote, note) ==
    LET i == Fresh(x)
        y == Require(x, source \in DOMAIN At(x).items)
        z == insert_content_item(y, NewItem(None, "highlight", "inbox", quote))
    IN  insert_highlight_meta(z, i, [source |-> source, quote |-> quote, note |-> note])

update_highlight_meta(x, i, note) ==
    LET y == Require(x, i \in DOMAIN At(x).highlights)
    IN  Commit(y, [At(y) EXCEPT !.highlights[i].note = note])

insert_note(x, i, body) ==
    LET y == Require(x, i \in DOMAIN At(x).items)
    IN  Commit(y, [At(y) EXCEPT !.next = @ + 1,
                                !.notes = Put(@, At(y).next, [item |-> i, body |-> body])])

update_note(x, n, body) ==
    LET y == Require(x, n \in DOMAIN At(x).notes)
    IN  Commit(y, [At(y) EXCEPT !.notes[n].body = body])

delete_note(x, n) == Commit(x, [At(x) EXCEPT !.notes = Without(@, {n})])

NewCard(i, now) ==
    [item |-> i, state |-> "new", memory |-> <<>>, due |-> now, reviews |-> 0, lapses |-> 0]

\* One card per highlight (UNIQUE), and only for a highlight (the foreign key).
insert_review_card(x, card) ==
    LET y == Require(x, /\ card.item \in DOMAIN At(x).highlights
                        /\ get_review_card_for_item(At(x), card.item) = {})
    IN  Commit(y, [At(y) EXCEPT !.next = @ + 1, !.cards = Put(@, At(y).next, card)])

update_review_card(x, c, card) ==
    LET y == Require(x, c \in DOMAIN At(x).cards)
    IN  Commit(y, [At(y) EXCEPT !.cards[c] = card])

\* With the card go its logs.
delete_review_card_for_item(x, i) ==
    LET gone == get_review_card_for_item(At(x), i)
    IN  Commit(x, [At(x) EXCEPT !.cards = Without(@, gone),
                                !.logs = RestrictValues(@, LAMBDA g : g.card \notin gone)])

insert_review_log(x, log) ==
    LET y == Require(x, log.card \in DOMAIN At(x).cards)
    IN  Commit(y, [At(y) EXCEPT !.next = @ + 1, !.logs = Put(@, At(y).next, log)])

insert_rule(x, rule) ==
    LET y == Require(x, get_rule_by_name(At(x), rule.name) = {})
    IN  Commit(y, [At(y) EXCEPT !.next = @ + 1, !.rules = Put(@, At(y).next, rule)])

delete_rule(x, r) == Commit(x, [At(x) EXCEPT !.rules = Without(@, {r})])

set_rule_enabled(x, r, on) ==
    Commit(x, IF r \in DOMAIN At(x).rules THEN [At(x) EXCEPT !.rules[r].enabled = on] ELSE At(x))

\* ORDER BY priority, name: ids stand for the order of the names.
list_rules(l) ==
    SetToSortSeq(DOMAIN l.rules,
        LAMBDA a, b : \/ l.rules[a].priority < l.rules[b].priority
                      \/ l.rules[a].priority = l.rules[b].priority /\ a < b)

insert_bookmark_meta(x, i, description) ==
    LET y == Require(x, i \in DOMAIN At(x).items /\ i \notin DOMAIN At(x).bookmarks)
    IN  Commit(y, [At(y) EXCEPT !.bookmarks = Put(@, i, description)])

\* COALESCE: what is new and not NULL replaces what was there.
upsert_bookmark_meta(x, i, description) ==
    LET y == Require(x, i \in DOMAIN At(x).items)
        old == IF i \in DOMAIN At(y).bookmarks THEN At(y).bookmarks[i] ELSE None
    IN  Commit(y, [At(y) EXCEPT !.bookmarks = Put(@, i, OrElse(description, old))])

upsert_link_health(x, i, http) ==
    LET y == Require(x, i \in DOMAIN At(x).items)
    IN  Commit(y, [At(y) EXCEPT !.health = Put(@, i, http)])

insert_import_log(x, entry) == Commit(x, [At(x) EXCEPT !.imports = Append(@, entry)])
insert_extraction_event(x, event) == Commit(x, [At(x) EXCEPT !.extractions = Append(@, event)])

-----------------------------------------------------------------------------
(* Filters. *)

AnyItem == [kind |-> None, status |-> None, feed |-> None, folder |-> None,
            tag |-> None, coll |-> None, uncollected |-> FALSE]

\* build_content_item_query: the WHERE clause; the joins are outer joins.
ItemMatches(l, i, f) ==
    /\ f.kind # None => l.items[i].kind = f.kind
    /\ f.status # None => l.items[i].status = f.status
    /\ f.feed # None => i \in DOMAIN l.feedMeta /\ l.feedMeta[i].feed = f.feed
    /\ f.folder # None => /\ i \in DOMAIN l.feedMeta
                          /\ l.feedMeta[i].feed \in DOMAIN l.feeds
                          /\ l.feeds[l.feedMeta[i].feed].folder = f.folder
    /\ f.tag # None => <<i, f.tag>> \in l.itemTags
    /\ f.coll # None => <<i, f.coll>> \in DOMAIN l.members
    /\ f.uncollected => CollectionsOf(l, i) = {}

Filtered(l, f) == {i \in DOMAIN l.items : ItemMatches(l, i, f)}

\* ORDER BY created_at DESC, then LIMIT and OFFSET.
list_content_items_filtered(l, f, limit, offset) ==
    LET all == SetToSortSeq(Filtered(l, f), LAMBDA a, b : l.items[a].created > l.items[b].created)
    IN  SubSeq(all, offset + 1, Min({Len(all), offset + limit}))

count_content_items_filtered(l, f) == Cardinality(Filtered(l, f))

\* The values bound for the filter, in the order of its clauses.
Bound(f) ==
    SelectSeq(<<f.kind, f.status, f.feed, f.folder, f.tag, f.coll>>, LAMBDA v : v # None)

\* bulk_update_status renumbers every placeholder of the statement, those of its SET clause
\* too: they take the filter's first two values, and with fewer than two the call fails.
bulk_update_status(x, f, s) ==
    LET values == Bound(f)
        y == Require(x, Len(values) >= 2 /\ values[1] \in Statuses)
    IN  Commit(y, [At(y) EXCEPT !.items =
          [i \in DOMAIN @ |-> IF ItemMatches(At(y), i, f)
                              THEN [@[i] EXCEPT !.status = values[1]] ELSE @[i]]])

\* append_predicate_sql: one predicate of a smart filter as SQL sees it.
PredicateSql(l, i, p) ==
    CASE p.is = "type"    -> l.items[i].kind \in p.of
      [] p.is = "tag"     -> tags_for_item(l, i) \cap p.of # {}
      [] p.is = "status"  -> l.items[i].status \in p.of
      [] p.is = "-status" -> l.items[i].status \notin p.of
      [] p.is = "source"  -> /\ i \in DOMAIN l.feedMeta
                             /\ l.feedMeta[i].feed \in DOMAIN l.feeds
                             /\ l.feeds[l.feedMeta[i].feed].url \in p.of
      [] p.is = "since"   -> \A d \in p.of : l.items[i].created >= d
      [] p.is = "before"  -> \A d \in p.of : l.items[i].created < d

\* A text predicate compares the alias of the index table, which is no column: SQLite
\* refuses the statement whatever the word is.
SmartQueryRuns(filter) == \A k \in DOMAIN filter : filter[k].is # "text"

\* build_smart_filter_query and build_smart_filter_count.
SmartItems(l, filter) ==
    {i \in DOMAIN l.items : \A k \in DOMAIN filter : PredicateSql(l, i, filter[k])}

\* list_smart_collection_items; callers that ignore the error show nothing.
list_smart_collection_items(l, c) ==
    IF SmartQueryRuns(l.colls[c].filter) THEN SmartItems(l, l.colls[c].filter) ELSE {}
count_smart_collection_items(l, c) ==
    IF SmartQueryRuns(l.colls[c].filter) THEN Cardinality(SmartItems(l, l.colls[c].filter)) ELSE 0

\* rule_monitor: one filter that does not run fails the whole page.
rule_monitor(l) ==
    IF \A r \in DOMAIN l.rules : SmartQueryRuns(l.rules[r].filter)
    THEN [r \in DOMAIN l.rules |-> Cardinality(SmartItems(l, l.rules[r].filter))]
    ELSE NoRows

-----------------------------------------------------------------------------
(* Backup, restore and reset. *)

ArchiveTables ==
    {"folders", "feeds", "items", "tags", "colls", "feedMeta", "bookmarks", "highlights",
     "notes", "cards", "logs", "rules", "itemTags", "members"}

\* backup::export: these tables as they are; link health, the logs and the outbox are not in it.
Export(l) == [t \in ArchiveTables |-> l[t]]

\* Mutant: the rules are forgotten.
resetKeepsRules(x) ==
    Transaction(x, LAMBDA b :
        Commit(b, [EmptyLibrary EXCEPT !.next = At(b).next, !.outbox = At(b).outbox,
                                       !.rules = At(b).rules]))

\* reset: one transaction; what belongs to sync stays.
reset(x) ==
    Transaction(x, LAMBDA b :
        Commit(b, [EmptyLibrary EXCEPT !.next = At(b).next, !.outbox = At(b).outbox]))

\* restore_backup: refused unless is_empty, which looks at four tables only; then all rows in
\* one transaction with foreign keys off.  Folders and rules left over collide by name, and
\* add_to_collection refuses a member of a smart collection.
restore_backup(x, a) ==
    LET l == At(x)
        y == Require(x, is_empty(l))
        Clashes(table, Key(_)) == \E p \in DOMAIN l[table], q \in DOMAIN a[table] :
                                    Key(l[table][p]) = Key(a[table][q])
        Rows(table) == a[table] @@ l[table]
        ids == UNION {DOMAIN a[t] : t \in {"folders", "feeds", "items", "tags", "colls", "notes",
                                           "cards", "logs", "rules"}}
        restored ==
          [l EXCEPT
             !.next = Max({@} \cup {id + 1 : id \in ids}),     \* no id is given out again
             !.folders = Rows("folders"), !.feeds = Rows("feeds"), !.items = Rows("items"),
             !.tags = Rows("tags"), !.colls = Rows("colls"), !.feedMeta = Rows("feedMeta"),
             !.bookmarks = Rows("bookmarks"), !.highlights = Rows("highlights"),
             !.notes = Rows("notes"), !.cards = Rows("cards"), !.logs = Rows("logs"),
             !.rules = Rows("rules"), !.members = Rows("members"),
             !.itemTags = @ \cup a.itemTags]
    IN  Transaction(y, LAMBDA b :
          LET c == Require(b, /\ ~Clashes("folders", LAMBDA r : <<r.name, r.parent>>)
                              /\ ~Clashes("rules", LAMBDA r : r.name)
                              /\ \A p \in DOMAIN a.members : a.colls[p[2]].filter = None)
              \* insert_content_item indexes an item before its tags are there; the items
              \* with tags are indexed again at the end.
              d == ForEach(Commit(c, restored), Ascending(DOMAIN a.items), upsert_fts)
          IN  RefreshAll(d, {p[1] : p \in a.itemTags}))

-----------------------------------------------------------------------------
(* Sync tracking. *)

\* emit_change with a whole document: the outbox row carries the record as it is, and its
\* canonical write puts back the values just read.
track_document_upsert(x, i) ==
    Commit(x, [At(x) EXCEPT !.outbox = Append(@, [op |-> "upsert", item |-> i,
                                                  kind |-> At(x).items[i].kind,
                                                  status |-> At(x).items[i].status])])
track_document_by_id(x, i) ==
    IF x.ok /\ i \in DOMAIN At(x).items THEN track_document_upsert(x, i) ELSE x
track_document_delete(x, i) ==
    Commit(x, [At(x) EXCEPT !.outbox = Append(@, [op |-> "delete", item |-> i, status |-> None])])
=============================================================================
