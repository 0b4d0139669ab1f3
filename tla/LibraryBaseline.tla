--------------------------- MODULE LibraryBaseline ---------------------------
(***************************************************************************)
(* The baseline: what a library enqueues when sync is enabled on it        *)
(* (enqueue_sync_baseline, pergamon-storage/src/sync.rs) and what becomes  *)
(* of it on a device that has just joined (pergamon-sync/src/apply.rs).    *)
(* The joined device is empty and holds neither clocks nor tombstones, so  *)
(* every field that arrives is taken; how a field meets one that is        *)
(* already there is SyncReplica.  Settings are left out: nothing writes    *)
(* them.                                                                   *)
(***************************************************************************)
EXTENDS LibraryReviews

\* The synced columns of the model's fields, in the order of their names: a change carries its
\* fields in a sorted map.
Columns ==
    <<"body", "item", "kind", "folder", "name", "note", "parent", "quote", "read", "source",
      "status", "word", "url">>

-----------------------------------------------------------------------------
(* Reading the rows that are sent. *)

read_highlight(l, i) ==
    [word |-> l.items[i].word, status |-> l.items[i].status] @@ l.highlights[i]

\* read_entity_fields: a feed without its fetch state, a collection without its filter, a
\* document without its creation time; a highlight is its item and its meta row.
read_entity_fields(l, type, id) ==
    CASE type = "feed"      -> [url |-> l.feeds[id].url, folder |-> l.feeds[id].folder]
      [] type = "tag"       -> [name |-> l.tags[id]]
      [] type = "coll"      -> [name |-> l.colls[id].name, parent |-> l.colls[id].parent]
      [] type = "document"  -> [c \in {"url", "kind", "status", "read", "word"} |-> l.items[id][c]]
      [] type = "highlight" -> read_highlight(l, id)
      [] type = "note"      -> l.notes[id]
      [] type = "card"      -> l.cards[id]
      [] type = "log"       -> l.logs[id]

\* Mutant: in the order in which the collections were made.
order_collections_as_listed(l) == Ascending(DOMAIN l.colls)

\* order_collections_parent_first: passes over the list that take what is ready, then the rest.
order_collections_parent_first(l) ==
    LET listed == Ascending(DOMAIN l.colls)
        ready(c, order) == l.colls[c].parent \notin DOMAIN l.colls \ Range(order)
        pass(order) == FoldLeft(LAMBDA o, c : IF c \notin Range(o) /\ ready(c, o) THEN Append(o, c) ELSE o,
                                order, listed)
        placed == FoldLeft(LAMBDA o, c : pass(o), <<>>, listed)
    IN  placed \o SelectSeq(listed, LAMBDA c : c \notin Range(placed))

baseline_upsert(l, type, ids) ==
    [k \in DOMAIN ids |-> [type |-> type, id |-> ids[k], fields |-> read_entity_fields(l, type, ids[k])]]

baseline_edge(type, edges) ==
    LET of(i) == Ascending({p[2] : p \in {q \in edges : q[1] = i}})
        sent(i) == [k \in DOMAIN of(i) |-> [type |-> type, id |-> <<i, of(i)[k]>>, fields |-> NoRows]]
    IN  FoldLeft(LAMBDA s, i : s \o sent(i), <<>>, Ascending({p[1] : p \in edges}))

\* enqueue_sync_baseline: in one transaction, once; what it sends and in which order.  The item
\* of a highlight goes with its meta row.
enqueue_sync_baseline(l) ==
    LET rows(type, table) == baseline_upsert(l, type, Ascending(DOMAIN table))
        documents == {i \in DOMAIN l.items : l.items[i].kind # "highlight"}
    IN  rows("feed", l.feeds) \o rows("tag", l.tags)
        \o baseline_upsert(l, "coll", order_collections_parent_first(l))
        \o baseline_upsert(l, "document", Ascending(documents)) \o rows("highlight", l.highlights)
        \o rows("note", l.notes) \o rows("card", l.cards) \o rows("log", l.logs)
        \o baseline_edge("tagEdge", l.itemTags) \o baseline_edge("collEdge", DOMAIN l.members)

-----------------------------------------------------------------------------
(* Writing the rows that arrive. *)

\* upsert_single: the given columns of a row that is there, or a new row with the defaults.
Merged(table, id, fields, defaults) ==
    Put(table, id, fields @@ (IF id \in DOMAIN table THEN table[id] ELSE defaults))

\* insert_append_only: a row that is there stays as it is.
insert_append_only(table, id, fields) == table @@ (id :> fields)

\* The rows a foreign key may point to.
Exists(table, id) == id \in DOMAIN table \cup {None}

\* upsert_highlight: the item first, and its title and status become the defaults when the
\* fields do not have them.
upsert_highlight(x, i, fields) ==
    LET l == At(x)
        shell == [word |-> "", status |-> "inbox"]
        item == [c \in DOMAIN shell |-> IF c \in DOMAIN fields THEN fields[c] ELSE shell[c]]
        meta == [c \in DOMAIN fields \ DOMAIN shell |-> fields[c]]
        y == Require(x, "source" \in DOMAIN meta => Exists(l.items, meta.source))
    IN  Commit(y, [l EXCEPT
          !.items = Merged(@, i, item, [created |-> i] @@ NewItem(None, "highlight", "inbox", "")),
          !.highlights = Merged(@, i, meta, [source |-> None, quote |-> "", note |-> None])])

\* write_entity_fields, with the constraints of the tables.
write_entity_fields(x, type, id, f) ==
    LET l == At(x)
        given(c) == c \in DOMAIN f
        unique(ids) == ids \subseteq {id}
        write(ok, m) == Commit(Require(x, ok), m)
    IN  CASE type = "feed" ->
               write(/\ given("folder") => Exists(l.folders, f.folder)
                     /\ given("url") => unique(get_feed_by_url(l, f.url)),
                     [l EXCEPT !.feeds = Merged(@, id, f, [url |-> "", folder |-> None, errors |-> 0, etag |-> None])])
          [] type = "tag" ->
               write(unique(get_tag_by_name(l, f.name)), [l EXCEPT !.tags = Put(@, id, f.name)])
          [] type = "coll" ->
               write(given("parent") => Exists(l.colls, f.parent),
                     [l EXCEPT !.colls = Merged(@, id, f, [name |-> "", parent |-> None, filter |-> None])])
          [] type = "document" ->
               write(given("url") => unique(get_content_item_by_url(l, f.url)),
                     [l EXCEPT !.items = Merged(@, id, f, [created |-> id] @@ NewItem(None, "article", "inbox", ""))])
          [] type = "highlight" -> upsert_highlight(x, id, f)
          [] type = "note" ->
               write(given("item") => f.item \in DOMAIN l.items, [l EXCEPT !.notes = Merged(@, id, f, NoRows)])
          [] type = "card" ->
               write(f.item \in DOMAIN l.highlights /\ unique(get_review_card_for_item(l, f.item)),
                     [l EXCEPT !.cards = Put(@, id, f)])
          [] type = "log" ->
               write(f.card \in DOMAIN l.cards, [l EXCEPT !.logs = insert_append_only(@, id, f)])

\* apply_fields on a row that is not there: all fields at once, then each once more by itself.
apply_fields(x, c) ==
    LET order == SelectSeq(Columns, LAMBDA k : k \in DOMAIN c.fields)
        write_one_field(y, k) == write_entity_fields(y, c.type, c.id, k :> c.fields[k])
    IN  ForEach(write_entity_fields(x, c.type, c.id, c.fields), order, write_one_field)

apply_review_log(x, c, now) ==
    recompute_review_card(write_entity_fields(x, c.type, c.id, c.fields), c.fields.card, now)

\* The card is seeded with what arrives and derived again if it has logs.
apply_review_card(x, c, now) ==
    recompute_review_card(write_entity_fields(x, c.type, c.id, c.fields), c.id, now)

\* apply_edge: INSERT OR IGNORE, which does not excuse a foreign key.
apply_edge(x, c) ==
    LET l == At(x)
        tagged == c.type = "tagEdge"
        y == Require(x, c.id[1] \in DOMAIN l.items /\ c.id[2] \in DOMAIN (IF tagged THEN l.tags ELSE l.colls))
    IN  Commit(y, IF tagged THEN [l EXCEPT !.itemTags = @ \cup {c.id}] ELSE AddMember(l, c.id[1], c.id[2], 0))

\* apply_change, in a transaction of its own; a change that is refused ends the pull.
apply_change(x, c, now) ==
    Transaction(x, LAMBDA b :
        CASE c.type \in {"tagEdge", "collEdge"} -> apply_edge(b, c)
          [] c.type = "log" -> apply_review_log(b, c, now)
          [] c.type = "card" -> apply_review_card(b, c, now)
          [] OTHER -> apply_fields(b, c))

\* A device that joins with an empty library pulls the baseline of l.
Joined(l, now) ==
    ForEach(Start(EmptyLibrary), enqueue_sync_baseline(l), LAMBDA x, c : apply_change(x, c, now))

-----------------------------------------------------------------------------
(* What the two devices are compared by. *)

\* Of a highlight's item only its text: upsert_highlight, called for one field at a time, puts
\* its status back, and does not write its address.
Synced(l) ==
    [documents |-> [i \in {j \in DOMAIN l.items : l.items[j].kind # "highlight"} |->
                      read_entity_fields(l, "document", i)],
     highlights |-> [i \in DOMAIN l.highlights |-> <<l.highlights[i], l.items[i].word>>],
     feeds |-> {l.feeds[f].url : f \in DOMAIN l.feeds}, tags |-> l.tags,
     colls |-> [c \in DOMAIN l.colls |-> <<l.colls[c].name, l.colls[c].parent>>],
     notes |-> l.notes, logs |-> l.logs, itemTags |-> l.itemTags, members |-> DOMAIN l.members,
     cards |-> [c \in DOMAIN l.cards |-> l.cards[c].item]]

\* An item that is a highlight and has no meta row is not sent: nothing may point to it.
Complete(l) ==
    LET unsent == {i \in DOMAIN l.items : l.items[i].kind = "highlight" /\ i \notin DOMAIN l.highlights}
    IN  /\ \A n \in DOMAIN l.notes : l.notes[n].item \notin unsent
        /\ \A h \in DOMAIN l.highlights : l.highlights[h].source \notin unsent
        /\ {p[1] : p \in l.itemTags \cup DOMAIN l.members} \cap unsent = {}

Unfiled(l) == [l EXCEPT !.feeds = [f \in DOMAIN @ |-> [@[f] EXCEPT !.folder = None]]]
=============================================================================
