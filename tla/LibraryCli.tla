----------------------------- MODULE LibraryCli -----------------------------
(***************************************************************************)
(* The commands of the pergamon binary that work on the library            *)
(* (pergamon-cli/src/main.rs), and the content rules they apply            *)
(* (pergamon-core/src/rule.rs).  A command is one process: it runs its     *)
(* statements one after the other and may be killed between any two.       *)
(* Questions to the user are taken as answered with yes, --dry-run as not  *)
(* given: either alternative leaves the library alone.                     *)
(***************************************************************************)
EXTENDS LibraryDb

-----------------------------------------------------------------------------
(* Content rules. *)

\* matches_predicate: unlike SQL, a text predicate works here, and tags are those of the
\* context, to which earlier rules have added.
matches_predicate(item, tags, source, p) ==
    CASE p.is = "type"    -> item.kind \in p.of
      [] p.is = "tag"     -> tags \cap p.of # {}
      [] p.is = "status"  -> item.status \in p.of
      [] p.is = "-status" -> item.status \notin p.of
      [] p.is = "source"  -> source \in p.of
      [] p.is = "since"   -> \A d \in p.of : item.created >= d
      [] p.is = "before"  -> \A d \in p.of : item.created < d
      [] p.is = "text"    -> item.word \in p.of

matches_filter(item, tags, source, filter) ==
    \A k \in DOMAIN filter : matches_predicate(item, tags, source, filter[k])

\* evaluate_rules: the actions of the enabled rules that match, in priority order; a tag that
\* a rule adds is seen by the rules after it, a status it sets is not.
evaluate_rules(l, i, source) ==
    LET Plan(acc, r) ==
          LET rule == l.rules[r]
              added == {rule.actions[k].of : k \in {j \in DOMAIN rule.actions : rule.actions[j].is = "tag"}}
          IN  IF rule.enabled /\ matches_filter(l.items[i], acc.tags, source, rule.filter)
              THEN [tags |-> acc.tags \cup added, planned |-> acc.planned \o rule.actions]
              ELSE acc
    IN  FoldLeft(Plan, [tags |-> tags_for_item(l, i), planned |-> <<>>], list_rules(l)).planned

\* get_or_create_collection and apply_collection: the collection of that name, or a new root.
get_or_create_collection(x, name) ==
    IF get_collection_by_name(At(x), name) # {} THEN x ELSE insert_collection(x, name, None, None)
CollectionNamed(x, name) == Min(get_collection_by_name(At(x), name))

\* apply_rule_action.  The collection action hands the collection's id over as the item and
\* the item's as the collection, which add_to_collection refuses.
apply_rule_action(x, i, action) ==
    LET tagged == get_or_create_tag(x, action.of)
        made == get_or_create_collection(x, action.of)
        c == CollectionNamed(made, action.of)
    IN  CASE ~x.ok -> x
          [] x.ok /\ action.is = "tag" -> tag_content_item(tagged, i, TagNamed(tagged, action.of))
          [] x.ok /\ action.is = "status" -> update_content_item_status(x, i, action.of)
          [] x.ok /\ action.is = "mute" -> update_content_item_status(x, i, "archived")
          [] x.ok /\ action.is = "collection" ->
                add_to_collection(made, c, i, Len(list_collection_items(At(made), c)))

apply_rules_to_item(x, i, source) ==
    IF x.ok THEN ForEach(x, evaluate_rules(At(x), i, source),
                         LAMBDA y, a : apply_rule_action(y, i, a)) ELSE x

\* feed_title_for_item
feed_title_for_item(l, i) ==
    IF i \in DOMAIN l.feedMeta /\ l.feedMeta[i].feed \in DOMAIN l.feeds
    THEN l.feeds[l.feedMeta[i].feed].url ELSE None

\* rules_run: the rules over everything in the inbox as it was listed at the start; the
\* first action that fails ends the command.
rules_run(x) ==
    LET todo == list_content_items_filtered(At(x), [AnyItem EXCEPT !.status = "inbox"],
                                            Cardinality(DOMAIN At(x).items), 0)
    IN  IF \E r \in DOMAIN At(x).rules : At(x).rules[r].enabled
        THEN ForEach(x, todo, LAMBDA y, i :
               IF y.ok THEN apply_rules_to_item(y, i, feed_title_for_item(At(y), i)) ELSE y)
        ELSE x

rules_add(x, name, filter, actions, priority) ==
    insert_rule(x, [name |-> name, enabled |-> TRUE, priority |-> priority,
                    filter |-> filter, actions |-> actions])
rules_remove(x, name) ==
    LET y == Require(x, get_rule_by_name(At(x), name) # {})
    IN  IF y.ok THEN delete_rule(y, CHOOSE r \in get_rule_by_name(At(y), name) : TRUE) ELSE y
rules_set_enabled(x, name, on) ==
    LET y == Require(x, get_rule_by_name(At(x), name) # {})
    IN  IF y.ok THEN set_rule_enabled(y, CHOOSE r \in get_rule_by_name(At(y), name) : TRUE, on) ELSE y
\* rules_test: what a filter would match, evaluated as the rules are.
rules_test(l, filter) ==
    {i \in DOMAIN l.items :
        matches_filter(l.items[i], tags_for_item(l, i), feed_title_for_item(l, i), filter)}

-----------------------------------------------------------------------------
(* Saving. *)

apply_tags(x, i, names) ==
    ForEach(x, names, LAMBDA y, n :
        IF ~y.ok THEN y
        ELSE LET z == get_or_create_tag(y, n) IN tag_content_item(z, i, TagNamed(z, n)))

\* extract_content: bookmark asked for, article found, or neither.
extract_content(bookmark, article) ==
    [kind |-> IF bookmark \/ ~article THEN "bookmark" ELSE "article",
     success |-> bookmark \/ article]

record_extraction_event(x, source, success) ==
    Ignoring(x, insert_extraction_event(x, [source |-> source, success |-> success]))

\* save_url after the page was fetched.
save_url(x, u, word, names, bookmark, article) ==
    LET known == get_content_item_by_url(At(x), u)
        old == CHOOSE i \in known : TRUE
        tagged == apply_tags(x, old, names)
        i == Fresh(x)
        got == extract_content(bookmark, article)
        a == insert_content_item(x, NewItem(u, got.kind, "inbox", word))
        b == Ignoring(a, track_document_upsert(a, i))
        c == insert_bookmark_meta(record_extraction_event(b, "save", got.success), i, word)
        d == apply_tags(c, i, names)
    IN  IF known # {}
        THEN IF bookmark THEN Ignoring(tagged, upsert_bookmark_meta(tagged, old, word)) ELSE tagged
        ELSE Ignoring(d, apply_rules_to_item(d, i, None))

-----------------------------------------------------------------------------
(* Feeds. *)

\* ingest_entries: like the server's, with the rules applied to every new entry.
ingest_entries(x, f, entries) ==
    ForEach(x, entries, LAMBDA y, e :
        LET known == IF e.guid # None THEN feed_item_exists_by_guid(At(y), f, e.guid)
                     ELSE feed_item_exists_by_url(At(y), f, e.url)
            i == Fresh(y)
            z == insert_content_item(y, NewItem(e.url, "feed_item", "inbox", e.word))
            w == insert_feed_item_meta(z, i, f, e.guid)
        IN  IF ~y.ok \/ known THEN y
            ELSE Ignoring(w, apply_rules_to_item(w, i, feed_title_for_item(At(w), i))))

\* feed_add: an address that is known is left alone; the row has the etag before the entries.
feed_add(x, u, version, entries) ==
    LET f == Fresh(x)
        y == ingest_entries(insert_feed(x, u, None, version), f, entries)
    IN  IF get_feed_by_url(At(x), u) # {} THEN x ELSE update_feed_fetch_success(y, f, version)

\* refresh_single_feed, and one turn of refresh_feeds around it.
refresh_single_feed(x, f, version, entries) ==
    IF At(x).feeds[f].etag = version THEN update_feed_fetch_success(x, f, version)
    ELSE update_feed_fetch_success(ingest_entries(x, f, entries), f, version)
refresh_feeds(x, f, version, entries) ==
    LET y == IF version = None THEN Require(x, FALSE) ELSE refresh_single_feed(x, f, version, entries)
    IN  IF y.ok THEN y ELSE update_feed_fetch_error([y EXCEPT !.ok = TRUE], f)

feed_remove(x, f) == delete_feed(Require(x, f \in DOMAIN At(x).feeds), f)

\* get_or_create_folder below a parent; the execution and the folder's id.
get_or_create_folder(x, name, parent) ==
    LET found == get_feed_folder_by_name(At(x), name, parent)
    IN  IF found # {} THEN [x |-> x, id |-> CHOOSE d \in found : TRUE]
        ELSE [x |-> insert_feed_folder(x, name, parent), id |-> Fresh(x)]
feed_move(x, f, name) ==
    LET y == Require(x, f \in DOMAIN At(x).feeds)
        got == get_or_create_folder(y, name, None)
    IN  IF y.ok THEN update_feed_folder_id(got.x, f, got.id) ELSE y

-----------------------------------------------------------------------------
(* Imports.  A file is the sequence of what its parser returns. *)

record_import_log(x, source, added, existing) ==
    Ignoring(x, insert_import_log(x, [source |-> source, added |-> added, existing |-> existing]))

\* import_outlines: an outline is a feed below a path of folders, or a folder alone.
import_outlines(x, outlines) ==
    ForEach(x, outlines, LAMBDA y, o :
        LET st == FoldLeft(LAMBDA s, name : get_or_create_folder(s.x, name, s.id),
                           [x |-> y, id |-> None], o.path)
            there == get_feed_by_url(At(y), o.url)
            f == CHOOSE g \in there : TRUE
        IN  IF o.url = None THEN st.x
            ELSE IF there = {} THEN insert_feed(st.x, o.url, st.id, None)
            ELSE IF At(y).feeds[f].folder = st.id THEN st.x
            ELSE update_feed_folder_id(st.x, f, st.id))
import_opml(x, outlines) ==
    LET y == import_outlines(x, outlines)
        added == Cardinality(DOMAIN At(y).feeds) - Cardinality(DOMAIN At(x).feeds)
    IN  record_import_log(y, "opml", added, Len(outlines) - added)

\* apply_collection: a collection that cannot take the item is passed over.
apply_collection(x, i, name) ==
    LET y == get_or_create_collection(x, name)
    IN  IF y.ok THEN Ignoring(y, add_to_collection(y, i, CollectionNamed(y, name), 0)) ELSE y

\* One row of a bookmark export: a known address gets the tags and the collection, a new one
\* is stored with them.
ImportBookmark(x, row, folder) ==
    LET known == get_content_item_by_url(At(x), row.url)
        i == IF known # {} THEN CHOOSE k \in known : TRUE ELSE Fresh(x)
        y == IF known # {} THEN x
             ELSE insert_bookmark_meta(
                    insert_content_item(x, NewItem(row.url, "bookmark", "inbox", row.word)), i, row.word)
        z == apply_tags(y, i, row.tags)
    IN  IF ~x.ok THEN x
        ELSE IF z.ok /\ folder # None THEN apply_collection(z, i, folder) ELSE z

BookmarksLogged(x, y, rows, source) ==
    LET added == Cardinality(DOMAIN At(y).items) - Cardinality(DOMAIN At(x).items)
    IN  record_import_log(y, source, added, Len(rows) - added)

import_raindrop(x, rows) ==
    BookmarksLogged(x, ForEach(x, rows, LAMBDA y, r : ImportBookmark(y, r, r.folder)), rows, "raindrop")
import_pocket(x, rows) ==
    BookmarksLogged(x, ForEach(x, rows, LAMBDA y, r : ImportBookmark(y, r, None)), rows, "pocket")

\* The book or page a clipping belongs to, made on its first clipping.
ImportSource(x, key, tag) ==
    LET i == Fresh(x)
    IN  IF get_content_item_by_url(At(x), key) # {} THEN x
        ELSE apply_tags(insert_content_item(x, NewItem(key, "article", "reference", None)), i, <<tag>>)
SourceOf(x, key) == CHOOSE i \in get_content_item_by_url(At(x), key) : TRUE

create_review_card(x, i) == insert_review_card(x, NewCard(i, 0))

\* One highlight of a book: known by its key, which is made of book, place and text.
ImportHighlight(x, source, clip, review) ==
    LET i == Fresh(x)
        y == insert_highlight_meta(
               insert_content_item(x, NewItem(clip.key, "highlight", "reference", clip.text)),
               i, [source |-> source, quote |-> clip.text, note |-> clip.note])
        z == apply_tags(y, i, clip.tags)
    IN  IF ~x.ok \/ get_content_item_by_url(At(x), clip.key) # {} THEN x
        ELSE IF review THEN create_review_card(z, i) ELSE z

HighlightsLogged(x, y, clips, source) ==
    LET count(l) == Cardinality(DOMAIN l.highlights)
        added == count(At(y)) - count(At(x))
    IN  record_import_log(y, source, added,
            Len(SelectSeq(clips, LAMBDA c : c.kind = "highlight")) - added)

\* A note of a book is known by its text, on the book.
ImportNote(x, source, text) ==
    IF text = None \/ \E n \in list_notes_for_item(At(x), source) : At(x).notes[n].body = text
    THEN x ELSE insert_note(x, source, text)

\* import_kindle: one transaction, then the log.
import_kindle(x, clips, review) ==
    LET y == Transaction(x, LAMBDA b :
               ForEach(b, clips, LAMBDA w, c :
                 LET s == ImportSource(w, c.source, "kindle")
                     id == SourceOf(s, c.source)
                 IN  CASE ~s.ok \/ c.kind = "bookmark" -> s
                       [] s.ok /\ c.kind = "highlight" -> ImportHighlight(s, id, c, review)
                       [] s.ok /\ c.kind = "note" -> ImportNote(s, id, c.text)))
    IN  HighlightsLogged(x, y, clips, "kindle")

\* import_readwise: every row is a highlight, with its own tags and note.
import_readwise(x, clips, review) ==
    LET y == Transaction(x, LAMBDA b :
               ForEach(b, clips, LAMBDA w, c :
                 LET s == ImportSource(w, c.source, "readwise")
                 IN  IF s.ok THEN ImportHighlight(s, SourceOf(s, c.source), c, review) ELSE s))
    IN  HighlightsLogged(x, y, clips, "readwise")

-----------------------------------------------------------------------------
(* Exports: what goes into the files. *)

\* build_opml_tree: every folder below its parent, feeds below their folder, roots last.  As
\* outlines, a path for each folder and each feed.
PathOf(l, d) ==
    LET up[k \in 0 .. Cardinality(DOMAIN l.folders)] ==
          IF k = 0 THEN <<d>>
          ELSE LET p == l.folders[up[k - 1][1]].parent
               IN  IF p = None THEN up[k - 1] ELSE <<p>> \o up[k - 1]
        ids == up[Cardinality(DOMAIN l.folders)]
    IN  [k \in DOMAIN ids |-> l.folders[ids[k]].name]
build_opml_tree(l) ==
    [k \in 1 .. Cardinality(DOMAIN l.folders) |->
        [path |-> PathOf(l, Ascending(DOMAIN l.folders)[k]), url |-> None]]
    \o [k \in 1 .. Cardinality(DOMAIN l.feeds) |->
          LET f == Ascending(DOMAIN l.feeds)[k]
          IN  [path |-> IF l.feeds[f].folder = None THEN <<>> ELSE PathOf(l, l.feeds[f].folder),
               url |-> l.feeds[f].url]]

\* What every export writes of one item.
Bundle(l, i) ==
    [item |-> i, tags |-> tags_for_item(l, i),
     highlights |-> list_highlights(l, i, None), notes |-> list_notes_for_item(l, i)]

\* export_obsidian: a file per source that has highlights and still exists, and one per
\* bookmark that is not such a source.
export_obsidian(l) ==
    LET sources == {l.highlights[h].source : h \in list_highlights(l, None, None)} \cap DOMAIN l.items
        bookmarks == Filtered(l, [AnyItem EXCEPT !.kind = "bookmark"]) \ sources
    IN  [sources |-> {Bundle(l, s) : s \in sources}, bookmarks |-> bookmarks]

export_markdown(l, kind) == {Bundle(l, i) : i \in Filtered(l, [AnyItem EXCEPT !.kind = kind])}
export_json(l, kind) ==
    {Bundle(l, i) @@ [bookmark |-> i \in DOMAIN l.bookmarks, feed |-> i \in DOMAIN l.feedMeta] :
        i \in Filtered(l, [AnyItem EXCEPT !.kind = kind])}

\* export_backup and restore_backup; with the passphrase the archive is what was exported.
export_backup(l) == Export(l)
restore_backup_cmd(x, archive) ==
    record_import_log(restore_backup(x, archive), "backup", Cardinality(DOMAIN archive.items), 0)

-----------------------------------------------------------------------------
(* Search, collections and tags. *)

\* save_search: the words go unquoted into the filter, which must parse; the name may be taken.
save_search(x, name, filter) == insert_collection(x, name, None, filter)

\* run_saved_search fails on a filter SQL refuses, list_saved_searches shows 0 for it.
run_saved_search(l, c) ==
    IF IsSmart(l, c) /\ SmartQueryRuns(l.colls[c].filter) THEN SmartItems(l, l.colls[c].filter) ELSE None

\* handle_collection.  A name that several collections have means the first of them.
collection_create(x, name, parent, filter) == insert_collection(x, name, parent, filter)
collection_move(x, c, parent) == move_collection(x, c, parent)
collection_add(x, c, ids) == ForEach(x, ids, LAMBDA y, i : add_to_collection(y, i, c, 0))
collection_remove(x, c, ids) == ForEach(x, ids, LAMBDA y, i : remove_from_collection(y, i, c))
collection_edit_filter(x, c, filter) ==
    update_smart_filter(Require(x, c \in DOMAIN At(x).colls /\ IsSmart(At(x), c)), c, filter)

\* collection_list counts every membership row, collection_show lists by kind.
collection_list(l) ==
    [c \in DOMAIN l.colls |->
        IF IsSmart(l, c) THEN count_smart_collection_items(l, c)
        ELSE Cardinality({p \in DOMAIN l.members : p[2] = c})]
collection_show(l, c) ==
    IF IsSmart(l, c) THEN list_smart_collection_items(l, c) ELSE MembersOf(l, c)

\* print_collection_tree from the roots: what no root reaches is not shown.
collection_list_tree(l) ==
    LET down[k \in 0 .. Cardinality(DOMAIN l.colls)] ==
          IF k = 0 THEN {c \in DOMAIN l.colls : l.colls[c].parent = None}
          ELSE down[k - 1] \cup {c \in DOMAIN l.colls : l.colls[c].parent \in down[k - 1]}
    IN  down[Cardinality(DOMAIN l.colls)]

\* handle_tag
tag_add(x, n, ids) ==
    LET y == get_or_create_tag(x, n)
    IN  ForEach(y, ids, LAMBDA z, i : IF z.ok THEN tag_content_item(z, i, TagNamed(z, n)) ELSE z)
tag_remove(x, n, ids) ==
    LET y == Require(x, get_tag_by_name(At(x), n) # {})
    IN  IF y.ok THEN ForEach(y, ids, LAMBDA z, i : untag_content_item(z, i, TagNamed(z, n))) ELSE y
tag_rename(x, n, to) ==
    LET y == Require(x, get_tag_by_name(At(x), n) # {})
    IN  IF y.ok THEN rename_tag(y, TagNamed(y, n), to) ELSE y
tag_delete(x, n) ==
    LET y == Require(x, get_tag_by_name(At(x), n) # {})
    IN  IF y.ok THEN delete_tag(y, TagNamed(y, n)) ELSE y

\* The bulk commands: everything a status and a kind select.
bulk_tag_cmd(x, n, f) ==
    LET S == Filtered(At(x), f)
        y == get_or_create_tag(x, n)
    IN  IF S = {} THEN x ELSE bulk_tag(y, S, TagNamed(y, n))
bulk_move(x, c, f) ==
    IF Filtered(At(x), f) = {} THEN x ELSE bulk_add_to_collection(x, Filtered(At(x), f), c)
bulk_archive_cmd(x, f) == bulk_archive(x, Filtered(At(x), f))
bulk_delete(x, f) == bulk_discard(x, Filtered(At(x), f))

-----------------------------------------------------------------------------
(* Doctor. *)

\* doctor_dupes: items whose addresses are one address once canonicalised.
doctor_dupes(l, canonical) ==
    LET rows == {i \in DOMAIN l.items : l.items[i].url # None}
        group(u) == {i \in rows : canonical[l.items[i].url] = u}
    IN  {S \in {group(canonical[l.items[i].url]) : i \in rows} : Cardinality(S) > 1}

\* doctor_merge: tags, collections, the bookmark and the older date move over, then the other
\* item goes, and with it its notes, highlights' link, review card and feed entry.
doctor_merge(x, keep, discard) ==
    LET a == Require(x, keep # discard /\ {keep, discard} \subseteq DOMAIN At(x).items)
        b == transfer_collections(transfer_tags(a, discard, keep), discard, keep)
        c == IF discard \in DOMAIN At(x).bookmarks /\ keep \notin DOMAIN At(x).bookmarks
             THEN upsert_bookmark_meta(b, keep, At(x).bookmarks[discard]) ELSE b
        d == IF At(x).items[discard].created < At(x).items[keep].created
             THEN backdate_created_at(c, keep, At(x).items[discard].created) ELSE c
    IN  IF a.ok THEN delete_content_item(d, discard) ELSE a

\* check_url: redirects are followed ten times; a HEAD that is refused is asked again as GET.
MaxRedirects == 10
check_url(hops, status, get) ==
    IF hops > MaxRedirects THEN None
    ELSE IF status \in {405, 501} THEN get ELSE status
\* doctor_links: one row per address, written as it is checked.
doctor_links(x, answer) ==
    ForEach(x, Ascending(list_urls_for_health_check(At(x))),
            LAMBDA y, i : upsert_link_health(y, i, answer[i]))

-----------------------------------------------------------------------------
(* Highlights, notes and reviews. *)

highlight_add(x, source, quote, note, names) ==
    LET i == Fresh(x) IN apply_tags(create_highlight(x, source, quote, note), i, names)
highlight_show(l, i) ==
    IF i \in DOMAIN l.items /\ i \in DOMAIN l.highlights
    THEN [source |-> l.highlights[i].source, tags |-> tags_for_item(l, i),
          notes |-> list_notes_for_item(l, i)] ELSE None

note_add(x, i, text) == insert_note(Require(x, i \in DOMAIN At(x).items), i, text)
note_edit(x, n, text) == update_note(x, n, text)
note_delete(x, n) == delete_note(x, n)

\* review_enable: only a highlight, and one that has no card is given one.
review_enable(x, i) ==
    LET y == Require(x, i \in DOMAIN At(x).items /\ At(x).items[i].kind = "highlight")
    IN  IF y.ok /\ get_review_card_for_item(At(y), i) # {} THEN y ELSE create_review_card(y, i)
review_disable(x, i) == delete_review_card_for_item(x, i)
\* review_due and review_start: the first cards of the queue.
review_due(l, now, limit) ==
    LET queue == list_due_review_cards(l, now)
    IN  SubSeq(queue, 1, Min({limit, Len(queue)}))
=============================================================================
