--------------------------- MODULE LibraryReports ---------------------------
(***************************************************************************)
(* The reports over the library (pergamon-storage/src/db.rs) that the      *)
(* shell, the terminal, the API and the administration page show: counts   *)
(* grouped by a join, each made by a query of its own.  What depends on    *)
(* the calendar is in LibraryStats; rates, sizes and ages are left out,    *)
(* and no list is as long as its limit.                                    *)
(***************************************************************************)
EXTENDS LibraryDb

\* The kinds that count as reading.
Readable == {"article", "feed_item", "pdf"}

\* GROUP BY with COUNT(*), and the sum of the counts.
CountBy(S, Key(_)) == [k \in {Key(x) : x \in S} |-> Cardinality({x \in S : Key(x) = k})]
Total(counts) == FoldFunction(+, 0, counts)

OfKind(l, kinds) == {i \in DOMAIN l.items : l.items[i].kind \in kinds}
OfStatus(l, s) == {i \in DOMAIN l.items : l.items[i].status = s}
InState(l, s) == {c \in DOMAIN l.cards : l.cards[c].state = s}

-----------------------------------------------------------------------------
(* Reviews. *)

review_stats(l, now) ==
    [total |-> Cardinality(DOMAIN l.cards),
     due |-> Cardinality({c \in DOMAIN l.cards : l.cards[c].due <= now}),
     states |-> [s \in {"new", "learning", "review", "relearning"} |-> Cardinality(InState(l, s))],
     reviews |-> Cardinality(DOMAIN l.logs),
     successes |-> Cardinality({g \in DOMAIN l.logs : ~l.logs[g].again})]

\* review_source_breakdown: cards of highlights, by where the source came from; scheme tells
\* the importers' addresses from others.  A highlight may have no source.
review_source_breakdown(l, scheme) ==
    LET source(c) == l.highlights[l.cards[c].item].source
        origin(s) == IF s \in DOMAIN l.items /\ scheme[l.items[s].url] # None THEN scheme[l.items[s].url]
                     ELSE IF s \in DOMAIN l.feedMeta THEN "Feed" ELSE "Manual"
    IN  CountBy({c \in DOMAIN l.cards : l.cards[c].item \in DOMAIN l.highlights},
                LAMBDA c : origin(source(c)))

-----------------------------------------------------------------------------
(* Usage. *)

usage_overview(l) ==
    [items |-> Cardinality(DOMAIN l.items), inbox |-> Cardinality(OfStatus(l, "inbox")),
     archived |-> Cardinality(OfStatus(l, "archived")),
     highlights |-> Cardinality(OfKind(l, {"highlight"})), feeds |-> Cardinality(DOMAIN l.feeds)]

\* usage_top_sources: by the feed, else by the address; what has neither is one source.
usage_top_sources(l) ==
    LET source(i) == IF i \in DOMAIN l.feedMeta /\ l.feedMeta[i].feed \in DOMAIN l.feeds
                     THEN l.feeds[l.feedMeta[i].feed].url ELSE OrElse(l.items[i].url, "(unknown)")
        rows == OfKind(l, Readable)
    IN  [total |-> CountBy(rows, source),
         read |-> CountBy(rows \cap OfStatus(l, "archived"), source)]

usage_tag_distribution(l) ==
    CountBy({p \in l.itemTags : p[2] \in DOMAIN l.tags}, LAMBDA p : l.tags[p[2]])

\* usage_tag_trends, over a window that holds everything.
usage_tag_trends(l, month) ==
    CountBy({p \in l.itemTags : p[1] \in DOMAIN l.items /\ p[2] \in DOMAIN l.tags},
            LAMBDA p : <<month[l.items[p[1]].created], l.tags[p[2]]>>)

-----------------------------------------------------------------------------
(* Administration. *)

\* FeedHealthStatus::from_error_count.
from_error_count(n) == IF n = 0 THEN "healthy" ELSE IF n \in {1, 2} THEN "warning" ELSE "error"
feed_health(l) == [f \in DOMAIN l.feeds |-> from_error_count(l.feeds[f].errors)]
summarize_feeds(rows) == CountBy(DOMAIN rows, LAMBDA f : rows[f])

content_type_distribution(l) == CountBy(DOMAIN l.items, LAMBDA i : l.items[i].kind)
status_distribution(l) == CountBy(DOMAIN l.items, LAMBDA i : l.items[i].status)

system_stats(l) ==
    [items |-> Cardinality(DOMAIN l.items), feeds |-> Cardinality(DOMAIN l.feeds),
     tags |-> Cardinality(DOMAIN l.tags), colls |-> Cardinality(DOMAIN l.colls),
     highlights |-> Cardinality(OfKind(l, {"highlight"})), notes |-> Cardinality(DOMAIN l.notes),
     cards |-> Cardinality(DOMAIN l.cards)]

\* list_broken_links: a failed check has no answer; an answer that is neither a success nor a
\* redirect is broken.
list_broken_links(l) ==
    {i \in DOMAIN l.health \cap DOMAIN l.items :
        l.health[i] = None \/ l.health[i] < 200 \/ l.health[i] >= 400}

\* dashboard: all of the above, or an error page when one rule's filter does not run.
dashboard(l) ==
    IF \E r \in DOMAIN l.rules : ~SmartQueryRuns(l.rules[r].filter) THEN None
    ELSE [system |-> system_stats(l), types |-> content_type_distribution(l),
          statuses |-> status_distribution(l), feeds |-> summarize_feeds(feed_health(l)),
          broken |-> list_broken_links(l), rules |-> rule_monitor(l)]
=============================================================================
