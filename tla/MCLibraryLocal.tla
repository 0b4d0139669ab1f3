--------------------------- MODULE MCLibraryLocal ---------------------------
(* Small instances: a shell on an empty and on a filled library, the reader on three items, *)
(* a review of two cards, and a phone with one page shared to it.                            *)
EXTENDS LibraryLocal

MCStatuses == {"inbox", "later", "reading", "reference", "archived", "discarded"}
MCNames == {"a", "b"}
MCWords == {"w"}
MCUrls == {"p1", "p2"}
MCKeys == {"j", "G", "Enter", "q", "a", "d", "Tab", "0", "R", "y", "n", "f", "/", "w", "h", "?", "Backspace"}
MCFilters == {<<[is |-> "tag", of |-> {"a"}]>>, <<[is |-> "text", of |-> {"w"}]>>}
MCActions == {[is |-> "tag", of |-> "b"], [is |-> "mute", of |-> None],
              [is |-> "status", of |-> "later"], [is |-> "collection", of |-> "a"]}

Entry(guid, url) == [guid |-> guid, url |-> url, word |-> "w"]
MCFeedDoc == <<<<Entry("g1", "e1")>>, <<Entry(None, "p2"), Entry("g1", "e1")>>>>

MCOutlines == {<<[path |-> <<"a", "b">>, url |-> "f"], [path |-> <<"a">>, url |-> "g"]>>}
MCBookmarks == {<<[url |-> "p1", word |-> "w", tags |-> <<"b">>, folder |-> "a"],
                  [url |-> "p3", word |-> "w", tags |-> <<"a">>, folder |-> "b"]>>}
\* The two importers make addresses of their own for a book and its highlights.
Clip(kind, source, key) ==
    [kind |-> kind, source |-> source, key |-> key, text |-> "w", note |-> None, tags |-> <<"a">>]
MCClips ==
    [kindle |-> {<<Clip("highlight", "kindle", "k1"), Clip("note", "kindle", "k2"), Clip("highlight", "kindle", "k1")>>},
     readwise |-> {<<Clip("highlight", "readwise", "r1"), Clip("highlight", "readwise", "r1")>>}]
MCCaptures == {[id |-> -2, url |-> "p1", title |-> "w", text |-> "w"],
               [id |-> -1, url |-> None, title |-> None, text |-> "w"]}

\* An article (1) with two tags in a collection (4) that has a collection below it, a feed (6)
\* in a folder with an entry (7), a highlight (9) of the article with a card, a note and a rule.
Article == Cli!save_url(Start(EmptyLibrary), "p1", "w", <<"a", "b">>, FALSE, TRUE)
Shelved == Cli!collection_create(Cli!collection_add(
             Cli!collection_create(Article, "a", None, None), 4, <<1>>), "b", 4, None)
Fed == Cli!feed_move(Cli!feed_add(Shelved, "f", 1, MCFeedDoc[1]), 6, "a")
Marked == Cli!note_add(Cli!review_enable(Cli!highlight_add(Fed, 1, "w", None, <<>>), 9), 1, "w")
Ruled == Cli!rules_add(Marked, "old", <<[is |-> "text", of |-> {"w"}]>>, <<[is |-> "tag", of |-> "a"]>>, 0)
Filled == [At(Ruled) EXCEPT !.extractions = <<>>, !.outbox = <<>>]

\* A second card, so that one is rated between two ratings of the other.
TwoCards == At(Cli!review_enable(Cli!highlight_add(Start(Filled), 1, "w", None, <<>>), 13))

MCLibraries ==
    [shell |-> {EmptyLibrary, Filled}, terminal |-> {Filled}, review |-> {TwoCards},
     phone |-> {EmptyLibrary, Filled}, stats |-> {EmptyLibrary}]
MCBudget == [shell |-> 2, terminal |-> 5, review |-> 4, phone |-> 3, stats |-> 0]
ShellLibraries == [shell |-> {EmptyLibrary}]
MCArchive == Export(Filled)

Date(y, m, d) == [y |-> y, m |-> m, d |-> d]
\* The days up to a leap day, a new year and a plain first of March.
Chain(first, n) ==
    FoldLeft(LAMBDA s, k : Append(s, Stats!DayAfter(Last(s))), <<first>>, [k \in 1 .. n |-> k])
Weeks == {Chain(Date(2024, 2, 26), 4), Chain(Date(2023, 12, 28), 4), Chain(Date(2023, 2, 25), 4)}
Events(week, dates) ==
    LET days == SelectSeq(week, LAMBDA t : t \in dates)
    IN  [k \in DOMAIN days |-> [date |-> days[k], good |-> k > 1, words |-> 239]]
Reading(week, dates) ==
    [today |-> Last(week), dates |-> dates,
     log |-> [reviews |-> Events(week, dates), saved |-> Events(week, Range(week)),
              read |-> Events(week, dates)]]
MCHistories ==
    UNION {{Reading(week, dates) : dates \in SUBSET Range(week)} : week \in Weeks}
    \cup {Reading(<<Date(y, m, d)>>, {}) :
            y \in {1970, 1999, 2000, 2023, 2024, 2100}, m \in {1, 2, 3, 12}, d \in {1, 28}}
=============================================================================
