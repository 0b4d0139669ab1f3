--------------------------- MODULE MCLibraryServer ---------------------------
(* A small instance: two pages, two feed addresses of which one redirects to the other. *)
EXTENDS LibraryServer

MCStatuses == {"inbox", "archived"}
MCNames == {"a", "b"}
MCWords == {"w"}
MCUrls == {"p1", "p2"}
MCFeedUrls == {"f", "moved"}
MCFinal == [u \in MCFeedUrls |-> "f"]
MCTagLists == {<<>>, <<"b">>}
MCFilters == {<<[is |-> "tag", of |-> {"a"}]>>}
MCOutlines == {<<[path |-> <<"a">>, url |-> "f"], [path |-> <<>>, url |-> "g"]>>}

Entry(guid, url) == [guid |-> guid, url |-> url, word |-> "w"]
\* Version 2 has a new entry in front; one entry is an address that can also be saved.
MCDoc ==
    [f |-> <<<<Entry("g1", "e1")>>, <<Entry("g2", "p2"), Entry("g1", "e1")>>>>,
     g |-> <<<<Entry(None, "e2")>>>>]

\* A library that earlier requests have left.
Seed ==
    LET one   == create_item(Start(EmptyLibrary), "p1", "w", <<"a", "b">>, TRUE, TRUE)
        two   == insert_collection(one, "a", None, None)
        three == bulk_add_to_collection(two, {1}, Fresh(one))
        four  == create_highlight(three, 1, "w", None)
        five  == insert_review_card(create_note(four, 1, "w"), NewCard(Fresh(three), 1))
    IN  [At(subscribe_feed(five, "f", 1)) EXCEPT !.extractions = <<>>, !.outbox = <<>>]

MCLibraries == {EmptyLibrary, Seed}
=============================================================================
