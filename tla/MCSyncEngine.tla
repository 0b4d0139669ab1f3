---------------------------- MODULE MCSyncEngine ----------------------------
EXTENDS SyncEngine

CONSTANTS e1, e2, g1, none, u1, u2

\* One document with a triage status (LWW) and an authored body (prose), read
\* and rewritten by everyone.  "inbox" and "" are the column defaults.
MCDefault == [f \in Field |-> IF f \in ProseField THEN "" ELSE "inbox"]
MCNoParent == [e \in Entity |-> none]
MCOwnKey == [e \in Entity |-> e]
MCEdgeEntity == [g \in Edge |-> e1]

Write(e, fs) == [kind |-> "fields", target |-> e, fields |-> fs, present |-> TRUE, refs |-> {}]
Delete(e) == [kind |-> "delete", target |-> e, fields |-> NoFields, present |-> TRUE, refs |-> {}]
Member(g, p) == [kind |-> "edge", target |-> g, fields |-> NoFields, present |-> p, refs |-> {}]

Status(v) == [f \in {"status"} |-> v]
Prose(v) == [f \in {"body"} |-> v]
Both(v, w) == [f \in {"status", "body"} |-> IF f = "status" THEN v ELSE w]

\* One document rewritten in two ways, tagged and untagged.
WriteEdits == {Write(e1, Both("read", "p")), Write(e1, Both("done", "q")),
               Member(g1, TRUE), Member(g1, FALSE)}

\* e2 is a note on the document.
MCChild == [e \in Entity |-> IF e = e2 THEN e1 ELSE none]

\* The document is also deleted.
AllEdits == WriteEdits \cup {Delete(e1)}

\* The note carries text of its own.
NoteEdits == {Write(e1, Status("read")), Write(e2, Prose("p")), Delete(e1)}

\* Changes that share a blob.
BlobEdits == {[Write(e1, Status("read")) EXCEPT !.refs = {u1}],
              [Write(e1, Prose("p")) EXCEPT !.refs = {u1, u2}]}

\* The same while another device saves a document of the same address, of which a database
\* holds one.
MCOneKey == [e \in Entity |-> e1]
SharedEdits == BlobEdits \cup {Write(e2, Status("read"))}

\* An author goes on with a document that another device deletes, finds kept by a later
\* triage, rewrites without having seen the author's new text, and deletes again.
Script ==
  << <<Write(e1, Both("read", "p")), Write(e1, Status("done")), Write(e1, Prose("q"))>>,
     <<Delete(e1), Write(e1, Prose("p")), Delete(e1)>> >>
ScriptEdits == UNION {{Script[d][i] : i \in DOMAIN Script[d]} : d \in Device}
Follows(c, edit) == c.kind = edit.kind /\ c.fields = edit.fields
Scripted ==
  \A d \in Device : \A i \in DOMAIN outbox[d] :
    i \in DOMAIN Script[d] /\ Follows(outbox[d][i], Script[d][i])

=============================================================================
