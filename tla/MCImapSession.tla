--------------------------- MODULE MCImapSession ---------------------------
\* One user, INBOX and one more mailbox, sessions that are alike.
EXTENDS ImapSession, TLC

MCStoreArgs == {[mode |-> "replace", flags |-> {Seen, Deleted}], [mode |-> "remove", flags |-> {Deleted}]}

\* "1", "2:1", "2:*", "9,1"
MCSets == {<<<<1>>>>, <<<<2, 1>>>>, <<<<2, Star>>>>, <<<<9>>, <<1>>>>}

Item(part, peek) == [part |-> part, peek |-> peek]
MCFetchArgs == {{Item("all", FALSE)}, {Item("fields", TRUE)}}
MCPeekArgs == {{Item("all", FALSE)}, {Item("all", TRUE)}}

\* The view leaves out the lists of disturbed clients, which no property looks
\* at but the type, what was told of mailboxes and read of messages that are
\* gone, the replies, and which mailbox is the older.
MCView ==
    <<registered, created, delivered, sessions, disturbed,
      {m.id : m \in UNION {boxes[mb].messages : mb \in Names}} \intersect read,
      [mb \in Names |-> <<boxes[mb].next_uid, boxes[mb].messages>>],
      [s \in {t \in Sessions : ~disturbed[t]} |-> list[s]],
      {<<mb, t.uid, t.id>> : <<mb, t>> \in {x \in Names \X told : boxes[x[1]].born = x[2].born}}>>

AlikeSessions == Permutations(Sessions)
=============================================================================
