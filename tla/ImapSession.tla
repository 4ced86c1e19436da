----------------------------- MODULE ImapSession -----------------------------
(***************************************************************************)
(* IMAP sessions of one user on shared mailboxes: the handlers of          *)
(* imap_server/commands/, dispatched by imap_server/server/session.py, and *)
(* what a client makes of their replies.                                   *)
(*                                                                         *)
(* A handler is one step: it runs without an await in the server's only    *)
(* thread, and no other session of the process sees it half done.  The     *)
(* mailboxes are those of storage/maildir_backend.py with every call to it *)
(* atomic; what two processes can do to each other inside those calls is   *)
(* the subject of module Maildir.                                          *)
(*                                                                         *)
(* A command that names messages by sequence number is the one that names  *)
(* by UID the messages at those places of the listing the handler reads.   *)
(* A command that calls the backend for several messages may be stopped by *)
(* an exception in any of the calls (the ...Fails actions); what the call  *)
(* itself leaves half done is, again, the subject of module Maildir.       *)
(***************************************************************************)
EXTENDS Naturals, Sequences, SequencesExt, FiniteSets

CONSTANTS
    Sessions,
    Names,        \* names of mailboxes, as _normalize_mailbox_name leaves them
    INBOX, Trash,
    NoName,       \* no mailbox is selected
    Flags, Seen, Deleted,
    StoreArgs,    \* the [mode, flags] pairs of STORE
    FetchArgs,    \* the contents a FETCH asks for: sets of [part, peek]
    Sets,         \* the message sets of commands: sequences of <<n>> and <<m, n>>
    Star,         \* the * of a message set
    SmtpBoxes,    \* the mailboxes SMTP delivers to: a recipient's INBOX, a sender's Sent
    MaxMessages,  \* bound: messages delivered
    MaxUid,       \* bound: the UIDs a mailbox gives
    MaxBoxes      \* bound: mailboxes ever created

Modes == {"replace", "add", "remove"}
Parts == {"fields", "header", "all"}

ASSUME ImapAssumption ==
    /\ INBOX \in Names /\ Trash \in Names /\ INBOX # Trash
    /\ NoName \notin Names
    /\ Seen \in Flags /\ Deleted \in Flags /\ Seen # Deleted
    /\ StoreArgs \subseteq [mode : Modes, flags : SUBSET Flags]
    /\ FetchArgs \subseteq SUBSET [part : Parts, peek : BOOLEAN]
    /\ Star \notin Nat
    /\ \A set \in Sets : \A i \in DOMAIN set :
          set[i] \in Seq(Nat \union {Star}) /\ Len(set[i]) \in {1, 2}
    /\ SmtpBoxes \subseteq Names
    /\ MaxMessages \in Nat /\ MaxUid \in Nat /\ MaxBoxes \in Nat

VARIABLES
    registered,  \* the account exists
    boxes,       \* name -> mailbox, NoBox where there is none
    created,     \* mailboxes created so far
    delivered,   \* messages delivered so far
    state, selected_mailbox, readonly   \* session -> its ImapSession

\* What the client of a session was told, and history variables.
VARIABLES
    list,        \* session -> the messages it knows, by sequence number
    disturbed,   \* session -> its mailbox changed behind its back
    reply,       \* session -> the contents its last FETCH asked for and got
    told,        \* every uid a client saw in a mailbox, and its message
    read         \* messages of which a read-write session was sent what it
                 \* asked for without PEEK, or to which a STORE gave \Seen

store == <<registered, boxes, created, delivered>>
sessions == <<state, selected_mailbox, readonly>>
clients == <<list, disturbed, reply, told, read>>
vars == <<store, sessions, clients>>

(***************************************************************************)
(* Mailboxes.  A message keeps its identity when MOVE copies it.  born     *)
(* tells apart all the mailboxes there have been; the uidvalidity a client *)
(* sees, int(time.time()) at creation, does so when no two of them were    *)
(* created in the same second.                                             *)
(***************************************************************************)
Message == [uid : Nat, id : Nat, flags : SUBSET Flags]
Mailbox == [born : Nat, next_uid : Nat, messages : SUBSET Message]
NoBox == [born |-> 0, next_uid |-> 0, messages |-> {}]
Exists(mb) == boxes[mb] # NoBox

\* Mutant: the first UID is 0.
FreshBoxFromZero(n) == [born |-> n, next_uid |-> 0, messages |-> {}]

FreshBox(n) == [born |-> n, next_uid |-> 1, messages |-> {}]

\* ensure_mailbox: the mailboxes with mbs among them, and the counter.
Missing(mbs) == {mb \in mbs : ~Exists(mb)}
Ensured(mbs) ==
    [mb \in Names |->
        IF Exists(mb) \/ mb \notin mbs THEN boxes[mb]
        ELSE FreshBox(created + 1 + Cardinality({other \in Missing(mbs) : other = INBOX /\ mb # INBOX}))]
Ensure(mbs) ==
    /\ created + Cardinality(Missing(mbs)) <= MaxBoxes
    /\ created' = created + Cardinality(Missing(mbs))

\* The members of a set of numbers, in order: those from 1 to n.
Ascending(S, n) ==
    LET upto[k \in 0..n] == IF k = 0 THEN <<>>
                            ELSE IF k \in S THEN Append(upto[k - 1], k) ELSE upto[k - 1]
    IN  upto[n]

\* list_messages: sorted by UID.
Uids(box) == {m.uid : m \in box.messages}
MessageOf(box, uid) == CHOOSE m \in box.messages : m.uid = uid
Listing(box) ==
    LET uids == Ascending(Uids(box), box.next_uid)
    IN  [i \in DOMAIN uids |-> MessageOf(box, uids[i])]

TypeOK ==
    /\ registered \in BOOLEAN
    /\ boxes \in [Names -> Mailbox]
    /\ \A mb \in Names : \A m \in boxes[mb].messages : 0 < m.uid /\ m.uid < boxes[mb].next_uid
    /\ created \in Nat /\ delivered \in Nat
    /\ state \in [Sessions -> {"NOT_AUTHENTICATED", "AUTHENTICATED", "SELECTED"}]
    /\ selected_mailbox \in [Sessions -> Names \union {NoName}]
    /\ \A s \in Sessions : state[s] = "SELECTED" <=> selected_mailbox[s] # NoName
    /\ readonly \in [Sessions -> BOOLEAN]
    /\ \A s \in Sessions : \A i \in DOMAIN list[s] : list[s][i] \in [uid : Nat, id : Nat]
    /\ disturbed \in [Sessions -> BOOLEAN]
    /\ reply \in [Sessions -> [asked : SUBSET Parts, sent : SUBSET Parts]]
    /\ told \subseteq [born : Nat, uid : Nat, id : Nat]
    /\ read \subseteq Nat

NoReply == [asked |-> {}, sent |-> {}]

Init ==
    /\ registered = FALSE
    /\ boxes = [mb \in Names |-> NoBox]
    /\ created = 0 /\ delivered = 0
    /\ state = [s \in Sessions |-> "NOT_AUTHENTICATED"]
    /\ selected_mailbox = [s \in Sessions |-> NoName]
    /\ readonly = [s \in Sessions |-> FALSE]
    /\ list = [s \in Sessions |-> <<>>]
    /\ disturbed = [s \in Sessions |-> FALSE]
    /\ reply = [s \in Sessions |-> NoReply]
    /\ told = {} /\ read = {}

(***************************************************************************)
(* Outside the sessions.                                                   *)
(***************************************************************************)
\* deliver_message, called by the SMTP server.
Deliver(mb) ==
    /\ registered /\ delivered < MaxMessages
    /\ Ensure({mb})
    /\ LET box == Ensured({mb})[mb]
           message == [uid |-> box.next_uid, id |-> delivered + 1, flags |-> {}]
       IN /\ box.next_uid <= MaxUid
          /\ boxes' = [boxes EXCEPT ![mb] =
                        [box EXCEPT !.next_uid = @ + 1, !.messages = @ \union {message}]]
    /\ delivered' = delivered + 1
    /\ UNCHANGED <<registered, sessions, clients>>

(***************************************************************************)
(* commands/auth.py.                                                       *)
(***************************************************************************)
Register(s) ==
    /\ state[s] = "NOT_AUTHENTICATED" /\ ~registered
    /\ registered' = TRUE
    /\ Ensure({INBOX, Trash}) /\ boxes' = Ensured({INBOX, Trash})
    /\ UNCHANGED <<delivered, sessions, clients>>

\* verify_password succeeds.
Login(s) ==
    /\ state[s] = "NOT_AUTHENTICATED" /\ registered
    /\ state' = [state EXCEPT ![s] = "AUTHENTICATED"]
    /\ Ensure({INBOX, Trash}) /\ boxes' = Ensured({INBOX, Trash})
    /\ UNCHANGED <<registered, delivered, selected_mailbox, readonly, clients>>

\* The session ends, having changed some mailboxes under the others; a new
\* connection takes its place.
EndsAfter(s, mbs) ==
    /\ state' = [state EXCEPT ![s] = "NOT_AUTHENTICATED"]
    /\ selected_mailbox' = [selected_mailbox EXCEPT ![s] = NoName]
    /\ readonly' = [readonly EXCEPT ![s] = FALSE]
    /\ list' = [list EXCEPT ![s] = <<>>]
    /\ disturbed' = [t \in Sessions |-> t # s /\ (disturbed[t] \/ selected_mailbox[t] \in mbs)]
    /\ reply' = [reply EXCEPT ![s] = NoReply]
    /\ UNCHANGED told
Ends(s) == EndsAfter(s, {}) /\ UNCHANGED read

\* LOGOUT, or the end of the stream.
Logout(s) ==
    /\ state[s] # "NOT_AUTHENTICATED"
    /\ Ends(s)
    /\ UNCHANGED store

\* A command refused for the session's state or its arguments, an unknown
\* one, and CAPABILITY, SUBSCRIBE and UNSUBSCRIBE only send a reply.
ReplyOnly(s) == UNCHANGED vars

(***************************************************************************)
(* commands/mailbox.py.                                                    *)
(***************************************************************************)
Authenticated(s) == state[s] \in {"AUTHENTICATED", "SELECTED"}

\* What the client remembers of messages it is told about.
Known(messages) == [i \in DOMAIN messages |-> [uid |-> messages[i].uid, id |-> messages[i].id]]
Told(box, messages) ==
    {[born |-> box.born, uid |-> m.uid, id |-> m.id] : m \in messages}

\* SELECT, and EXAMINE with examine; the client fetches the UIDs at once.
Select(s, mb, examine) ==
    /\ Authenticated(s)
    /\ Ensure({mb}) /\ boxes' = Ensured({mb})
    /\ state' = [state EXCEPT ![s] = "SELECTED"]
    /\ selected_mailbox' = [selected_mailbox EXCEPT ![s] = mb]
    /\ readonly' = [readonly EXCEPT ![s] = examine]
    /\ list' = [list EXCEPT ![s] = Known(Listing(boxes'[mb]))]
    /\ disturbed' = [disturbed EXCEPT ![s] = FALSE]
    /\ told' = told \union Told(boxes'[mb], boxes'[mb].messages)
    /\ UNCHANGED <<registered, delivered, reply, read>>

\* CREATE; STATUS of any name, too, creates the mailbox.
Create(s, mb) ==
    /\ Authenticated(s)
    /\ Ensure({mb}) /\ boxes' = Ensured({mb})
    /\ UNCHANGED <<registered, delivered, sessions, clients>>

\* LIST and LSUB: a user without any mailbox gets an INBOX.
List(s) ==
    /\ Authenticated(s)
    /\ \A mb \in Names : ~Exists(mb)
    /\ Ensure({INBOX}) /\ boxes' = Ensured({INBOX})
    /\ UNCHANGED <<registered, delivered, sessions, clients>>

\* These mailboxes change under the sessions that have them selected.
Disturb(mbs, others) ==
    disturbed' = [s \in Sessions |-> disturbed[s] \/ (s \in others /\ selected_mailbox[s] \in mbs)]

Delete(s, mb) ==
    /\ Authenticated(s) /\ Exists(mb)
    /\ boxes' = [boxes EXCEPT ![mb] = NoBox]
    /\ Disturb({mb}, Sessions)
    /\ UNCHANGED <<registered, created, delivered, sessions, list, reply, told, read>>

\* os.rename moves the directory; onto another mailbox, never an empty
\* directory, it raises and the connection is closed.
Rename(s, old, new) ==
    /\ Authenticated(s) /\ Exists(old) /\ old # new
    /\ IF Exists(new) THEN Ends(s) /\ UNCHANGED store
       ELSE /\ boxes' = [boxes EXCEPT ![new] = boxes[old], ![old] = NoBox]
            /\ Disturb({old, new}, Sessions)
            /\ UNCHANGED <<registered, created, delivered, sessions, list, reply, told, read>>

(***************************************************************************)
(* commands/messages.py.  Every handler lists the selected mailbox, which  *)
(* creates it again if it is gone.                                         *)
(***************************************************************************)
Selected(s) == state[s] = "SELECTED"
Current(s) ==
    LET mb == selected_mailbox[s] IN IF Exists(mb) THEN boxes[mb] ELSE FreshBox(created + 1)
Put(s, box) == boxes' = [boxes EXCEPT ![selected_mailbox[s]] = box]

\* NOOP announces EXISTS, and the client fetches the UIDs of all there is.
Noop(s) ==
    /\ Selected(s)
    /\ Ensure({selected_mailbox[s]}) /\ Put(s, Current(s))
    /\ LET listing == Listing(Current(s))
       IN list' = [list EXCEPT ![s] = @ \o Known(SubSeq(listing, Len(@) + 1, Len(listing)))]
    /\ told' = told \union Told(Current(s), Current(s).messages)
    /\ UNCHANGED <<registered, delivered, sessions, disturbed, reply, read>>

\* SEARCH and UID SEARCH only list the mailbox.
Search(s) ==
    /\ Selected(s)
    /\ Ensure({selected_mailbox[s]}) /\ Put(s, Current(s))
    /\ UNCHANGED <<registered, delivered, sessions, clients>>

\* Mutant: a range is read as it is written.
ExpandForwards(set, numbers) ==
    LET at(e) == IF e = Star THEN Max(numbers) ELSE e
        part(p) == IF Len(p) = 1 THEN {at(p[1])} ELSE at(p[1])..at(p[2])
    IN IF numbers = {} THEN {} ELSE numbers \intersect UNION {part(set[i]) : i \in DOMAIN set}

\* _expand_uid_set: the numbers of a message set that exist.
Expand(set, numbers) ==
    LET at(e) == IF e = Star THEN Max(numbers) ELSE e
        part(p) == IF Len(p) = 1 THEN {at(p[1])}
                   ELSE Min({at(p[1]), at(p[2])})..Max({at(p[1]), at(p[2])})
    IN IF numbers = {} THEN {} ELSE numbers \intersect UNION {part(set[i]) : i \in DOMAIN set}

\* The UIDs a message set names, as UIDs or as places in the listing.
Targets(s, set, byNumber) ==
    LET listing == Listing(Current(s))
    IN IF byNumber THEN {listing[i].uid : i \in Expand(set, DOMAIN listing)}
       ELSE Expand(set, Uids(Current(s)))

\* FETCH and STORE take one number, UID FETCH and UID STORE a set.
IsNumber(set) == Len(set) = 1 /\ Len(set[1]) = 1 /\ set[1][1] # Star
Chosen(s) ==
    {Targets(s, set, FALSE) : set \in Sets} \union
    {Targets(s, set, TRUE) : set \in {x \in Sets : IsNumber(x)}}

\* The calls of the backend are made in the order of the UIDs: those for the
\* UIDs below k are done when the call for k raises.
Below(uids, k) == {uid \in uids : uid < k}
CutShort(s) == UNION {{Below(uids, k) : k \in uids} : uids \in Chosen(s)}

\* set_flags in one of its modes.
Applied(arg, flags) ==
    CASE arg.mode = "replace" -> arg.flags
      [] arg.mode = "add" -> flags \union arg.flags
      [] arg.mode = "remove" -> flags \ arg.flags

\* set_flags for each message with one of the UIDs.
Reflagged(box, uids, arg) ==
    [box EXCEPT !.messages =
        {IF m.uid \in uids THEN [m EXCEPT !.flags = Applied(arg, @)] ELSE m : m \in @}]
AddSeen == [mode |-> "add", flags |-> {Seen}]
Ids(box, uids) == {m.id : m \in {x \in box.messages : x.uid \in uids}}

\* _append_fetch_data_items: the content a reply holds, one of those asked
\* for, and whether sending it marks the message.  FLAGS, UID and the size
\* are always sent.
PartsOf(asked) == {item.part : item \in asked}
Sent(asked) ==
    IF "fields" \in PartsOf(asked) THEN {"fields"}
    ELSE IF [part |-> "header", peek |-> FALSE] \in asked THEN {"header"}
    ELSE {"all"} \intersect PartsOf({item \in asked : ~item.peek})

\* Mutant: header fields mark the message also when they are peeked at.
MarksAlways(asked) == Sent(asked) # {}

Marks(asked) ==
    /\ Sent(asked) # {}
    /\ "fields" \in PartsOf(asked) => \A item \in asked : ~item.peek

\* What a client has read when it gets what it asked for without PEEK.
ReadBy(s, uids, asked) ==
    IF readonly[s] \/ Sent(asked) \intersect PartsOf({item \in asked : ~item.peek}) = {} THEN read
    ELSE read \union Ids(Current(s), uids)
Marked(s, uids, asked) ==
    IF Marks(asked) /\ ~readonly[s] THEN Reflagged(Current(s), uids, AddSeen) ELSE Current(s)

\* FETCH and UID FETCH.
Fetch(s, uids, asked) ==
    /\ Selected(s) /\ Ensure({selected_mailbox[s]})
    /\ Put(s, Marked(s, uids, asked))
    /\ read' = ReadBy(s, uids, asked)
    /\ reply' = IF uids = {} THEN reply
                ELSE [reply EXCEPT ![s] = [asked |-> PartsOf(asked), sent |-> Sent(asked)]]
    /\ UNCHANGED <<registered, delivered, sessions, list, disturbed, told>>

\* The set_flags that marks a message raises; nothing is sent.
FetchFails(s, done, asked) ==
    /\ Selected(s) /\ Marks(asked) /\ ~readonly[s]
    /\ Put(s, Marked(s, done, asked))
    /\ read' = ReadBy(s, done, asked)
    /\ EndsAfter(s, {})
    /\ UNCHANGED <<registered, created, delivered>>

GivenSeen(s, uids, arg) ==
    IF Seen \in arg.flags /\ arg.mode # "remove" THEN read \union Ids(Current(s), uids) ELSE read

\* STORE and UID STORE; neither looks at readonly.
Store(s, uids, arg) ==
    /\ Selected(s) /\ Ensure({selected_mailbox[s]})
    /\ Put(s, Reflagged(Current(s), uids, arg))
    /\ read' = GivenSeen(s, uids, arg)
    /\ UNCHANGED <<registered, delivered, sessions, list, disturbed, reply, told>>

StoreFails(s, done, arg) ==
    /\ Selected(s)
    /\ Put(s, Reflagged(Current(s), done, arg))
    /\ read' = GivenSeen(s, done, arg)
    /\ EndsAfter(s, {})
    /\ UNCHANGED <<registered, created, delivered>>

\* What a client makes of a run of "* n EXPUNGE" replies.
Removed(l, numbers) ==
    LET left[k \in 0..Len(numbers)] ==
            IF k = 0 THEN l
            ELSE IF numbers[k] \in DOMAIN left[k - 1] THEN RemoveAt(left[k - 1], numbers[k]) ELSE left[k - 1]
    IN  left[Len(numbers)]

\* The places in a listing of the messages with these UIDs, in order.
Places(listing, uids) == Ascending({i \in DOMAIN listing : listing[i].uid \in uids}, Len(listing))

\* Mutant: the replies count upwards.
ExpungeRepliesUpwards(places) == places

\* MOVE and UID MOVE announce the highest sequence number first.
ExpungeReplies(places) == Reverse(places)

\* The order of the moves: MOVE goes from the last message to the first.
Order(s, places, byNumber) ==
    LET listing == Listing(Current(s))
        order == IF byNumber THEN Reverse(places) ELSE places
    IN [i \in DOMAIN order |-> listing[order[i]]]

\* Mutant: COPYUID pairs the UIDs in the order of the mailbox.
CopyOrderOfMailbox(s, places, byNumber) == Order(s, places, FALSE)

\* COPYUID lists both UIDs of each message in the order of the moves.
CopyOrder(s, places, byNumber) == Order(s, places, byNumber)

\* The n-th copy: dst numbers them in the order of the moves, and they leave
\* \Deleted behind.
Copy(box, moved, n) == [moved[n] EXCEPT !.uid = box.next_uid + n - 1, !.flags = @ \ {Deleted}]

\* Mutant: the originals go before the copies are made.
RemovingFirst(src, dst, moved, n) ==
    LET box == Ensured({src, dst})[dst]
    IN [Ensured({src, dst}) EXCEPT
            ![src].messages = @ \ ToSet(moved),
            ![dst].next_uid = @ + n,
            ![dst].messages = @ \union {Copy(box, moved, i) : i \in 1..n}]

\* The mailboxes when n messages have been moved.
Moving(src, dst, moved, n) ==
    LET box == Ensured({src, dst})[dst]
    IN [Ensured({src, dst}) EXCEPT
            ![src].messages = @ \ {moved[i] : i \in 1..n},
            ![dst].next_uid = @ + n,
            ![dst].messages = @ \union {Copy(box, moved, i) : i \in 1..n}]

\* MOVE and UID MOVE: move_message for each.  Into the same mailbox nothing
\* moves, but the replies are the same.
Move(s, uids, byNumber, dst) ==
    /\ Selected(s) /\ ~readonly[s] /\ uids # {}
    /\ LET src == selected_mailbox[s]
           places == Places(Listing(Current(s)), uids)
           moved == Order(s, places, byNumber)
           paired == CopyOrder(s, places, byNumber)
           box == Ensured({src, dst})[dst]
       IN /\ Ensure({src, dst})
          /\ list' = [list EXCEPT ![s] = Removed(@, ExpungeReplies(places))]
          /\ \/ /\ src = dst
                /\ UNCHANGED boxes /\ Disturb({src}, {s})
                /\ told' = told \union Told(box, ToSet(moved))
             \/ /\ src # dst /\ box.next_uid + Len(moved) <= MaxUid + 1
                /\ boxes' = Moving(src, dst, moved, Len(moved))
                /\ Disturb({src}, Sessions \ {s})
                /\ told' = told \union
                     Told(box, {[paired[i] EXCEPT !.uid = box.next_uid + i - 1] : i \in DOMAIN paired})
    /\ UNCHANGED <<registered, delivered, sessions, reply, read>>

\* A move_message raises; the messages before are moved.
MoveFails(s, uids, byNumber, dst) ==
    /\ Selected(s) /\ ~readonly[s] /\ dst # selected_mailbox[s]
    /\ LET src == selected_mailbox[s]
           moved == Order(s, Places(Listing(Current(s)), uids), byNumber)
       IN \E n \in 0 .. Len(moved) - 1 :
           /\ Ensure({src, dst})
           /\ Ensured({src, dst})[dst].next_uid + n <= MaxUid + 1
           /\ boxes' = Moving(src, dst, moved, n)
           /\ EndsAfter(s, IF n = 0 THEN {} ELSE {src})
    /\ UNCHANGED <<registered, delivered, read>>

\* EXPUNGE announces the UIDs it removed where the protocol has sequence
\* numbers; the client reads them as such.
ToExpunge(s) == {m \in Current(s).messages : Deleted \in m.flags}
Expunge(s) ==
    /\ Selected(s) /\ Ensure({selected_mailbox[s]})
    /\ LET replies == Ascending({m.uid : m \in ToExpunge(s)}, Current(s).next_uid)
       IN /\ Put(s, [Current(s) EXCEPT !.messages = @ \ ToExpunge(s)])
          /\ list' = [list EXCEPT ![s] = Removed(@, replies)]
          /\ IF ToExpunge(s) = {} THEN UNCHANGED disturbed
             ELSE Disturb({selected_mailbox[s]}, Sessions)
    /\ UNCHANGED <<registered, delivered, sessions, reply, told, read>>

\* os.remove raises for a message, or the writing of the list at the end;
\* the next listing drops the entries of the files that are gone.
ExpungeFails(s) ==
    /\ Selected(s) /\ ToExpunge(s) # {}
    /\ \E k \in {m.uid : m \in ToExpunge(s)} \union {Current(s).next_uid} :
        LET done == {m \in ToExpunge(s) : m.uid < k}
        IN /\ Put(s, [Current(s) EXCEPT !.messages = @ \ done])
           /\ EndsAfter(s, IF done = {} THEN {} ELSE {selected_mailbox[s]})
    /\ UNCHANGED <<registered, created, delivered, read>>

OnMessages(s) ==
    \/ Noop(s) \/ Search(s) \/ Expunge(s) \/ ExpungeFails(s)
    \/ \E uids \in Chosen(s) :
        \/ \E asked \in FetchArgs : Fetch(s, uids, asked)
        \/ \E arg \in StoreArgs : Store(s, uids, arg)
    \/ \E done \in CutShort(s) :
        \/ \E asked \in FetchArgs : FetchFails(s, done, asked)
        \/ \E arg \in StoreArgs : StoreFails(s, done, arg)
    \/ \E byNumber \in BOOLEAN, dst \in Names :
        \E uids \in {Targets(s, set, byNumber) : set \in Sets} :
            Move(s, uids, byNumber, dst) \/ MoveFails(s, uids, byNumber, dst)

Next ==
    \/ \E mb \in SmtpBoxes : Deliver(mb)
    \/ \E s \in Sessions :
        \/ Register(s) \/ Login(s) \/ Logout(s) \/ ReplyOnly(s) \/ List(s)
        \/ \E mb \in Names :
            \/ \E examine \in BOOLEAN : Select(s, mb, examine)
            \/ Create(s, mb) \/ Delete(s, mb)
            \/ \E new \in Names : Rename(s, mb, new)
        \/ Selected(s) /\ OnMessages(s)

Spec == Init /\ [][Next]_vars

(***************************************************************************)
(* Properties.                                                             *)
(***************************************************************************)

\* The sequence numbers a client computes from the replies it got name the
\* same messages in the mailbox, whatever was delivered and moved meanwhile;
\* unless another session removed messages, or the mailbox was deleted or
\* renamed, or the session used EXPUNGE or a MOVE into the same mailbox.
SyncUnlessDisturbed ==
    \A s \in Sessions :
        Selected(s) /\ ~disturbed[s] => IsPrefix(list[s], Known(Listing(boxes[selected_mailbox[s]])))

\* What a client was told of a UID, by SELECT, NOOP or the COPYUID of a MOVE,
\* stays true of the mailbox, under whatever name, as long as it exists.
ToldStaysTrue ==
    \A mb \in Names : \A m \in boxes[mb].messages : \A t \in told :
        t.born = boxes[mb].born /\ t.uid = m.uid => t.id = m.id

\* A message is \Seen only once a session that may change the mailbox has
\* been sent something of it that it asked for without PEEK, or a STORE has
\* said so: peeking, reading under EXAMINE, moving and listing never do it.
SeenMeansRead ==
    \A mb \in Names : \A m \in boxes[mb].messages : Seen \in m.flags => m.id \in read

\* A number n is in a message set, of which * is the last.
InSet(n, set, last) ==
    LET at(e) == IF e = Star THEN last ELSE e
        between(a, b) == a <= n /\ n <= b
    IN \E i \in DOMAIN set :
        LET first == at(set[i][1]) end == at(set[i][Len(set[i])])
        IN between(first, end) \/ between(end, first)

\* A command acts on the messages its client means: of those a client knows
\* by number, the ones whose number is in the set (while nothing disturbed
\* the mailbox), and of those any client was told the UID of, the ones whose
\* UID is, even when the mailbox holds more than the client knows.
SetsMeanMessages ==
    \A s \in Sessions : Selected(s) /\ Exists(selected_mailbox[s]) =>
        \A set \in Sets :
            LET box == Current(s)
            IN /\ ~disturbed[s] => \A n \in DOMAIN list[s] :
                    list[s][n].uid \in Targets(s, set, TRUE) <=> InSet(n, set, Len(Listing(box)))
               /\ \A t \in told : t.born = box.born /\ t.uid \in Uids(box) =>
                    (t.uid \in Targets(s, set, FALSE) <=> InSet(t.uid, set, Max(Uids(box))))

\* Whatever commands are stopped by an exception, and wherever, a message
\* leaves the user's mailboxes only marked \Deleted or with its mailbox.
NothingVanishes ==
    [][\A mb \in Names : \A m \in boxes[mb].messages :
          \/ \E other \in Names : \E copy \in boxes'[other].messages : copy.id = m.id
          \/ Deleted \in m.flags
          \/ boxes'[mb] = NoBox]_vars

\* A FETCH reply has what the client asked for.
FetchSendsAll == \A s \in Sessions : reply[s].asked \subseteq reply[s].sent

\* Under EXAMINE a session's commands on messages leave the mailbox as it is.
ExamineIsReadOnly ==
    [][\A s \in Sessions :
          Selected(s) /\ readonly[s] /\ OnMessages(s)
            => boxes'[selected_mailbox[s]].messages = boxes[selected_mailbox[s]].messages]_vars
=============================================================================
