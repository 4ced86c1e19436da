----------------------------- MODULE SmtpSession -----------------------------
(***************************************************************************)
(* The SMTP server and its clients: smtp_server/commands/delivery.py,      *)
(* smtp_server/server/session.py and smtp_server/server/tcp_server.py.     *)
(*                                                                         *)
(* Each connection has a coroutine that reads a line, handles it without   *)
(* an await and writes the reply, so the server handles one line at a      *)
(* time; a delivery is one line's worth of work, but it writes a file per  *)
(* recipient, and an exception or a crash may fall between two of them.    *)
(* A client sends a command and waits for its reply; a message whose reply *)
(* it never saw it may send again on another connection.                   *)
(*                                                                         *)
(* A line is sent, handled and answered in one step, taken while no        *)
(* delivery is under way: a session is changed by its own connection only, *)
(* so a line or a reply that is lost is one that a client which had        *)
(* already gone did not send or read.                                      *)
(*                                                                         *)
(* Addresses are their local part, the name _local_part looks up; one that *)
(* names no account and one that does not parse are both refused without   *)
(* effect (501, 550), and stand for each other.                            *)
(***************************************************************************)
EXTENDS Naturals, Sequences, FiniteSets, Bags

CONSTANTS
    Conns,      \* connections open at the same time
    Users,      \* the accounts
    Senders,    \* what clients name in MAIL
    Recipients, \* what clients name in RCPT
    NoUser,     \* None
    Messages,   \* the messages clients send
    Lines,      \* message -> the number of its lines
    Dotted,     \* message -> those of its lines that start with a dot
    NoMessage, NoConn,
    Dot,        \* the line that holds a single dot
    None,       \* no line
    MaxRcpts,   \* bound: recipients in a transaction
    MaxSends    \* bound: transactions that reach DATA

ASSUME SmtpAssumption ==
    /\ NoUser \notin Users
    /\ Lines \in [Messages -> Nat]
    /\ Dotted \in [Messages -> SUBSET Nat]
    /\ NoMessage \notin Messages /\ NoConn \notin Conns
    /\ MaxRcpts \in Nat /\ MaxSends \in Nat

VARIABLES
    up,        \* connection -> how far it has come
    session,   \* connection -> its SmtpSession
    buffer,    \* connection -> data_buffer
    busy,      \* the connection whose message is being delivered
    raw,       \* that message
    sent,      \* how many of its recipients have their copy
    stored,    \* the copies on disk, a bag
    client,    \* connection -> its client
    acked,     \* history: the transactions clients were told are delivered
    asked,     \* history: <<message, user>> -> accepted RCPTs of its transactions
    sends,     \* transactions that reached DATA
    cut        \* history: a connection broke after the dot of a dotted line

serverVars == <<session, buffer, busy, raw, sent, stored>>
history == <<acked, asked, sends, cut>>
vars == <<up, client, serverVars, history>>

(***************************************************************************)
(* Lines.  Other stands for every command that leaves the session as it    *)
(* is: NOOP, an unknown verb, HELO without a name.  Text is a line of a    *)
(* message, already unstuffed.                                             *)
(***************************************************************************)
Command ==
    [verb : {"HELO", "DATA", "RSET", "QUIT", "OTHER"}, arg : {NoUser}]
    \union [verb : {"MAIL"}, arg : Senders]
    \union [verb : {"RCPT"}, arg : Recipients]
Text == [message : Messages, number : Nat]

Transaction == [from : Users \union {NoUser}, rcpts : Seq(Users)]
\* How often a user is named in a list of recipients.
Count(rcpts, user) == Cardinality({i \in DOMAIN rcpts : rcpts[i] = user})

NoTransaction == [from |-> NoUser, rcpts |-> <<>>]

States == {"INIT", "GREETED", "MAIL_FROM_SET", "RCPT_SET", "QUIT"}

TypeOK ==
    /\ up \in [Conns -> {"up", "half", "closed"}]
    /\ \A c \in Conns :
        /\ session[c].state \in States
        /\ session[c].mail_from \in Users \union {NoUser}
        /\ session[c].rcpt_to \in Seq(Users)
        /\ session[c].in_data_mode \in BOOLEAN
        /\ buffer[c] \in Seq(Text \union Command)
        /\ client[c].waits \in Command \union {Dot, None}
        /\ client[c].transaction \in Transaction
        /\ client[c].message \in Messages \union {NoMessage}
        /\ client[c].number \in Nat
    /\ busy \in Conns \union {NoConn}
    /\ raw \in Seq(Text \union Command)
    /\ sent \in Nat
    /\ IsABag(stored)
    /\ \A copy \in BagToSet(stored) : copy.user \in Users /\ copy.box \in {"INBOX", "Sent"}
    /\ \A a \in acked : a.message \in Messages /\ a.transaction \in Transaction
    /\ asked \in [Messages \X Users -> Nat]
    /\ sends \in Nat /\ cut \in BOOLEAN

NewSession == [state |-> "INIT", mail_from |-> NoUser, rcpt_to |-> <<>>, in_data_mode |-> FALSE]
NewClient == [waits |-> None, transaction |-> NoTransaction, message |-> NoMessage, number |-> 0]

Init ==
    /\ up = [c \in Conns |-> "closed"]
    /\ session = [c \in Conns |-> NewSession]
    /\ buffer = [c \in Conns |-> <<>>]
    /\ busy = NoConn /\ raw = <<>> /\ sent = 0 /\ stored = EmptyBag
    /\ client = [c \in Conns |-> NewClient]
    /\ acked = {} /\ asked = [mu \in Messages \X Users |-> 0]
    /\ sends = 0 /\ cut = FALSE

(***************************************************************************)
(* commands/delivery.py: what a handler makes of a session, and its reply. *)
(***************************************************************************)
Answer(s, code) == [session |-> s, reply |-> code]

HandleHelo(s) == Answer([s EXCEPT !.state = "GREETED"], "250")

\* Mutant: the sender's account is not looked up.
MailFromAnyone(s, name) ==
    IF s.state = "INIT" THEN Answer(s, "5xx")
    ELSE Answer([s EXCEPT !.mail_from = name, !.rcpt_to = <<>>, !.state = "MAIL_FROM_SET"], "250")

\* Mutant: the recipients of an unfinished transaction stay.
MailKeepsRcpts(s, name) ==
    IF s.state = "INIT" \/ name \notin Users THEN Answer(s, "5xx")
    ELSE Answer([s EXCEPT !.mail_from = name, !.state = "MAIL_FROM_SET"], "250")

HandleMail(s, name) ==
    IF s.state = "INIT" \/ name \notin Users THEN Answer(s, "5xx")
    ELSE Answer([s EXCEPT !.mail_from = name, !.rcpt_to = <<>>, !.state = "MAIL_FROM_SET"], "250")

HandleRcpt(s, name) ==
    IF s.state \notin {"MAIL_FROM_SET", "RCPT_SET"} \/ name \notin Users THEN Answer(s, "5xx")
    ELSE Answer([s EXCEPT !.rcpt_to = Append(@, name), !.state = "RCPT_SET"], "250")

HandleDataStart(s) ==
    IF s.state # "RCPT_SET" THEN Answer([s EXCEPT !.in_data_mode = FALSE], "5xx")
    ELSE Answer([s EXCEPT !.in_data_mode = TRUE], "354")

HandleRset(s) ==
    Answer([s EXCEPT !.mail_from = NoUser, !.rcpt_to = <<>>,
                     !.state = IF @ = "INIT" THEN "INIT" ELSE "GREETED"], "250")

HandleQuit(s) == Answer([s EXCEPT !.state = "QUIT"], "221")

\* SmtpSession.handle_command.
HandleCommand(s, cmd) ==
    CASE cmd.verb = "HELO" -> HandleHelo(s)
      [] cmd.verb = "MAIL" -> HandleMail(s, cmd.arg)
      [] cmd.verb = "RCPT" -> HandleRcpt(s, cmd.arg)
      [] cmd.verb = "DATA" -> HandleDataStart(s)
      [] cmd.verb = "RSET" -> HandleRset(s)
      [] cmd.verb = "QUIT" -> HandleQuit(s)
      [] OTHER -> Answer(s, "250")

(***************************************************************************)
(* Clients.                                                                *)
(***************************************************************************)

\* What RFC 5321 tells a client its transaction is, after a good reply.
Understood(transaction, cmd) ==
    CASE cmd.verb \in {"HELO", "RSET"} -> NoTransaction
      [] cmd.verb = "MAIL" -> [from |-> cmd.arg, rcpts |-> <<>>]
      [] cmd.verb = "RCPT" -> [transaction EXCEPT !.rcpts = Append(@, cmd.arg)]
      [] OTHER -> transaction

\* The client reads the reply to its command.  After 354 it picks a message
\* that no client was told is delivered and none is sending.
Reads(c, cmd, code) ==
    LET k == [client[c] EXCEPT !.waits = None] IN
    IF code = "354" THEN
        /\ \E m \in Messages :
            /\ \A a \in acked : a.message # m
            /\ \A d \in Conns : client[d].message # m
            /\ client' = [client EXCEPT ![c] = [k EXCEPT !.message = m]]
            /\ asked' = [mu \in Messages \X Users |->
                  IF mu[1] # m THEN asked[mu]
                  ELSE asked[mu] + Count(k.transaction.rcpts, mu[2])]
        /\ sends' = sends + 1
    ELSE /\ client' = [client EXCEPT ![c] =
                IF code = "5xx" THEN k
                ELSE [k EXCEPT !.transaction = Understood(@, cmd)]]
         /\ UNCHANGED <<asked, sends>>

(***************************************************************************)
(* tcp_server._handle_client: a client's line is read and handled.         *)
(***************************************************************************)
Connect(c) ==
    /\ up[c] = "closed"
    /\ up' = [up EXCEPT ![c] = "up"]
    /\ UNCHANGED <<client, serverVars, history>>

\* The client has read every reply, and the server reads its next line.
Readable(c) == busy = NoConn /\ up[c] = "up" /\ client[c].waits = None

Sending(c) == client[c].message # NoMessage

\* The coroutines of these connections end, and their sessions with them.
Ends(conns) ==
    /\ up' = [c \in Conns |-> IF c \in conns THEN "closed" ELSE up[c]]
    /\ session' = [c \in Conns |-> IF c \in conns THEN NewSession ELSE session[c]]
    /\ buffer' = [c \in Conns |-> IF c \in conns THEN <<>> ELSE buffer[c]]
    /\ client' = [c \in Conns |-> IF c \in conns THEN NewClient ELSE client[c]]

\* In data mode every line but the dot is content, whatever it says.
Content(c, l) == buffer' = [buffer EXCEPT ![c] = Append(@, l)] /\ UNCHANGED session

ReceiveCommand(c, cmd) ==
    /\ Readable(c) /\ ~Sending(c)
    /\ cmd.verb = "RCPT" => Len(client[c].transaction.rcpts) < MaxRcpts
    /\ cmd.verb = "DATA" => sends < MaxSends
    /\ LET answer == HandleCommand(session[c], cmd)
       IN IF session[c].in_data_mode
          THEN /\ Content(c, cmd)
               /\ client' = [client EXCEPT ![c].waits = cmd]
               /\ UNCHANGED <<up, asked, sends>>
          ELSE IF answer.session.state = "QUIT"
          THEN Ends({c}) /\ UNCHANGED <<asked, sends>>
          ELSE /\ session' = [session EXCEPT ![c] = answer.session]
               /\ Reads(c, cmd, answer.reply)
               /\ UNCHANGED <<up, buffer>>
    /\ UNCHANGED <<busy, raw, sent, stored, acked, cut>>

ReceiveText(c) ==
    LET k == client[c] IN
    /\ Readable(c) /\ Sending(c) /\ k.number < Lines[k.message]
    /\ session[c].in_data_mode
    /\ Content(c, [message |-> k.message, number |-> k.number + 1])
    /\ client' = [client EXCEPT ![c].number = @ + 1]
    /\ UNCHANGED <<up, busy, raw, sent, stored, history>>

\* Mutant: the buffer still holds the message when the next one comes.
FinishDataKeeping(c) ==
    /\ session[c].in_data_mode
    /\ busy' = c /\ raw' = buffer[c] /\ sent' = 0
    /\ session' = [session EXCEPT ![c].in_data_mode = FALSE]
    /\ UNCHANGED <<buffer, stored>>

\* Mutant: the session stays in data mode.
FinishDataForgetting(c) ==
    /\ session[c].in_data_mode
    /\ busy' = c /\ raw' = buffer[c] /\ sent' = 0
    /\ buffer' = [buffer EXCEPT ![c] = <<>>]
    /\ UNCHANGED <<session, stored>>

\* The dot ends the message: finish_data leaves data mode and starts to deliver.
FinishData(c) ==
    /\ session[c].in_data_mode
    /\ busy' = c /\ raw' = buffer[c] /\ sent' = 0
    /\ buffer' = [buffer EXCEPT ![c] = <<>>]
    /\ session' = [session EXCEPT ![c].in_data_mode = FALSE]
    /\ UNCHANGED stored

ReceiveDot(c) ==
    LET k == client[c] IN
    /\ Readable(c) /\ Sending(c) /\ k.number = Lines[k.message]
    /\ FinishData(c)
    /\ client' = [client EXCEPT ![c].waits = Dot]
    /\ UNCHANGED <<up, history>>

\* The connection breaks between two lines or inside one: a partial command
\* acts on a session that ends, and unfinished content is dropped.  A delivery
\* under way goes on, and nobody reads its reply.
Break(c) ==
    /\ up[c] = "up"
    /\ IF busy = c
       THEN /\ up' = [up EXCEPT ![c] = "half"]
            /\ client' = [client EXCEPT ![c] = NewClient]
            /\ UNCHANGED <<session, buffer>>
       ELSE Ends({c})
    /\ UNCHANGED <<busy, raw, sent, stored, history>>

\* It breaks after the first byte of a dotted line: at the end of the stream
\* readline returns that byte, and it reads as the end of the message.
BreakAfterDot(c) ==
    LET k == client[c] IN
    /\ Readable(c) /\ Sending(c) /\ k.number + 1 \in Dotted[k.message]
    /\ FinishData(c)
    /\ up' = [up EXCEPT ![c] = "half"]
    /\ client' = [client EXCEPT ![c] = NewClient]
    /\ cut' = TRUE
    /\ UNCHANGED <<acked, asked, sends>>

(***************************************************************************)
(* handle_data_end: a copy for each recipient, then one for the sender.    *)
(***************************************************************************)

\* The mailboxes with one more copy of the message.
With(user, mb) == stored (+) SetToBag({[user |-> user, box |-> mb, raw |-> raw]})

NotBusy == busy' = NoConn /\ raw' = <<>> /\ sent' = 0

DeliverNext ==
    /\ busy # NoConn /\ sent < Len(session[busy].rcpt_to)
    /\ stored' = With(session[busy].rcpt_to[sent + 1], "INBOX")
    /\ sent' = sent + 1
    /\ UNCHANGED <<up, client, session, buffer, busy, raw, history>>

\* The transaction is over and its client reads 250; at the end of the stream
\* the connection is closed.
Completed(c) ==
    IF up[c] = "up"
    THEN /\ session' = [session EXCEPT ![c].mail_from = NoUser, ![c].rcpt_to = <<>>,
                                       ![c].state = "GREETED"]
         /\ acked' = acked \union {[message |-> client[c].message,
                                    transaction |-> client[c].transaction]}
         /\ client' = [client EXCEPT ![c] = NewClient]
         /\ UNCHANGED <<up, buffer>>
    ELSE Ends({c}) /\ UNCHANGED acked

\* Mutant: the last recipient is left out.
FinishEarly ==
    /\ busy # NoConn /\ sent + 1 >= Len(session[busy].rcpt_to)
    /\ stored' = With(session[busy].mail_from, "Sent")
    /\ Completed(busy) /\ NotBusy
    /\ UNCHANGED <<asked, sends, cut>>

\* Mutant: the sender's copy goes to deliver_message's default mailbox.
FinishInInbox ==
    /\ busy # NoConn /\ sent = Len(session[busy].rcpt_to)
    /\ stored' = With(session[busy].mail_from, "INBOX")
    /\ Completed(busy) /\ NotBusy
    /\ UNCHANGED <<asked, sends, cut>>

Finish ==
    /\ busy # NoConn /\ sent = Len(session[busy].rcpt_to)
    /\ stored' = With(session[busy].mail_from, "Sent")
    /\ Completed(busy) /\ NotBusy
    /\ UNCHANGED <<asked, sends, cut>>

\* deliver_message raises, before or after its file is in new/: the handler's
\* finally closes the connection and no reply is written.
DeliverFails ==
    /\ busy # NoConn
    /\ LET s == session[busy]
       IN stored' \in {stored, IF sent < Len(s.rcpt_to) THEN With(s.rcpt_to[sent + 1], "INBOX")
                               ELSE With(s.mail_from, "Sent")}
    /\ Ends({busy}) /\ NotBusy
    /\ UNCHANGED history

\* The server process stops; every connection goes with it.
Crash ==
    /\ \E c \in Conns : up[c] # "closed"
    /\ Ends(Conns) /\ NotBusy
    /\ UNCHANGED <<stored, history>>

Deliver == DeliverNext \/ Finish

Next ==
    \/ \E c \in Conns :
        \/ Connect(c)
        \/ \E cmd \in Command : ReceiveCommand(c, cmd)
        \/ ReceiveText(c) \/ ReceiveDot(c)
        \/ Break(c) \/ BreakAfterDot(c)
    \/ Deliver \/ DeliverFails \/ Crash

\* A delivery under way goes on until it is done or raises: nothing else runs
\* in the server's thread before that.
Spec == Init /\ [][Next]_vars /\ WF_vars(Deliver \/ DeliverFails)

(***************************************************************************)
(* Properties.                                                             *)
(***************************************************************************)

Body(m) == [i \in 1 .. Lines[m] |-> [message |-> m, number |-> i]]
Whole(content) == \E m \in Messages : content = Body(m)

\* How many copies of the message are in a mailbox.
Times(copy, bag) == IF BagIn(copy, bag) THEN bag[copy] ELSE 0
Copies(m, user, mb) == Times([user |-> user, box |-> mb, raw |-> Body(m)], stored)

\* A message goes to the recipients its client named since its last MAIL, RSET,
\* HELO or end of message, and to no others, on behalf of the sender named then.
TransactionAgreed ==
    busy # NoConn /\ up[busy] = "up" =>
        /\ [from |-> session[busy].mail_from, rcpts |-> session[busy].rcpt_to]
             = client[busy].transaction
        /\ client[busy].transaction.rcpts # <<>>

\* 250 after the dot: every accepted RCPT has a copy in its INBOX, one for
\* each time it was named, and the sender has one in Sent.
AckedIsStored ==
    \A a \in acked :
        /\ Copies(a.message, a.transaction.from, "Sent") >= 1
        /\ \A u \in Users :
            Copies(a.message, u, "INBOX")
              >= Count(a.transaction.rcpts, u)

\* Retries after a lost reply or a failed delivery duplicate a message, but
\* nobody gets more copies than RCPTs were accepted for it.
NothingUnasked ==
    \A m \in Messages, u \in Users : Copies(m, u, "INBOX") <= asked[<<m, u>>]

\* What is stored is what was sent up to a line that is a single dot, and
\* nothing of an earlier message of the connection.
WholeMessages == \A copy \in BagToSet(stored) : Whole(copy.raw)

\* The only exception is a connection that breaks inside a dotted line: then
\* the lines before that one are stored.
Truncated(content) ==
    \E m \in Messages : \E n \in Dotted[m] : content = SubSeq(Body(m), 1, n - 1)
WholeUnlessCut ==
    \A copy \in BagToSet(stored) : Whole(copy.raw) \/ (cut /\ Truncated(copy.raw))

\* A command, or the dot, is answered, or the connection ends.
EveryLineAnswered ==
    \A c \in Conns :
        client[c].waits # None ~> client[c].waits = None
=============================================================================
