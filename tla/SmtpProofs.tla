------------------------------ MODULE SmtpProofs ------------------------------
(***************************************************************************)
(* What the SMTP server promises its clients, for any number of            *)
(* connections, users and messages, whatever breaks or fails: a message    *)
(* goes to the recipients of its transaction and to nobody else, 250 after *)
(* the dot means that every copy is on disk, and what is on disk is whole  *)
(* unless a connection broke after a leading dot.                          *)
(*                                                                         *)
(* The invariant follows a message from the line that names its sender to  *)
(* its last copy: session and client agree on the transaction (Agreed),    *)
(* the buffer holds the lines sent so far (Begun), the delivery works on   *)
(* one connection (DeliveryOK) and has made the copies it counts (Made),   *)
(* and the copies made, due and wanted are covered by the RCPTs that were  *)
(* accepted (Budget).                                                      *)
(***************************************************************************)
EXTENDS SmtpSession, FiniteSetTheorems, TLAPS

SessionRecord ==
    [state : States, mail_from : Users \union {NoUser}, rcpt_to : Seq(Users), in_data_mode : BOOLEAN]
ClientRecord ==
    [waits : Command \union {Dot, None}, transaction : Transaction,
     message : Messages \union {NoMessage}, number : Nat]

\* TypeOK, with the fields records have and no others.
Shape ==
    /\ up \in [Conns -> {"up", "half", "closed"}]
    /\ session \in [Conns -> SessionRecord]
    /\ buffer \in [Conns -> Seq(Text \union Command)]
    /\ client \in [Conns -> ClientRecord]
    /\ busy \in Conns \union {NoConn}
    /\ raw \in Seq(Text \union Command)
    /\ sent \in Nat
    /\ IsABag(stored)
    /\ \A copy \in BagToSet(stored) : copy.user \in Users /\ copy.box \in {"INBOX", "Sent"}
    /\ \A a \in acked : a.message \in Messages /\ a.transaction \in Transaction
    /\ asked \in [Messages \X Users -> Nat]
    /\ sends \in Nat /\ cut \in BOOLEAN

\* Server and client have the same transaction in mind.
Agreed(s, transaction) ==
    /\ s.state \in {"MAIL_FROM_SET", "RCPT_SET"} =>
          s.mail_from \in Users /\ transaction = [from |-> s.mail_from, rcpts |-> s.rcpt_to]
    /\ s.state = "RCPT_SET" => s.rcpt_to # <<>>

\* The first lines of a message.
Begun(m, n) == [i \in 1..n |-> [message |-> m, number |-> i]]

\* A connection between two deliveries: its buffer has what was sent.
Collecting(c) ==
    /\ session[c].in_data_mode <=> Sending(c)
    /\ session[c].in_data_mode => session[c].state = "RCPT_SET"
    /\ ~Sending(c) => client[c].number = 0 /\ buffer[c] = <<>>
    /\ Sending(c) => /\ client[c].number <= Lines[client[c].message]
                     /\ buffer[c] = Begun(client[c].message, client[c].number)

ConnOK(c) ==
    /\ up[c] = "closed" => session[c] = NewSession /\ buffer[c] = <<>> /\ client[c] = NewClient /\ busy # c
    /\ up[c] = "half" => busy = c /\ client[c] = NewClient
    /\ up[c] = "up" => Agreed(session[c], client[c].transaction)
    /\ up[c] = "up" /\ busy # c => Collecting(c)

\* The connection whose message is being delivered.
DeliveryOK ==
    busy # NoConn =>
        /\ session[busy].state = "RCPT_SET" /\ ~session[busy].in_data_mode /\ buffer[busy] = <<>>
        /\ session[busy].mail_from \in Users /\ session[busy].rcpt_to # <<>>
        /\ sent <= Len(session[busy].rcpt_to)
        /\ Whole(raw) \/ (cut /\ Truncated(raw))
        /\ up[busy] = "up" => Sending(busy) /\ raw = Body(client[busy].message)

\* No two clients send the same message at the same time.
OneSender ==
    \A c, d \in Conns : Sending(c) /\ client[c].message = client[d].message => c = d

SmtpInv ==
    /\ Shape
    /\ \A c \in Conns : ConnOK(c)
    /\ DeliveryOK
    /\ OneSender
    /\ WholeUnlessCut

(***************************************************************************)
(* Bags, lists of recipients, and lines.                                   *)
(***************************************************************************)

\* A delivery adds one copy.
LEMMA OneMore ==
    ASSUME NEW bag, IsABag(bag), NEW copy
    PROVE  /\ IsABag(bag (+) SetToBag({copy}))
           /\ BagToSet(bag (+) SetToBag({copy})) = BagToSet(bag) \union {copy}
           /\ \A other : Times(other, bag (+) SetToBag({copy}))
                           = Times(other, bag) + (IF other = copy THEN 1 ELSE 0)
<1>1. PICK more : more = bag (+) SetToBag({copy})
  OBVIOUS
<1>2. DOMAIN more = DOMAIN bag \union {copy}
  BY <1>1 DEF (+), SetToBag
<1>3. \A e \in DOMAIN more : more[e] = (IF e \in DOMAIN bag THEN bag[e] ELSE 0) + (IF e = copy THEN 1 ELSE 0)
  BY <1>1 DEF (+), SetToBag
<1>4. more = [e \in DOMAIN more |-> more[e]]
  BY <1>1 DEF (+), SetToBag
<1>5. \A e \in DOMAIN bag : bag[e] \in Nat /\ bag[e] > 0
  BY DEF IsABag
<1>6. \A e \in DOMAIN more : more[e] \in Nat /\ more[e] > 0
  BY <1>2, <1>3, <1>5
<1>7. IsABag(more)
  BY <1>4, <1>6 DEF IsABag
<1>8. \A other : Times(other, more) = Times(other, bag) + (IF other = copy THEN 1 ELSE 0)
  BY <1>2, <1>3, <1>5 DEF Times, BagIn, BagToSet
<1> QED
  BY <1>1, <1>2, <1>7, <1>8 DEF BagToSet

\* The number of copies is a number.
LEMMA TimesType == ASSUME NEW bag, IsABag(bag), NEW copy PROVE Times(copy, bag) \in Nat
BY DEF IsABag, Times, BagIn, BagToSet

\* How often a user is among the first n recipients.
CountTo(rcpts, n, user) == Cardinality({i \in 1..n : rcpts[i] = user})

LEMMA CountToType ==
    ASSUME NEW rcpts, NEW n \in Nat, NEW user
    PROVE  CountTo(rcpts, n, user) \in Nat /\ IsFiniteSet({i \in 1..n : rcpts[i] = user})
<1>1. IsFiniteSet(1..n)
  BY FS_Interval
<1>2. IsFiniteSet({i \in 1..n : rcpts[i] = user})
  BY <1>1, FS_Subset
<1> QED
  BY <1>2, FS_CardinalityType DEF CountTo

LEMMA CountToNext ==
    ASSUME NEW rcpts, NEW n \in Nat, NEW user
    PROVE  /\ CountTo(rcpts, 0, user) = 0
           /\ CountTo(rcpts, n + 1, user)
                = CountTo(rcpts, n, user) + (IF rcpts[n + 1] = user THEN 1 ELSE 0)
<1>1. PICK named : named = {i \in 1..n : rcpts[i] = user}
  OBVIOUS
<1>2. CountTo(rcpts, n, user) = Cardinality(named)
  BY <1>1, Zenon DEF CountTo
<1>3. IsFiniteSet(named)
  <2>1. IsFiniteSet({i \in 1..n : rcpts[i] = user})
    BY CountToType
  <2> QED
    BY <1>1, <2>1, Zenon
<1>4. n + 1 \notin named
  BY <1>1
<1>5. CountTo(rcpts, 0, user) = 0
  <2>1. {i \in 1..0 : rcpts[i] = user} = {}
    OBVIOUS
  <2> QED
    BY <2>1, FS_EmptySet DEF CountTo
<1>6. CASE rcpts[n + 1] = user
  <2>1. {i \in 1..(n + 1) : rcpts[i] = user} = named \union {n + 1}
    BY <1>1, <1>6
  <2>2. CountTo(rcpts, n + 1, user) = Cardinality(named \union {n + 1})
    BY <2>1, Zenon DEF CountTo
  <2>3. Cardinality(named \union {n + 1}) = Cardinality(named) + 1
    BY <1>3, <1>4, FS_AddElement
  <2> QED
    BY <1>2, <1>5, <1>6, <2>2, <2>3
<1>7. CASE rcpts[n + 1] # user
  <2>1. {i \in 1..(n + 1) : rcpts[i] = user} = named
    BY <1>1, <1>7
  <2>2. CountTo(rcpts, n + 1, user) = Cardinality(named)
    BY <2>1, Zenon DEF CountTo
  <2>3. Cardinality(named) \in Nat
    BY <1>3, FS_CardinalityType
  <2> QED
    BY <1>2, <1>5, <1>7, <2>2, <2>3
<1> QED
  BY <1>6, <1>7

\* The count over the first recipients reaches the count over all of them.
LEMMA CountAll ==
    ASSUME NEW rcpts \in Seq(Users), NEW user
    PROVE  Count(rcpts, user) = CountTo(rcpts, Len(rcpts), user) /\ Count(rcpts, user) \in Nat
<1>1. DOMAIN rcpts = 1..Len(rcpts) /\ Len(rcpts) \in Nat
  OBVIOUS
<1>2. Count(rcpts, user) = CountTo(rcpts, Len(rcpts), user)
  BY <1>1 DEF Count, CountTo
<1> QED
  BY <1>1, <1>2, CountToType

LEMMA CountSome ==
    ASSUME NEW rcpts \in Seq(Users), NEW n \in 0..Len(rcpts), NEW user
    PROVE  CountTo(rcpts, n, user) <= Count(rcpts, user)
<1>1. Len(rcpts) \in Nat /\ n \in Nat
  OBVIOUS
<1>2. PICK some : some = {i \in 1..n : rcpts[i] = user}
  OBVIOUS
<1>3. PICK all : all = {i \in 1..Len(rcpts) : rcpts[i] = user}
  OBVIOUS
<1>4. some \subseteq all
  BY <1>1, <1>2, <1>3
<1>5. IsFiniteSet(all) /\ Cardinality(all) = Count(rcpts, user)
  <2>0. \A k \in Nat : IsFiniteSet({i \in 1..k : rcpts[i] = user})
    BY CountToType
  <2>1. IsFiniteSet({i \in 1..Len(rcpts) : rcpts[i] = user})
    BY <1>1, <2>0, Zenon
  <2>2. Cardinality(all) = CountTo(rcpts, Len(rcpts), user)
    BY <1>3, Zenon DEF CountTo
  <2>3. IsFiniteSet(all)
    BY <1>3, <2>1, Zenon
  <2> QED
    BY <2>2, <2>3, CountAll
<1>6. Cardinality(some) <= Cardinality(all)
  BY <1>4, <1>5, FS_Subset
<1> QED
  BY <1>2, <1>5, <1>6 DEF CountTo

\* A text line continues the message, and the last one completes it.
LEMMA BegunNext ==
    ASSUME NEW m \in Messages, NEW n \in Nat
    PROVE  /\ Begun(m, 0) = <<>>
           /\ Begun(m, n) \in Seq(Text)
           /\ Append(Begun(m, n), [message |-> m, number |-> n + 1]) = Begun(m, n + 1)
<1>1. Begun(m, n) \in Seq(Text) /\ Len(Begun(m, n)) = n
  BY DEF Begun, Text
<1>2. Begun(m, n + 1) \in Seq(Text) /\ Len(Begun(m, n + 1)) = n + 1
  BY DEF Begun, Text
<1>3. [message |-> m, number |-> n + 1] \in Text
  BY DEF Text
<1>4. Append(Begun(m, n), [message |-> m, number |-> n + 1]) = Begun(m, n + 1)
  BY <1>1, <1>2, <1>3 DEF Begun
<1>5. Begun(m, 0) = <<>>
  BY DEF Begun
<1> QED
  BY <1>1, <1>4, <1>5

LEMMA BegunWhole ==
    ASSUME NEW m \in Messages, NEW n \in Nat
    PROVE  /\ Body(m) = Begun(m, Lines[m])
           /\ n <= Lines[m] => SubSeq(Body(m), 1, n) = Begun(m, n)
<1>1. Lines[m] \in Nat
  BY SmtpAssumption
<1>2. Body(m) = Begun(m, Lines[m])
  BY DEF Body, Begun
<1>3. Begun(m, Lines[m]) \in Seq(Text) /\ Len(Begun(m, Lines[m])) = Lines[m]
  <2>1. PICK k \in Nat : k = Lines[m]
    BY <1>1
  <2>2. Begun(m, k) \in Seq(Text) /\ Len(Begun(m, k)) = k
    BY DEF Begun, Text
  <2> QED
    BY <2>1, <2>2
<1>4. ASSUME n <= Lines[m] PROVE SubSeq(Body(m), 1, n) = Begun(m, n)
  BY <1>1, <1>2, <1>3, <1>4 DEF Begun
<1> QED
  BY <1>2, <1>4

(***************************************************************************)
(* Commands.                                                               *)
(***************************************************************************)

\* What a client holds its transaction to be once it read the reply.
AfterReply(transaction, cmd, code) ==
    IF code = "5xx" THEN transaction ELSE Understood(transaction, cmd)

LEMMA NewType == NewSession \in SessionRecord /\ NewClient \in ClientRecord
BY DEF NewSession, NewClient, NoTransaction, SessionRecord, ClientRecord, Transaction, States

\* A command either opens data mode, or quits, or leaves server and client with
\* the same transaction in mind.
LEMMA CommandOutcome ==
    ASSUME NEW s \in SessionRecord, ~s.in_data_mode,
           NEW transaction \in Transaction, Agreed(s, transaction),
           NEW cmd \in Command,
           NEW answer, answer = HandleCommand(s, cmd)
    PROVE  /\ answer.session \in SessionRecord
           /\ answer.reply = "354" => /\ s.state = "RCPT_SET"
                                      /\ answer.session = [s EXCEPT !.in_data_mode = TRUE]
           /\ answer.session.state # "QUIT" /\ answer.reply # "354" =>
                /\ ~answer.session.in_data_mode
                /\ AfterReply(transaction, cmd, answer.reply) \in Transaction
                /\ Agreed(answer.session, AfterReply(transaction, cmd, answer.reply))
<1>1. PICK new : new = answer.session
  OBVIOUS
<1>2. PICK told : told = AfterReply(transaction, cmd, answer.reply)
  OBVIOUS
<1>3. /\ s.state \in States /\ s.mail_from \in Users \union {NoUser}
      /\ s.rcpt_to \in Seq(Users) /\ <<>> \in Seq(Users)
      /\ transaction.from \in Users \union {NoUser} /\ transaction.rcpts \in Seq(Users)
  BY DEF SessionRecord, Transaction
<1>4. CASE cmd.verb = "HELO"
  <2>1. new = [s EXCEPT !.state = "GREETED"] /\ answer.reply = "250"
    BY <1>1, <1>4 DEF HandleCommand, HandleHelo, Answer
  <2>2. told = [from |-> NoUser, rcpts |-> <<>>]
    BY <1>2, <1>4, <2>1 DEF AfterReply, Understood, NoTransaction
  <2>3. new \in SessionRecord /\ told \in Transaction
    BY <1>3, <2>1, <2>2 DEF SessionRecord, States, Transaction
  <2>4. new.state = "GREETED" /\ ~new.in_data_mode
    BY <2>1 DEF SessionRecord
  <2> QED
    BY <1>1, <1>2, <2>1, <2>3, <2>4 DEF Agreed
<1>5. CASE cmd.verb = "MAIL"
  <2>1. answer = HandleMail(s, cmd.arg)
    BY <1>5 DEF HandleCommand
  <2>2. CASE s.state = "INIT" \/ cmd.arg \notin Users
    <3>1. new = s /\ answer.reply = "5xx" /\ told = transaction
      BY <1>1, <1>2, <2>1, <2>2 DEF HandleMail, Answer, AfterReply
    <3> QED
      BY <1>1, <1>2, <3>1
  <2>3. CASE s.state # "INIT" /\ cmd.arg \in Users
    <3>1. /\ new = [s EXCEPT !.mail_from = cmd.arg, !.rcpt_to = <<>>, !.state = "MAIL_FROM_SET"]
          /\ answer.reply = "250"
      BY <1>1, <2>1, <2>3 DEF HandleMail, Answer
    <3>2. told = [from |-> cmd.arg, rcpts |-> <<>>]
      BY <1>2, <1>5, <3>1 DEF AfterReply, Understood
    <3>3. new \in SessionRecord /\ told \in Transaction
      BY <1>3, <2>3, <3>1, <3>2 DEF SessionRecord, States, Transaction
    <3>4. /\ new.state = "MAIL_FROM_SET" /\ new.mail_from = cmd.arg /\ new.rcpt_to = <<>>
          /\ ~new.in_data_mode
      BY <3>1 DEF SessionRecord
    <3> QED
      BY <1>1, <1>2, <2>3, <3>1, <3>2, <3>3, <3>4 DEF Agreed
  <2> QED
    BY <2>2, <2>3
<1>6. CASE cmd.verb = "RCPT"
  <2>1. answer = HandleRcpt(s, cmd.arg)
    BY <1>6 DEF HandleCommand
  <2>2. CASE s.state \notin {"MAIL_FROM_SET", "RCPT_SET"} \/ cmd.arg \notin Users
    <3>1. new = s /\ answer.reply = "5xx" /\ told = transaction
      BY <1>1, <1>2, <2>1, <2>2 DEF HandleRcpt, Answer, AfterReply
    <3> QED
      BY <1>1, <1>2, <3>1
  <2>3. CASE s.state \in {"MAIL_FROM_SET", "RCPT_SET"} /\ cmd.arg \in Users
    <3>1. PICK rcpts : rcpts = Append(s.rcpt_to, cmd.arg)
      OBVIOUS
    <3>2. rcpts \in Seq(Users) /\ rcpts # <<>>
      BY <1>3, <2>3, <3>1
    <3>3. new = [s EXCEPT !.rcpt_to = rcpts, !.state = "RCPT_SET"] /\ answer.reply = "250"
      BY <1>1, <2>1, <2>3, <3>1 DEF HandleRcpt, Answer, SessionRecord
    <3>4. transaction = [from |-> s.mail_from, rcpts |-> s.rcpt_to] /\ s.mail_from \in Users
      BY <2>3 DEF Agreed
    <3>5. told = [from |-> s.mail_from, rcpts |-> rcpts]
      BY <1>2, <1>6, <3>1, <3>3, <3>4 DEF AfterReply, Understood
    <3>6. new \in SessionRecord /\ told \in Transaction
      BY <1>3, <3>2, <3>3, <3>4, <3>5 DEF SessionRecord, States, Transaction
    <3>7. /\ new.state = "RCPT_SET" /\ new.mail_from = s.mail_from /\ new.rcpt_to = rcpts
          /\ ~new.in_data_mode
      BY <3>3 DEF SessionRecord
    <3> QED
      BY <1>1, <1>2, <3>2, <3>3, <3>4, <3>5, <3>6, <3>7 DEF Agreed
  <2> QED
    BY <2>2, <2>3
<1>7. CASE cmd.verb = "DATA"
  <2>1. answer = HandleDataStart(s)
    BY <1>7 DEF HandleCommand
  <2>2. CASE s.state # "RCPT_SET"
    <3>1. new = [s EXCEPT !.in_data_mode = FALSE] /\ answer.reply = "5xx" /\ told = transaction
      BY <1>1, <1>2, <2>1, <2>2 DEF HandleDataStart, Answer, AfterReply
    <3>2. /\ new \in SessionRecord
          /\ ~new.in_data_mode /\ new.state = s.state
          /\ new.mail_from = s.mail_from /\ new.rcpt_to = s.rcpt_to
      BY <3>1 DEF SessionRecord
    <3> QED
      BY <1>1, <1>2, <3>1, <3>2 DEF Agreed
  <2>3. CASE s.state = "RCPT_SET"
    <3>1. new = [s EXCEPT !.in_data_mode = TRUE] /\ answer.reply = "354"
      BY <1>1, <2>1, <2>3 DEF HandleDataStart, Answer
    <3>2. new \in SessionRecord
      BY <3>1 DEF SessionRecord
    <3> QED
      BY <1>1, <2>3, <3>1, <3>2
  <2> QED
    BY <2>2, <2>3
<1>8. CASE cmd.verb = "RSET"
  <2>1. PICK state : state = IF s.state = "INIT" THEN "INIT" ELSE "GREETED"
    OBVIOUS
  <2>2. new = [s EXCEPT !.mail_from = NoUser, !.rcpt_to = <<>>, !.state = state] /\ answer.reply = "250"
    BY <1>1, <1>8, <2>1 DEF HandleCommand, HandleRset, Answer, SessionRecord
  <2>3. told = [from |-> NoUser, rcpts |-> <<>>]
    BY <1>2, <1>8, <2>2 DEF AfterReply, Understood, NoTransaction
  <2>4. new \in SessionRecord /\ told \in Transaction
    BY <1>3, <2>1, <2>2, <2>3 DEF SessionRecord, States, Transaction
  <2>5. new.state \in {"INIT", "GREETED"} /\ ~new.in_data_mode
    BY <2>1, <2>2 DEF SessionRecord
  <2> QED
    BY <1>1, <1>2, <2>2, <2>4, <2>5 DEF Agreed
<1>9. CASE cmd.verb = "QUIT"
  <2>1. new = [s EXCEPT !.state = "QUIT"] /\ answer.reply = "221"
    BY <1>1, <1>9 DEF HandleCommand, HandleQuit, Answer
  <2>2. new \in SessionRecord /\ new.state = "QUIT"
    BY <2>1 DEF SessionRecord, States
  <2> QED
    BY <1>1, <2>1, <2>2
<1>10. CASE cmd.verb = "OTHER"
  <2>1. new = s /\ answer.reply = "250"
    BY <1>1, <1>10 DEF HandleCommand, Answer
  <2>2. told = transaction
    BY <1>2, <1>10, <2>1 DEF AfterReply, Understood
  <2> QED
    BY <1>1, <1>2, <2>1, <2>2
<1>11. cmd.verb \in {"HELO", "MAIL", "RCPT", "DATA", "RSET", "QUIT", "OTHER"}
  BY DEF Command
<1> QED
  BY <1>4, <1>5, <1>6, <1>7, <1>8, <1>9, <1>10, <1>11

(***************************************************************************)
(* Every step keeps the invariant.                                         *)
(***************************************************************************)

\* A connection that a step leaves alone is as it was.
LEMMA LeftAlone ==
    ASSUME NEW d \in Conns, ConnOK(d),
           up'[d] = up[d], session'[d] = session[d], buffer'[d] = buffer[d],
           client'[d] = client[d], busy' = d <=> busy = d
    PROVE  ConnOK(d)'
BY DEF ConnOK, Collecting, Sending

\* Connections that end are like new, and the others are left alone.
LEMMA EndsEnd ==
    ASSUME Shape, NEW conns \in SUBSET Conns, Ends(conns)
    PROVE  /\ up' \in [Conns -> {"up", "half", "closed"}]
           /\ session' \in [Conns -> SessionRecord]
           /\ buffer' \in [Conns -> Seq(Text \union Command)]
           /\ client' \in [Conns -> ClientRecord]
           /\ \A c \in conns : /\ up'[c] = "closed" /\ session'[c] = NewSession
                                /\ buffer'[c] = <<>> /\ client'[c] = NewClient
           /\ \A c \in Conns \ conns :
                /\ up'[c] = up[c] /\ session'[c] = session[c]
                /\ buffer'[c] = buffer[c] /\ client'[c] = client[c]
<1>1. <<>> \in Seq(Text \union Command)
  OBVIOUS
<1>2. up' \in [Conns -> {"up", "half", "closed"}] /\ session' \in [Conns -> SessionRecord]
  BY NewType DEF Shape, Ends
<1>3. buffer' \in [Conns -> Seq(Text \union Command)] /\ client' \in [Conns -> ClientRecord]
  BY <1>1, NewType DEF Shape, Ends
<1> QED
  BY <1>2, <1>3 DEF Ends

\* A step after which every sending client is one that was already sending.
LEMMA FewerSenders ==
    ASSUME OneSender,
           \A c \in Conns : client'[c].message \in {client[c].message, NoMessage}
    PROVE  OneSender'
BY DEF OneSender, Sending

\* What is stored stays as whole as it was.
LEMMA StoredSame ==
    ASSUME WholeUnlessCut, stored' = stored, cut => cut' PROVE WholeUnlessCut'
<1> SUFFICES ASSUME NEW copy \in BagToSet(stored)
             PROVE  Whole(copy.raw) \/ (cut' /\ Truncated(copy.raw))
  BY DEF WholeUnlessCut, Whole, Truncated, Body
<1> QED
  BY DEF WholeUnlessCut

LEMMA ConnectKeeps ==
    ASSUME SmtpInv, NEW c \in Conns, Connect(c) PROVE SmtpInv'
<1> USE DEF SmtpInv
<1>1. /\ up'[c] = "up" /\ up[c] = "closed"
      /\ \A d \in Conns \ {c} : up'[d] = up[d]
      /\ UNCHANGED <<session, buffer, client, busy, raw, sent, stored, acked, asked, sends, cut>>
  BY DEF Connect, Shape, serverVars, history
<1>2. Shape'
  BY <1>1 DEF Shape, Connect
<1>3. ConnOK(c)'
  <2>1. session[c] = NewSession /\ buffer[c] = <<>> /\ client[c] = NewClient /\ busy # c
    BY <1>1 DEF ConnOK
  <2>2. session[c].state = "INIT" /\ ~session[c].in_data_mode /\ client[c].number = 0 /\ ~Sending(c)
    BY <2>1 DEF NewSession, NewClient, Sending
  <2> QED
    BY <1>1, <2>1, <2>2 DEF ConnOK, Collecting, Agreed, Sending
<1>4. \A d \in Conns \ {c} : ConnOK(d)'
  BY <1>1, LeftAlone
<1>5. DeliveryOK'
  <2>1. busy # c
    BY <1>1 DEF ConnOK
  <2>2. busy # NoConn => busy \in Conns \ {c}
    BY <2>1 DEF Shape
  <2> QED
    BY <1>1, <2>2 DEF DeliveryOK, Sending, Whole, Truncated, Body
<1>6. OneSender' /\ WholeUnlessCut'
  BY <1>1, FewerSenders, StoredSame
<1> QED
  BY <1>2, <1>3, <1>4, <1>5, <1>6

\* A connection that ends while no message of its own is being delivered.
LEMMA EndingKeeps ==
    ASSUME SmtpInv, NEW c \in Conns, busy # c, Ends({c}),
           UNCHANGED <<busy, raw, sent, stored, acked, asked, sends, cut>>
    PROVE  SmtpInv'
<1> USE DEF SmtpInv
<1>1. Shape'
  BY EndsEnd DEF Shape
<1>2. \A d \in Conns : ConnOK(d)'
  <2>1. ConnOK(c)'
    BY EndsEnd DEF ConnOK
  <2>2. \A d \in Conns \ {c} : ConnOK(d)'
    BY EndsEnd, LeftAlone
  <2> QED
    BY <2>1, <2>2
<1>3. DeliveryOK'
  <2>1. busy # NoConn => busy \in Conns \ {c}
    BY DEF Shape
  <2> QED
    BY <2>1, EndsEnd DEF DeliveryOK, Sending, Whole, Truncated, Body
<1>4. OneSender' /\ WholeUnlessCut'
  <2>1. \A d \in Conns : client'[d].message \in {client[d].message, NoMessage}
    BY EndsEnd DEF NewClient
  <2> QED
    BY <2>1, FewerSenders, StoredSame
<1> QED
  BY <1>1, <1>2, <1>3, <1>4

\* What the reply tells the client.
LEMMA ReadsReply ==
    ASSUME Shape, OneSender, NEW c \in Conns, ~Sending(c), NEW cmd, NEW code, Reads(c, cmd, code),
           code # "354" => AfterReply(client[c].transaction, cmd, code) \in Transaction
    PROVE  /\ client' \in [Conns -> ClientRecord] /\ asked' \in [Messages \X Users -> Nat]
           /\ sends' \in Nat
           /\ \A d \in Conns \ {c} : client'[d] = client[d]
           /\ client'[c].number = client[c].number
           /\ code # "354" => /\ client'[c].message = NoMessage
                              /\ client'[c].transaction = AfterReply(client[c].transaction, cmd, code)
           /\ code = "354" => /\ client'[c].message \in Messages
                              /\ client'[c].transaction = client[c].transaction
           /\ OneSender'
<1> DEFINE k == [client[c] EXCEPT !.waits = None]
<1>1. /\ k \in ClientRecord
      /\ k.transaction = client[c].transaction /\ k.message = NoMessage /\ k.number = client[c].number
  BY DEF Shape, ClientRecord, Sending
<1>2. CASE code = "354"
  <2>1. PICK m \in Messages :
            /\ \A d \in Conns : client[d].message # m
            /\ client' = [client EXCEPT ![c] = [k EXCEPT !.message = m]]
            /\ asked' = [mu \in Messages \X Users |->
                  IF mu[1] # m THEN asked[mu]
                  ELSE asked[mu] + Count(k.transaction.rcpts, mu[2])]
    BY <1>2, Zenon DEF Reads
  <2>2. sends' \in Nat
    <3>1. sends' = sends + 1
      BY <1>2, Zenon DEF Reads
    <3> QED
      BY <3>1 DEF Shape
  <2>3. PICK new : new = [k EXCEPT !.message = m]
    OBVIOUS
  <2>4. /\ new \in ClientRecord /\ new.message = m
        /\ new.transaction = client[c].transaction /\ new.number = client[c].number
    BY <1>1, <2>3 DEF ClientRecord
  <2>5. client' = [client EXCEPT ![c] = new]
    BY <2>1, <2>3
  <2>6. client' \in [Conns -> ClientRecord] /\ client'[c] = new
        /\ \A d \in Conns \ {c} : client'[d] = client[d]
    BY <2>4, <2>5 DEF Shape
  <2>7. \A u \in Users : Count(k.transaction.rcpts, u) \in Nat
    BY <1>1, CountAll DEF ClientRecord, Transaction
  <2>8. asked' \in [Messages \X Users -> Nat]
    BY <2>1, <2>7 DEF Shape
  <2>9. OneSender'
    BY <2>1, <2>4, <2>6 DEF OneSender, Sending
  <2> QED
    BY <1>2, <2>2, <2>4, <2>6, <2>8, <2>9
<1>3. CASE code # "354"
  <2>1. PICK new : new = IF code = "5xx" THEN k ELSE [k EXCEPT !.transaction = Understood(@, cmd)]
    OBVIOUS
  <2>2. client' = [client EXCEPT ![c] = new] /\ UNCHANGED <<asked, sends>>
    BY <1>3, <2>1 DEF Reads
  <2>3. /\ new \in ClientRecord /\ new.message = NoMessage
        /\ new.transaction = AfterReply(client[c].transaction, cmd, code)
        /\ new.number = client[c].number
    BY <1>1, <1>3, <2>1 DEF ClientRecord, AfterReply
  <2>4. client' \in [Conns -> ClientRecord] /\ client'[c] = new
        /\ \A d \in Conns \ {c} : client'[d] = client[d]
    BY <2>2, <2>3 DEF Shape
  <2>5. OneSender'
    BY <2>3, <2>4, FewerSenders
  <2> QED
    BY <1>3, <2>2, <2>3, <2>4, <2>5 DEF Shape
<1> QED
  BY <1>2, <1>3

\* After 354 the recipients of the transaction are asked for their message.
LEMMA ReadsAsked ==
    ASSUME Shape, NEW c \in Conns, NEW cmd, Reads(c, cmd, "354")
    PROVE  \E m \in Messages : \A n \in Messages, u \in Users :
              /\ client'[c].message = m
              /\ asked'[<<n, u>>] = IF n # m THEN asked[<<n, u>>]
                                   ELSE asked[<<n, u>>] + Count(client[c].transaction.rcpts, u)
<1> DEFINE k == [client[c] EXCEPT !.waits = None]
<1>1. PICK m \in Messages :
          /\ client' = [client EXCEPT ![c] = [k EXCEPT !.message = m]]
          /\ asked' = [mu \in Messages \X Users |->
                IF mu[1] # m THEN asked[mu]
                ELSE asked[mu] + Count(k.transaction.rcpts, mu[2])]
  BY Zenon DEF Reads
<1>2. k.transaction = client[c].transaction /\ client'[c].message = m
  BY <1>1 DEF Shape, ClientRecord
<1>3. \A n \in Messages, u \in Users : asked'[<<n, u>>] =
          IF n # m THEN asked[<<n, u>>] ELSE asked[<<n, u>>] + Count(client[c].transaction.rcpts, u)
  BY <1>1, <1>2
<1> QED
  BY <1>2, <1>3

LEMMA ReceiveCommandKeeps ==
    ASSUME SmtpInv, NEW c \in Conns, NEW cmd \in Command, ReceiveCommand(c, cmd) PROVE SmtpInv'
<1> USE DEF SmtpInv
<1>1. /\ busy = NoConn /\ busy # c /\ up[c] = "up" /\ ~Sending(c)
      /\ UNCHANGED <<busy, raw, sent, stored, acked, cut>>
  BY SmtpAssumption DEF ReceiveCommand, Readable
<1>2. Agreed(session[c], client[c].transaction) /\ Collecting(c) /\ ~session[c].in_data_mode
  BY <1>1 DEF ConnOK, Collecting
<1>3. session[c] \in SessionRecord /\ client[c].transaction \in Transaction
  BY DEF Shape, ClientRecord
<1>4. PICK answer : answer = HandleCommand(session[c], cmd)
  OBVIOUS
<1>5. /\ answer.session \in SessionRecord
      /\ answer.reply = "354" => /\ session[c].state = "RCPT_SET"
                                 /\ answer.session = [session[c] EXCEPT !.in_data_mode = TRUE]
      /\ answer.session.state # "QUIT" /\ answer.reply # "354" =>
            /\ ~answer.session.in_data_mode
            /\ AfterReply(client[c].transaction, cmd, answer.reply) \in Transaction
            /\ Agreed(answer.session, AfterReply(client[c].transaction, cmd, answer.reply))
  BY <1>2, <1>3, <1>4, CommandOutcome
<1>6. CASE answer.session.state = "QUIT"
  <2>1. Ends({c}) /\ UNCHANGED <<asked, sends>>
    BY <1>2, <1>4, <1>6 DEF ReceiveCommand
  <2> QED
    BY <1>1, <2>1, EndingKeeps
<1>7. CASE answer.session.state # "QUIT"
  <2>1. /\ session' = [session EXCEPT ![c] = answer.session]
        /\ Reads(c, cmd, answer.reply) /\ UNCHANGED <<up, buffer>>
    BY <1>2, <1>4, <1>7 DEF ReceiveCommand
  <2>2. /\ session' \in [Conns -> SessionRecord] /\ session'[c] = answer.session
        /\ \A d \in Conns \ {c} : session'[d] = session[d]
    BY <1>5, <2>1 DEF Shape
  <2>3. /\ client' \in [Conns -> ClientRecord] /\ asked' \in [Messages \X Users -> Nat]
        /\ sends' \in Nat
        /\ \A d \in Conns \ {c} : client'[d] = client[d]
        /\ client'[c].number = client[c].number
        /\ answer.reply # "354" =>
              /\ client'[c].message = NoMessage
              /\ client'[c].transaction = AfterReply(client[c].transaction, cmd, answer.reply)
        /\ answer.reply = "354" => /\ client'[c].message \in Messages
                                   /\ client'[c].transaction = client[c].transaction
        /\ OneSender'
    <3>1. /\ Shape /\ OneSender
          /\ answer.reply # "354" => AfterReply(client[c].transaction, cmd, answer.reply) \in Transaction
      BY <1>5, <1>7
    <3> QED
      BY <1>1, <2>1, <3>1, ReadsReply
  <2>4. Shape'
    BY <1>1, <2>1, <2>2, <2>3 DEF Shape
  <2>5. client[c].number = 0 /\ buffer[c] = <<>>
    BY <1>1, <1>2 DEF Collecting
  <2>6. ConnOK(c)'
    <3>1. CASE answer.reply = "354"
      <4>1. PICK m \in Messages : client'[c].message = m
        BY <2>3, <3>1
      <4>2. Lines[m] \in Nat /\ m # NoMessage
        BY SmtpAssumption
      <4>3. Begun(m, 0) = <<>>
        BY BegunNext
      <4>4. session'[c].in_data_mode /\ session'[c].state = "RCPT_SET"
        BY <1>3, <1>5, <2>2, <3>1 DEF SessionRecord
      <4>5. Agreed(session[c], client[c].transaction)' 
        BY <1>2, <1>3, <1>5, <2>2, <2>3, <3>1 DEF Agreed, SessionRecord
      <4>6. Collecting(c)'
        BY <2>1, <2>3, <2>5, <4>1, <4>2, <4>3, <4>4 DEF Collecting, Sending
      <4> QED
        BY <1>1, <2>1, <4>5, <4>6 DEF ConnOK
    <3>2. CASE answer.reply # "354"
      <4>1. Collecting(c)'
        BY <1>5, <1>7, <2>1, <2>2, <2>3, <2>5, <3>2 DEF Collecting, Sending
      <4>2. Agreed(session'[c], client'[c].transaction)
        BY <1>5, <1>7, <2>2, <2>3, <3>2
      <4> QED
        BY <1>1, <2>1, <4>1, <4>2 DEF ConnOK
    <3> QED
      BY <3>1, <3>2
  <2>7. \A d \in Conns \ {c} : ConnOK(d)'
    BY <1>1, <2>1, <2>2, <2>3, LeftAlone
  <2>8. DeliveryOK'
    BY <1>1 DEF DeliveryOK
  <2>9. WholeUnlessCut'
    BY <1>1, StoredSame
  <2> QED
    BY <2>3, <2>4, <2>6, <2>7, <2>8, <2>9
<1> QED
  BY <1>6, <1>7

\* The lines a sending client has been read so far.
LEMMA SendingClient ==
    ASSUME SmtpInv, NEW c \in Conns, Readable(c), Sending(c)
    PROVE  /\ busy = NoConn /\ busy # c /\ up[c] = "up"
           /\ client[c].message \in Messages
           /\ session[c].state = "RCPT_SET" /\ session[c].in_data_mode
           /\ session[c].mail_from \in Users /\ session[c].rcpt_to # <<>>
           /\ client[c].transaction = [from |-> session[c].mail_from, rcpts |-> session[c].rcpt_to]
           /\ client[c].number \in Nat /\ client[c].number <= Lines[client[c].message]
           /\ buffer[c] = Begun(client[c].message, client[c].number)
<1>1. busy = NoConn /\ busy # c /\ up[c] = "up"
  BY SmtpAssumption DEF Readable
<1>2. Agreed(session[c], client[c].transaction) /\ Collecting(c)
  BY <1>1 DEF SmtpInv, ConnOK
<1>3. client[c].message \in Messages /\ client[c].number \in Nat
  BY DEF SmtpInv, Shape, ClientRecord, Sending
<1> QED
  BY <1>1, <1>2, <1>3 DEF Agreed, Collecting

LEMMA ReceiveTextKeeps ==
    ASSUME SmtpInv, NEW c \in Conns, ReceiveText(c) PROVE SmtpInv'
<1>1. Readable(c) /\ Sending(c) /\ client[c].number < Lines[client[c].message]
  BY DEF ReceiveText
<1>2. PICK m \in Messages, n \in Nat :
        /\ m = client[c].message /\ n = client[c].number
        /\ buffer[c] = Begun(m, n) /\ n < Lines[m]
        /\ up[c] = "up" /\ busy # c /\ busy = NoConn
  BY <1>1, SendingClient
<1> USE DEF SmtpInv
<1>3. /\ buffer' = [buffer EXCEPT ![c] = Append(buffer[c], [message |-> m, number |-> n + 1])]
      /\ client' = [client EXCEPT ![c] = [client[c] EXCEPT !.number = n + 1]]
      /\ UNCHANGED <<up, session, busy, raw, sent, stored, acked, asked, sends, cut>>
  BY <1>2 DEF ReceiveText, Content, history
<1>4. Append(buffer[c], [message |-> m, number |-> n + 1]) = Begun(m, n + 1)
  BY <1>2, BegunNext
<1>5. Begun(m, n + 1) \in Seq(Text \union Command)
  <2>1. n + 1 \in Nat
    OBVIOUS
  <2>2. Begun(m, n + 1) \in Seq(Text)
    BY <2>1, BegunNext
  <2> QED
    BY <2>2
<1>6. /\ buffer' \in [Conns -> Seq(Text \union Command)]
      /\ buffer'[c] = Begun(m, n + 1)
      /\ \A d \in Conns \ {c} : buffer'[d] = buffer[d]
  BY <1>3, <1>4, <1>5 DEF Shape
<1>7. PICK new : new = [client[c] EXCEPT !.number = n + 1]
  OBVIOUS
<1>8. /\ new \in ClientRecord
      /\ new.message = m /\ new.number = n + 1 /\ new.transaction = client[c].transaction
  <2>1. client[c] \in ClientRecord /\ n + 1 \in Nat
    BY DEF Shape
  <2>2. new \in ClientRecord
    BY <1>7, <2>1 DEF ClientRecord
  <2> QED
    BY <1>2, <1>7, <2>1, <2>2 DEF ClientRecord
<1>9. /\ client' \in [Conns -> ClientRecord] /\ client'[c] = new
      /\ \A d \in Conns \ {c} : client'[d] = client[d]
  BY <1>3, <1>7, <1>8 DEF Shape
<1>10. Shape'
  BY <1>3, <1>6, <1>9 DEF Shape
<1>11. ConnOK(c)'
  <2>1. Lines[m] \in Nat
    BY SmtpAssumption
  <2>2. Agreed(session[c], client[c].transaction) /\ Collecting(c)
    BY <1>2 DEF ConnOK
  <2>3. Collecting(c)'
    BY <1>1, <1>2, <1>3, <1>6, <1>8, <1>9, <2>1, <2>2 DEF Collecting, Sending
  <2> QED
    BY <1>2, <1>3, <1>8, <1>9, <2>2, <2>3 DEF ConnOK
<1>12. \A d \in Conns \ {c} : ConnOK(d)'
  BY <1>3, <1>6, <1>9, LeftAlone
<1>13. OneSender' /\ WholeUnlessCut'
  <2>1. \A d \in Conns : client'[d].message \in {client[d].message, NoMessage}
    BY <1>2, <1>8, <1>9
  <2> QED
    BY <1>3, <2>1, FewerSenders, StoredSame
<1> QED
  BY <1>2, <1>3, <1>10, <1>11, <1>12, <1>13 DEF DeliveryOK

\* The end of the message starts its delivery.
LEMMA FinishDataStarts ==
    ASSUME Shape, NEW c \in Conns, FinishData(c)
    PROVE  /\ busy' = c /\ raw' = buffer[c] /\ sent' = 0 /\ stored' = stored
           /\ buffer' \in [Conns -> Seq(Text \union Command)] /\ buffer'[c] = <<>>
           /\ session' \in [Conns -> SessionRecord]
           /\ session'[c].state = session[c].state /\ ~session'[c].in_data_mode
           /\ session'[c].mail_from = session[c].mail_from /\ session'[c].rcpt_to = session[c].rcpt_to
           /\ \A d \in Conns \ {c} : session'[d] = session[d] /\ buffer'[d] = buffer[d]
<1>1. PICK new : new = [session[c] EXCEPT !.in_data_mode = FALSE]
  OBVIOUS
<1>2. /\ new \in SessionRecord /\ new.state = session[c].state /\ ~new.in_data_mode
      /\ new.mail_from = session[c].mail_from /\ new.rcpt_to = session[c].rcpt_to
  BY <1>1 DEF Shape, SessionRecord
<1>3. session' = [session EXCEPT ![c] = new]
  BY <1>1 DEF FinishData
<1>4. <<>> \in Seq(Text \union Command)
  OBVIOUS
<1> QED
  BY <1>2, <1>3, <1>4 DEF FinishData, Shape

LEMMA ReceiveDotKeeps ==
    ASSUME SmtpInv, NEW c \in Conns, ReceiveDot(c) PROVE SmtpInv'
<1>1. Readable(c) /\ Sending(c) /\ client[c].number = Lines[client[c].message] /\ FinishData(c)
  BY DEF ReceiveDot
<1>2. PICK m \in Messages :
        /\ m = client[c].message /\ buffer[c] = Begun(m, Lines[m])
        /\ up[c] = "up" /\ busy # c /\ busy = NoConn
        /\ session[c].state = "RCPT_SET" /\ session[c].mail_from \in Users /\ session[c].rcpt_to # <<>>
        /\ client[c].transaction = [from |-> session[c].mail_from, rcpts |-> session[c].rcpt_to]
  BY <1>1, SendingClient
<1> USE DEF SmtpInv
<1>3. /\ client' = [client EXCEPT ![c] = [client[c] EXCEPT !.waits = Dot]]
      /\ UNCHANGED <<up, acked, asked, sends, cut>>
  BY DEF ReceiveDot, history
<1>4. PICK new : new = [client[c] EXCEPT !.waits = Dot]
  OBVIOUS
<1>5. new \in ClientRecord /\ new.message = m /\ new.transaction = client[c].transaction
  BY <1>2, <1>4 DEF Shape, ClientRecord
<1>6. /\ client' \in [Conns -> ClientRecord] /\ client'[c] = new
      /\ \A d \in Conns \ {c} : client'[d] = client[d]
  BY <1>3, <1>4, <1>5 DEF Shape
<1>7. /\ busy' = c /\ raw' = buffer[c] /\ sent' = 0 /\ stored' = stored
      /\ buffer' \in [Conns -> Seq(Text \union Command)] /\ buffer'[c] = <<>>
      /\ session' \in [Conns -> SessionRecord]
      /\ session'[c].state = session[c].state /\ ~session'[c].in_data_mode
      /\ session'[c].mail_from = session[c].mail_from /\ session'[c].rcpt_to = session[c].rcpt_to
      /\ \A d \in Conns \ {c} : session'[d] = session[d] /\ buffer'[d] = buffer[d]
  BY <1>1, FinishDataStarts
<1>8. Shape'
  BY <1>3, <1>6, <1>7 DEF Shape
<1>9. ConnOK(c)'
  BY <1>2, <1>3, <1>5, <1>6, <1>7 DEF ConnOK, Agreed
<1>10. \A d \in Conns \ {c} : ConnOK(d)'
  BY <1>2, <1>3, <1>6, <1>7, LeftAlone, SmtpAssumption
<1>11. DeliveryOK'
  <2>1. raw' = Body(m) /\ Whole(raw')
    <3>1. 0 \in Nat
      OBVIOUS
    <3>2. Body(m) = Begun(m, Lines[m])
      BY <3>1, BegunWhole
    <3> QED
      BY <1>2, <1>7, <3>2 DEF Whole
  <2>2. Whole(raw)'
    BY <2>1 DEF Whole, Body
  <2>3. sent' <= Len(session'[c].rcpt_to)
    BY <1>7 DEF SessionRecord
  <2>4. Sending(c)' /\ Body(client[c].message)' = Body(m)
    BY <1>5, <1>6, SmtpAssumption DEF Sending, Body
  <2>5. Body(client'[c].message) = Body(m)
    BY <1>5, <1>6
  <2> QED
    BY <1>2, <1>7, <2>1, <2>2, <2>3, <2>4, <2>5 DEF DeliveryOK, Sending, Body
<1>12. OneSender' /\ WholeUnlessCut'
  <2>1. \A d \in Conns : client'[d].message \in {client[d].message, NoMessage}
    BY <1>2, <1>5, <1>6
  <2> QED
    BY <1>3, <1>7, <2>1, FewerSenders, StoredSame
<1> QED
  BY <1>8, <1>9, <1>10, <1>11, <1>12

LEMMA BreakAfterDotKeeps ==
    ASSUME SmtpInv, NEW c \in Conns, BreakAfterDot(c) PROVE SmtpInv'
<1>1. /\ Readable(c) /\ Sending(c) /\ client[c].number + 1 \in Dotted[client[c].message]
      /\ FinishData(c)
  BY DEF BreakAfterDot
<1>2. PICK m \in Messages, n \in Nat :
        /\ m = client[c].message /\ n = client[c].number
        /\ n <= Lines[m] /\ n + 1 \in Dotted[m] /\ buffer[c] = Begun(m, n)
        /\ up[c] = "up" /\ busy # c /\ busy = NoConn
        /\ session[c].state = "RCPT_SET" /\ session[c].mail_from \in Users /\ session[c].rcpt_to # <<>>
  BY <1>1, SendingClient
<1> USE DEF SmtpInv
<1>3. /\ up' = [up EXCEPT ![c] = "half"] /\ client' = [client EXCEPT ![c] = NewClient]
      /\ cut' = TRUE /\ UNCHANGED <<acked, asked, sends>>
  BY DEF BreakAfterDot
<1>4. /\ client' \in [Conns -> ClientRecord] /\ client'[c] = NewClient
      /\ up' \in [Conns -> {"up", "half", "closed"}] /\ up'[c] = "half"
      /\ \A d \in Conns \ {c} : client'[d] = client[d] /\ up'[d] = up[d]
  BY <1>3, NewType DEF Shape
<1>5. /\ busy' = c /\ raw' = buffer[c] /\ sent' = 0 /\ stored' = stored
      /\ buffer' \in [Conns -> Seq(Text \union Command)] /\ buffer'[c] = <<>>
      /\ session' \in [Conns -> SessionRecord]
      /\ session'[c].state = session[c].state /\ ~session'[c].in_data_mode
      /\ session'[c].mail_from = session[c].mail_from /\ session'[c].rcpt_to = session[c].rcpt_to
      /\ \A d \in Conns \ {c} : session'[d] = session[d] /\ buffer'[d] = buffer[d]
  BY <1>1, FinishDataStarts
<1>6. Shape'
  BY <1>3, <1>4, <1>5 DEF Shape
<1>7. ConnOK(c)'
  BY <1>4, <1>5 DEF ConnOK
<1>8. \A d \in Conns \ {c} : ConnOK(d)'
  BY <1>2, <1>4, <1>5, LeftAlone, SmtpAssumption
<1>9. DeliveryOK'
  <2>1. Truncated(raw')
    <3>1. raw' = SubSeq(Body(m), 1, n)
      BY <1>2, <1>5, BegunWhole
    <3>2. n = (n + 1) - 1
      OBVIOUS
    <3> QED
      BY <1>2, <3>1, <3>2 DEF Truncated
  <2>2. Truncated(raw)'
    BY <2>1 DEF Truncated, Body
  <2>3. sent' <= Len(session'[c].rcpt_to)
    BY <1>5 DEF SessionRecord
  <2> QED
    BY <1>2, <1>3, <1>4, <1>5, <2>2, <2>3 DEF DeliveryOK
<1>10. OneSender' /\ WholeUnlessCut'
  <2>1. \A d \in Conns : client'[d].message \in {client[d].message, NoMessage}
    BY <1>4 DEF NewClient
  <2> QED
    BY <1>3, <1>5, <2>1, FewerSenders, StoredSame
<1> QED
  BY <1>6, <1>7, <1>8, <1>9, <1>10

\* A client that leaves while its message is being delivered.
LEMMA BreakKeeps ==
    ASSUME SmtpInv, NEW c \in Conns, Break(c) PROVE SmtpInv'
<1> USE DEF SmtpInv
<1>1. UNCHANGED <<busy, raw, sent, stored, acked, asked, sends, cut>>
  BY DEF Break, history
<1>2. CASE busy # c
  BY <1>1, <1>2, EndingKeeps DEF Break
<1>3. CASE busy = c
  <2>1. /\ up' = [up EXCEPT ![c] = "half"] /\ client' = [client EXCEPT ![c] = NewClient]
        /\ UNCHANGED <<session, buffer>>
    BY <1>3 DEF Break
  <2>2. /\ client' \in [Conns -> ClientRecord] /\ client'[c] = NewClient
        /\ up' \in [Conns -> {"up", "half", "closed"}] /\ up'[c] = "half"
        /\ \A d \in Conns \ {c} : client'[d] = client[d] /\ up'[d] = up[d]
    BY <2>1, NewType DEF Shape
  <2>3. Shape'
    BY <1>1, <2>1, <2>2 DEF Shape
  <2>4. ConnOK(c)'
    BY <1>1, <1>3, <2>2 DEF ConnOK
  <2>5. \A d \in Conns \ {c} : ConnOK(d)'
    BY <1>1, <2>1, <2>2, LeftAlone
  <2>6. DeliveryOK'
    BY <1>1, <1>3, <2>1, <2>2, SmtpAssumption DEF DeliveryOK, Whole, Truncated, Body
  <2>7. OneSender' /\ WholeUnlessCut'
    <3>1. \A d \in Conns : client'[d].message \in {client[d].message, NoMessage}
      BY <2>2 DEF NewClient
    <3> QED
      BY <1>1, <3>1, FewerSenders, StoredSame
  <2> QED
    BY <2>3, <2>4, <2>5, <2>6, <2>7
<1> QED
  BY <1>2, <1>3

\* A copy of the message that is being delivered.
LEMMA CopyStored ==
    ASSUME Shape, WholeUnlessCut, DeliveryOK, busy # NoConn,
           NEW user \in Users, NEW box \in {"INBOX", "Sent"}, stored' = With(user, box), cut' = cut
    PROVE  /\ IsABag(stored')
           /\ \A copy \in BagToSet(stored') : copy.user \in Users /\ copy.box \in {"INBOX", "Sent"}
           /\ WholeUnlessCut'
<1>1. PICK new : new = [user |-> user, box |-> box, raw |-> raw]
  OBVIOUS
<1>2. stored' = stored (+) SetToBag({new}) /\ IsABag(stored)
  BY <1>1 DEF With, Shape
<1>3. IsABag(stored') /\ BagToSet(stored') = BagToSet(stored) \union {new}
  <2>1. PICK more : more = stored (+) SetToBag({new})
    OBVIOUS
  <2>2. IsABag(more) /\ BagToSet(more) = BagToSet(stored) \union {new}
    BY <1>2, <2>1, OneMore, Zenon
  <2> QED
    BY <1>2, <2>1, <2>2
<1>4. new.user \in Users /\ new.box \in {"INBOX", "Sent"} /\ (Whole(new.raw) \/ (cut /\ Truncated(new.raw)))
  BY <1>1 DEF DeliveryOK
<1>5. \A copy \in BagToSet(stored') : copy.user \in Users /\ copy.box \in {"INBOX", "Sent"}
  BY <1>3, <1>4 DEF Shape
<1>6. \A copy \in BagToSet(stored') : Whole(copy.raw) \/ (cut /\ Truncated(copy.raw))
  BY <1>3, <1>4 DEF WholeUnlessCut
<1> QED
  BY <1>3, <1>5, <1>6 DEF WholeUnlessCut, Whole, Truncated, Body

\* The recipient whose turn it is.
LEMMA NextRecipient ==
    ASSUME SmtpInv, busy # NoConn, sent # Len(session[busy].rcpt_to)
    PROVE  /\ busy \in Conns /\ sent < Len(session[busy].rcpt_to)
           /\ session[busy].rcpt_to[sent + 1] \in Users
<1>1. busy \in Conns /\ session[busy].rcpt_to \in Seq(Users) /\ sent \in Nat
  BY DEF SmtpInv, Shape, SessionRecord
<1>2. PICK rcpts \in Seq(Users) : rcpts = session[busy].rcpt_to
  BY <1>1
<1>3. sent < Len(rcpts)
  BY <1>1, <1>2 DEF SmtpInv, DeliveryOK
<1>4. rcpts[sent + 1] \in Users
  BY <1>1, <1>3
<1> QED
  BY <1>1, <1>2, <1>3, <1>4

LEMMA DeliverNextKeeps ==
    ASSUME SmtpInv, DeliverNext PROVE SmtpInv'
<1> USE DEF SmtpInv
<1>1. /\ busy # NoConn /\ sent < Len(session[busy].rcpt_to) /\ sent' = sent + 1
      /\ stored' = With(session[busy].rcpt_to[sent + 1], "INBOX")
      /\ UNCHANGED <<up, client, session, buffer, busy, raw, acked, asked, sends, cut>>
  BY DEF DeliverNext, history
<1>2. PICK user \in Users : user = session[busy].rcpt_to[sent + 1]
  <2>1. sent # Len(session[busy].rcpt_to)
    BY <1>1 DEF Shape, SessionRecord
  <2> QED
    BY <1>1, <2>1, NextRecipient
<1>3. stored' = With(user, "INBOX")
  BY <1>1, <1>2
<1>4. /\ IsABag(stored') /\ WholeUnlessCut'
      /\ \A copy \in BagToSet(stored') : copy.user \in Users /\ copy.box \in {"INBOX", "Sent"}
  BY <1>1, <1>3, CopyStored
<1>5. Shape'
  BY <1>1, <1>4 DEF Shape
<1>6. \A d \in Conns : ConnOK(d)'
  BY <1>1, LeftAlone
<1>7. DeliveryOK'
  <2>1. busy \in Conns /\ session[busy].rcpt_to \in Seq(Users) /\ sent \in Nat
    BY <1>1 DEF Shape, SessionRecord
  <2>2. sent' <= Len(session'[busy'].rcpt_to)
    BY <1>1, <2>1
  <2> QED
    BY <1>1, <2>1, <2>2 DEF DeliveryOK, Sending, Whole, Truncated, Body
<1>8. OneSender'
  BY <1>1 DEF OneSender, Sending
<1> QED
  BY <1>4, <1>5, <1>6, <1>7, <1>8

LEMMA FinishKeeps ==
    ASSUME SmtpInv, Finish PROVE SmtpInv'
<1> USE DEF SmtpInv
<1>1. /\ busy # NoConn /\ busy \in Conns /\ session[busy].mail_from \in Users
      /\ stored' = With(session[busy].mail_from, "Sent")
      /\ Completed(busy) /\ busy' = NoConn /\ raw' = <<>> /\ sent' = 0
      /\ UNCHANGED <<asked, sends, cut>>
  BY DEF Finish, NotBusy, DeliveryOK, Shape
<1>2. /\ IsABag(stored') /\ WholeUnlessCut'
      /\ \A copy \in BagToSet(stored') : copy.user \in Users /\ copy.box \in {"INBOX", "Sent"}
  BY <1>1, CopyStored
<1>3. PICK c \in Conns : c = busy
  BY <1>1
<1>4. DeliveryOK'
  BY <1>1 DEF DeliveryOK
<1>5. CASE up[c] = "up"
  <2>1. PICK new : new = [session[c] EXCEPT !.mail_from = NoUser, !.rcpt_to = <<>>, !.state = "GREETED"]
    OBVIOUS
  <2>2. new \in SessionRecord /\ new.state = "GREETED" /\ ~new.in_data_mode
    <3>1. <<>> \in Seq(Users) /\ "GREETED" \in States /\ session[c] \in SessionRecord
      BY DEF States, Shape
    <3>2. ~session[c].in_data_mode
      BY <1>1, <1>3 DEF DeliveryOK
    <3> QED
      BY <2>1, <3>1, <3>2 DEF SessionRecord
  <2>3. session' = [session EXCEPT ![c] = new]
    <3>1. session' = [session EXCEPT ![c].mail_from = NoUser, ![c].rcpt_to = <<>>, ![c].state = "GREETED"]
      BY <1>1, <1>3, <1>5 DEF Completed
    <3> QED
      BY <2>1, <3>1 DEF Shape
  <2>4. /\ session' \in [Conns -> SessionRecord] /\ session'[c] = new
        /\ \A d \in Conns \ {c} : session'[d] = session[d]
    BY <2>2, <2>3 DEF Shape
  <2>5. /\ acked' = acked \union {[message |-> client[c].message, transaction |-> client[c].transaction]}
        /\ client' = [client EXCEPT ![c] = NewClient] /\ UNCHANGED <<up, buffer>>
    BY <1>1, <1>3, <1>5 DEF Completed
  <2>6. /\ client' \in [Conns -> ClientRecord] /\ client'[c] = NewClient
        /\ \A d \in Conns \ {c} : client'[d] = client[d]
    BY <2>5, NewType DEF Shape
  <2>7. \A a \in acked' : a.message \in Messages /\ a.transaction \in Transaction
    <3>1. client[c].message \in Messages /\ client[c].transaction \in Transaction
      BY <1>1, <1>3, <1>5 DEF Shape, ClientRecord, DeliveryOK, Sending
    <3> QED
      BY <2>5, <3>1 DEF Shape
  <2>8. raw' \in Seq(Text \union Command)
    BY <1>1
  <2>9. Shape'
    BY <1>1, <1>2, <2>4, <2>5, <2>6, <2>7, <2>8 DEF Shape
  <2>10. ConnOK(c)'
    <3>1. buffer[c] = <<>>
      BY <1>1, <1>3 DEF DeliveryOK
    <3>2. client'[c].number = 0 /\ client'[c].message = NoMessage
      BY <2>6 DEF NewClient
    <3> QED
      BY <1>5, <2>2, <2>4, <2>5, <3>1, <3>2 DEF ConnOK, Collecting, Sending, Agreed
  <2>11. \A d \in Conns \ {c} : ConnOK(d)'
    BY <1>1, <1>3, <2>4, <2>5, <2>6, LeftAlone, SmtpAssumption
  <2>12. OneSender'
    <3>1. \A d \in Conns : client'[d].message \in {client[d].message, NoMessage}
      BY <2>6 DEF NewClient
    <3> QED
      BY <3>1, FewerSenders
  <2> QED
    BY <1>2, <1>4, <2>9, <2>10, <2>11, <2>12
<1>6. CASE up[c] # "up"
  <2>1. Ends({c}) /\ UNCHANGED acked
    BY <1>1, <1>3, <1>6 DEF Completed
  <2>2. raw' \in Seq(Text \union Command)
    BY <1>1
  <2>3. Shape'
    BY <1>1, <1>2, <2>1, <2>2, EndsEnd DEF Shape
  <2>4. ConnOK(c)'
    BY <1>1, <2>1, EndsEnd, SmtpAssumption DEF ConnOK
  <2>5. \A d \in Conns \ {c} : ConnOK(d)'
    BY <1>1, <1>3, <2>1, EndsEnd, LeftAlone, SmtpAssumption
  <2>6. OneSender'
    <3>1. \A d \in Conns : client'[d].message \in {client[d].message, NoMessage}
      BY <2>1, EndsEnd DEF NewClient
    <3> QED
      BY <3>1, FewerSenders
  <2> QED
    BY <1>2, <1>4, <2>3, <2>4, <2>5, <2>6
<1> QED
  BY <1>5, <1>6

LEMMA DeliverFailsKeeps ==
    ASSUME SmtpInv, DeliverFails PROVE SmtpInv'
<1> USE DEF SmtpInv
<1>1. /\ busy # NoConn /\ busy \in Conns /\ session[busy].mail_from \in Users
      /\ Ends({busy}) /\ busy' = NoConn /\ raw' = <<>> /\ sent' = 0
      /\ UNCHANGED <<acked, asked, sends, cut>>
  BY DEF DeliverFails, NotBusy, DeliveryOK, Shape, history
<1>2. PICK c \in Conns : c = busy
  BY <1>1
<1>3. /\ IsABag(stored') /\ WholeUnlessCut'
      /\ \A copy \in BagToSet(stored') : copy.user \in Users /\ copy.box \in {"INBOX", "Sent"}
  <2>1. CASE stored' = stored
    BY <1>1, <2>1, StoredSame DEF Shape
  <2>2. CASE sent < Len(session[busy].rcpt_to) /\ stored' = With(session[busy].rcpt_to[sent + 1], "INBOX")
    <3>1. sent # Len(session[busy].rcpt_to)
      BY <1>1, <2>2 DEF Shape, SessionRecord
    <3>2. session[busy].rcpt_to[sent + 1] \in Users
      BY <1>1, <3>1, NextRecipient
    <3> QED
      BY <1>1, <2>2, <3>2, CopyStored
  <2>3. CASE stored' = With(session[busy].mail_from, "Sent")
    BY <1>1, <2>3, CopyStored
  <2> QED
    BY <2>1, <2>2, <2>3 DEF DeliverFails
<1>4. raw' \in Seq(Text \union Command)
  BY <1>1
<1>5. Shape'
  BY <1>1, <1>3, <1>4, EndsEnd DEF Shape
<1>6. ConnOK(c)'
  BY <1>1, <1>2, EndsEnd, SmtpAssumption DEF ConnOK
<1>7. \A d \in Conns \ {c} : ConnOK(d)'
  BY <1>1, <1>2, EndsEnd, LeftAlone, SmtpAssumption
<1>8. OneSender'
  <2>1. \A d \in Conns : client'[d].message \in {client[d].message, NoMessage}
    BY <1>1, EndsEnd DEF NewClient
  <2> QED
    BY <2>1, FewerSenders
<1> QED
  BY <1>1, <1>3, <1>5, <1>6, <1>7, <1>8 DEF DeliveryOK

LEMMA CrashKeeps ==
    ASSUME SmtpInv, Crash PROVE SmtpInv'
<1> USE DEF SmtpInv
<1>1. /\ Ends(Conns) /\ busy' = NoConn /\ raw' = <<>> /\ sent' = 0
      /\ UNCHANGED <<stored, acked, asked, sends, cut>>
  BY DEF Crash, NotBusy, history
<1>2. raw' \in Seq(Text \union Command)
  BY <1>1
<1>3. Shape'
  BY <1>1, <1>2, EndsEnd DEF Shape
<1>4. \A c \in Conns : ConnOK(c)'
  BY <1>1, EndsEnd, SmtpAssumption DEF ConnOK
<1>5. OneSender'
  <2>1. \A d \in Conns : client'[d].message \in {client[d].message, NoMessage}
    BY <1>1, EndsEnd DEF NewClient
  <2> QED
    BY <2>1, FewerSenders
<1>6. WholeUnlessCut'
  BY <1>1, StoredSame
<1> QED
  BY <1>1, <1>3, <1>4, <1>5, <1>6 DEF DeliveryOK

LEMMA InitSmtpInv == Init => SmtpInv
<1> SUFFICES ASSUME Init PROVE SmtpInv
  OBVIOUS
<1> USE DEF Init
<1>1. IsABag(stored) /\ BagToSet(stored) = {}
  <2>1. DOMAIN EmptyBag = {} /\ IsABag(EmptyBag)
    BY DEF EmptyBag, SetToBag, IsABag
  <2> QED
    BY <2>1 DEF BagToSet
<1>2. <<>> \in Seq(Text \union Command)
  OBVIOUS
<1>3. Shape
  BY <1>1, <1>2, NewType DEF Shape
<1>4. \A c \in Conns : ConnOK(c)
  BY SmtpAssumption DEF ConnOK
<1>5. OneSender
  BY DEF OneSender, Sending, NewClient
<1> QED
  BY <1>1, <1>3, <1>4, <1>5 DEF SmtpInv, DeliveryOK, WholeUnlessCut

LEMMA NextSmtpInv == SmtpInv /\ [Next]_vars => SmtpInv'
<1> SUFFICES ASSUME SmtpInv, [Next]_vars PROVE SmtpInv'
  OBVIOUS
<1>1. ASSUME NEW c \in Conns, Connect(c) PROVE SmtpInv'
  BY <1>1, ConnectKeeps
<1>2. ASSUME NEW c \in Conns, NEW cmd \in Command, ReceiveCommand(c, cmd) PROVE SmtpInv'
  BY <1>2, ReceiveCommandKeeps
<1>3. ASSUME NEW c \in Conns, ReceiveText(c) PROVE SmtpInv'
  BY <1>3, ReceiveTextKeeps
<1>4. ASSUME NEW c \in Conns, ReceiveDot(c) PROVE SmtpInv'
  BY <1>4, ReceiveDotKeeps
<1>5. ASSUME NEW c \in Conns, Break(c) PROVE SmtpInv'
  BY <1>5, BreakKeeps
<1>6. ASSUME NEW c \in Conns, BreakAfterDot(c) PROVE SmtpInv'
  BY <1>6, BreakAfterDotKeeps
<1>7. CASE DeliverNext
  BY <1>7, DeliverNextKeeps
<1>8. CASE Finish
  BY <1>8, FinishKeeps
<1>9. CASE DeliverFails
  BY <1>9, DeliverFailsKeeps
<1>10. CASE Crash
  BY <1>10, CrashKeeps
<1>11. CASE UNCHANGED vars
  BY <1>11 DEF vars, serverVars, history, SmtpInv, Shape, ConnOK, Collecting, Sending, DeliveryOK,
               OneSender, WholeUnlessCut, Whole, Truncated, Body
<1> QED
  BY <1>1, <1>2, <1>3, <1>4, <1>5, <1>6, <1>7, <1>8, <1>9, <1>10, <1>11 DEF Next, Deliver

LEMMA SmtpInvariant == Spec => []SmtpInv
BY InitSmtpInv, NextSmtpInv, PTL DEF Spec

(***************************************************************************)
(* Copies: 250 after the dot.                                              *)
(***************************************************************************)

\* The recipients a delivery has reached have their copies.
Made ==
    busy # NoConn /\ up[busy] = "up" =>
        \A u \in Users : CountTo(session[busy].rcpt_to, sent, u) <= Copies(client[busy].message, u, "INBOX")

AckedInv == SmtpInv /\ Made /\ AckedIsStored

LEMMA CopiesType ==
    ASSUME Shape, NEW m, NEW user, NEW box PROVE Copies(m, user, box) \in Nat
<1>1. PICK copy : copy = [user |-> user, box |-> box, raw |-> Body(m)]
  OBVIOUS
<1>2. Times(copy, stored) \in Nat
  BY TimesType DEF Shape
<1> QED
  BY <1>1, <1>2 DEF Copies

\* A new copy counts for the message it is of, in the mailbox it is in.
LEMMA CopyCounted ==
    ASSUME Shape, NEW user, NEW box, stored' = With(user, box), NEW m, NEW u, NEW mb
    PROVE  Copies(m, u, mb)' = Copies(m, u, mb) + (IF u = user /\ mb = box /\ Body(m) = raw THEN 1 ELSE 0)
<1>1. PICK new : new = [user |-> user, box |-> box, raw |-> raw]
  OBVIOUS
<1>2. PICK copy : copy = [user |-> u, box |-> mb, raw |-> Body(m)]
  OBVIOUS
<1>3. PICK more : more = stored (+) SetToBag({new})
  OBVIOUS
<1>4. Times(copy, more) = Times(copy, stored) + (IF copy = new THEN 1 ELSE 0)
  BY <1>3, OneMore, Zenon DEF Shape
<1>5. copy = new <=> u = user /\ mb = box /\ Body(m) = raw
  BY <1>1, <1>2
<1>6. stored' = more
  BY <1>1, <1>3 DEF With
<1>7. Copies(m, u, mb) = Times(copy, stored)
  BY <1>2 DEF Copies
<1>8. Copies(m, u, mb)' = Times(copy, stored')
  BY <1>2 DEF Copies, Body, Times
<1> QED
  BY <1>4, <1>5, <1>6, <1>7, <1>8

\* A step stores a copy of the message being delivered, or none.
LEMMA StoredStep ==
    ASSUME SmtpInv, [Next]_vars
    PROVE  \/ stored' = stored
           \/ busy # NoConn /\ \E user \in Users, box \in {"INBOX", "Sent"} : stored' = With(user, box)
<1>1. CASE DeliverNext
  <2>1. busy # NoConn /\ sent < Len(session[busy].rcpt_to)
    BY <1>1 DEF DeliverNext
  <2>2. session[busy].rcpt_to[sent + 1] \in Users
    BY <2>1, NextRecipient DEF SmtpInv, Shape, SessionRecord
  <2> QED
    BY <1>1, <2>2 DEF DeliverNext
<1>2. CASE Finish
  BY <1>2 DEF Finish, SmtpInv, DeliveryOK
<1>3. CASE DeliverFails
  <2>1. busy # NoConn /\ session[busy].mail_from \in Users
    BY <1>3 DEF DeliverFails, SmtpInv, DeliveryOK
  <2>2. sent < Len(session[busy].rcpt_to) => session[busy].rcpt_to[sent + 1] \in Users
    BY <2>1, NextRecipient DEF SmtpInv, Shape, SessionRecord
  <2> QED
    BY <1>3, <2>1, <2>2 DEF DeliverFails
<1>4. CASE ~DeliverNext /\ ~Finish /\ ~DeliverFails
  BY <1>4 DEF Next, Deliver, Connect, ReceiveCommand, ReceiveText, ReceiveDot, FinishData, Break,
              BreakAfterDot, Crash, vars, serverVars
<1> QED
  BY <1>1, <1>2, <1>3, <1>4

\* No copy is ever lost.
LEMMA CopiesGrow ==
    ASSUME SmtpInv, [Next]_vars, NEW m, NEW u, NEW mb
    PROVE  Copies(m, u, mb) <= Copies(m, u, mb)' /\ Copies(m, u, mb) \in Nat /\ Copies(m, u, mb)' \in Nat
<1>1. Copies(m, u, mb) \in Nat
  BY CopiesType DEF SmtpInv
<1>2. CASE stored' = stored
  BY <1>1, <1>2 DEF Copies, Body, Times
<1>3. ASSUME NEW user, NEW box, stored' = With(user, box)
      PROVE  Copies(m, u, mb)' = Copies(m, u, mb) \/ Copies(m, u, mb)' = Copies(m, u, mb) + 1
  BY <1>1, <1>3, CopyCounted DEF SmtpInv
<1> QED
  BY <1>1, <1>2, <1>3, StoredStep

\* Only the end of a delivery tells a client that its message is delivered.
LEMMA AckedStep ==
    ASSUME [Next]_vars
    PROVE  acked' = acked \/ (Finish /\ up[busy] = "up")
<1>1. CASE Finish
  BY <1>1 DEF Finish, Completed
<1>2. CASE ~Finish
  BY <1>2 DEF Next, Deliver, Connect, ReceiveCommand, ReceiveText, ReceiveDot, Break, BreakAfterDot,
              DeliverNext, DeliverFails, Crash, vars, history
<1> QED
  BY <1>1, <1>2

LEMMA AckedKept ==
    ASSUME AckedInv, [Next]_vars PROVE AckedIsStored'
<1> USE DEF AckedInv
<1>1. ASSUME NEW a \in acked
      PROVE  /\ Copies(a.message, a.transaction.from, "Sent")' >= 1
             /\ \A u \in Users : Copies(a.message, u, "INBOX")' >= Count(a.transaction.rcpts, u)
  <2>1. a.transaction.rcpts \in Seq(Users)
    BY DEF SmtpInv, Shape, Transaction
  <2>2. \A u \in Users : Count(a.transaction.rcpts, u) \in Nat
    BY <2>1, CountAll
  <2>3. Copies(a.message, a.transaction.from, "Sent")' >= 1
    BY CopiesGrow DEF AckedIsStored
  <2>4. ASSUME NEW u \in Users PROVE Copies(a.message, u, "INBOX")' >= Count(a.transaction.rcpts, u)
    BY <2>2, CopiesGrow DEF AckedIsStored
  <2> QED
    BY <2>3, <2>4
<1>2. CASE acked' = acked
  BY <1>1, <1>2 DEF AckedIsStored, Copies, Times, Body, Count
<1>3. CASE Finish /\ up[busy] = "up"
  <2>1. PICK c \in Conns : c = busy
    BY <1>3 DEF Finish, SmtpInv, Shape
  <2>2. PICK m \in Messages : m = client[c].message
    BY <1>3, <2>1 DEF Finish, SmtpInv, DeliveryOK, Sending, Shape, ClientRecord
  <2>3. PICK t \in Transaction : t = client[c].transaction
    BY DEF SmtpInv, Shape, ClientRecord
  <2>4. PICK new : new = [message |-> m, transaction |-> t]
    OBVIOUS
  <2>5. acked' = acked \union {new}
    BY <1>3, <2>1, <2>2, <2>3, <2>4 DEF Finish, Completed
  <2>6. raw = Body(m) /\ session[c].state = "RCPT_SET" /\ session[c].rcpt_to \in Seq(Users)
    BY <1>3, <2>1, <2>2 DEF Finish, SmtpInv, DeliveryOK, Shape, SessionRecord
  <2>7. t = [from |-> session[c].mail_from, rcpts |-> session[c].rcpt_to]
    BY <1>3, <2>1, <2>3, <2>6 DEF SmtpInv, ConnOK, Agreed
  <2>8. Copies(m, t.from, "Sent")' >= 1
    <3>1. stored' = With(t.from, "Sent")
      BY <1>3, <2>1, <2>7 DEF Finish
    <3> QED
      BY <2>6, <3>1, CopyCounted, CopiesType DEF SmtpInv
  <2>9. ASSUME NEW u \in Users PROVE Copies(m, u, "INBOX")' >= Count(t.rcpts, u)
    <3>1. Count(t.rcpts, u) = CountTo(session[c].rcpt_to, Len(session[c].rcpt_to), u) /\ Count(t.rcpts, u) \in Nat
      BY <2>6, <2>7, CountAll
    <3>2. CountTo(session[c].rcpt_to, Len(session[c].rcpt_to), u) <= Copies(m, u, "INBOX")
      BY <1>3, <2>1, <2>2 DEF Made, Finish
    <3> QED
      BY <3>1, <3>2, CopiesGrow
  <2>10. \A a \in acked' : /\ Copies(a.message, a.transaction.from, "Sent")' >= 1
                            /\ \A u \in Users : Copies(a.message, u, "INBOX")' >= Count(a.transaction.rcpts, u)
    BY <1>1, <2>4, <2>5, <2>8, <2>9
  <2> QED
    BY <2>10 DEF AckedIsStored, Copies, Times, Body, Count
<1> QED
  BY <1>2, <1>3, AckedStep

LEMMA MadeKept ==
    ASSUME AckedInv, [Next]_vars PROVE Made'
<1> USE DEF AckedInv
<1>1. CASE DeliverNext
  <2>1. PICK c \in Conns : c = busy
    BY <1>1 DEF DeliverNext, SmtpInv, Shape
  <2>2. PICK rcpts \in Seq(Users) : rcpts = session[c].rcpt_to
    BY DEF SmtpInv, Shape, SessionRecord
  <2>3. PICK m : m = client[c].message
    OBVIOUS
  <2>4. /\ busy # NoConn /\ sent \in Nat /\ sent' = sent + 1 /\ sent < Len(rcpts)
        /\ stored' = With(rcpts[sent + 1], "INBOX")
        /\ UNCHANGED <<up, client, session, busy, raw>>
    BY <1>1, <2>1, <2>2 DEF DeliverNext, SmtpInv, Shape
  <2>5. ASSUME NEW u \in Users, up[c] = "up" PROVE CountTo(rcpts, sent + 1, u) <= Copies(m, u, "INBOX")'
    <3>1. raw = Body(m)
      BY <2>1, <2>3, <2>4, <2>5 DEF SmtpInv, DeliveryOK
    <3>2. Copies(m, u, "INBOX")' = Copies(m, u, "INBOX") + (IF u = rcpts[sent + 1] THEN 1 ELSE 0)
      BY <2>4, <3>1, CopyCounted DEF SmtpInv
    <3>3. CountTo(rcpts, sent + 1, u) = CountTo(rcpts, sent, u) + (IF rcpts[sent + 1] = u THEN 1 ELSE 0)
      BY <2>4, CountToNext
    <3>4. CountTo(rcpts, sent, u) \in Nat /\ Copies(m, u, "INBOX") \in Nat
      BY <2>4, CountToType, CopiesType DEF SmtpInv
    <3>5. CountTo(rcpts, sent, u) <= Copies(m, u, "INBOX")
      BY <2>1, <2>2, <2>3, <2>4, <2>5 DEF Made
    <3> QED
      BY <3>2, <3>3, <3>4, <3>5
  <2> QED
    BY <2>1, <2>2, <2>3, <2>4, <2>5 DEF Made, CountTo, Copies, Times, Body
<1>2. ASSUME NEW c \in Conns, FinishData(c) PROVE Made'
  <2>1. busy' = c /\ sent' = 0
    BY <1>2 DEF FinishData
  <2>2. PICK m : m = client'[c].message
    OBVIOUS
  <2>3. PICK rcpts : rcpts = session'[c].rcpt_to
    OBVIOUS
  <2>4. ASSUME NEW u \in Users PROVE CountTo(rcpts, 0, u) <= Copies(m, u, "INBOX")'
    <3>1. CountTo(rcpts, 0, u) = 0
      BY CountToNext
    <3>2. Copies(m, u, "INBOX")' \in Nat
      BY CopiesGrow
    <3> QED
      BY <3>1, <3>2
  <2> QED
    BY <2>1, <2>2, <2>3, <2>4 DEF Made, CountTo, Copies, Times, Body
<1> DEFINE GoesOn == /\ busy' = busy /\ sent' = sent /\ stored' = stored
                     /\ session'[busy] = session[busy]
                     /\ \/ up'[busy] = up[busy] /\ client'[busy].message = client[busy].message
                        \/ up'[busy] # "up"
<1>3. CASE GoesOn
  BY <1>3 DEF Made, CountTo, Copies, Times, Body
<1>4. CASE busy' = NoConn
  BY <1>4 DEF Made
<1>5. ASSUME NEW c \in Conns, Connect(c), busy # NoConn PROVE GoesOn
  BY <1>5 DEF Connect, serverVars, SmtpInv, Shape, ConnOK
<1>6. ASSUME NEW c \in Conns, Break(c), busy # NoConn PROVE GoesOn
  BY <1>6 DEF Break, Ends, SmtpInv, Shape
<1>7. CASE UNCHANGED vars
  BY <1>7 DEF vars, serverVars, Made, CountTo, Copies, Times, Body
<1>8. ASSUME busy = NoConn, NEW c \in Conns, Connect(c) \/ Break(c) PROVE busy' = NoConn
  BY <1>8 DEF Connect, Break, serverVars
<1>9. ASSUME NEW c \in Conns, NEW cmd \in Command, ReceiveCommand(c, cmd) PROVE busy' = NoConn
  BY <1>9 DEF ReceiveCommand, Readable
<1>10. ASSUME NEW c \in Conns, ReceiveText(c) PROVE busy' = NoConn
  BY <1>10 DEF ReceiveText, Readable
<1>11. Finish \/ DeliverFails \/ Crash => busy' = NoConn
  BY DEF Finish, DeliverFails, Crash, NotBusy
<1>12. ASSUME NEW c \in Conns, ReceiveDot(c) \/ BreakAfterDot(c) PROVE FinishData(c)
  BY <1>12 DEF ReceiveDot, BreakAfterDot
<1> HIDE DEF GoesOn
<1> QED
  BY <1>1, <1>2, <1>3, <1>4, <1>5, <1>6, <1>7, <1>8, <1>9, <1>10, <1>11, <1>12 DEF Next, Deliver

LEMMA AckedInvariant == Spec => []AckedInv
<1>1. Init => AckedInv
  BY InitSmtpInv DEF AckedInv, Init, Made, AckedIsStored
<1>2. AckedInv /\ [Next]_vars => AckedInv'
  BY NextSmtpInv, AckedKept, MadeKept DEF AckedInv
<1> QED
  BY <1>1, <1>2, PTL DEF Spec

(***************************************************************************)
(* Copies: no more than were asked for.                                    *)
(***************************************************************************)

\* The copies of a message that the delivery under way still makes.
Due(m, user) ==
    IF busy # NoConn /\ raw = Body(m)
    THEN Count(session[busy].rcpt_to, user) - CountTo(session[busy].rcpt_to, sent, user)
    ELSE 0

\* The copies of a message that a client still sending it asks for.
Wanted(c, m, user) ==
    IF Sending(c) /\ client[c].message = m /\ busy # c
    THEN Count(client[c].transaction.rcpts, user) ELSE 0

\* Copies made, due and wanted are covered by the RCPTs that were accepted.
Budget ==
    \A m \in Messages, u \in Users :
        /\ Copies(m, u, "INBOX") + Due(m, u) <= asked[<<m, u>>]
        /\ \A c \in Conns : Copies(m, u, "INBOX") + Due(m, u) + Wanted(c, m, u) <= asked[<<m, u>>]

LEMMA BudgetType ==
    ASSUME SmtpInv, NEW m \in Messages, NEW u \in Users
    PROVE  /\ Copies(m, u, "INBOX") \in Nat /\ Due(m, u) \in Nat /\ asked[<<m, u>>] \in Nat
           /\ \A c \in Conns : Wanted(c, m, u) \in Nat
<1>1. Copies(m, u, "INBOX") \in Nat /\ asked[<<m, u>>] \in Nat
  BY CopiesType DEF SmtpInv, Shape
<1>2. Due(m, u) \in Nat
  <2>1. CASE busy # NoConn
    <3>1. PICK rcpts \in Seq(Users) : rcpts = session[busy].rcpt_to
      BY <2>1 DEF SmtpInv, Shape, SessionRecord
    <3>2. PICK n \in 0..Len(rcpts) : n = sent
      BY <2>1, <3>1 DEF SmtpInv, Shape, DeliveryOK
    <3>3. n \in Nat
      OBVIOUS
    <3>4. Count(rcpts, u) \in Nat /\ CountTo(rcpts, n, u) \in Nat
      BY <3>3, CountAll, CountToType
    <3>5. CountTo(rcpts, n, u) <= Count(rcpts, u)
      BY CountSome
    <3> QED
      BY <3>1, <3>2, <3>4, <3>5 DEF Due
  <2> QED
    BY <2>1 DEF Due
<1>3. ASSUME NEW c \in Conns PROVE Wanted(c, m, u) \in Nat
  <2>1. client[c].transaction.rcpts \in Seq(Users)
    BY DEF SmtpInv, Shape, ClientRecord, Transaction
  <2> QED
    BY <2>1, CountAll DEF Wanted
<1> QED
  BY <1>1, <1>2, <1>3

\* A step that asks for nothing, and makes no more than was due.
LEMMA BudgetFrame ==
    ASSUME SmtpInv, Budget, asked' = asked,
           \A m \in Messages, u \in Users :
             /\ Copies(m, u, "INBOX")' \in Nat /\ Due(m, u)' \in Nat
             /\ Copies(m, u, "INBOX")' + Due(m, u)' <= Copies(m, u, "INBOX") + Due(m, u)
             /\ \A c \in Conns : Wanted(c, m, u)' \in {Wanted(c, m, u), 0}
    PROVE  Budget'
<1> SUFFICES ASSUME NEW m \in Messages, NEW u \in Users
             PROVE  /\ Copies(m, u, "INBOX")' + Due(m, u)' <= asked[<<m, u>>]
                    /\ \A c \in Conns : Copies(m, u, "INBOX")' + Due(m, u)' + Wanted(c, m, u)' <= asked[<<m, u>>]
  BY DEF Budget
<1>1. /\ Copies(m, u, "INBOX") \in Nat /\ Due(m, u) \in Nat /\ asked[<<m, u>>] \in Nat
      /\ \A c \in Conns : Wanted(c, m, u) \in Nat
  BY BudgetType
<1>2. Copies(m, u, "INBOX")' + Due(m, u)' <= asked[<<m, u>>]
  BY <1>1 DEF Budget
<1>3. ASSUME NEW c \in Conns
      PROVE  Copies(m, u, "INBOX")' + Due(m, u)' + Wanted(c, m, u)' <= asked[<<m, u>>]
  <2>1. Copies(m, u, "INBOX") + Due(m, u) + Wanted(c, m, u) <= asked[<<m, u>>]
    BY DEF Budget
  <2>2. CASE Wanted(c, m, u)' = 0
    BY <1>1, <1>2, <2>2
  <2>3. CASE Wanted(c, m, u)' = Wanted(c, m, u)
    BY <1>1, <2>1, <2>3
  <2> QED
    BY <2>2, <2>3
<1> QED
  BY <1>2, <1>3

\* While nothing is stored and the delivery does not move, only the clients matter.
LEMMA DueSame ==
    ASSUME SmtpInv, stored' = stored, busy' = busy, raw' = raw, sent' = sent,
           busy # NoConn => session'[busy] = session[busy],
           NEW m, NEW u
    PROVE  Copies(m, u, "INBOX")' = Copies(m, u, "INBOX") /\ Due(m, u)' = Due(m, u)
BY DEF Copies, Times, Body, Due, Count, CountTo

LEMMA QuietBudget ==
    ASSUME SmtpInv, Budget, asked' = asked,
           stored' = stored, busy' = busy, raw' = raw, sent' = sent,
           busy # NoConn => session'[busy] = session[busy],
           \A c \in Conns : \/ client'[c].message = NoMessage
                            \/ /\ client'[c].message = client[c].message
                               /\ client'[c].transaction = client[c].transaction
    PROVE  Budget'
<1>1. ASSUME NEW m \in Messages, NEW u \in Users, NEW c \in Conns
      PROVE  Wanted(c, m, u)' \in {Wanted(c, m, u), 0}
  BY <1>1 DEF Wanted, Sending, Count
<1>2. ASSUME NEW m \in Messages, NEW u \in Users
      PROVE  /\ Copies(m, u, "INBOX")' \in Nat /\ Due(m, u)' \in Nat
             /\ Copies(m, u, "INBOX")' + Due(m, u)' <= Copies(m, u, "INBOX") + Due(m, u)
  <2>1. Copies(m, u, "INBOX") \in Nat /\ Due(m, u) \in Nat
    BY BudgetType
  <2>2. Copies(m, u, "INBOX")' = Copies(m, u, "INBOX") /\ Due(m, u)' = Due(m, u)
    BY DueSame
  <2> QED
    BY <2>1, <2>2
<1> QED
  BY <1>1, <1>2, BudgetFrame

\* A message has the content of another's first lines only if it is that message.
LEMMA ToldApart ==
    ASSUME NEW m \in Messages, NEW n \in Nat, NEW other \in Messages, Lines[other] # 0,
           Begun(m, n) = Body(other)
    PROVE  m = other
<1>1. PICK k \in Nat : k = Lines[other] /\ k # 0
  BY SmtpAssumption
<1>2. Body(other) = [i \in 1..k |-> [message |-> other, number |-> i]]
  BY <1>1 DEF Body
<1>3. Begun(m, n) = [i \in 1..n |-> [message |-> m, number |-> i]]
  BY DEF Begun
<1>4. 1 \in 1..k
  BY <1>1
<1>5. DOMAIN Body(other) = 1..k /\ DOMAIN Begun(m, n) = 1..n
  BY <1>2, <1>3
<1>6. 1 \in 1..n
  BY <1>4, <1>5
<1>7. Body(other)[1] = [message |-> other, number |-> 1]
  BY <1>2, <1>4
<1>8. Begun(m, n)[1] = [message |-> m, number |-> 1]
  BY <1>3, <1>6
<1> QED
  BY <1>7, <1>8

\* The end of a message: what its client wanted is due.
LEMMA StartingBudget ==
    ASSUME SmtpInv, Budget, \A m \in Messages : Lines[m] # 0,
           NEW c \in Conns, Readable(c), Sending(c), FinishData(c), asked' = asked,
           \A d \in Conns \ {c} : client'[d] = client[d]
    PROVE  Budget'
<1>1. PICK m \in Messages, n \in Nat :
        /\ m = client[c].message /\ buffer[c] = Begun(m, n)
        /\ busy = NoConn /\ busy # c
        /\ client[c].transaction = [from |-> session[c].mail_from, rcpts |-> session[c].rcpt_to]
  BY SendingClient
<1>2. PICK rcpts \in Seq(Users) : rcpts = session[c].rcpt_to
  BY DEF SmtpInv, Shape, SessionRecord
<1>3. /\ busy' = c /\ raw' = Begun(m, n) /\ sent' = 0 /\ stored' = stored /\ session'[c].rcpt_to = rcpts
  BY <1>1, <1>2, FinishDataStarts DEF SmtpInv
<1> SUFFICES ASSUME NEW o \in Messages, NEW u \in Users
             PROVE  /\ Copies(o, u, "INBOX")' + Due(o, u)' <= asked[<<o, u>>]
                    /\ \A d \in Conns : Copies(o, u, "INBOX")' + Due(o, u)' + Wanted(d, o, u)' <= asked[<<o, u>>]
  BY DEF Budget
<1>4. /\ Copies(o, u, "INBOX") \in Nat /\ asked[<<o, u>>] \in Nat
      /\ \A d \in Conns : Wanted(d, o, u) \in Nat
  BY BudgetType
<1>5. Due(o, u) = 0 /\ Copies(o, u, "INBOX")' = Copies(o, u, "INBOX")
  BY <1>1, <1>3 DEF Due, Copies, Times, Body
<1>6. Count(rcpts, u) \in Nat /\ CountTo(rcpts, 0, u) = 0
  BY CountAll, CountToNext
<1>7. Due(o, u)' = IF raw' = Body(o) THEN Count(rcpts, u) ELSE 0
  <2>1. Due(o, u)' = IF raw' = Body(o) THEN Count(rcpts, u) - CountTo(rcpts, 0, u) ELSE 0
    BY <1>3, SmtpAssumption DEF Due, Count, CountTo, Body
  <2> QED
    BY <1>6, <2>1
<1>8. Wanted(c, o, u)' = 0
  BY <1>3 DEF Wanted
<1>9. \A d \in Conns \ {c} : Wanted(d, o, u)' = Wanted(d, o, u)
  BY <1>1, <1>3, SmtpAssumption DEF Wanted, Sending, Count
<1>10. CASE o = m
  <2>1. Wanted(c, o, u) = Count(rcpts, u)
    BY <1>1, <1>2, <1>10 DEF Wanted
  <2>2. \A d \in Conns \ {c} : Wanted(d, o, u) = 0
    BY <1>1, <1>10 DEF Wanted, SmtpInv, OneSender
  <2>3. Copies(o, u, "INBOX") + Wanted(c, o, u) <= asked[<<o, u>>]
    BY <1>4, <1>5 DEF Budget
  <2>4. Due(o, u)' \in {0, Count(rcpts, u)}
    BY <1>7
  <2>5. Copies(o, u, "INBOX")' + Due(o, u)' <= asked[<<o, u>>] /\ Due(o, u)' \in Nat
    BY <1>4, <1>5, <1>6, <2>1, <2>3, <2>4
  <2>6. \A d \in Conns : Wanted(d, o, u)' = 0
    BY <1>8, <1>9, <2>2
  <2> QED
    BY <1>4, <1>5, <2>5, <2>6
<1>11. CASE o # m
  <2>1. raw' # Body(o)
    BY <1>3, <1>11, ToldApart
  <2>2. Due(o, u)' = 0
    BY <1>7, <2>1
  <2>3. Copies(o, u, "INBOX") <= asked[<<o, u>>]
    BY <1>4, <1>5 DEF Budget
  <2>4. \A d \in Conns : Copies(o, u, "INBOX") + Wanted(d, o, u) <= asked[<<o, u>>]
    BY <1>4, <1>5 DEF Budget
  <2>5. ASSUME NEW d \in Conns PROVE Copies(o, u, "INBOX") + Wanted(d, o, u)' <= asked[<<o, u>>]
    BY <1>4, <1>8, <1>9, <2>3, <2>4
  <2> QED
    BY <1>4, <1>5, <2>2, <2>3, <2>5
<1> QED
  BY <1>10, <1>11

\* A reply to a command; 354 asks for a message that nobody is sending.
LEMMA ReceiveCommandBudget ==
    ASSUME SmtpInv, Budget, NEW c \in Conns, NEW cmd \in Command, ReceiveCommand(c, cmd)
    PROVE  Budget'
<1>1. /\ busy = NoConn /\ ~Sending(c) /\ up[c] = "up" /\ busy # c
      /\ UNCHANGED <<busy, raw, sent, stored>>
  BY SmtpAssumption DEF ReceiveCommand, Readable
<1>2. ~session[c].in_data_mode
  BY <1>1 DEF SmtpInv, ConnOK, Collecting
<1>3. PICK answer : answer = HandleCommand(session[c], cmd)
  OBVIOUS
<1>4. CASE answer.session.state = "QUIT"
  <2>1. Ends({c}) /\ asked' = asked
    BY <1>2, <1>3, <1>4 DEF ReceiveCommand
  <2>2. \A d \in Conns : client'[d] \in {client[d], NewClient}
    BY <2>1, EndsEnd DEF SmtpInv
  <2>3. NewClient.message = NoMessage
    BY DEF NewClient
  <2> QED
    BY <1>1, <2>1, <2>2, <2>3, QuietBudget
<1>5. CASE answer.session.state # "QUIT"
  <2>1. Reads(c, cmd, answer.reply)
    BY <1>2, <1>3, <1>5 DEF ReceiveCommand
  <2>2. CASE answer.reply # "354"
    <3>1. PICK new : client' = [client EXCEPT ![c] = new]
                       /\ new.message = NoMessage /\ asked' = asked
      <4>1. PICK k : k = [client[c] EXCEPT !.waits = None]
        OBVIOUS
      <4>2. k \in ClientRecord /\ k.message = NoMessage
        BY <1>1, <4>1 DEF SmtpInv, Shape, ClientRecord, Sending
      <4>3. PICK new : new = IF answer.reply = "5xx" THEN k
                             ELSE [k EXCEPT !.transaction = Understood(@, cmd)]
        OBVIOUS
      <4>4. new.message = NoMessage
        BY <4>2, <4>3 DEF ClientRecord
      <4>5. client' = [client EXCEPT ![c] = new] /\ asked' = asked
        BY <2>1, <2>2, <4>1, <4>3 DEF Reads
      <4> QED
        BY <4>4, <4>5
    <3>2. client'[c].message = NoMessage /\ \A d \in Conns \ {c} : client'[d] = client[d]
      BY <3>1 DEF SmtpInv, Shape
    <3> QED
      BY <1>1, <3>1, <3>2, QuietBudget
  <2>3. CASE answer.reply = "354"
    <3>1. Reads(c, cmd, "354")
      BY <2>1, <2>3
    <3>2. PICK m \in Messages : \A n \in Messages, u \in Users :
              /\ client'[c].message = m
              /\ asked'[<<n, u>>] = IF n # m THEN asked[<<n, u>>]
                                   ELSE asked[<<n, u>>] + Count(client[c].transaction.rcpts, u)
      BY <3>1, ReadsAsked DEF SmtpInv
    <3>3. /\ \A d \in Conns \ {c} : client'[d] = client[d]
          /\ client'[c].transaction = client[c].transaction
          /\ OneSender'
      BY <1>1, <3>1, ReadsReply DEF SmtpInv
    <3>4. PICK rcpts \in Seq(Users) : rcpts = client[c].transaction.rcpts
      BY DEF SmtpInv, Shape, ClientRecord, Transaction
    <3> SUFFICES ASSUME NEW o \in Messages, NEW u \in Users
                 PROVE  /\ Copies(o, u, "INBOX")' + Due(o, u)' <= asked'[<<o, u>>]
                        /\ \A d \in Conns : Copies(o, u, "INBOX")' + Due(o, u)' + Wanted(d, o, u)' <= asked'[<<o, u>>]
      BY DEF Budget
    <3>5. /\ Copies(o, u, "INBOX") \in Nat /\ asked[<<o, u>>] \in Nat
          /\ \A d \in Conns : Wanted(d, o, u) \in Nat
      BY BudgetType
    <3>6. Due(o, u) = 0 /\ Due(o, u)' = 0 /\ Copies(o, u, "INBOX")' = Copies(o, u, "INBOX")
      BY <1>1 DEF Due, Copies, Times, Body
    <3>7. Count(rcpts, u) \in Nat
      BY CountAll
    <3>8. asked'[<<o, u>>] = IF o # m THEN asked[<<o, u>>] ELSE asked[<<o, u>>] + Count(rcpts, u)
      BY <3>2, <3>4
    <3>9. \A d \in Conns \ {c} : Wanted(d, o, u)' = Wanted(d, o, u)
      BY <1>1, <3>3 DEF Wanted, Sending, Count
    <3>10. Wanted(c, o, u)' = IF o = m THEN Count(rcpts, u) ELSE 0
      <4>1. m # NoMessage /\ client'[c].message = m
        BY <3>2, SmtpAssumption
      <4> QED
        BY <1>1, <3>3, <3>4, <4>1 DEF Wanted, Sending, Count
    <3>11. Copies(o, u, "INBOX") <= asked[<<o, u>>]
      BY <3>5, <3>6 DEF Budget
    <3>12. \A d \in Conns : Copies(o, u, "INBOX") + Wanted(d, o, u) <= asked[<<o, u>>]
      BY <3>5, <3>6 DEF Budget
    <3>13. ASSUME NEW d \in Conns PROVE Copies(o, u, "INBOX") + Wanted(d, o, u)' <= asked'[<<o, u>>]
      <4>1. CASE d = c
        BY <3>5, <3>7, <3>8, <3>10, <3>11, <4>1
      <4>2. CASE d # c
        BY <3>5, <3>7, <3>8, <3>9, <3>12, <4>2
      <4> QED
        BY <4>1, <4>2
    <3>14. ASSUME NEW d \in Conns PROVE Wanted(d, o, u)' \in Nat
      BY <3>5, <3>7, <3>9, <3>10
    <3> QED
      BY <3>5, <3>6, <3>7, <3>8, <3>11, <3>13, <3>14
  <2> QED
    BY <2>2, <2>3
<1> QED
  BY <1>4, <1>5

\* The copy for a recipient was due.
LEMMA DeliverNextBudget ==
    ASSUME SmtpInv, Budget, DeliverNext PROVE Budget'
<1>1. /\ busy # NoConn /\ sent < Len(session[busy].rcpt_to) /\ sent' = sent + 1
      /\ stored' = With(session[busy].rcpt_to[sent + 1], "INBOX")
      /\ UNCHANGED <<client, session, busy, raw, asked>>
  BY DEF DeliverNext, history
<1>2. PICK rcpts \in Seq(Users) : rcpts = session[busy].rcpt_to
  BY <1>1 DEF SmtpInv, Shape, SessionRecord
<1>3. sent \in Nat /\ sent + 1 \in 0..Len(rcpts)
  BY <1>1, <1>2 DEF SmtpInv, Shape
<1>4. ASSUME NEW m \in Messages, NEW u \in Users
      PROVE  /\ Copies(m, u, "INBOX")' \in Nat /\ Due(m, u)' \in Nat
             /\ Copies(m, u, "INBOX")' + Due(m, u)' <= Copies(m, u, "INBOX") + Due(m, u)
  <2>1. Copies(m, u, "INBOX") \in Nat
    BY BudgetType
  <2>2. Copies(m, u, "INBOX")' = Copies(m, u, "INBOX") + (IF u = rcpts[sent + 1] /\ Body(m) = raw THEN 1 ELSE 0)
    BY <1>1, <1>2, CopyCounted DEF SmtpInv
  <2>3. CountTo(rcpts, sent + 1, u) = CountTo(rcpts, sent, u) + (IF rcpts[sent + 1] = u THEN 1 ELSE 0)
    BY <1>3, CountToNext
  <2>4. /\ CountTo(rcpts, sent, u) \in Nat /\ Count(rcpts, u) \in Nat
        /\ CountTo(rcpts, sent + 1, u) <= Count(rcpts, u)
    BY <1>3, CountToType, CountAll, CountSome
  <2>5. Due(m, u) = IF raw = Body(m) THEN Count(rcpts, u) - CountTo(rcpts, sent, u) ELSE 0
    BY <1>1, <1>2 DEF Due
  <2>6. Due(m, u)' = IF raw = Body(m) THEN Count(rcpts, u) - CountTo(rcpts, sent + 1, u) ELSE 0
    BY <1>1, <1>2 DEF Due, Count, CountTo, Body
  <2> QED
    BY <2>1, <2>2, <2>3, <2>4, <2>5, <2>6
<1>5. ASSUME NEW m \in Messages, NEW u \in Users, NEW c \in Conns
      PROVE  Wanted(c, m, u)' \in {Wanted(c, m, u), 0}
  BY <1>1 DEF Wanted, Sending, Count
<1> QED
  BY <1>1, <1>4, <1>5, BudgetFrame

\* The end of a delivery: it makes no copy but the one that was due.
LEMMA EndingBudget ==
    ASSUME SmtpInv, Budget, Finish \/ DeliverFails \/ Crash PROVE Budget'
<1>1. busy' = NoConn /\ asked' = asked
  BY DEF Finish, DeliverFails, Crash, NotBusy, history
<1>2. ASSUME NEW m \in Messages, NEW u \in Users
      PROVE  Copies(m, u, "INBOX")' \in Nat /\ Copies(m, u, "INBOX")' <= Copies(m, u, "INBOX") + Due(m, u)
  <2>1. Copies(m, u, "INBOX") \in Nat /\ Due(m, u) \in Nat
    BY BudgetType
  <2>2. CASE stored' = stored
    <3>1. Copies(m, u, "INBOX")' = Copies(m, u, "INBOX")
      BY <2>2 DEF Copies, Times, Body
    <3> QED
      BY <2>1, <3>1
  <2>3. CASE stored' = With(session[busy].mail_from, "Sent")
    <3>1. Copies(m, u, "INBOX")' = Copies(m, u, "INBOX")
      BY <2>1, <2>3, CopyCounted DEF SmtpInv
    <3> QED
      BY <2>1, <3>1
  <2>4. CASE /\ busy # NoConn /\ sent < Len(session[busy].rcpt_to)
             /\ stored' = With(session[busy].rcpt_to[sent + 1], "INBOX")
    <3>1. PICK rcpts \in Seq(Users) : rcpts = session[busy].rcpt_to
      BY <2>4 DEF SmtpInv, Shape, SessionRecord
    <3>2. sent \in Nat /\ sent + 1 \in 0..Len(rcpts)
      BY <2>4, <3>1 DEF SmtpInv, Shape
    <3>3. Copies(m, u, "INBOX")' = Copies(m, u, "INBOX") + (IF u = rcpts[sent + 1] /\ Body(m) = raw THEN 1 ELSE 0)
      BY <2>4, <3>1, CopyCounted DEF SmtpInv
    <3>4. CountTo(rcpts, sent + 1, u) = CountTo(rcpts, sent, u) + (IF rcpts[sent + 1] = u THEN 1 ELSE 0)
      BY <3>2, CountToNext
    <3>5. /\ CountTo(rcpts, sent, u) \in Nat /\ Count(rcpts, u) \in Nat
          /\ CountTo(rcpts, sent + 1, u) <= Count(rcpts, u)
      BY <3>2, CountToType, CountAll, CountSome
    <3>6. Due(m, u) = IF raw = Body(m) THEN Count(rcpts, u) - CountTo(rcpts, sent, u) ELSE 0
      BY <2>4, <3>1 DEF Due
    <3> QED
      BY <2>1, <3>3, <3>4, <3>5, <3>6
  <2>5. \/ stored' = stored \/ stored' = With(session[busy].mail_from, "Sent")
        \/ /\ busy # NoConn /\ sent < Len(session[busy].rcpt_to)
           /\ stored' = With(session[busy].rcpt_to[sent + 1], "INBOX")
    BY DEF Finish, DeliverFails, Crash
  <2> QED
    BY <2>2, <2>3, <2>4, <2>5
<1>3. ASSUME NEW m \in Messages, NEW u \in Users PROVE Due(m, u)' = 0
  BY <1>1 DEF Due
<1>4. \A c \in Conns : client'[c] = NewClient \/ (client'[c] = client[c] /\ busy # c)
  <2>1. CASE Finish
    <3>1. busy \in Conns /\ client \in [Conns -> ClientRecord]
      BY <2>1 DEF Finish, SmtpInv, Shape
    <3>2. client' = [client EXCEPT ![busy] = NewClient] \/ Ends({busy})
      BY <2>1 DEF Finish, Completed
    <3> QED
      BY <3>1, <3>2 DEF Ends
  <2>2. CASE DeliverFails
    BY <2>2 DEF DeliverFails, Ends
  <2>3. CASE Crash
    BY <2>3 DEF Crash, Ends
  <2> QED
    BY <2>1, <2>2, <2>3
<1>5. ASSUME NEW m \in Messages, NEW u \in Users, NEW c \in Conns
      PROVE  Wanted(c, m, u)' \in {Wanted(c, m, u), 0}
  <2>1. NewClient.message = NoMessage
    BY DEF NewClient
  <2>2. CASE client'[c] = NewClient
    BY <2>1, <2>2 DEF Wanted, Sending
  <2>3. CASE client'[c] = client[c] /\ busy # c
    BY <1>1, <2>3, SmtpAssumption DEF Wanted, Sending, Count
  <2> QED
    BY <1>4, <2>2, <2>3
<1>6. ASSUME NEW m \in Messages, NEW u \in Users
      PROVE  /\ Copies(m, u, "INBOX")' \in Nat /\ Due(m, u)' \in Nat
             /\ Copies(m, u, "INBOX")' + Due(m, u)' <= Copies(m, u, "INBOX") + Due(m, u)
  BY <1>2, <1>3
<1> QED
  BY <1>1, <1>5, <1>6, BudgetFrame

LEMMA BudgetInvariant ==
    ASSUME \A m \in Messages : Lines[m] # 0 PROVE Spec => [](SmtpInv /\ Budget)
<1>1. Init => SmtpInv /\ Budget
  <2> SUFFICES ASSUME Init PROVE SmtpInv /\ Budget
    OBVIOUS
  <2>1. SmtpInv
    BY InitSmtpInv
  <2>2. ASSUME NEW m \in Messages, NEW u \in Users
        PROVE  Copies(m, u, "INBOX") = 0 /\ Due(m, u) = 0 /\ \A c \in Conns : Wanted(c, m, u) = 0
    BY DEF Init, Copies, Times, BagIn, BagToSet, EmptyBag, SetToBag, Due, Wanted, Sending, NewClient
  <2>3. \A m \in Messages, u \in Users : asked[<<m, u>>] = 0
    BY DEF Init
  <2> QED
    BY <2>1, <2>2, <2>3 DEF Budget
<1>2. SmtpInv /\ Budget /\ [Next]_vars => (SmtpInv /\ Budget)'
  <2> SUFFICES ASSUME SmtpInv, Budget, [Next]_vars PROVE Budget'
    BY NextSmtpInv
  <2>1. ASSUME NEW c \in Conns, Connect(c) PROVE Budget'
    <3>1. /\ session' = session /\ client' = client /\ asked' = asked /\ stored' = stored
          /\ busy' = busy /\ raw' = raw /\ sent' = sent
      BY <2>1 DEF Connect, serverVars, history
    <3> QED
      BY <3>1, QuietBudget
  <2>2. ASSUME NEW c \in Conns, ReceiveText(c) PROVE Budget'
    <3>1. /\ session' = session /\ asked' = asked /\ stored' = stored
          /\ busy' = busy /\ raw' = raw /\ sent' = sent
          /\ client' = [client EXCEPT ![c].number = @ + 1]
      BY <2>2 DEF ReceiveText, Content, history
    <3>2. \A d \in Conns : client'[d].message = client[d].message /\ client'[d].transaction = client[d].transaction
      BY <3>1 DEF SmtpInv, Shape, ClientRecord
    <3> QED
      BY <3>1, <3>2, QuietBudget
  <2>3. ASSUME NEW c \in Conns, Break(c) PROVE Budget'
    <3>1. /\ asked' = asked /\ stored' = stored /\ busy' = busy /\ raw' = raw /\ sent' = sent
          /\ busy # NoConn => session'[busy] = session[busy]
          /\ \A d \in Conns : client'[d] \in {client[d], NewClient}
      BY <2>3 DEF Break, Ends, history, SmtpInv, Shape
    <3>2. NewClient.message = NoMessage
      BY DEF NewClient
    <3> QED
      BY <3>1, <3>2, QuietBudget
  <2>4. ASSUME NEW c \in Conns, NEW cmd \in Command, ReceiveCommand(c, cmd) PROVE Budget'
    BY <2>4, ReceiveCommandBudget
  <2>5. ASSUME NEW c \in Conns, ReceiveDot(c) \/ BreakAfterDot(c) PROVE Budget'
    <3>1. Readable(c) /\ Sending(c) /\ FinishData(c) /\ asked' = asked
      BY <2>5 DEF ReceiveDot, BreakAfterDot, history
    <3>2. \A d \in Conns \ {c} : client'[d] = client[d]
      BY <2>5 DEF ReceiveDot, BreakAfterDot, SmtpInv, Shape
    <3> QED
      BY <3>1, <3>2, StartingBudget
  <2>6. CASE DeliverNext
    BY <2>6, DeliverNextBudget
  <2>7. CASE Finish \/ DeliverFails \/ Crash
    BY <2>7, EndingBudget
  <2>8. CASE UNCHANGED vars
    <3>1. /\ session' = session /\ client' = client /\ asked' = asked /\ stored' = stored
          /\ busy' = busy /\ raw' = raw /\ sent' = sent
      BY <2>8 DEF vars, serverVars, history
    <3> QED
      BY <3>1, QuietBudget
  <2> QED
    BY <2>1, <2>2, <2>3, <2>4, <2>5, <2>6, <2>7, <2>8 DEF Next, Deliver
<1> QED
  BY <1>1, <1>2, PTL DEF Spec

(***************************************************************************)
(* The theorems.                                                           *)
(***************************************************************************)

\* SmtpSession's variables have their types.
THEOREM SmtpTypeCorrect == Spec => []TypeOK
<1>1. SmtpInv => TypeOK
  BY DEF SmtpInv, Shape, TypeOK, SessionRecord, ClientRecord
<1> QED
  BY <1>1, SmtpInvariant, PTL

\* handle_data_end delivers on behalf of the sender, and to the recipients,
\* that the client's replies told it were accepted since its last MAIL, RSET or
\* HELO; there is at least one.
THEOREM SendersAndRecipientsAgreed == Spec => []TransactionAgreed
<1>1. SmtpInv => TransactionAgreed
  <2> SUFFICES ASSUME SmtpInv, busy # NoConn, up[busy] = "up"
               PROVE  /\ [from |-> session[busy].mail_from, rcpts |-> session[busy].rcpt_to]
                           = client[busy].transaction
                      /\ client[busy].transaction.rcpts # <<>>
    BY DEF TransactionAgreed
  <2>1. busy \in Conns /\ session[busy].state = "RCPT_SET" /\ session[busy].rcpt_to # <<>>
    BY DEF SmtpInv, Shape, DeliveryOK
  <2>2. client[busy].transaction = [from |-> session[busy].mail_from, rcpts |-> session[busy].rcpt_to]
    BY <2>1 DEF SmtpInv, ConnOK, Agreed
  <2> QED
    BY <2>1, <2>2
<1> QED
  BY <1>1, SmtpInvariant, PTL

\* What deliver_message stores is a message with all its lines and none of
\* another one's, unless a connection broke after the first byte of a line that
\* starts with a dot.
THEOREM StoredWhole == Spec => []WholeUnlessCut
<1>1. SmtpInv => WholeUnlessCut
  BY DEF SmtpInv
<1> QED
  BY <1>1, SmtpInvariant, PTL

\* When handle_data_end has answered 250, the message is in the INBOX of every
\* recipient, once for each time it was named, and in the sender's Sent, and it
\* stays there whatever fails later.
THEOREM AcknowledgedStored == Spec => []AckedIsStored
<1>1. AckedInv => AckedIsStored
  BY DEF AckedInv
<1> QED
  BY <1>1, AckedInvariant, PTL

\* Nobody gets more copies of a message than RCPTs were accepted for it, however
\* often its delivery failed or its client sent it again.  A message without
\* lines has nothing that tells it from another one, so every message has one.
THEOREM NothingExtra ==
    ASSUME \A m \in Messages : Lines[m] # 0
    PROVE  Spec => []NothingUnasked
<1>1. SmtpInv /\ Budget => NothingUnasked
  <2> SUFFICES ASSUME SmtpInv, Budget, NEW m \in Messages, NEW u \in Users
               PROVE  Copies(m, u, "INBOX") <= asked[<<m, u>>]
    BY DEF NothingUnasked
  <2>1. Copies(m, u, "INBOX") \in Nat /\ Due(m, u) \in Nat /\ asked[<<m, u>>] \in Nat
    BY BudgetType
  <2>2. Copies(m, u, "INBOX") + Due(m, u) <= asked[<<m, u>>]
    BY DEF Budget
  <2> QED
    BY <2>1, <2>2
<1> QED
  BY <1>1, BudgetInvariant, PTL
===============================================================================
