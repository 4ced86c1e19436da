---------------------------- MODULE AccountsProofs ----------------------------
(***************************************************************************)
(* What REGISTER and LOGIN promise, for any users, passwords and sessions, *)
(* wherever the two processes stop: an account keeps its password, whoever *)
(* is logged in typed it, and the mailboxes are those of the accounts.     *)
(***************************************************************************)
EXTENDS Accounts, CommandLineProofs

\* REGISTER and LOGIN get what the client typed, however it is written.
LEMMA ParsesBack ==
    ASSUME NEW name \in {Register, Login}, NEW u \in Users, NEW typed \in Passwords,
           NEW command \in Received(name, u, typed)
    PROVE  command.args[1] = u /\ command.args[2] = typed
<1>1. PICK text \in Written(typed) : command = Parse(Line(Tag, name, u, text))
  BY DEF Received
<1>2. Writes(Tag, Tag) /\ Writes(name, name) /\ Writes(u, u) /\ Writes(text, typed)
  BY <1>1, AccountsAssumption DEF Writes, Written
<1>3. Parse(Line(Tag, name, u, text)) = [tag |-> Tag, name |-> name, args |-> <<u, typed>>]
  BY <1>2, LinesParse
<1> QED
  BY <1>1, <1>3

(***************************************************************************)
(* The invariant.                                                          *)
(***************************************************************************)
Handling == pc["imap"] \in {"save", "inbox", "trash", "reply"}
Handler == [session : Sessions, user : Users, typed : Passwords, password : Passwords, register : BOOLEAN]

Shape ==
    /\ data \in BOOLEAN
    /\ file \in Dictionaries \union {NoFile}
    /\ boxes \in [Users \X Mailboxes -> {"none", "there", "deleted"}]
    /\ pc \in [Procs -> {"down", "starting", "up", "save", "inbox", "trash", "reply"}]
    /\ pc["smtp"] \in {"down", "starting", "up"}
    /\ accounts \in Dictionaries
    /\ session \in [Sessions -> Users \union {NoUser}]
    /\ rcpts \subseteq Users
    /\ proved \in [Sessions -> Passwords \union {NoPassword}]
    /\ acked \subseteq Users \X Passwords
    /\ replaced \in BOOLEAN
    /\ Handling => handler \in Handler /\ handler.password = handler.typed

\* A session is logged in from the LOGIN on that its handler has verified, and
\* not while it registers.
Doing ==
    /\ Handling => session[handler.session] = IF handler.register THEN NoUser ELSE handler.user
    /\ pc["imap"] = "save" => handler.register
    /\ \A s \in Sessions : session[s] # NoUser => proved[s] \in Passwords

\* What the processes remember of accounts.json is what it says.
Remembered ==
    /\ pc["imap"] = "save" => accounts = Load /\ ~Known(handler.user)
    /\ pc["imap"] \in {"inbox", "trash", "reply"} => Load[handler.user] = handler.typed
    /\ \A a \in acked : Load[a[1]] = a[2]
    /\ \A s \in Sessions : session[s] # NoUser => Load[session[s]] = proved[s]
    /\ \A u \in rcpts : Known(u)

\* The mailboxes of a user who is logged in, or whose handler is to answer.
Made ==
    /\ pc["imap"] \in {"trash", "reply"} => boxes[<<handler.user, "INBOX">>] # "none"
    /\ pc["imap"] = "reply" => boxes[<<handler.user, "Trash">>] # "none"
    /\ \A s \in Sessions : session[s] # NoUser /\ ~(Handling /\ handler.session = s) =>
          \A mb \in Mailboxes : boxes[<<session[s], mb>>] # "none"

AccountsInv == Shape /\ Doing /\ (~replaced => Remembered) /\ Made

(***************************************************************************)
(* Every step keeps it.                                                    *)
(***************************************************************************)
LEMMA LoadType == ASSUME Shape PROVE Load \in Dictionaries
BY DEF Shape, Load, NoAccounts, Dictionaries

LEMMA StartKeeps ==
    ASSUME AccountsInv, NEW p \in Procs, Start(p) PROVE AccountsInv'
<1>1. /\ pc[p] = "down" /\ pc' = [pc EXCEPT ![p] = IF file = NoFile THEN "starting" ELSE "up"]
      /\ data' = TRUE
      /\ UNCHANGED <<file, boxes, handler, accounts, session, rcpts, proved, acked, replaced>>
  BY DEF Start
<1>2. pc'["imap"] = pc["imap"] \/ (pc'["imap"] \in {"starting", "up"} /\ pc["imap"] = "down")
  BY <1>1 DEF AccountsInv, Shape, Procs
<1>3. Shape'
  BY <1>1, <1>2 DEF AccountsInv, Shape, Procs, Handling
<1>4. Doing' /\ Made'
  BY <1>1, <1>2 DEF AccountsInv, Doing, Made, Handling
<1>5. ~replaced' => Remembered'
  BY <1>1, <1>2 DEF AccountsInv, Remembered, Load, Known
<1> QED
  BY <1>3, <1>4, <1>5 DEF AccountsInv

\* A starting server replaces no account, or replaced says so.
LEMMA WriteEmptyKeeps ==
    ASSUME AccountsInv, NEW p \in Procs, WriteEmpty(p) PROVE AccountsInv'
<1>1. /\ pc[p] = "starting" /\ pc' = [pc EXCEPT ![p] = "up"] /\ file' = NoAccounts
      /\ replaced' = (replaced \/ \E u \in Users : Known(u))
      /\ UNCHANGED <<data, boxes, handler, accounts, session, rcpts, proved, acked>>
  BY DEF WriteEmpty
<1>2. pc'["imap"] = pc["imap"] \/ (pc'["imap"] = "up" /\ pc["imap"] = "starting")
  BY <1>1 DEF AccountsInv, Shape, Procs
<1>3. Shape'
  <2>1. NoAccounts \in Dictionaries
    BY DEF NoAccounts, Dictionaries
  <2>2. Handling' => Handling
    BY <1>2 DEF Handling
  <2>3. replaced' \in BOOLEAN
    BY <1>1 DEF AccountsInv, Shape
  <2>4. pc' \in [Procs -> {"down", "starting", "up", "save", "inbox", "trash", "reply"}]
         /\ pc'["smtp"] \in {"down", "starting", "up"}
    BY <1>1 DEF AccountsInv, Shape, Procs
  <2> QED
    BY <1>1, <2>1, <2>2, <2>3, <2>4 DEF AccountsInv, Shape
<1>4. Doing' /\ Made'
  BY <1>1, <1>2 DEF AccountsInv, Doing, Made, Handling
<1>5. ASSUME ~replaced' PROVE Remembered'
  <2>1. ~replaced /\ \A u \in Users : Load[u] = NoPassword
    BY <1>1, <1>5 DEF Known
  <2>2. Load = NoAccounts
    BY <2>1, LoadType DEF AccountsInv, Dictionaries, NoAccounts
  <2>3. Load' = NoAccounts
    BY <1>1 DEF Load
  <2>4. Load' = Load
    BY <2>2, <2>3
  <2> QED
    BY <1>1, <1>2, <2>1, <2>4 DEF AccountsInv, Remembered, Known
<1> QED
  BY <1>3, <1>4, <1>5 DEF AccountsInv

LEMMA CrashKeeps ==
    ASSUME AccountsInv, NEW p \in Procs, Crash(p) PROVE AccountsInv'
<1>1. pc' = [pc EXCEPT ![p] = "down"] /\ UNCHANGED <<data, file, boxes, acked, replaced>>
  BY DEF Crash
<1>2. CASE p = "imap"
  <2>1. /\ pc'["imap"] = "down" /\ pc'["smtp"] = pc["smtp"]
        /\ session' = [s \in Sessions |-> NoUser] /\ proved' = [s \in Sessions |-> NoPassword]
        /\ accounts' = NoAccounts /\ rcpts' = rcpts
    BY <1>1, <1>2 DEF Crash, AccountsInv, Shape, Procs
  <2>2. Shape'
    BY <1>1, <2>1 DEF AccountsInv, Shape, Procs, Handling, NoAccounts, Dictionaries
  <2>3. Doing' /\ Made'
    BY <2>1 DEF Doing, Made, Handling
  <2>4. ~replaced' => Remembered'
    BY <1>1, <2>1 DEF AccountsInv, Remembered, Load, Known
  <2> QED
    BY <2>2, <2>3, <2>4 DEF AccountsInv
<1>3. CASE p = "smtp"
  <2>1. /\ pc'["imap"] = pc["imap"] /\ pc'["smtp"] = "down" /\ rcpts' = {}
        /\ UNCHANGED <<session, proved, handler, accounts>>
    BY <1>1, <1>3 DEF Crash, AccountsInv, Shape, Procs
  <2>2. Shape'
    BY <1>1, <2>1 DEF AccountsInv, Shape, Procs, Handling
  <2>3. Doing' /\ Made'
    BY <1>1, <2>1 DEF AccountsInv, Doing, Made, Handling
  <2>4. ~replaced' => Remembered'
    BY <1>1, <2>1 DEF AccountsInv, Remembered, Load, Known
  <2> QED
    BY <2>2, <2>3, <2>4 DEF AccountsInv
<1> QED
  BY <1>2, <1>3 DEF Procs

LEMMA RegisterReadKeeps ==
    ASSUME AccountsInv, NEW s \in Sessions, NEW u \in Users, NEW typed \in Passwords,
           RegisterRead(s, u, typed)
    PROVE  AccountsInv'
<1>1. PICK command \in Received(Register, u, typed) :
        /\ ~Known(command.args[1])
        /\ handler' = [session |-> s, user |-> command.args[1], typed |-> typed,
                       password |-> command.args[2], register |-> TRUE]
  BY DEF RegisterRead
<1>2. /\ pc["imap"] = "up" /\ session[s] = NoUser /\ accounts' = Load
      /\ pc' = [pc EXCEPT !["imap"] = "save"]
      /\ UNCHANGED <<data, file, boxes, session, rcpts, proved, acked, replaced>>
  BY DEF RegisterRead
<1>3. command.args[1] = u /\ command.args[2] = typed
  BY ParsesBack
<1>4. /\ handler' \in Handler /\ handler'.session = s /\ handler'.user = u /\ ~Known(u)
      /\ handler'.typed = typed /\ handler'.password = typed /\ handler'.register = TRUE
  BY <1>1, <1>3 DEF Handler
<1>5. pc'["imap"] = "save" /\ pc'["smtp"] = pc["smtp"]
  BY <1>2 DEF AccountsInv, Shape, Procs
<1>6. Shape'
  BY <1>2, <1>4, <1>5, LoadType DEF AccountsInv, Shape, Procs
<1>7. Doing' /\ Made'
  BY <1>2, <1>4, <1>5 DEF AccountsInv, Doing, Made, Handling
<1>8. ~replaced' => Remembered'
  BY <1>2, <1>4, <1>5 DEF AccountsInv, Remembered, Load, Known
<1> QED
  BY <1>6, <1>7, <1>8 DEF AccountsInv

LEMMA LoginVerifyKeeps ==
    ASSUME AccountsInv, NEW s \in Sessions, NEW u \in Users, NEW typed \in Passwords,
           LoginVerify(s, u, typed)
    PROVE  AccountsInv'
<1>1. PICK command \in Received(Login, u, typed) :
        /\ Known(command.args[1]) /\ Load[command.args[1]] = command.args[2]
        /\ handler' = [session |-> s, user |-> command.args[1], typed |-> typed,
                       password |-> command.args[2], register |-> FALSE]
        /\ session' = [session EXCEPT ![s] = command.args[1]]
  BY DEF LoginVerify
<1>2. /\ pc["imap"] = "up" /\ proved' = [proved EXCEPT ![s] = typed]
      /\ pc' = [pc EXCEPT !["imap"] = "inbox"]
      /\ UNCHANGED <<data, file, boxes, accounts, rcpts, acked, replaced>>
  BY DEF LoginVerify
<1>3. command.args[1] = u /\ command.args[2] = typed
  BY ParsesBack
<1>4. /\ handler' \in Handler /\ handler'.session = s /\ handler'.user = u /\ Load[u] = typed
      /\ handler'.typed = typed /\ handler'.password = typed /\ handler'.register = FALSE
  BY <1>1, <1>3 DEF Handler
<1>5. pc'["imap"] = "inbox" /\ pc'["smtp"] = pc["smtp"]
  BY <1>2 DEF AccountsInv, Shape, Procs
<1>6. /\ session' \in [Sessions -> Users \union {NoUser}] /\ session'[s] = u
      /\ proved' \in [Sessions -> Passwords \union {NoPassword}] /\ proved'[s] = typed
      /\ \A t \in Sessions \ {s} : session'[t] = session[t] /\ proved'[t] = proved[t]
  BY <1>1, <1>2, <1>3 DEF AccountsInv, Shape
<1>7. Shape'
  BY <1>2, <1>4, <1>5, <1>6 DEF AccountsInv, Shape, Procs
<1>8. Doing' /\ Made'
  <2>1. Doing'
    BY <1>2, <1>4, <1>5, <1>6 DEF AccountsInv, Doing, Handling
  <2>2. Made'
    BY <1>2, <1>4, <1>5, <1>6 DEF AccountsInv, Made, Handling
  <2> QED
    BY <2>1, <2>2
<1>9. ~replaced' => Remembered'
  BY <1>2, <1>4, <1>5, <1>6 DEF AccountsInv, Remembered, Load, Known
<1> QED
  BY <1>7, <1>8, <1>9 DEF AccountsInv

LEMMA RegisterSaveKeeps ==
    ASSUME AccountsInv, RegisterSave PROVE AccountsInv'
<1>1. /\ pc["imap"] = "save" /\ pc' = [pc EXCEPT !["imap"] = "inbox"]
      /\ file' = [accounts EXCEPT ![handler.user] = handler.password]
      /\ UNCHANGED <<data, boxes, handler, accounts, session, rcpts, proved, acked, replaced>>
  BY DEF RegisterSave
<1>2. pc'["imap"] = "inbox" /\ pc'["smtp"] = pc["smtp"]
  BY <1>1 DEF AccountsInv, Shape, Procs
<1>3. handler \in Handler /\ handler.password = handler.typed
  BY <1>1 DEF AccountsInv, Shape, Handling
<1>4. handler.user \in Users /\ handler.password \in Passwords
  BY <1>3 DEF Handler
<1>5. file' \in Dictionaries
  BY <1>1, <1>4 DEF AccountsInv, Shape, Dictionaries
<1>6. Shape'
  BY <1>1, <1>2, <1>3, <1>5 DEF AccountsInv, Shape, Procs
<1>7. Doing' /\ Made'
  BY <1>1, <1>2 DEF AccountsInv, Doing, Made, Handling
<1>8. ASSUME ~replaced' PROVE Remembered'
  <2>1. Remembered /\ accounts = Load /\ ~Known(handler.user)
    BY <1>1, <1>8 DEF AccountsInv, Remembered
  <2>2. Load' = file' \/ (file' = NoFile /\ Load' = NoAccounts)
    BY DEF Load
  <2>3. file' # NoFile
    <3>1. handler.user \in DOMAIN file'
      BY <1>4, <1>5 DEF Dictionaries
    <3> QED
      BY <3>1 DEF NoFile
  <2>4. /\ Load'[handler.user] = handler.typed
        /\ \A u \in Users \ {handler.user} : Load'[u] = Load[u]
    BY <1>1, <1>3, <1>4, <2>1, <2>2, <2>3, LoadType DEF AccountsInv, Dictionaries
  <2>5. \A u \in Users : Known(u) => Load'[u] = Load[u] /\ Known(u)'
    BY <2>1, <2>4 DEF Known
  <2>6. Known(handler.user)'
    BY <1>1, <1>3, <1>4, <2>4, AccountsAssumption DEF Known
  <2>7. \A a \in acked : Load'[a[1]] = a[2]
    <3>1. \A a \in acked : a[1] \in Users /\ a[2] \in Passwords /\ Load[a[1]] = a[2]
      BY <2>1 DEF AccountsInv, Shape, Remembered
    <3> QED
      BY <2>5, <3>1, AccountsAssumption DEF Known
  <2>8. \A s \in Sessions : session[s] # NoUser => Load'[session[s]] = proved[s]
    <3>1. \A s \in Sessions : session[s] # NoUser =>
              session[s] \in Users /\ proved[s] \in Passwords /\ Load[session[s]] = proved[s]
      BY <2>1 DEF AccountsInv, Shape, Remembered, Doing
    <3> QED
      BY <2>5, <3>1, AccountsAssumption DEF Known
  <2>9. \A u \in rcpts : Known(u)'
    BY <2>1, <2>5 DEF AccountsInv, Shape, Remembered
  <2> QED
    BY <1>1, <1>2, <2>4, <2>7, <2>8, <2>9 DEF Remembered, Load, Known
<1> QED
  BY <1>6, <1>7, <1>8 DEF AccountsInv

\* A mailbox that is made, for a user who has an account, or deleted.
LEMMA BoxesChange ==
    ASSUME AccountsInv, NEW u \in Users, NEW mb \in Mailboxes, NEW new \in {"there", "deleted"},
           boxes' = [boxes EXCEPT ![<<u, mb>>] = new]
    PROVE  /\ boxes' \in [Users \X Mailboxes -> {"none", "there", "deleted"}]
           /\ boxes'[<<u, mb>>] # "none"
           /\ \A v \in Users, other \in Mailboxes : boxes[<<v, other>>] # "none" => boxes'[<<v, other>>] # "none"
           /\ \A v \in Users, other \in Mailboxes : v # u => boxes'[<<v, other>>] = boxes[<<v, other>>]
BY DEF AccountsInv, Shape

LEMMA EnsureInboxKeeps ==
    ASSUME AccountsInv, EnsureInbox PROVE AccountsInv'
<1>1. /\ pc["imap"] = "inbox" /\ boxes' = [boxes EXCEPT ![<<handler.user, "INBOX">>] = "there"]
      /\ pc' = [pc EXCEPT !["imap"] = "trash"]
      /\ data' = TRUE /\ UNCHANGED <<file, handler, accounts, session, rcpts, proved, acked, replaced>>
  BY DEF EnsureInbox, Ensure
<1>2. pc'["imap"] = "trash" /\ pc'["smtp"] = pc["smtp"]
  BY <1>1 DEF AccountsInv, Shape, Procs
<1>3. handler \in Handler /\ handler.user \in Users /\ handler.typed \in Passwords
  BY <1>1 DEF AccountsInv, Shape, Handling, Handler
<1>4. /\ boxes' \in [Users \X Mailboxes -> {"none", "there", "deleted"}]
      /\ boxes'[<<handler.user, "INBOX">>] # "none"
      /\ \A v \in Users, mb \in Mailboxes : boxes[<<v, mb>>] # "none" => boxes'[<<v, mb>>] # "none"
      /\ \A v \in Users, mb \in Mailboxes : v # handler.user => boxes'[<<v, mb>>] = boxes[<<v, mb>>]
  BY <1>1, <1>3, BoxesChange DEF Mailboxes
<1>5. Shape'
  BY <1>1, <1>2, <1>4 DEF AccountsInv, Shape, Procs, Handling
<1>6. Doing'
  BY <1>1, <1>2 DEF AccountsInv, Doing, Handling
<1>7. Made'
  BY <1>1, <1>2, <1>4 DEF AccountsInv, Shape, Made, Handling
<1>8. ~replaced' => Remembered'
  BY <1>1, <1>2, <1>3, <1>4, AccountsAssumption DEF AccountsInv, Shape, Remembered, Load, Known
<1> QED
  BY <1>5, <1>6, <1>7, <1>8 DEF AccountsInv

LEMMA EnsureTrashKeeps ==
    ASSUME AccountsInv, EnsureTrash PROVE AccountsInv'
<1>1. /\ pc["imap"] = "trash" /\ boxes' = [boxes EXCEPT ![<<handler.user, "Trash">>] = "there"]
      /\ pc' = [pc EXCEPT !["imap"] = "reply"]
      /\ data' = TRUE /\ UNCHANGED <<file, handler, accounts, session, rcpts, proved, acked, replaced>>
  BY DEF EnsureTrash, Ensure
<1>2. pc'["imap"] = "reply" /\ pc'["smtp"] = pc["smtp"]
  BY <1>1 DEF AccountsInv, Shape, Procs
<1>3. handler \in Handler /\ handler.user \in Users /\ handler.typed \in Passwords
  BY <1>1 DEF AccountsInv, Shape, Handling, Handler
<1>4. /\ boxes' \in [Users \X Mailboxes -> {"none", "there", "deleted"}]
      /\ boxes'[<<handler.user, "Trash">>] # "none"
      /\ \A v \in Users, mb \in Mailboxes : boxes[<<v, mb>>] # "none" => boxes'[<<v, mb>>] # "none"
      /\ \A v \in Users, mb \in Mailboxes : v # handler.user => boxes'[<<v, mb>>] = boxes[<<v, mb>>]
  BY <1>1, <1>3, BoxesChange DEF Mailboxes
<1>5. Shape'
  BY <1>1, <1>2, <1>4 DEF AccountsInv, Shape, Procs, Handling
<1>6. Doing'
  BY <1>1, <1>2 DEF AccountsInv, Doing, Handling
<1>7. Made'
  BY <1>1, <1>2, <1>3, <1>4 DEF AccountsInv, Shape, Made, Handling, Mailboxes
<1>8. ~replaced' => Remembered'
  BY <1>1, <1>2, <1>3, <1>4, AccountsAssumption DEF AccountsInv, Shape, Remembered, Load, Known
<1> QED
  BY <1>5, <1>6, <1>7, <1>8 DEF AccountsInv

LEMMA ReplyKeeps ==
    ASSUME AccountsInv, Reply PROVE AccountsInv'
<1>1. /\ pc["imap"] = "reply" /\ pc' = [pc EXCEPT !["imap"] = "up"] /\ accounts' = NoAccounts
      /\ acked' \in {acked, acked \union {<<handler.user, handler.typed>>}}
      /\ UNCHANGED <<data, file, boxes, session, rcpts, proved, replaced>>
  BY DEF Reply, Done
<1>2. pc'["imap"] = "up" /\ pc'["smtp"] = pc["smtp"]
  BY <1>1 DEF AccountsInv, Shape, Procs
<1>3. handler \in Handler /\ handler.user \in Users /\ handler.typed \in Passwords
  BY <1>1 DEF AccountsInv, Shape, Handling, Handler
<1>4. Shape'
  BY <1>1, <1>2, <1>3 DEF AccountsInv, Shape, Procs, Handling, NoAccounts, Dictionaries
<1>5. Doing'
  BY <1>1, <1>2 DEF AccountsInv, Doing, Handling
<1>6. Made'
  BY <1>1, <1>2 DEF AccountsInv, Doing, Made, Handling, Mailboxes
<1>7. ASSUME ~replaced' PROVE Remembered'
  <2>1. Remembered /\ Load[handler.user] = handler.typed
    BY <1>1, <1>7 DEF AccountsInv, Remembered
  <2>2. Load' = Load
    BY <1>1 DEF Load
  <2>3. \A a \in acked' : Load[a[1]] = a[2]
    BY <1>1, <2>1 DEF Remembered
  <2> QED
    BY <1>1, <1>2, <2>1, <2>2, <2>3 DEF Remembered, Known
<1> QED
  BY <1>4, <1>5, <1>6, <1>7 DEF AccountsInv

\* A session that ends.
LEMMA EndsType ==
    ASSUME AccountsInv, NEW s \in Sessions, Ends(s)
    PROVE  /\ session' \in [Sessions -> Users \union {NoUser}] /\ session'[s] = NoUser
           /\ proved' \in [Sessions -> Passwords \union {NoPassword}]
           /\ \A t \in Sessions \ {s} : session'[t] = session[t] /\ proved'[t] = proved[t]
BY DEF Ends, AccountsInv, Shape

LEMMA HandlerFailsKeeps ==
    ASSUME AccountsInv, HandlerFails PROVE AccountsInv'
<1>1. /\ Handling /\ Ends(handler.session) /\ pc' = [pc EXCEPT !["imap"] = "up"]
      /\ accounts' = NoAccounts /\ UNCHANGED <<data, file, boxes, rcpts, acked, replaced>>
  BY DEF HandlerFails, Done, Handling
<1>2. PICK s \in Sessions : s = handler.session
  BY <1>1 DEF AccountsInv, Shape, Handler
<1>3. /\ session' \in [Sessions -> Users \union {NoUser}] /\ session'[s] = NoUser
      /\ proved' \in [Sessions -> Passwords \union {NoPassword}]
      /\ \A t \in Sessions \ {s} : session'[t] = session[t] /\ proved'[t] = proved[t]
  BY <1>1, <1>2, EndsType
<1>4. pc'["imap"] = "up" /\ pc'["smtp"] = pc["smtp"]
  BY <1>1 DEF AccountsInv, Shape, Procs
<1>5. Shape'
  BY <1>1, <1>3, <1>4 DEF AccountsInv, Shape, Procs, Handling, NoAccounts, Dictionaries
<1>6. Doing'
  BY <1>3, <1>4 DEF AccountsInv, Doing, Handling
<1>7. Made'
  BY <1>1, <1>2, <1>3, <1>4 DEF AccountsInv, Made, Handling
<1>8. ~replaced' => Remembered'
  BY <1>1, <1>3, <1>4 DEF AccountsInv, Remembered, Load, Known
<1> QED
  BY <1>5, <1>6, <1>7, <1>8 DEF AccountsInv

LEMMA LogoutKeeps ==
    ASSUME AccountsInv, NEW s \in Sessions, Logout(s) PROVE AccountsInv'
<1>1. /\ pc["imap"] = "up" /\ Ends(s)
      /\ UNCHANGED <<data, file, boxes, pc, handler, accounts, rcpts, acked, replaced>>
  BY DEF Logout
<1>2. /\ session' \in [Sessions -> Users \union {NoUser}] /\ session'[s] = NoUser
      /\ proved' \in [Sessions -> Passwords \union {NoPassword}]
      /\ \A t \in Sessions \ {s} : session'[t] = session[t] /\ proved'[t] = proved[t]
  BY <1>1, EndsType
<1>3. Shape'
  BY <1>1, <1>2 DEF AccountsInv, Shape, Handling
<1>4. Doing' /\ Made'
  BY <1>1, <1>2 DEF AccountsInv, Doing, Made, Handling
<1>5. ~replaced' => Remembered'
  BY <1>1, <1>2 DEF AccountsInv, Remembered, Load, Known
<1> QED
  BY <1>3, <1>4, <1>5 DEF AccountsInv

\* Mailboxes that come and go, and a file that stays or goes with all that is
\* remembered of it.
LEMMA MailboxesKeep ==
    ASSUME AccountsInv, boxes' \in [Users \X Mailboxes -> {"none", "there", "deleted"}],
           \A b \in Users \X Mailboxes : boxes[b] # "none" => boxes'[b] # "none",
           data' \in BOOLEAN, rcpts' \subseteq rcpts,
           \/ UNCHANGED <<file, replaced>>
           \/ RemoveFile /\ pc["imap"] = "up",
           UNCHANGED <<pc, handler, accounts, session, proved, acked>>
    PROVE  AccountsInv'
<1>1. file' \in {file, NoFile} /\ replaced' \in BOOLEAN
  BY DEF RemoveFile, AccountsInv, Shape
<1>2. Shape'
  BY <1>1 DEF AccountsInv, Shape, Handling
<1>3. Doing'
  BY DEF AccountsInv, Doing, Handling
<1>4. Made'
  <2>1. pc["imap"] \in {"trash", "reply"} => handler.user \in Users
    BY DEF AccountsInv, Shape, Handling, Handler
  <2>2. \A s \in Sessions : session[s] # NoUser => session[s] \in Users
    BY DEF AccountsInv, Shape
  <2> QED
    BY <2>1, <2>2 DEF AccountsInv, Made, Handling, Mailboxes
<1>5. ASSUME ~replaced' PROVE Remembered'
  <2>1. ~replaced /\ Load' = Load
    <3>1. CASE UNCHANGED <<file, replaced>>
      BY <1>5, <3>1 DEF Load
    <3>2. CASE RemoveFile
      <4>1. ~replaced /\ \A u \in Users : Load[u] = NoPassword
        BY <1>5, <3>2 DEF RemoveFile, Known
      <4>2. Load = NoAccounts
        BY <4>1, LoadType DEF AccountsInv, Dictionaries, NoAccounts
      <4> QED
        BY <3>2, <4>1, <4>2 DEF RemoveFile, Load
    <3> QED
      BY <3>1, <3>2
  <2> QED
    BY <2>1 DEF AccountsInv, Remembered, Known
<1> QED
  BY <1>2, <1>3, <1>4, <1>5 DEF AccountsInv

LEMMA CreateKeeps ==
    ASSUME AccountsInv, NEW s \in Sessions, NEW u \in Users, NEW mb \in Mailboxes, Create(s, u, mb)
    PROVE  AccountsInv'
<1>1. /\ boxes' = [boxes EXCEPT ![<<u, mb>>] = "there"] /\ data' = TRUE
      /\ UNCHANGED <<file, pc, handler, accounts, session, rcpts, proved, acked, replaced>>
  BY DEF Create, Ensure
<1>2. /\ boxes' \in [Users \X Mailboxes -> {"none", "there", "deleted"}]
      /\ \A b \in Users \X Mailboxes : boxes[b] # "none" => boxes'[b] # "none"
  BY <1>1 DEF AccountsInv, Shape
<1> QED
  BY <1>1, <1>2, MailboxesKeep

\* Mailboxes that are taken away are deleted, and were there.
LEMMA TakenType ==
    ASSUME AccountsInv, NEW gone \in SUBSET (Users \X Mailboxes)
    PROVE  /\ Taken(gone) \in [Users \X Mailboxes -> {"none", "there", "deleted"}]
           /\ \A b \in Users \X Mailboxes : boxes[b] # "none" => Taken(gone)[b] # "none"
BY DEF AccountsInv, Shape, Taken

LEMMA ThereType ==
    ASSUME NEW dir \in Directories PROVE There(dir.mailboxes) \subseteq Users \X Mailboxes
<1>1. dir.mailboxes \subseteq Users \X Mailboxes
  <2>1. CASE dir = [mailboxes |-> Users \X Mailboxes, top |-> TRUE]
    BY <2>1
  <2>2. CASE \E b \in Users \X Mailboxes : dir.mailboxes = {b}
    BY <2>2
  <2>3. CASE \E u \in Users : dir.mailboxes = {u} \X Mailboxes
    BY <2>3
  <2> QED
    BY <2>1, <2>2, <2>3 DEF Directories
<1> QED
  BY <1>1 DEF There

LEMMA DeleteKeeps ==
    ASSUME AccountsInv, NEW s \in Sessions, NEW dir \in Directories, Delete(s, dir)
    PROVE  AccountsInv'
<1>1. /\ pc["imap"] = "up" /\ boxes' = Taken(There(dir.mailboxes))
      /\ UNCHANGED <<pc, handler, accounts, session, rcpts, proved, acked>>
  BY DEF Delete
<1>2. /\ data' \in BOOLEAN
      /\ UNCHANGED <<file, replaced>> \/ RemoveFile
  BY DEF Delete, AccountsInv, Shape
<1>3. There(dir.mailboxes) \in SUBSET (Users \X Mailboxes)
  BY ThereType
<1> QED
  BY <1>1, <1>2, <1>3, TakenType, MailboxesKeep

\* The session that ends is none of the handler's, which is idle.
LEMMA DeleteFailsKeeps ==
    ASSUME AccountsInv, NEW s \in Sessions, NEW dir \in Directories, DeleteFails(s, dir)
    PROVE  AccountsInv'
<1>1. /\ pc["imap"] = "up" /\ Ends(s)
      /\ UNCHANGED <<data, pc, handler, accounts, rcpts, acked>>
      /\ (RemoveFile \/ UNCHANGED <<file, replaced>>)
  BY DEF DeleteFails
<1>2. PICK gone \in SUBSET There(dir.mailboxes) : boxes' = Taken(gone)
  BY DEF DeleteFails
<1>3. gone \in SUBSET (Users \X Mailboxes)
  BY <1>2, ThereType
<1>4. /\ boxes' \in [Users \X Mailboxes -> {"none", "there", "deleted"}]
      /\ \A b \in Users \X Mailboxes : boxes[b] # "none" => boxes'[b] # "none"
  BY <1>2, <1>3, TakenType
<1>5. /\ session' \in [Sessions -> Users \union {NoUser}] /\ session'[s] = NoUser
      /\ proved' \in [Sessions -> Passwords \union {NoPassword}]
      /\ \A t \in Sessions \ {s} : session'[t] = session[t] /\ proved'[t] = proved[t]
  BY <1>1, EndsType
<1>6. file' \in {file, NoFile} /\ replaced' \in BOOLEAN
  BY <1>1 DEF RemoveFile, AccountsInv, Shape
<1>7. Shape'
  BY <1>1, <1>4, <1>5, <1>6 DEF AccountsInv, Shape, Handling
<1>8. Doing'
  BY <1>1, <1>5 DEF AccountsInv, Doing, Handling
<1>9. Made'
  <2>1. \A t \in Sessions : session[t] # NoUser => session[t] \in Users
    BY DEF AccountsInv, Shape
  <2> QED
    BY <1>1, <1>4, <1>5, <2>1 DEF AccountsInv, Made, Handling, Mailboxes
<1>10. ASSUME ~replaced' PROVE Remembered'
  <2>1. ~replaced /\ Load' = Load
    <3>1. CASE UNCHANGED <<file, replaced>>
      BY <1>10, <3>1 DEF Load
    <3>2. CASE RemoveFile
      <4>1. ~replaced /\ \A u \in Users : Load[u] = NoPassword
        BY <1>10, <3>2 DEF RemoveFile, Known
      <4>2. Load = NoAccounts
        BY <4>1, LoadType DEF AccountsInv, Dictionaries, NoAccounts
      <4> QED
        BY <3>2, <4>1, <4>2 DEF RemoveFile, Load
    <3> QED
      BY <1>1, <3>1, <3>2
  <2> QED
    BY <1>1, <1>5, <2>1 DEF AccountsInv, Remembered, Known
<1> QED
  BY <1>7, <1>8, <1>9, <1>10 DEF AccountsInv

LEMMA RenameKeeps ==
    ASSUME AccountsInv, NEW s \in Sessions, NEW old \in Users \X Mailboxes,
           NEW new \in Users \X Mailboxes, Rename(s, old, new)
    PROVE  AccountsInv'
<1>1. /\ boxes' = [boxes EXCEPT ![old] = "deleted", ![new] = "there"]
      /\ UNCHANGED <<data, file, pc, handler, accounts, session, rcpts, proved, acked, replaced>>
  BY DEF Rename
<1>2. /\ boxes' \in [Users \X Mailboxes -> {"none", "there", "deleted"}]
      /\ \A b \in Users \X Mailboxes : boxes[b] # "none" => boxes'[b] # "none"
      /\ data' \in BOOLEAN
  BY <1>1 DEF AccountsInv, Shape
<1> QED
  BY <1>1, <1>2, MailboxesKeep

LEMMA DeliverKeeps ==
    ASSUME AccountsInv, NEW u \in Users, Deliver(u) PROVE AccountsInv'
<1>1. /\ boxes' = [boxes EXCEPT ![<<u, "INBOX">>] = "there"] /\ data' = TRUE
      /\ rcpts' \subseteq rcpts
      /\ UNCHANGED <<file, pc, handler, accounts, session, proved, acked, replaced>>
  BY DEF Deliver, Ensure
<1>2. /\ boxes' \in [Users \X Mailboxes -> {"none", "there", "deleted"}]
      /\ \A b \in Users \X Mailboxes : boxes[b] # "none" => boxes'[b] # "none"
  BY <1>1 DEF AccountsInv, Shape, Mailboxes
<1> QED
  BY <1>1, <1>2, MailboxesKeep

LEMMA AcceptKeeps ==
    ASSUME AccountsInv, NEW u \in Users, Accept(u) PROVE AccountsInv'
<1>1. /\ Known(u) /\ rcpts' = rcpts \union {u}
      /\ UNCHANGED <<data, file, boxes, pc, handler, accounts, session, proved, acked, replaced>>
  BY DEF Accept
<1>2. Shape'
  BY <1>1 DEF AccountsInv, Shape, Handling
<1>3. Doing' /\ Made'
  BY <1>1 DEF AccountsInv, Doing, Made, Handling
<1>4. ~replaced' => Remembered'
  BY <1>1 DEF AccountsInv, Remembered, Load, Known
<1> QED
  BY <1>2, <1>3, <1>4 DEF AccountsInv

LEMMA InitAccountsInv == Init => AccountsInv
<1> SUFFICES ASSUME Init PROVE AccountsInv
  OBVIOUS
<1> USE DEF Init
<1>1. pc["imap"] = "down" /\ pc["smtp"] = "down"
  BY DEF Procs
<1>2. Shape
  BY <1>1 DEF Shape, Procs, NoAccounts, Dictionaries, Handling, Mailboxes
<1> QED
  BY <1>1, <1>2 DEF AccountsInv, Doing, Remembered, Made, Handling

LEMMA NextAccountsInv == AccountsInv /\ [Next]_vars => AccountsInv'
<1> SUFFICES ASSUME AccountsInv, [Next]_vars PROVE AccountsInv'
  OBVIOUS
<1>1. ASSUME NEW p \in Procs, Start(p) \/ WriteEmpty(p) \/ Crash(p) PROVE AccountsInv'
  BY <1>1, StartKeeps, WriteEmptyKeeps, CrashKeeps
<1>2. ASSUME NEW s \in Sessions, NEW u \in Users, NEW typed \in Passwords,
             RegisterRead(s, u, typed) \/ LoginVerify(s, u, typed)
      PROVE  AccountsInv'
  BY <1>2, RegisterReadKeeps, LoginVerifyKeeps
<1>3. ASSUME NEW s \in Sessions, Logout(s) PROVE AccountsInv'
  BY <1>3, LogoutKeeps
<1>4. ASSUME NEW s \in Sessions PROVE
        /\ \A u \in Users, mb \in Mailboxes : Create(s, u, mb) => AccountsInv'
        /\ \A dir \in Directories : Delete(s, dir) \/ DeleteFails(s, dir) => AccountsInv'
        /\ \A old, new \in Users \X Mailboxes : Rename(s, old, new) => AccountsInv'
  BY CreateKeeps, DeleteKeeps, DeleteFailsKeeps, RenameKeeps
<1>5. CASE RegisterSave
  BY <1>5, RegisterSaveKeeps
<1>6. CASE EnsureInbox
  BY <1>6, EnsureInboxKeeps
<1>7. CASE EnsureTrash
  BY <1>7, EnsureTrashKeeps
<1>8. CASE Reply
  BY <1>8, ReplyKeeps
<1>9. CASE HandlerFails
  BY <1>9, HandlerFailsKeeps
<1>10. ASSUME NEW u \in Users, Accept(u) PROVE AccountsInv'
  BY <1>10, AcceptKeeps
<1>11. ASSUME NEW u \in Users, Deliver(u) PROVE AccountsInv'
  BY <1>11, DeliverKeeps
<1>12. CASE UNCHANGED vars
  BY <1>12 DEF vars, AccountsInv, Shape, Doing, Remembered, Made, Handling, Load, Known
<1> QED
  BY <1>1, <1>2, <1>3, <1>4, <1>5, <1>6, <1>7, <1>8, <1>9, <1>10, <1>11, <1>12 DEF Next

(***************************************************************************)
(* The theorems.                                                           *)
(***************************************************************************)
LEMMA AccountsInvariant == Spec => []AccountsInv
BY InitAccountsInv, NextAccountsInv, PTL DEF Spec

\* The state of the accounts, the sessions and the handler keeps its types.
THEOREM AccountsTypeCorrect == Spec => []TypeOK
<1>1. AccountsInv => TypeOK
  <2> SUFFICES ASSUME AccountsInv PROVE TypeOK
    OBVIOUS
  <2>1. Shape
    BY DEF AccountsInv
  <2>2. pc["imap"] \in {"down", "starting", "up", "save", "inbox", "trash", "reply"}
    BY <2>1 DEF Shape, Procs
  <2>3. Handling => handler.session \in Sessions
    BY <2>1 DEF Shape, Handler
  <2> QED
    BY <2>1, <2>2, <2>3 DEF Shape, TypeOK, Handling
<1> QED
  BY <1>1, AccountsInvariant, PTL

\* An account whose REGISTER was answered keeps its password, whichever users,
\* passwords and sessions there are and wherever the processes crash.
THEOREM PasswordsKept == Spec => []AcknowledgedStays
<1>1. AccountsInv => AcknowledgedStays
  BY DEF AccountsInv, Remembered, AcknowledgedStays
<1> QED
  BY <1>1, AccountsInvariant, PTL

\* Nobody is logged in without the password that is on file.
THEOREM LoginsProved == Spec => []SessionsProved
<1>1. AccountsInv => SessionsProved
  BY DEF AccountsInv, Remembered, SessionsProved
<1> QED
  BY <1>1, AccountsInvariant, PTL

\* REGISTER, LOGIN and the deliveries make mailboxes for users with accounts
\* only: what a handler has verified or saved, and what RCPT has checked, still
\* holds when the mailbox is made.
THEOREM NoStrayMailboxes == Spec => MadeForAccounts
<1> DEFINE Appear == There(Users \X Mailboxes)' \ There(Users \X Mailboxes)
           ForAccounts == UNCHANGED <<pc, rcpts>> \/ replaced \/ \A b \in Appear : Known(b[1])
<1>1. ASSUME AccountsInv, [Next]_vars PROVE ForAccounts
  <2>1. CASE UNCHANGED boxes \/ UNCHANGED <<pc, rcpts>>
    BY <2>1 DEF There
  <2>2. ASSUME NEW u \in Users, NEW mb \in Mailboxes,
               boxes' = [boxes EXCEPT ![<<u, mb>>] = "there"], ~replaced => Known(u)
        PROVE  ForAccounts
    BY <2>2 DEF There, AccountsInv, Shape
  <2>3. pc["imap"] \in {"inbox", "trash"} => handler.user \in Users /\ (~replaced => Known(handler.user))
    <3>1. pc["imap"] \in {"inbox", "trash"} => handler \in Handler
      BY <1>1 DEF AccountsInv, Shape, Handling
    <3>2. pc["imap"] \in {"inbox", "trash"} /\ ~replaced => Load[handler.user] = handler.typed
      BY <1>1 DEF AccountsInv, Remembered
    <3> QED
      BY <3>1, <3>2, AccountsAssumption DEF Handler, Known
  <2>4. CASE EnsureInbox \/ EnsureTrash
    BY <2>2, <2>3, <2>4 DEF EnsureInbox, EnsureTrash, Ensure, Mailboxes
  <2>5. ASSUME NEW u \in Users, Deliver(u) PROVE ForAccounts
    <3>1. ~replaced => Known(u)
      BY <1>1, <2>5 DEF Deliver, AccountsInv, Remembered
    <3>2. boxes' = [boxes EXCEPT ![<<u, "INBOX">>] = "there"] /\ "INBOX" \in Mailboxes
      BY <2>5 DEF Deliver, Ensure, Mailboxes
    <3> HIDE DEF ForAccounts
    <3> QED
      BY <2>2, <3>1, <3>2
  <2>6. ASSUME NEW s \in Sessions PROVE
          /\ \A u \in Users, mb \in Mailboxes : Create(s, u, mb) => UNCHANGED <<pc, rcpts>>
          /\ \A dir \in Directories : Delete(s, dir) \/ DeleteFails(s, dir) => UNCHANGED <<pc, rcpts>>
          /\ \A old, new \in Users \X Mailboxes : Rename(s, old, new) => UNCHANGED <<pc, rcpts>>
          /\ \A u \in Users, typed \in Passwords :
                 RegisterRead(s, u, typed) \/ LoginVerify(s, u, typed) => UNCHANGED boxes
          /\ Logout(s) => UNCHANGED boxes
    BY DEF Create, Delete, DeleteFails, Rename, RegisterRead, LoginVerify, Logout
  <2>7. CASE \E p \in Procs : Start(p) \/ WriteEmpty(p) \/ Crash(p)
    BY <2>1, <2>7 DEF Start, WriteEmpty, Crash
  <2>8. CASE RegisterSave \/ Reply \/ HandlerFails \/ \E u \in Users : Accept(u)
    BY <2>1, <2>8 DEF RegisterSave, Reply, HandlerFails, Accept
  <2>9. CASE UNCHANGED vars
    BY <2>1, <2>9 DEF vars
  <2> QED
    BY <1>1, <2>1, <2>4, <2>5, <2>6, <2>7, <2>8, <2>9 DEF Next
<1> QED
  BY <1>1, AccountsInvariant, PTL DEF Spec, MadeForAccounts, Appear, ForAccounts

\* LOGIN leaves no user without the two mailboxes, also one whose REGISTER
\* stopped half-way.
THEOREM MailboxesUpgraded == Spec => []LoggedInHasMailboxes
<1>1. AccountsInv => LoggedInHasMailboxes
  BY DEF AccountsInv, Made, Handling, LoggedInHasMailboxes
<1> QED
  BY <1>1, AccountsInvariant, PTL
===============================================================================
