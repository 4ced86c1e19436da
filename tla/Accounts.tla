------------------------------- MODULE Accounts -------------------------------
(***************************************************************************)
(* The accounts (accounts/store.py) between the two server processes, the  *)
(* REGISTER and LOGIN of the IMAP server (commands/auth.py), which parses  *)
(* a client's line for them, and the mailboxes they create.                *)
(*                                                                         *)
(* accounts.json is read and written as a whole: what overlapping saves do *)
(* to the file itself is the subject of module JsonFile.  The IMAP process *)
(* runs one handler at a time; between its steps the SMTP process may act, *)
(* and each process may crash and start again.                             *)
(*                                                                         *)
(* CREATE, DELETE and RENAME join the name they get to the directory of    *)
(* their user as it is written: it may name the mailbox of another, the    *)
(* directory of a user or the data directory with accounts.json.           *)
(***************************************************************************)
EXTENDS CommandLine, FiniteSets

CONSTANTS
    Users, NoUser,           \* the names of the users: words, too
    Passwords, NoPassword,   \* the passwords clients choose: words
    Sessions,
    Tag, Register, Login     \* a tag and the names of the two commands

ASSUME AccountsAssumption ==
    /\ NoUser \notin Users /\ NoPassword \notin Passwords
    /\ \A word \in Users \union {Tag, Register, Login} : word \in Seq(Chars) /\ IsAtom(word)
    /\ \A word \in Passwords : word \in Seq(Chars)

VARIABLES
    data,       \* whether the data directory exists
    file,       \* accounts.json: user -> password, or NoFile
    boxes,      \* <<user, mailbox>> -> whether it exists
    pc,         \* process -> what it is doing
    handler,    \* the command the IMAP process is handling
    accounts,   \* the dictionary create_account has read
    session,    \* session -> the user it is authenticated as
    rcpts,      \* users the SMTP process has found to exist
    proved,     \* history: session -> the password its client logged in with
    acked,      \* history: accounts whose REGISTER was completed
    replaced    \* history: a file with accounts was replaced or removed

vars == <<data, file, boxes, pc, handler, accounts, session, rcpts, proved, acked, replaced>>

Procs == {"imap", "smtp"}
Mailboxes == {"INBOX", "Trash"}
NoFile == [u \in {} |-> NoPassword]
NoAccounts == [u \in Users |-> NoPassword]
Idle == [session |-> 0, user |-> NoUser, typed |-> <<>>, password |-> <<>>, register |-> FALSE]

Dictionaries == [Users -> Passwords \union {NoPassword}]
TypeOK ==
    /\ data \in BOOLEAN
    /\ file \in Dictionaries \union {NoFile}
    /\ boxes \in [Users \X Mailboxes -> {"none", "there", "deleted"}]
    /\ pc["imap"] \in {"down", "starting", "up", "save", "inbox", "trash", "reply"}
    /\ pc["smtp"] \in {"down", "starting", "up"}
    /\ pc["imap"] \in {"save", "inbox", "trash", "reply"} => handler.session \in Sessions
    /\ accounts \in Dictionaries
    /\ session \in [Sessions -> Users \union {NoUser}]
    /\ rcpts \subseteq Users
    /\ proved \in [Sessions -> Passwords \union {NoPassword}]
    /\ acked \subseteq Users \X Passwords
    /\ replaced \in BOOLEAN

Init ==
    /\ data = FALSE /\ file = NoFile
    /\ boxes = [b \in Users \X Mailboxes |-> "none"]
    /\ pc = [p \in Procs |-> "down"]
    /\ handler = Idle /\ accounts = NoAccounts
    /\ session = [s \in Sessions |-> NoUser]
    /\ rcpts = {}
    /\ proved = [s \in Sessions |-> NoPassword]
    /\ acked = {} /\ replaced = FALSE

\* _read_all.
Load == IF file = NoFile THEN NoAccounts ELSE file
Known(u) == Load[u] # NoPassword

(***************************************************************************)
(* Both processes: AccountStore.__init__ at the start.                     *)
(***************************************************************************)
Start(p) ==
    /\ pc[p] = "down"
    /\ data' = TRUE
    /\ pc' = [pc EXCEPT ![p] = IF file = NoFile THEN "starting" ELSE "up"]
    /\ UNCHANGED <<file, boxes, handler, accounts, session, rcpts, proved, acked, replaced>>

\* The file was missing when it was checked.
WriteEmpty(p) ==
    /\ pc[p] = "starting" /\ data
    /\ file' = NoAccounts
    /\ replaced' = (replaced \/ \E u \in Users : Known(u))
    /\ pc' = [pc EXCEPT ![p] = "up"]
    /\ UNCHANGED <<data, boxes, handler, accounts, session, rcpts, proved, acked>>

Crash(p) ==
    /\ pc[p] # "down"
    /\ pc' = [pc EXCEPT ![p] = "down"]
    /\ IF p = "imap"
       THEN /\ session' = [s \in Sessions |-> NoUser]
            /\ proved' = [s \in Sessions |-> NoPassword]
            /\ handler' = Idle /\ accounts' = NoAccounts
            /\ UNCHANGED rcpts
       ELSE rcpts' = {} /\ UNCHANGED <<session, proved, handler, accounts>>
    /\ UNCHANGED <<data, file, boxes, acked, replaced>>

(***************************************************************************)
(* The IMAP process.  The client of a session types a command, a user and  *)
(* a password; the handler gets what the parser makes of the line.  It     *)
(* refuses a line that is no command, an empty password, and both commands *)
(* in an authenticated session, with a reply only.                         *)
(***************************************************************************)
Received(name, u, typed) ==
    {Parse(Line(Tag, name, u, text)) : text \in Written(typed)} \ {ParseError}

\* Mutant: whoever registers last has the account.
RegisterReadUnchecked(s, u, typed) ==
    /\ pc["imap"] = "up" /\ session[s] = NoUser
    /\ \E command \in Received(Register, u, typed) :
        /\ Len(command.args) >= 2 /\ command.args[2] # <<>>
        /\ handler' = [session |-> s, user |-> command.args[1], typed |-> typed,
                       password |-> command.args[2], register |-> TRUE]
    /\ accounts' = Load
    /\ pc' = [pc EXCEPT !["imap"] = "save"]
    /\ UNCHANGED <<data, file, boxes, session, rcpts, proved, acked, replaced>>

\* handle_register, create_account: the dictionary is read and the name
\* checked, then the password is hashed.
RegisterRead(s, u, typed) ==
    /\ pc["imap"] = "up" /\ session[s] = NoUser
    /\ \E command \in Received(Register, u, typed) :
        /\ Len(command.args) >= 2 /\ command.args[2] # <<>>
        /\ ~Known(command.args[1])
        /\ handler' = [session |-> s, user |-> command.args[1], typed |-> typed,
                       password |-> command.args[2], register |-> TRUE]
    /\ accounts' = Load
    /\ pc' = [pc EXCEPT !["imap"] = "save"]
    /\ UNCHANGED <<data, file, boxes, session, rcpts, proved, acked, replaced>>

\* The dictionary is written back with the new account.
RegisterSave ==
    /\ pc["imap"] = "save" /\ data
    /\ file' = [accounts EXCEPT ![handler.user] = handler.password]
    /\ pc' = [pc EXCEPT !["imap"] = "inbox"]
    /\ UNCHANGED <<data, boxes, handler, accounts, session, rcpts, proved, acked, replaced>>

\* handle_login: verify_password succeeds.
LoginVerify(s, u, typed) ==
    /\ pc["imap"] = "up" /\ session[s] = NoUser
    /\ \E command \in Received(Login, u, typed) :
        /\ Len(command.args) >= 2
        /\ Known(command.args[1]) /\ Load[command.args[1]] = command.args[2]
        /\ handler' = [session |-> s, user |-> command.args[1], typed |-> typed,
                       password |-> command.args[2], register |-> FALSE]
        /\ session' = [session EXCEPT ![s] = command.args[1]]
    /\ proved' = [proved EXCEPT ![s] = typed]
    /\ pc' = [pc EXCEPT !["imap"] = "inbox"]
    /\ UNCHANGED <<data, file, boxes, accounts, rcpts, acked, replaced>>

\* ensure_mailbox, which makes the directories above it, too.
Ensure(u, mb) ==
    /\ boxes' = [boxes EXCEPT ![<<u, mb>>] = "there"]
    /\ data' = TRUE

\* Mutant: accounts from before the trash are not upgraded.
EnsureInboxOnly ==
    /\ pc["imap"] = "inbox"
    /\ Ensure(handler.user, "INBOX")
    /\ pc' = [pc EXCEPT !["imap"] = IF handler.register THEN "trash" ELSE "reply"]
    /\ UNCHANGED <<file, handler, accounts, session, rcpts, proved, acked, replaced>>

\* Both handlers end with the two mailboxes.
EnsureInbox ==
    /\ pc["imap"] = "inbox"
    /\ Ensure(handler.user, "INBOX")
    /\ pc' = [pc EXCEPT !["imap"] = "trash"]
    /\ UNCHANGED <<file, handler, accounts, session, rcpts, proved, acked, replaced>>

EnsureTrash ==
    /\ pc["imap"] = "trash"
    /\ Ensure(handler.user, "Trash")
    /\ pc' = [pc EXCEPT !["imap"] = "reply"]
    /\ UNCHANGED <<file, handler, accounts, session, rcpts, proved, acked, replaced>>

Done ==
    /\ pc' = [pc EXCEPT !["imap"] = "up"]
    /\ handler' = Idle /\ accounts' = NoAccounts

Reply ==
    /\ pc["imap"] = "reply"
    /\ acked' = IF handler.register THEN acked \union {<<handler.user, handler.typed>>} ELSE acked
    /\ Done
    /\ UNCHANGED <<data, file, boxes, session, rcpts, proved, replaced>>

\* The connection ends.
Ends(s) ==
    /\ session' = [session EXCEPT ![s] = NoUser]
    /\ proved' = [proved EXCEPT ![s] = NoPassword]

\* An I/O error in one of the steps; the client gets no reply.
HandlerFails ==
    /\ pc["imap"] \in {"save", "inbox", "trash", "reply"}
    /\ Ends(handler.session) /\ Done
    /\ UNCHANGED <<data, file, boxes, rcpts, acked, replaced>>

\* LOGOUT, or the end of the stream.
Logout(s) ==
    /\ pc["imap"] = "up" /\ session[s] # NoUser
    /\ Ends(s)
    /\ UNCHANGED <<data, file, boxes, pc, handler, accounts, rcpts, acked, replaced>>

\* CREATE, SELECT, STATUS and whatever else lists a mailbox, of any user.
Create(s, u, mb) ==
    /\ pc["imap"] = "up" /\ session[s] # NoUser
    /\ Ensure(u, mb)
    /\ UNCHANGED <<file, pc, handler, accounts, session, rcpts, proved, acked, replaced>>

\* What DELETE and RENAME can name: a mailbox, the directory of a user, or the
\* data directory; each with the mailboxes below it.
Directories ==
    [mailboxes : {{b} : b \in Users \X Mailboxes} \union {{u} \X Mailboxes : u \in Users}, top : {FALSE}]
    \union {[mailboxes |-> Users \X Mailboxes, top |-> TRUE]}

There(mailboxes) == {b \in mailboxes : boxes[b] = "there"}
Taken(mailboxes) == [b \in Users \X Mailboxes |-> IF b \in mailboxes THEN "deleted" ELSE boxes[b]]

\* accounts.json goes with the data directory.
RemoveFile ==
    /\ file' = NoFile
    /\ replaced' = (replaced \/ \E u \in Users : Known(u))

\* DELETE, or a RENAME to a name that is no mailbox's.
Delete(s, dir) ==
    /\ pc["imap"] = "up" /\ session[s] # NoUser
    /\ IF dir.top THEN data ELSE There(dir.mailboxes) # {}
    /\ boxes' = Taken(There(dir.mailboxes))
    /\ IF dir.top THEN data' = FALSE /\ RemoveFile ELSE UNCHANGED <<data, file, replaced>>
    /\ UNCHANGED <<pc, handler, accounts, session, rcpts, proved, acked>>

\* shutil.rmtree raises half-way.
DeleteFails(s, dir) ==
    /\ pc["imap"] = "up" /\ session[s] # NoUser
    /\ \E gone \in SUBSET There(dir.mailboxes) : boxes' = Taken(gone)
    /\ \/ dir.top /\ RemoveFile
       \/ UNCHANGED <<file, replaced>>
    /\ Ends(s)
    /\ UNCHANGED <<data, pc, handler, accounts, rcpts, acked>>

\* RENAME to where a mailbox can be; that of a directory, mailbox by mailbox.
Rename(s, old, new) ==
    /\ pc["imap"] = "up" /\ session[s] # NoUser
    /\ boxes[old] = "there" /\ boxes[new] # "there"
    /\ boxes' = [boxes EXCEPT ![old] = "deleted", ![new] = "there"]
    /\ UNCHANGED <<data, file, pc, handler, accounts, session, rcpts, proved, acked, replaced>>

(***************************************************************************)
(* The SMTP process.                                                       *)
(***************************************************************************)

\* Mutant: RCPT believes its client.
AcceptAnyone(u) ==
    /\ pc["smtp"] = "up"
    /\ rcpts' = rcpts \union {u}
    /\ UNCHANGED <<data, file, boxes, pc, handler, accounts, session, proved, acked, replaced>>

\* MAIL and RCPT: account_exists.
Accept(u) ==
    /\ pc["smtp"] = "up" /\ Known(u)
    /\ rcpts' = rcpts \union {u}
    /\ UNCHANGED <<data, file, boxes, pc, handler, accounts, session, proved, acked, replaced>>

\* deliver_message creates the mailbox.
Deliver(u) ==
    /\ pc["smtp"] = "up" /\ u \in rcpts
    /\ Ensure(u, "INBOX")
    /\ rcpts' = rcpts \ {u}
    /\ UNCHANGED <<file, pc, handler, accounts, session, proved, acked, replaced>>

Next ==
    \/ \E p \in Procs : Start(p) \/ WriteEmpty(p) \/ Crash(p)
    \/ \E s \in Sessions :
        \/ \E u \in Users, typed \in Passwords : RegisterRead(s, u, typed) \/ LoginVerify(s, u, typed)
        \/ Logout(s)
        \/ \E u \in Users, mb \in Mailboxes : Create(s, u, mb)
        \/ \E dir \in Directories : Delete(s, dir) \/ DeleteFails(s, dir)
        \/ \E old, new \in Users \X Mailboxes : Rename(s, old, new)
    \/ RegisterSave \/ EnsureInbox \/ EnsureTrash \/ Reply \/ HandlerFails
    \/ \E u \in Users : Accept(u) \/ Deliver(u)

Spec == Init /\ [][Next]_vars

(***************************************************************************)
(* Properties.                                                             *)
(***************************************************************************)

\* An account whose REGISTER was answered keeps the password its client
\* chose, however it was written on the line, whoever registers the name
\* again and whatever crashes; unless a server that found no accounts.json
\* at its start replaced the file after another had put accounts into it, or
\* a DELETE or RENAME took it away with the data directory.
AcknowledgedStays ==
    ~replaced => \A a \in acked : Load[a[1]] = a[2]

\* Whoever is logged in has typed the password of the account, which is the
\* one still on file.
SessionsProved ==
    ~replaced => \A s \in Sessions : session[s] # NoUser => Load[session[s]] = proved[s]

\* A mailbox that comes into being is the one of a user with an account,
\* wherever REGISTER stops and whenever SMTP delivers to a recipient it has
\* checked before; but for what sessions create by name, in steps that neither
\* advance a handler of REGISTER and LOGIN nor deliver.
MadeForAccounts ==
    [][UNCHANGED <<pc, rcpts>> \/ replaced
       \/ \A b \in There(Users \X Mailboxes)' \ There(Users \X Mailboxes) : Known(b[1])]_vars

\* After LOGIN a user has an INBOX and a Trash, also when the REGISTER of the
\* account stopped half-way, unless a session deletes them.
LoggedInHasMailboxes ==
    \A s \in Sessions : session[s] # NoUser /\ handler.session # s =>
        \A mb \in Mailboxes : boxes[<<session[s], mb>>] # "none"
=============================================================================
