# Verification of the mail servers

TLA+ modules, TLC configurations and TLAPS proofs about the repository in
`src/`: an IMAP server and an SMTP server, two operating system processes that
serve local accounts out of one shared data directory. Every definition is
translated from the source; `PROJECT.json` names the lines behind each one.

Run TLC on a configuration with `tlc -workers 2 -config X.cfg MCModule.tla`
and the prover with `tlapm XProofs.tla`.

## The system

| component | source | its state | what changes it |
|---|---|---|---|
| Maildir storage | `storage/maildir_backend.py` | per mailbox: files under `tmp/`, `new/`, `cur/`, and `uidlist.json` (uidvalidity, next_uid, file name → UID) | `ensure_mailbox`, `deliver_message`, `_scan` (behind every listing), `set_flags`, `move_message`, `expunge`; DELETE and RENAME act on the directory from outside |
| JSON files | `_write_uidlist`/`_read_uidlist`, `_write_all`/`_read_all` | `path` and `path.tmp` | a save: dump into the `.tmp` file, then `os.replace` |
| Accounts | `accounts/store.py` | `accounts.json` | `create_account`; `__init__` when the file is missing |
| SMTP session | `smtp_server/commands/delivery.py`, `server/session.py` | state, mail_from, rcpt_to, in_data_mode | HELO, MAIL, RCPT, DATA, the dot, RSET, QUIT |
| SMTP connection | `smtp_server/server/tcp_server.py` | data_buffer, the byte stream | a line, the end of the stream, an exception |
| IMAP session | `imap_server/commands/`, `server/session.py` | state, username, selected_mailbox, readonly | 21 commands |
| IMAP connection | `imap_server/server/tcp_server.py` | the byte stream | a line, the end of the stream, an exception |
| IMAP parser | `imap_server/server/parser.py` | none | `parse_line` for each line |
| configuration, TLS, entry points | `config.py`, `*/main.py` | none after the start | – |

How they interact. Each server process builds one `AccountStore` and one
`MaildirBackend` over the same directory. Inside a process a handler is a
synchronous function called from one asyncio thread: between two `await`s, that
is between two lines of input, nothing else runs, so a process executes one
command at a time, whichever connection it comes from. The locks of the two
classes are `threading.Lock`s and therefore never order steps of the two
processes. The SMTP server calls `deliver_message` for the INBOX of each
recipient and for the Sent mailbox of the sender; it never lists, renames or
removes a delivered file. Everything else is done by the IMAP server.

What is hard: the file operations of two processes interleave; an exception
closes a connection in the middle of a command, a crash stops a process between
any two file operations, and only the disk survives; an SMTP client that did not
see a reply sends its message again; the stream may end inside a line; an IMAP
client holds sequence numbers and UIDs while deliveries and other sessions
change the mailbox. `PROJECT.json` lists these hazards at their lines.

What makes each component correct:

* storage – a UID names one message, for good; no crash loses a message; no file
  operation meets a file that is gone; a mailbox only one process touches keeps
  all of this whatever happens in the others;
* JSON files – a reader sees a whole document, the last one saved;
* SMTP – a message goes to exactly the recipients and sender its client named,
  whole; `250` means it is stored; retries duplicate it but send it nowhere new;
  every line is answered;
* IMAP – a client's sequence numbers, UIDs and message sets keep naming the
  messages it thinks, also when a command stops half-way; EXAMINE changes
  nothing; a FETCH sends what was asked for; `\Seen` appears only when something
  was read;
* accounts – an account whose REGISTER was answered keeps the password its client
  typed; whoever is logged in typed it; REGISTER, LOGIN and deliveries make
  mailboxes for users with accounts only, and after LOGIN they are there.

## Modules

| module | models | proofs |
|---|---|---|
| `Maildir` | the storage backend, one action per file operation, both processes, DELETE and RENAME, crashes | `MaildirProofs`, `MaildirFilesProofs`, `MailboxProofs` |
| `JsonFile` | the save through `.tmp` and the load, block by block, on inodes | `JsonFileProofs` |
| `Mailbox` | the abstract specification of the storage: messages that arrive, are shown, flagged, copied and removed | `MailboxProofs` |
| `Register` | the abstract specification of a JSON file: an atomic document | `JsonFileProofs` |
| `SmtpSession` | SMTP handlers, connection loop, delivery, clients that retry | `SmtpProofs` |
| `ImapSession` | IMAP handlers on mailboxes, and what a client makes of the replies | `ImapProofs` |
| `CommandLine` | the tokenizer of the IMAP parser, and how clients write a line | `CommandLineProofs` |
| `Accounts` | the account store between the two servers, REGISTER and LOGIN step by step; extends `CommandLine` | `AccountsProofs` |
| `MCMaildir`, `MCJsonFile`, `MCSmtpSession`, `MCImapSession`, `MCAccounts` | values of the constants for TLC | – |

**Maildir.** `pc[p]` is the file operation process `p` is about to do; `box`,
`held`, `data`, `view`, `got`, `copyUid` are the locals of the running
routine. `Start…` are the calls, `AfterEnsure` and `stage` say where a routine
continues, so `move_message`, which calls `get_message`, `deliver_message`,
`set_flags` and `_scan`, is those routines in the order of the code. A file is
its base name, its directory and its flags; `origin` is the message its content
holds, which is what a copy shares with the file it copies. `_scan` chooses any
numbering that `listdir`'s arbitrary order allows, `new/` before `cur/`. The
read-modify-write of `uidlist.json` is two steps, and the other process may act
between them; each half is atomic, which the module `JsonFile` justifies for one
writer and refutes for two that overlap. `Fail(p)` is an exception or a crash
before any step. `ManualDrop` is the file put into `new/` by hand for which
`_scan` has its branch. History variables record what callers were shown
(`seen`), what reached `new/` (`accepted`) and what EXPUNGE, DELETE and RENAME took
away (`expunged`).

DELETE and RENAME go round the backend: they ask neither `ensure_mailbox` nor a
lock. `tree` says whether the directory of a mailbox is there, whole, or only part
of it. `StartDelete` begins `shutil.rmtree`, which takes one entry at a time in any order
(`RmtreeFile`, `RmtreeUidlist`, `RmtreeDone`); the SMTP server may deliver in between, and
either of the two may raise because of the other (`RmtreeRaises`, `DeliverRaises`).
`Missing` are the steps of `deliver_message` whose directory, file or list is gone.
RENAME is one step, to a name outside `Mailboxes`; `ImapSession` has both names. While the
IMAP process removes a mailbox it runs no other operation, so only deliveries can meet
a removal.
`Mailbox` is what the storage promises, one step per effect: `IsMailbox` maps a
message to a file listed in `new/` or `cur/` and what was shown to `seen`, so that a
write under `tmp/`, a rewrite of `uidlist.json` and a read are stutters, and the
rename, the removal and the moment a routine returns are the steps. A mailbox whose
directory is partly gone is `leaving`: its messages may go one by one.

**JsonFile.** Names refer to inodes, processes hold inodes open, a text is a
number of blocks written one by one. `open(…, "w")` truncates whatever the
name refers to, also when another process is writing it; a write behind the end
leaves a hole; `os.replace` moves the name, and readers keep the inode they have
open. `Register` is the promise; `JsonFile!IsRegister` maps the live file's
decoded content to its value, a load taking effect when the file is opened.

**SmtpSession.** The session records of the server, the buffer of the connection
loop, and one client per connection, which keeps the transaction that the
replies it got amount to. A line is sent, handled and answered in one step: no
session is touched by another connection, so a lost line or reply is one that a
client that is already gone did not send or read (`Break`). Clients do not
pipeline: the server announces no extension. The delivery is
`DeliverNext` for each recipient, then `Finish` for Sent, with an exception or a
crash possible between them. A client whose message was not acknowledged may
send it again on any connection. `BreakAfterDot` is the end of the stream after
the first byte of a dot-stuffed line.

**ImapSession.** One user's mailboxes, with every backend call atomic, sessions,
and for each the client's list of messages. A command names messages by a message
set, `Sets`, which `Expand` reads as `_expand_uid_set` does; commands by sequence
number and by UID are then one action, since a handler turns the one into the other
on the listing it has just read. `MOVE` and `UID MOVE` differ in the order of the
moves and keep it (`byNumber`). A FETCH asks for a set of contents with or without
PEEK (`FetchArgs`); `Sent` and `Marks` are which of them the reply has and whether it
marks the message. Each command that calls the backend for several messages has a
`…Fails` action: an exception after some of the calls closes the connection without a
reply (what a single call leaves half done is in `Maildir`). `Current` creates the
selected mailbox again when it is gone, as `_scan` does. `born` gives every mailbox
an identity in place of `int(time.time())`. An IMAP client fetches the UIDs after
SELECT and after a NOOP; it removes an entry for each EXPUNGE reply. `ReplyOnly` are
the commands and refusals that change nothing.

**CommandLine and Accounts.** A line is a sequence of characters of which three are
special, and `Scan` is what `_tokenize` does with the next one. A client writes a
word between quotes with backslashes, or as it is when that is an atom (`Written`);
`Received` is what the handler then gets. `create_account` is `RegisterRead` and
`RegisterSave`, and REGISTER and LOGIN go on to `EnsureInbox`, `EnsureTrash` and
`Reply`, with an error or a crash possible before each, and the SMTP process acting
between them: it accepts addresses of accounts it finds and creates their INBOX
at the delivery.

CREATE, DELETE, RENAME, SELECT and STATUS join the name they get to the user's
directory as it is written (`maildir_backend.py:124-131`), so the model lets them name what
such a path can lead to: the mailbox of any user, with an account or without (`Create`,
`Rename`), or, in `Directories`, a mailbox, a user's directory or the data directory with
`accounts.json` (`Delete`). `DeleteFails` is an `rmtree` that raises half-way and ends the session.
Without the data directory (`data`) a save fails until `ensure_mailbox` or a starting
server has made it again. A RENAME of a directory with several mailboxes takes them one
after the other. `Start` and `WriteEmpty` are the two halves of
`AccountStore.__init__`. A password stands for its hash.

## Runs

| run | question | bounds |
|---|---|---|
| `MaildirOneServer` | Is the storage correct for one process with crashes and hand-dropped files? UID uniqueness, non-reuse, stability, no lost or duplicated message, no missing file, no KeyError; and does every step implement one of `Mailbox` (`IsMailbox`)? | 2 mailboxes, 3 file names, 1 failure, 1 DELETE or RENAME, UIDs 1–2, 4 flag changes |
| `MaildirTwoServers` | What survives when SMTP delivers into INBOX meanwhile, and INBOX is deleted or renamed under a delivery? | 2 mailboxes, 3 file names, 1 failure, DELETE or RENAME, 1 flag change |
| `MaildirUidReused` (violation) | Is a UID stable and unique, as `models.py:46-47` says, with both servers? | no failure at all |
| `MaildirWrongMove` (violation) | Can MOVE lose a message, which `maildir_backend.py:372-374` excludes? | no failure at all |
| `JsonSaves` | Does a file two processes save implement the register until two saves overlap, and is it whole until then? | 2 processes, documents of 1 and 2 blocks, 4 inodes |
| `JsonTorn` (violation) | Is the access safe between the two servers, as `store.py:49-53` says? | the same |
| `Smtp` | Are messages delivered whole, to those the client named, and is `250` true, with broken connections, errors, crashes and retries? Is every line answered? | 2 connections, 2 recipients a transaction, 2 transactions reaching DATA, a plain and a dotted message |
| `SmtpTruncated` (violation) | Is a message what came before `<CRLF>.<CRLF>`? | the same |
| `ImapTwoSessions` | Do the sequence numbers, UIDs and message sets of two clients keep naming the same messages, and does none vanish, with deliveries, with mailboxes deleted, renamed and created again, and with commands stopped half-way? | 2 messages, 2 names, 3 mailboxes ever, UIDs 1–2, 4 message sets, 2 flags, sessions symmetric |
| `ImapExamine` (violation) | Does EXAMINE leave the mailbox as it is? | 1 session |
| `ImapFetchOmits` (violation) | Does a FETCH reply have what was asked for? | 1 session, `BODY[]` and `BODY.PEEK[]` |
| `Accounts` | Do accounts survive, and are passwords the ones clients typed, with crashes and starts of both servers at any step, and with names that lead anywhere below the data directory? For whom are mailboxes made? | 2 users, 2 sessions, the empty password, one with a space and a quote, one with a backslash |

Why the bounds are enough. Each hazard of the storage needs one operation of each
process, two files that compete for a UID and, for MOVE, the copy: three names.
One failure lets every prefix of every operation be what a later operation finds
on disk, and one removal lets every step of a delivery meet each stage of a DELETE or
RENAME; in the larger system of two servers a run has the one or the other
(`MCOneMishap`), since a stop in the middle of a removal leaves what `RmtreeRaises`
leaves, too. Two blocks are what it takes for a text to be partly written, and four
inodes for the live file, the temporary one and those two processes hold open.
In SMTP two connections let one client retry what another one's broken
connection left, and two transactions on one connection let state of the first
leak into the second. In IMAP two messages distinguish ascending from descending
order, and with two names a third mailbox is one created again under a used name; the
message sets are a number, a reversed range, a range to `*`, and a list with a number
that names nothing; STORE replaces and removes flags, and FETCH adds one. In `Accounts` the passwords hold every character the tokenizer treats
apart, in both ways to write them, and two sessions let one be logged in while
another one tries to register the name again; the IMAP process runs one handler at a
time, so a third adds nothing.
`MCView` of `MCMaildir` leaves out locals of a finished operation, which the next
one overwrites before reading; that of `MCJsonFile` the contents of inodes
nothing refers to; that of `MCImapSession` the lists of disturbed clients, what was told
of mailboxes and read of messages that are gone, and the contents of replies, which only `ImapFetchOmits`
(run without it) asks about. Every bound is a constant whose name starts with `Max`, or
the set it limits (`Uids`, `Inodes`).

Fairness. Only `SmtpSession` has a liveness property, that a line is answered or
the connection ends, and only delivery is fair: once the dot is read
`handle_data_end` runs to its end or raises, and nothing else runs in the thread
until then. Clients are never assumed to act. The other specifications have no
fairness, since the servers only react.

## What the violations show

Six runs show the code doing something else than it says; `PROJECT.json` quotes
the lines.

* `MaildirUidReused`: the two servers' rewrites of `uidlist.json` overlap, the later
  one restores the old counter, and two messages are shown under one UID.
* `MaildirWrongMove`: `move_message` looks up the original a second time by UID; after
  such a reuse it removes another message than the one it copied.
* `JsonTorn`: two saves share one `.tmp` name, and a half-written text becomes the
  live file.
* `SmtpTruncated`: `readline` returns an incomplete line at the end of the stream; a
  lone `.` of a dot-stuffed line ends the message, which is delivered truncated.
* `ImapFetchOmits`: `_append_fetch_data_items` looks for the text `BODY[]`, which is not
  in `BODY.PEEK[]`; such a FETCH is completed without the message.
* `ImapExamine`: STORE, UID STORE and EXPUNGE do not look at `readonly`.

The properties of the passing runs name the boundary of each: mailboxes that SMTP
does not deliver to (`Private…`), saves that do not overlap
(`WholeUnlessOverlapped`, `RegisterUntilOverlap`), connections that were not cut inside a dotted line
(`WholeUnlessCut`), sessions whose mailbox was not changed behind their back
(`SyncUnlessDisturbed`; after EXPUNGE that is accepted by the comment at
`messages.py:319-322`), deliveries whose mailbox is not deleted or renamed meanwhile
(`taken` in `FilesStillThere`), and data directories in which `accounts.json` with accounts was
neither replaced nor removed (`replaced`). It is removed by a DELETE or RENAME whose name
leads to the data directory. It is replaced at a start: `AccountStore.__init__` looks for the file and
then writes an empty one, and when both servers start on an empty directory at once,
the accounts the other has registered in between are gone.

## Proofs

Every theorem holds for all values of the constants that satisfy the named
assumption of its module (`ConstantsAssumption`, `FileAssumption`,
`SmtpAssumption`, `ImapAssumption`, `CharsAssumption`, `AccountsAssumption`):
mailboxes, flags, documents, connections, sessions, users, messages, message sets
and all bounds are arbitrary. The assumptions say what kind of thing a constant
is (a set of flags among the flags, a range with one or two ends, user names that
are atoms). Some theorems have a hypothesis of their own, named below. Each one rests on an
inductive invariant, of which these are the parts that the stated property
needs and does not say.

**The storage** (`MaildirProofs`, `MaildirFilesProofs`, `MailboxProofs`)

* `TypeCorrect` – `TypeOK`. `ScanList` adds the number of unknown files to `next`, a
  natural number only if the directory is finite: `TypeInv == TypeOK /\ FilesFinite`.
* `UidsNeverReused` – `PrivateUidNeverReused`, from `UidInv`. Each UID ever shown is
  below the `next_uid` on disk and lists give no UID twice (`ListsSound`). That a
  rewrite keeps this needs what the process knows at each step: its copy equals the
  file between read and rewrite (`CopyCurrent`), a scan only extends it, the entry
  of a renamed file is still there (`HeldListed`), and a mailbox without a list has
  shown nothing (`CreateAbsent`). Private mailboxes are those for which nobody else
  makes these facts stale.
* `UidlistsInjective` – `UidlistInjective` when SMTP delivers nowhere
  (`SmtpBoxes = {}`): every mailbox is then private. The run of this property,
  `MaildirOneServer`, has the same condition, and `MaildirUidReused` shows what
  happens without it.
* `FilesNeverVanish` – `FilesStillThere` with both processes running, from
  `FilesInv`: base names are fresh and belong to one file, maps have one entry per
  name, so an entry a scan returned is about a file that only the operation itself
  can take away, and a delivery's file under `tmp/` is in no listing. DELETE and RENAME run
  when the IMAP process is idle and only take away (`RemovalLoses`), so they can hurt
  a delivery alone, which `taken` then says. `EmptiedInvariant` adds that a mailbox without a
  directory has neither files nor a list.
* `UpdatesComplete`, `FilesLeaveSafely` – `PrivateUpdatesComplete` and the action property
  `LeavesSafely`, with both processes running, from `MoveInv`. It adds to the two
  invariants above what `move_message` has done at each of its stages: the
  original stays listed under its UID until it is removed (`OriginalListed`), the
  file being delivered has its content (`HeldCopies`), the copy is listed and, when
  the original is about to go, has its flags (`CopyListed`), and the scans inside
  the operation return what it looks for (`TargetsShown`).
* `MessagesKept` – `NoMessageLost` when `SmtpBoxes = {}`, from `LeavesSafely`'s
  argument: what a MOVE removes has a listed copy. `MaildirWrongMove` shows that the
  hypothesis is needed.
* `MailboxImplemented` – `IsMailbox`, the refinement of `Mailbox` when `SmtpBoxes = {}`:
  one lemma for each step that changes a listing, which names the step of
  `Mailbox` it is; all others leave the listings alone. `SeenInv` adds that names
  shown to callers are not those of files still under `tmp/`.
* `OneCopyKept` – `OneCopy` when `SmtpBoxes = {}`, from `CopyInv`: while nothing failed,
  two listed files with one content are the original and the copy of the MOVE that
  is under way between its rename and its removal.
* `UidsStable` – `PrivateUidStable`, from `StableInv`: while nothing failed, a file that
  was shown to a caller has one entry in the list, under its present name and the
  UID it was shown with, or is the file `set_flags` has just renamed and will enter;
  `move_message` takes UIDs only for names that nobody has heard of.

**JSON files** (`JsonFileProofs`)

* `TornOnlyByOverlap` – `WholeUnlessOverlapped` for any number of processes and
  documents of any length. Before any overlap the temporary file holds a prefix of
  what its one writer dumps and is neither the live file nor open for reading.
* `SavesAreAtomic` – `RegisterUntilOverlap`: from the same invariant, each action maps to
  a stutter or to a step of the register, unless it leaves two saves overlapped.
* `OneSaverIsRegister` – the refinement of `Register` without that condition when at
  most one process saves, since then none ever overlap.
* `JsonTypeCorrect` – `TypeOK`; with `Sizes`, that the blocks of a text are those of a
  document or holes.

**SMTP** (`SmtpProofs`)

* `SmtpTypeCorrect`, `SendersAndRecipientsAgreed` (`TransactionAgreed`), `StoredWhole`
  (`WholeUnlessCut`) – from `SmtpInv`: a session in a transaction has the sender
  and recipients its client has in mind (`Agreed`), the buffer holds the lines sent
  so far (`Begun`), it is empty outside data mode, and the connection that is being
  delivered has left data mode with the whole message (`DeliveryOK`).
* `AcknowledgedStored` – `AckedIsStored`; `Made`: the delivery has stored a copy for each
  recipient it counts. A recipient may be named twice, so copies are counted, by
  induction along the list of recipients.
* `NothingExtra` – `NothingUnasked` for messages that have at least a line
  (`Lines[m] # 0`; all empty messages are alike, so their copies cannot be counted
  apart). `Budget`: copies made, copies the delivery still owes and RCPTs of a
  client that is still sending never exceed the RCPTs accepted.

**IMAP** (`ImapProofs`) – six theorems from one invariant, `ImapInv`

* `ImapTypeCorrect`; `NumbersAgree` (`SyncUnlessDisturbed`); `ToldIsTrue`
  (`ToldStaysTrue`); `SeenIsRead` (`SeenMeansRead`); `MessagesStay` (the action property
  `NothingVanishes`); `SetsNameMessages` (`SetsMeanMessages`).
* `BoxesOK`: a mailbox gives a UID once, below its `next_uid`, and no two mailboxes are
  the same incarnation. `ToldOK`: what was told is about an incarnation there has been
  and a UID below its `next_uid`, so that neither a mailbox created again nor a later
  message can contradict it.
* Every step is reduced to what it does to one mailbox or two: it goes on with it
  (`GoesOn`: same incarnation, UIDs keep their message, counters only grow) or starts
  a new one (`NewBox`), and it keeps what clients know as a prefix of its listing
  (`Kept`) or disturbs those who have it selected. `ShownPrefix` says that messages
  added behind all others leave a known listing a prefix of the new one.
* `MovedAway` is about `EXPUNGE` replies: announced from the highest number down, they
  take from a client's list exactly the entries at these places, so a prefix stays a
  prefix; it needs that each reply's number still names what it named before.
* `ListingIs`, `AscendingIs`, `ExpandIs` and `SpanIs` say what the operators on listings
  and message sets compute, for listings of any length.

**The parser and the accounts** (`CommandLineProofs`, `AccountsProofs`)

* `LinesParse` – whatever a client writes, as an atom or between quotes with escapes,
  is parsed as the command and the arguments it means. `Reading` gives the
  tokenizer's state after each character; the lemmas follow it over a word and a
  space, by induction on the number of characters.
* `AccountsTypeCorrect`, `PasswordsKept` (`AcknowledgedStays`), `LoginsProved`
  (`SessionsProved`), `NoStrayMailboxes` (the action property `MadeForAccounts`), `MailboxesUpgraded`
  (`LoggedInHasMailboxes`) – from `AccountsInv`, and from `LinesParse` for what a handler
  receives. `Remembered`: the dictionary REGISTER has read is still the file when it
  writes it, and what is verified, acknowledged or accepted is on disk, all unless the
  file was replaced or removed. Mailboxes come and go by any name without touching that
  (`MailboxesKeep`); a DELETE of the data directory keeps it only when there was no account.
  `MadeForAccounts` exempts what sessions create by name, which `mailbox.py:149` leaves open. `Made`: the mailboxes a handler has gone through are
  there before it answers.

Inductions on numbers (`Ascending`, `Removed`, `Reading`, `Escapes` are recursive
functions on intervals) go through `NatSets`: a set of numbers that has 0 and
with each number the next one is `Nat`, which follows from the well-foundedness of
`<` in the library.

Only model-checked: `EveryLineAnswered`, a liveness property under fairness, which
the prover does not handle. Every other property of a passing run is a theorem. The
six violations are counterexamples of TLC.

## Not modelled

* The text of replies, headers and bodies, and which messages SEARCH finds.
* A DELETE or RENAME in `Maildir` and `ImapSession` of anything but one mailbox of the user:
  what names that lead elsewhere do to mailboxes and accounts as a whole is in `Accounts`,
  what they do to operations under way is that of a DELETE of the mailboxes concerned.
* The steps of two processes inside an IMAP command: `Maildir` has them for one
  backend call, `ImapSession` takes a call as one step.
* A line of an IMAP client that the end of the stream cuts: it is run as the command
  it then spells, and no property tells the two apart.
* Two mailboxes created in the same second, which share their uidvalidity.
* Password hashing; `list_usernames` and `get_account`, which neither server calls.
* Configuration, TLS and entry points: computed once at the start, without state or
  steps. What they yield (a directory, two sockets, a TLS context) is outside every
  model.

## Plan

Done: `Maildir` with `Mailbox`; `JsonFile` with `Register`; `SmtpSession`; `ImapSession`
with message sets and interrupted commands; `CommandLine` and `Accounts`; theorems
for every safety property of the passing runs. What is left:

1. The safety half of `EveryLineAnswered`: a message whose dot was read is being delivered
   or its connection has ended.
2. A specification of what an IMAP session promises its client alone (a list that
   grows at the end and loses what was announced) and that `ImapSession` implements
   it for a session nothing disturbs.
3. Who gets what in `Accounts` after the file was replaced or removed: what of
   `AccountsInv` holds again from then on.
