------------------------------- MODULE Maildir -------------------------------
(***************************************************************************)
(* storage/maildir_backend.py at the granularity of its file operations.   *)
(*                                                                         *)
(* One user's mailboxes live in one data directory that two operating      *)
(* system processes share: the IMAP server and the SMTP server each build  *)
(* a MaildirBackend of their own (imap_server/server/tcp_server.py:88-89,  *)
(* smtp_server/server/tcp_server.py:104-105).  Handlers are synchronous    *)
(* functions called from one asyncio thread, so a process runs one backend *)
(* operation at a time, and the threading.Lock of a backend never orders   *)
(* steps of the two processes.  A process may stop between any two steps:  *)
(* an exception closes the connection, a crash is followed by a restart,   *)
(* and either way only the disk survives.                                  *)
(*                                                                         *)
(* DELETE and RENAME go past the backend: their handlers remove or rename  *)
(* the mailbox's directory (imap_server/commands/mailbox.py:160-179), and  *)
(* may do so between any two steps of the SMTP server's deliver_message.   *)
(*                                                                         *)
(* uidlist.json is read and replaced atomically here; how its rewrite      *)
(* through uidlist.json.tmp behaves is the subject of module JsonFile.     *)
(***************************************************************************)
EXTENDS Naturals, FiniteSets

CONSTANTS
    Mailboxes,    \* the mailboxes of the user
    SmtpBoxes,    \* those the SMTP server delivers to (INBOX and Sent)
    DropBoxes,    \* those a message may be put into by hand
    Flags,        \* the message flags of storage/models.py
    Deleted,      \* the flag \Deleted
    StoreArgs,    \* the [mode, flags] pairs callers pass to set_flags
    Uids,         \* the UIDs callers ask for, present or not
    MaxFiles,     \* bound: file names ever generated
    MaxRemovals,  \* bound: DELETEs and RENAMEs
    MaxFailures   \* bound: exceptions and crashes

Modes == {"replace", "add", "remove"}

ASSUME ConstantsAssumption ==
    /\ SmtpBoxes \subseteq Mailboxes
    /\ DropBoxes \subseteq Mailboxes
    /\ Mailboxes # {}
    /\ Deleted \in Flags
    /\ StoreArgs \subseteq [mode : Modes, flags : SUBSET Flags]
    /\ Uids \subseteq Nat
    /\ MaxFiles \in Nat
    /\ MaxRemovals \in Nat
    /\ MaxFailures \in Nat

Procs == {"imap", "smtp"}

\* Only the IMAP process ever touches these.
PrivateBoxes == Mailboxes \ SmtpBoxes

(***************************************************************************)
(* A file is its name and its content.  The name is a base that is never   *)
(* generated twice, followed, in cur/ only, by ":2," and the letters of    *)
(* its flags; origin is the message the content holds, so a copy made by   *)
(* MOVE has a base of its own and the origin of the file it copies.        *)
(***************************************************************************)
File == [base : Nat, origin : Nat, dir : {"tmp", "new", "cur"}, flags : SUBSET Flags]

Entry == [file : File, uid : Nat]

\* The content of uidlist.json; next is 0 while the file does not exist.
Uidlist == [next : Nat, map : SUBSET Entry]

NoUidlist == [next |-> 0, map |-> {}]
\* Mutant: a fresh uidlist.json without its counter.
UncountedUidlist == [map |-> {}]

FreshUidlist == [next |-> 1, map |-> {}]

\* data["map"][file] = uid, and del data["map"][file], on the dict of entries.
Del(map, file) == {e \in map : e.file # file}
Put(map, file, uid) == Del(map, file) \union {[file |-> file, uid |-> uid]}
HasKey(map, file) == \E e \in map : e.file = file

VARIABLES
    tree,      \* mailbox -> its directory: "none", "whole" (with tmp/, new/ and
               \* cur/), or "part" once shutil.rmtree has begun to empty it
    files,     \* mailbox -> the files under its tmp/, new/ and cur/
    uidlist,   \* mailbox -> its uidlist.json
    nextBase,  \* the next base name _unique_maildir_name generates
    pc,        \* process -> the step it is about to take
    box,       \* process -> the mailbox the running routine works on
    held,      \* process -> the file the running routine works on
    data,      \* process -> its copy of uidlist.json
    stage,     \* the routine the IMAP process runs, with the stage of a MOVE
    job,       \* the arguments of the IMAP process's operation
    view,      \* the entries its last _scan returned
    got,       \* the message move_message read
    copyUid    \* the UID of the copy move_message delivered

\* History variables: they record, and no action reads them but Fail's bound.
VARIABLES
    seen,      \* every (mailbox, uid, base) a routine ever returned to an IMAP
               \* command (the SMTP server drops the UID of its deliveries)
    accepted,  \* origins that reached new/
    expunged,  \* origins of the files EXPUNGE, DELETE and RENAME took away
    taken,     \* DELETE or RENAME took files away from the mailbox the SMTP
               \* server delivers to since its delivery began
    removals,  \* DELETEs and RENAMEs so far
    failures   \* exceptions and crashes so far

disk == <<tree, files, uidlist, nextBase>>
imapVars == <<stage, job, view, got, copyUid>>
history == <<seen, accepted, expunged, taken, removals, failures>>
vars == <<disk, pc, box, held, data, imapVars, history>>

Stages == {"create", "list", "store", "expunge", "delete",
           "moveGet", "moveCopy", "moveFlag", "moveRemove"}

Steps == {"idle", "ensure", "create",
          "scanRead", "scanList", "scanWrite", "scanned",
          "tmp", "rename", "deliverRead", "deliverWrite",
          "flagRead", "flagWrite", "removeRead", "removeWrite",
          "expungeRemove", "rmtree"}

Job == [box : Mailboxes, dst : Mailboxes, uid : Nat, mode : Modes, flags : SUBSET Flags]

TypeOK ==
    /\ tree \in [Mailboxes -> {"none", "part", "whole"}]
    /\ files \in [Mailboxes -> SUBSET File]
    /\ uidlist \in [Mailboxes -> Uidlist]
    /\ nextBase \in Nat
    /\ pc \in [Procs -> Steps]
    /\ box \in [Procs -> Mailboxes]
    /\ held \in [Procs -> File]
    /\ data \in [Procs -> Uidlist]
    /\ stage \in Stages
    /\ job \in Job
    /\ view \in SUBSET Entry
    /\ got \in File
    /\ copyUid \in Nat
    /\ seen \in SUBSET [box : Mailboxes, uid : Nat, base : Nat]
    /\ accepted \in SUBSET Nat
    /\ expunged \in SUBSET Nat
    /\ taken \in BOOLEAN
    /\ removals \in Nat
    /\ failures \in Nat

SomeBox == CHOOSE mb \in Mailboxes : TRUE
NoJob == [box |-> SomeBox, dst |-> SomeBox, uid |-> 0, mode |-> "replace", flags |-> {}]
NoFile == [base |-> 0, origin |-> 0, dir |-> "tmp", flags |-> {}]

Init ==
    /\ tree = [mb \in Mailboxes |-> "none"]
    /\ files = [mb \in Mailboxes |-> {}]
    /\ uidlist = [mb \in Mailboxes |-> NoUidlist]
    /\ nextBase = 1
    /\ pc = [p \in Procs |-> "idle"]
    /\ box = [p \in Procs |-> SomeBox]
    /\ held = [p \in Procs |-> NoFile]
    /\ data = [p \in Procs |-> NoUidlist]
    /\ stage = "create"
    /\ job = NoJob
    /\ view = {}
    /\ got = NoFile
    /\ copyUid = 0
    /\ seen = {} /\ accepted = {} /\ expunged = {}
    /\ taken = FALSE /\ removals = 0 /\ failures = 0

(***************************************************************************)
(* Callers.  SMTP's finish_data calls deliver_message; every other         *)
(* operation is called by an IMAP command.                                 *)
(***************************************************************************)

\* Names that operations under way will still generate.
Reserved ==
    (IF pc["smtp"] \in {"ensure", "create", "tmp"} THEN 1 ELSE 0)
    + (IF \/ stage = "moveGet" /\ pc["imap"] # "idle"
          \/ stage = "moveCopy" /\ pc["imap"] \in {"ensure", "create", "tmp"}
       THEN 1 ELSE 0)
SpareName == nextBase + Reserved <= MaxFiles

\* deliver_message, called by the SMTP server.
StartDeliver(mb) ==
    /\ pc["smtp"] = "idle" /\ SpareName
    /\ pc' = [pc EXCEPT !["smtp"] = "ensure"]
    /\ box' = [box EXCEPT !["smtp"] = mb]
    /\ held' = [held EXCEPT !["smtp"] = NoFile]
    /\ data' = [data EXCEPT !["smtp"] = NoUidlist]
    /\ taken' = FALSE
    /\ UNCHANGED <<disk, imapVars, seen, accepted, expunged, removals, failures>>

\* The locals of the calls to come hold nothing yet.
StartImap(s, mb, dst, uid, arg) ==
    /\ pc["imap"] = "idle"
    /\ pc' = [pc EXCEPT !["imap"] = "ensure"]
    /\ box' = [box EXCEPT !["imap"] = mb]
    /\ stage' = s
    /\ job' = [box |-> mb, dst |-> dst, uid |-> uid, mode |-> arg.mode, flags |-> arg.flags]
    /\ held' = [held EXCEPT !["imap"] = NoFile]
    /\ data' = [data EXCEPT !["imap"] = NoUidlist]
    /\ view' = {} /\ got' = NoFile /\ copyUid' = 0
    /\ UNCHANGED <<disk, history>>

NoArg == [mode |-> "replace", flags |-> {}]

\* ensure_mailbox on its own (CREATE, LOGIN, REGISTER).
StartCreate(mb) == StartImap("create", mb, mb, 0, NoArg)
\* list_messages (SELECT, NOOP, STATUS, SEARCH, FETCH).
StartList(mb) == StartImap("list", mb, mb, 0, NoArg)
\* set_flags (STORE, and FETCH of a body).
StartStore(mb, uid, arg) == StartImap("store", mb, mb, uid, arg)
\* expunge.
StartExpunge(mb) == StartImap("expunge", mb, mb, 0, NoArg)
\* move_message: get_message first, even into the same mailbox.
StartMove(mb, dst, uid) == SpareName /\ StartImap("moveGet", mb, dst, uid, NoArg)

(***************************************************************************)
(* ensure_mailbox.  makedirs makes what is missing of the directory; the   *)
(* check for uidlist.json and its repetition under the lock are one step,  *)
(* since a list that appears between them makes the second check the one   *)
(* that counts.                                                            *)
(***************************************************************************)

\* shutil.rmtree is at work on mailbox mb.
Emptying(mb) == pc["imap"] = "rmtree" /\ box["imap"] = mb

AfterEnsure(p) ==
    IF p = "smtp" \/ stage = "moveCopy" THEN "tmp"
    ELSE IF stage = "create" THEN "idle" ELSE "scanRead"

EnsureCheck(p) ==
    /\ pc[p] = "ensure"
    /\ tree' = [tree EXCEPT ![box[p]] = IF Emptying(box[p]) THEN "part" ELSE "whole"]
    /\ pc' = [pc EXCEPT ![p] = IF uidlist[box[p]].next = 0 THEN "create" ELSE AfterEnsure(p)]
    /\ UNCHANGED <<files, uidlist, nextBase, box, held, data, imapVars, history>>

EnsureCreate(p) ==
    /\ pc[p] = "create" /\ tree[box[p]] # "none"
    /\ uidlist' = [uidlist EXCEPT ![box[p]] = FreshUidlist]
    /\ pc' = [pc EXCEPT ![p] = AfterEnsure(p)]
    /\ UNCHANGED <<tree, files, nextBase, box, held, data, imapVars, history>>

(***************************************************************************)
(* deliver_message: write under tmp/, rename into new/, then read and      *)
(* rewrite the uidlist under the lock.                                     *)
(***************************************************************************)

Handed(mb, uid, file) == [box |-> mb, uid |-> uid, base |-> file.base]

DeliverTmp(p) ==
    /\ pc[p] = "tmp" /\ tree[box[p]] # "none"
    /\ LET file == [base |-> nextBase, dir |-> "tmp", flags |-> {},
                    origin |-> IF p = "smtp" THEN nextBase ELSE got.origin]
       IN /\ held' = [held EXCEPT ![p] = file]
          /\ files' = [files EXCEPT ![box[p]] = @ \union {file}]
    /\ nextBase' = nextBase + 1
    /\ pc' = [pc EXCEPT ![p] = "rename"]
    /\ UNCHANGED <<tree, uidlist, box, data, imapVars, history>>

DeliverRename(p) ==
    /\ pc[p] = "rename" /\ held[p] \in files[box[p]]
    /\ LET file == [held[p] EXCEPT !.dir = "new"]
       IN /\ held' = [held EXCEPT ![p] = file]
          /\ files' = [files EXCEPT ![box[p]] = (@ \ {held[p]}) \union {file}]
    /\ accepted' = accepted \union {held[p].origin}
    /\ pc' = [pc EXCEPT ![p] = "deliverRead"]
    /\ UNCHANGED <<tree, uidlist, nextBase, box, data, imapVars, seen, expunged, taken,
                   removals, failures>>

DeliverRead(p) ==
    /\ pc[p] = "deliverRead" /\ uidlist[box[p]].next # 0
    /\ data' = [data EXCEPT ![p] = uidlist[box[p]]]
    /\ pc' = [pc EXCEPT ![p] = "deliverWrite"]
    /\ UNCHANGED <<disk, box, held, imapVars, history>>

\* The uidlist with the delivered file added under the next UID.
Numbered(list, file) ==
    [next |-> list.next + 1, map |-> Put(list.map, file, list.next)]

\* Mutant: the copy arrives without flags.
NoKeptFlags == {}

\* The flags a moved message keeps: all but \Deleted.
KeptFlags == got.flags \ {Deleted}

DeliverWrite(p) ==
    /\ pc[p] = "deliverWrite" /\ tree[box[p]] # "none"
    /\ uidlist' = [uidlist EXCEPT ![box[p]] = Numbered(data[p], held[p])]
    /\ IF p = "smtp"
       THEN /\ pc' = [pc EXCEPT ![p] = "idle"]
            /\ UNCHANGED <<box, stage, copyUid, seen>>
       ELSE /\ pc' = [pc EXCEPT ![p] = "ensure"]
            /\ seen' = seen \union {Handed(box[p], data[p].next, held[p])}
            /\ copyUid' = data[p].next
            /\ IF KeptFlags # {}
               THEN stage' = "moveFlag" /\ UNCHANGED box
               ELSE stage' = "moveRemove" /\ box' = [box EXCEPT ![p] = job.box]
    /\ UNCHANGED <<tree, files, nextBase, held, data, job, view, got, accepted, expunged,
                   taken, removals, failures>>

\* A step of deliver_message that raises FileNotFoundError because DELETE or
\* RENAME took the directory, its tmp/ or new/, the file or the uidlist away
\* (or takes them while makedirs runs).  The IMAP process never meets this:
\* it ensures a mailbox before it works on it and removes none meanwhile.
Missing(p) ==
    \/ pc[p] = "ensure" /\ Emptying(box[p])
    \/ pc[p] \in {"create", "deliverWrite"} /\ tree[box[p]] = "none"
    \/ pc[p] \in {"tmp", "rename"} /\ tree[box[p]] # "whole"
    \/ pc[p] = "rename" /\ held[p] \notin files[box[p]]
    \/ pc[p] = "deliverRead" /\ uidlist[box[p]].next = 0

DeliverRaises ==
    /\ Missing("smtp")
    /\ pc' = [pc EXCEPT !["smtp"] = "idle"]
    /\ UNCHANGED <<disk, box, held, data, imapVars, history>>

(***************************************************************************)
(* _scan: read the uidlist, list new/ and cur/, number the files the list  *)
(* does not know, and rewrite it if there were any.  new/ and cur/ are     *)
(* listed in one step: only this process moves files between them.         *)
(***************************************************************************)

\* Mutant: files still being written under tmp/ are listed too.
ListedTmpToo(mb) == files[mb]

\* What listdir of new/ and cur/ returns: tmp/ is never listed.
Listed(mb) == {f \in files[mb] : f.dir # "tmp"}

ScanRead ==
    /\ pc["imap"] = "scanRead"
    /\ data' = [data EXCEPT !["imap"] = uidlist[box["imap"]]]
    /\ pc' = [pc EXCEPT !["imap"] = "scanList"]
    /\ UNCHANGED <<disk, box, held, imapVars, history>>

\* Mutant: next_uid is not incremented inside the loop.
NumberedAlike(unknown, next) == {[f \in unknown |-> next]}

\* The ways to number the unknown files from next on: listdir's order is
\* arbitrary, but new/ comes before cur/.
Numberings(unknown, next) ==
    {num \in [unknown -> next .. (next + Cardinality(unknown) - 1)] :
        /\ \A f, g \in unknown : num[f] = num[g] => f = g
        /\ \A f, g \in unknown : f.dir = "new" /\ g.dir = "cur" => num[f] < num[g]}

\* Mutant: list what uidlist.json names, present or not.
EntriesUnchecked(map, listing) == map

Entries(map, listing) == {e \in map : e.file \in listing}

HandedAll(mb, entries) == {Handed(mb, e.uid, e.file) : e \in entries}

ScanList ==
    /\ pc["imap"] = "scanList"
    /\ LET mb == box["imap"]
           list == data["imap"]
           unknown == {f \in Listed(mb) : ~HasKey(list.map, f)}
       IN \E num \in Numberings(unknown, list.next) :
            LET map == list.map \union {[file |-> f, uid |-> num[f]] : f \in unknown}
            IN /\ data' = [data EXCEPT !["imap"] =
                              [next |-> list.next + Cardinality(unknown), map |-> map]]
               /\ view' = Entries(map, Listed(mb))
               /\ IF unknown # {}
                  THEN pc' = [pc EXCEPT !["imap"] = "scanWrite"] /\ UNCHANGED seen
                  ELSE /\ pc' = [pc EXCEPT !["imap"] = "scanned"]
                       /\ seen' = seen \union HandedAll(mb, view')
    /\ UNCHANGED <<disk, box, held, stage, job, got, copyUid, accepted, expunged, taken,
                   removals, failures>>

\* Mutant: "changed" is forgotten, new UIDs are shown and not saved.
ScanWriteSkipped ==
    /\ pc["imap"] = "scanWrite"
    /\ seen' = seen \union HandedAll(box["imap"], view)
    /\ pc' = [pc EXCEPT !["imap"] = "scanned"]
    /\ UNCHANGED <<disk, box, held, data, imapVars, accepted, expunged, taken, removals, failures>>

ScanWrite ==
    /\ pc["imap"] = "scanWrite"
    /\ uidlist' = [uidlist EXCEPT ![box["imap"]] = data["imap"]]
    /\ seen' = seen \union HandedAll(box["imap"], view)
    /\ pc' = [pc EXCEPT !["imap"] = "scanned"]
    /\ UNCHANGED <<tree, files, nextBase, box, held, data, imapVars, accepted, expunged, taken,
                   removals, failures>>

(***************************************************************************)
(* What the caller of _scan does with the entries.                         *)
(***************************************************************************)

ScannedFor(stages) == pc["imap"] = "scanned" /\ stage \in stages

\* Mutant: the destination is searched for the UID of the source.
SourceUid == job.uid

\* The UID looked for among the entries.
TargetUid == IF stage = "moveFlag" THEN copyUid ELSE job.uid

Targets == {e \in view : e.uid = TargetUid}

ListDone ==
    /\ ScannedFor({"list"})
    /\ pc' = [pc EXCEPT !["imap"] = "idle"]
    /\ UNCHANGED <<disk, box, held, data, imapVars, history>>

\* NoSuchMessageError: what the operation already did stays done.
NoSuchMessage ==
    /\ ScannedFor({"store", "moveGet", "moveFlag", "moveRemove"})
    /\ Targets = {}
    /\ pc' = [pc EXCEPT !["imap"] = "idle"]
    /\ UNCHANGED <<disk, box, held, data, imapVars, history>>

\* Mutant: the original is removed as soon as it is read.
GetAndRemove ==
    /\ ScannedFor({"moveGet"})
    /\ job.box # job.dst
    /\ \E e \in Targets : /\ got' = e.file
                         /\ files' = [files EXCEPT ![job.box] = @ \ {e.file}]
    /\ pc' = [pc EXCEPT !["imap"] = "ensure"]
    /\ box' = [box EXCEPT !["imap"] = job.dst]
    /\ stage' = "moveCopy"
    /\ UNCHANGED <<tree, uidlist, nextBase, held, data, job, view, copyUid, history>>

\* get_message of move_message; a move into the same mailbox ends there.
GetMessage ==
    /\ ScannedFor({"moveGet"})
    /\ \E e \in Targets : got' = e.file
    /\ IF job.box = job.dst
       THEN /\ pc' = [pc EXCEPT !["imap"] = "idle"]
            /\ UNCHANGED <<box, stage>>
       ELSE /\ pc' = [pc EXCEPT !["imap"] = "ensure"]
            /\ box' = [box EXCEPT !["imap"] = job.dst]
            /\ stage' = "moveCopy"
    /\ UNCHANGED <<disk, held, data, job, view, copyUid, history>>

(***************************************************************************)
(* set_flags: rename into cur/ under the new name, then move the entry of  *)
(* the old name to the new one.                                            *)
(***************************************************************************)

NewFlags(old) ==
    IF stage = "moveFlag" THEN KeptFlags
    ELSE CASE job.mode = "replace" -> job.flags
           [] job.mode = "add"     -> old \union job.flags
           [] job.mode = "remove"  -> old \ job.flags

Reflagged(file) == [file EXCEPT !.dir = "cur", !.flags = NewFlags(file.flags)]

FlagRename ==
    /\ ScannedFor({"store", "moveFlag"})
    /\ \E e \in Targets :
        /\ held' = [held EXCEPT !["imap"] = e.file]
        /\ files' = [files EXCEPT ![box["imap"]] =
                        (@ \ {e.file}) \union {Reflagged(e.file)}]
    /\ pc' = [pc EXCEPT !["imap"] = "flagRead"]
    /\ UNCHANGED <<tree, uidlist, nextBase, box, data, imapVars, history>>

FlagRead ==
    /\ pc["imap"] = "flagRead"
    /\ data' = [data EXCEPT !["imap"] = uidlist[box["imap"]]]
    /\ pc' = [pc EXCEPT !["imap"] = "flagWrite"]
    /\ UNCHANGED <<disk, box, held, imapVars, history>>

\* del data["map"][target.filename] raises KeyError after the rename.
FlagKeyError ==
    /\ pc["imap"] = "flagWrite"
    /\ ~HasKey(data["imap"].map, held["imap"])
    /\ pc' = [pc EXCEPT !["imap"] = "idle"]
    /\ UNCHANGED <<disk, box, held, data, imapVars, history>>

\* Mutant: the old name is forgotten and the new one not entered.
FlagWriteForgets ==
    /\ pc["imap"] = "flagWrite"
    /\ uidlist' = [uidlist EXCEPT ![box["imap"]] =
          [next |-> data["imap"].next, map |-> Del(data["imap"].map, held["imap"])]]
    /\ pc' = [pc EXCEPT !["imap"] = "idle"]
    /\ UNCHANGED <<tree, files, nextBase, box, held, data, imapVars, history>>

FlagWrite ==
    /\ pc["imap"] = "flagWrite"
    /\ LET list == data["imap"]
           old == held["imap"]
       IN /\ HasKey(list.map, old)
          /\ uidlist' = [uidlist EXCEPT ![box["imap"]] =
                [next |-> list.next,
                 map |-> Put(Del(list.map, old), Reflagged(old), TargetUid)]]
    /\ IF stage = "moveFlag"
       THEN /\ pc' = [pc EXCEPT !["imap"] = "ensure"]
            /\ stage' = "moveRemove"
            /\ box' = [box EXCEPT !["imap"] = job.box]
       ELSE /\ pc' = [pc EXCEPT !["imap"] = "idle"]
            /\ UNCHANGED <<stage, box>>
    /\ UNCHANGED <<tree, files, nextBase, held, data, job, view, got, copyUid, history>>

(***************************************************************************)
(* The end of move_message: the original leaves the source mailbox.        *)
(***************************************************************************)

\* Mutant: only the uidlist entry of the original goes.
RemoveEntryOnly ==
    /\ ScannedFor({"moveRemove"})
    /\ \E e \in Targets : held' = [held EXCEPT !["imap"] = e.file]
    /\ pc' = [pc EXCEPT !["imap"] = "removeRead"]
    /\ UNCHANGED <<disk, box, data, imapVars, history>>

RemoveOriginal ==
    /\ ScannedFor({"moveRemove"})
    /\ \E e \in Targets :
        /\ held' = [held EXCEPT !["imap"] = e.file]
        /\ files' = [files EXCEPT ![box["imap"]] = @ \ {e.file}]
    /\ pc' = [pc EXCEPT !["imap"] = "removeRead"]
    /\ UNCHANGED <<tree, uidlist, nextBase, box, data, imapVars, history>>

RemoveRead ==
    /\ pc["imap"] = "removeRead"
    /\ data' = [data EXCEPT !["imap"] = uidlist[box["imap"]]]
    /\ pc' = [pc EXCEPT !["imap"] = "removeWrite"]
    /\ UNCHANGED <<disk, box, held, imapVars, history>>

RemoveWrite ==
    /\ pc["imap"] = "removeWrite"
    /\ uidlist' = [uidlist EXCEPT ![box["imap"]] =
          [next |-> data["imap"].next, map |-> Del(data["imap"].map, held["imap"])]]
    /\ pc' = [pc EXCEPT !["imap"] = "idle"]
    /\ UNCHANGED <<tree, files, nextBase, box, held, data, imapVars, history>>

(***************************************************************************)
(* expunge: the uidlist is read, the \Deleted files of the entries are     *)
(* removed in UID order, and the uidlist is rewritten once at the end.     *)
(***************************************************************************)

ExpungeRead ==
    /\ ScannedFor({"expunge"})
    /\ data' = [data EXCEPT !["imap"] = uidlist[box["imap"]]]
    /\ pc' = [pc EXCEPT !["imap"] = "expungeRemove"]
    /\ UNCHANGED <<disk, box, held, imapVars, history>>

\* Mutant: every message of the mailbox is removed.
AllMarked == view

Marked == {e \in view : Deleted \in e.file.flags}

ExpungeRemove ==
    /\ pc["imap"] = "expungeRemove"
    /\ \E e \in Marked :
        /\ \A other \in Marked : e.uid <= other.uid
        /\ files' = [files EXCEPT ![box["imap"]] = @ \ {e.file}]
        /\ data' = [data EXCEPT !["imap"] =
                [next |-> data["imap"].next, map |-> Del(data["imap"].map, e.file)]]
        /\ view' = view \ {e}
        /\ expunged' = expunged \union {e.file.origin}
    /\ UNCHANGED <<tree, uidlist, nextBase, pc, box, held, stage, job, got, copyUid,
                   seen, accepted, taken, removals, failures>>

\* Mutant: next_uid is computed again from the UIDs that are left.
ExpungeRecounts ==
    /\ pc["imap"] = "expungeRemove"
    /\ Marked = {}
    /\ \E top \in {0} \union {e.uid : e \in data["imap"].map} :
          /\ \A e \in data["imap"].map : e.uid <= top
          /\ uidlist' = [uidlist EXCEPT ![box["imap"]] =
                [next |-> top + 1, map |-> data["imap"].map]]
    /\ pc' = [pc EXCEPT !["imap"] = "idle"]
    /\ UNCHANGED <<tree, files, nextBase, box, held, data, imapVars, history>>

ExpungeWrite ==
    /\ pc["imap"] = "expungeRemove"
    /\ Marked = {}
    /\ uidlist' = [uidlist EXCEPT ![box["imap"]] = data["imap"]]
    /\ pc' = [pc EXCEPT !["imap"] = "idle"]
    /\ UNCHANGED <<tree, files, nextBase, box, held, data, imapVars, history>>

(***************************************************************************)
(* DELETE and RENAME of a mailbox whose directory is there (else the       *)
(* answer is NO).  They never ask ensure_mailbox first, and take no lock.  *)
(* The uidvalidity goes with uidlist.json, so the UIDs of a list made      *)
(* later are those of another mailbox, and what was shown is forgotten.    *)
(***************************************************************************)

CanRemove(mb) == pc["imap"] = "idle" /\ tree[mb] # "none" /\ removals < MaxRemovals

DeliveringTo(mb) == pc["smtp"] # "idle" /\ box["smtp"] = mb

ForgetShown(mb) == seen' = {s \in seen : s.box # mb}

\* handle_delete: shutil.rmtree removes what is under the directory one entry
\* at a time, in the order it lists it.
StartDelete(mb) ==
    /\ CanRemove(mb)
    /\ pc' = [pc EXCEPT !["imap"] = "rmtree"]
    /\ box' = [box EXCEPT !["imap"] = mb]
    /\ stage' = "delete"
    /\ tree' = [tree EXCEPT ![mb] = "part"]
    /\ removals' = removals + 1
    /\ UNCHANGED <<files, uidlist, nextBase, held, data, job, view, got, copyUid,
                   seen, accepted, expunged, taken, failures>>

RmtreeFile ==
    /\ pc["imap"] = "rmtree"
    /\ \E f \in files[box["imap"]] :
        /\ files' = [files EXCEPT ![box["imap"]] = @ \ {f}]
        /\ expunged' = expunged \union {f.origin}
    /\ taken' = (taken \/ DeliveringTo(box["imap"]))
    /\ UNCHANGED <<tree, uidlist, nextBase, pc, box, held, data, imapVars,
                   seen, accepted, removals, failures>>

RmtreeUidlist ==
    /\ pc["imap"] = "rmtree"
    /\ uidlist[box["imap"]].next # 0
    /\ uidlist' = [uidlist EXCEPT ![box["imap"]] = NoUidlist]
    /\ ForgetShown(box["imap"])
    /\ UNCHANGED <<tree, files, nextBase, pc, box, held, data, imapVars,
                   accepted, expunged, taken, removals, failures>>

RmtreeDone ==
    /\ pc["imap"] = "rmtree"
    /\ files[box["imap"]] = {} /\ uidlist[box["imap"]].next = 0
    /\ tree' = [tree EXCEPT ![box["imap"]] = "none"]
    /\ pc' = [pc EXCEPT !["imap"] = "idle"]
    /\ UNCHANGED <<files, uidlist, nextBase, box, held, data, imapVars, history>>

\* The SMTP server's steps make rmtree raise: an entry it listed is gone, or a
\* directory it emptied is not empty when it comes to remove it.
RmtreeRaises ==
    /\ pc["imap"] = "rmtree"
    /\ box["imap"] \in SmtpBoxes
    /\ pc' = [pc EXCEPT !["imap"] = "idle"]
    /\ UNCHANGED <<disk, box, held, data, imapVars, history>>

\* handle_rename: one os.rename, to a name that is not among Mailboxes (onto a
\* mailbox that is there it raises).
Rename(mb) ==
    /\ CanRemove(mb)
    /\ tree' = [tree EXCEPT ![mb] = "none"]
    /\ files' = [files EXCEPT ![mb] = {}]
    /\ uidlist' = [uidlist EXCEPT ![mb] = NoUidlist]
    /\ ForgetShown(mb)
    /\ expunged' = expunged \union {f.origin : f \in files[mb]}
    /\ taken' = (taken \/ DeliveringTo(mb))
    /\ removals' = removals + 1
    /\ UNCHANGED <<nextBase, pc, box, held, data, imapVars, accepted, failures>>

(***************************************************************************)
(* The environment.                                                        *)
(***************************************************************************)

\* Process p raises an I/O error or crashes: only the disk survives, and the
\* process takes up its next operation with nothing in progress.
Fail(p) ==
    /\ pc[p] # "idle"
    /\ failures < MaxFailures
    /\ failures' = failures + 1
    /\ pc' = [pc EXCEPT ![p] = "idle"]
    /\ UNCHANGED <<disk, box, held, data, imapVars, seen, accepted, expunged, taken, removals>>

\* A message put into new/ by hand, without going through deliver_message:
\* the case _scan's own comment provides for.
ManualDrop(mb) ==
    /\ SpareName
    /\ tree[mb] = "whole" /\ uidlist[mb].next # 0
    /\ files' = [files EXCEPT ![mb] = @ \union
          {[base |-> nextBase, origin |-> nextBase, dir |-> "new", flags |-> {}]}]
    /\ nextBase' = nextBase + 1
    /\ accepted' = accepted \union {nextBase}
    /\ UNCHANGED <<tree, uidlist, pc, box, held, data, imapVars, seen, expunged, taken, removals,
                   failures>>

(***************************************************************************)

SmtpNext == \E mb \in SmtpBoxes : StartDeliver(mb)

ImapStart ==
    \E mb \in Mailboxes :
        \/ StartCreate(mb)
        \/ StartList(mb)
        \/ StartExpunge(mb)
        \/ \E uid \in Uids : \/ \E arg \in StoreArgs : StartStore(mb, uid, arg)
                             \/ \E dst \in Mailboxes : StartMove(mb, dst, uid)

SharedStep(p) ==
    \/ EnsureCheck(p) \/ EnsureCreate(p)
    \/ DeliverTmp(p) \/ DeliverRename(p) \/ DeliverRead(p) \/ DeliverWrite(p)

ImapStep ==
    \/ ScanRead \/ ScanList \/ ScanWrite \/ ListDone \/ NoSuchMessage \/ GetMessage
    \/ FlagRename \/ FlagRead \/ FlagKeyError \/ FlagWrite
    \/ RemoveOriginal \/ RemoveRead \/ RemoveWrite
    \/ ExpungeRead \/ ExpungeRemove \/ ExpungeWrite

Removal ==
    \/ \E mb \in Mailboxes : StartDelete(mb) \/ Rename(mb)
    \/ RmtreeFile \/ RmtreeUidlist \/ RmtreeDone \/ RmtreeRaises

Next ==
    \/ SmtpNext \/ ImapStart \/ ImapStep \/ Removal \/ DeliverRaises
    \/ \E p \in Procs : SharedStep(p) \/ Fail(p)
    \/ \E mb \in DropBoxes : ManualDrop(mb)

Spec == Init /\ [][Next]_vars

(***************************************************************************)
(* Properties.                                                             *)
(***************************************************************************)

\* No uidlist.json gives one UID to two files, so no listing ever shows two
\* messages under the same UID (_scan, deliver_message, set_flags).
UidlistInjective ==
    \A mb \in Mailboxes : \A e, f \in uidlist[mb].map : e.uid = f.uid => e = f

NeverReused(boxes) ==
    \A s, t \in seen : s.box = t.box /\ s.box \in boxes /\ s.uid = t.uid => s.base = t.base

\* In a mailbox only the IMAP process touches, a UID once handed to a caller
\* never names another message, whatever exceptions and crashes interrupt the
\* operations: the next_uid a caller saw used is already on disk.
PrivateUidNeverReused == NeverReused(PrivateBoxes)

Stable(boxes) ==
    \A s, t \in seen : s.box = t.box /\ s.box \in boxes /\ s.base = t.base => s.uid = t.uid

\* As long as no operation is interrupted, a message keeps the UID it was
\* first shown with through every rename set_flags does.
PrivateUidStable == failures = 0 => Stable(PrivateBoxes)

\* Each message that reached new/ is in some mailbox until EXPUNGE removes it,
\* or DELETE or RENAME takes the mailbox away: whichever step of a MOVE or a
\* STORE is the last one before a crash.
NoMessageLost ==
    \A m \in accepted \ expunged : \E mb \in Mailboxes : \E f \in Listed(mb) : f.origin = m

\* The file each os.rename, os.remove and open(path, "rb") of the IMAP process
\* names is there, in every mailbox: only that process takes listed files away,
\* and it runs no DELETE or RENAME meanwhile.  The SMTP server's file under
\* tmp/ is there when it comes to rename it, unless a DELETE or RENAME of that
\* very mailbox came between (maildir_backend.py:213-217): no other operation
\* of the IMAP process makes a delivery fail.
FilesStillThere ==
    /\ pc["imap"] = "rename" => held["imap"] \in files[box["imap"]]
    /\ pc["imap"] \in {"scanned", "expungeRemove"} =>
            \A e \in view : e.file \in Listed(box["imap"])
    /\ pc["smtp"] = "rename" /\ ~taken => held["smtp"] \in files[box["smtp"]]

\* In a private mailbox set_flags never raises KeyError after its rename, and
\* move_message, once it has copied, finds the copy to flag and the original
\* to remove under the UIDs it holds.
PrivateUpdatesComplete ==
    /\ pc["imap"] = "flagWrite" /\ box["imap"] \in PrivateBoxes =>
            HasKey(data["imap"].map, held["imap"])
    /\ ScannedFor({"moveFlag", "moveRemove"}) /\ box["imap"] \in PrivateBoxes =>
            \E e \in Targets : e.file.origin = got.origin

\* A file leaves a private mailbox only renamed within it, expunged while
\* marked \Deleted, or moved: and then its copy is already listed elsewhere,
\* with its flags but \Deleted if that mailbox is private too; or the mailbox
\* itself is being deleted or renamed.
Replaced(mb, f) == \E g \in Listed(mb)' : g.base = f.base
Expunged(f) == Deleted \in f.flags /\ f.origin \in expunged'
Copied(mb, f) ==
    \E dst \in Mailboxes \ {mb} : \E g \in Listed(dst)' :
        /\ g.origin = f.origin
        /\ dst \in PrivateBoxes => g.flags = f.flags \ {Deleted}
LeavesSafely ==
    [][\A mb \in PrivateBoxes : \A f \in Listed(mb) \ Listed(mb)' :
          Replaced(mb, f) \/ Expunged(f) \/ Copied(mb, f) \/ tree'[mb] # "whole"]_vars

\* Without interruptions a MOVE duplicates nothing: between operations a
\* message is in one mailbox only.
OneCopy ==
    failures = 0 /\ pc["imap"] = "idle" =>
        \A m1, m2 \in Mailboxes : \A f \in Listed(m1), g \in Listed(m2) :
            f.origin = g.origin => m1 = m2 /\ f = g

\* The claims of storage/models.py:46-47 and of maildir_backend.py:16-20
\* without the restrictions above: a UID names one message, for good.
UidNeverReused == NeverReused(Mailboxes)
UidStable == Stable(Mailboxes)

\* The mailboxes as their users see them: the listed files, and the UIDs
\* callers were given.
Messages(mb) == {[id |-> f.base, origin |-> f.origin, flags |-> f.flags] : f \in Listed(mb)}

Abstract == INSTANCE Mailbox WITH
    content <- [mb \in Mailboxes |-> Messages(mb)],
    shown <- seen,
    leaving <- {mb \in Mailboxes : tree[mb] = "part"}

\* When only one server runs, the files and lists implement the abstract
\* mailboxes, whatever file operation is the last one before an exception or a
\* crash: each step of deliver_message, _scan, set_flags, move_message and
\* expunge is one of theirs or changes nothing a user could see.
IsMailbox == Abstract!Spec

=============================================================================
