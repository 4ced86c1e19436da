----------------------------- MODULE MailboxProofs -----------------------------
(***************************************************************************)
(* The mailboxes as a caller sees them: the steps of storage/              *)
(* maildir_backend.py implement the abstract mailboxes of module Mailbox,  *)
(* a UID stays with its message, and a MOVE leaves one copy, for any       *)
(* mailboxes, messages, flags and failures.                                *)
(***************************************************************************)
EXTENDS MaildirFilesProofs

(***************************************************************************)
(* Names a caller was given are names of listed files.                     *)
(***************************************************************************)

SeenFresh == \A s \in seen : s.base < nextBase

TmpUnseen ==
    \A mb \in Mailboxes : \A f \in files[mb] : f.dir = "tmp" => \A s \in seen : s.base # f.base

SeenInv == MoveInv /\ SeenFresh /\ TmpUnseen

\* What a step shows: entries of listed files of the mailbox the IMAP process
\* works on.  (DELETE and RENAME show nothing.)
LEMMA ShownListed ==
    ASSUME MoveInv, MoveInv', [Next]_vars, ~Removal
    PROVE  /\ seen \subseteq seen'
           /\ \A s \in seen' \ seen :
                 s.box = box["imap"] /\ \E f \in Listed(box["imap"]) : f.base = s.base
           /\ seen' # seen => UNCHANGED <<files, tree>>
<1> USE DEF disk, imapVars, history, vars
<1>a. pc \in [Procs -> Steps] /\ box \in [Procs -> Mailboxes] /\ "imap" \in Procs
  BY DEF MoveInv, UidInv, TypeInv, TypeOK, Procs
<1>1. CASE UNCHANGED seen
  BY <1>1
<1>2. CASE ScanList \/ ScanWrite
  <2>1. UNCHANGED <<files, tree, box>>
    BY <1>2 DEF ScanList, ScanWrite
  <2>2. PICK entries : /\ seen' = seen \union HandedAll(box["imap"], entries)
                       /\ \A e \in entries : e.file \in Listed(box["imap"])
    <3>1. CASE ScanWrite
      <4>1. pc["imap"] = "scanWrite" /\ seen' = seen \union HandedAll(box["imap"], view)
        BY <3>1 DEF ScanWrite
      <4>2. \A e \in view : e.file \in Listed(box["imap"])
        BY <4>1 DEF MoveInv, FilesInv, ViewListed
      <4> QED
        BY <4>1, <4>2
    <3>2. CASE ScanList
      <4>1. seen' = seen \/ seen' = seen \union HandedAll(box["imap"], view')
        BY <3>2 DEF ScanList
      <4>2. \A e \in view' : e.file \in Listed(box["imap"])
        BY <3>2 DEF ScanList, Entries
      <4>3. seen \union HandedAll(box["imap"], {}) = seen
        BY DEF HandedAll
      <4> QED
        BY <4>1, <4>2, <4>3
    <3> QED
      BY <1>2, <3>1, <3>2
  <2> QED
    BY <2>1, <2>2 DEF HandedAll, Handed
<1>3. ASSUME NEW p \in Procs, DeliverWrite(p)
      PROVE  UNCHANGED seen \/ /\ UNCHANGED <<files, tree>>
                               /\ seen' = seen \union {Handed(box["imap"], data["imap"].next, held["imap"])}
                               /\ held["imap"] \in Listed(box["imap"])
  BY <1>3 DEF DeliverWrite, MoveInv, HeldCopies, Procs
<1>4. ASSUME NEW p \in Procs,
             EnsureCheck(p) \/ EnsureCreate(p) \/ DeliverTmp(p) \/ DeliverRename(p) \/ DeliverRead(p) \/ Fail(p)
      PROVE  UNCHANGED seen
  BY <1>4 DEF EnsureCheck, EnsureCreate, DeliverTmp, DeliverRename, DeliverRead, Fail
<1>5. CASE \/ ScanRead \/ ListDone \/ NoSuchMessage \/ GetMessage \/ FlagRename \/ FlagRead
           \/ FlagKeyError \/ FlagWrite \/ RemoveOriginal \/ RemoveRead \/ RemoveWrite
           \/ ExpungeRead \/ ExpungeRemove \/ ExpungeWrite
  BY <1>1, <1>5 DEF ScanRead, ListDone, NoSuchMessage, GetMessage, FlagRename, FlagRead,
     FlagKeyError, FlagWrite, RemoveOriginal, RemoveRead, RemoveWrite, ExpungeRead, ExpungeRemove, ExpungeWrite
<1>6. ASSUME NEW mb, StartDeliver(mb) \/ ManualDrop(mb) PROVE UNCHANGED seen
  BY <1>6 DEF StartDeliver, ManualDrop
<1>7. ASSUME NEW s, NEW mb, NEW dst, NEW uid, NEW arg, StartImap(s, mb, dst, uid, arg)
      PROVE  UNCHANGED seen
  BY <1>7 DEF StartImap
<1>8. ASSUME NEW p \in Procs, DeliverWrite(p), ~UNCHANGED seen
      PROVE  /\ seen \subseteq seen' /\ UNCHANGED <<files, tree>>
             /\ \A s \in seen' \ seen :
                   s.box = box["imap"] /\ \E f \in Listed(box["imap"]) : f.base = s.base
  BY <1>3, <1>8 DEF Handed
<1>9. CASE DeliverRaises
  BY <1>1, <1>9 DEF DeliverRaises
<1> QED
  BY NextCases, <1>1, <1>2, <1>4, <1>5, <1>6, <1>7, <1>8, <1>9 DEF ImapStep

\* Files under tmp/ are new ones: any other file with a name the step before
\* knew under tmp/ is the same.
LEMMA TmpIsNew ==
    ASSUME MoveInv, [Next]_vars
    PROVE  /\ nextBase' = nextBase \/ nextBase' = nextBase + 1
           /\ \A mb \in Mailboxes : \A f \in files'[mb] :
                 f.dir = "tmp" => f \in files[mb] \/ f.base = nextBase
           /\ nextBase' # nextBase \/
                 \A mb \in Mailboxes : \A f \in files'[mb] : f.dir = "tmp" => f \in files[mb]
<1> USE DEF disk, imapVars, history, vars
<1>a. /\ files \in [Mailboxes -> SUBSET File] /\ box \in [Procs -> Mailboxes] /\ held \in [Procs -> File]
      /\ box["imap"] \in Mailboxes /\ nextBase \in Nat
  BY DEF MoveInv, UidInv, TypeInv, TypeOK, Procs
<1>1. CASE UNCHANGED <<files, nextBase>>
  BY <1>1
<1>2. ASSUME NEW p \in Procs, DeliverTmp(p)
      PROVE  /\ nextBase' = nextBase + 1
             /\ \A mb \in Mailboxes : \A f \in files'[mb] : f \in files[mb] \/ f.base = nextBase
  <2>1. \E file : file.base = nextBase /\ files' = [files EXCEPT ![box[p]] = @ \union {file}]
    <3> DEFINE fresh == [base |-> nextBase, dir |-> "tmp", flags |-> {},
                         origin |-> IF p = "smtp" THEN nextBase ELSE got.origin]
    <3>1. fresh.base = nextBase
      OBVIOUS
    <3>2. files' = [files EXCEPT ![box[p]] = @ \union {fresh}]
      BY <1>2 DEF DeliverTmp
    <3> HIDE DEF fresh
    <3> QED
      BY <3>1, <3>2
  <2> QED
    BY <1>2, <1>a, <2>1 DEF DeliverTmp
<1>3. ASSUME NEW p \in Procs, DeliverRename(p)
      PROVE  /\ nextBase' = nextBase
             /\ \A mb \in Mailboxes : \A f \in files'[mb] : f \in files[mb] \/ f.dir = "new"
  <2>1. [held[p] EXCEPT !.dir = "new"].dir = "new"
    BY <1>a DEF File
  <2> QED
    BY <1>3, <1>a, <2>1 DEF DeliverRename
<1>4. ASSUME NEW mb \in DropBoxes, ManualDrop(mb)
      PROVE  /\ nextBase' = nextBase + 1
             /\ \A m \in Mailboxes : \A f \in files'[m] : f \in files[m] \/ f.dir = "new"
  BY <1>4, <1>a DEF ManualDrop
<1>5. CASE FlagRename
  <2>1. nextBase' = nextBase
    BY <1>5 DEF FlagRename
  <2>2. PICK e \in Targets :
          files' = [files EXCEPT ![box["imap"]] = (@ \ {e.file}) \union {Reflagged(e.file)}]
    BY <1>5 DEF FlagRename
  <2>3. Reflagged(e.file).dir = "cur"
    <3>1. e.file \in File
      BY DEF Targets, MoveInv, UidInv, TypeInv, TypeOK, Entry
    <3> QED
      BY <3>1 DEF Reflagged, File
  <2> QED
    BY <1>a, <2>1, <2>2, <2>3
<1>6. CASE RemoveOriginal \/ ExpungeRemove
  <2>1. nextBase' = nextBase
    BY <1>6 DEF RemoveOriginal, ExpungeRemove
  <2>2. PICK file : files' = [files EXCEPT ![box["imap"]] = @ \ {file}]
    BY <1>6 DEF RemoveOriginal, ExpungeRemove
  <2> QED
    BY <1>a, <2>1, <2>2
<1>7. ASSUME NEW p \in Procs,
             EnsureCheck(p) \/ EnsureCreate(p) \/ DeliverRead(p) \/ DeliverWrite(p) \/ Fail(p)
      PROVE  UNCHANGED <<files, nextBase>>
  BY <1>7 DEF EnsureCheck, EnsureCreate, DeliverRead, DeliverWrite, Fail
<1>8. CASE \/ ScanRead \/ ScanList \/ ScanWrite \/ ListDone \/ NoSuchMessage \/ GetMessage
           \/ FlagRead \/ FlagKeyError \/ FlagWrite \/ RemoveRead \/ RemoveWrite
           \/ ExpungeRead \/ ExpungeWrite
  BY <1>1, <1>8 DEF ScanRead, ScanList, ScanWrite, ListDone, NoSuchMessage, GetMessage, FlagRead,
     FlagKeyError, FlagWrite, RemoveRead, RemoveWrite, ExpungeRead, ExpungeWrite
<1>9. ASSUME NEW mb, StartDeliver(mb) PROVE UNCHANGED <<files, nextBase>>
  BY <1>9 DEF StartDeliver
<1>10. ASSUME NEW s, NEW mb, NEW dst, NEW uid, NEW arg, StartImap(s, mb, dst, uid, arg)
       PROVE  UNCHANGED <<files, nextBase>>
  BY <1>10 DEF StartImap
<1>11. CASE DeliverRaises
  BY <1>1, <1>11 DEF DeliverRaises
<1>12. CASE Removal
  <2>1. PICK b \in Mailboxes : OnlyLoses(b)
    BY <1>12, RemovalLoses DEF MoveInv, UidInv, TypeInv
  <2>2. nextBase' = nextBase /\ \A mb \in Mailboxes : files'[mb] \subseteq files[mb]
    BY <2>1 DEF OnlyLoses
  <2> QED
    BY <2>2
<1> QED
  <2>1. ASSUME NEW p \in Procs, \/ EnsureCheck(p) \/ EnsureCreate(p) \/ DeliverTmp(p)
                                \/ DeliverRename(p) \/ DeliverRead(p) \/ DeliverWrite(p) \/ Fail(p)
        PROVE  \/ UNCHANGED <<files, nextBase>>
               \/ /\ nextBase' = nextBase + 1
                  /\ \A mb \in Mailboxes : \A f \in files'[mb] : f \in files[mb] \/ f.base = nextBase
               \/ /\ nextBase' = nextBase
                  /\ \A mb \in Mailboxes : \A f \in files'[mb] : f \in files[mb] \/ f.dir = "new"
    BY <2>1, <1>2, <1>3, <1>7
  <2>2. CASE ImapStep
    BY <2>2, <1>5, <1>6, <1>8 DEF ImapStep
  <2>3. CASE \E p \in Procs : \/ EnsureCheck(p) \/ EnsureCreate(p) \/ DeliverTmp(p)
                              \/ DeliverRename(p) \/ DeliverRead(p) \/ DeliverWrite(p) \/ Fail(p)
    BY <1>a, <1>1, <2>1, <2>3
  <2>4. CASE \E mb \in DropBoxes : ManualDrop(mb)
    BY <1>a, <1>4, <2>4
  <2> QED
    BY NextCases, <1>1, <1>9, <1>10, <1>11, <1>12, <2>2, <2>3, <2>4

\* A new data directory satisfies the invariant on shown names.
LEMMA InitSeenInv == Init => SeenInv
<1> SUFFICES ASSUME Init PROVE SeenInv
  OBVIOUS
<1>1. seen = {}
  BY DEF Init
<1> QED
  BY <1>1, InitMoveInv DEF SeenInv, SeenFresh, TmpUnseen

\* Every step preserves the invariant on shown names.
LEMMA NextSeenInv == SeenInv /\ [Next]_vars => SeenInv'
<1> SUFFICES ASSUME SeenInv, [Next]_vars PROVE SeenInv'
  OBVIOUS
<1>a. MoveInv /\ MoveInv' /\ SeenFresh /\ TmpUnseen
  BY NextMoveInv DEF SeenInv
<1>b. /\ nextBase \in Nat /\ box["imap"] \in Mailboxes
      /\ \A s \in seen : s.base \in Nat
  BY <1>a DEF MoveInv, UidInv, TypeInv, TypeOK, Procs
<1>c. CASE Removal
  <2>1. PICK b \in Mailboxes : OnlyLoses(b)
    BY <1>a, <1>c, RemovalLoses DEF MoveInv, UidInv, TypeInv
  <2>2. nextBase' = nextBase /\ \A mb \in Mailboxes : files'[mb] \subseteq files[mb]
    BY <2>1 DEF OnlyLoses
  <2>3. seen' \subseteq seen
    BY <2>1 DEF OnlyLoses, ForgetShown
  <2> QED
    BY <1>a, <2>2, <2>3 DEF SeenInv, SeenFresh, TmpUnseen
<1> SUFFICES ASSUME ~Removal PROVE SeenInv'
  BY <1>c
<1>1. \A s \in seen' : s \in seen \/ \E f \in files[box["imap"]] : f.base = s.base /\ f.dir # "tmp"
  BY <1>a, ShownListed DEF Listed
<1>2. SeenFresh'
  <2>1. \A s \in seen' : s.base \in Nat /\ s.base < nextBase
    <3>1. \A f \in files[box["imap"]] : f.base \in Nat /\ f.base < nextBase
      BY <1>a, <1>b DEF MoveInv, FilesInv, BasesFresh, TypeInv, TypeOK, File
    <3> QED
      BY <1>a, <1>b, <1>1, <3>1 DEF SeenFresh
  <2>2. nextBase' = nextBase \/ nextBase' = nextBase + 1
    BY <1>a, TmpIsNew
  <2> QED
    BY <1>b, <2>1, <2>2 DEF SeenFresh
<1>3. TmpUnseen'
  <2> SUFFICES ASSUME NEW mb \in Mailboxes, NEW f \in files'[mb], f.dir = "tmp", NEW s \in seen'
               PROVE  s.base # f.base
    BY DEF TmpUnseen
  <2>1. CASE f \in files[mb] /\ s \in seen
    BY <1>a, <2>1 DEF TmpUnseen
  <2>2. CASE f \in files[mb] /\ s \notin seen
    BY <1>1, <1>a, <1>b, <2>2 DEF MoveInv, FilesInv, BasesUnique
  <2>3. CASE f \notin files[mb]
    <3>1. f.base = nextBase
      BY <1>a, <2>3, TmpIsNew
    <3>2. UNCHANGED seen
      BY <1>a, <2>3, ShownListed
    <3> QED
      BY <1>a, <1>b, <3>1, <3>2 DEF SeenFresh
  <2> QED
    BY <2>1, <2>2, <2>3
<1> QED
  BY <1>a, <1>2, <1>3 DEF SeenInv

LEMMA SeenInvariant == Spec => []SeenInv
BY InitSeenInv, NextSeenInv, PTL DEF Spec

(***************************************************************************)
(* The abstract mailboxes.                                                 *)
(***************************************************************************)

Message(f) == [id |-> f.base, origin |-> f.origin, flags |-> f.flags]

\* What the abstract variable content stands for.
Content == [mb \in Mailboxes |-> Messages(mb)]

\* A listing that stays shows the same messages, and one with one more file
\* shows one more.
LEMMA ContentSame ==
    ASSUME \A mb \in Mailboxes : Listed(mb)' = Listed(mb)
    PROVE  Content' = Content
BY DEF Content, Messages

LEMMA ContentAdded ==
    ASSUME NEW mb \in Mailboxes, NEW file, Added(mb, file)
    PROVE  Content' = [Content EXCEPT ![mb] = @ \union {Message(file)}]
<1>1. Messages(mb)' = Messages(mb) \union {Message(file)}
  BY DEF Messages, Message, Added
<1>2. \A other \in Mailboxes : other # mb => Messages(other)' = Messages(other)
  BY DEF Messages, Added
<1> QED
  BY <1>1, <1>2 DEF Content

\* When a listed file goes, its message goes and no other: names are unique.
LEMMA ContentRemoved ==
    ASSUME FilesInv, NEW mb \in Mailboxes, NEW old \in Listed(mb), NEW new,
           Listed(mb)' = Listed(mb) \ {old} \/ Listed(mb)' = (Listed(mb) \ {old}) \union {new},
           \A other \in Mailboxes : other # mb => Listed(other)' = Listed(other)
    PROVE  /\ Listed(mb)' = Listed(mb) \ {old} =>
                 Content' = [Content EXCEPT ![mb] = @ \ {Message(old)}]
           /\ Listed(mb)' = (Listed(mb) \ {old}) \union {new} =>
                 Content' = [Content EXCEPT ![mb] = (@ \ {Message(old)}) \union {Message(new)}]
<1>1. \A f \in Listed(mb) : Message(f) = Message(old) => f = old
  BY DEF Listed, Message, FilesInv, BasesUnique
<1> DEFINE rest == {Message(f) : f \in Listed(mb) \ {old}}
<1>2. rest = Messages(mb) \ {Message(old)}
  BY <1>1 DEF Messages, Message
<1>3. \A other \in Mailboxes : other # mb => Messages(other)' = Messages(other)
  BY DEF Messages
<1>4. ASSUME Listed(mb)' = Listed(mb) \ {old} PROVE Messages(mb)' = rest
  BY <1>4 DEF Messages, Message
<1>5. ASSUME Listed(mb)' = (Listed(mb) \ {old}) \union {new}
      PROVE  Messages(mb)' = rest \union {Message(new)}
  BY <1>5 DEF Messages, Message
<1> HIDE DEF rest
<1> QED
  BY <1>2, <1>3, <1>4, <1>5 DEF Content

\* A name nobody lists and no caller was shown is new to the mailboxes.
LEMMA NewToMailboxes ==
    ASSUME NEW id, \A mb \in Mailboxes : \A f \in Listed(mb) : f.base # id,
           \A s \in seen : s.base # id
    PROVE  Abstract!IsNew(id)
BY DEF Abstract!IsNew, Messages

\* The steps of a single server, as steps of the abstract mailboxes.
LEMMA ArrivingSteps ==
    ASSUME SmtpBoxes = {}, SeenInv,
           (\E p \in Procs : DeliverRename(p)) \/ (\E mb \in DropBoxes : ManualDrop(mb))
    PROVE  Abstract!Next
<1>a. /\ MoveInv /\ FilesInv /\ SeenFresh /\ TmpUnseen /\ PrivateBoxes = Mailboxes
      /\ files \in [Mailboxes -> SUBSET File] /\ nextBase \in Nat /\ job.box \in Mailboxes
  BY DEF SeenInv, MoveInv, FilesInv, TypeInv, TypeOK, PrivateBoxes, Job
<1>1. ASSUME NEW p \in Procs, DeliverRename(p) PROVE Abstract!Next
  <2>1. p = "imap" /\ pc["imap"] = "rename"
    BY <1>1, <1>a DEF DeliverRename, MoveInv, UidInv, SmtpStays, Procs
  <2>2. PICK mb \in Mailboxes, file \in File :
          /\ mb = box[p] /\ Added(mb, file)
          /\ file.base = held[p].base /\ file.origin = held[p].origin
          /\ file.flags = held[p].flags /\ held[p] \in files[mb]
    BY <1>1, <1>a, DeliveryListed
  <2>3. held[p].dir = "tmp"
    BY <1>a, <2>1 DEF FilesInv, HeldInTmp
  <2>4. Abstract!IsNew(file.base)
    <3>1. \A other \in Mailboxes : \A f \in Listed(other) : f.base # file.base
      BY <1>a, <2>2, <2>3 DEF FilesInv, BasesUnique, Listed
    <3>2. \A s \in seen : s.base # file.base
      BY <1>a, <2>2, <2>3 DEF TmpUnseen
    <3> QED
      BY <3>1, <3>2, NewToMailboxes
  <2>5. /\ stage = "moveCopy" /\ mb = job.dst /\ job.box # mb
        /\ file.origin = got.origin /\ file.flags = {} /\ got \in Listed(job.box)
    BY <1>a, <2>1, <2>2 DEF MoveInv, StageSteps, Places, Moving, Doing, Delivering, Removing,
       HeldCopies, OriginalListed
  <2>6. Message(got) \in Content[job.box] /\ Message(got).origin = file.origin
    BY <1>a, <2>5 DEF Content, Messages, Message
  <2>7. Content' = [Content EXCEPT ![mb] = @ \union {Message(file)}]
    BY <2>2, ContentAdded
  <2>8. Message(file) \in Content'[mb]
    BY <2>7 DEF Content
  <2>9. UNCHANGED <<seen, tree>>
    BY <1>1 DEF DeliverRename
  <2>10. Message(file).id = file.base /\ Message(file).flags = {} /\ Message(file).origin = file.origin
    BY <2>5 DEF Message
  <2>11. Abstract!Arrives(mb, Message(file))
    BY <2>4, <2>7, <2>9, <2>10 DEF Abstract!Arrives, Content
  <2>12. Abstract!Copy(job.box, mb, Message(file))
    BY <2>6, <2>10, <2>11 DEF Abstract!Copy, Content
  <2> QED
    BY <1>a, <2>5, <2>8, <2>12 DEF Abstract!Next, Content
<1>2. ASSUME NEW mb \in DropBoxes, ManualDrop(mb) PROVE Abstract!Next
  <2>1. PICK file \in File : /\ mb \in Mailboxes /\ Added(mb, file)
                             /\ file.base = nextBase /\ file.origin = nextBase /\ file.flags = {}
    BY <1>2, <1>a, DropListed
  <2>2. Abstract!IsNew(file.base)
    <3>1. \A other \in Mailboxes : \A f \in Listed(other) : f.base # nextBase
      BY <1>a DEF FilesInv, BasesFresh, Listed
    <3>2. \A s \in seen : s.base # nextBase
      BY <1>a DEF SeenFresh
    <3> QED
      BY <2>1, <3>1, <3>2, NewToMailboxes
  <2>3. Content' = [Content EXCEPT ![mb] = @ \union {Message(file)}]
    BY <2>1, ContentAdded
  <2>4. Message(file) \in Content'[mb]
    BY <2>1, <2>3 DEF Content
  <2>5. UNCHANGED <<seen, tree>>
    BY <1>2 DEF ManualDrop
  <2>6. Message(file).id = file.base /\ Message(file).flags = {} /\ Message(file).origin = file.base
    BY <2>1 DEF Message
  <2>7. Abstract!Receive(mb, Message(file))
    BY <2>2, <2>3, <2>5, <2>6 DEF Abstract!Receive, Abstract!Arrives, Content
  <2> QED
    BY <2>1, <2>4, <2>7 DEF Abstract!Next, Content
<1> QED
  BY <1>1, <1>2

\* A rename of set_flags changes the flags of one message.
LEMMA FlaggingStep ==
    ASSUME MoveInv, FlagRename
    PROVE  Abstract!Next
<1>1. PICK mb \in Mailboxes, e \in Targets, file \in File :
        /\ e.file \in Listed(mb) /\ file.base = e.file.base /\ file.origin = e.file.origin
        /\ Listed(mb)' = (Listed(mb) \ {e.file}) \union {file}
        /\ \A other \in Mailboxes : other # mb => Listed(other)' = Listed(other)
  BY ReflagListed DEF MoveInv
<1>2. Content' = [Content EXCEPT ![mb] = (@ \ {Message(e.file)}) \union {Message(file)}]
  BY <1>1, ContentRemoved DEF MoveInv
<1>3. Message(e.file) \in Content[mb] /\ file.flags \in SUBSET Flags
  BY <1>1 DEF Content, Messages, Message, File
<1>4. Message(file) = [Message(e.file) EXCEPT !.flags = file.flags]
  BY <1>1 DEF Message
<1>5. UNCHANGED <<seen, tree>>
  BY DEF FlagRename, history
<1>6. Abstract!SetFlags(mb, Message(e.file), file.flags)
  BY <1>2, <1>4, <1>5 DEF Abstract!SetFlags, Content
<1> QED
  BY <1>3, <1>6 DEF Abstract!Next, Content

\* The end of a MOVE and expunge take one message: Leaving says why it may go.
LEMMA LeavingSteps ==
    ASSUME SmtpBoxes = {}, MoveInv, [Next]_vars, RemoveOriginal \/ ExpungeRemove
    PROVE  Abstract!Next
<1>a. FilesInv /\ PrivateBoxes = Mailboxes
  BY DEF MoveInv, PrivateBoxes
<1>1. PICK mb \in Mailboxes, e \in view :
        /\ e.file \in Listed(mb) /\ Listed(mb)' = Listed(mb) \ {e.file}
        /\ \A other \in Mailboxes : other # mb => Listed(other)' = Listed(other)
  BY <1>a, RemovalListed
<1>2. Content' = [Content EXCEPT ![mb] = @ \ {Message(e.file)}]
  BY <1>a, <1>1, ContentRemoved
<1>3. Message(e.file) \in Content[mb] /\ Message(e.file).flags = e.file.flags
      /\ Message(e.file).origin = e.file.origin
  BY <1>1 DEF Content, Messages, Message
<1>4. UNCHANGED <<seen, tree>>
  BY DEF RemoveOriginal, ExpungeRemove, history
<1>5. Abstract!Goes(mb, Message(e.file))
  BY <1>2, <1>4 DEF Abstract!Goes, Content
<1>6. \A g \in Listed(mb)' : g.base # e.file.base
  BY <1>a, <1>1 DEF FilesInv, BasesUnique, Listed
<1>7. Expunged(e.file) \/ Copied(mb, e.file)
  <2>1. pc["imap"] \in {"scanned", "expungeRemove"}
    BY DEF RemoveOriginal, ExpungeRemove, ScannedFor
  <2>2. ~Removal
    BY <2>1, RemovalLoses DEF OnlyLoses, MoveInv, UidInv, TypeInv
  <2> QED
    BY <1>a, <1>1, <1>6, <2>2, Leaving
<1>8. CASE Expunged(e.file)
  <2>1. Abstract!Expunge(mb, Message(e.file))
    BY <1>3, <1>5, <1>8 DEF Expunged, Abstract!Expunge
  <2> QED
    BY <1>3, <2>1 DEF Abstract!Next, Content
<1>9. CASE Copied(mb, e.file)
  <2>1. PICK dst \in Mailboxes \ {mb} : \E g \in Listed(dst)' :
          g.origin = e.file.origin /\ g.flags = e.file.flags \ {Deleted}
    BY <1>a, <1>9 DEF Copied
  <2>2. Listed(dst)' = Listed(dst)
    BY <1>1, <2>1
  <2>3. PICK g \in Listed(dst) : g.origin = e.file.origin /\ g.flags = e.file.flags \ {Deleted}
    BY <2>1, <2>2
  <2>4. Message(g) \in Content[dst] /\ Message(g).origin = e.file.origin
        /\ Message(g).flags = e.file.flags \ {Deleted}
    BY <2>1, <2>3 DEF Content, Messages, Message
  <2>5. Abstract!MoveAway(mb, Message(e.file))
    BY <1>3, <1>5, <2>1, <2>4 DEF Abstract!MoveAway, Content
  <2> QED
    BY <1>3, <2>5 DEF Abstract!Next, Content
<1> QED
  BY <1>7, <1>8, <1>9

\* What a scan or a delivery hands to a caller is shown under UIDs of one
\* message each.
LEMMA ShowingSteps ==
    ASSUME SmtpBoxes = {}, MoveInv, MoveInv', [Next]_vars, ~Removal, seen' # seen
    PROVE  Abstract!Next
<1>1. UNCHANGED <<files, tree>> /\ seen \subseteq seen'
  BY ShownListed
<1>2. PICK mb \in Mailboxes : mb = box["imap"]
  BY DEF MoveInv, UidInv, TypeInv, TypeOK, Procs
<1>3. \A s \in seen' \ seen : s.box = mb /\ \E f \in Listed(mb) : f.base = s.base
  BY <1>2, ShownListed
<1>4. \A s \in seen' \ seen : s.box = mb /\ \E m \in Content[mb] : m.id = s.base
  <2>1. \A f \in Listed(mb) : Message(f) \in Content[mb] /\ Message(f).id = f.base
    BY DEF Content, Messages, Message
  <2> QED
    BY <1>3, <2>1
<1>5. Content' = Content
  BY <1>1, ContentSame DEF Listed
<1>6. \A s, t \in seen' : s.box = t.box /\ s.uid = t.uid => s.base = t.base
  <2>1. PrivateUidNeverReused' /\ \A s \in seen' : s.box \in PrivateBoxes
    BY DEF MoveInv, UidInv, TypeInv, TypeOK, PrivateBoxes
  <2> QED
    BY <2>1 DEF PrivateUidNeverReused, NeverReused
<1>7. Abstract!Show(mb)
  BY <1>1, <1>4, <1>5, <1>6 DEF Abstract!Show, Content
<1> QED
  BY <1>7 DEF Abstract!Next

\* DELETE takes one message after another, and the UIDs with the uidlist; RENAME
\* takes the mailbox as a whole.
LEMMA RemovingSteps ==
    ASSUME MoveInv, Emptied, Removal
    PROVE  [Abstract!Next]_Abstract!vars
<1> USE DEF disk, imapVars, history
<1>a. /\ FilesInv /\ TypeOK /\ box["imap"] \in Mailboxes /\ files \in [Mailboxes -> SUBSET File]
      /\ tree \in [Mailboxes -> {"none", "part", "whole"}]
  BY DEF MoveInv, FilesInv, TypeInv, TypeOK, Procs
<1>b. UNCHANGED files => Content' = Content
  BY ContentSame DEF Listed
<1>1. ASSUME NEW mb \in Mailboxes, StartDelete(mb) PROVE Abstract!Next
  <2>1. UNCHANGED <<files, seen>> /\ tree' = [tree EXCEPT ![mb] = "part"]
    BY <1>1 DEF StartDelete
  <2>2. Abstract!Leave(mb)
    BY <1>a, <1>b, <2>1 DEF Abstract!Leave, Content
  <2> QED
    BY <2>2 DEF Abstract!Next
<1>2. ASSUME NEW mb \in Mailboxes, Rename(mb) PROVE Abstract!Next
  <2>1. /\ files' = [files EXCEPT ![mb] = {}] /\ tree' = [tree EXCEPT ![mb] = "none"]
        /\ ForgetShown(mb)
    BY <1>2 DEF Rename
  <2>2. Messages(mb)' = {} /\ \A other \in Mailboxes : other # mb => Messages(other)' = Messages(other)
    BY <1>a, <2>1 DEF Messages, Listed
  <2>3. Content' = [Content EXCEPT ![mb] = {}]
    BY <2>2 DEF Content
  <2>4. Abstract!GoAway(mb)
    BY <1>a, <2>1, <2>3 DEF Abstract!GoAway, Abstract!Forgotten, ForgetShown, Content
  <2> QED
    BY <2>4 DEF Abstract!Next
<1>3. CASE RmtreeFile
  <2>0. PICK mb \in Mailboxes : mb = box["imap"]
    BY <1>a
  <2>1. PICK f \in files[mb] : files' = [files EXCEPT ![mb] = @ \ {f}]
    BY <1>3, <2>0 DEF RmtreeFile
  <2>2. UNCHANGED <<seen, tree>> /\ tree[mb] = "part"
    BY <1>3, <2>0 DEF RmtreeFile, Emptied
  <2>3. CASE f \in Listed(mb)
    <3>1. /\ Listed(mb)' = Listed(mb) \ {f}
          /\ \A other \in Mailboxes : other # mb => Listed(other)' = Listed(other)
      BY <1>a, <2>1 DEF Listed
    <3>2. Content' = [Content EXCEPT ![mb] = @ \ {Message(f)}]
      BY <1>a, <2>3, <3>1, ContentRemoved
    <3>3. Message(f) \in Content[mb]
      BY <2>3 DEF Content, Messages, Message
    <3>4. Abstract!Drop(mb, Message(f))
      BY <2>2, <3>2 DEF Abstract!Drop, Abstract!Goes, Content
    <3> QED
      BY <3>3, <3>4 DEF Abstract!Next, Content
  <2>4. CASE f \notin Listed(mb)
    <3>1. \A other \in Mailboxes : Listed(other)' = Listed(other)
      BY <1>a, <2>1, <2>4 DEF Listed
    <3> QED
      BY <2>2, <3>1, ContentSame DEF Abstract!vars, Content
  <2> QED
    BY <2>3, <2>4
<1>4. CASE RmtreeUidlist
  <2>1. PICK mb \in Mailboxes : mb = box["imap"]
    BY <1>a
  <2>2. UNCHANGED <<files, tree>> /\ ForgetShown(mb) /\ tree[mb] = "part"
    BY <1>4, <2>1 DEF RmtreeUidlist, Emptied
  <2>3. Abstract!Forget(mb)
    BY <1>b, <2>2 DEF Abstract!Forget, Abstract!Forgotten, ForgetShown, Content
  <2> QED
    BY <2>3 DEF Abstract!Next
<1>5. CASE RmtreeDone
  <2>1. PICK mb \in Mailboxes : mb = box["imap"]
    BY <1>a
  <2>2. UNCHANGED <<files, seen>> /\ tree' = [tree EXCEPT ![mb] = "none"]
    BY <1>5, <2>1 DEF RmtreeDone
  <2>3. Abstract!Stay(mb)
    BY <1>a, <1>b, <2>2 DEF Abstract!Stay, Content
  <2> QED
    BY <2>3 DEF Abstract!Next
<1>6. CASE RmtreeRaises
  <2>1. UNCHANGED <<files, seen, tree>>
    BY <1>6 DEF RmtreeRaises
  <2> QED
    BY <1>b, <2>1 DEF Abstract!vars, Content
<1> QED
  BY <1>1, <1>2, <1>3, <1>4, <1>5, <1>6 DEF Removal

\* ensure_mailbox makes again what an interrupted DELETE left.
LEMMA EnsuringStep ==
    ASSUME MoveInv, Emptied, NEW p \in Procs, EnsureCheck(p)
    PROVE  [Abstract!Next]_Abstract!vars
<1>1. PICK mb \in Mailboxes : mb = box[p]
  BY DEF MoveInv, FilesInv, TypeInv, TypeOK
<1>2. /\ UNCHANGED <<files, seen>>
      /\ tree' = [tree EXCEPT ![mb] = IF Emptying(mb) THEN "part" ELSE "whole"]
  BY <1>1 DEF EnsureCheck, history
<1>3. Content' = Content
  BY <1>2, ContentSame DEF Listed
<1>4. tree \in [Mailboxes -> {"none", "part", "whole"}]
  BY DEF MoveInv, FilesInv, TypeInv, TypeOK
<1>5. CASE Emptying(mb)
  <2>1. tree' = tree
    BY <1>2, <1>4, <1>5 DEF Emptied, Emptying
  <2> QED
    BY <1>2, <1>3, <2>1 DEF Abstract!vars, Content
<1>6. CASE ~Emptying(mb)
  <2>1. Abstract!Stay(mb)
    BY <1>2, <1>3, <1>4, <1>6 DEF Abstract!Stay, Content
  <2> QED
    BY <2>1 DEF Abstract!Next
<1> QED
  BY <1>5, <1>6

\* The other steps leave the directories of the mailboxes alone.
LEMMA TreesStay ==
    ASSUME [Next]_vars, ~Removal, \A p \in Procs : ~EnsureCheck(p)
    PROVE  tree' = tree
<1> USE DEF disk, imapVars, history, vars
<1>1. ASSUME NEW p \in Procs, \/ EnsureCreate(p) \/ DeliverTmp(p) \/ DeliverRename(p)
                              \/ DeliverRead(p) \/ DeliverWrite(p) \/ Fail(p)
      PROVE  tree' = tree
  BY <1>1 DEF EnsureCreate, DeliverTmp, DeliverRename, DeliverRead, DeliverWrite, Fail
<1>2. CASE ImapStep
  BY <1>2 DEF ImapStep, ScanRead, ScanList, ScanWrite, ListDone, NoSuchMessage, GetMessage,
     FlagRename, FlagRead, FlagKeyError, FlagWrite, RemoveOriginal, RemoveRead, RemoveWrite,
     ExpungeRead, ExpungeRemove, ExpungeWrite
<1>3. ASSUME NEW mb, StartDeliver(mb) \/ ManualDrop(mb) PROVE tree' = tree
  BY <1>3 DEF StartDeliver, ManualDrop
<1>4. ASSUME NEW s, NEW mb, NEW dst, NEW uid, NEW arg, StartImap(s, mb, dst, uid, arg)
      PROVE  tree' = tree
  BY <1>4 DEF StartImap
<1>5. CASE DeliverRaises
  BY <1>5 DEF DeliverRaises
<1> QED
  BY NextCases, <1>1, <1>2, <1>3, <1>4, <1>5

\* Every step of the one server is a step of the abstract mailboxes or shows
\* its users nothing.
LEMMA MailboxStep ==
    ASSUME SmtpBoxes = {}, SeenInv, SeenInv', Emptied, [Next]_vars
    PROVE  [Abstract!Next]_Abstract!vars
<1>a. MoveInv /\ MoveInv' /\ FilesInv
  BY DEF SeenInv, MoveInv
<1>0. CASE Removal
  BY <1>a, <1>0, RemovingSteps
<1>1. CASE seen' # seen /\ ~Removal
  BY <1>a, <1>1, ShowingSteps
<1>2. CASE (\E p \in Procs : DeliverRename(p)) \/ (\E mb \in DropBoxes : ManualDrop(mb))
  BY <1>2, ArrivingSteps
<1>3. CASE FlagRename
  BY <1>a, <1>3, FlaggingStep
<1>4. CASE RemoveOriginal \/ ExpungeRemove
  BY <1>a, <1>4, LeavingSteps
<1>5. CASE \E p \in Procs : EnsureCheck(p)
  BY <1>a, <1>5, EnsuringStep
<1>6. CASE /\ seen' = seen /\ ~FlagRename /\ ~RemoveOriginal /\ ~ExpungeRemove /\ ~Removal
           /\ \A p \in Procs : ~DeliverRename(p) /\ ~EnsureCheck(p)
           /\ \A mb \in DropBoxes : ~ManualDrop(mb)
  <2>1. Content' = Content /\ tree' = tree
    BY <1>a, <1>6, ListedSame, ContentSame, TreesStay
  <2> QED
    BY <1>6, <2>1 DEF Abstract!vars, Content
<1> QED
  BY <1>0, <1>1, <1>2, <1>3, <1>4, <1>5, <1>6

\* Where no SMTP server delivers, the files and lists of storage/
\* maildir_backend.py implement the mailboxes of module Mailbox: messages
\* arrive with new names, change their flags, and go only expunged, once their
\* copy is complete or with a mailbox that is removed, and what callers are shown stays true of the UIDs.
THEOREM MailboxImplemented ==
    ASSUME SmtpBoxes = {}
    PROVE  Spec => IsMailbox
<1>1. Init => Abstract!Init
  <2> SUFFICES ASSUME Init PROVE Abstract!Init
    OBVIOUS
  <2>1. \A mb \in Mailboxes : Messages(mb) = {}
    BY DEF Init, Messages, Listed
  <2> QED
    BY <2>1 DEF Init, Abstract!Init
<1>2. SeenInv /\ SeenInv' /\ Emptied /\ [Next]_vars => [Abstract!Next]_Abstract!vars
  BY MailboxStep
<1> QED
  BY <1>1, <1>2, SeenInvariant, EmptiedInvariant, PTL DEF Spec, IsMailbox, Abstract!Spec

(***************************************************************************)
(* One copy.                                                               *)
(***************************************************************************)

OriginsFresh == \A mb \in Mailboxes : \A f \in Listed(mb) : f.origin < nextBase

\* From the rename of the copy until the removal of the original.
Copying ==
    \/ pc["imap"] \in {"deliverRead", "deliverWrite"}
    \/ Doing({"moveFlag"})
    \/ Doing({"moveRemove"}) /\ pc["imap"] \notin Removing

\* f is the original of the MOVE under way, in m1, and m2 has its copy.
IsOriginal(m1, f, m2) == Copying /\ m1 = job.box /\ f = got /\ m2 = job.dst

OriginsUnique ==
    failures = 0 =>
        \A m1, m2 \in Mailboxes : \A f \in Listed(m1), g \in Listed(m2) :
            f.origin = g.origin =>
                (m1 = m2 /\ f = g) \/ IsOriginal(m1, f, m2) \/ IsOriginal(m2, g, m1)

CopyInv == MoveInv /\ OriginsFresh /\ OriginsUnique

\* What a MOVE removes is the file it read.
LEMMA RemovedIsOriginal ==
    ASSUME SmtpBoxes = {}, MoveInv, RemoveOriginal
    PROVE  \E mb \in Mailboxes :
              /\ mb = job.box /\ got \in Listed(mb) /\ Listed(mb)' = Listed(mb) \ {got}
              /\ \A other \in Mailboxes : other # mb => Listed(other)' = Listed(other)
              /\ Copying /\ ~Copying' /\ UNCHANGED nextBase
<1> USE DEF disk, imapVars, history
<1>a. /\ box["imap"] \in PrivateBoxes /\ job.box \in PrivateBoxes /\ pc \in [Procs -> Steps] /\ "imap" \in Procs
  BY DEF MoveInv, UidInv, TypeInv, TypeOK, Procs, PrivateBoxes, Job
<1>1. pc["imap"] = "scanned" /\ stage = "moveRemove" /\ pc'["imap"] = "removeRead" /\ UNCHANGED <<stage, job, nextBase>>
  BY <1>a DEF RemoveOriginal, ScannedFor
<1>2. Copying /\ ~Copying'
  BY <1>1 DEF Copying, Doing, Removing
<1>3. PICK mb \in Mailboxes, e \in view :
        /\ mb = box["imap"] /\ e.file \in Listed(mb) /\ e \in Targets
        /\ Listed(mb)' = Listed(mb) \ {e.file}
        /\ \A other \in Mailboxes : other # mb => Listed(other)' = Listed(other)
  BY RemovalListed DEF MoveInv
<1>4. mb = job.box
  BY <1>1, <1>3 DEF MoveInv, Places
<1>5. e \in ImapList.map /\ Original \in ImapList.map /\ e.uid = Original.uid
  BY <1>a, <1>1, <1>3, <1>4 DEF MoveInv, UidInv, ViewCurrent, ImapIn, Targets, TargetUid,
     OriginalListed, Doing, Moving, Removing, Original, ImapList
<1>6. e.file = got
  BY <1>a, <1>5 DEF MoveInv, UidInv, ListsSound, Sound, ImapList, Original
<1> QED
  BY <1>1, <1>2, <1>3, <1>4, <1>6

\* No DELETE or RENAME comes during the copying.
LEMMA NoCopyingThen == MoveInv /\ Removal => ~Copying /\ ~Copying'
<1> SUFFICES ASSUME MoveInv, Removal PROVE ~Copying /\ ~Copying'
  OBVIOUS
<1>1. /\ pc["imap"] \in {"idle", "rmtree"}
      /\ pc'["imap"] = "idle" \/ (pc'["imap"] = "rmtree" /\ stage' = "delete")
  BY RemovalLoses DEF OnlyLoses, MoveInv, StageSteps, UidInv, TypeInv
<1> QED
  BY <1>1 DEF MoveInv, StageSteps, Copying, Doing

\* Nothing but a failure and the removal of the original ends the copying:
\* set_flags and the removal find what they look for.
LEMMA CopyingGoesOn ==
    ASSUME SmtpBoxes = {}, MoveInv, [Next]_vars, \A p \in Procs : ~Fail(p), Copying, ~RemoveOriginal
    PROVE  Copying' /\ UNCHANGED <<job, got>>
<1> USE DEF disk, imapVars, history, vars
<1>a. /\ pc \in [Procs -> Steps] /\ "imap" \in Procs /\ box["imap"] \in PrivateBoxes /\ stage \in Stages
      /\ pc["imap"] # "idle"
  BY DEF MoveInv, UidInv, TypeInv, TypeOK, Procs, PrivateBoxes, Copying, Doing
<1>b. /\ pc["imap"] = "flagWrite" => HasKey(data["imap"].map, held["imap"])
      /\ ScannedFor({"moveFlag", "moveRemove"}) => Targets # {}
  <2>1. pc["imap"] = "flagWrite" => HasKey(data["imap"].map, held["imap"])
    BY <1>a DEF MoveInv, UidInv, CopyCurrent, HeldListed, ImapIn, HasKey
  <2>2. ScannedFor({"moveFlag", "moveRemove"}) => Targets # {}
    BY <1>a DEF MoveInv, TargetsShown, ImapIn, ScannedFor, Targets, TargetUid, Original
  <2> QED
    BY <2>1, <2>2
<1>c. \/ stage = "moveCopy" /\ pc["imap"] \in {"deliverRead", "deliverWrite"}
      \/ stage = "moveFlag" /\ pc["imap"] \notin Delivering \union Removing \union {"expungeRemove"}
      \/ stage = "moveRemove" /\ pc["imap"] \notin Delivering \union Reflagging \union Removing \union {"expungeRemove"}
  BY DEF Copying, Doing, MoveInv, StageSteps, Delivering, Removing, Reflagging
<1>1. ASSUME NEW p \in Procs, \/ EnsureCheck(p) \/ EnsureCreate(p) \/ DeliverTmp(p)
                              \/ DeliverRename(p) \/ DeliverRead(p) \/ DeliverWrite(p)
      PROVE  Copying' /\ UNCHANGED <<job, got>>
  <2>1. p = "imap"
    BY <1>1 DEF EnsureCheck, EnsureCreate, DeliverTmp, DeliverRename, DeliverRead, DeliverWrite,
       MoveInv, UidInv, SmtpStays, Procs
  <2>2. CASE EnsureCheck(p) \/ EnsureCreate(p)
    BY <1>a, <1>c, <2>1, <2>2 DEF EnsureCheck, EnsureCreate, AfterEnsure, Copying, Doing, Removing
  <2>3. CASE DeliverTmp(p) \/ DeliverRename(p) \/ DeliverRead(p) \/ DeliverWrite(p)
    BY <1>a, <1>c, <2>1, <2>3 DEF DeliverTmp, DeliverRename, DeliverRead, DeliverWrite, Copying,
       Doing, Removing, Delivering
  <2> QED
    BY <1>1, <2>2, <2>3
<1>2. CASE ImapStep
  <2>1. CASE ScanRead \/ ScanList \/ ScanWrite \/ FlagRename \/ FlagRead \/ FlagWrite
    BY <1>a, <1>c, <2>1 DEF ScanRead, ScanList, ScanWrite, FlagRename, FlagRead, FlagWrite,
       ScannedFor, Copying, Doing, Removing, Reflagging, Delivering
  <2>2. ~ListDone /\ ~NoSuchMessage /\ ~GetMessage /\ ~FlagKeyError /\ ~ExpungeRead
    BY <1>a, <1>b, <1>c DEF ListDone, NoSuchMessage, GetMessage, FlagKeyError, ExpungeRead, ScannedFor
  <2>3. ~RemoveRead /\ ~RemoveWrite /\ ~ExpungeRemove /\ ~ExpungeWrite
    BY <1>c DEF RemoveRead, RemoveWrite, ExpungeRemove, ExpungeWrite, Removing, Delivering
  <2> QED
    BY <1>2, <2>1, <2>2, <2>3 DEF ImapStep
<1>3. ASSUME NEW mb, StartDeliver(mb) \/ ManualDrop(mb) PROVE Copying' /\ UNCHANGED <<job, got>>
  BY <1>a, <1>3 DEF StartDeliver, ManualDrop, Copying, Doing
<1>4. ASSUME NEW s, NEW mb, NEW dst, NEW uid, NEW arg, StartImap(s, mb, dst, uid, arg)
      PROVE  FALSE
  BY <1>a, <1>4 DEF StartImap
<1>5. CASE UNCHANGED vars \/ DeliverRaises
  <2>1. UNCHANGED <<pc["imap"], stage, job, got>>
    BY <1>a, <1>5 DEF DeliverRaises
  <2> QED
    BY <2>1 DEF Copying, Doing
<1>6. ~Removal
  BY NoCopyingThen
<1> QED
  BY NextCases, <1>1, <1>2, <1>3, <1>4, <1>5, <1>6

\* Only Fail counts failures.
LEMMA FailuresCounted ==
    ASSUME [Next]_vars
    PROVE  failures' = failures \/ \E p \in Procs : Fail(p)
<1> USE DEF disk, imapVars, history, vars
<1>1. ASSUME NEW p \in Procs, \/ EnsureCheck(p) \/ EnsureCreate(p) \/ DeliverTmp(p)
                              \/ DeliverRename(p) \/ DeliverRead(p) \/ DeliverWrite(p)
      PROVE  failures' = failures
  BY <1>1 DEF EnsureCheck, EnsureCreate, DeliverTmp, DeliverRename, DeliverRead, DeliverWrite
<1>2. CASE ImapStep
  BY <1>2 DEF ImapStep, ScanRead, ScanList, ScanWrite, ListDone, NoSuchMessage, GetMessage,
     FlagRename, FlagRead, FlagKeyError, FlagWrite, RemoveOriginal, RemoveRead, RemoveWrite,
     ExpungeRead, ExpungeRemove, ExpungeWrite
<1>3. ASSUME NEW mb, StartDeliver(mb) \/ ManualDrop(mb) PROVE failures' = failures
  BY <1>3 DEF StartDeliver, ManualDrop
<1>4. ASSUME NEW s, NEW mb, NEW dst, NEW uid, NEW arg, StartImap(s, mb, dst, uid, arg)
      PROVE  failures' = failures
  BY <1>4 DEF StartImap
<1>5. CASE Removal
  BY <1>5 DEF Removal, StartDelete, Rename, RmtreeFile, RmtreeUidlist, RmtreeDone, RmtreeRaises
<1>6. CASE DeliverRaises
  BY <1>6 DEF DeliverRaises
<1> QED
  BY NextCases, <1>1, <1>2, <1>3, <1>4, <1>5, <1>6

\* The copies, while every step finds the origins it needs.
LEMMA NextCopyInv == ASSUME SmtpBoxes = {} PROVE CopyInv /\ [Next]_vars => CopyInv'
<1> SUFFICES ASSUME CopyInv, [Next]_vars PROVE CopyInv'
  OBVIOUS
<1>a. /\ MoveInv /\ MoveInv' /\ FilesInv /\ UidInv /\ OriginsFresh /\ OriginsUnique
      /\ nextBase \in Nat /\ failures \in Nat
      /\ job.box \in Mailboxes /\ job.dst \in Mailboxes /\ PrivateBoxes = Mailboxes
      /\ \A mb \in Mailboxes : \A f \in Listed(mb) : f.origin \in Nat
  BY NextMoveInv DEF CopyInv, MoveInv, UidInv, TypeInv, TypeOK, Job, PrivateBoxes, Listed, File
<1>b. nextBase' \in Nat /\ nextBase <= nextBase'
  BY <1>a, TmpIsNew
<1>c. failures' = 0 => failures = 0 /\ \A p \in Procs : ~Fail(p)
  BY <1>a, FailuresCounted DEF Fail
<1>1. ASSUME NEW p \in Procs, DeliverRename(p) PROVE OriginsFresh' /\ OriginsUnique'
  <2>1. p = "imap" /\ pc["imap"] = "rename" /\ UNCHANGED <<job, got, stage>>
    BY <1>1, <1>a DEF DeliverRename, UidInv, SmtpStays, Procs, imapVars
  <2>2. PICK mb \in Mailboxes, file \in File :
          mb = box[p] /\ Added(mb, file) /\ file.origin = held[p].origin
    BY <1>1, <1>a, DeliveryListed
  <2>3. /\ stage = "moveCopy" /\ mb = job.dst /\ job.box # mb
        /\ file.origin = got.origin /\ got \in Listed(job.box)
    BY <1>a, <2>1, <2>2 DEF MoveInv, StageSteps, Places, Moving, Doing, Delivering, Removing,
       HeldCopies, OriginalListed
  <2>4. ~Copying /\ Copying'
    <3>1. pc'["imap"] = "deliverRead"
      BY <1>1, <1>a, <2>1 DEF DeliverRename, UidInv, TypeInv, TypeOK
    <3> QED
      BY <2>1, <2>3, <3>1 DEF Copying, Doing
  <2>5. OriginsFresh'
    BY <1>a, <1>b, <2>2, <2>3 DEF OriginsFresh, Added
  <2>6. ASSUME failures' = 0 PROVE OriginsUnique'
    <3>1. \A m1, m2 \in Mailboxes : \A f \in Listed(m1), g \in Listed(m2) :
            f.origin = g.origin => m1 = m2 /\ f = g
      BY <1>a, <1>c, <2>4, <2>6 DEF OriginsUnique, IsOriginal
    <3>2. \A m \in Mailboxes : \A f \in Listed(m) : f.origin = file.origin => m = job.box /\ f = got
      BY <1>a, <2>3, <3>1
    <3>3. \A m \in Mailboxes : \A f \in Listed(m)' : f \in Listed(m) \/ (m = mb /\ f = file)
      BY <2>2 DEF Added
    <3>4. \A m1, m2 \in Mailboxes : \A f \in Listed(m1)', g \in Listed(m2)' :
            f.origin = g.origin =>
              \/ m1 = m2 /\ f = g
              \/ m1 = job.box /\ f = got /\ m2 = job.dst
              \/ m2 = job.box /\ g = got /\ m1 = job.dst
      BY <2>3, <3>1, <3>2, <3>3
    <3> QED
      BY <2>1, <2>4, <3>4 DEF OriginsUnique, IsOriginal
  <2> QED
    BY <2>5, <2>6 DEF OriginsUnique
<1>2. ASSUME NEW mb \in DropBoxes, ManualDrop(mb) PROVE OriginsFresh' /\ OriginsUnique'
  <2>1. PICK file \in File : mb \in Mailboxes /\ Added(mb, file) /\ file.origin = nextBase
    BY <1>2, <1>a, DropListed
  <2>2. nextBase' = nextBase + 1 /\ UNCHANGED <<pc, stage, job, got, failures>>
    BY <1>2 DEF ManualDrop, imapVars
  <2>3. \A m \in Mailboxes : \A f \in Listed(m)' :
          (f \in Listed(m) /\ f.origin < nextBase) \/ (m = mb /\ f = file)
    BY <1>a, <2>1 DEF Added, OriginsFresh
  <2>4. OriginsFresh'
    BY <1>a, <2>1, <2>2, <2>3 DEF OriginsFresh
  <2>5. Copying' = Copying
    BY <2>2 DEF Copying, Doing
  <2>6. OriginsUnique'
    BY <1>a, <2>1, <2>2, <2>3, <2>5 DEF OriginsUnique, IsOriginal
  <2> QED
    BY <2>4, <2>6
<1>3. CASE FlagRename
  <2>1. PICK mb \in Mailboxes, e \in Targets, file \in File :
          /\ mb = box["imap"] /\ e.file \in Listed(mb) /\ file.origin = e.file.origin
          /\ Listed(mb)' = (Listed(mb) \ {e.file}) \union {file}
          /\ \A other \in Mailboxes : other # mb => Listed(other)' = Listed(other)
    BY <1>3, <1>a, ReflagListed
  <2>2. ~RemoveOriginal /\ UNCHANGED failures
    BY <1>3 DEF FlagRename, RemoveOriginal, ScannedFor, history
  <2>3. \A m \in Mailboxes : \A f \in Listed(m)' :
          (f \in Listed(m) /\ (m = mb => f # e.file)) \/ (m = mb /\ f = file)
    BY <2>1
  <2>4. OriginsFresh'
    BY <1>a, <1>b, <2>1, <2>3 DEF OriginsFresh
  <2>5. Copying => mb = job.dst /\ job.box # mb
    <3>1. pc["imap"] = "scanned" /\ stage \in {"store", "moveFlag"}
      BY <1>3 DEF FlagRename, ScannedFor
    <3> QED
      BY <1>a, <2>1, <3>1 DEF Copying, Doing, MoveInv, Places, Moving
  <2>6. ASSUME failures' = 0 PROVE OriginsUnique'
    <3>1. \A m1, m2 \in Mailboxes : \A f \in Listed(m1), g \in Listed(m2) :
            f.origin = g.origin => (m1 = m2 /\ f = g) \/ IsOriginal(m1, f, m2) \/ IsOriginal(m2, g, m1)
      BY <1>a, <1>c, <2>6 DEF OriginsUnique
    <3>2. Copying => Copying' /\ UNCHANGED <<job, got>>
      BY <1>a, <1>c, <2>2, <2>6, CopyingGoesOn
    <3>3. \A m1, m2 \in Mailboxes : \A f \in Listed(m1)', g \in Listed(m2)' :
            f.origin = g.origin => (m1 = m2 /\ f = g) \/ IsOriginal(m1, f, m2) \/ IsOriginal(m2, g, m1)
      <4> SUFFICES ASSUME NEW m1 \in Mailboxes, NEW m2 \in Mailboxes,
                          NEW f \in Listed(m1)', NEW g \in Listed(m2)', f.origin = g.origin
                   PROVE  (m1 = m2 /\ f = g) \/ IsOriginal(m1, f, m2) \/ IsOriginal(m2, g, m1)
        OBVIOUS
      <4>1. CASE f \in Listed(m1) /\ g \in Listed(m2)
        BY <3>1, <4>1
      <4>2. CASE m1 = mb /\ f = file /\ g \in Listed(m2) /\ (m2 = mb => g # e.file)
        BY <2>1, <2>5, <3>1, <4>2 DEF IsOriginal
      <4>3. CASE m2 = mb /\ g = file /\ f \in Listed(m1) /\ (m1 = mb => f # e.file)
        BY <2>1, <2>5, <3>1, <4>3 DEF IsOriginal
      <4> QED
        BY <2>3, <4>1, <4>2, <4>3
    <3> QED
      BY <3>2, <3>3 DEF OriginsUnique, IsOriginal
  <2> QED
    BY <1>a, <2>4, <2>6 DEF CopyInv, OriginsUnique
<1>4. CASE RemoveOriginal
  <2>1. PICK mb \in Mailboxes :
          /\ mb = job.box /\ ~Copying' /\ nextBase' = nextBase
          /\ Listed(mb)' = Listed(mb) \ {got}
          /\ \A other \in Mailboxes : other # mb => Listed(other)' = Listed(other)
    BY <1>4, <1>a, RemovedIsOriginal
  <2>2. \A m \in Mailboxes : \A f \in Listed(m)' : f \in Listed(m) /\ (m = mb => f # got)
    BY <2>1
  <2> QED
    BY <1>a, <1>c, <2>1, <2>2 DEF CopyInv, OriginsFresh, OriginsUnique, IsOriginal
<1>5. CASE ExpungeRemove
  <2>1. \A m \in Mailboxes : \A f \in Listed(m)' : f \in Listed(m)
    <3>1. PICK mb \in Mailboxes, e \in view :
            /\ Listed(mb)' = Listed(mb) \ {e.file}
            /\ \A other \in Mailboxes : other # mb => Listed(other)' = Listed(other)
      BY <1>5, <1>a, RemovalListed
    <3> QED
      BY <3>1
  <2>2. ~Copying /\ nextBase' = nextBase
    BY <1>5, <1>a DEF ExpungeRemove, Copying, Doing, MoveInv, StageSteps
  <2> QED
    BY <1>a, <1>c, <2>1, <2>2 DEF CopyInv, OriginsFresh, OriginsUnique, IsOriginal
<1>6. CASE /\ ~FlagRename /\ ~RemoveOriginal /\ ~ExpungeRemove /\ ~Removal
           /\ \A p \in Procs : ~DeliverRename(p)
           /\ \A mb \in DropBoxes : ~ManualDrop(mb)
  <2>1. \A mb \in Mailboxes : Listed(mb)' = Listed(mb)
    BY <1>a, <1>6, ListedSame
  <2>2. OriginsFresh'
    BY <1>a, <1>b, <2>1 DEF OriginsFresh
  <2>3. ASSUME failures' = 0 PROVE OriginsUnique'
    <3>1. Copying => Copying' /\ UNCHANGED <<job, got>>
      BY <1>a, <1>c, <1>6, <2>3, CopyingGoesOn
    <3> QED
      BY <1>a, <1>c, <2>1, <2>3, <3>1 DEF OriginsUnique, IsOriginal
  <2> QED
    BY <1>a, <2>2, <2>3 DEF CopyInv, OriginsUnique
<1>7. CASE Removal
  <2>1. PICK b \in Mailboxes : OnlyLoses(b)
    BY <1>a, <1>7, RemovalLoses DEF UidInv, TypeInv
  <2>2. nextBase' = nextBase /\ \A m \in Mailboxes : \A f \in Listed(m)' : f \in Listed(m)
    BY <2>1 DEF OnlyLoses, Listed
  <2>3. ~Copying
    BY <1>a, <1>7, NoCopyingThen
  <2> QED
    BY <1>a, <1>c, <2>2, <2>3 DEF CopyInv, OriginsFresh, OriginsUnique, IsOriginal
<1> QED
  BY <1>a, <1>1, <1>2, <1>3, <1>4, <1>5, <1>6, <1>7 DEF CopyInv

\* Where no SMTP server delivers, a message that no failure interrupts is in
\* one mailbox between operations, however many MOVEs it goes through.
THEOREM OneCopyKept ==
    ASSUME SmtpBoxes = {}
    PROVE  Spec => []OneCopy
<1>1. Init => CopyInv
  <2> SUFFICES ASSUME Init PROVE CopyInv
    OBVIOUS
  <2>1. \A mb \in Mailboxes : Listed(mb) = {}
    BY DEF Init, Listed
  <2> QED
    BY <2>1, InitMoveInv DEF CopyInv, OriginsFresh, OriginsUnique
<1>2. CopyInv /\ [Next]_vars => CopyInv'
  BY NextCopyInv
<1>3. CopyInv => OneCopy
  BY DEF CopyInv, OriginsUnique, IsOriginal, Copying, Doing, OneCopy
<1> QED
  BY <1>1, <1>2, <1>3, PTL DEF Spec

(***************************************************************************)
(* A message keeps its UID.  In a private mailbox, and while nothing has   *)
(* failed, a uidlist has one entry per base name, under the UID callers    *)
(* were given, and it names every listed file they know, except for the    *)
(* rename set_flags has not entered yet.                                   *)
(***************************************************************************)

\* f is the file set_flags has renamed and not yet entered under its new name.
Renaming(mb, f) ==
    pc["imap"] \in Reflagging /\ box["imap"] = mb /\ f = Reflagged(held["imap"])

\* The names of a uidlist have been generated, and are not those of deliveries
\* still under tmp/.
Known(map) ==
    \A e \in map :
        /\ e.file.base < nextBase
        /\ \A mb \in Mailboxes : \A f \in files[mb] : f.dir = "tmp" => f.base # e.file.base

OneEntryEach(map) == \A e, f \in map : e.file.base = f.file.base => e = f

UidsAsShown(mb, map) ==
    \A s \in seen : \A e \in map : s.box = mb /\ e.file.base = s.base => e.uid = s.uid

NamesCurrent(mb, map) ==
    \A e \in map : \A f \in Listed(mb) :
        e.file.base = f.base => e.file = f \/ (Renaming(mb, f) /\ e.file = held["imap"])

ShownEntered(mb, map) ==
    \A f \in Listed(mb) : \A s \in seen :
        s.box = mb /\ s.base = f.base => HasKey(map, f) \/ Renaming(mb, f)

KeepsUids(mb, map) ==
    /\ Known(map)
    /\ OneEntryEach(map)
    /\ UidsAsShown(mb, map)
    /\ NamesCurrent(mb, map)
    /\ ShownEntered(mb, map)

\* No entry of map and no UID shown is about this base name.
Unheard(base, map) ==
    (\A e \in map : e.file.base # base) /\ (\A s \in seen : s.base # base)

ListsKeep == \A mb \in PrivateBoxes : KeepsUids(mb, uidlist[mb].map)

ScanKeeps == ImapIn({"scanWrite"}) => KeepsUids(box["imap"], data["imap"].map)

ExpungeKeeps ==
    ImapIn({"expungeRemove"}) =>
        \A f \in Listed(box["imap"]) : HasKey(ImapList.map, f) => HasKey(data["imap"].map, f)

CopyUnheard ==
    ImapIn({"deliverRead", "deliverWrite"}) => Unheard(held["imap"].base, ImapList.map)

RenamedListed == ImapIn(Reflagging) => Reflagged(held["imap"]) \in Listed(box["imap"])

\* The list that names one file only.
Alone(file) == {[file |-> file, uid |-> 0]}

RemovedGone ==
    ImapIn(Removing) =>
        /\ Known(Alone(held["imap"]))
        /\ \A f \in Listed(box["imap"]) : f.base # held["imap"].base

StableParts ==
    /\ Stable(PrivateBoxes)
    /\ ListsKeep
    /\ ScanKeeps
    /\ ExpungeKeeps
    /\ CopyUnheard
    /\ RenamedListed
    /\ RemovedGone

StableInv == SeenInv /\ (failures = 0 => StableParts)

\* Names stay known.
LEMMA KnownStays ==
    ASSUME SeenInv, [Next]_vars, NEW map \in SUBSET Entry, Known(map)
    PROVE  Known(map)'
<1>1. nextBase \in Nat /\ \A e \in map : e.file.base \in Nat
  BY DEF SeenInv, MoveInv, UidInv, TypeInv, TypeOK, Entry, File
<1>2. nextBase' = nextBase \/ nextBase' = nextBase + 1
  BY TmpIsNew DEF SeenInv
<1>3. \A mb \in Mailboxes : \A f \in files'[mb] : f.dir = "tmp" => f \in files[mb] \/ f.base = nextBase
  BY TmpIsNew DEF SeenInv
<1> QED
  BY <1>1, <1>2, <1>3 DEF Known

\* Only set_flags lists a file under another name: any other file a step adds
\* has a name no uidlist and no caller knows.
LEMMA NewNames ==
    ASSUME SeenInv, [Next]_vars, NEW mb \in Mailboxes, mb # box["imap"] \/ ~FlagRename,
           NEW map, Known(map)
    PROVE  \A f \in Listed(mb)' : f \in Listed(mb) \/ Unheard(f.base, map)
<1>a. MoveInv /\ FilesInv /\ SeenFresh /\ TmpUnseen
  BY DEF SeenInv, MoveInv
<1>b. \A s \in seen : s.base < nextBase
  BY <1>a DEF SeenFresh
<1>1. ASSUME NEW p \in Procs, DeliverRename(p)
      PROVE  \A f \in Listed(mb)' : f \in Listed(mb) \/ Unheard(f.base, map)
  <2>1. PICK other \in Mailboxes, file \in File :
          Added(other, file) /\ file.base = held[p].base /\ held[p] \in files[other]
    BY <1>1, <1>a, DeliveryListed
  <2>2. held[p].dir = "tmp"
    BY <1>1, <1>a DEF FilesInv, HeldInTmp, DeliverRename
  <2>3. Unheard(file.base, map)
    BY <1>a, <2>1, <2>2 DEF Unheard, Known, TmpUnseen
  <2> QED
    BY <2>1, <2>3 DEF Added
<1>2. ASSUME NEW other \in DropBoxes, ManualDrop(other)
      PROVE  \A f \in Listed(mb)' : f \in Listed(mb) \/ Unheard(f.base, map)
  <2>1. PICK file \in File : other \in Mailboxes /\ Added(other, file) /\ file.base = nextBase
    BY <1>2, <1>a, DropListed
  <2>2. Unheard(file.base, map)
    <3>1. nextBase \in Nat
      BY <1>a DEF FilesInv, TypeInv, TypeOK
    <3> QED
      BY <1>b, <2>1, <3>1 DEF Unheard, Known
  <2> QED
    BY <2>1, <2>2 DEF Added
<1>3. CASE FlagRename
  <2>1. mb # box["imap"]
    BY <1>3
  <2>2. Listed(mb)' = Listed(mb)
    BY <1>3, <1>a, <2>1, ReflagListed DEF MoveInv
  <2> QED
    BY <2>2
<1>4. CASE RemoveOriginal \/ ExpungeRemove
  <2>1. Listed(mb)' \subseteq Listed(mb)
    BY <1>4, <1>a, RemovalListed
  <2> QED
    BY <2>1
<1>5. CASE /\ ~FlagRename /\ ~RemoveOriginal /\ ~ExpungeRemove /\ ~Removal
           /\ \A p \in Procs : ~DeliverRename(p)
           /\ \A other \in DropBoxes : ~ManualDrop(other)
  BY <1>5, <1>a, ListedSame
<1>6. CASE Removal
  <2>1. Listed(mb)' \subseteq Listed(mb)
    BY <1>6, <1>a, RemovalLoses DEF OnlyLoses, Listed, MoveInv, UidInv, TypeInv
  <2> QED
    BY <2>1
<1> QED
  BY <1>1, <1>2, <1>3, <1>4, <1>5, <1>6

\* A rename that is not entered yet stays so.
RenamingGoesOn(mb) ==
    pc["imap"] \in Reflagging /\ box["imap"] = mb =>
        /\ pc'["imap"] \in Reflagging
        /\ UNCHANGED <<box["imap"], held["imap"], stage, job, got>>

\* A uidlist that is not rewritten still agrees with the mailbox.
LEMMA KeepsFrame ==
    ASSUME SeenInv, [Next]_vars, NEW mb \in Mailboxes, NEW map \in SUBSET Entry, KeepsUids(mb, map),
           \A s \in seen' : s \in seen \/ s.box # mb,
           mb # box["imap"] \/ ~FlagRename,
           RenamingGoesOn(mb)
    PROVE  KeepsUids(mb, map)'
<1>a. \A f \in Listed(mb)' : f \in Listed(mb) \/ Unheard(f.base, map)
  BY NewNames DEF KeepsUids
<1>1. \A f : Renaming(mb, f) => Renaming(mb, f)' /\ held'["imap"] = held["imap"]
  BY DEF RenamingGoesOn, Renaming, Reflagged, NewFlags, KeptFlags
<1>2. Known(map)'
  BY KnownStays DEF KeepsUids
<1>3. UidsAsShown(mb, map)'
  BY DEF KeepsUids, UidsAsShown
<1>4. NamesCurrent(mb, map)'
  BY <1>a, <1>1 DEF KeepsUids, NamesCurrent, Unheard
<1>5. ShownEntered(mb, map)'
  BY <1>a, <1>1 DEF KeepsUids, ShownEntered, Unheard
<1>6. OneEntryEach(map)'
  BY DEF KeepsUids, OneEntryEach
<1> QED
  BY <1>2, <1>3, <1>4, <1>5, <1>6 DEF KeepsUids

\* Steps of the SMTP server, and of whoever puts messages in by hand, leave
\* what the IMAP process and the private lists hold.
ImapRests ==
    /\ UNCHANGED <<pc["imap"], box["imap"], held["imap"], data["imap"], stage, job, view, got, seen>>
    /\ \A mb \in PrivateBoxes : uidlist'[mb] = uidlist[mb]
    /\ ~FlagRename

LEMMA ImapRestsOrMoves ==
    ASSUME UidInv, [Next]_vars, ~Removal, \A p \in Procs : ~Fail(p)
    PROVE  \/ ImapRests
           \/ \E s \in Starts, mb, dst \in Mailboxes, uid \in Nat, arg \in [mode : Modes, flags : SUBSET Flags] :
                 StartImap(s, mb, dst, uid, arg)
           \/ SharedStep("imap")
           \/ ImapStep
<1> USE DEF disk, imapVars, history, vars
<1>a. /\ pc \in [Procs -> Steps] /\ box \in [Procs -> Mailboxes] /\ held \in [Procs -> File]
      /\ data \in [Procs -> Uidlist] /\ uidlist \in [Mailboxes -> Uidlist]
  BY DEF UidInv, TypeInv, TypeOK
<1>b. FlagRename => ImapStep
  BY DEF ImapStep
<1>1. ASSUME NEW mb, StartDeliver(mb) \/ ManualDrop(mb)
      PROVE  /\ UNCHANGED <<pc["imap"], box["imap"], held["imap"], data["imap"], stage, job, view, got, seen>>
             /\ uidlist' = uidlist
  BY <1>a, <1>1 DEF StartDeliver, ManualDrop, Procs
<1>2. ASSUME SharedStep("smtp")
      PROVE  /\ UNCHANGED <<pc["imap"], box["imap"], held["imap"], data["imap"], stage, job, view, got, seen>>
             /\ \A mb \in PrivateBoxes : uidlist'[mb] = uidlist[mb]
  <2>1. pc["smtp"] # "idle"
    BY <1>2 DEF SharedStep, EnsureCheck, EnsureCreate, DeliverTmp, DeliverRename, DeliverRead, DeliverWrite
  <2>2. \A mb \in PrivateBoxes : mb \in Mailboxes /\ mb # box["smtp"]
    BY <2>1 DEF UidInv, SmtpStays, PrivateBoxes
  <2>3. UNCHANGED <<pc["imap"], box["imap"], held["imap"], data["imap"], stage, job, view, got, seen>>
    <3>1. CASE EnsureCheck("smtp") \/ EnsureCreate("smtp")
      BY <1>a, <3>1 DEF EnsureCheck, EnsureCreate, Procs
    <3>2. CASE DeliverTmp("smtp") \/ DeliverRename("smtp")
      BY <1>a, <3>2 DEF DeliverTmp, DeliverRename, Procs
    <3>3. CASE DeliverRead("smtp") \/ DeliverWrite("smtp")
      BY <1>a, <3>3 DEF DeliverRead, DeliverWrite, Procs
    <3> QED
      BY <1>2, <3>1, <3>2, <3>3 DEF SharedStep
  <2>4. uidlist' = uidlist \/ \E new : uidlist' = [uidlist EXCEPT ![box["smtp"]] = new]
    BY <1>2 DEF SharedStep, EnsureCheck, EnsureCreate, DeliverTmp, DeliverRename, DeliverRead, DeliverWrite
  <2> QED
    BY <1>a, <2>2, <2>3, <2>4
<1>3. \A p \in Procs : p = "imap" \/ p = "smtp"
  BY DEF Procs
<1>4. CASE ~ImapStep
  <2>1. ASSUME NEW p \in Procs, SharedStep(p) PROVE ImapRests \/ SharedStep("imap")
    BY <1>2, <1>3, <1>4, <1>b, <2>1 DEF ImapRests
  <2>2. ASSUME NEW mb, StartDeliver(mb) \/ ManualDrop(mb) PROVE ImapRests
    BY <1>1, <1>4, <1>b, <2>2 DEF ImapRests
  <2>3. CASE UNCHANGED vars \/ DeliverRaises
    <3>1. /\ UNCHANGED <<pc["imap"], box["imap"], held["imap"], data["imap"], stage, job, view, got, seen>>
          /\ uidlist' = uidlist
      BY <1>a, <2>3 DEF DeliverRaises, Procs
    <3> QED
      BY <1>4, <1>b, <3>1 DEF ImapRests
  <2> QED
    BY NextCases, <1>4, <2>1, <2>2, <2>3 DEF SharedStep
<1> QED
  BY <1>4

\* The steps that bring the IMAP process to the places StableParts speaks of.
LEMMA HowImapGets ==
    ASSUME TypeOK,
           \/ \E s \in Starts, mb, dst \in Mailboxes, uid \in Nat, arg \in [mode : Modes, flags : SUBSET Flags] :
                 StartImap(s, mb, dst, uid, arg)
           \/ SharedStep("imap")
           \/ ImapStep
    PROVE  /\ pc'["imap"] = "scanWrite" => ScanList
           /\ pc'["imap"] = "expungeRemove" => ExpungeRead \/ ExpungeRemove
           /\ pc'["imap"] = "deliverRead" => DeliverRename("imap")
           /\ pc'["imap"] = "deliverWrite" => DeliverRead("imap")
           /\ pc'["imap"] = "flagRead" => FlagRename
           /\ pc'["imap"] = "flagWrite" => FlagRead
           /\ pc'["imap"] = "removeRead" => RemoveOriginal
           /\ pc'["imap"] = "removeWrite" => RemoveRead
<1>a. pc \in [Procs -> Steps] /\ "imap" \in Procs
  BY DEF TypeOK, Procs
<1>1. ASSUME NEW s, NEW mb, NEW dst, NEW uid, NEW arg, StartImap(s, mb, dst, uid, arg)
      PROVE  pc'["imap"] = "ensure"
  BY <1>a, <1>1 DEF StartImap
<1>2. CASE SharedStep("imap")
  BY <1>a, <1>2 DEF SharedStep, EnsureCheck, EnsureCreate, DeliverTmp, DeliverRename, DeliverRead,
     DeliverWrite, AfterEnsure
<1>3. CASE ScanRead \/ ScanList \/ ScanWrite \/ ListDone \/ NoSuchMessage \/ GetMessage
  BY <1>a, <1>3 DEF ScanRead, ScanList, ScanWrite, ListDone, NoSuchMessage, GetMessage
<1>4. CASE FlagRename \/ FlagRead \/ FlagKeyError \/ FlagWrite
  BY <1>a, <1>4 DEF FlagRename, FlagRead, FlagKeyError, FlagWrite
<1>5. CASE RemoveOriginal \/ RemoveRead \/ RemoveWrite \/ ExpungeRead \/ ExpungeRemove \/ ExpungeWrite
  BY <1>a, <1>5 DEF RemoveOriginal, RemoveRead, RemoveWrite, ExpungeRead, ExpungeRemove, ExpungeWrite
<1> QED
  BY <1>1, <1>2, <1>3, <1>4, <1>5 DEF ImapStep

(***************************************************************************)
(* The steps of the IMAP process in a private mailbox.                     *)
(***************************************************************************)

\* A uidlist whose entries for some listed files are handed to a caller.
LEMMA HandedKeeps ==
    ASSUME SeenInv, [Next]_vars, NEW mb \in Mailboxes, mb = box["imap"],
           NEW map \in SUBSET Entry, KeepsUids(mb, map),
           NEW entries, entries \subseteq map, \A e \in entries : e.file \in Listed(mb),
           seen' = seen \union HandedAll(mb, entries), UNCHANGED files,
           pc["imap"] \notin Reflagging
    PROVE  /\ KeepsUids(mb, map)'
           /\ \A s \in seen' \ seen : s.box = mb /\ \E e \in map : e.file.base = s.base /\ e.uid = s.uid
<1>a. FilesInv /\ Listed(mb)' = Listed(mb)
  BY DEF SeenInv, MoveInv, Listed
<1>b. \A f : ~Renaming(mb, f)
  BY DEF Renaming
<1>1. \A s \in seen' : \/ s \in seen
                       \/ s.box = mb /\ \E e \in entries : e.file.base = s.base /\ e.uid = s.uid
  BY DEF HandedAll, Handed
<1>2. Known(map)' /\ OneEntryEach(map)'
  BY KnownStays DEF KeepsUids, OneEntryEach
<1>3. UidsAsShown(mb, map)'
  BY <1>1 DEF KeepsUids, UidsAsShown, OneEntryEach
<1>4. NamesCurrent(mb, map)'
  BY <1>a, <1>b DEF KeepsUids, NamesCurrent
<1>5. \A f \in Listed(mb) : \A s \in seen' : s.box = mb /\ s.base = f.base => HasKey(map, f)
  <2> SUFFICES ASSUME NEW f \in Listed(mb), NEW s \in seen', s.box = mb, s.base = f.base
               PROVE  HasKey(map, f)
    OBVIOUS
  <2>1. CASE s \in seen
    BY <1>b, <2>1 DEF KeepsUids, ShownEntered
  <2>2. CASE \E e \in entries : e.file.base = s.base /\ e.uid = s.uid
    <3>1. PICK e \in entries : e.file.base = f.base
      BY <2>2
    <3>2. e.file = f
      BY <1>a, <3>1 DEF FilesInv, BasesUnique, Listed
    <3> QED
      BY <3>2 DEF HasKey
  <2> QED
    BY <1>1, <2>1, <2>2
<1>6. ShownEntered(mb, map)'
  BY <1>a, <1>5 DEF ShownEntered
<1> QED
  BY <1>1, <1>2, <1>3, <1>4, <1>6 DEF KeepsUids

\* A scan numbers only files that no entry and no caller knows.
LEMMA ScannedKeepsUids ==
    ASSUME SeenInv, NEW mb \in Mailboxes, NEW map \in SUBSET Entry, KeepsUids(mb, map),
           \A f : ~Renaming(mb, f), NEW num,
           NEW new, new = map \union {[file |-> f, uid |-> num[f]] : f \in {g \in Listed(mb) : ~HasKey(map, g)}}
    PROVE  KeepsUids(mb, new)
<1> DEFINE unknown == {g \in Listed(mb) : ~HasKey(map, g)}
<1>a. FilesInv /\ \A f, g \in Listed(mb) : f.base = g.base => f = g
  BY DEF SeenInv, MoveInv, FilesInv, BasesUnique, Listed
<1>1. \A e \in new : e \in map \/ (e.file \in unknown /\ e = [file |-> e.file, uid |-> num[e.file]])
  OBVIOUS
<1>2. \A f \in unknown : \A e \in map : e.file.base # f.base
  BY DEF KeepsUids, NamesCurrent, HasKey
<1>3. \A f \in unknown : \A s \in seen : s.box = mb => s.base # f.base
  BY DEF KeepsUids, ShownEntered
<1>4. \A f \in unknown : [file |-> f, uid |-> num[f]] \in new
  OBVIOUS
<1>5. unknown \subseteq Listed(mb) /\ map \subseteq new
  OBVIOUS
<1>6. \A f \in Listed(mb) : f \in unknown \/ HasKey(map, f)
  OBVIOUS
<1> HIDE DEF unknown
<1>7. Known(new)
  <2>1. \A f \in Listed(mb) :
           /\ f.base < nextBase
           /\ \A m \in Mailboxes : \A g \in files[m] : g.dir = "tmp" => g.base # f.base
    BY <1>a DEF FilesInv, BasesFresh, BasesUnique, Listed
  <2> QED
    BY <1>1, <1>5, <2>1 DEF KeepsUids, Known
<1>8. OneEntryEach(new)
  BY <1>a, <1>1, <1>2, <1>5 DEF KeepsUids, OneEntryEach
<1>9. UidsAsShown(mb, new)
  BY <1>1, <1>3 DEF KeepsUids, UidsAsShown
<1>10. NamesCurrent(mb, new)
  BY <1>a, <1>1, <1>5 DEF KeepsUids, NamesCurrent
<1>11. ShownEntered(mb, new)
  BY <1>5 DEF KeepsUids, ShownEntered, HasKey
<1> QED
  BY <1>7, <1>8, <1>9, <1>10, <1>11 DEF KeepsUids

\* ensure_mailbox, deliver_message and the removals rewrite the list.
LEMMA CreatedKeeps ==
    ASSUME StableInv, StableParts, [Next]_vars, NEW mb \in PrivateBoxes, mb = box["imap"],
           EnsureCreate("imap")
    PROVE  KeepsUids(mb, uidlist[mb].map)'
<1>a. MoveInv /\ UidInv /\ mb \in Mailboxes /\ uidlist \in [Mailboxes -> Uidlist] /\ TypeOK
  BY DEF StableInv, SeenInv, MoveInv, UidInv, TypeInv, TypeOK, PrivateBoxes
<1>1. uidlist'[mb].map = {}
  BY <1>a DEF EnsureCreate, FreshUidlist
<1>2. \A s \in seen : s.box # mb
  <2>1. uidlist[mb].next = 0
    BY <1>a DEF EnsureCreate, UidInv, CreateAbsent, ImapIn, ImapList
  <2>2. \A s \in seen : s.box = mb => s.uid \in Nat /\ s.uid < 0
    BY <1>a, <2>1 DEF UidInv, ListsSound, AgreesWithSeen, TypeOK
  <2> QED
    BY <2>2
<1>3. UNCHANGED seen
  BY DEF EnsureCreate, history
<1> QED
  BY <1>1, <1>2, <1>3 DEF KeepsUids, Known, OneEntryEach, UidsAsShown, NamesCurrent, ShownEntered

LEMMA CopiedKeeps ==
    ASSUME StableInv, StableParts, [Next]_vars, NEW mb \in PrivateBoxes, mb = box["imap"],
           DeliverWrite("imap")
    PROVE  /\ KeepsUids(mb, uidlist[mb].map)'
           /\ \A s \in seen' \ seen : s.box = mb /\ \E e \in uidlist'[mb].map : e.file.base = s.base /\ e.uid = s.uid
<1>a. /\ SeenInv /\ MoveInv /\ FilesInv /\ UidInv /\ mb \in Mailboxes /\ uidlist \in [Mailboxes -> Uidlist]
      /\ \A f, g \in Listed(mb) : f.base = g.base => f = g
  BY DEF StableInv, SeenInv, MoveInv, UidInv, FilesInv, TypeInv, TypeOK, PrivateBoxes, BasesUnique, Listed
<1>b. pc["imap"] = "deliverWrite" /\ UNCHANGED files
  BY DEF DeliverWrite
<1>1. PICK map, uid, file :
        /\ map \in SUBSET Entry
        /\ map = uidlist[mb].map /\ uid = data["imap"].next /\ file = held["imap"]
  BY <1>a DEF Uidlist
<1>2. data["imap"] = uidlist[mb]
  BY <1>b DEF StableInv, SeenInv, MoveInv, UidInv, CopyCurrent, ImapIn, ImapList
<1>3. uidlist'[mb].map = Put(map, file, uid)
  BY <1>a, <1>1, <1>2 DEF DeliverWrite, Numbered
<1>4. seen' = seen \union {[box |-> mb, uid |-> uid, base |-> file.base]}
  BY <1>1 DEF DeliverWrite, Handed
<1>5. file \in Listed(mb)
  BY <1>a, <1>b, <1>1 DEF MoveInv, HeldCopies
<1>6. Unheard(file.base, map)
  BY <1>b, <1>1 DEF StableParts, CopyUnheard, ImapIn, ImapList
<1>7. PICK new : new = uidlist'[mb].map
  OBVIOUS
<1>8. new = map \union {[file |-> file, uid |-> uid]}
  BY <1>3, <1>6, <1>7 DEF Put, Del, Unheard
<1>9. Listed(mb)' = Listed(mb) /\ \A f : ~Renaming(mb, f)
  BY <1>b DEF Listed, Renaming, Reflagging
<1>10. KeepsUids(mb, map)
  BY <1>1 DEF StableParts, ListsKeep
<1>11. Known(new)'
  <2>1. Known(map)'
    BY <1>a, <1>1, <1>10, KnownStays DEF KeepsUids
  <2>2. /\ file.base < nextBase' /\ nextBase' = nextBase
        /\ \A m \in Mailboxes : \A f \in files'[m] : f.dir = "tmp" => f.base # file.base
    BY <1>a, <1>b, <1>5 DEF DeliverWrite, FilesInv, BasesFresh, BasesUnique, Listed
  <2> QED
    BY <1>8, <2>1, <2>2 DEF Known
<1>12. OneEntryEach(new)'
  BY <1>6, <1>8, <1>10 DEF KeepsUids, OneEntryEach, Unheard
<1>13. UidsAsShown(mb, new)'
  BY <1>4, <1>6, <1>8, <1>10 DEF KeepsUids, UidsAsShown, Unheard
<1>14. NamesCurrent(mb, new)'
  BY <1>a, <1>5, <1>8, <1>9, <1>10 DEF KeepsUids, NamesCurrent
<1>15. \E e \in new : e.file = file /\ e.uid = uid
  <2> DEFINE entry == [file |-> file, uid |-> uid]
  <2>1. entry \in new
    BY <1>8
  <2>2. entry.file = file /\ entry.uid = uid
    OBVIOUS
  <2> HIDE DEF entry
  <2> QED
    BY <2>1, <2>2
<1>16. ShownEntered(mb, new)'
  <2>1. HasKey(new, file) /\ \A f : HasKey(map, f) => HasKey(new, f)
    BY <1>8, <1>15 DEF HasKey
  <2>2. \A s \in seen' : s \in seen \/ s.base = file.base
    BY <1>4
  <2>3. \A f \in Listed(mb) : \A s \in seen' : s.box = mb /\ s.base = f.base => HasKey(new, f)
    BY <1>a, <1>5, <1>9, <1>10, <2>1, <2>2 DEF KeepsUids, ShownEntered
  <2> QED
    BY <1>9, <2>3 DEF ShownEntered
<1>17. KeepsUids(mb, uidlist[mb].map)'
  BY <1>7, <1>11, <1>12, <1>13, <1>14, <1>16 DEF KeepsUids
<1>18. \A s \in seen' \ seen : s.box = mb /\ s.base = file.base /\ s.uid = uid
  BY <1>4
<1> QED
  BY <1>7, <1>15, <1>17, <1>18

\* A list with fewer entries keeps what it says, as long as what it drops is
\* not listed any more.
LEMMA FewerKeep ==
    ASSUME SeenInv, [Next]_vars, NEW mb \in Mailboxes, NEW map \in SUBSET Entry, KeepsUids(mb, map),
           NEW new, new \subseteq map, \A f \in Listed(mb) : HasKey(map, f) => HasKey(new, f),
           UNCHANGED <<seen, files>>, pc["imap"] \notin Reflagging
    PROVE  KeepsUids(mb, new)'
<1>a. Listed(mb)' = Listed(mb) /\ \A f : ~Renaming(mb, f)
  BY DEF Listed, Renaming
<1>1. Known(new)'
  BY KnownStays DEF KeepsUids, Known
<1>2. OneEntryEach(new)'
  BY DEF KeepsUids, OneEntryEach
<1>3. UidsAsShown(mb, new)'
  BY DEF KeepsUids, UidsAsShown
<1>4. NamesCurrent(mb, new)'
  BY <1>a DEF KeepsUids, NamesCurrent
<1>5. ShownEntered(mb, new)'
  BY <1>a DEF KeepsUids, ShownEntered
<1> QED
  BY <1>1, <1>2, <1>3, <1>4, <1>5 DEF KeepsUids

LEMMA RemovedKeeps ==
    ASSUME StableInv, StableParts, [Next]_vars, NEW mb \in PrivateBoxes, mb = box["imap"],
           RemoveWrite \/ ExpungeWrite
    PROVE  KeepsUids(mb, uidlist[mb].map)'
<1>a. /\ SeenInv /\ MoveInv /\ UidInv /\ mb \in Mailboxes /\ uidlist \in [Mailboxes -> Uidlist]
      /\ UNCHANGED <<files, seen>> /\ pc["imap"] \notin Reflagging
  BY DEF StableInv, SeenInv, MoveInv, UidInv, TypeInv, TypeOK, PrivateBoxes, RemoveWrite, ExpungeWrite,
     history, Reflagging
<1>1. PICK map \in SUBSET Entry : map = uidlist[mb].map
  BY <1>a DEF Uidlist
<1>2. PICK new : new = uidlist'[mb].map
  OBVIOUS
<1>3. KeepsUids(mb, map)
  BY <1>1 DEF StableParts, ListsKeep
<1>4. new \subseteq map /\ \A f \in Listed(mb) : HasKey(map, f) => HasKey(new, f)
  <2>1. CASE RemoveWrite
    <3>1. pc["imap"] = "removeWrite" /\ new = Del(data["imap"].map, held["imap"])
      BY <1>a, <1>2, <2>1 DEF RemoveWrite
    <3>2. data["imap"] = uidlist[mb]
      BY <1>a, <3>1 DEF UidInv, CopyCurrent, ImapIn, ImapList
    <3>3. \A f \in Listed(mb) : f # held["imap"]
      BY <3>1 DEF StableParts, RemovedGone, ImapIn, Removing
    <3> QED
      BY <1>1, <3>1, <3>2, <3>3 DEF Del, HasKey
  <2>2. CASE ExpungeWrite
    <3>1. pc["imap"] = "expungeRemove" /\ new = data["imap"].map
      BY <1>a, <1>2, <2>2 DEF ExpungeWrite
    <3> QED
      BY <1>a, <1>1, <3>1 DEF UidInv, CopyCurrent, ImapIn, ImapList, StableParts, ExpungeKeeps
  <2> QED
    BY <2>1, <2>2
<1>5. KeepsUids(mb, new)'
  BY <1>a, <1>3, <1>4, FewerKeep
<1> QED
  BY <1>2, <1>5

\* set_flags: between its rename and its rewrite of the list, the entry of the
\* renamed file still has the old name.
LEMMA RenameKeeps ==
    ASSUME StableInv, StableParts, [Next]_vars, NEW mb \in PrivateBoxes, mb = box["imap"], FlagRename
    PROVE  KeepsUids(mb, uidlist[mb].map)' /\ RenamedListed'
<1>a. /\ SeenInv /\ MoveInv /\ UidInv /\ FilesInv /\ TypeOK /\ mb \in Mailboxes
      /\ pc["imap"] = "scanned" /\ pc'["imap"] = "flagRead"
      /\ UNCHANGED <<uidlist, box, stage, job, got, seen>>
  BY DEF StableInv, SeenInv, MoveInv, UidInv, TypeInv, TypeOK, Procs, PrivateBoxes, FlagRename, ScannedFor,
     imapVars, history
<1>1. PICK map \in SUBSET Entry : map = uidlist[mb].map
  BY <1>a DEF TypeOK, Uidlist
<1>2. PICK e \in Targets, file \in File :
        /\ e.file \in Listed(mb) /\ held' = [held EXCEPT !["imap"] = e.file]
        /\ file = Reflagged(e.file) /\ file.base = e.file.base
        /\ Listed(mb)' = (Listed(mb) \ {e.file}) \union {file}
  BY <1>a, ReflagListed
<1>3. e \in map
  BY <1>a, <1>1, <1>2 DEF UidInv, ViewCurrent, ImapIn, ImapList, Targets
<1>4. held'["imap"] = e.file
  BY <1>a, <1>2 DEF TypeOK, Procs
<1>5. Renaming(mb, file)'
  <2>1. \A flags : NewFlags(flags)' = NewFlags(flags)
    BY <1>a DEF NewFlags, KeptFlags
  <2>2. Reflagged(held["imap"])' = Reflagged(e.file)
    BY <1>4, <2>1 DEF Reflagged
  <2> QED
    BY <1>a, <1>2, <2>2 DEF Renaming, Reflagging
<1>6. KeepsUids(mb, map) /\ \A f : ~Renaming(mb, f)
  BY <1>a, <1>1 DEF StableParts, ListsKeep, Renaming, Reflagging
<1>7. Known(map)' /\ OneEntryEach(map)' /\ UidsAsShown(mb, map)'
  BY <1>a, <1>6, KnownStays DEF KeepsUids, OneEntryEach, UidsAsShown
<1>8. NamesCurrent(mb, map)'
  <2> SUFFICES ASSUME NEW d \in map, NEW f \in Listed(mb)', d.file.base = f.base
               PROVE  d.file = f \/ (Renaming(mb, f)' /\ d.file = held'["imap"])
    BY DEF NamesCurrent
  <2>1. CASE f = file
    <3>1. d = e
      BY <1>2, <1>3, <1>6, <2>1 DEF KeepsUids, OneEntryEach
    <3> QED
      BY <1>4, <1>5, <2>1, <3>1
  <2>2. CASE f \in Listed(mb)
    BY <1>6, <2>2 DEF KeepsUids, NamesCurrent
  <2> QED
    BY <1>2, <2>1, <2>2
<1>9. ShownEntered(mb, map)'
  BY <1>a, <1>2, <1>5, <1>6 DEF KeepsUids, ShownEntered
<1>10. RenamedListed'
  <2>1. file = Reflagged(held["imap"])'
    BY <1>5 DEF Renaming
  <2>2. file \in Listed(mb)' /\ mb = box'["imap"]
    BY <1>a, <1>2
  <2> QED
    BY <2>1, <2>2 DEF RenamedListed, Listed
<1> QED
  BY <1>a, <1>1, <1>7, <1>8, <1>9, <1>10 DEF KeepsUids

LEMMA ReflaggedKeeps ==
    ASSUME StableInv, StableParts, [Next]_vars, NEW mb \in PrivateBoxes, mb = box["imap"], FlagWrite
    PROVE  KeepsUids(mb, uidlist[mb].map)'
<1>a. /\ SeenInv /\ MoveInv /\ UidInv /\ TypeOK /\ mb \in Mailboxes
      /\ pc["imap"] = "flagWrite" /\ pc'["imap"] \notin Reflagging /\ UNCHANGED <<files, seen>>
      /\ \A f, g \in Listed(mb) : f.base = g.base => f = g
  BY DEF StableInv, SeenInv, MoveInv, UidInv, FilesInv, TypeInv, TypeOK, Procs, PrivateBoxes, FlagWrite,
     history, Reflagging, BasesUnique, Listed
<1>1. PICK map, old, file, uid :
        /\ map \in SUBSET Entry /\ old \in File /\ file \in File
        /\ map = uidlist[mb].map /\ old = held["imap"] /\ file = Reflagged(old) /\ uid = TargetUid
  BY <1>a, ReflaggedType DEF TypeOK, Uidlist, Procs
<1>2. file.base = old.base
  BY <1>1 DEF Reflagged, File
<1>3. data["imap"] = uidlist[mb] /\ [file |-> old, uid |-> uid] \in map
  BY <1>a, <1>1 DEF UidInv, CopyCurrent, HeldListed, ImapIn, ImapList
<1>4. file \in Listed(mb)
  BY <1>a, <1>1 DEF StableParts, RenamedListed, ImapIn, Reflagging
<1>5. PICK new : new = uidlist'[mb].map
  OBVIOUS
<1>6. new = Put(Del(map, old), file, uid)
  BY <1>a, <1>1, <1>3, <1>5 DEF FlagWrite, TypeOK
<1>7. /\ KeepsUids(mb, map) /\ Listed(mb)' = Listed(mb)
      /\ \A f : Renaming(mb, f) => f = file
  BY <1>a, <1>1 DEF StableParts, ListsKeep, Listed, Renaming
<1>8. PICK from : from \in map /\ from.file = old /\ from.uid = uid
  BY <1>3
<1>9. \A e \in new : (e \in map /\ e.file # old) \/ (e.file = file /\ e.uid = uid)
  BY <1>6 DEF Put, Del
<1>10. \A e \in new : e.file = file => e = [file |-> file, uid |-> uid]
  BY <1>6 DEF Put, Del
<1>11. \A e \in map : e.file # old => e.file.base # file.base
  BY <1>2, <1>7, <1>8 DEF KeepsUids, OneEntryEach
<1>12. /\ HasKey(new, file)
       /\ \A f : HasKey(map, f) => HasKey(new, f) \/ f = old
  <2> DEFINE entry == [file |-> file, uid |-> uid]
  <2>1. entry \in new /\ entry.file = file
    BY <1>6 DEF Put
  <2>2. \A e \in map : e \in new \/ e.file = old \/ e.file = file
    BY <1>6 DEF Put, Del
  <2> HIDE DEF entry
  <2> QED
    BY <2>1, <2>2 DEF HasKey
<1>13. Known(new)'
  <2>1. Known(map)'
    BY <1>a, <1>1, <1>7, KnownStays DEF KeepsUids
  <2> QED
    BY <1>2, <1>8, <1>9, <2>1 DEF Known
<1>14. OneEntryEach(new)'
  BY <1>7, <1>9, <1>10, <1>11 DEF KeepsUids, OneEntryEach
<1>15. UidsAsShown(mb, new)'
  BY <1>a, <1>2, <1>7, <1>8, <1>9 DEF KeepsUids, UidsAsShown
<1>16. NamesCurrent(mb, new)'
  BY <1>a, <1>1, <1>4, <1>7, <1>9 DEF KeepsUids, NamesCurrent
<1>17. ShownEntered(mb, new)'
  <2>1. \A f \in Listed(mb) : f = old => f = file
    BY <1>a, <1>2, <1>4
  <2> QED
    BY <1>a, <1>7, <1>12, <2>1 DEF KeepsUids, ShownEntered
<1> QED
  BY <1>5, <1>13, <1>14, <1>15, <1>16, <1>17 DEF KeepsUids

\* _scan: what it shows has an entry, on disk before any caller sees it.
LEMMA ScanKeepsUids ==
    ASSUME StableInv, StableParts, [Next]_vars, NEW mb \in PrivateBoxes, mb = box["imap"],
           ScanList \/ ScanWrite
    PROVE  /\ KeepsUids(mb, uidlist[mb].map)' /\ ScanKeeps'
           /\ \A s \in seen' \ seen : s.box = mb /\ \E e \in uidlist'[mb].map : e.file.base = s.base /\ e.uid = s.uid
<1>a. /\ SeenInv /\ MoveInv /\ UidInv /\ FilesInv /\ TypeOK /\ mb \in Mailboxes
      /\ pc["imap"] \notin Reflagging /\ UNCHANGED <<files, box>>
  BY DEF StableInv, SeenInv, MoveInv, UidInv, FilesInv, TypeInv, TypeOK, Procs, PrivateBoxes, ScanList,
     ScanWrite, disk, Reflagging
<1>b. \A f : ~Renaming(mb, f)
  BY <1>a DEF Renaming
<1>1. CASE ScanWrite
  <2>1. PICK map \in SUBSET Entry : map = data["imap"].map
    BY <1>a DEF TypeOK, Uidlist, Procs
  <2>2. pc["imap"] = "scanWrite" /\ pc'["imap"] = "scanned"
    BY <1>1, <1>a DEF ScanWrite, TypeOK, Procs
  <2>3. KeepsUids(mb, map)
    BY <2>1, <2>2 DEF StableParts, ScanKeeps, ImapIn
  <2>4. uidlist'[mb].map = map /\ seen' = seen \union HandedAll(mb, view)
    BY <1>1, <1>a, <2>1 DEF ScanWrite, TypeOK
  <2>5. view \subseteq map /\ \A e \in view : e.file \in Listed(mb)
    BY <1>a, <2>1, <2>2 DEF UidInv, CopyCurrent, ImapIn, FilesInv, ViewListed
  <2>6. /\ KeepsUids(mb, map)'
        /\ \A s \in seen' \ seen : s.box = mb /\ \E e \in map : e.file.base = s.base /\ e.uid = s.uid
    BY <1>a, <2>3, <2>4, <2>5, HandedKeeps
  <2>7. ScanKeeps'
    BY <2>2 DEF ScanKeeps, ImapIn
  <2> QED
    BY <2>4, <2>6, <2>7
<1>2. CASE ScanList
  <2>1. PICK map \in SUBSET Entry : map = uidlist[mb].map
    BY <1>a DEF TypeOK, Uidlist
  <2>2. data["imap"] = uidlist[mb] /\ uidlist' = uidlist
    BY <1>2, <1>a DEF ScanList, UidInv, CopyCurrent, ImapIn, ImapList, disk
  <2>3. PICK unknown : unknown = {f \in Listed(mb) : ~HasKey(map, f)}
    OBVIOUS
  <2>4. unknown = {f \in Listed(box["imap"]) : ~HasKey(data["imap"].map, f)}
    BY <2>1, <2>2, <2>3
  <2>5. PICK num \in Numberings(unknown, data["imap"].next) :
          /\ data' = [data EXCEPT !["imap"] = Scanned(data["imap"], unknown, num)]
          /\ view' = Entries(Scanned(data["imap"], unknown, num).map, Listed(box["imap"]))
          /\ IF unknown # {}
             THEN pc' = [pc EXCEPT !["imap"] = "scanWrite"] /\ UNCHANGED seen
             ELSE /\ pc' = [pc EXCEPT !["imap"] = "scanned"]
                  /\ seen' = seen \union HandedAll(box["imap"], view')
    BY <1>2, <2>4 DEF ScanList, Scanned
  <2>6. PICK new : new = map \union {[file |-> f, uid |-> num[f]] : f \in unknown}
    OBVIOUS
  <2>7. Scanned(data["imap"], unknown, num).map = new
    BY <2>1, <2>2, <2>6 DEF Scanned
  <2>8. /\ data'["imap"] = Scanned(data["imap"], unknown, num)
        /\ view' = Entries(new, Listed(mb))
        /\ \/ unknown # {} /\ UNCHANGED seen
           \/ unknown = {} /\ pc'["imap"] = "scanned" /\ seen' = seen \union HandedAll(mb, view')
    BY <1>a, <2>5, <2>7 DEF TypeOK, Procs
  <2>9. KeepsUids(mb, map)
    BY <2>1 DEF StableParts, ListsKeep
  <2>10. KeepsUids(mb, new)
    BY <1>a, <1>b, <2>3, <2>6, <2>9, ScannedKeepsUids
  <2>11. data'["imap"].map = new /\ new \in SUBSET Entry
    <3>1. data'["imap"].map = new
      BY <2>8, <2>7
    <3>2. TypeOK'
      BY <1>a, NextTypeInv DEF UidInv, TypeInv
    <3> QED
      BY <3>1, <3>2 DEF TypeOK, Uidlist, Procs
  <2>12. RenamingGoesOn(mb)
    BY <1>a DEF RenamingGoesOn
  <2>13. ~FlagRename
    BY <1>2 DEF ScanList, FlagRename, ScannedFor
  <2>14. CASE unknown # {}
    <3>1. KeepsUids(mb, map)' /\ KeepsUids(mb, new)'
      BY <1>a, <2>8, <2>9, <2>10, <2>11, <2>12, <2>13, <2>14, KeepsFrame
    <3>2. ScanKeeps'
      BY <1>a, <2>11, <3>1 DEF ScanKeeps
    <3> QED
      BY <2>1, <2>2, <2>8, <2>14, <3>1, <3>2
  <2>15. CASE unknown = {}
    <3>1. new = map
      BY <2>6, <2>15
    <3>2. PICK entries : entries = view'
      OBVIOUS
    <3>3. entries \subseteq map /\ \A e \in entries : e.file \in Listed(mb)
      BY <2>8, <2>6, <3>1, <3>2 DEF Entries
    <3>4. /\ KeepsUids(mb, map)'
          /\ \A s \in seen' \ seen : s.box = mb /\ \E e \in map : e.file.base = s.base /\ e.uid = s.uid
      BY <1>a, <2>8, <2>9, <2>15, <3>2, <3>3, HandedKeeps
    <3>5. ScanKeeps'
      BY <2>8, <2>15 DEF ScanKeeps, ImapIn
    <3> QED
      BY <2>1, <2>2, <3>4, <3>5
  <2> QED
    BY <2>14, <2>15
<1> QED
  BY <1>1, <1>2

\* Every list of a private mailbox keeps its UIDs through every step, and what
\* a step shows is in the list.
LEMMA NextListsKeep ==
    ASSUME StableInv, StableParts, [Next]_vars, ~Removal, \A p \in Procs : ~Fail(p)
    PROVE  /\ ListsKeep'
           /\ \A s \in seen' \ seen : s.box \in PrivateBoxes =>
                 \E e \in uidlist'[s.box].map : e.file.base = s.base /\ e.uid = s.uid
<1> USE DEF disk, imapVars, history
<1>a. /\ SeenInv /\ MoveInv /\ MoveInv' /\ UidInv /\ TypeOK
      /\ pc \in [Procs -> Steps] /\ "imap" \in Procs
  BY NextMoveInv DEF StableInv, SeenInv, MoveInv, UidInv, TypeInv, TypeOK, Procs
<1> SUFFICES ASSUME NEW mb \in PrivateBoxes
             PROVE  /\ KeepsUids(mb, uidlist[mb].map)'
                    /\ \A s \in seen' \ seen : s.box = mb =>
                          \E e \in uidlist'[mb].map : e.file.base = s.base /\ e.uid = s.uid
  BY DEF ListsKeep
<1>b. mb \in Mailboxes
  BY DEF PrivateBoxes
<1>c. PICK map \in SUBSET Entry : map = uidlist[mb].map
  BY <1>a, <1>b DEF TypeOK, Uidlist
<1>d. KeepsUids(mb, map)
  BY <1>c DEF StableParts, ListsKeep
<1>1. CASE mb # box["imap"]
  <2>1. uidlist'[mb] = uidlist[mb]
    BY <1>1, <1>a, PrivateListsStay
  <2>2. \A s \in seen' : s \in seen \/ s.box # mb
    BY <1>1, <1>a, ShownListed
  <2>3. KeepsUids(mb, map)'
    BY <1>1, <1>a, <1>b, <1>d, <2>2, KeepsFrame DEF RenamingGoesOn
  <2> QED
    BY <1>c, <2>1, <2>2, <2>3
<1>2. CASE mb = box["imap"]
  <2>1. CASE EnsureCreate("imap")
    BY <1>2, <2>1, CreatedKeeps DEF EnsureCreate
  <2>2. CASE DeliverWrite("imap")
    BY <1>2, <2>2, CopiedKeeps
  <2>3. CASE RemoveWrite \/ ExpungeWrite
    BY <1>2, <2>3, RemovedKeeps DEF RemoveWrite, ExpungeWrite
  <2>4. CASE FlagRename
    BY <1>2, <2>4, RenameKeeps DEF FlagRename
  <2>5. CASE FlagWrite
    BY <1>2, <2>5, ReflaggedKeeps DEF FlagWrite
  <2>6. CASE ScanList \/ ScanWrite
    BY <1>2, <2>6, ScanKeepsUids
  <2>7. ASSUME uidlist'[mb] = uidlist[mb], seen' = seen, ~FlagRename, RenamingGoesOn(mb)
        PROVE  /\ KeepsUids(mb, uidlist[mb].map)'
               /\ \A s \in seen' \ seen : s.box = mb =>
                     \E e \in uidlist'[mb].map : e.file.base = s.base /\ e.uid = s.uid
    BY <1>a, <1>b, <1>c, <1>d, <2>7, KeepsFrame
  <2>8. CASE ImapRests
    BY <2>7, <2>8 DEF ImapRests, RenamingGoesOn, Reflagging
  <2>9. ASSUME NEW s, NEW m, NEW dst, NEW uid, NEW arg, StartImap(s, m, dst, uid, arg)
        PROVE  /\ UNCHANGED <<uidlist, seen>> /\ ~FlagRename /\ RenamingGoesOn(mb)
    BY <2>9 DEF StartImap, FlagRename, ScannedFor, RenamingGoesOn, Reflagging
  <2>10. CASE \/ EnsureCheck("imap") \/ DeliverTmp("imap") \/ DeliverRename("imap") \/ DeliverRead("imap")
    <3>1. UNCHANGED <<uidlist, seen>> /\ ~FlagRename /\ RenamingGoesOn(mb)
      BY <2>10 DEF EnsureCheck, DeliverTmp, DeliverRename, DeliverRead, FlagRename, ScannedFor,
         RenamingGoesOn, Reflagging
    <3> QED
      BY <2>7, <3>1
  <2>11. CASE ScanRead \/ ListDone \/ NoSuchMessage \/ GetMessage \/ RemoveOriginal \/ RemoveRead
              \/ ExpungeRead \/ ExpungeRemove
    <3>1. UNCHANGED <<uidlist, seen>> /\ RenamingGoesOn(mb)
      BY <2>11 DEF ScanRead, ListDone, NoSuchMessage, GetMessage, RemoveOriginal, RemoveRead,
         ExpungeRead, ExpungeRemove, ScannedFor, RenamingGoesOn, Reflagging
    <3> QED
      BY <2>4, <2>7, <3>1
  <2>12. CASE FlagRead
    <3>1. UNCHANGED <<uidlist, seen>> /\ ~FlagRename /\ RenamingGoesOn(mb)
      BY <1>a, <2>12 DEF FlagRead, FlagRename, ScannedFor, RenamingGoesOn, Reflagging
    <3> QED
      BY <2>7, <3>1
  <2>13. ~FlagKeyError
    BY <1>2, <1>a DEF FlagKeyError, UidInv, CopyCurrent, HeldListed, ImapIn, HasKey
  <2> QED
    <3>1. CASE \E s \in Starts, m, dst \in Mailboxes, uid \in Nat, arg \in [mode : Modes, flags : SUBSET Flags] :
                  StartImap(s, m, dst, uid, arg)
      BY <2>7, <2>9, <3>1
    <3>2. CASE SharedStep("imap")
      BY <2>1, <2>2, <2>10, <3>2 DEF SharedStep
    <3>3. CASE ImapStep
      BY <2>3, <2>4, <2>5, <2>6, <2>11, <2>12, <2>13, <3>3 DEF ImapStep
    <3> QED
      BY <1>a, <2>8, <3>1, <3>2, <3>3, ImapRestsOrMoves
<1> QED
  BY <1>1, <1>2

\* The parts about what the IMAP process holds.
LEMMA NextHeldKeeps ==
    ASSUME StableInv, StableParts, [Next]_vars, ~Removal, \A p \in Procs : ~Fail(p)
    PROVE  ScanKeeps' /\ ExpungeKeeps' /\ CopyUnheard' /\ RenamedListed' /\ RemovedGone'
<1> USE DEF disk, imapVars, history
<1>a. /\ SeenInv /\ SeenInv' /\ MoveInv /\ FilesInv /\ UidInv /\ TypeOK /\ SeenFresh /\ TmpUnseen
      /\ pc \in [Procs -> Steps] /\ "imap" \in Procs /\ box["imap"] \in Mailboxes
      /\ data \in [Procs -> Uidlist] /\ held \in [Procs -> File] /\ box \in [Procs -> Mailboxes]
      /\ uidlist \in [Mailboxes -> Uidlist] /\ nextBase \in Nat
  BY NextSeenInv DEF StableInv, SeenInv, MoveInv, UidInv, TypeInv, TypeOK, Procs
<1>b. nextBase' \in Nat /\ nextBase <= nextBase'
  BY <1>a, TmpIsNew
<1>c. PICK mb \in Mailboxes : mb = box["imap"]
  BY <1>a
<1>d. PICK map \in SUBSET Entry : map = uidlist[mb].map
  BY <1>a DEF Uidlist
<1>e. mb \in PrivateBoxes => KeepsUids(mb, map) /\ Known(map)
  BY <1>d DEF StableParts, ListsKeep, KeepsUids
<1>f. mb \in PrivateBoxes /\ ~FlagRename => \A f \in Listed(mb)' : f \in Listed(mb) \/ Unheard(f.base, map)
  BY <1>a, <1>e, NewNames
<1>1. CASE ImapRests
  <2>1. /\ pc'["imap"] = pc["imap"] /\ box'["imap"] = mb /\ held'["imap"] = held["imap"]
        /\ data'["imap"] = data["imap"] /\ seen' = seen /\ UNCHANGED <<stage, job, got>> /\ ~FlagRename
        /\ mb \in PrivateBoxes => uidlist'[mb] = uidlist[mb]
    BY <1>1, <1>c DEF ImapRests
  <2>2. ScanKeeps'
    <3> SUFFICES ASSUME pc["imap"] = "scanWrite", mb \in PrivateBoxes
                 PROVE  KeepsUids(mb, data["imap"].map)'
      BY <2>1 DEF ScanKeeps, ImapIn
    <3>1. PICK scanned \in SUBSET Entry : scanned = data["imap"].map
      BY <1>a DEF Uidlist
    <3>2. KeepsUids(mb, scanned)
      BY <1>c, <3>1 DEF StableParts, ScanKeeps, ImapIn
    <3>3. KeepsUids(mb, scanned)'
      BY <1>a, <2>1, <3>2, KeepsFrame DEF RenamingGoesOn, Reflagging
    <3> QED
      BY <2>1, <3>1, <3>3
  <2>3. ExpungeKeeps'
    BY <1>c, <1>d, <1>f, <2>1 DEF StableParts, ExpungeKeeps, ImapIn, ImapList, HasKey, Unheard, Listed
  <2>4. CopyUnheard'
    BY <1>c, <1>d, <2>1 DEF StableParts, CopyUnheard, ImapIn, ImapList, Unheard
  <2>5. RenamedListed'
    <3> SUFFICES ASSUME pc["imap"] \in Reflagging, mb \in PrivateBoxes
                 PROVE  Reflagged(held["imap"])' \in Listed(mb)'
      BY <2>1 DEF RenamedListed, ImapIn, Listed
    <3>1. Reflagged(held["imap"])' = Reflagged(held["imap"])
      BY <2>1 DEF Reflagged, NewFlags, KeptFlags
    <3>2. ~RemoveOriginal /\ ~ExpungeRemove
      BY DEF RemoveOriginal, ExpungeRemove, ScannedFor, Reflagging
    <3>3. Listed(mb) \subseteq Listed(mb)'
      BY <1>a, <2>1, <3>2, ListedGrows
    <3> QED
      BY <1>c, <3>1, <3>3 DEF StableParts, RenamedListed, ImapIn
  <2>6. RemovedGone'
    <3> SUFFICES ASSUME pc["imap"] \in Removing, mb \in PrivateBoxes
                 PROVE  /\ Known(Alone(held["imap"]))'
                        /\ \A f \in Listed(mb)' : f.base # held["imap"].base
      BY <2>1 DEF RemovedGone, ImapIn, Listed
    <3>1. PICK file \in File : file = held["imap"]
      BY <1>a
    <3>2. PICK alone \in SUBSET Entry : alone = Alone(file)
      <4>1. [file |-> file, uid |-> 0] \in Entry
        BY DEF Entry
      <4>2. Alone(file) \in SUBSET Entry
        BY <4>1 DEF Alone
      <4> QED
        BY <4>2
    <3>3. Known(alone) /\ \A f \in Listed(mb) : f.base # file.base
      BY <1>c, <3>1, <3>2 DEF StableParts, RemovedGone, ImapIn
    <3>4. Known(alone)' /\ \A f \in Listed(mb)' : f \in Listed(mb) \/ Unheard(f.base, alone)
      BY <1>a, <2>1, <3>3, KnownStays, NewNames
    <3>5. \A f \in Listed(mb)' : f.base # file.base
      BY <3>2, <3>3, <3>4 DEF Unheard, Alone
    <3>6. Alone(held["imap"])' = alone
      BY <2>1, <3>1, <3>2 DEF Alone
    <3> QED
      BY <3>1, <3>4, <3>5, <3>6 DEF Known
  <2> QED
    BY <2>2, <2>3, <2>4, <2>5, <2>6
<1>2. ASSUME ~ImapRests
      PROVE  /\ pc'["imap"] = "scanWrite" => ScanList
             /\ pc'["imap"] = "expungeRemove" => ExpungeRead \/ ExpungeRemove
             /\ pc'["imap"] = "deliverRead" => DeliverRename("imap")
             /\ pc'["imap"] = "deliverWrite" => DeliverRead("imap")
             /\ pc'["imap"] = "flagRead" => FlagRename
             /\ pc'["imap"] = "flagWrite" => FlagRead
             /\ pc'["imap"] = "removeRead" => RemoveOriginal
             /\ pc'["imap"] = "removeWrite" => RemoveRead
  BY <1>2, <1>a, ImapRestsOrMoves, HowImapGets
<1>3. ASSUME ~ImapRests, ImapIn({"scanWrite"})' PROVE KeepsUids(box["imap"], data["imap"].map)'
  <2>1. ScanList
    BY <1>2, <1>3 DEF ImapIn
  <2>2. box' = box
    BY <2>1 DEF ScanList
  <2>3. ScanKeeps'
    BY <1>a, <1>3, <2>1, <2>2, ScanKeepsUids DEF ImapIn
  <2> QED
    BY <1>3, <2>3 DEF ScanKeeps
<1>4. ASSUME ~ImapRests, ImapIn({"expungeRemove"})'
      PROVE  \A f \in Listed(box["imap"])' : HasKey(ImapList.map, f)' => HasKey(data["imap"].map, f)'
  <2>1. ExpungeRead \/ ExpungeRemove
    BY <1>2, <1>4 DEF ImapIn
  <2>2. box' = box /\ uidlist' = uidlist
    BY <2>1 DEF ExpungeRead, ExpungeRemove
  <2>3. CASE ExpungeRead
    <3>1. data'["imap"].map = map
      BY <1>a, <1>c, <1>d, <2>3 DEF ExpungeRead
    <3> QED
      BY <1>c, <1>d, <2>2, <3>1 DEF ImapList, HasKey
  <2>4. CASE ExpungeRemove
    <3>1. PICK e \in view : /\ data'["imap"].map = Del(data["imap"].map, e.file)
                            /\ Listed(mb)' = Listed(mb) \ {e.file}
      BY <1>a, <1>c, <2>4, RemovalListed
    <3>2. \A f \in Listed(mb) : HasKey(map, f) => HasKey(data["imap"].map, f)
      BY <1>4, <1>c, <1>d, <2>2, <2>4 DEF StableParts, ExpungeKeeps, ExpungeRemove, ImapIn, ImapList
    <3>3. \A f \in Listed(mb)' : HasKey(map, f) => HasKey(data'["imap"].map, f)
      BY <3>1, <3>2 DEF HasKey, Del
    <3> QED
      BY <1>c, <1>d, <2>2, <3>3 DEF ImapList, HasKey, Listed
  <2> QED
    BY <2>1, <2>3, <2>4
<1>5. ASSUME ~ImapRests, ImapIn({"deliverRead", "deliverWrite"})'
      PROVE  Unheard(held["imap"].base, ImapList.map)'
  <2>1. DeliverRename("imap") \/ DeliverRead("imap")
    BY <1>2, <1>5 DEF ImapIn
  <2>2. box' = box /\ uidlist' = uidlist /\ seen' = seen /\ mb \in PrivateBoxes
    BY <1>c, <1>5, <2>1 DEF DeliverRename, DeliverRead, ImapIn
  <2>3. held'["imap"].base = held["imap"].base /\ Unheard(held["imap"].base, map)
    <3>1. CASE DeliverRename("imap")
      <4>1. PICK file \in File : /\ held' = [held EXCEPT !["imap"] = file]
                                 /\ file.base = held["imap"].base /\ held["imap"] \in files[mb]
        BY <1>a, <1>c, <3>1, DeliveryListed
      <4>2. held["imap"].dir = "tmp"
        BY <1>a, <3>1 DEF FilesInv, HeldInTmp, DeliverRename
      <4> QED
        BY <1>a, <1>e, <2>2, <4>1, <4>2 DEF Unheard, Known, TmpUnseen
    <3>2. CASE DeliverRead("imap")
      BY <1>c, <1>d, <2>2, <3>2 DEF DeliverRead, StableParts, CopyUnheard, ImapIn, ImapList
    <3> QED
      BY <2>1, <3>1, <3>2
  <2> QED
    BY <1>c, <1>d, <2>2, <2>3 DEF Unheard, ImapList
<1>6. ASSUME ~ImapRests, ImapIn(Reflagging)' PROVE RenamedListed'
  <2>1. FlagRename \/ FlagRead
    BY <1>2, <1>6 DEF ImapIn, Reflagging
  <2>2. CASE FlagRename
    <3>1. mb \in PrivateBoxes
      BY <1>c, <1>6, <2>2 DEF FlagRename, ImapIn
    <3> QED
      BY <1>c, <2>2, <3>1, RenameKeeps
  <2>3. CASE FlagRead
    <3>1. /\ UNCHANGED <<files, box, held, stage, job, got>> /\ pc["imap"] \in Reflagging
          /\ mb \in PrivateBoxes
      BY <1>c, <1>6, <2>3 DEF FlagRead, ImapIn, Reflagging
    <3>2. Reflagged(held["imap"])' = Reflagged(held["imap"])
      BY <3>1 DEF Reflagged, NewFlags, KeptFlags
    <3> QED
      BY <1>c, <3>1, <3>2 DEF StableParts, RenamedListed, ImapIn, Listed
  <2> QED
    BY <2>1, <2>2, <2>3
<1>7. ASSUME ~ImapRests, ImapIn(Removing)' PROVE RemovedGone'
  <2>1. RemoveOriginal \/ RemoveRead
    BY <1>2, <1>7 DEF ImapIn, Removing
  <2>2. CASE RemoveOriginal
    <3>1. PICK e \in view : /\ e.file \in Listed(mb) /\ held' = [held EXCEPT !["imap"] = e.file]
                            /\ Listed(mb)' = Listed(mb) \ {e.file}
      BY <1>a, <1>c, <2>2, RemovalListed
    <3>2. held'["imap"] = e.file /\ UNCHANGED <<box, nextBase>>
      BY <1>a, <2>2, <3>1 DEF RemoveOriginal
    <3>3. \A f \in Listed(mb)' : f.base # e.file.base
      BY <1>a, <3>1 DEF FilesInv, BasesUnique, Listed
    <3>4. Known(Alone(e.file))'
      <4>1. e.file.base < nextBase
        BY <1>a, <3>1 DEF FilesInv, BasesFresh, Listed
      <4>2. \A m \in Mailboxes : \A f \in files[m] : f.dir = "tmp" => f.base # e.file.base
        BY <1>a, <3>1 DEF FilesInv, BasesUnique, Listed
      <4>3. \A m \in Mailboxes : \A f \in files'[m] : f.dir = "tmp" => f \in files[m]
        BY <1>a, <3>2, TmpIsNew
      <4> QED
        BY <3>2, <4>1, <4>2, <4>3 DEF Known, Alone
    <3> QED
      BY <1>c, <3>2, <3>3, <3>4 DEF RemovedGone, Known, Alone, Listed
  <2>3. CASE RemoveRead
    <3>1. UNCHANGED <<files, nextBase, box, held>> /\ pc["imap"] \in Removing
      BY <2>3 DEF RemoveRead, Removing
    <3> QED
      BY <1>7, <3>1 DEF StableParts, RemovedGone, ImapIn, Known, Listed
  <2> QED
    BY <2>1, <2>2, <2>3
<1> QED
  BY <1>1, <1>3, <1>4, <1>5, <1>6, <1>7 DEF ScanKeeps, ExpungeKeeps, CopyUnheard, RenamedListed, RemovedGone

\* DELETE and RENAME only take files and whole lists away.
LEMMA RemovalKeeps ==
    ASSUME StableInv, StableParts, Removal, [Next]_vars
    PROVE  StableParts'
<1>a. /\ SeenInv /\ TypeOK /\ uidlist \in [Mailboxes -> Uidlist]
  BY DEF StableInv, SeenInv, MoveInv, UidInv, TypeInv, TypeOK
<1>1. PICK mb \in Mailboxes : OnlyLoses(mb)
  BY <1>a, RemovalLoses
<1>2. /\ pc["imap"] \in {"idle", "rmtree"} /\ pc'["imap"] \in {"idle", "rmtree"}
      /\ seen' \subseteq seen
      /\ \A m \in Mailboxes : Listed(m)' \subseteq Listed(m)
  BY <1>1 DEF OnlyLoses, ForgetShown, Listed
<1>3. Stable(PrivateBoxes)'
  BY <1>2 DEF StableParts, Stable
<1>4. ScanKeeps' /\ ExpungeKeeps' /\ CopyUnheard' /\ RenamedListed' /\ RemovedGone'
  BY <1>2 DEF ScanKeeps, ExpungeKeeps, CopyUnheard, RenamedListed, RemovedGone, ImapIn,
     Reflagging, Removing
<1>5. ASSUME NEW b \in PrivateBoxes PROVE KeepsUids(b, uidlist[b].map)'
  <2>a. b \in Mailboxes /\ KeepsUids(b, uidlist[b].map) /\ \A f : ~Renaming(b, f)
    BY <1>2 DEF StableParts, ListsKeep, PrivateBoxes, Renaming, Reflagging
  <2>1. CASE uidlist'[b] = uidlist[b]
    <3>1. PICK map \in SUBSET Entry : map = uidlist[b].map
      BY <1>a, <2>a DEF Uidlist
    <3>2. Known(map)'
      BY <1>a, <2>a, <3>1, KnownStays DEF KeepsUids
    <3>3. OneEntryEach(map)' /\ UidsAsShown(b, map)' /\ NamesCurrent(b, map)' /\ ShownEntered(b, map)'
      BY <1>2, <2>a, <3>1 DEF KeepsUids, OneEntryEach, UidsAsShown, NamesCurrent, ShownEntered
    <3> QED
      BY <2>1, <3>1, <3>2, <3>3 DEF KeepsUids
  <2>2. CASE b = mb /\ uidlist'[b] = NoUidlist /\ ForgetShown(b)
    BY <2>2 DEF NoUidlist, ForgetShown, KeepsUids, Known, OneEntryEach, UidsAsShown, NamesCurrent,
       ShownEntered
  <2> QED
    BY <1>1, <2>a, <2>1, <2>2 DEF OnlyLoses
<1> QED
  BY <1>3, <1>4, <1>5 DEF StableParts, ListsKeep

LEMMA NextStableInv == StableInv /\ [Next]_vars => StableInv'
<1> SUFFICES ASSUME StableInv, [Next]_vars PROVE StableInv'
  OBVIOUS
<1>a. SeenInv /\ SeenInv' /\ failures \in Nat
  BY NextSeenInv DEF StableInv, SeenInv, MoveInv, UidInv, TypeInv, TypeOK
<1>1. ASSUME failures' = 0 PROVE StableParts'
  <2>1. failures = 0 /\ \A p \in Procs : ~Fail(p)
    BY <1>a, <1>1, FailuresCounted DEF Fail
  <2>2. StableParts
    BY <2>1 DEF StableInv
  <2>0. CASE Removal
    BY <2>0, <2>2, RemovalKeeps
  <2> SUFFICES ASSUME ~Removal PROVE StableParts'
    BY <2>0
  <2>3. /\ ListsKeep'
        /\ \A s \in seen' \ seen : s.box \in PrivateBoxes =>
              \E e \in uidlist'[s.box].map : e.file.base = s.base /\ e.uid = s.uid
    BY <2>1, <2>2, NextListsKeep
  <2>4. \A mb \in PrivateBoxes : \A s \in seen' : \A e \in uidlist'[mb].map :
           s.box = mb /\ e.file.base = s.base => e.uid = s.uid
    BY <2>3 DEF ListsKeep, KeepsUids, UidsAsShown
  <2>5. Stable(PrivateBoxes)'
    <3> SUFFICES ASSUME NEW s \in seen', NEW t \in seen', s.box = t.box, s.box \in PrivateBoxes,
                        s.base = t.base
                 PROVE  s.uid = t.uid
      BY DEF Stable
    <3>1. CASE s \in seen /\ t \in seen
      BY <2>2, <3>1 DEF StableParts, Stable
    <3>2. CASE s \notin seen
      BY <2>3, <2>4, <3>2
    <3>3. CASE t \notin seen
      BY <2>3, <2>4, <3>3
    <3> QED
      BY <3>1, <3>2, <3>3
  <2>6. ScanKeeps' /\ ExpungeKeeps' /\ CopyUnheard' /\ RenamedListed' /\ RemovedGone'
    BY <2>1, <2>2, NextHeldKeeps
  <2> QED
    BY <2>3, <2>5, <2>6 DEF StableParts
<1> QED
  BY <1>a, <1>1 DEF StableInv

\* As long as nothing fails, a message of a private mailbox keeps the UID it
\* was first shown with: through every rename of set_flags, every scan, and
\* beside whatever the SMTP server delivers elsewhere.
THEOREM UidsStable == Spec => []PrivateUidStable
<1>1. Init => StableInv
  <2> SUFFICES ASSUME Init PROVE StableInv
    OBVIOUS
  <2>1. /\ seen = {} /\ pc["imap"] = "idle"
        /\ \A mb \in PrivateBoxes : uidlist[mb].map = {}
        /\ \A mb \in Mailboxes : files[mb] = {}
    BY DEF Init, PrivateBoxes, NoUidlist, Procs
  <2>2. Stable(PrivateBoxes) /\ ListsKeep
    BY <2>1 DEF Stable, ListsKeep, KeepsUids, Known, OneEntryEach, UidsAsShown, NamesCurrent, ShownEntered
  <2>3. ScanKeeps /\ ExpungeKeeps /\ CopyUnheard /\ RenamedListed /\ RemovedGone
    BY <2>1 DEF ScanKeeps, ExpungeKeeps, CopyUnheard, RenamedListed, RemovedGone, ImapIn, Reflagging, Removing
  <2> QED
    BY <2>2, <2>3, InitSeenInv DEF StableInv, StableParts
<1>2. StableInv => PrivateUidStable
  BY DEF StableInv, StableParts, PrivateUidStable
<1> QED
  BY <1>1, <1>2, NextStableInv, PTL DEF Spec
===============================================================================
