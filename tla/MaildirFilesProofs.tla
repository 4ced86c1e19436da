-------------------------- MODULE MaildirFilesProofs --------------------------
(***************************************************************************)
(* FilesStillThere, for every set of mailboxes and however the SMTP server *)
(* delivers meanwhile: a base name is generated once, so two files never   *)
(* share one; a uidlist has one entry per name, so a scan returns a file   *)
(* once; and of the two processes only the IMAP server takes names away    *)
(* from new/ and cur/.  Then what an operation that runs to its end has    *)
(* done, and that no MOVE loses a message: PrivateUpdatesComplete,         *)
(* LeavesSafely and NoMessageLost.                                         *)
(***************************************************************************)
EXTENDS MaildirProofs

\* One entry per file name: the map of uidlist.json is a dict.
Functional(map) == \A e, f \in map : e.file = f.file => e = f

BasesFresh == \A mb \in Mailboxes : \A f \in files[mb] : f.base < nextBase

BasesUnique ==
    \A m1, m2 \in Mailboxes : \A f \in files[m1], g \in files[m2] :
        f.base = g.base => m1 = m2 /\ f = g

MapsFunctional ==
    /\ \A mb \in Mailboxes : Functional(uidlist[mb].map)
    /\ \A p \in Procs : Functional(data[p].map)

\* A file being delivered is under tmp/, unless a DELETE or RENAME took it from
\* the SMTP server, and the processes deliver different ones.
HeldInTmp ==
    /\ \A p \in Procs : pc[p] = "rename" =>
          /\ held[p].dir = "tmp" /\ held[p].base < nextBase
          /\ (p = "smtp" /\ taken) \/ held[p] \in files[box[p]]
    /\ \A p, q \in Procs : p # q /\ pc[p] = "rename" /\ pc[q] = "rename" => held[p].base # held[q].base

ViewListed ==
    pc["imap"] \in {"scanWrite", "scanned", "expungeRemove"} =>
        /\ Functional(view)
        /\ \A e \in view : e.file \in Listed(box["imap"])

FilesInv ==
    /\ TypeInv
    /\ BasesFresh
    /\ BasesUnique
    /\ MapsFunctional
    /\ HeldInTmp
    /\ ViewListed

(***************************************************************************)
(* What a step may do to the files and to the maps.                        *)
(***************************************************************************)

\* data["map"][file] = uid and del data["map"][file] keep one entry per file.
LEMMA PutFunctional ==
    ASSUME NEW map \in SUBSET Entry, NEW file, NEW uid, Functional(map)
    PROVE  Functional(Put(map, file, uid)) /\ Functional(Del(map, file))
BY DEF Functional, Put, Del

\* A new name keeps bases fresh and unique.
LEMMA AddKeepsBases ==
    ASSUME FilesInv, NEW mb \in Mailboxes, NEW file, file.base = nextBase,
           files' = [files EXCEPT ![mb] = @ \union {file}], nextBase' = nextBase + 1
    PROVE  BasesFresh' /\ BasesUnique'
<1>1. /\ files \in [Mailboxes -> SUBSET File] /\ nextBase \in Nat
      /\ \A m \in Mailboxes : \A f \in files[m] : f.base \in Nat /\ f.base < nextBase
  BY DEF FilesInv, TypeInv, TypeOK, BasesFresh, File
<1>2. \A m \in Mailboxes : \A f \in files'[m] : f \in files[m] \/ (f = file /\ m = mb)
  BY <1>1
<1>3. BasesFresh'
  BY <1>1, <1>2 DEF BasesFresh
<1>4. BasesUnique'
  BY <1>1, <1>2 DEF FilesInv, BasesUnique
<1> QED
  BY <1>3, <1>4

\* So does a rename within a mailbox, and the removal of a file.
LEMMA RenameKeepsBases ==
    ASSUME FilesInv, NEW mb \in Mailboxes, NEW old \in files[mb], NEW new, new.base = old.base,
           \/ files' = [files EXCEPT ![mb] = (@ \ {old}) \union {new}]
           \/ files' = [files EXCEPT ![mb] = @ \ {old}],
           nextBase' = nextBase
    PROVE  BasesFresh' /\ BasesUnique'
<1>1. \A m \in Mailboxes : \A f \in files'[m] :
        (f \in files[m] /\ f # old) \/ (f = new /\ m = mb)
  <2>1. files \in [Mailboxes -> SUBSET File]
    BY DEF FilesInv, TypeInv, TypeOK
  <2>2. \A m \in Mailboxes : m # mb => old \notin files[m]
    BY DEF FilesInv, BasesUnique
  <2> QED
    BY <2>1, <2>2
<1>2. BasesFresh'
  BY <1>1 DEF FilesInv, BasesFresh
<1>3. \A m \in Mailboxes : \A f \in files[m] : f # old => f.base # new.base
  BY DEF FilesInv, BasesUnique
<1>4. BasesUnique'
  BY <1>1, <1>3 DEF FilesInv, BasesUnique
<1> QED
  BY <1>2, <1>4

\* Steps that touch neither files nor the name counter keep names unique.
LEMMA SameFilesKeepBases ==
    ASSUME FilesInv, UNCHANGED <<files, nextBase>>
    PROVE  BasesFresh' /\ BasesUnique'
BY DEF FilesInv, BasesFresh, BasesUnique

\* Deliveries under way are not disturbed by a step that leaves their files be.
LEMMA HeldFrame ==
    ASSUME FilesInv, TypeInv', nextBase <= nextBase',
           pc'["smtp"] = "rename" => UNCHANGED taken,
           \A p \in Procs : pc'[p] = "rename" =>
               /\ pc[p] = "rename" /\ UNCHANGED <<held[p], box[p]>>
               /\ held[p] \in files[box[p]] => held[p] \in files'[box[p]]
    PROVE  HeldInTmp'
<1>1. nextBase \in Nat /\ nextBase' \in Nat /\ \A p \in Procs : held[p].base \in Nat
  BY DEF FilesInv, TypeInv, TypeOK, File
<1> QED
  BY <1>1 DEF FilesInv, HeldInTmp, Procs

\* Nor is a listing by a step that leaves the listed files be.
LEMMA ViewFrame ==
    ASSUME FilesInv,
           pc'["imap"] \in {"scanWrite", "scanned", "expungeRemove"} =>
               /\ pc["imap"] \in {"scanWrite", "scanned", "expungeRemove"}
               /\ UNCHANGED <<view, box["imap"]>>
               /\ \A f \in files[box["imap"]] : f.dir # "tmp" => f \in files'[box["imap"]]
    PROVE  ViewListed'
BY DEF FilesInv, ViewListed, Functional, Listed

(***************************************************************************)
(* Steps.                                                                  *)
(***************************************************************************)

\* The steps of ensure_mailbox and deliver_message, in either process.
LEMMA SharedFilesInv ==
    ASSUME FilesInv, TypeInv', NEW p \in Procs, SharedStep(p) \/ Fail(p)
    PROVE  FilesInv'
<1> USE DEF disk, imapVars, history
<1>a. /\ pc \in [Procs -> Steps] /\ box \in [Procs -> Mailboxes] /\ held \in [Procs -> File]
      /\ data \in [Procs -> Uidlist] /\ uidlist \in [Mailboxes -> Uidlist]
      /\ files \in [Mailboxes -> SUBSET File] /\ nextBase \in Nat
      /\ "imap" \in Procs /\ box[p] \in Mailboxes /\ TypeOK
  BY DEF FilesInv, TypeInv, TypeOK, Procs
<1>b. \A list \in Uidlist : list.map \in SUBSET Entry
  BY DEF Uidlist
<1>1. CASE EnsureCheck(p) \/ EnsureCreate(p) \/ DeliverRead(p) \/ DeliverWrite(p) \/ Fail(p)
  <2>1. /\ UNCHANGED <<files, nextBase, held, view, taken>>
        /\ pc'[p] \notin {"rename", "scanWrite", "scanned", "expungeRemove"}
        /\ \A q \in Procs : q # p => UNCHANGED <<pc[q], box[q]>>
    BY <1>1, <1>a DEF EnsureCheck, EnsureCreate, DeliverRead, DeliverWrite, Fail, AfterEnsure
  <2>2. BasesFresh' /\ BasesUnique'
    BY <2>1, SameFilesKeepBases
  <2>3. HeldInTmp'
    <3>1. ASSUME NEW q \in Procs, pc'[q] = "rename"
          PROVE  /\ pc[q] = "rename" /\ UNCHANGED <<held[q], box[q]>>
                 /\ held[q] \in files[box[q]] => held[q] \in files'[box[q]]
      BY <2>1, <3>1 DEF FilesInv, HeldInTmp
    <3> QED
      BY <1>a, <2>1, <3>1, HeldFrame
  <2>4. ViewListed'
    BY <2>1, <1>a, ViewFrame
  <2>5. MapsFunctional'
    <3>1. CASE EnsureCheck(p) \/ Fail(p)
      BY <3>1 DEF EnsureCheck, Fail, FilesInv, MapsFunctional, Functional
    <3>2. CASE EnsureCreate(p)
      <4>1. Functional(FreshUidlist.map)
        BY DEF Functional, FreshUidlist
      <4> QED
        BY <1>a, <3>2, <4>1 DEF EnsureCreate, FilesInv, MapsFunctional, Functional
    <3>3. CASE DeliverRead(p)
      BY <1>a, <3>3 DEF DeliverRead, FilesInv, MapsFunctional, Functional
    <3>4. CASE DeliverWrite(p)
      <4>1. PICK new : new = Numbered(data[p], held[p])
        OBVIOUS
      <4>2. Functional(new.map)
        BY <1>a, <1>b, <4>1, PutFunctional DEF Numbered, FilesInv, MapsFunctional
      <4>3. uidlist' = [uidlist EXCEPT ![box[p]] = new] /\ data' = data
        BY <3>4, <4>1 DEF DeliverWrite
      <4> QED
        BY <1>a, <4>2, <4>3 DEF FilesInv, MapsFunctional, Functional
    <3> QED
      BY <1>1, <3>1, <3>2, <3>3, <3>4
  <2> QED
    BY <2>2, <2>3, <2>4, <2>5 DEF FilesInv
<1>2. CASE DeliverTmp(p)
  <2>1. PICK file \in File :
          /\ file.base = nextBase /\ file.dir = "tmp"
          /\ held' = [held EXCEPT ![p] = file]
          /\ files' = [files EXCEPT ![box[p]] = @ \union {file}]
          /\ nextBase' = nextBase + 1
          /\ pc' = [pc EXCEPT ![p] = "rename"]
          /\ UNCHANGED <<uidlist, box, data, view, taken>>
    <3> DEFINE fresh == [base |-> nextBase, dir |-> "tmp", flags |-> {},
                         origin |-> IF p = "smtp" THEN nextBase ELSE got.origin]
    <3>1. fresh \in File /\ fresh.base = nextBase /\ fresh.dir = "tmp"
      BY <1>a DEF TypeOK, File
    <3>2. /\ held' = [held EXCEPT ![p] = fresh]
          /\ files' = [files EXCEPT ![box[p]] = @ \union {fresh}]
      BY <1>2 DEF DeliverTmp
    <3> HIDE DEF fresh
    <3> QED
      BY <1>2, <3>1, <3>2 DEF DeliverTmp
  <2>2. BasesFresh' /\ BasesUnique'
    BY <1>a, <2>1, AddKeepsBases
  <2>3. \A q \in Procs : /\ held[q].base \in Nat /\ box[q] \in Mailboxes
                         /\ q # p /\ pc[q] = "rename" => held[q].base < nextBase
    BY <1>a DEF FilesInv, HeldInTmp, File
  <2>4. \A m \in Mailboxes : files[m] \subseteq files'[m]
    BY <1>a, <2>1
  <2>5. HeldInTmp'
    <3>1. ASSUME NEW q \in Procs, pc'[q] = "rename"
          PROVE  /\ held'[q].dir = "tmp" /\ held'[q].base < nextBase'
                 /\ (q = "smtp" /\ taken') \/ held'[q] \in files'[box'[q]]
      BY <1>a, <2>1, <2>3, <2>4, <3>1 DEF FilesInv, HeldInTmp, TypeOK, File
    <3>2. ASSUME NEW q \in Procs, NEW r \in Procs, q # r, pc'[q] = "rename", pc'[r] = "rename"
          PROVE  held'[q].base # held'[r].base
      <4>1. CASE q = p
        BY <1>a, <2>1, <2>3, <3>2, <4>1
      <4>2. CASE r = p
        BY <1>a, <2>1, <2>3, <3>2, <4>2
      <4>3. CASE q # p /\ r # p
        BY <1>a, <2>1, <3>2, <4>3 DEF FilesInv, HeldInTmp
      <4> QED
        BY <4>1, <4>2, <4>3
    <3> QED
      BY <3>1, <3>2 DEF HeldInTmp
  <2>6. ViewListed'
    BY <1>a, <2>1, <2>4, ViewFrame
  <2>7. MapsFunctional'
    BY <2>1 DEF FilesInv, MapsFunctional, Functional
  <2> QED
    BY <2>2, <2>5, <2>6, <2>7 DEF FilesInv
<1>3. CASE DeliverRename(p)
  <2>1. PICK file \in File :
          /\ file.base = held[p].base
          /\ held' = [held EXCEPT ![p] = file]
          /\ files' = [files EXCEPT ![box[p]] = (@ \ {held[p]}) \union {file}]
          /\ pc' = [pc EXCEPT ![p] = "deliverRead"]
          /\ UNCHANGED <<uidlist, nextBase, box, data, view, taken>>
    BY <1>3, <1>a DEF DeliverRename, TypeOK, File
  <2>2. pc[p] = "rename" /\ held[p] \in files[box[p]] /\ held[p].dir = "tmp"
    BY <1>3 DEF DeliverRename, FilesInv, HeldInTmp
  <2>3. BasesFresh' /\ BasesUnique'
    BY <1>a, <2>1, <2>2, RenameKeepsBases
  <2>4. \A m \in Mailboxes : \A f \in files[m] : f # held[p] => f \in files'[m]
    BY <1>a, <2>1
  <2>5. HeldInTmp'
    BY <1>a, <2>1, <2>2, <2>4, HeldFrame DEF FilesInv, HeldInTmp
  <2>6. ViewListed'
    BY <1>a, <2>1, <2>2, <2>4, ViewFrame
  <2>7. MapsFunctional'
    BY <2>1 DEF FilesInv, MapsFunctional, Functional
  <2> QED
    BY <2>3, <2>5, <2>6, <2>7 DEF FilesInv
<1> QED
  BY <1>1, <1>2, <1>3 DEF SharedStep

\* A scan builds a map with one entry per name and returns listed files only.
LEMMA ScanListFilesInv ==
    ASSUME FilesInv, TypeInv', ScanList
    PROVE  FilesInv'
<1> USE DEF disk, imapVars, history
<1>1. /\ pc \in [Procs -> Steps] /\ data \in [Procs -> Uidlist] /\ "imap" \in Procs
      /\ box["imap"] \in Mailboxes
  BY DEF FilesInv, TypeInv, TypeOK, Procs
<1>2. PICK unknown : unknown = {f \in Listed(box["imap"]) : ~HasKey(data["imap"].map, f)}
  OBVIOUS
<1>3. PICK num \in Numberings(unknown, data["imap"].next) :
        /\ data' = [data EXCEPT !["imap"] = Scanned(data["imap"], unknown, num)]
        /\ view' = Entries(Scanned(data["imap"], unknown, num).map, Listed(box["imap"]))
        /\ \/ pc' = [pc EXCEPT !["imap"] = "scanWrite"]
           \/ pc' = [pc EXCEPT !["imap"] = "scanned"]
        /\ UNCHANGED <<files, nextBase, uidlist, box, held, taken>>
  BY <1>2 DEF ScanList, Scanned
<1>4. PICK new : new = Scanned(data["imap"], unknown, num)
  OBVIOUS
<1>5. Functional(new.map)
  <2>1. PICK added : added = {[file |-> f, uid |-> num[f]] : f \in unknown}
    OBVIOUS
  <2>2. new.map = data["imap"].map \union added
    BY <1>4, <2>1 DEF Scanned
  <2>3. \A e \in added : e.file \in unknown /\ e = [file |-> e.file, uid |-> num[e.file]]
    BY <2>1
  <2>4. \A e \in data["imap"].map : e.file \notin unknown
    BY <1>2 DEF HasKey
  <2>5. Functional(data["imap"].map)
    BY <1>1 DEF FilesInv, MapsFunctional
  <2> QED
    BY <2>2, <2>3, <2>4, <2>5 DEF Functional
<1>6. BasesFresh' /\ BasesUnique'
  BY <1>3, SameFilesKeepBases
<1>7. HeldInTmp'
  <2>1. ASSUME NEW q \in Procs, pc'[q] = "rename"
        PROVE  /\ pc[q] = "rename" /\ UNCHANGED <<held[q], box[q]>>
               /\ held[q] \in files[box[q]] => held[q] \in files'[box[q]]
    BY <1>1, <1>3, <2>1 DEF FilesInv, HeldInTmp
  <2> QED
    BY <1>1, <1>3, <2>1, HeldFrame DEF FilesInv, TypeInv, TypeOK
<1>8. ViewListed'
  <2>1. Functional(view')
    BY <1>3, <1>4, <1>5 DEF Functional, Entries
  <2>2. \A e \in view' : e.file \in Listed(box["imap"])
    BY <1>3 DEF Entries
  <2> QED
    BY <1>3, <2>1, <2>2 DEF ViewListed, Functional, Listed
<1>9. MapsFunctional'
  BY <1>1, <1>3, <1>4, <1>5 DEF FilesInv, MapsFunctional, Functional
<1> QED
  BY <1>6, <1>7, <1>8, <1>9 DEF FilesInv

\* The other steps of the IMAP process.
LEMMA ImapFilesInv ==
    ASSUME FilesInv, TypeInv', ImapStep
    PROVE  FilesInv'
<1> USE DEF disk, imapVars, history
<1>a. /\ pc \in [Procs -> Steps] /\ box \in [Procs -> Mailboxes] /\ held \in [Procs -> File]
      /\ data \in [Procs -> Uidlist] /\ uidlist \in [Mailboxes -> Uidlist]
      /\ files \in [Mailboxes -> SUBSET File]
      /\ "imap" \in Procs /\ box["imap"] \in Mailboxes /\ TypeOK
  BY DEF FilesInv, TypeInv, TypeOK, Procs
<1>b. \A list \in Uidlist : list.map \in SUBSET Entry
  BY DEF Uidlist
<1>c. data["imap"].map \in SUBSET Entry /\ Functional(data["imap"].map)
  BY <1>a, <1>b DEF FilesInv, MapsFunctional
<1>1. CASE ScanList
  BY <1>1, ScanListFilesInv
<1>2. CASE \/ ScanRead \/ ScanWrite \/ ListDone \/ NoSuchMessage \/ GetMessage \/ FlagRead
           \/ FlagKeyError \/ FlagWrite \/ RemoveRead \/ RemoveWrite \/ ExpungeRead \/ ExpungeWrite
  <2>1. /\ UNCHANGED <<files, nextBase, held, view, taken>>
        /\ \A q \in Procs : q # "imap" => UNCHANGED <<pc[q], box[q]>>
        /\ pc'["imap"] # "rename"
    BY <1>2, <1>a DEF ScanRead, ScanWrite, ListDone, NoSuchMessage, GetMessage, FlagRead,
          FlagKeyError, FlagWrite, RemoveRead, RemoveWrite, ExpungeRead, ExpungeWrite
  <2>2. pc'["imap"] \in {"scanWrite", "scanned", "expungeRemove"} =>
          pc["imap"] \in {"scanWrite", "scanned", "expungeRemove"} /\ UNCHANGED box["imap"]
    BY <1>2, <1>a DEF ScanRead, ScanWrite, ListDone, NoSuchMessage, GetMessage, FlagRead, ScannedFor,
          FlagKeyError, FlagWrite, RemoveRead, RemoveWrite, ExpungeRead, ExpungeWrite
  <2>3. BasesFresh' /\ BasesUnique'
    BY <2>1, SameFilesKeepBases
  <2>4. HeldInTmp'
    <3>1. ASSUME NEW q \in Procs, pc'[q] = "rename"
          PROVE  /\ pc[q] = "rename" /\ UNCHANGED <<held[q], box[q]>>
                 /\ held[q] \in files[box[q]] => held[q] \in files'[box[q]]
      BY <2>1, <3>1
    <3> QED
      BY <1>a, <2>1, <3>1, HeldFrame DEF TypeOK
  <2>5. ViewListed'
    BY <2>1, <2>2, ViewFrame
  <2>6. MapsFunctional'
    <3>1. CASE ListDone \/ NoSuchMessage \/ GetMessage \/ FlagKeyError
      BY <3>1 DEF ListDone, NoSuchMessage, GetMessage, FlagKeyError, FilesInv, MapsFunctional, Functional
    <3>2. CASE ScanRead \/ FlagRead \/ RemoveRead \/ ExpungeRead
      BY <1>a, <3>2 DEF ScanRead, FlagRead, RemoveRead, ExpungeRead, FilesInv, MapsFunctional, Functional
    <3>3. CASE ScanWrite \/ ExpungeWrite
      BY <1>a, <3>3 DEF ScanWrite, ExpungeWrite, FilesInv, MapsFunctional, Functional
    <3>4. CASE RemoveWrite
      <4>1. Functional(Del(data["imap"].map, held["imap"]))
        BY <1>c, PutFunctional
      <4> QED
        BY <1>a, <3>4, <4>1 DEF RemoveWrite, FilesInv, MapsFunctional, Functional
    <3>5. CASE FlagWrite
      <4>1. PICK map : map = Put(Del(data["imap"].map, held["imap"]), Reflagged(held["imap"]), TargetUid)
        OBVIOUS
      <4>2. Del(data["imap"].map, held["imap"]) \in SUBSET Entry
        BY <1>c DEF Del
      <4>3. Functional(map)
        BY <1>c, <4>1, <4>2, PutFunctional
      <4>4. uidlist' = [uidlist EXCEPT ![box["imap"]] = [next |-> data["imap"].next, map |-> map]]
            /\ data' = data
        BY <3>5, <4>1 DEF FlagWrite
      <4> QED
        BY <1>a, <4>3, <4>4 DEF FilesInv, MapsFunctional, Functional
    <3> QED
      BY <1>2, <3>1, <3>2, <3>3, <3>4, <3>5
  <2> QED
    BY <2>3, <2>4, <2>5, <2>6 DEF FilesInv
<1>3. CASE FlagRename \/ RemoveOriginal \/ ExpungeRemove
  <2>1. PICK e \in view :
          /\ \/ files' = [files EXCEPT ![box["imap"]] = (@ \ {e.file}) \union {Reflagged(e.file)}]
             \/ files' = [files EXCEPT ![box["imap"]] = @ \ {e.file}]
          /\ \/ pc'["imap"] \in {"flagRead", "removeRead"} /\ data' = data
             \/ /\ pc' = pc /\ view' = view \ {e}
                /\ data' = [data EXCEPT !["imap"] =
                      [next |-> data["imap"].next, map |-> Del(data["imap"].map, e.file)]]
                /\ files' = [files EXCEPT ![box["imap"]] = @ \ {e.file}]
          /\ \A q \in Procs : q # "imap" => UNCHANGED <<pc[q], held[q]>>
          /\ UNCHANGED <<uidlist, nextBase, box, taken>>
    BY <1>3, <1>a DEF FlagRename, RemoveOriginal, ExpungeRemove, Targets, Marked
  <2>2. pc["imap"] \in {"scanned", "expungeRemove"}
    BY <1>3 DEF FlagRename, RemoveOriginal, ExpungeRemove, ScannedFor
  <2>3. /\ e.file \in files[box["imap"]] /\ e.file.dir # "tmp" /\ Functional(view)
        /\ \A d \in view : d.file \in Listed(box["imap"])
    BY <2>2 DEF FilesInv, ViewListed, Listed
  <2>4. e.file \in File /\ Reflagged(e.file).base = e.file.base
    BY <1>a, <2>3, ReflaggedType
  <2>5. BasesFresh' /\ BasesUnique'
    BY <1>a, <2>1, <2>3, <2>4, RenameKeepsBases
  <2>6. \A m \in Mailboxes : \A f \in files[m] : f # e.file => f \in files'[m]
    BY <1>a, <2>1
  <2>7. HeldInTmp'
    <3>1. ASSUME NEW q \in Procs, pc'[q] = "rename"
          PROVE  /\ pc[q] = "rename" /\ UNCHANGED <<held[q], box[q]>>
                 /\ held[q] \in files[box[q]] => held[q] \in files'[box[q]]
      <4>1. q # "imap"
        BY <2>1, <2>2, <3>1
      <4> QED
        BY <1>a, <2>1, <2>3, <2>6, <3>1, <4>1 DEF FilesInv, HeldInTmp
    <3> QED
      BY <1>a, <2>1, <3>1, HeldFrame DEF TypeOK
  <2>8. ViewListed'
    <3> SUFFICES ASSUME pc' = pc, view' = view \ {e},
                        files' = [files EXCEPT ![box["imap"]] = @ \ {e.file}]
                 PROVE  Functional(view') /\ \A d \in view' : d.file \in Listed(box["imap"])'
      BY <2>1 DEF ViewListed, Functional, Listed
    <3>1. \A d \in view' : d \in view /\ d.file # e.file
      BY <2>3 DEF Functional
    <3> QED
      BY <1>a, <2>1, <2>3, <2>6, <3>1 DEF Functional, Listed
  <2>9. MapsFunctional'
    <3>1. Functional(Del(data["imap"].map, e.file))
      BY <1>c, PutFunctional
    <3> QED
      BY <1>a, <2>1, <3>1 DEF FilesInv, MapsFunctional, Functional
  <2> QED
    BY <2>5, <2>7, <2>8, <2>9 DEF FilesInv
<1> QED
  BY <1>1, <1>2, <1>3 DEF ImapStep

\* A new data directory satisfies the invariant on files.
LEMMA InitFilesInv == Init => FilesInv
<1> SUFFICES ASSUME Init PROVE FilesInv
  OBVIOUS
<1>1. \A mb \in Mailboxes : files[mb] = {} /\ uidlist[mb] = NoUidlist
  BY DEF Init
<1>2. \A p \in Procs : pc[p] = "idle" /\ data[p] = NoUidlist
  BY DEF Init
<1>3. "imap" \in Procs /\ NoUidlist.map = {}
  BY DEF Procs, NoUidlist
<1>4. BasesFresh /\ BasesUnique
  BY <1>1 DEF BasesFresh, BasesUnique
<1>5. HeldInTmp /\ ViewListed
  BY <1>2, <1>3 DEF HeldInTmp, ViewListed
<1>6. MapsFunctional
  BY <1>1, <1>2, <1>3 DEF MapsFunctional, Functional
<1> QED
  BY InitTypeInv, <1>4, <1>5, <1>6 DEF FilesInv

\* Every step of either process preserves the invariant on files.
LEMMA NextFilesInv == FilesInv /\ [Next]_vars => FilesInv'
<1> SUFFICES ASSUME FilesInv, [Next]_vars PROVE FilesInv'
  OBVIOUS
<1> USE DEF disk, imapVars, history, vars
<1>a. TypeInv'
  BY NextTypeInv DEF FilesInv
<1>b. /\ pc \in [Procs -> Steps] /\ box \in [Procs -> Mailboxes] /\ held \in [Procs -> File]
      /\ data \in [Procs -> Uidlist] /\ files \in [Mailboxes -> SUBSET File]
      /\ "imap" \in Procs /\ "smtp" \in Procs /\ "imap" # "smtp" /\ box["imap"] \in Mailboxes
  BY DEF FilesInv, TypeInv, TypeOK, Procs
<1>c. Functional(NoUidlist.map)
  BY DEF Functional, NoUidlist
<1>1. ASSUME NEW p \in Procs,
             \/ UNCHANGED <<pc, data, held, box, view>>
             \/ /\ pc' = [pc EXCEPT ![p] = "ensure"]
                /\ data' = [data EXCEPT ![p] = NoUidlist]
                /\ \A q \in Procs : q # p => UNCHANGED <<held[q], box[q]>>
                /\ p = "smtp" => UNCHANGED view,
             UNCHANGED <<files, uidlist, nextBase>>,
             pc'["smtp"] = "rename" => UNCHANGED taken
      PROVE  FilesInv'
  <2>1. BasesFresh' /\ BasesUnique'
    BY <1>1, SameFilesKeepBases
  <2>2. HeldInTmp'
    <3>1. ASSUME NEW q \in Procs, pc'[q] = "rename"
          PROVE  /\ pc[q] = "rename" /\ UNCHANGED <<held[q], box[q]>>
                 /\ held[q] \in files[box[q]] => held[q] \in files'[box[q]]
      BY <1>1, <1>b, <3>1 DEF FilesInv, HeldInTmp
    <3> QED
      BY <1>1, <1>a, <3>1, HeldFrame DEF FilesInv, TypeInv, TypeOK
  <2>3. ViewListed'
    BY <1>1, <1>b, ViewFrame DEF Procs
  <2>4. MapsFunctional'
    BY <1>1, <1>b, <1>c DEF FilesInv, MapsFunctional, Functional
  <2> QED
    BY <1>a, <2>1, <2>2, <2>3, <2>4 DEF FilesInv
<1>2. ASSUME NEW mb \in SmtpBoxes, StartDeliver(mb) PROVE FilesInv'
  BY <1>1, <1>2, <1>b DEF StartDeliver
<1>3. ASSUME NEW s, NEW mb, NEW dst, NEW uid, NEW arg, StartImap(s, mb, dst, uid, arg) PROVE FilesInv'
  BY <1>1, <1>3, <1>b DEF StartImap
<1>4. ASSUME NEW p \in Procs, SharedStep(p) \/ Fail(p) PROVE FilesInv'
  BY <1>4, <1>a, SharedFilesInv
<1>5. CASE ImapStep
  BY <1>5, <1>a, ImapFilesInv
<1>6. ASSUME NEW mb \in DropBoxes, ManualDrop(mb) PROVE FilesInv'
  <2>1. PICK file : /\ file.base = nextBase
                    /\ files' = [files EXCEPT ![mb] = @ \union {file}]
                    /\ nextBase' = nextBase + 1
                    /\ UNCHANGED <<uidlist, pc, box, held, data, view, taken>>
    <3> DEFINE dropped == [base |-> nextBase, origin |-> nextBase, dir |-> "new", flags |-> {}]
    <3>1. dropped.base = nextBase
      OBVIOUS
    <3>2. files' = [files EXCEPT ![mb] = @ \union {dropped}]
      BY <1>6 DEF ManualDrop
    <3> HIDE DEF dropped
    <3> QED
      BY <1>6, <3>1, <3>2 DEF ManualDrop
  <2>2. mb \in Mailboxes
    BY ConstantsAssumption
  <2>3. BasesFresh' /\ BasesUnique'
    BY <2>1, <2>2, AddKeepsBases
  <2>4. \A m \in Mailboxes : files[m] \subseteq files'[m]
    BY <1>b, <2>1
  <2>5. HeldInTmp'
    <3>1. ASSUME NEW q \in Procs, pc'[q] = "rename"
          PROVE  /\ pc[q] = "rename" /\ UNCHANGED <<held[q], box[q]>>
                 /\ held[q] \in files[box[q]] => held[q] \in files'[box[q]]
      BY <1>b, <2>1, <2>4, <3>1 DEF FilesInv, HeldInTmp
    <3> QED
      BY <1>a, <2>1, <3>1, HeldFrame DEF FilesInv, TypeInv, TypeOK
  <2>6. ViewListed'
    BY <1>b, <2>1, <2>4, ViewFrame
  <2>7. MapsFunctional'
    BY <2>1 DEF FilesInv, MapsFunctional, Functional
  <2> QED
    BY <1>a, <2>3, <2>5, <2>6, <2>7 DEF FilesInv
<1>7. CASE UNCHANGED vars
  BY <1>1, <1>7, <1>b
<1>8. CASE Removal
  <2>1. PICK mb \in Mailboxes : OnlyLoses(mb)
    BY <1>8, RemovalLoses DEF FilesInv, TypeInv
  <2>2. \A m \in Mailboxes : files'[m] \subseteq files[m] /\ (m # mb => files'[m] = files[m])
    BY <2>1 DEF OnlyLoses
  <2>3. BasesFresh' /\ BasesUnique'
    BY <2>1, <2>2 DEF OnlyLoses, FilesInv, BasesFresh, BasesUnique
  <2>4. pc'["imap"] \notin {"rename", "scanWrite", "scanned", "expungeRemove"}
    BY <2>1 DEF OnlyLoses
  <2>5. HeldInTmp'
    <3> SUFFICES ASSUME pc'["smtp"] = "rename"
                 PROVE  /\ held'["smtp"].dir = "tmp" /\ held'["smtp"].base < nextBase'
                        /\ taken' \/ held'["smtp"] \in files'[box'["smtp"]]
      BY <2>4 DEF HeldInTmp, Procs
    <3>1. /\ held["smtp"].dir = "tmp" /\ held["smtp"].base < nextBase
          /\ taken \/ held["smtp"] \in files[box["smtp"]]
      BY <1>b, <2>1 DEF FilesInv, HeldInTmp, OnlyLoses
    <3>2. CASE box["smtp"] = mb /\ files'[mb] # files[mb]
      BY <2>1, <3>1, <3>2 DEF OnlyLoses, DeliveringTo
    <3>3. CASE ~(box["smtp"] = mb /\ files'[mb] # files[mb])
      BY <1>b, <2>1, <2>2, <3>1, <3>3 DEF OnlyLoses
    <3> QED
      BY <3>2, <3>3
  <2>6. ViewListed'
    BY <2>4 DEF ViewListed
  <2>7. MapsFunctional'
    BY <1>c, <2>1 DEF OnlyLoses, FilesInv, MapsFunctional, Functional
  <2> QED
    BY <1>a, <2>3, <2>5, <2>6, <2>7 DEF FilesInv
<1>9. CASE DeliverRaises
  <2>1. /\ UNCHANGED <<files, uidlist, nextBase, held, box, data, view, pc["imap"], taken>>
        /\ pc'["smtp"] = "idle"
    BY <1>9, <1>b DEF DeliverRaises
  <2>2. BasesFresh' /\ BasesUnique'
    BY <2>1, SameFilesKeepBases
  <2>3. HeldInTmp' /\ ViewListed' /\ MapsFunctional'
    BY <2>1 DEF FilesInv, HeldInTmp, ViewListed, MapsFunctional, Functional, Listed, Procs
  <2> QED
    BY <1>a, <2>2, <2>3 DEF FilesInv
<1> QED
  BY NextCases, <1>2, <1>3, <1>4, <1>5, <1>6, <1>7, <1>8, <1>9 DEF SharedStep

\* Every file an os.rename, os.remove or open of the IMAP server names is still
\* there, in any mailbox and whatever the SMTP server does; and only a DELETE
\* or RENAME of the mailbox it delivers to takes the SMTP server's file away.
THEOREM FilesNeverVanish == Spec => []FilesStillThere
<1>1. Spec => []FilesInv
  BY InitFilesInv, NextFilesInv, PTL DEF Spec
<1>2. FilesInv => FilesStillThere
  BY DEF FilesInv, HeldInTmp, ViewListed, FilesStillThere, Procs
<1> QED
  BY <1>1, <1>2, PTL

(***************************************************************************)
(* What move_message leaves behind at each of its steps, in whichever      *)
(* mailboxes it works and whatever the SMTP server does meanwhile: until   *)
(* the original is removed it stays listed under the UID it was read       *)
(* with, and from the rename of the copy on, the copy is listed in the     *)
(* destination.  PrivateUpdatesComplete, LeavesSafely and NoMessageLost    *)
(* follow.                                                                 *)
(***************************************************************************)

Moving == {"moveCopy", "moveFlag", "moveRemove"}

Delivering == {"tmp", "rename", "deliverRead", "deliverWrite"}
Reflagging == {"flagRead", "flagWrite"}
Removing   == {"removeRead", "removeWrite"}

\* The IMAP process is in the middle of one of these stages.
Doing(stages) == pc["imap"] # "idle" /\ stage \in stages

\* Which steps belong to which stage.
StageSteps ==
    /\ pc["imap"] \in Delivering => stage = "moveCopy"
    /\ Doing({"moveCopy"}) => pc["imap"] \in Delivering \union {"ensure", "create"}
    /\ pc["imap"] \in Reflagging => stage \in {"store", "moveFlag"}
    /\ pc["imap"] \in Removing => stage = "moveRemove"
    /\ pc["imap"] = "expungeRemove" => stage = "expunge"
    /\ pc["imap"] = "rmtree" => stage = "delete"

\* Which mailbox a stage works on (DELETE has no stages).
Places ==
    pc["imap"] \notin {"idle", "rmtree"} =>
        /\ box["imap"] = IF stage \in {"moveCopy", "moveFlag"} THEN job.dst ELSE job.box
        /\ stage \in Moving => job.box # job.dst

\* The entry get_message found.
Original == [file |-> got, uid |-> job.uid]

OriginalListed ==
    Doing(Moving) /\ pc["imap"] \notin Removing /\ job.box \in PrivateBoxes =>
        Original \in uidlist[job.box].map /\ got \in Listed(job.box)

\* The file deliver_message writes for a MOVE has the content of the original.
HeldCopies ==
    /\ pc["imap"] \in {"rename", "deliverRead", "deliverWrite"} =>
          held["imap"].origin = got.origin /\ held["imap"].flags = {}
    /\ pc["imap"] \in {"deliverRead", "deliverWrite"} => held["imap"] \in Listed(box["imap"])

\* The copy is in the destination, where set_flags will find it under copyUid,
\* and has its flags once the original is about to go.
CopyListed ==
    /\ Doing({"moveFlag"}) => \E f \in Listed(box["imap"]) : f.origin = got.origin
    /\ Doing({"moveFlag"}) /\ box["imap"] \in PrivateBoxes =>
          IF pc["imap"] \in Reflagging
          THEN held["imap"].origin = got.origin /\ Reflagged(held["imap"]) \in Listed(box["imap"])
          ELSE \E f \in Listed(box["imap"]) :
                  f.origin = got.origin /\ [file |-> f, uid |-> copyUid] \in ImapList.map
    /\ Doing({"moveRemove"}) =>
          \E g \in Listed(job.dst) :
              g.origin = got.origin /\ (job.dst \in PrivateBoxes => g.flags = KeptFlags)

\* A scan of a private mailbox during a MOVE returns what the MOVE looks for.
TargetsShown ==
    ImapIn({"scanWrite", "scanned"}) =>
        /\ stage = "moveFlag" => \E e \in view : e.uid = copyUid /\ e.file.origin = got.origin
        /\ stage = "moveRemove" => Original \in view

MoveInv ==
    /\ UidInv
    /\ FilesInv
    /\ StageSteps
    /\ Places
    /\ OriginalListed
    /\ HeldCopies
    /\ CopyListed
    /\ TargetsShown

(***************************************************************************)
(* What a step leaves alone.                                               *)
(***************************************************************************)

\* The steps that change no listing.
LEMMA ListedSame ==
    ASSUME FilesInv, [Next]_vars, ~FlagRename, ~RemoveOriginal, ~ExpungeRemove, ~Removal,
           \A p \in Procs : ~DeliverRename(p), \A mb \in DropBoxes : ~ManualDrop(mb)
    PROVE  \A mb \in Mailboxes : Listed(mb)' = Listed(mb)
<1> USE DEF disk, imapVars, history, vars
<1>a. files \in [Mailboxes -> SUBSET File] /\ box \in [Procs -> Mailboxes]
  BY DEF FilesInv, TypeInv, TypeOK
<1>1. CASE UNCHANGED files
  BY <1>1 DEF Listed
<1>2. ASSUME NEW p \in Procs, DeliverTmp(p) PROVE \A mb \in Mailboxes : Listed(mb)' = Listed(mb)
  <2>1. PICK file : file.dir = "tmp" /\ files' = [files EXCEPT ![box[p]] = @ \union {file}]
    <3> DEFINE fresh == [base |-> nextBase, dir |-> "tmp", flags |-> {},
                         origin |-> IF p = "smtp" THEN nextBase ELSE got.origin]
    <3>1. fresh.dir = "tmp" /\ files' = [files EXCEPT ![box[p]] = @ \union {fresh}]
      BY <1>2 DEF DeliverTmp
    <3> HIDE DEF fresh
    <3> QED
      BY <3>1
  <2> QED
    BY <1>a, <2>1 DEF Listed
<1>3. ASSUME NEW p \in Procs,
             EnsureCheck(p) \/ EnsureCreate(p) \/ DeliverRead(p) \/ DeliverWrite(p) \/ Fail(p)
      PROVE  UNCHANGED files
  BY <1>3 DEF EnsureCheck, EnsureCreate, DeliverRead, DeliverWrite, Fail
<1>4. CASE ImapStep
  <2>1. UNCHANGED files
    BY <1>4 DEF ImapStep, ScanRead, ScanList, ScanWrite, ListDone, NoSuchMessage, GetMessage,
          FlagRead, FlagKeyError, FlagWrite, RemoveRead, RemoveWrite, ExpungeRead, ExpungeWrite
  <2> QED
    BY <1>1, <2>1
<1>5. ASSUME NEW mb, StartDeliver(mb) PROVE UNCHANGED files
  BY <1>5 DEF StartDeliver
<1>6. ASSUME NEW s, NEW mb, NEW dst, NEW uid, NEW arg, StartImap(s, mb, dst, uid, arg)
      PROVE  UNCHANGED files
  BY <1>6 DEF StartImap
<1>7. CASE DeliverRaises
  BY <1>1, <1>7 DEF DeliverRaises
<1> QED
  BY NextCases, <1>1, <1>2, <1>3, <1>4, <1>5, <1>6, <1>7

\* A listing with one more file, and the others as they were.
Added(mb, file) ==
    /\ Listed(mb)' = Listed(mb) \union {file}
    /\ \A other \in Mailboxes : other # mb => Listed(other)' = Listed(other)

\* The rename of a delivery lists the file it wrote.
LEMMA DeliveryListed ==
    ASSUME FilesInv, NEW p \in Procs, DeliverRename(p)
    PROVE  \E mb \in Mailboxes, file \in File :
              /\ mb = box[p] /\ Added(mb, file) /\ held' = [held EXCEPT ![p] = file]
              /\ file.base = held[p].base /\ file.origin = held[p].origin
              /\ file.flags = held[p].flags /\ file.dir = "new" /\ held[p] \in files[mb]
<1>a. /\ files \in [Mailboxes -> SUBSET File] /\ box[p] \in Mailboxes /\ held \in [Procs -> File]
  BY DEF FilesInv, TypeInv, TypeOK
<1>1. held[p] \in files[box[p]] /\ held[p].dir = "tmp"
  BY DEF FilesInv, HeldInTmp, DeliverRename
<1> DEFINE renamed == [held[p] EXCEPT !.dir = "new"]
<1>2. /\ renamed \in File /\ renamed.base = held[p].base /\ renamed.origin = held[p].origin
      /\ renamed.flags = held[p].flags /\ renamed.dir = "new"
  BY <1>a DEF File
<1>3. /\ held' = [held EXCEPT ![p] = renamed]
      /\ files' = [files EXCEPT ![box[p]] = (@ \ {held[p]}) \union {renamed}]
  BY DEF DeliverRename
<1> HIDE DEF renamed
<1>4. PICK mb \in Mailboxes : mb = box[p]
  BY <1>a
<1>5. Added(mb, renamed)
  BY <1>a, <1>1, <1>2, <1>3, <1>4 DEF Added, Listed
<1> QED
  BY <1>1, <1>2, <1>3, <1>4, <1>5

\* A message put into new/ by hand is listed at once.
LEMMA DropListed ==
    ASSUME FilesInv, NEW mb \in DropBoxes, ManualDrop(mb)
    PROVE  \E file \in File :
              /\ mb \in Mailboxes /\ Added(mb, file)
              /\ file.base = nextBase /\ file.origin = nextBase /\ file.flags = {} /\ file.dir = "new"
<1>a. files \in [Mailboxes -> SUBSET File] /\ nextBase \in Nat /\ mb \in Mailboxes
  BY ConstantsAssumption DEF FilesInv, TypeInv, TypeOK
<1> DEFINE dropped == [base |-> nextBase, origin |-> nextBase, dir |-> "new", flags |-> {}]
<1>1. /\ dropped \in File /\ dropped.base = nextBase /\ dropped.origin = nextBase
      /\ dropped.flags = {} /\ dropped.dir = "new"
  BY <1>a DEF File
<1>2. files' = [files EXCEPT ![mb] = @ \union {dropped}]
  BY DEF ManualDrop
<1> HIDE DEF dropped
<1>3. Added(mb, dropped)
  BY <1>a, <1>1, <1>2 DEF Added, Listed
<1> QED
  BY <1>a, <1>1, <1>3

\* set_flags renames one of the files its scan found.
LEMMA ReflagListed ==
    ASSUME UidInv, FilesInv, FlagRename
    PROVE  \E mb \in Mailboxes, e \in Targets, file \in File :
              /\ mb = box["imap"] /\ e.file \in Listed(mb) /\ e.file \in File
              /\ held' = [held EXCEPT !["imap"] = e.file]
              /\ file = Reflagged(e.file) /\ file \in files'[mb]
              /\ file.base = e.file.base /\ file.origin = e.file.origin /\ file.dir = "cur"
              /\ Listed(mb)' = (Listed(mb) \ {e.file}) \union {file}
              /\ \A other \in Mailboxes : other # mb => Listed(other)' = Listed(other)
<1>a. /\ files \in [Mailboxes -> SUBSET File] /\ view \in SUBSET Entry /\ TypeOK
  BY DEF FilesInv, TypeInv, TypeOK
<1>1. PICK e \in Targets :
        /\ held' = [held EXCEPT !["imap"] = e.file]
        /\ files' = [files EXCEPT ![box["imap"]] = (@ \ {e.file}) \union {Reflagged(e.file)}]
  BY DEF FlagRename
<1>2. PICK mb \in Mailboxes : mb = box["imap"]
  BY <1>a DEF TypeOK, Procs
<1>3. e.file \in Listed(mb) /\ e.file \in File
  BY <1>a, <1>2 DEF FlagRename, ScannedFor, FilesInv, ViewListed, Targets, Entry
<1>4. PICK file \in File : file = Reflagged(e.file)
  BY <1>a, <1>3, ReflaggedType
<1>5. file.base = e.file.base /\ file.origin = e.file.origin /\ file.dir = "cur"
  BY <1>3, <1>4 DEF Reflagged, File
<1>6. file \in files'[mb]
  BY <1>a, <1>1, <1>2, <1>4
<1>7. /\ Listed(mb)' = (Listed(mb) \ {e.file}) \union {file}
      /\ \A other \in Mailboxes : other # mb => Listed(other)' = Listed(other)
  BY <1>a, <1>1, <1>2, <1>4, <1>5 DEF Listed
<1> QED
  BY <1>1, <1>2, <1>3, <1>4, <1>5, <1>6, <1>7

\* The end of a MOVE and expunge remove one of the files their scan found.
LEMMA RemovalListed ==
    ASSUME FilesInv, RemoveOriginal \/ ExpungeRemove
    PROVE  \E mb \in Mailboxes, e \in view :
              /\ mb = box["imap"] /\ e.file \in Listed(mb) /\ e.file \in File
              /\ RemoveOriginal => e \in Targets /\ held' = [held EXCEPT !["imap"] = e.file]
              /\ ExpungeRemove => /\ Deleted \in e.file.flags /\ e.file.origin \in expunged'
                                  /\ data'["imap"].map = Del(data["imap"].map, e.file)
              /\ Listed(mb)' = Listed(mb) \ {e.file}
              /\ \A other \in Mailboxes : other # mb => Listed(other)' = Listed(other)
<1>a. /\ files \in [Mailboxes -> SUBSET File] /\ view \in SUBSET Entry /\ TypeOK
      /\ data \in [Procs -> Uidlist] /\ "imap" \in Procs
  BY DEF FilesInv, TypeInv, TypeOK, Procs
<1>1. ~(RemoveOriginal /\ ExpungeRemove)
  BY DEF RemoveOriginal, ExpungeRemove, ScannedFor
<1>2. PICK e \in view :
        /\ files' = [files EXCEPT ![box["imap"]] = @ \ {e.file}]
        /\ RemoveOriginal => e \in Targets /\ held' = [held EXCEPT !["imap"] = e.file]
        /\ ExpungeRemove => /\ Deleted \in e.file.flags /\ e.file.origin \in expunged'
                            /\ data'["imap"].map = Del(data["imap"].map, e.file)
  <2>1. CASE RemoveOriginal
    BY <1>1, <2>1 DEF RemoveOriginal, Targets
  <2>2. CASE ExpungeRemove
    <3>1. PICK e \in Marked :
            /\ files' = [files EXCEPT ![box["imap"]] = @ \ {e.file}]
            /\ data' = [data EXCEPT !["imap"] =
                          [next |-> data["imap"].next, map |-> Del(data["imap"].map, e.file)]]
            /\ expunged' = expunged \union {e.file.origin}
      BY <2>2 DEF ExpungeRemove
    <3>2. data'["imap"].map = Del(data["imap"].map, e.file)
      BY <1>a, <3>1
    <3> QED
      BY <1>1, <2>2, <3>1, <3>2 DEF Marked
  <2> QED
    BY <2>1, <2>2
<1>3. PICK mb \in Mailboxes : mb = box["imap"]
  BY <1>a DEF TypeOK, Procs
<1>4. e.file \in Listed(mb) /\ e.file \in File
  BY <1>a, <1>3 DEF RemoveOriginal, ExpungeRemove, ScannedFor, FilesInv, ViewListed, Entry
<1>5. /\ Listed(mb)' = Listed(mb) \ {e.file}
      /\ \A other \in Mailboxes : other # mb => Listed(other)' = Listed(other)
  BY <1>a, <1>2, <1>3 DEF Listed
<1> QED
  BY <1>2, <1>3, <1>4, <1>5

\* Only set_flags, the end of a MOVE, expunge, DELETE and RENAME take names from
\* new/ and cur/.
LEMMA ListedGrows ==
    ASSUME FilesInv, [Next]_vars, ~FlagRename, ~RemoveOriginal, ~ExpungeRemove, ~Removal
    PROVE  \A mb \in Mailboxes : Listed(mb) \subseteq Listed(mb)'
<1>1. ASSUME NEW p \in Procs, DeliverRename(p) PROVE \A mb \in Mailboxes : Listed(mb) \subseteq Listed(mb)'
  BY <1>1, DeliveryListed DEF Added
<1>2. ASSUME NEW mb \in DropBoxes, ManualDrop(mb) PROVE \A m \in Mailboxes : Listed(m) \subseteq Listed(m)'
  BY <1>2, DropListed DEF Added
<1> QED
  BY <1>1, <1>2, ListedSame

\* The uidlist of a private mailbox is rewritten only by the IMAP process, in
\* the mailbox it works on, unless DELETE or RENAME takes it away.
LEMMA PrivateListsStay ==
    ASSUME UidInv, [Next]_vars, ~Removal, NEW mb \in PrivateBoxes, mb # box["imap"]
    PROVE  uidlist'[mb] = uidlist[mb]
<1> USE DEF disk, imapVars, history, vars
<1>a. uidlist \in [Mailboxes -> Uidlist] /\ mb \in Mailboxes /\ mb \notin SmtpBoxes
  BY DEF UidInv, TypeInv, TypeOK, PrivateBoxes
<1>1. ASSUME NEW p \in Procs, EnsureCreate(p) \/ DeliverWrite(p) PROVE uidlist'[mb] = uidlist[mb]
  <2>1. pc[p] # "idle"
    BY <1>1 DEF EnsureCreate, DeliverWrite
  <2>2. mb # box[p]
    BY <1>a, <2>1 DEF UidInv, SmtpStays, Procs
  <2>3. \E new : uidlist' = [uidlist EXCEPT ![box[p]] = new]
    BY <1>1 DEF EnsureCreate, DeliverWrite
  <2> QED
    BY <1>a, <2>2, <2>3
<1>2. ASSUME NEW p \in Procs, EnsureCheck(p) \/ DeliverTmp(p) \/ DeliverRename(p) \/ DeliverRead(p) \/ Fail(p)
      PROVE  UNCHANGED uidlist
  BY <1>2 DEF EnsureCheck, DeliverTmp, DeliverRename, DeliverRead, Fail
<1>3. CASE ImapStep
  <2>1. CASE ScanWrite \/ FlagWrite \/ RemoveWrite \/ ExpungeWrite
    <3>1. \E new : uidlist' = [uidlist EXCEPT ![box["imap"]] = new]
      BY <2>1 DEF ScanWrite, FlagWrite, RemoveWrite, ExpungeWrite
    <3> QED
      BY <1>a, <3>1
  <2>2. CASE \/ ScanRead \/ ScanList \/ ListDone \/ NoSuchMessage \/ GetMessage \/ FlagRename
             \/ FlagRead \/ FlagKeyError \/ RemoveOriginal \/ RemoveRead \/ ExpungeRead \/ ExpungeRemove
    BY <2>2 DEF ScanRead, ScanList, ListDone, NoSuchMessage, GetMessage, FlagRename, FlagRead,
          FlagKeyError, RemoveOriginal, RemoveRead, ExpungeRead, ExpungeRemove
  <2> QED
    BY <1>3, <2>1, <2>2 DEF ImapStep
<1>4. ASSUME NEW b, StartDeliver(b) \/ ManualDrop(b) PROVE UNCHANGED uidlist
  BY <1>4 DEF StartDeliver, ManualDrop
<1>5. ASSUME NEW s, NEW b, NEW dst, NEW uid, NEW arg, StartImap(s, b, dst, uid, arg)
      PROVE  UNCHANGED uidlist
  BY <1>5 DEF StartImap
<1>6. CASE DeliverRaises
  BY <1>6 DEF DeliverRaises
<1> QED
  BY NextCases, <1>1, <1>2, <1>3, <1>4, <1>5, <1>6

(***************************************************************************)
(* Control: which step of which stage works on which mailbox.              *)
(***************************************************************************)

\* The steps of ensure_mailbox and deliver_message follow the stages.
LEMMA SharedPlaces ==
    ASSUME TypeInv, StageSteps, Places, NEW p \in Procs, SharedStep(p) \/ Fail(p)
    PROVE  StageSteps' /\ Places'
<1> USE DEF disk, imapVars, history
<1>a. /\ pc \in [Procs -> Steps] /\ box \in [Procs -> Mailboxes] /\ "imap" \in Procs
  BY DEF TypeInv, TypeOK, Procs
<1>1. CASE p # "imap" \/ Fail(p)
  <2>1. /\ UNCHANGED <<box["imap"], stage, job>>
        /\ pc'["imap"] = pc["imap"] \/ pc'["imap"] = "idle"
    BY <1>1, <1>a DEF SharedStep, EnsureCheck, EnsureCreate, DeliverTmp, DeliverRename, DeliverRead,
                      DeliverWrite, Fail, Procs
  <2> QED
    BY <2>1 DEF StageSteps, Places, Doing, Delivering, Reflagging, Removing
<1>2. CASE p = "imap" /\ (EnsureCheck(p) \/ EnsureCreate(p))
  <2>1. /\ pc["imap"] \in {"ensure", "create"} /\ UNCHANGED <<box["imap"], stage, job>>
        /\ \/ pc'["imap"] = "create"
           \/ pc'["imap"] = IF stage = "moveCopy" THEN "tmp"
                            ELSE IF stage = "create" THEN "idle" ELSE "scanRead"
    BY <1>2, <1>a DEF EnsureCheck, EnsureCreate, AfterEnsure
  <2> QED
    BY <2>1 DEF StageSteps, Places, Doing, Delivering, Reflagging, Removing
<1>3. CASE p = "imap" /\ (DeliverTmp(p) \/ DeliverRename(p) \/ DeliverRead(p))
  <2>1. /\ pc["imap"] \in Delivering /\ pc'["imap"] \in Delivering
        /\ UNCHANGED <<box["imap"], stage, job>>
    BY <1>3, <1>a DEF DeliverTmp, DeliverRename, DeliverRead, Delivering
  <2> QED
    BY <2>1 DEF StageSteps, Places, Doing, Delivering, Reflagging, Removing
<1>4. CASE p = "imap" /\ DeliverWrite(p)
  <2>1. /\ pc["imap"] = "deliverWrite" /\ pc'["imap"] = "ensure" /\ UNCHANGED job
        /\ \/ stage' = "moveFlag" /\ UNCHANGED box
           \/ stage' = "moveRemove" /\ box'["imap"] = job.box
    BY <1>4, <1>a DEF DeliverWrite
  <2> QED
    BY <2>1 DEF StageSteps, Places, Doing, Delivering, Reflagging, Removing, Moving
<1> QED
  BY <1>1, <1>2, <1>3, <1>4 DEF SharedStep

\* So do the steps of the IMAP process.
LEMMA ImapPlaces ==
    ASSUME TypeInv, StageSteps, Places, ImapStep
    PROVE  StageSteps' /\ Places'
<1> USE DEF disk, imapVars, history, Doing, Delivering, Reflagging, Removing, Moving
<1>a. /\ pc \in [Procs -> Steps] /\ box \in [Procs -> Mailboxes] /\ "imap" \in Procs
  BY DEF TypeInv, TypeOK, Procs
<1>1. CASE ListDone \/ NoSuchMessage \/ FlagKeyError \/ RemoveWrite \/ ExpungeWrite
  <2>1. pc'["imap"] = "idle"
    BY <1>1, <1>a DEF ListDone, NoSuchMessage, FlagKeyError, RemoveWrite, ExpungeWrite
  <2> QED
    BY <2>1 DEF StageSteps, Places
<1>2. CASE ScanRead \/ ScanList \/ ScanWrite
  <2>1. /\ pc["imap"] \in {"scanRead", "scanList", "scanWrite"}
        /\ pc'["imap"] \in {"scanList", "scanWrite", "scanned"}
        /\ UNCHANGED <<box["imap"], stage, job>>
    BY <1>2, <1>a DEF ScanRead, ScanList, ScanWrite
  <2> QED
    BY <2>1 DEF StageSteps, Places
<1>3. CASE GetMessage
  <2>1. /\ pc["imap"] = "scanned" /\ UNCHANGED job
        /\ \/ pc'["imap"] = "idle"
           \/ /\ job.box # job.dst /\ pc'["imap"] = "ensure" /\ stage' = "moveCopy"
              /\ box'["imap"] = job.dst
    BY <1>3, <1>a DEF GetMessage, ScannedFor
  <2> QED
    BY <2>1 DEF StageSteps, Places
<1>4. CASE FlagRename \/ FlagRead
  <2>1. /\ \/ pc["imap"] = "scanned" /\ stage \in {"store", "moveFlag"}
           \/ pc["imap"] = "flagRead"
        /\ pc'["imap"] \in {"flagRead", "flagWrite"}
        /\ UNCHANGED <<box["imap"], stage, job>>
    BY <1>4, <1>a DEF FlagRename, FlagRead, ScannedFor
  <2> QED
    BY <2>1 DEF StageSteps, Places
<1>5. CASE FlagWrite
  <2>1. /\ pc["imap"] = "flagWrite" /\ UNCHANGED job
        /\ \/ /\ stage = "moveFlag" /\ stage' = "moveRemove" /\ pc'["imap"] = "ensure"
              /\ box'["imap"] = job.box
           \/ pc'["imap"] = "idle"
    BY <1>5, <1>a DEF FlagWrite
  <2> QED
    BY <2>1 DEF StageSteps, Places
<1>6. CASE RemoveOriginal \/ RemoveRead
  <2>1. /\ \/ pc["imap"] = "scanned" /\ stage = "moveRemove"
           \/ pc["imap"] = "removeRead"
        /\ pc'["imap"] \in {"removeRead", "removeWrite"}
        /\ UNCHANGED <<box["imap"], stage, job>>
    BY <1>6, <1>a DEF RemoveOriginal, RemoveRead, ScannedFor
  <2> QED
    BY <2>1 DEF StageSteps, Places
<1>7. CASE ExpungeRead \/ ExpungeRemove
  <2>1. /\ \/ pc["imap"] = "scanned" /\ stage = "expunge"
           \/ pc["imap"] = "expungeRemove"
        /\ pc'["imap"] = "expungeRemove"
        /\ UNCHANGED <<box["imap"], stage, job>>
    BY <1>7, <1>a DEF ExpungeRead, ExpungeRemove, ScannedFor
  <2> QED
    BY <2>1 DEF StageSteps, Places
<1> QED
  BY <1>1, <1>2, <1>3, <1>4, <1>5, <1>6, <1>7 DEF ImapStep

(***************************************************************************)
(* Frames.                                                                 *)
(***************************************************************************)

\* Between operations, and in one that is not a MOVE past get_message, there
\* is nothing to keep.
LEMMA NotMoving ==
    ASSUME UidInv', FilesInv', StageSteps', Places',
           pc'["imap"] = "idle" \/ stage' \notin Moving
    PROVE  MoveInv'
<1>1. pc'["imap"] \notin {"rename", "deliverRead", "deliverWrite"}
  BY DEF StageSteps, Delivering, Moving
<1>2. ~Doing(Moving)' /\ ~Doing({"moveFlag"})' /\ ~Doing({"moveRemove"})'
  BY DEF Doing, Moving
<1>3. ~(ImapIn({"scanWrite", "scanned"})' /\ stage' \in {"moveFlag", "moveRemove"})
  BY DEF ImapIn, Moving
<1> QED
  BY <1>1, <1>2, <1>3 DEF MoveInv, OriginalListed, HeldCopies, CopyListed, TargetsShown

\* A step of the SMTP process or of the environment keeps what a MOVE needs.
LEMMA MoveElsewhere ==
    ASSUME MoveInv, UidInv', FilesInv', [Next]_vars, ~ImapStep, ~Removal,
           UNCHANGED <<pc["imap"], box["imap"], held["imap"], imapVars>>,
           \A mb \in PrivateBoxes : UNCHANGED uidlist[mb]
    PROVE  MoveInv'
<1> USE DEF imapVars
<1>1. \A mb \in Mailboxes : Listed(mb) \subseteq Listed(mb)'
  BY ListedGrows DEF MoveInv, ImapStep
<1>2. job.box \in Mailboxes /\ job.dst \in Mailboxes /\ box["imap"] \in Mailboxes
  BY DEF MoveInv, UidInv, TypeInv, TypeOK, Job, Procs
<1>3. UNCHANGED <<KeptFlags, Original>> /\ Reflagged(held["imap"])' = Reflagged(held["imap"])
  BY DEF KeptFlags, Original, Reflagged, NewFlags, KeptFlags
<1>4. StageSteps' /\ Places'
  BY DEF MoveInv, StageSteps, Places, Doing
<1>5. OriginalListed' /\ HeldCopies' /\ TargetsShown'
  BY <1>1, <1>2, <1>3 DEF MoveInv, OriginalListed, HeldCopies, TargetsShown, Doing, ImapIn
<1>6. box["imap"] \in PrivateBoxes => UNCHANGED ImapList
  BY DEF ImapList
<1>7. CopyListed'
  <2>1. Doing({"moveFlag"})' => \E f \in Listed(box["imap"])' : f.origin = got.origin
    BY <1>1, <1>2 DEF MoveInv, CopyListed, Doing
  <2>2. Doing({"moveFlag"})' /\ box["imap"] \in PrivateBoxes /\ pc["imap"] \in Reflagging =>
          held["imap"].origin = got.origin /\ Reflagged(held["imap"]) \in Listed(box["imap"])'
    BY <1>1, <1>2 DEF MoveInv, CopyListed, Doing
  <2>3. Doing({"moveFlag"})' /\ box["imap"] \in PrivateBoxes /\ pc["imap"] \notin Reflagging =>
          \E f \in Listed(box["imap"])' :
             f.origin = got.origin /\ [file |-> f, uid |-> copyUid] \in ImapList'.map
    BY <1>1, <1>2, <1>6 DEF MoveInv, CopyListed, Doing
  <2>4. Doing({"moveRemove"})' => \E g \in Listed(job.dst)' :
          g.origin = got.origin /\ (job.dst \in PrivateBoxes => g.flags = KeptFlags)
    BY <1>1, <1>2 DEF MoveInv, CopyListed, Doing
  <2> QED
    BY <1>3, <2>1, <2>2, <2>3, <2>4 DEF CopyListed
<1> QED
  BY <1>4, <1>5, <1>7 DEF MoveInv

(***************************************************************************)
(* Steps.                                                                  *)
(***************************************************************************)

\* The steps of ensure_mailbox and deliver_message in the IMAP process.
LEMMA SharedMoveInv ==
    ASSUME MoveInv, UidInv', FilesInv', [Next]_vars, SharedStep("imap")
    PROVE  MoveInv'
<1> USE DEF disk, imapVars, history
<1>a. /\ pc \in [Procs -> Steps] /\ box \in [Procs -> Mailboxes] /\ held \in [Procs -> File]
      /\ data \in [Procs -> Uidlist] /\ uidlist \in [Mailboxes -> Uidlist]
      /\ files \in [Mailboxes -> SUBSET File] /\ nextBase \in Nat /\ got \in File
      /\ "imap" \in Procs /\ box["imap"] \in Mailboxes
      /\ job.box \in Mailboxes /\ job.dst \in Mailboxes /\ PrivateBoxes \subseteq Mailboxes
  BY DEF MoveInv, UidInv, TypeInv, TypeOK, Procs, Job, PrivateBoxes
<1>b. StageSteps' /\ Places'
  BY SharedPlaces, <1>a DEF MoveInv, UidInv
<1>c. \A mb \in Mailboxes : Listed(mb) \subseteq Listed(mb)'
  <2>1. ~FlagRename /\ ~RemoveOriginal /\ ~ExpungeRemove
    BY DEF SharedStep, EnsureCheck, EnsureCreate, DeliverTmp, DeliverRename, DeliverRead,
           DeliverWrite, FlagRename, RemoveOriginal, ExpungeRemove, ScannedFor
  <2>2. ~Removal
    <3>1. pc["imap"] \notin {"idle", "rmtree"}
      BY DEF SharedStep, EnsureCheck, EnsureCreate, DeliverTmp, DeliverRename, DeliverRead,
             DeliverWrite
    <3> QED
      BY <3>1, RemovalLoses DEF OnlyLoses, MoveInv, UidInv, TypeInv
  <2> QED
    BY <2>1, <2>2, ListedGrows DEF MoveInv
<1>1. CASE EnsureCheck("imap")
  <2>1. /\ pc["imap"] = "ensure" /\ pc'["imap"] \in {"create", "idle", "tmp", "scanRead"}
        /\ UNCHANGED <<files, uidlist, box, held, view, stage, job, got, copyUid>>
    BY <1>1, <1>a DEF EnsureCheck, AfterEnsure
  <2>2. OriginalListed' /\ HeldCopies' /\ TargetsShown'
    BY <2>1 DEF MoveInv, OriginalListed, HeldCopies, TargetsShown, Doing, Removing, ImapIn, Original, Listed
  <2>3. CopyListed'
    BY <2>1 DEF MoveInv, CopyListed, Doing, Reflagging, ImapList, Listed, KeptFlags
  <2> QED
    BY <1>b, <2>2, <2>3 DEF MoveInv
<1>2. CASE EnsureCreate("imap")
  <2>1. /\ pc["imap"] = "create" /\ pc'["imap"] \in {"idle", "tmp", "scanRead"}
        /\ UNCHANGED <<files, box, held, view, stage, job, got, copyUid>>
        /\ \A mb \in Mailboxes : mb # box["imap"] => uidlist'[mb] = uidlist[mb]
    BY <1>2, <1>a DEF EnsureCreate, AfterEnsure
  <2>2. box["imap"] \in PrivateBoxes => \A e \in uidlist[box["imap"]].map : FALSE
    <3> SUFFICES ASSUME box["imap"] \in PrivateBoxes, NEW e \in uidlist[box["imap"]].map PROVE FALSE
      OBVIOUS
    <3>1. uidlist[box["imap"]].next = 0
      BY <2>1 DEF MoveInv, UidInv, CreateAbsent, ImapIn, ImapList
    <3>2. e.uid < 0
      BY <3>1 DEF MoveInv, UidInv, ListsSound, Sound
    <3>3. e.uid \in Nat
      BY <1>a DEF Uidlist, Entry
    <3> QED
      BY <3>2, <3>3
  <2>3. OriginalListed'
    BY <1>a, <2>1, <2>2 DEF MoveInv, OriginalListed, Doing, Removing, Original, Listed
  <2>4. HeldCopies' /\ TargetsShown'
    BY <2>1 DEF HeldCopies, TargetsShown, ImapIn
  <2>5. CopyListed'
    BY <2>1, <2>2 DEF MoveInv, CopyListed, Doing, Reflagging, ImapList, Listed, KeptFlags
  <2> QED
    BY <1>b, <2>3, <2>4, <2>5 DEF MoveInv
<1>3. CASE DeliverTmp("imap") \/ DeliverRename("imap") \/ DeliverRead("imap")
  <2>1. /\ pc["imap"] \in Delivering
        /\ pc'["imap"] \in {"rename", "deliverRead", "deliverWrite"}
        /\ UNCHANGED <<uidlist, box, view, stage, job, got, copyUid>>
    BY <1>3, <1>a DEF DeliverTmp, DeliverRename, DeliverRead, Delivering
  <2>2. stage = "moveCopy"
    BY <2>1 DEF MoveInv, StageSteps
  <2>3. OriginalListed'
    BY <1>c, <1>a, <2>1 DEF MoveInv, OriginalListed, Doing, Removing, Delivering, Original
  <2>4. CopyListed' /\ TargetsShown'
    BY <2>1, <2>2 DEF CopyListed, TargetsShown, Doing, ImapIn
  <2>5. CASE DeliverTmp("imap")
    <3>1. /\ held'["imap"].origin = got.origin /\ held'["imap"].flags = {}
          /\ pc'["imap"] = "rename"
      BY <2>5, <1>a DEF DeliverTmp
    <3>2. HeldCopies'
      BY <2>1, <3>1 DEF HeldCopies
    <3> QED
      BY <1>b, <2>3, <2>4, <3>2 DEF MoveInv
  <2>6. CASE DeliverRename("imap")
    <3>1. /\ pc["imap"] = "rename"
          /\ held'["imap"].origin = held["imap"].origin /\ held'["imap"].flags = held["imap"].flags
          /\ held'["imap"].dir = "new"
          /\ held'["imap"] \in files'[box["imap"]]
      BY <2>6, <1>a DEF DeliverRename, File
    <3>2. HeldCopies'
      BY <2>1, <3>1 DEF MoveInv, HeldCopies, Listed
    <3> QED
      BY <1>b, <2>3, <2>4, <3>2 DEF MoveInv
  <2>7. CASE DeliverRead("imap")
    <3>1. pc["imap"] = "deliverRead" /\ UNCHANGED <<held, files>>
      BY <2>7 DEF DeliverRead
    <3>2. HeldCopies'
      BY <2>1, <3>1 DEF MoveInv, HeldCopies, Listed
    <3> QED
      BY <1>b, <2>3, <2>4, <3>2 DEF MoveInv
  <2> QED
    BY <1>3, <2>5, <2>6, <2>7
<1>4. CASE DeliverWrite("imap")
  <2>1. /\ pc["imap"] = "deliverWrite" /\ pc'["imap"] = "ensure"
        /\ uidlist' = [uidlist EXCEPT ![box["imap"]] = Numbered(data["imap"], held["imap"])]
        /\ copyUid' = data["imap"].next
        /\ IF KeptFlags # {} THEN stage' = "moveFlag" /\ UNCHANGED box
           ELSE stage' = "moveRemove" /\ box' = [box EXCEPT !["imap"] = job.box]
        /\ UNCHANGED <<files, held, view, job, got>>
    BY <1>4, <1>a DEF DeliverWrite
  <2>2. stage = "moveCopy" /\ box["imap"] = job.dst /\ job.box # job.dst
    BY <2>1 DEF MoveInv, StageSteps, Places, Delivering, Moving
  <2>3. /\ held["imap"].origin = got.origin /\ held["imap"].flags = {}
        /\ held["imap"] \in Listed(job.dst)
    BY <2>1, <2>2 DEF MoveInv, HeldCopies
  <2>4. OriginalListed'
    BY <1>a, <2>1, <2>2 DEF MoveInv, OriginalListed, Doing, Moving, Removing, Original, Listed
  <2>5. HeldCopies' /\ TargetsShown'
    BY <2>1 DEF HeldCopies, TargetsShown, ImapIn
  <2>6. UNCHANGED <<KeptFlags, Listed(job.dst)>>
    BY <2>1 DEF KeptFlags, Listed
  <2>7. CASE KeptFlags # {}
    <3>1. stage' = "moveFlag" /\ box'["imap"] = job.dst /\ pc'["imap"] \notin Reflagging
      BY <2>1, <2>2, <2>7 DEF Reflagging
    <3>2. [file |-> held["imap"], uid |-> copyUid'] \in ImapList'.map
      <4>1. ImapList' = Numbered(data["imap"], held["imap"])
        BY <1>a, <2>1, <2>2, <3>1 DEF ImapList
      <4> QED
        BY <2>1, <4>1 DEF Numbered, Put
    <3>3. CopyListed'
      BY <2>1, <2>3, <2>6, <3>1, <3>2 DEF CopyListed, Doing
    <3> QED
      BY <1>b, <2>4, <2>5, <3>3 DEF MoveInv
  <2>8. CASE KeptFlags = {}
    <3>1. stage' = "moveRemove"
      BY <2>1, <2>8
    <3>2. CopyListed'
      BY <2>1, <2>3, <2>6, <2>8, <3>1 DEF CopyListed, Doing
    <3> QED
      BY <1>b, <2>4, <2>5, <3>2 DEF MoveInv
  <2> QED
    BY <2>7, <2>8
<1> QED
  BY <1>1, <1>2, <1>3, <1>4 DEF SharedStep

\* A scan in the middle of a MOVE.
LEMMA ScanMoveInv ==
    ASSUME MoveInv, UidInv', FilesInv', [Next]_vars, ScanRead \/ ScanList \/ ScanWrite
    PROVE  MoveInv'
<1> USE DEF disk, imapVars, history
<1>a. /\ pc \in [Procs -> Steps] /\ data \in [Procs -> Uidlist] /\ uidlist \in [Mailboxes -> Uidlist]
      /\ "imap" \in Procs /\ box["imap"] \in Mailboxes
      /\ job.box \in Mailboxes /\ job.dst \in Mailboxes /\ PrivateBoxes \subseteq Mailboxes
  BY DEF MoveInv, UidInv, TypeInv, TypeOK, Procs, Job, PrivateBoxes
<1>b. StageSteps' /\ Places'
  <2>1. ImapStep
    BY DEF ImapStep
  <2> QED
    BY <2>1, ImapPlaces DEF MoveInv, UidInv
<1>c. /\ pc["imap"] \in {"scanRead", "scanList", "scanWrite"}
      /\ pc'["imap"] \in {"scanList", "scanWrite", "scanned"}
      /\ UNCHANGED <<files, box, held, stage, job, got, copyUid>>
  BY <1>a DEF ScanRead, ScanList, ScanWrite
<1>d. /\ box["imap"] \in PrivateBoxes => uidlist[box["imap"]].map \subseteq uidlist'[box["imap"]].map
      /\ \A mb \in Mailboxes : mb # box["imap"] => uidlist'[mb] = uidlist[mb]
  <2>1. CASE ScanRead \/ ScanList
    BY <2>1 DEF ScanRead, ScanList
  <2>2. CASE ScanWrite
    <3>1. uidlist' = [uidlist EXCEPT ![box["imap"]] = data["imap"]] /\ pc["imap"] = "scanWrite"
      BY <2>2 DEF ScanWrite
    <3>2. box["imap"] \in PrivateBoxes => uidlist[box["imap"]].map \subseteq data["imap"].map
      BY <3>1 DEF MoveInv, UidInv, CopyCurrent, ImapIn, Extends, ImapList
    <3> QED
      BY <1>a, <3>1, <3>2
  <2> QED
    BY <2>1, <2>2
<1>1. OriginalListed'
  <2>1. job.box \in PrivateBoxes => uidlist[job.box].map \subseteq uidlist'[job.box].map
    BY <1>a, <1>d
  <2> QED
    BY <1>c, <2>1 DEF MoveInv, OriginalListed, Doing, Removing, Original, Listed
<1>2. HeldCopies'
  BY <1>c DEF HeldCopies
<1>3. CopyListed'
  <2>1. box["imap"] \in PrivateBoxes => ImapList.map \subseteq ImapList'.map
    BY <1>c, <1>d DEF ImapList
  <2> QED
    BY <1>c, <2>1 DEF MoveInv, CopyListed, Doing, Reflagging, Listed, KeptFlags
<1>4. TargetsShown'
  <2>1. CASE ScanRead
    BY <1>a, <2>1 DEF ScanRead, TargetsShown, ImapIn
  <2>2. CASE ScanWrite
    BY <1>a, <1>c, <2>2 DEF ScanWrite, MoveInv, TargetsShown, ImapIn, Original
  <2>3. CASE ScanList
    <3> SUFFICES ASSUME box["imap"] \in PrivateBoxes
                 PROVE  /\ stage = "moveFlag" => \E e \in view' : e.uid = copyUid /\ e.file.origin = got.origin
                        /\ stage = "moveRemove" => Original \in view'
      BY <1>c DEF TargetsShown, ImapIn, Original
    <3>1. pc["imap"] = "scanList" /\ Doing({stage})
      BY <2>3 DEF ScanList, Doing
    <3>2. data["imap"] = ImapList
      BY <3>1 DEF MoveInv, UidInv, CopyCurrent, ImapIn
    <3>3. \A e \in ImapList.map : e.file \in Listed(box["imap"]) => e \in view'
      <4>1. \E map : data["imap"].map \subseteq map /\ view' = Entries(map, Listed(box["imap"]))
        BY <2>3 DEF ScanList
      <4> QED
        BY <3>2, <4>1 DEF Entries
    <3>4. stage = "moveFlag" => \E e \in view' : e.uid = copyUid /\ e.file.origin = got.origin
      <4> SUFFICES ASSUME stage = "moveFlag"
                   PROVE  \E e \in view' : e.uid = copyUid /\ e.file.origin = got.origin
        OBVIOUS
      <4>1. PICK f \in Listed(box["imap"]) :
              f.origin = got.origin /\ [file |-> f, uid |-> copyUid] \in ImapList.map
        BY <3>1 DEF MoveInv, CopyListed, Doing, Reflagging
      <4> QED
        BY <3>3, <4>1
    <3>5. stage = "moveRemove" => Original \in view'
      <4> SUFFICES ASSUME stage = "moveRemove" PROVE Original \in view'
        OBVIOUS
      <4>1. box["imap"] = job.box
        BY <3>1 DEF MoveInv, Places, Doing
      <4>2. Original \in ImapList.map /\ got \in Listed(box["imap"])
        BY <3>1, <4>1 DEF MoveInv, OriginalListed, Doing, Moving, Removing, ImapList
      <4> QED
        BY <3>3, <4>2 DEF Original
    <3> QED
      BY <3>4, <3>5
  <2> QED
    BY <2>1, <2>2, <2>3
<1> QED
  BY <1>b, <1>1, <1>2, <1>3, <1>4 DEF MoveInv

\* get_message, set_flags and the removal of the original.
LEMMA ImapMoveInv ==
    ASSUME MoveInv, UidInv', FilesInv', [Next]_vars, ImapStep
    PROVE  MoveInv'
<1> USE DEF disk, imapVars, history
<1>a. /\ pc \in [Procs -> Steps] /\ box \in [Procs -> Mailboxes] /\ held \in [Procs -> File]
      /\ data \in [Procs -> Uidlist] /\ uidlist \in [Mailboxes -> Uidlist]
      /\ files \in [Mailboxes -> SUBSET File] /\ got \in File /\ view \in SUBSET Entry
      /\ "imap" \in Procs /\ box["imap"] \in Mailboxes /\ TypeOK
      /\ job.box \in Mailboxes /\ job.dst \in Mailboxes /\ PrivateBoxes \subseteq Mailboxes
  BY DEF MoveInv, UidInv, TypeInv, TypeOK, Procs, Job, PrivateBoxes
<1>b. StageSteps' /\ Places'
  BY ImapPlaces DEF MoveInv, UidInv
<1>c. pc["imap"] = "scanned" =>
        /\ \A e \in view : e.file \in Listed(box["imap"]) /\ e.file \in File
        /\ box["imap"] \in PrivateBoxes => view \subseteq ImapList.map
  BY <1>a DEF MoveInv, FilesInv, ViewListed, UidInv, ViewCurrent, ImapIn, Entry
<1>d. \A e \in Targets : e \in view /\ e.uid = TargetUid /\ e = [file |-> e.file, uid |-> e.uid]
  BY <1>a DEF Targets, Entry
<1>e. box["imap"] \in PrivateBoxes => \A e, f \in ImapList.map : e.uid = f.uid => e = f
  BY DEF MoveInv, UidInv, ListsSound, Sound, ImapList
<1>1. CASE ScanRead \/ ScanList \/ ScanWrite
  BY <1>1, ScanMoveInv
<1>2. CASE pc'["imap"] = "idle" \/ stage' \notin Moving
  BY <1>b, <1>2, NotMoving
<1>3. CASE GetMessage /\ stage' = "moveCopy" /\ pc'["imap"] # "idle"
  <2>1. PICK e \in Targets : got' = e.file
    BY <1>3 DEF GetMessage
  <2>2. /\ pc["imap"] = "scanned" /\ stage = "moveGet" /\ pc'["imap"] = "ensure"
        /\ UNCHANGED <<files, uidlist, job>>
    BY <1>3, <1>a DEF GetMessage, ScannedFor
  <2>3. box["imap"] = job.box /\ e.uid = job.uid
    BY <1>d, <2>1, <2>2 DEF MoveInv, Places, TargetUid
  <2>4. OriginalListed'
    BY <1>c, <1>d, <2>1, <2>2, <2>3 DEF OriginalListed, Original, ImapList, Listed
  <2>5. HeldCopies' /\ CopyListed' /\ TargetsShown'
    BY <1>3, <2>2 DEF HeldCopies, CopyListed, TargetsShown, Doing, ImapIn
  <2> QED
    BY <1>b, <2>4, <2>5 DEF MoveInv
<1>4. CASE FlagRename /\ stage' \in Moving
  <2>1. PICK e \in Targets :
          /\ held' = [held EXCEPT !["imap"] = e.file]
          /\ files' = [files EXCEPT ![box["imap"]] = (@ \ {e.file}) \union {Reflagged(e.file)}]
    BY <1>4 DEF FlagRename
  <2>2. /\ pc["imap"] = "scanned" /\ stage = "moveFlag" /\ pc'["imap"] = "flagRead"
        /\ UNCHANGED <<uidlist, box, view, stage, job, got, copyUid>>
    BY <1>4, <1>a DEF FlagRename, ScannedFor, Moving
  <2>3. box["imap"] = job.dst /\ job.box # job.dst /\ e.uid = copyUid
    BY <1>d, <2>1, <2>2 DEF MoveInv, Places, TargetUid, Moving
  <2>4. /\ e.file \in Listed(box["imap"]) /\ e.file \in File
        /\ Reflagged(e.file).dir = "cur" /\ Reflagged(e.file).origin = e.file.origin
    BY <1>c, <1>d, <2>1, <2>2 DEF Reflagged, File
  <2>5. /\ Listed(box["imap"])' = (Listed(box["imap"]) \ {e.file}) \union {Reflagged(e.file)}
        /\ \A mb \in Mailboxes : mb # box["imap"] => Listed(mb)' = Listed(mb)
        /\ held'["imap"] = e.file
        /\ Reflagged(held["imap"])' = Reflagged(e.file)
    <3>1. /\ files'[box["imap"]] = (files[box["imap"]] \ {e.file}) \union {Reflagged(e.file)}
          /\ \A mb \in Mailboxes : mb # box["imap"] => files'[mb] = files[mb]
          /\ held'["imap"] = e.file
      BY <1>a, <2>1
    <3>2. \A mb \in Mailboxes : mb # box["imap"] => Listed(mb)' = Listed(mb)
      BY <3>1 DEF Listed
    <3>3. Listed(box["imap"])' = (Listed(box["imap"]) \ {e.file}) \union {Reflagged(e.file)}
      BY <2>2, <2>4, <3>1 DEF Listed
    <3>4. Reflagged(held["imap"])' = Reflagged(e.file)
      BY <2>2, <3>1 DEF Reflagged, NewFlags, KeptFlags
    <3> QED
      BY <3>1, <3>2, <3>3, <3>4
  <2>6. OriginalListed'
    BY <1>a, <2>2, <2>3, <2>5 DEF MoveInv, OriginalListed, Doing, Moving, Removing, Original
  <2>7. HeldCopies' /\ TargetsShown'
    BY <2>2 DEF HeldCopies, TargetsShown, ImapIn
  <2>8. \E f \in Listed(box["imap"])' : f.origin = got.origin
    <3>1. PICK f \in Listed(box["imap"]) : f.origin = got.origin
      BY <2>2 DEF MoveInv, CopyListed, Doing
    <3> QED
      BY <2>4, <2>5, <3>1
  <2>9. box["imap"] \in PrivateBoxes => e.file.origin = got.origin
    <3> SUFFICES ASSUME box["imap"] \in PrivateBoxes PROVE e.file.origin = got.origin
      OBVIOUS
    <3>1. PICK f \in Listed(box["imap"]) :
            f.origin = got.origin /\ [file |-> f, uid |-> copyUid] \in ImapList.map
      BY <2>2 DEF MoveInv, CopyListed, Doing, Reflagging
    <3>2. e = [file |-> f, uid |-> copyUid]
      BY <1>c, <1>d, <1>e, <2>1, <2>2, <2>3, <3>1
    <3> QED
      BY <3>1, <3>2
  <2>10. CopyListed'
    BY <2>2, <2>5, <2>8, <2>9 DEF CopyListed, Doing, Reflagging
  <2> QED
    BY <1>b, <2>6, <2>7, <2>10 DEF MoveInv
<1>5. CASE FlagRead /\ stage' \in Moving
  <2>1. /\ pc["imap"] = "flagRead" /\ pc'["imap"] = "flagWrite"
        /\ UNCHANGED <<files, uidlist, box, held, view, stage, job, got, copyUid>>
    BY <1>5, <1>a DEF FlagRead
  <2>2. OriginalListed' /\ HeldCopies' /\ TargetsShown'
    BY <2>1 DEF MoveInv, OriginalListed, HeldCopies, TargetsShown, Doing, Removing, ImapIn, Original, Listed
  <2>3. Reflagged(held["imap"])' = Reflagged(held["imap"])
    BY <2>1 DEF Reflagged, NewFlags, KeptFlags
  <2>4. CopyListed'
    BY <2>1, <2>3 DEF MoveInv, CopyListed, Doing, Reflagging, ImapList, Listed, KeptFlags
  <2> QED
    BY <1>b, <2>2, <2>4 DEF MoveInv
<1>6. CASE FlagWrite /\ pc'["imap"] # "idle"
  <2>1. /\ pc["imap"] = "flagWrite" /\ stage = "moveFlag"
        /\ pc'["imap"] = "ensure" /\ stage' = "moveRemove"
        /\ \A mb \in Mailboxes : mb # box["imap"] => uidlist'[mb] = uidlist[mb]
        /\ UNCHANGED <<files, held, view, job, got, copyUid>>
    BY <1>6, <1>a DEF FlagWrite
  <2>2. box["imap"] = job.dst /\ job.box # job.dst
    BY <2>1 DEF MoveInv, Places, Moving
  <2>3. OriginalListed'
    BY <1>a, <2>1, <2>2 DEF MoveInv, OriginalListed, Doing, Moving, Removing, Original, Listed
  <2>4. HeldCopies' /\ TargetsShown'
    BY <2>1 DEF HeldCopies, TargetsShown, ImapIn
  <2>5. UNCHANGED <<KeptFlags, Listed(job.dst)>>
    BY <2>1 DEF KeptFlags, Listed
  <2>6. \E g \in Listed(job.dst) :
          g.origin = got.origin /\ (job.dst \in PrivateBoxes => g.flags = KeptFlags)
    <3>1. CASE job.dst \in PrivateBoxes
      <4>1. held["imap"].origin = got.origin /\ Reflagged(held["imap"]) \in Listed(job.dst)
        BY <2>1, <2>2, <3>1 DEF MoveInv, CopyListed, Doing, Reflagging
      <4>2. /\ Reflagged(held["imap"]).origin = held["imap"].origin
            /\ Reflagged(held["imap"]).flags = KeptFlags
        <5>1. held["imap"] \in File
          BY <1>a
        <5> QED
          BY <2>1, <5>1 DEF Reflagged, NewFlags, File
      <4> QED
        BY <4>1, <4>2
    <3>2. CASE job.dst \notin PrivateBoxes
      BY <2>1, <2>2, <3>2 DEF MoveInv, CopyListed, Doing
    <3> QED
      BY <3>1, <3>2
  <2>7. CopyListed'
    BY <2>1, <2>5, <2>6 DEF CopyListed, Doing
  <2> QED
    BY <1>b, <2>3, <2>4, <2>7 DEF MoveInv
<1>7. CASE RemoveOriginal \/ RemoveRead
  <2>1. /\ pc["imap"] # "idle" /\ pc'["imap"] \in Removing /\ stage = "moveRemove"
        /\ \A mb \in Mailboxes : mb # box["imap"] => files'[mb] = files[mb]
        /\ UNCHANGED <<box, view, stage, job, got, copyUid>>
    <3>1. CASE RemoveOriginal
      BY <3>1, <1>a DEF RemoveOriginal, ScannedFor, Removing
    <3>2. CASE RemoveRead
      BY <3>2, <1>a DEF RemoveRead, Removing, MoveInv, StageSteps
    <3> QED
      BY <1>7, <3>1, <3>2
  <2>2. box["imap"] = job.box /\ job.box # job.dst
    BY <2>1 DEF MoveInv, StageSteps, Places, Moving
  <2>3. UNCHANGED <<KeptFlags, Listed(job.dst)>>
    BY <1>a, <2>1, <2>2 DEF KeptFlags, Listed
  <2>4. CopyListed'
    BY <2>1, <2>3 DEF MoveInv, CopyListed, Doing
  <2>5. OriginalListed' /\ HeldCopies' /\ TargetsShown'
    BY <2>1 DEF OriginalListed, HeldCopies, TargetsShown, Removing, ImapIn
  <2> QED
    BY <1>b, <2>4, <2>5 DEF MoveInv
<1>8. CASE ListDone \/ NoSuchMessage \/ FlagKeyError \/ RemoveWrite \/ ExpungeWrite
  <2>1. pc'["imap"] = "idle"
    BY <1>8, <1>a DEF ListDone, NoSuchMessage, FlagKeyError, RemoveWrite, ExpungeWrite
  <2> QED
    BY <1>2, <2>1
<1>9. CASE ExpungeRead \/ ExpungeRemove
  <2>1. stage' \notin Moving
    BY <1>9, <1>a DEF ExpungeRead, ExpungeRemove, ScannedFor, Moving, MoveInv, StageSteps
  <2> QED
    BY <1>2, <2>1
<1>10. GetMessage => stage' = "moveCopy" \/ pc'["imap"] = "idle"
  BY <1>a DEF GetMessage
<1> QED
  BY <1>1, <1>2, <1>3, <1>4, <1>5, <1>6, <1>7, <1>8, <1>9, <1>10 DEF ImapStep

\* A new data directory satisfies the invariant on moves.
LEMMA InitMoveInv == Init => MoveInv
<1> SUFFICES ASSUME Init PROVE MoveInv
  OBVIOUS
<1>1. pc["imap"] = "idle"
  BY DEF Init, Procs
<1> QED
  BY <1>1, InitUidInv, InitFilesInv DEF MoveInv, StageSteps, Places, OriginalListed, HeldCopies,
     CopyListed, TargetsShown, Doing, Delivering, Reflagging, Removing, ImapIn

\* Every step of either process preserves the invariant on moves.
LEMMA NextMoveInv == MoveInv /\ [Next]_vars => MoveInv'
<1> SUFFICES ASSUME MoveInv, [Next]_vars PROVE MoveInv'
  OBVIOUS
<1> USE DEF disk, imapVars, history, vars
<1>a. UidInv' /\ FilesInv'
  BY NextUidInv, NextFilesInv DEF MoveInv
<1>b. /\ pc \in [Procs -> Steps] /\ box \in [Procs -> Mailboxes] /\ held \in [Procs -> File]
      /\ uidlist \in [Mailboxes -> Uidlist] /\ "imap" \in Procs /\ "smtp" \in Procs
  BY DEF MoveInv, UidInv, TypeInv, TypeOK, Procs
<1>1. ASSUME ~ImapStep, ~Removal,
             UNCHANGED <<pc["imap"], box["imap"], held["imap"], imapVars>>,
             \A mb \in PrivateBoxes : UNCHANGED uidlist[mb]
      PROVE  MoveInv'
  BY <1>1, <1>a, MoveElsewhere
<1>2. CASE ImapStep
  BY <1>2, <1>a, ImapMoveInv
<1>3. ASSUME ~ImapStep, ~Removal, NEW mb, StartDeliver(mb) \/ ManualDrop(mb) PROVE MoveInv'
  <2>1. /\ UNCHANGED <<pc["imap"], box["imap"], held["imap"], imapVars>>
        /\ UNCHANGED uidlist
    BY <1>3, <1>b DEF StartDeliver, ManualDrop
  <2> QED
    BY <1>1, <1>3, <2>1
<1>4. ASSUME NEW s \in Starts, NEW mb, NEW dst, NEW uid, NEW arg, StartImap(s, mb, dst, uid, arg)
      PROVE  MoveInv'
  <2>1. /\ pc'["imap"] = "ensure" /\ stage' = s /\ s \notin Moving /\ box'["imap"] = mb
        /\ job'.box = mb
    BY <1>4, <1>b DEF StartImap, Starts, Moving
  <2>2. StageSteps' /\ Places'
    BY <2>1 DEF StageSteps, Places, Doing, Delivering, Reflagging, Removing, Moving
  <2> QED
    BY <1>a, <2>1, <2>2, NotMoving
<1>5. ASSUME ~Removal, NEW p \in Procs, SharedStep(p) \/ Fail(p) PROVE MoveInv'
  <2>1. CASE p = "imap" /\ SharedStep(p)
    BY <1>a, <2>1, SharedMoveInv
  <2>2. CASE p = "imap" /\ Fail(p)
    <3>1. pc'["imap"] = "idle"
      BY <1>b, <2>2 DEF Fail
    <3>2. StageSteps' /\ Places'
      BY <1>5, SharedPlaces DEF MoveInv, UidInv
    <3> QED
      BY <1>a, <3>1, <3>2, NotMoving
  <2>3. CASE p = "smtp"
    <3>1. /\ UNCHANGED <<pc["imap"], box["imap"], held["imap"], imapVars>>
          /\ pc["smtp"] # pc'["smtp"]
      BY <1>5, <1>b, <2>3 DEF SharedStep, EnsureCheck, EnsureCreate, DeliverTmp, DeliverRename,
            DeliverRead, DeliverWrite, Fail, AfterEnsure, Procs
    <3>2. ~ImapStep
      <4>1. ImapStep => pc["smtp"] = pc'["smtp"]
        BY <1>b DEF ImapStep, ScanRead, ScanList, ScanWrite, ListDone, NoSuchMessage, GetMessage,
              FlagRename, FlagRead, FlagKeyError, FlagWrite, RemoveOriginal, RemoveRead, RemoveWrite,
              ExpungeRead, ExpungeRemove, ExpungeWrite
      <4> QED
        BY <3>1, <4>1
    <3>3. \A mb \in PrivateBoxes : mb \in Mailboxes /\ mb # box["smtp"]
      <4>1. pc["smtp"] # "idle"
        BY <1>5, <2>3 DEF SharedStep, EnsureCheck, EnsureCreate, DeliverTmp, DeliverRename,
              DeliverRead, DeliverWrite, Fail
      <4> QED
        BY <4>1 DEF MoveInv, UidInv, SmtpStays, PrivateBoxes
    <3>4. \A mb \in PrivateBoxes : UNCHANGED uidlist[mb]
      <4>1. UNCHANGED uidlist \/ \E new : uidlist' = [uidlist EXCEPT ![box["smtp"]] = new]
        BY <1>5, <2>3 DEF SharedStep, EnsureCheck, EnsureCreate, DeliverTmp, DeliverRename,
              DeliverRead, DeliverWrite, Fail
      <4> QED
        BY <1>b, <3>3, <4>1
    <3> QED
      BY <1>1, <1>5, <3>1, <3>2, <3>4
  <2> QED
    BY <1>5, <2>1, <2>2, <2>3 DEF Procs
<1>6. CASE (UNCHANGED vars \/ DeliverRaises) /\ ~ImapStep /\ ~Removal
  <2>1. UNCHANGED <<pc["imap"], box["imap"], held["imap"], imapVars>> /\ UNCHANGED uidlist
    BY <1>b, <1>6 DEF DeliverRaises
  <2> QED
    BY <1>1, <1>6, <2>1
<1>7. CASE Removal
  <2>1. /\ pc'["imap"] = "idle" \/ (pc'["imap"] = "rmtree" /\ stage' = "delete")
    BY <1>7, RemovalLoses DEF OnlyLoses, MoveInv, StageSteps, UidInv, TypeInv
  <2>2. StageSteps' /\ Places'
    BY <2>1 DEF StageSteps, Places, Doing, Delivering, Reflagging, Removing
  <2> QED
    BY <1>a, <2>1, <2>2, NotMoving DEF Moving
<1> QED
  BY NextCases, <1>2, <1>3, <1>4, <1>5, <1>6, <1>7 DEF SharedStep

\* The invariant holds in every reachable state.
LEMMA MoveInvariant == Spec => []MoveInv
BY InitMoveInv, NextMoveInv, PTL DEF Spec

(***************************************************************************)
(* What follows.                                                           *)
(***************************************************************************)

\* In a private mailbox set_flags finds its entry after the rename, and
\* move_message, once it has copied, finds both messages under the UIDs it
\* holds: no KeyError and no NoSuchMessageError, for any interleaving with the
\* SMTP server's deliveries.
THEOREM UpdatesComplete == Spec => []PrivateUpdatesComplete
<1>1. MoveInv => PrivateUpdatesComplete
  <2> SUFFICES ASSUME MoveInv, box["imap"] \in PrivateBoxes
               PROVE  /\ pc["imap"] = "flagWrite" => HasKey(data["imap"].map, held["imap"])
                      /\ ScannedFor({"moveFlag", "moveRemove"}) =>
                            \E e \in Targets : e.file.origin = got.origin
    BY DEF PrivateUpdatesComplete
  <2>1. pc["imap"] = "flagWrite" => HasKey(data["imap"].map, held["imap"])
    BY DEF MoveInv, UidInv, CopyCurrent, HeldListed, ImapIn, HasKey
  <2>2. ScannedFor({"moveFlag"}) => \E e \in Targets : e.file.origin = got.origin
    BY DEF MoveInv, TargetsShown, ImapIn, ScannedFor, Targets, TargetUid
  <2>3. ScannedFor({"moveRemove"}) => \E e \in Targets : e.file.origin = got.origin
    BY DEF MoveInv, TargetsShown, ImapIn, ScannedFor, Targets, TargetUid, Original
  <2> QED
    BY <2>1, <2>2, <2>3 DEF ScannedFor
<1> QED
  BY <1>1, MoveInvariant, PTL

\* The step that takes a file out of a private mailbox.
LEMMA Leaving ==
    ASSUME MoveInv, [Next]_vars, NEW mb \in PrivateBoxes, NEW f \in Listed(mb), f \notin Listed(mb)'
    PROVE  \/ \E g \in Listed(mb)' : g.base = f.base /\ g.origin = f.origin
           \/ Expunged(f)
           \/ Copied(mb, f)
           \/ Removal /\ f.origin \in expunged'
<1>a. /\ files \in [Mailboxes -> SUBSET File] /\ box["imap"] \in Mailboxes /\ mb \in Mailboxes
      /\ view \in SUBSET Entry /\ TypeOK /\ job.dst \in Mailboxes
  BY DEF MoveInv, UidInv, TypeInv, TypeOK, Procs, PrivateBoxes, Job
<1>b. f \in files[mb] /\ f.dir # "tmp" /\ f \in File
  BY <1>a DEF Listed
<1>0. CASE Removal
  <2>1. PICK b \in Mailboxes : OnlyLoses(b)
    BY <1>a, <1>0, RemovalLoses
  <2>2. f \notin files'[mb]
    BY <1>b DEF Listed
  <2> QED
    BY <1>a, <1>b, <1>0, <2>1, <2>2 DEF OnlyLoses
<1> SUFFICES ASSUME ~Removal
             PROVE  \/ \E g \in Listed(mb)' : g.base = f.base /\ g.origin = f.origin
                    \/ Expunged(f)
                    \/ Copied(mb, f)
  BY <1>0
<1>1. FlagRename \/ RemoveOriginal \/ ExpungeRemove
  BY <1>a, ListedGrows DEF MoveInv
<1>2. PICK file : /\ \/ files' = [files EXCEPT ![box["imap"]] = (@ \ {file}) \union {Reflagged(file)}]
                     \/ files' = [files EXCEPT ![box["imap"]] = @ \ {file}]
                  /\ \/ FlagRename /\ Reflagged(file) \in files'[box["imap"]]
                     \/ RemoveOriginal /\ \E e \in Targets : e.file = file
                     \/ /\ ExpungeRemove /\ Deleted \in file.flags /\ file.origin \in expunged'
  <2>1. CASE FlagRename
    BY <1>a, <2>1 DEF FlagRename
  <2>2. CASE RemoveOriginal
    BY <2>2 DEF RemoveOriginal
  <2>3. CASE ExpungeRemove
    BY <2>3 DEF ExpungeRemove, Marked
  <2> QED
    BY <1>1, <2>1, <2>2, <2>3
<1>3. mb = box["imap"] /\ f = file
  <2>1. f \notin files'[mb]
    BY <1>b DEF Listed
  <2> QED
    BY <1>a, <1>b, <1>2, <2>1
<1>4. CASE FlagRename /\ Reflagged(file) \in files'[box["imap"]]
  <2>1. /\ Reflagged(file).base = f.base /\ Reflagged(file).origin = f.origin
        /\ Reflagged(file).dir = "cur"
    BY <1>b, <1>3 DEF Reflagged, File
  <2> QED
    BY <1>3, <1>4, <2>1 DEF Listed
<1>5. CASE ExpungeRemove /\ Deleted \in file.flags /\ file.origin \in expunged'
  BY <1>3, <1>5 DEF Expunged
<1>6. CASE RemoveOriginal /\ \E e \in Targets : e.file = file
  <2>1. PICK e \in Targets : e.file = file
    BY <1>6
  <2>2. pc["imap"] = "scanned" /\ stage = "moveRemove" /\ Doing({"moveRemove"})
    BY <1>6 DEF RemoveOriginal, ScannedFor, Doing
  <2>3. box["imap"] = job.box /\ job.box # job.dst
    BY <2>2 DEF MoveInv, Places, Moving
  <2>4. e \in ImapList.map /\ Original \in ImapList.map /\ e.uid = Original.uid
    BY <1>3, <2>1, <2>2, <2>3 DEF MoveInv, UidInv, ViewCurrent, ImapIn, Targets, TargetUid,
       OriginalListed, Doing, Moving, Removing, Original, ImapList
  <2>5. e = Original
    BY <1>3, <2>4 DEF MoveInv, UidInv, ListsSound, Sound, ImapList
  <2>6. f = got
    BY <1>3, <2>1, <2>5 DEF Original
  <2>7. PICK dst \in Mailboxes : dst = job.dst
    BY <1>a
  <2>8. PICK g \in Listed(dst) : g.origin = got.origin /\ (dst \in PrivateBoxes => g.flags = KeptFlags)
    BY <2>2, <2>7 DEF MoveInv, CopyListed
  <2>9. g \in Listed(dst)'
    <3>1. files'[dst] = files[dst]
      BY <1>6, <1>a, <2>3, <2>7 DEF RemoveOriginal
    <3> QED
      BY <3>1 DEF Listed
  <2>10. dst # mb
    BY <1>3, <2>3, <2>7
  <2> QED
    BY <2>6, <2>7, <2>8, <2>9, <2>10 DEF Copied, KeptFlags
<1> QED
  BY <1>2, <1>4, <1>5, <1>6

\* shutil.rmtree works on a directory that is no longer whole, and makedirs in
\* the other process does not make it whole while it does.
Emptied == pc["imap"] = "rmtree" => tree[box["imap"]] = "part"

\* A step of DELETE or RENAME that takes files away leaves no whole mailbox.
LEMMA RemovalEmpties ==
    ASSUME TypeOK, Emptied, Removal, NEW mb \in Mailboxes, files'[mb] # files[mb]
    PROVE  tree'[mb] # "whole"
<1> USE DEF disk, imapVars, history
<1>1. tree \in [Mailboxes -> {"none", "part", "whole"}] /\ files \in [Mailboxes -> SUBSET File]
  BY DEF TypeOK
<1>2. \/ \E b \in Mailboxes : Rename(b)
      \/ RmtreeFile
  BY DEF Removal, StartDelete, RmtreeUidlist, RmtreeDone, RmtreeRaises
<1> QED
  BY <1>1, <1>2 DEF Rename, RmtreeFile, Emptied

\* No step makes the directory whole that rmtree empties.
LEMMA NextEmptied == TypeInv /\ Emptied /\ [Next]_vars => Emptied'
<1> SUFFICES ASSUME TypeInv, Emptied, [Next]_vars PROVE Emptied'
  OBVIOUS
<1> USE DEF disk, imapVars, history, vars
<1>a. /\ pc \in [Procs -> Steps] /\ box \in [Procs -> Mailboxes] /\ box["imap"] \in Mailboxes
      /\ tree \in [Mailboxes -> {"none", "part", "whole"}] /\ "imap" \in Procs /\ "smtp" \in Procs
  BY DEF TypeInv, TypeOK, Procs
<1>1. ASSUME UNCHANGED <<tree, pc["imap"], box["imap"]>> PROVE Emptied'
  BY <1>1 DEF Emptied
<1>2. ASSUME pc'["imap"] # "rmtree" PROVE Emptied'
  BY <1>2 DEF Emptied
<1>3. ASSUME NEW p \in Procs, EnsureCheck(p) PROVE Emptied'
  <2>1. CASE p = "imap"
    BY <1>2, <1>3, <1>a, <2>1 DEF EnsureCheck, AfterEnsure
  <2>2. CASE p # "imap"
    BY <1>3, <1>a, <2>2 DEF EnsureCheck, Emptied, Emptying
  <2> QED
    BY <2>1, <2>2
<1>4. ASSUME NEW p \in Procs, \/ EnsureCreate(p) \/ DeliverTmp(p) \/ DeliverRename(p)
                              \/ DeliverRead(p) \/ DeliverWrite(p) \/ Fail(p)
      PROVE  Emptied'
  <2>1. CASE p = "imap"
    BY <1>2, <1>4, <1>a, <2>1 DEF EnsureCreate, DeliverTmp, DeliverRename, DeliverRead,
       DeliverWrite, Fail, AfterEnsure
  <2>2. CASE p = "smtp"
    BY <1>1, <1>4, <1>a, <2>2 DEF EnsureCreate, DeliverTmp, DeliverRename, DeliverRead,
       DeliverWrite, Fail
  <2> QED
    BY <2>1, <2>2 DEF Procs
<1>5. CASE ImapStep
  <2>1. pc'["imap"] # "rmtree"
    BY <1>5, <1>a DEF ImapStep, ScanRead, ScanList, ScanWrite, ListDone, NoSuchMessage, GetMessage,
       FlagRename, FlagRead, FlagKeyError, FlagWrite, RemoveOriginal, RemoveRead, RemoveWrite,
       ExpungeRead, ExpungeRemove, ExpungeWrite
  <2> QED
    BY <1>2, <2>1
<1>6. ASSUME NEW mb, StartDeliver(mb) \/ ManualDrop(mb) PROVE Emptied'
  BY <1>1, <1>6, <1>a DEF StartDeliver, ManualDrop
<1>7. ASSUME NEW s, NEW mb, NEW dst, NEW uid, NEW arg, StartImap(s, mb, dst, uid, arg)
      PROVE  Emptied'
  BY <1>2, <1>7, <1>a DEF StartImap
<1>8. CASE Removal
  <2>1. CASE RmtreeFile \/ RmtreeUidlist
    BY <1>1, <2>1 DEF RmtreeFile, RmtreeUidlist
  <2>2. CASE RmtreeDone \/ RmtreeRaises
    BY <1>2, <1>a, <2>2 DEF RmtreeDone, RmtreeRaises
  <2>3. ASSUME NEW mb \in Mailboxes, StartDelete(mb) PROVE Emptied'
    BY <1>a, <2>3 DEF StartDelete, Emptied
  <2>4. ASSUME NEW mb \in Mailboxes, Rename(mb) PROVE Emptied'
    BY <1>2, <2>4 DEF Rename, CanRemove
  <2> QED
    BY <1>8, <2>1, <2>2, <2>3, <2>4 DEF Removal
<1>9. CASE DeliverRaises \/ UNCHANGED vars
  BY <1>1, <1>9, <1>a DEF DeliverRaises
<1> QED
  BY NextCases, <1>3, <1>4, <1>5, <1>6, <1>7, <1>8, <1>9

\* Nothing is emptied in a new data directory, nor made whole meanwhile later.
LEMMA EmptiedInvariant == Spec => []Emptied
<1>1. Init => Emptied
  BY DEF Init, Emptied, Procs
<1>2. MoveInv => TypeInv
  BY DEF MoveInv, UidInv
<1> QED
  BY <1>1, <1>2, NextEmptied, MoveInvariant, PTL DEF Spec

\* A file leaves a private mailbox only renamed within it, expunged while
\* \Deleted, moved once its copy is in the destination with its flags, or with
\* the whole mailbox under DELETE or RENAME.
THEOREM FilesLeaveSafely == Spec => LeavesSafely
<1>1. MoveInv /\ Emptied /\ [Next]_vars =>
        [\A mb \in PrivateBoxes : \A f \in Listed(mb) \ Listed(mb)' :
            Replaced(mb, f) \/ Expunged(f) \/ Copied(mb, f) \/ tree'[mb] # "whole"]_vars
  <2> SUFFICES ASSUME MoveInv, Emptied, [Next]_vars, NEW mb \in PrivateBoxes,
                      NEW f \in Listed(mb), f \notin Listed(mb)'
               PROVE  Replaced(mb, f) \/ Expunged(f) \/ Copied(mb, f) \/ tree'[mb] # "whole"
    OBVIOUS
  <2>1. CASE Removal
    <3>1. mb \in Mailboxes /\ files'[mb] # files[mb] /\ TypeOK
      BY DEF Listed, PrivateBoxes, MoveInv, UidInv, TypeInv
    <3> QED
      BY <2>1, <3>1, RemovalEmpties
  <2>2. CASE ~Removal
    BY <2>2, Leaving DEF Replaced
  <2> QED
    BY <2>1, <2>2
<1> QED
  BY <1>1, MoveInvariant, EmptiedInvariant, PTL DEF Spec, LeavesSafely

\* What reaches new/ is listed from then on, and what EXPUNGE, DELETE and RENAME
\* removed stays recorded.
LEMMA Accepting ==
    ASSUME FilesInv, [Next]_vars
    PROVE  /\ \A m \in accepted' : m \in accepted \/ \E mb \in Mailboxes : \E f \in Listed(mb)' : f.origin = m
           /\ expunged \subseteq expunged'
<1> USE DEF disk, imapVars, history, vars
<1>a. /\ files \in [Mailboxes -> SUBSET File] /\ box \in [Procs -> Mailboxes] /\ held \in [Procs -> File]
  BY DEF FilesInv, TypeInv, TypeOK
<1>1. CASE UNCHANGED <<accepted, expunged>>
  BY <1>1
<1>2. ASSUME NEW p \in Procs, DeliverRename(p)
      PROVE  /\ accepted' = accepted \union {held[p].origin} /\ expunged' = expunged
             /\ \E mb \in Mailboxes : \E f \in Listed(mb)' : f.origin = held[p].origin
  <2>1. \E mb \in Mailboxes : \E f \in Listed(mb)' : f.origin = held[p].origin
    BY <1>2, DeliveryListed DEF Added
  <2> QED
    BY <1>2, <2>1 DEF DeliverRename
<1>3. ASSUME NEW mb \in DropBoxes, ManualDrop(mb)
      PROVE  /\ accepted' = accepted \union {nextBase} /\ expunged' = expunged
             /\ \E m \in Mailboxes : \E f \in Listed(m)' : f.origin = nextBase
  <2>1. \E m \in Mailboxes : \E f \in Listed(m)' : f.origin = nextBase
    BY <1>3, DropListed DEF Added
  <2> QED
    BY <1>3, <2>1 DEF ManualDrop
<1>4. ASSUME NEW p \in Procs,
             EnsureCheck(p) \/ EnsureCreate(p) \/ DeliverTmp(p) \/ DeliverRead(p) \/ DeliverWrite(p) \/ Fail(p)
      PROVE  UNCHANGED <<accepted, expunged>>
  BY <1>4 DEF EnsureCheck, EnsureCreate, DeliverTmp, DeliverRead, DeliverWrite, Fail
<1>5. CASE ImapStep
  <2>1. accepted' = accepted
    BY <1>5 DEF ImapStep, ScanRead, ScanList, ScanWrite, ListDone, NoSuchMessage, GetMessage,
          FlagRename, FlagRead, FlagKeyError, FlagWrite, RemoveOriginal, RemoveRead, RemoveWrite,
          ExpungeRead, ExpungeRemove, ExpungeWrite
  <2>2. expunged \subseteq expunged'
    BY <1>5 DEF ImapStep, ScanRead, ScanList, ScanWrite, ListDone, NoSuchMessage, GetMessage,
          FlagRename, FlagRead, FlagKeyError, FlagWrite, RemoveOriginal, RemoveRead, RemoveWrite,
          ExpungeRead, ExpungeRemove, ExpungeWrite
  <2> QED
    BY <2>1, <2>2
<1>6. ASSUME NEW mb, StartDeliver(mb) PROVE UNCHANGED <<accepted, expunged>>
  BY <1>6 DEF StartDeliver
<1>7. ASSUME NEW s, NEW mb, NEW dst, NEW uid, NEW arg, StartImap(s, mb, dst, uid, arg)
      PROVE  UNCHANGED <<accepted, expunged>>
  BY <1>7 DEF StartImap
<1>8. CASE Removal
  BY <1>8, RemovalLoses DEF OnlyLoses, FilesInv, TypeInv
<1>9. CASE DeliverRaises
  BY <1>1, <1>9 DEF DeliverRaises
<1> QED
  BY NextCases, <1>1, <1>2, <1>3, <1>4, <1>5, <1>6, <1>7, <1>8, <1>9

\* Where no SMTP server delivers, each message that reached new/ is in some
\* mailbox until EXPUNGE removes it, or DELETE or RENAME takes the mailbox away,
\* whichever step of a MOVE, a STORE or a delivery is the last one before an
\* exception or a crash.
THEOREM MessagesKept ==
    ASSUME SmtpBoxes = {}
    PROVE  Spec => []NoMessageLost
<1>1. Init => NoMessageLost
  BY DEF Init, NoMessageLost
<1>2. MoveInv /\ NoMessageLost /\ [Next]_vars => NoMessageLost'
  <2> SUFFICES ASSUME MoveInv, NoMessageLost, [Next]_vars, NEW m \in accepted', m \notin expunged'
               PROVE  \E mb \in Mailboxes : \E f \in Listed(mb)' : f.origin = m
    BY DEF NoMessageLost
  <2>1. CASE m \notin accepted
    BY <2>1, Accepting DEF MoveInv
  <2>2. CASE m \in accepted
    <3>1. m \notin expunged
      BY Accepting DEF MoveInv
    <3>2. PICK mb \in Mailboxes : \E f \in Listed(mb) : f.origin = m
      BY <2>2, <3>1 DEF NoMessageLost
    <3>3. PICK f \in Listed(mb) : f.origin = m
      BY <3>2
    <3>4. mb \in PrivateBoxes
      BY DEF PrivateBoxes
    <3>5. CASE f \in Listed(mb)'
      BY <3>3, <3>5
    <3>6. CASE \E g \in Listed(mb)' : g.base = f.base /\ g.origin = f.origin
      BY <3>3, <3>6
    <3>7. CASE Expunged(f)
      BY <3>3, <3>7 DEF Expunged
    <3>8. CASE Copied(mb, f)
      BY <3>3, <3>8 DEF Copied
    <3>9. CASE f.origin \in expunged'
      BY <3>3, <3>9
    <3> QED
      BY <3>4, <3>5, <3>6, <3>7, <3>8, <3>9, Leaving
  <2> QED
    BY <2>1, <2>2
<1> QED
  BY <1>1, <1>2, MoveInvariant, PTL DEF Spec
===============================================================================
