---------------------------- MODULE MaildirProofs ----------------------------
(***************************************************************************)
(* Proofs about Maildir for every set of mailboxes and flags, every number *)
(* of files and every number of failures.                                  *)
(*                                                                         *)
(* TypeOK needs that a directory listing is finite.  PrivateUidNeverReused *)
(* needs what a process knows between the read and the rewrite of          *)
(* uidlist.json: in a private mailbox its copy never falls behind the      *)
(* file, and every UID ever shown lies below the next_uid on disk.         *)
(***************************************************************************)
EXTENDS Maildir, FiniteSetTheorems, TLAPS

USE ConstantsAssumption DEF Modes

FilesFinite == \A mb \in Mailboxes : IsFiniteSet(files[mb])

TypeInv == TypeOK /\ FilesFinite

(***************************************************************************)
(* The inductive invariant behind PrivateUidNeverReused.                   *)
(***************************************************************************)

\* UIDs of a uidlist lie below its next_uid and none is given twice.
Sound(list) ==
    /\ \A e \in list.map : e.uid < list.next
    /\ \A e, f \in list.map : e.uid = f.uid => e = f

\* What a caller saw is numbered below next_uid, and an entry under the same
\* UID is about the same message.
AgreesWithSeen(mb, list) ==
    \A s \in seen : s.box = mb =>
        /\ s.uid < list.next
        /\ \A e \in list.map : e.uid = s.uid => e.file.base = s.base

\* The uidlist a scan is about to write extends the one on disk.
Extends(new, old) ==
    /\ old.map \subseteq new.map
    /\ old.next <= new.next

ImapIn(steps) == pc["imap"] \in steps /\ box["imap"] \in PrivateBoxes

ImapList == uidlist[box["imap"]]

ListsSound == \A mb \in PrivateBoxes : Sound(uidlist[mb]) /\ AgreesWithSeen(mb, uidlist[mb])

CreateAbsent == ImapIn({"create"}) => ImapList.next = 0

CopyCurrent ==
    /\ ImapIn({"scanList", "deliverWrite", "flagWrite", "removeWrite"}) =>
            data["imap"] = ImapList
    /\ ImapIn({"scanWrite"}) =>
            /\ Extends(data["imap"], ImapList)
            /\ Sound(data["imap"])
            /\ AgreesWithSeen(box["imap"], data["imap"])
            /\ view \subseteq data["imap"].map
    /\ ImapIn({"expungeRemove"}) =>
            /\ data["imap"].next = ImapList.next
            /\ data["imap"].map \subseteq ImapList.map

ViewCurrent == ImapIn({"scanned"}) => view \subseteq ImapList.map

HeldListed ==
    ImapIn({"flagRead", "flagWrite"}) =>
        [file |-> held["imap"], uid |-> TargetUid] \in ImapList.map

SmtpStays == pc["smtp"] # "idle" => box["smtp"] \in SmtpBoxes

UidInv ==
    /\ TypeInv
    /\ SmtpStays
    /\ PrivateUidNeverReused
    /\ ListsSound
    /\ CreateAbsent
    /\ CopyCurrent
    /\ ViewCurrent
    /\ HeldListed

(***************************************************************************)
(* Types.                                                                  *)
(***************************************************************************)

\* Del and Put keep a map a set of entries.
LEMMA PutType ==
    ASSUME NEW map \in SUBSET Entry, NEW file \in File, NEW uid \in Nat
    PROVE  /\ Del(map, file) \in SUBSET Entry
           /\ Put(map, file, uid) \in SUBSET Entry
BY DEF Del, Put, Entry

\* Removing a file and adding one keep a directory finite.
LEMMA SwapFinite ==
    ASSUME NEW S, IsFiniteSet(S), NEW x, NEW y
    PROVE  IsFiniteSet(S \ {x}) /\ IsFiniteSet((S \ {x}) \union {y})
<1>1. IsFiniteSet(S \ {x})
  BY FS_Subset
<1> QED
  BY <1>1, FS_AddElement

\* The UIDs a scan gives to unknown files are natural numbers from next on,
\* below the new next, and different from each other.
LEMMA NumberingsType ==
    ASSUME NEW unknown, IsFiniteSet(unknown), NEW next \in Nat,
           NEW num \in Numberings(unknown, next)
    PROVE  /\ Cardinality(unknown) \in Nat
           /\ \A f \in unknown :
                /\ num[f] \in Nat
                /\ next <= num[f]
                /\ num[f] < next + Cardinality(unknown)
           /\ \A f, g \in unknown : num[f] = num[g] => f = g
<1>1. Cardinality(unknown) \in Nat
  BY FS_CardinalityType
<1>2. num \in [unknown -> next .. (next + Cardinality(unknown) - 1)]
  BY DEF Numberings
<1>3. \A f \in unknown : num[f] \in next .. (next + Cardinality(unknown) - 1)
  BY <1>2
<1>4. \A f, g \in unknown : num[f] = num[g] => f = g
  BY DEF Numberings
<1> QED
  BY <1>1, <1>3, <1>4

\* A new data directory, with both processes idle, is well typed.
LEMMA InitTypeInv == Init => TypeInv
<1> SUFFICES ASSUME Init PROVE TypeInv
  OBVIOUS
<1>1. SomeBox \in Mailboxes
  BY DEF SomeBox
<1>2. NoFile \in File /\ NoUidlist \in Uidlist
  BY DEF NoFile, File, NoUidlist, Uidlist
<1>3. NoJob \in Job
  BY <1>1 DEF NoJob, Job
<1>4. TypeOK
  BY <1>1, <1>2, <1>3 DEF Init, TypeOK, Stages, Steps
<1>5. FilesFinite
  BY FS_EmptySet DEF Init, FilesFinite
<1> QED
  BY <1>4, <1>5 DEF TypeInv

\* The stages an operation of the IMAP process begins with.
Starts == {"create", "list", "store", "expunge", "moveGet"}

\* Next, taken apart once for every proof by cases.
LEMMA NextCases ==
    ASSUME [Next]_vars
    PROVE  \/ \E mb \in SmtpBoxes : StartDeliver(mb)
           \/ \E s \in Starts, mb, dst \in Mailboxes, uid \in Nat, arg \in [mode : Modes, flags : SUBSET Flags] :
                 StartImap(s, mb, dst, uid, arg)
           \/ \E p \in Procs : \/ EnsureCheck(p) \/ EnsureCreate(p) \/ DeliverTmp(p)
                              \/ DeliverRename(p) \/ DeliverRead(p) \/ DeliverWrite(p) \/ Fail(p)
           \/ ImapStep
           \/ \E mb \in DropBoxes : ManualDrop(mb)
           \/ Removal \/ DeliverRaises
           \/ UNCHANGED vars
<1>1. CASE UNCHANGED vars
  BY <1>1
<1>2. CASE SmtpNext
  BY <1>2 DEF SmtpNext
<1>3. CASE ImapStart
  <2>1. PICK mb \in Mailboxes :
          \/ StartCreate(mb) \/ StartList(mb) \/ StartExpunge(mb)
          \/ \E uid \in Uids : \/ \E arg \in StoreArgs : StartStore(mb, uid, arg)
                               \/ \E dst \in Mailboxes : StartMove(mb, dst, uid)
    BY <1>3 DEF ImapStart
  <2>2. NoArg \in [mode : Modes, flags : SUBSET Flags] /\ 0 \in Nat
    BY DEF NoArg
  <2>3. CASE StartCreate(mb) \/ StartList(mb) \/ StartExpunge(mb)
    BY <2>2, <2>3, Zenon DEF StartCreate, StartList, StartExpunge, Starts
  <2>4. CASE \E uid \in Uids : \E arg \in StoreArgs : StartStore(mb, uid, arg)
    BY <2>4, Zenon DEF StartStore, Starts
  <2>5. CASE \E uid \in Uids : \E dst \in Mailboxes : StartMove(mb, dst, uid)
    BY <2>2, <2>5, Zenon DEF StartMove, Starts
  <2> QED
    BY <2>1, <2>3, <2>4, <2>5
<1>4. CASE \E p \in Procs : SharedStep(p) \/ Fail(p)
  BY <1>4 DEF SharedStep
<1> QED
  BY <1>1, <1>2, <1>3, <1>4 DEF Next

\* The steps of the IMAP process that follow a scan keep the types.
LEMMA ImapTypeInv == TypeInv /\ ImapStep => TypeInv'
<1> SUFFICES ASSUME TypeInv, ImapStep PROVE TypeInv'
  OBVIOUS
<1> USE DEF TypeInv, disk, imapVars, history, vars, Procs
<1>a. /\ data["imap"].next \in Nat /\ data["imap"].map \in SUBSET Entry
      /\ held["imap"] \in File /\ box["imap"] \in Mailboxes
  BY DEF TypeOK, Uidlist
<1>b. Listed(box["imap"]) \subseteq files[box["imap"]] /\ files[box["imap"]] \subseteq File
  BY <1>a DEF Listed, TypeOK
<1>c. \A e \in Entry : e.file \in File /\ e.uid \in Nat
  BY DEF Entry
<1>d. \A S : S \subseteq Entry =>
        HandedAll(box["imap"], S) \subseteq [box : Mailboxes, uid : Nat, base : Nat]
  BY <1>a, <1>c DEF HandedAll, Handed, File
<1>e. \A f \in File : Reflagged(f) \in File
  <2>1. KeptFlags \in SUBSET Flags
    BY DEF KeptFlags, TypeOK, File
  <2>2. job.flags \in SUBSET Flags /\ job.mode \in {"replace", "add", "remove"}
    BY DEF TypeOK, Job
  <2>3. \A old \in SUBSET Flags : NewFlags(old) \in SUBSET Flags
    BY <2>1, <2>2 DEF NewFlags
  <2> QED
    BY <2>3 DEF Reflagged, File
<1>f. TargetUid \in Nat
  BY DEF TargetUid, TypeOK, Job
<1>g. job.box \in Mailboxes /\ job.dst \in Mailboxes
  BY DEF TypeOK, Job
<1>1. CASE ScanRead
  BY <1>1, <1>a DEF ScanRead, TypeOK, FilesFinite, Steps
<1>2. CASE ScanList
  <2> DEFINE unknown == {f \in Listed(box["imap"]) : ~HasKey(data["imap"].map, f)}
  <2>1. IsFiniteSet(unknown)
    BY <1>a, <1>b, FS_Subset DEF FilesFinite
  <2> DEFINE Map(num) == data["imap"].map \union {[file |-> f, uid |-> num[f]] : f \in unknown}
  <2>2. PICK num \in Numberings(unknown, data["imap"].next) :
          /\ data' = [data EXCEPT !["imap"] =
                [next |-> data["imap"].next + Cardinality(unknown), map |-> Map(num)]]
          /\ view' = Entries(Map(num), Listed(box["imap"]))
          /\ IF unknown # {}
             THEN pc' = [pc EXCEPT !["imap"] = "scanWrite"] /\ UNCHANGED seen
             ELSE /\ pc' = [pc EXCEPT !["imap"] = "scanned"]
                  /\ seen' = seen \union HandedAll(box["imap"], view')
    BY <1>2 DEF ScanList
  <2>3. Cardinality(unknown) \in Nat /\ \A f \in unknown : num[f] \in Nat
    BY <1>a, <2>1, NumberingsType
  <2>4. unknown \subseteq File
    BY <1>b
  <2>5. Map(num) \subseteq Entry
    BY <1>a, <2>3, <2>4 DEF Entry
  <2>6. view' \subseteq Entry
    BY <2>2, <2>5 DEF Entries
  <2>7. data' \in [Procs -> Uidlist]
    BY <1>a, <2>2, <2>3, <2>5 DEF TypeOK, Uidlist
  <2>8. /\ pc' \in [Procs -> Steps]
        /\ seen' \in SUBSET [box : Mailboxes, uid : Nat, base : Nat]
    BY <1>d, <2>2, <2>6 DEF TypeOK, Steps
  <2> HIDE DEF unknown, Map
  <2> QED
    BY <1>2, <2>6, <2>7, <2>8 DEF ScanList, TypeOK, FilesFinite
<1>3. CASE ScanWrite
  BY <1>3, <1>a, <1>d DEF ScanWrite, TypeOK, FilesFinite, Steps
<1>4. CASE ListDone
  BY <1>4 DEF ListDone, TypeOK, FilesFinite, Steps
<1>5. CASE NoSuchMessage
  BY <1>5 DEF NoSuchMessage, TypeOK, FilesFinite, Steps
<1>6. CASE GetMessage
  <2>1. got' \in File
    BY <1>6, <1>c DEF GetMessage, Targets, TypeOK
  <2> QED
    BY <1>6, <1>g, <2>1 DEF GetMessage, TypeOK, FilesFinite, Steps, Stages
<1>7. CASE FlagRename
  <2>1. PICK e \in Targets :
          /\ held' = [held EXCEPT !["imap"] = e.file]
          /\ files' = [files EXCEPT ![box["imap"]] = (@ \ {e.file}) \union {Reflagged(e.file)}]
    BY <1>7 DEF FlagRename
  <2>2. e.file \in File /\ Reflagged(e.file) \in File
    BY <1>c, <1>e DEF Targets, TypeOK
  <2>3. FilesFinite'
    BY <2>1, SwapFinite DEF FilesFinite, TypeOK
  <2> QED
    BY <1>7, <1>b, <2>1, <2>2, <2>3 DEF FlagRename, TypeOK, Steps
<1>8. CASE FlagRead
  BY <1>8, <1>a DEF FlagRead, TypeOK, FilesFinite, Steps
<1>9. CASE FlagKeyError
  BY <1>9 DEF FlagKeyError, TypeOK, FilesFinite, Steps
<1>10. CASE FlagWrite
  <2> DEFINE new == [next |-> data["imap"].next,
                     map |-> Put(Del(data["imap"].map, held["imap"]), Reflagged(held["imap"]), TargetUid)]
  <2>1. new \in Uidlist
    BY <1>a, <1>e, <1>f, PutType DEF Uidlist
  <2>2. uidlist' = [uidlist EXCEPT ![box["imap"]] = new]
    BY <1>10 DEF FlagWrite
  <2> HIDE DEF new
  <2> QED
    BY <1>10, <1>g, <2>1, <2>2 DEF FlagWrite, TypeOK, FilesFinite, Steps, Stages
<1>11. CASE RemoveOriginal
  <2>1. PICK e \in Targets :
          /\ held' = [held EXCEPT !["imap"] = e.file]
          /\ files' = [files EXCEPT ![box["imap"]] = @ \ {e.file}]
    BY <1>11 DEF RemoveOriginal
  <2>2. e.file \in File
    BY <1>c DEF Targets, TypeOK
  <2>3. FilesFinite'
    BY <2>1, SwapFinite DEF FilesFinite, TypeOK
  <2> QED
    BY <1>11, <1>b, <2>1, <2>2, <2>3 DEF RemoveOriginal, TypeOK, Steps
<1>12. CASE RemoveRead
  BY <1>12, <1>a DEF RemoveRead, TypeOK, FilesFinite, Steps
<1>13. CASE RemoveWrite
  <2>1. [next |-> data["imap"].next, map |-> Del(data["imap"].map, held["imap"])] \in Uidlist
    BY <1>a DEF Uidlist, Del
  <2> QED
    BY <1>13, <2>1 DEF RemoveWrite, TypeOK, FilesFinite, Steps
<1>14. CASE ExpungeRead
  BY <1>14, <1>a DEF ExpungeRead, TypeOK, FilesFinite, Steps
<1>15. CASE ExpungeRemove
  <2>1. PICK e \in Marked :
          /\ files' = [files EXCEPT ![box["imap"]] = @ \ {e.file}]
          /\ data' = [data EXCEPT !["imap"] =
                [next |-> data["imap"].next, map |-> Del(data["imap"].map, e.file)]]
          /\ view' = view \ {e}
          /\ expunged' = expunged \union {e.file.origin}
    BY <1>15 DEF ExpungeRemove
  <2>2. e.file \in File /\ e.file.origin \in Nat
    BY <1>c DEF Marked, TypeOK, File
  <2>3. [next |-> data["imap"].next, map |-> Del(data["imap"].map, e.file)] \in Uidlist
    BY <1>a DEF Uidlist, Del
  <2>4. FilesFinite'
    BY <2>1, SwapFinite DEF FilesFinite, TypeOK
  <2> QED
    BY <1>15, <1>b, <2>1, <2>2, <2>3, <2>4 DEF ExpungeRemove, TypeOK
<1>16. CASE ExpungeWrite
  BY <1>16, <1>a DEF ExpungeWrite, TypeOK, FilesFinite, Steps
<1> QED
  BY <1>1, <1>2, <1>3, <1>4, <1>5, <1>6, <1>7, <1>8, <1>9, <1>10, <1>11, <1>12, <1>13, <1>14,
     <1>15, <1>16 DEF ImapStep

\* What DELETE and RENAME do: between IMAP operations, files and at most the
\* whole uidlist of one mailbox go, with what was shown of it, and nothing else
\* changes that an operation under way could still look at.
OnlyLoses(mb) ==
    /\ pc["imap"] \in {"idle", "rmtree"} /\ pc'["imap"] \in {"idle", "rmtree"}
    /\ UNCHANGED <<pc["smtp"], box["smtp"], held, data, job, view, got, copyUid,
                   nextBase, accepted, failures>>
    /\ \A b \in Mailboxes : b # mb => UNCHANGED <<files[b], uidlist[b]>>
    /\ files'[mb] \subseteq files[mb]
    /\ \/ UNCHANGED uidlist[mb] /\ UNCHANGED seen
       \/ uidlist'[mb] = NoUidlist /\ ForgetShown(mb)
    /\ expunged' = expunged \union {f.origin : f \in files[mb] \ files'[mb]}
    /\ taken \/ (files'[mb] # files[mb] /\ DeliveringTo(mb)) => taken'
    /\ pc'["imap"] = "rmtree" =>
            stage' = "delete" \/ (pc["imap"] = "rmtree" /\ UNCHANGED stage)

LEMMA RemovalLoses ==
    ASSUME TypeOK, Removal
    PROVE  \E mb \in Mailboxes : OnlyLoses(mb)
<1> USE DEF imapVars, history, disk
<1>a. /\ pc \in [Procs -> Steps] /\ box \in [Procs -> Mailboxes] /\ "imap" \in Procs
      /\ "smtp" \in Procs /\ files \in [Mailboxes -> SUBSET File]
      /\ uidlist \in [Mailboxes -> Uidlist] /\ box["imap"] \in Mailboxes
  BY DEF TypeOK, Procs
<1>1. ASSUME NEW mb \in Mailboxes, StartDelete(mb) PROVE OnlyLoses(mb)
  BY <1>a, <1>1 DEF StartDelete, CanRemove, OnlyLoses
<1>2. ASSUME NEW mb \in Mailboxes, Rename(mb) PROVE OnlyLoses(mb)
  BY <1>a, <1>2 DEF Rename, CanRemove, OnlyLoses
<1>3. CASE RmtreeFile
  <2>1. PICK f \in files[box["imap"]] :
          /\ files' = [files EXCEPT ![box["imap"]] = @ \ {f}]
          /\ expunged' = expunged \union {f.origin}
    BY <1>3 DEF RmtreeFile
  <2>2. /\ files[box["imap"]] \ files'[box["imap"]] = {f}
        /\ files'[box["imap"]] \subseteq files[box["imap"]]
        /\ \A b \in Mailboxes : b # box["imap"] => UNCHANGED files[b]
    BY <1>a, <2>1
  <2>3. {g.origin : g \in {f}} = {f.origin}
    OBVIOUS
  <2>4. OnlyLoses(box["imap"])
    BY <1>3, <2>1, <2>2, <2>3 DEF RmtreeFile, OnlyLoses
  <2> QED
    BY <1>a, <2>4
<1>4. CASE RmtreeUidlist
  BY <1>a, <1>4 DEF RmtreeUidlist, OnlyLoses
<1>5. CASE RmtreeDone
  BY <1>a, <1>5 DEF RmtreeDone, OnlyLoses
<1>6. CASE RmtreeRaises
  BY <1>a, <1>6 DEF RmtreeRaises, OnlyLoses
<1> QED
  BY <1>a, <1>1, <1>2, <1>3, <1>4, <1>5, <1>6 DEF Removal

\* DELETE and RENAME keep the types.
LEMMA RemovalTypeInv == TypeInv /\ Removal => TypeInv'
<1> SUFFICES ASSUME TypeInv, Removal PROVE TypeInv'
  OBVIOUS
<1> USE DEF TypeInv, imapVars, history, disk
<1>a. /\ TypeOK /\ FilesFinite /\ NoUidlist \in Uidlist /\ IsFiniteSet({})
  BY FS_EmptySet DEF NoUidlist, Uidlist
<1>b. box["imap"] \in Mailboxes
  BY DEF TypeOK, Procs
<1>1. ASSUME NEW mb \in Mailboxes, StartDelete(mb) PROVE TypeInv'
  <2>1. pc' \in [Procs -> Steps] /\ box' \in [Procs -> Mailboxes]
    BY <1>a, <1>1 DEF StartDelete, TypeOK, Steps
  <2>2. stage' \in Stages /\ removals' \in Nat
    BY <1>a, <1>1 DEF StartDelete, TypeOK, Stages
  <2>3. tree' \in [Mailboxes -> {"none", "part", "whole"}]
    BY <1>a, <1>1 DEF StartDelete, TypeOK
  <2>4. FilesFinite'
    BY <1>a, <1>1 DEF StartDelete, FilesFinite
  <2> QED
    BY <1>a, <1>1, <2>1, <2>2, <2>3, <2>4 DEF StartDelete, TypeOK
<1>2. ASSUME NEW mb \in Mailboxes, Rename(mb) PROVE TypeInv'
  <2>1. {f.origin : f \in files[mb]} \subseteq Nat
    BY <1>2 DEF TypeOK, File
  <2>2. /\ tree' \in [Mailboxes -> {"none", "part", "whole"}]
        /\ files' \in [Mailboxes -> SUBSET File] /\ uidlist' \in [Mailboxes -> Uidlist]
    BY <1>a, <1>2 DEF Rename, TypeOK
  <2>3. /\ seen' \in SUBSET [box : Mailboxes, uid : Nat, base : Nat]
        /\ expunged' \in SUBSET Nat
    BY <1>a, <1>2, <2>1 DEF Rename, ForgetShown, TypeOK
  <2>4. taken' \in BOOLEAN /\ removals' \in Nat
    BY <1>a, <1>2 DEF Rename, TypeOK, DeliveringTo
  <2>5. TypeOK'
    BY <1>a, <1>2, <2>2, <2>3, <2>4 DEF Rename, TypeOK
  <2>6. FilesFinite'
    BY <1>a, <1>2 DEF Rename, TypeOK, FilesFinite
  <2> QED
    BY <2>5, <2>6
<1>3. CASE RmtreeFile
  <2>1. PICK f \in files[box["imap"]] :
          /\ files' = [files EXCEPT ![box["imap"]] = @ \ {f}]
          /\ expunged' = expunged \union {f.origin}
    BY <1>3 DEF RmtreeFile
  <2>2. f.origin \in Nat
    BY <1>b DEF TypeOK, File
  <2>3. FilesFinite'
    BY <2>1, SwapFinite DEF FilesFinite, TypeOK
  <2>4. TypeOK'
    BY <1>3, <1>b, <2>1, <2>2 DEF RmtreeFile, TypeOK
  <2> QED
    BY <2>3, <2>4
<1>4. CASE RmtreeUidlist
  BY <1>4, <1>a DEF RmtreeUidlist, ForgetShown, TypeOK, FilesFinite
<1>5. CASE RmtreeDone
  BY <1>5, <1>a DEF RmtreeDone, TypeOK, FilesFinite, Steps
<1>6. CASE RmtreeRaises
  BY <1>6, <1>a DEF RmtreeRaises, TypeOK, FilesFinite, Steps
<1> QED
  BY <1>1, <1>2, <1>3, <1>4, <1>5, <1>6 DEF Removal

\* Every step keeps the types and the directories finite.
LEMMA NextTypeInv == TypeInv /\ [Next]_vars => TypeInv'
<1> SUFFICES ASSUME TypeInv, [Next]_vars PROVE TypeInv'
  OBVIOUS
<1> USE DEF TypeInv, disk, imapVars, history, vars
<1>0. TypeOK /\ FilesFinite
  OBVIOUS
<1>1. ASSUME NEW mb \in SmtpBoxes, StartDeliver(mb) PROVE TypeInv'
  <2>1. NoFile \in File /\ NoUidlist \in Uidlist
    BY DEF NoFile, File, NoUidlist, Uidlist
  <2> QED
    BY <1>1, <2>1 DEF StartDeliver, TypeOK, FilesFinite, Procs, Steps
<1>2. ASSUME NEW s \in Starts, NEW mb \in Mailboxes, NEW dst \in Mailboxes, NEW uid \in Nat,
             NEW arg \in [mode : Modes, flags : SUBSET Flags], StartImap(s, mb, dst, uid, arg)
      PROVE  TypeInv'
  <2>1. NoFile \in File /\ NoUidlist \in Uidlist
    BY DEF NoFile, File, NoUidlist, Uidlist
  <2>2. job' \in Job
    BY <1>2 DEF StartImap, Job
  <2> QED
    BY <1>2, <2>1, <2>2 DEF StartImap, TypeOK, FilesFinite, Procs, Steps, Stages, Starts
<1>3. ASSUME NEW p \in Procs, EnsureCheck(p) PROVE TypeInv'
  BY <1>3 DEF EnsureCheck, AfterEnsure, TypeOK, FilesFinite, Procs, Steps
<1>4. ASSUME NEW p \in Procs, EnsureCreate(p) PROVE TypeInv'
  <2>1. FreshUidlist \in Uidlist
    BY DEF FreshUidlist, Uidlist
  <2> QED
    BY <1>4, <2>1 DEF EnsureCreate, AfterEnsure, TypeOK, FilesFinite, Procs, Steps
<1>5. ASSUME NEW p \in Procs, DeliverTmp(p) PROVE TypeInv'
  <2>1. PICK file \in File : /\ held' = [held EXCEPT ![p] = file]
                            /\ files' = [files EXCEPT ![box[p]] = @ \union {file}]
    BY <1>5 DEF DeliverTmp, TypeOK, File
  <2>2. FilesFinite'
    BY <2>1, FS_AddElement DEF FilesFinite, TypeOK
  <2> QED
    BY <1>5, <2>1, <2>2 DEF DeliverTmp, TypeOK, Steps
<1>6. ASSUME NEW p \in Procs, DeliverRename(p) PROVE TypeInv'
  <2>1. PICK file \in File :
          /\ held' = [held EXCEPT ![p] = file]
          /\ files' = [files EXCEPT ![box[p]] = (@ \ {held[p]}) \union {file}]
    BY <1>6 DEF DeliverRename, TypeOK, File
  <2>2. FilesFinite'
    BY <2>1, SwapFinite DEF FilesFinite, TypeOK
  <2>3. held[p].origin \in Nat
    BY DEF TypeOK, File
  <2> QED
    BY <1>6, <2>1, <2>2, <2>3 DEF DeliverRename, TypeOK, Steps
<1>7. ASSUME NEW p \in Procs, DeliverRead(p) PROVE TypeInv'
  BY <1>7 DEF DeliverRead, TypeOK, FilesFinite, Steps
<1>8. ASSUME NEW p \in Procs, DeliverWrite(p) PROVE TypeInv'
  <2>1. data[p].next \in Nat /\ data[p].map \in SUBSET Entry /\ held[p] \in File
    BY DEF TypeOK, Uidlist
  <2>2. Numbered(data[p], held[p]) \in Uidlist
    <3>1. Put(data[p].map, held[p], data[p].next) \in SUBSET Entry
      BY <2>1, PutType
    <3> QED
      BY <2>1, <3>1 DEF Numbered, Uidlist
  <2>3. Handed(box[p], data[p].next, held[p]) \in [box : Mailboxes, uid : Nat, base : Nat]
    BY <2>1 DEF Handed, TypeOK, File
  <2>4. job.box \in Mailboxes
    BY DEF TypeOK, Job
  <2> QED
    BY <1>8, <2>1, <2>2, <2>3, <2>4 DEF DeliverWrite, TypeOK, FilesFinite, Steps, Stages
<1>9. ASSUME NEW p \in Procs, Fail(p) PROVE TypeInv'
  BY <1>9 DEF Fail, TypeOK, FilesFinite, Steps
<1>10. ASSUME NEW mb \in DropBoxes, ManualDrop(mb) PROVE TypeInv'
  <2>1. PICK file \in File : files' = [files EXCEPT ![mb] = @ \union {file}]
    BY <1>10 DEF ManualDrop, TypeOK, File
  <2>2. FilesFinite'
    BY <2>1, FS_AddElement DEF FilesFinite, TypeOK
  <2> QED
    BY <1>10, <2>1, <2>2 DEF ManualDrop, TypeOK
<1>11. CASE UNCHANGED vars
  BY <1>11 DEF TypeOK, FilesFinite
<1>12. CASE ImapStep
  BY <1>12, ImapTypeInv
<1>13. CASE Removal
  BY <1>13, RemovalTypeInv
<1>14. CASE DeliverRaises
  BY <1>14 DEF DeliverRaises, TypeOK, FilesFinite, Steps
<1> QED
  BY NextCases, <1>1, <1>2, <1>3, <1>4, <1>5, <1>6, <1>7, <1>8, <1>9, <1>10, <1>11, <1>12, <1>13,
     <1>14

\* Every reachable state has the types the code gives its data, and every
\* directory listing is finite.
THEOREM TypeCorrect == Spec => []TypeOK
<1>1. Spec => []TypeInv
  BY InitTypeInv, NextTypeInv, PTL DEF Spec
<1>2. TypeInv => TypeOK
  BY DEF TypeInv
<1> QED
  BY <1>1, <1>2, PTL

(***************************************************************************)
(* Lists of a private mailbox.                                             *)
(***************************************************************************)

\* Adding a file under next_uid keeps a list sound.
LEMMA NumberedKeeps ==
    ASSUME NEW mb, NEW list \in Uidlist, NEW file \in File,
           TypeOK, Sound(list), AgreesWithSeen(mb, list)
    PROVE  /\ Sound(Numbered(list, file))
           /\ AgreesWithSeen(mb, Numbered(list, file))
           /\ [file |-> file, uid |-> list.next] \in Numbered(list, file).map
<1> DEFINE new == Numbered(list, file)
<1>1. /\ new.next = list.next + 1
      /\ new.map = Put(list.map, file, list.next)
  BY DEF Numbered
<1>2. list.next \in Nat /\ \A e \in list.map : e.uid \in Nat
  BY DEF Uidlist, Entry
<1>3. \A e \in new.map : e \in list.map \/ e = [file |-> file, uid |-> list.next]
  BY <1>1 DEF Put, Del
<1>4. Sound(new)
  BY <1>1, <1>2, <1>3 DEF Sound
<1>5. AgreesWithSeen(mb, new)
  <2> SUFFICES ASSUME NEW s \in seen, s.box = mb
               PROVE  s.uid < new.next /\ \A e \in new.map : e.uid = s.uid => e.file.base = s.base
    BY DEF AgreesWithSeen
  <2>1. s.uid < list.next /\ \A e \in list.map : e.uid = s.uid => e.file.base = s.base
    BY DEF AgreesWithSeen
  <2>2. s.uid \in Nat
    BY DEF TypeOK
  <2> QED
    BY <1>1, <1>2, <1>3, <2>1, <2>2
<1>6. [file |-> file, uid |-> list.next] \in new.map
  BY <1>1 DEF Put
<1> QED
  BY <1>4, <1>5, <1>6

\* So does forgetting entries.
LEMMA SmallerKeeps ==
    ASSUME NEW mb, NEW list \in Uidlist, NEW map \in SUBSET list.map,
           Sound(list), AgreesWithSeen(mb, list)
    PROVE  /\ Sound([next |-> list.next, map |-> map])
           /\ AgreesWithSeen(mb, [next |-> list.next, map |-> map])
BY DEF Sound, AgreesWithSeen

\* So does giving the UID of one entry to another name of the same message.
LEMMA RenamedKeeps ==
    ASSUME NEW mb, NEW list \in Uidlist, NEW old \in File, NEW new \in File, NEW uid \in Nat,
           [file |-> old, uid |-> uid] \in list.map, new.base = old.base,
           Sound(list), AgreesWithSeen(mb, list)
    PROVE  LET renamed == [next |-> list.next, map |-> Put(Del(list.map, old), new, uid)]
           IN  Sound(renamed) /\ AgreesWithSeen(mb, renamed)
<1> DEFINE renamed == [next |-> list.next, map |-> Put(Del(list.map, old), new, uid)]
           was == [file |-> old, uid |-> uid]
           is == [file |-> new, uid |-> uid]
<1>1. \A e \in renamed.map : e = is \/ (e \in list.map /\ e # was)
  BY DEF Put, Del
<1>2. was.uid = uid /\ is.uid = uid /\ was.file.base = is.file.base
  OBVIOUS
<1>3. \A e \in list.map : e.uid < list.next /\ (e.uid = uid => e = was)
  BY <1>2 DEF Sound
<1>4. Sound(renamed)
  BY <1>1, <1>2, <1>3 DEF Sound
<1>5. AgreesWithSeen(mb, renamed)
  BY <1>1, <1>2 DEF AgreesWithSeen
<1> QED
  BY <1>4, <1>5

(***************************************************************************)
(* Steps.                                                                  *)
(***************************************************************************)

QuietSteps == {"idle", "rmtree", "ensure", "scanRead", "tmp", "rename", "deliverRead", "removeRead"}

\* A state in which the IMAP process holds nothing that matters.
LEMMA Quiet ==
    ASSUME TypeInv', SmtpStays', PrivateUidNeverReused', ListsSound', pc["imap"]' \in QuietSteps
    PROVE  UidInv'
BY DEF UidInv, CreateAbsent, CopyCurrent, ViewCurrent, HeldListed, ImapIn, QuietSteps

\* A step that does not concern the IMAP process and its private mailboxes.
LEMMA Elsewhere ==
    ASSUME UidInv, TypeInv', SmtpStays',
           UNCHANGED <<pc["imap"], box["imap"], data["imap"], held["imap"], imapVars, seen>>,
           \A mb \in PrivateBoxes : UNCHANGED uidlist[mb]
    PROVE  UidInv'
<1>1. box["imap"] \in PrivateBoxes => UNCHANGED ImapList
  BY DEF ImapList
<1>2. UNCHANGED TargetUid
  BY DEF TargetUid, imapVars
<1>3. ListsSound' /\ PrivateUidNeverReused'
  BY DEF UidInv, ListsSound, Sound, AgreesWithSeen, PrivateUidNeverReused, NeverReused
<1>4. CreateAbsent' /\ ViewCurrent' /\ HeldListed'
  BY <1>1, <1>2 DEF UidInv, CreateAbsent, ViewCurrent, HeldListed, ImapIn, imapVars
<1>5. CopyCurrent'
  BY <1>1 DEF UidInv, CopyCurrent, ImapIn, imapVars, Sound, AgreesWithSeen, Extends
<1> QED
  BY <1>3, <1>4, <1>5 DEF UidInv

\* What a rewrite of uidlist.json must respect: in a private mailbox the new
\* list is sound, agrees with what was shown, and has an entry for what is
\* shown now.
LEMMA Rewrite ==
    ASSUME UidInv, NEW new \in Uidlist, NEW shown,
           uidlist' = [uidlist EXCEPT ![box["imap"]] = new],
           seen' = seen \union shown,
           box["imap"] \in PrivateBoxes =>
               /\ Sound(new)
               /\ AgreesWithSeen(box["imap"], new)
               /\ \A s \in shown : \E e \in new.map : s.uid = e.uid /\ s.base = e.file.base,
           \A s \in shown : s.box = box["imap"]
    PROVE  ListsSound' /\ PrivateUidNeverReused'
<1> DEFINE mb == box["imap"]
<1>1. mb \in Mailboxes /\ uidlist \in [Mailboxes -> Uidlist]
  BY DEF UidInv, TypeInv, TypeOK, Procs
<1>2. \A b \in PrivateBoxes : uidlist'[b] = IF b = mb THEN new ELSE uidlist[b]
  BY <1>1 DEF PrivateBoxes
<1>3. \A b \in PrivateBoxes : Sound(uidlist'[b])
  BY <1>2 DEF UidInv, ListsSound
<1>4. ASSUME NEW b \in PrivateBoxes, NEW s \in seen', s.box = b
      PROVE  /\ s.uid < uidlist'[b].next
             /\ \A e \in uidlist'[b].map : e.uid = s.uid => e.file.base = s.base
  <2>1. CASE b # mb
    <3>1. s \in seen /\ uidlist'[b] = uidlist[b]
      BY <1>2, <1>4, <2>1
    <3> QED
      BY <1>4, <3>1 DEF UidInv, ListsSound, AgreesWithSeen
  <2>2. CASE b = mb /\ s \in seen
    BY <1>2, <1>4, <2>2 DEF AgreesWithSeen
  <2>3. CASE b = mb /\ s \in shown
    <3>1. PICK e \in new.map : s.uid = e.uid /\ s.base = e.file.base
      BY <1>4, <2>3
    <3> QED
      BY <1>2, <2>3, <3>1 DEF Sound
  <2> QED
    BY <1>4, <2>1, <2>2, <2>3
<1>5. ListsSound'
  BY <1>3, <1>4 DEF ListsSound, AgreesWithSeen, Sound
<1>6. ASSUME NEW s \in seen', NEW t \in seen', s.box = t.box, s.box \in PrivateBoxes, s.uid = t.uid
      PROVE  s.base = t.base
  <2>1. CASE s \in seen /\ t \in seen
    BY <1>6, <2>1 DEF UidInv, PrivateUidNeverReused, NeverReused
  <2>2. CASE s \in shown
    BY <1>2, <1>4, <1>6, <2>2
  <2>3. CASE t \in shown
    BY <1>2, <1>4, <1>6, <2>3
  <2> QED
    BY <1>6, <2>1, <2>2, <2>3
<1>7. PrivateUidNeverReused'
  BY <1>6 DEF PrivateUidNeverReused, NeverReused
<1> QED
  BY <1>5, <1>7

\* A rewrite that shows nothing.
LEMMA RewriteOnly ==
    ASSUME UidInv, NEW new \in Uidlist,
           uidlist' = [uidlist EXCEPT ![box["imap"]] = new],
           seen' = seen,
           box["imap"] \in PrivateBoxes => Sound(new) /\ AgreesWithSeen(box["imap"], new)
    PROVE  ListsSound' /\ PrivateUidNeverReused'
<1> DEFINE shown == {}
<1>1. seen' = seen \union shown /\ \A s \in shown : FALSE
  OBVIOUS
<1> HIDE DEF shown
<1> QED
  BY <1>1, Rewrite

\* Nothing written, nothing shown.
LEMMA NoRewrite ==
    ASSUME UidInv, UNCHANGED <<uidlist, seen>>
    PROVE  ListsSound' /\ PrivateUidNeverReused'
BY DEF UidInv, ListsSound, Sound, AgreesWithSeen, PrivateUidNeverReused, NeverReused

\* The steps of deliver_message and ensure_mailbox, whichever process runs them.
LEMMA SharedUidInv ==
    ASSUME UidInv, TypeInv', SmtpStays', NEW p \in Procs, SharedStep(p) \/ Fail(p)
    PROVE  UidInv'
<1> USE DEF disk, imapVars, history
<1>a. /\ pc \in [Procs -> Steps] /\ box \in [Procs -> Mailboxes] /\ held \in [Procs -> File]
      /\ data \in [Procs -> Uidlist] /\ uidlist \in [Mailboxes -> Uidlist]
      /\ "imap" \in Procs /\ box["imap"] \in Mailboxes /\ TypeOK
  BY DEF UidInv, TypeInv, TypeOK, Procs
<1>1. CASE p = "smtp"
  <2>1. pc["smtp"] # "idle"
    BY <1>1 DEF SharedStep, EnsureCheck, EnsureCreate, DeliverTmp, DeliverRename, DeliverRead,
                DeliverWrite, Fail
  <2>2. \A mb \in PrivateBoxes : mb # box["smtp"]
    BY <2>1 DEF UidInv, SmtpStays, PrivateBoxes
  <2>3. UNCHANGED <<pc["imap"], box["imap"], data["imap"], held["imap"], imapVars, seen>>
    BY <1>1, <1>a DEF SharedStep, EnsureCheck, EnsureCreate, DeliverTmp, DeliverRename, DeliverRead,
                      DeliverWrite, Fail
  <2>4. \A mb \in PrivateBoxes : UNCHANGED uidlist[mb]
    BY <1>1, <1>a, <2>2 DEF SharedStep, EnsureCheck, EnsureCreate, DeliverTmp, DeliverRename,
                            DeliverRead, DeliverWrite, Fail, PrivateBoxes
  <2> QED
    BY <2>3, <2>4, Elsewhere
<1>2. CASE p = "imap" /\ EnsureCheck(p)
  <2>1. ListsSound' /\ PrivateUidNeverReused'
    BY <1>2, NoRewrite DEF EnsureCheck
  <2>2. CASE uidlist[box["imap"]].next = 0
    <3>1. pc'["imap"] = "create" /\ ImapList'.next = 0
      BY <1>2, <1>a, <2>2 DEF EnsureCheck, ImapList
    <3>2. CreateAbsent' /\ CopyCurrent' /\ ViewCurrent' /\ HeldListed'
      BY <3>1 DEF CreateAbsent, CopyCurrent, ViewCurrent, HeldListed, ImapIn
    <3> QED
      BY <2>1, <3>2 DEF UidInv
  <2>3. CASE uidlist[box["imap"]].next # 0
    <3>1. pc'["imap"] \in QuietSteps
      BY <1>2, <1>a, <2>3 DEF EnsureCheck, AfterEnsure, QuietSteps
    <3> QED
      BY <2>1, <3>1, Quiet
  <2> QED
    BY <2>2, <2>3
<1>3. CASE p = "imap" /\ EnsureCreate(p)
  <2>1. FreshUidlist \in Uidlist /\ Sound(FreshUidlist)
    BY DEF FreshUidlist, Uidlist, Sound
  <2>2. box["imap"] \in PrivateBoxes => AgreesWithSeen(box["imap"], FreshUidlist)
    <3> SUFFICES ASSUME box["imap"] \in PrivateBoxes, NEW s \in seen, s.box = box["imap"]
                 PROVE  FALSE
      BY DEF AgreesWithSeen
    <3>1. uidlist[box["imap"]].next = 0
      BY <1>3 DEF UidInv, CreateAbsent, ImapIn, ImapList, EnsureCreate
    <3>2. s.uid < 0
      BY <3>1 DEF UidInv, ListsSound, AgreesWithSeen
    <3>3. s.uid \in Nat
      BY <1>a DEF TypeOK
    <3> QED
      BY <3>2, <3>3
  <2>3. uidlist' = [uidlist EXCEPT ![box["imap"]] = FreshUidlist] /\ seen' = seen
    BY <1>3 DEF EnsureCreate
  <2>4. ListsSound' /\ PrivateUidNeverReused'
    BY <2>1, <2>2, <2>3, RewriteOnly
  <2>5. pc'["imap"] \in QuietSteps
    BY <1>3, <1>a DEF EnsureCreate, AfterEnsure, QuietSteps
  <2> QED
    BY <2>4, <2>5, Quiet
<1>4. CASE p = "imap" /\ (DeliverTmp(p) \/ DeliverRename(p) \/ Fail(p))
  <2>1. ListsSound' /\ PrivateUidNeverReused'
    BY <1>4, NoRewrite DEF DeliverTmp, DeliverRename, Fail
  <2>2. pc'["imap"] \in QuietSteps
    BY <1>4, <1>a DEF DeliverTmp, DeliverRename, Fail, QuietSteps
  <2> QED
    BY <2>1, <2>2, Quiet
<1>5. CASE p = "imap" /\ DeliverRead(p)
  <2>1. ListsSound' /\ PrivateUidNeverReused'
    BY <1>5, NoRewrite DEF DeliverRead
  <2>2. pc'["imap"] = "deliverWrite" /\ data'["imap"] = ImapList'
    BY <1>5, <1>a DEF DeliverRead, ImapList
  <2>3. CreateAbsent' /\ CopyCurrent' /\ ViewCurrent' /\ HeldListed'
    BY <2>2 DEF CreateAbsent, CopyCurrent, ViewCurrent, HeldListed, ImapIn
  <2> QED
    BY <2>1, <2>3 DEF UidInv
<1>6. CASE p = "imap" /\ DeliverWrite(p)
  <2> DEFINE list == data["imap"]
             new == Numbered(list, held["imap"])
             shown == {Handed(box["imap"], list.next, held["imap"])}
  <2>1. list \in Uidlist /\ held["imap"] \in File
    BY <1>a
  <2>2. new \in Uidlist
    <3>1. list.next \in Nat /\ list.map \in SUBSET Entry
      BY <2>1 DEF Uidlist
    <3>2. Put(list.map, held["imap"], list.next) \in SUBSET Entry
      BY <2>1, <3>1, PutType
    <3> QED
      BY <3>1, <3>2 DEF Numbered, Uidlist
  <2>3. box["imap"] \in PrivateBoxes => list = ImapList
    BY <1>6 DEF UidInv, CopyCurrent, ImapIn, DeliverWrite
  <2>4. box["imap"] \in PrivateBoxes => Sound(list) /\ AgreesWithSeen(box["imap"], list)
    BY <2>3 DEF UidInv, ListsSound, ImapList
  <2>5. box["imap"] \in PrivateBoxes =>
          /\ Sound(new)
          /\ AgreesWithSeen(box["imap"], new)
          /\ [file |-> held["imap"], uid |-> list.next] \in new.map
    BY <1>a, <2>1, <2>4, NumberedKeeps
  <2>6. \A s \in shown : s.box = box["imap"] /\ s.uid = list.next /\ s.base = held["imap"].base
    BY DEF Handed
  <2>7. box["imap"] \in PrivateBoxes =>
          \A s \in shown : \E e \in new.map : s.uid = e.uid /\ s.base = e.file.base
    BY <2>5, <2>6
  <2>8. uidlist' = [uidlist EXCEPT ![box["imap"]] = new] /\ seen' = seen \union shown
    BY <1>6 DEF DeliverWrite
  <2>9. pc'["imap"] \in QuietSteps
    BY <1>6, <1>a DEF DeliverWrite, QuietSteps
  <2> HIDE DEF new, shown, list
  <2>10. ListsSound' /\ PrivateUidNeverReused'
    BY <2>2, <2>5, <2>6, <2>7, <2>8, Rewrite
  <2> QED
    BY <2>9, <2>10, Quiet
<1> QED
  BY <1>1, <1>2, <1>3, <1>4, <1>5, <1>6 DEF SharedStep, Procs

\* What set_flags makes of a file, and the UID it looks for.
LEMMA ReflaggedType ==
    ASSUME TypeOK, NEW file \in File
    PROVE  TargetUid \in Nat /\ Reflagged(file) \in File /\ Reflagged(file).base = file.base
<1>1. KeptFlags \in SUBSET Flags
  BY DEF KeptFlags, TypeOK, File
<1>2. job.flags \in SUBSET Flags /\ job.mode \in {"replace", "add", "remove"} /\ job.uid \in Nat
  BY DEF TypeOK, Job
<1>3. \A old \in SUBSET Flags : NewFlags(old) \in SUBSET Flags
  BY <1>1, <1>2 DEF NewFlags
<1>4. Reflagged(file) \in File /\ Reflagged(file).base = file.base
  BY <1>3 DEF Reflagged, File
<1>5. TargetUid \in Nat
  BY <1>2 DEF TargetUid, TypeOK
<1> QED
  BY <1>4, <1>5

\* The list _scan makes of a sound list by numbering unknown files is sound.
Scanned(list, unknown, num) ==
    [next |-> list.next + Cardinality(unknown),
     map  |-> list.map \union {[file |-> f, uid |-> num[f]] : f \in unknown}]

\* The list _scan makes of the one it read, numbering the files it did not
\* know, is sound, agrees with what callers have seen and loses no entry.
LEMMA ScannedKeeps ==
    ASSUME TypeOK, NEW mb, NEW list \in Uidlist, NEW unknown, IsFiniteSet(unknown),
           NEW num \in Numberings(unknown, list.next),
           Sound(list), AgreesWithSeen(mb, list)
    PROVE  /\ Sound(Scanned(list, unknown, num))
           /\ AgreesWithSeen(mb, Scanned(list, unknown, num))
           /\ Extends(Scanned(list, unknown, num), list)
<1> DEFINE new == Scanned(list, unknown, num)
           added == {[file |-> f, uid |-> num[f]] : f \in unknown}
<1>1. list.next \in Nat /\ \A e \in list.map : e.uid \in Nat /\ e.uid < list.next
  BY DEF Uidlist, Entry, Sound
<1>2. PICK card \in Nat : card = Cardinality(unknown)
  BY FS_CardinalityType
<1>3. /\ \A f \in unknown : /\ num[f] \in Nat /\ list.next <= num[f]
                            /\ num[f] < list.next + card
      /\ \A f, g \in unknown : num[f] = num[g] => f = g
  <2>1. list.next \in Nat
    BY <1>1
  <2> QED
    BY <1>2, <2>1, NumberingsType
<1>4. \A e \in added : /\ e.file \in unknown /\ e.uid = num[e.file]
                      /\ e = [file |-> e.file, uid |-> e.uid]
  OBVIOUS
<1>5. new.next = list.next + card /\ new.map = list.map \union added
  BY <1>2 DEF Scanned
<1> HIDE DEF new, added
<1>6. \A e \in added : e.uid \in Nat /\ list.next <= e.uid /\ e.uid < new.next
  BY <1>1, <1>3, <1>4, <1>5
<1>7. \A e \in new.map : e.uid < new.next
  BY <1>1, <1>5, <1>6
<1>8. ASSUME NEW e \in new.map, NEW f \in new.map, e.uid = f.uid PROVE e = f
  <2>1. CASE e \in list.map /\ f \in list.map
    BY <1>8, <2>1 DEF Sound
  <2>2. CASE e \in added /\ f \in added
    BY <1>3, <1>4, <1>8, <2>2
  <2>3. CASE (e \in list.map) # (f \in list.map)
    BY <1>1, <1>5, <1>6, <1>8, <2>3
  <2> QED
    BY <1>5, <2>1, <2>2, <2>3
<1>9. AgreesWithSeen(mb, new)
  <2> SUFFICES ASSUME NEW s \in seen, s.box = mb
               PROVE  s.uid < new.next /\ \A e \in new.map : e.uid = s.uid => e.file.base = s.base
    BY DEF AgreesWithSeen
  <2>1. s.uid < list.next /\ \A e \in list.map : e.uid = s.uid => e.file.base = s.base
    BY DEF AgreesWithSeen
  <2>2. s.uid \in Nat
    BY DEF TypeOK
  <2> QED
    BY <1>1, <1>2, <1>5, <1>6, <2>1, <2>2
<1>10. Extends(new, list)
  BY <1>1, <1>2, <1>5 DEF Extends
<1> QED
  BY <1>7, <1>8, <1>9, <1>10 DEF Sound, new

\* Listing the directories and numbering what the list does not know.
LEMMA ScanListUidInv ==
    ASSUME UidInv, TypeInv', SmtpStays', ScanList
    PROVE  UidInv'
<1> USE DEF disk, imapVars, history
<1>1. /\ pc \in [Procs -> Steps] /\ data \in [Procs -> Uidlist] /\ "imap" \in Procs
      /\ box["imap"] \in Mailboxes /\ data["imap"] \in Uidlist
      /\ IsFiniteSet(files[box["imap"]]) /\ TypeOK
  BY DEF UidInv, TypeInv, TypeOK, FilesFinite, Procs
<1>2. PICK unknown : unknown = {f \in Listed(box["imap"]) : ~HasKey(data["imap"].map, f)}
  OBVIOUS
<1>3. PICK num \in Numberings(unknown, data["imap"].next) :
        /\ data' = [data EXCEPT !["imap"] = Scanned(data["imap"], unknown, num)]
        /\ view' = Entries(Scanned(data["imap"], unknown, num).map, Listed(box["imap"]))
        /\ IF unknown # {}
           THEN pc' = [pc EXCEPT !["imap"] = "scanWrite"] /\ UNCHANGED seen
           ELSE /\ pc' = [pc EXCEPT !["imap"] = "scanned"]
                /\ seen' = seen \union HandedAll(box["imap"], view')
        /\ UNCHANGED <<uidlist, box>>
  BY <1>2 DEF ScanList, Scanned
<1>4. IsFiniteSet(unknown)
  BY <1>1, <1>2, FS_Subset DEF Listed
<1>5. PICK new : new = Scanned(data["imap"], unknown, num)
  OBVIOUS
<1>6. data'["imap"] = new /\ ImapList' = ImapList /\ view' \subseteq new.map
  BY <1>1, <1>3, <1>5 DEF ImapList, Entries
<1>7. box["imap"] \in PrivateBoxes =>
        /\ data["imap"] = ImapList
        /\ Sound(data["imap"])
        /\ AgreesWithSeen(box["imap"], data["imap"])
  BY DEF ScanList, UidInv, CopyCurrent, ListsSound, ImapIn, ImapList
<1>8. box["imap"] \in PrivateBoxes =>
        Sound(new) /\ AgreesWithSeen(box["imap"], new) /\ Extends(new, ImapList)
  BY <1>1, <1>3, <1>4, <1>5, <1>7, ScannedKeeps
<1>9. CASE unknown # {}
  <2>1. pc'["imap"] = "scanWrite" /\ UNCHANGED <<uidlist, seen, box>>
    BY <1>1, <1>3, <1>9
  <2>2. ListsSound' /\ PrivateUidNeverReused'
    BY <2>1, NoRewrite
  <2>3. box["imap"] \in PrivateBoxes => Sound(data["imap"])' /\ AgreesWithSeen(box["imap"], data["imap"])'
    BY <1>6, <1>8, <2>1 DEF Sound, AgreesWithSeen
  <2>4. CopyCurrent'
    BY <1>6, <1>8, <2>1, <2>3 DEF CopyCurrent, ImapIn, Extends
  <2>5. CreateAbsent' /\ ViewCurrent' /\ HeldListed'
    BY <2>1 DEF CreateAbsent, ViewCurrent, HeldListed, ImapIn
  <2> QED
    BY <2>2, <2>4, <2>5 DEF UidInv
<1>10. CASE unknown = {}
  <2>1. PICK shown : shown = HandedAll(box["imap"], view')
    OBVIOUS
  <2>2. pc'["imap"] = "scanned" /\ seen' = seen \union shown /\ UNCHANGED <<uidlist, box>>
    BY <1>1, <1>3, <1>10, <2>1
  <2>3. new.map = data["imap"].map
    BY <1>5, <1>10 DEF Scanned
  <2>4. \A s \in shown : s.box = box["imap"]
    BY <2>1 DEF HandedAll, Handed
  <2>5. box["imap"] \in PrivateBoxes =>
          \A s \in shown : \E e \in ImapList.map : s.uid = e.uid /\ s.base = e.file.base
    BY <1>6, <1>7, <2>1, <2>3 DEF HandedAll, Handed
  <2>6. uidlist' = [uidlist EXCEPT ![box["imap"]] = ImapList] /\ ImapList \in Uidlist
    BY <1>1, <2>2 DEF TypeOK, ImapList
  <2>7. box["imap"] \in PrivateBoxes => Sound(ImapList) /\ AgreesWithSeen(box["imap"], ImapList)
    BY <1>7
  <2>8. ListsSound' /\ PrivateUidNeverReused'
    BY <2>2, <2>4, <2>5, <2>6, <2>7, Rewrite
  <2>9. ViewCurrent'
    BY <1>6, <1>7, <2>2, <2>3 DEF ViewCurrent, ImapIn
  <2>10. CreateAbsent' /\ CopyCurrent' /\ HeldListed'
    BY <2>2 DEF CreateAbsent, CopyCurrent, HeldListed, ImapIn
  <2> QED
    BY <2>8, <2>9, <2>10 DEF UidInv
<1> QED
  BY <1>9, <1>10

\* The steps only the IMAP process takes.
LEMMA ImapUidInv ==
    ASSUME UidInv, TypeInv', SmtpStays', ImapStep
    PROVE  UidInv'
<1> USE DEF disk, imapVars, history
<1>a. /\ pc \in [Procs -> Steps] /\ box \in [Procs -> Mailboxes] /\ held \in [Procs -> File]
      /\ data \in [Procs -> Uidlist] /\ uidlist \in [Mailboxes -> Uidlist]
      /\ "imap" \in Procs /\ box["imap"] \in Mailboxes /\ TypeOK
  BY DEF UidInv, TypeInv, TypeOK, Procs
<1>b. box["imap"] \in PrivateBoxes =>
        /\ ImapList \in Uidlist
        /\ Sound(ImapList)
        /\ AgreesWithSeen(box["imap"], ImapList)
  BY <1>a DEF UidInv, ListsSound, ImapList
<1>1. CASE ListDone \/ NoSuchMessage \/ GetMessage \/ FlagKeyError \/ RemoveOriginal
  <2>1. ListsSound' /\ PrivateUidNeverReused'
    BY <1>1, NoRewrite DEF ListDone, NoSuchMessage, GetMessage, FlagKeyError, RemoveOriginal
  <2>2. pc'["imap"] \in {"idle", "ensure", "removeRead"}
    BY <1>1, <1>a DEF ListDone, NoSuchMessage, GetMessage, FlagKeyError, RemoveOriginal
  <2> QED
    BY <2>1, <2>2, Quiet DEF QuietSteps
<1>2. CASE ScanRead \/ RemoveRead
  <2>1. ListsSound' /\ PrivateUidNeverReused'
    BY <1>2, NoRewrite DEF ScanRead, RemoveRead
  <2>2. pc'["imap"] \in {"scanList", "removeWrite"} /\ data'["imap"] = ImapList'
    BY <1>2, <1>a DEF ScanRead, RemoveRead, ImapList
  <2>3. CreateAbsent' /\ CopyCurrent' /\ ViewCurrent' /\ HeldListed'
    BY <2>2 DEF CreateAbsent, CopyCurrent, ViewCurrent, HeldListed, ImapIn
  <2> QED
    BY <2>1, <2>3 DEF UidInv
<1>3. CASE ScanList
  BY <1>3, <1>a, <1>b, ScanListUidInv
<1>4. CASE ScanWrite
  <2> DEFINE shown == HandedAll(box["imap"], view)
             new == data["imap"]
  <2>1. new \in Uidlist
    BY <1>a
  <2>2. box["imap"] \in PrivateBoxes =>
          Sound(new) /\ AgreesWithSeen(box["imap"], new) /\ view \subseteq new.map
    BY <1>4 DEF ScanWrite, UidInv, CopyCurrent, ImapIn
  <2>3. \A s \in shown : s.box = box["imap"]
    BY DEF HandedAll, Handed
  <2>4. box["imap"] \in PrivateBoxes =>
          \A s \in shown : \E e \in new.map : s.uid = e.uid /\ s.base = e.file.base
    BY <2>2 DEF HandedAll, Handed
  <2>5. uidlist' = [uidlist EXCEPT ![box["imap"]] = new] /\ seen' = seen \union shown
    BY <1>4 DEF ScanWrite
  <2> HIDE DEF new, shown
  <2>6. ListsSound' /\ PrivateUidNeverReused'
    BY <2>1, <2>2, <2>3, <2>4, <2>5, Rewrite
  <2>7. pc'["imap"] = "scanned" /\ view' = view /\ box' = box /\ ImapList' = new
    BY <1>4, <1>a, <2>5 DEF ScanWrite, ImapList
  <2>8. CreateAbsent' /\ CopyCurrent' /\ ViewCurrent' /\ HeldListed'
    BY <2>2, <2>7 DEF CreateAbsent, CopyCurrent, ViewCurrent, HeldListed, ImapIn
  <2> QED
    BY <2>6, <2>8 DEF UidInv
<1>5. CASE FlagRename
  <2>1. ListsSound' /\ PrivateUidNeverReused'
    BY <1>5, NoRewrite DEF FlagRename
  <2>2. PICK e \in Targets : held' = [held EXCEPT !["imap"] = e.file]
    BY <1>5 DEF FlagRename
  <2>3. e = [file |-> e.file, uid |-> TargetUid] /\ e \in view
    BY <1>a, <2>2 DEF Targets, TypeOK, Entry
  <2>4. /\ held'["imap"] = e.file /\ pc'["imap"] = "flagRead"
        /\ UNCHANGED <<TargetUid, ImapList, box>>
    BY <1>5, <1>a, <2>2 DEF FlagRename, TargetUid, ImapList
  <2>5. HeldListed'
    BY <1>5, <2>3, <2>4 DEF FlagRename, ScannedFor, UidInv, ViewCurrent, HeldListed, ImapIn
  <2>6. CreateAbsent' /\ CopyCurrent' /\ ViewCurrent'
    BY <2>4 DEF CreateAbsent, CopyCurrent, ViewCurrent, ImapIn
  <2> QED
    BY <2>1, <2>5, <2>6 DEF UidInv
<1>6. CASE FlagRead
  <2>1. ListsSound' /\ PrivateUidNeverReused'
    BY <1>6, NoRewrite DEF FlagRead
  <2>2. /\ pc'["imap"] = "flagWrite" /\ data'["imap"] = ImapList'
        /\ UNCHANGED <<TargetUid, ImapList, box, held>>
    BY <1>6, <1>a DEF FlagRead, ImapList, TargetUid
  <2>3. HeldListed'
    BY <1>6, <2>2 DEF FlagRead, UidInv, HeldListed, ImapIn
  <2>4. CreateAbsent' /\ CopyCurrent' /\ ViewCurrent'
    BY <2>2 DEF CreateAbsent, CopyCurrent, ViewCurrent, ImapIn
  <2> QED
    BY <2>1, <2>3, <2>4 DEF UidInv
<1>7. CASE FlagWrite
  <2> DEFINE old == held["imap"]
             new == [next |-> data["imap"].next,
                     map |-> Put(Del(data["imap"].map, old), Reflagged(old), TargetUid)]
  <2>1. TargetUid \in Nat /\ Reflagged(old) \in File /\ Reflagged(old).base = old.base
    BY <1>a, ReflaggedType
  <2>2. new \in Uidlist
    <3>1. data["imap"].next \in Nat /\ data["imap"].map \in SUBSET Entry
      BY <1>a DEF Uidlist
    <3> QED
      BY <1>a, <2>1, <3>1, PutType DEF Uidlist
  <2>3. box["imap"] \in PrivateBoxes =>
          data["imap"] = ImapList /\ [file |-> old, uid |-> TargetUid] \in ImapList.map
    BY <1>7 DEF FlagWrite, UidInv, CopyCurrent, HeldListed, ImapIn
  <2>4. box["imap"] \in PrivateBoxes => Sound(new) /\ AgreesWithSeen(box["imap"], new)
    BY <1>a, <1>b, <2>1, <2>3, RenamedKeeps
  <2>5. uidlist' = [uidlist EXCEPT ![box["imap"]] = new] /\ seen' = seen
    BY <1>7 DEF FlagWrite
  <2>6. pc'["imap"] \in QuietSteps
    BY <1>7, <1>a DEF FlagWrite, QuietSteps
  <2> HIDE DEF new
  <2> QED
    BY <2>2, <2>4, <2>5, <2>6, RewriteOnly, Quiet
<1>8. CASE RemoveWrite
  <2> DEFINE new == [next |-> data["imap"].next, map |-> Del(data["imap"].map, held["imap"])]
  <2>1. new \in Uidlist /\ new.map \in SUBSET data["imap"].map
    BY <1>a DEF Uidlist, Del
  <2>2. box["imap"] \in PrivateBoxes => data["imap"] = ImapList
    BY <1>8 DEF RemoveWrite, UidInv, CopyCurrent, ImapIn
  <2>3. box["imap"] \in PrivateBoxes => Sound(new) /\ AgreesWithSeen(box["imap"], new)
    BY <1>b, <2>1, <2>2, SmallerKeeps
  <2>4. uidlist' = [uidlist EXCEPT ![box["imap"]] = new] /\ seen' = seen
    BY <1>8 DEF RemoveWrite
  <2>5. pc'["imap"] \in QuietSteps
    BY <1>8, <1>a DEF RemoveWrite, QuietSteps
  <2> HIDE DEF new
  <2> QED
    BY <2>1, <2>3, <2>4, <2>5, RewriteOnly, Quiet
<1>9. CASE ExpungeRead \/ ExpungeRemove
  <2>1. ListsSound' /\ PrivateUidNeverReused'
    BY <1>9, NoRewrite DEF ExpungeRead, ExpungeRemove
  <2>2. pc'["imap"] = "expungeRemove" /\ UNCHANGED <<ImapList, box>>
    BY <1>9, <1>a DEF ExpungeRead, ExpungeRemove, ImapList
  <2>3. box["imap"] \in PrivateBoxes =>
          data'["imap"].next = ImapList.next /\ data'["imap"].map \subseteq ImapList.map
    BY <1>9, <1>a DEF ExpungeRead, ExpungeRemove, ImapList, UidInv, CopyCurrent, ImapIn, Del
  <2>4. CreateAbsent' /\ CopyCurrent' /\ ViewCurrent' /\ HeldListed'
    BY <2>2, <2>3 DEF CreateAbsent, CopyCurrent, ViewCurrent, HeldListed, ImapIn
  <2> QED
    BY <2>1, <2>4 DEF UidInv
<1>10. CASE ExpungeWrite
  <2>1. box["imap"] \in PrivateBoxes =>
          data["imap"].next = ImapList.next /\ data["imap"].map \in SUBSET ImapList.map
    BY <1>10 DEF ExpungeWrite, UidInv, CopyCurrent, ImapIn
  <2>2. data["imap"] = [next |-> data["imap"].next, map |-> data["imap"].map] /\ data["imap"] \in Uidlist
    BY <1>a DEF Uidlist
  <2>3. box["imap"] \in PrivateBoxes =>
          Sound(data["imap"]) /\ AgreesWithSeen(box["imap"], data["imap"])
    BY <1>b, <2>1, <2>2, SmallerKeeps
  <2>4. uidlist' = [uidlist EXCEPT ![box["imap"]] = data["imap"]] /\ seen' = seen
    BY <1>10 DEF ExpungeWrite
  <2>5. pc'["imap"] \in QuietSteps
    BY <1>10, <1>a DEF ExpungeWrite, QuietSteps
  <2> QED
    BY <2>2, <2>3, <2>4, <2>5, RewriteOnly, Quiet
<1> QED
  BY <1>1, <1>2, <1>3, <1>4, <1>5, <1>6, <1>7, <1>8, <1>9, <1>10 DEF ImapStep

\* A new data directory satisfies the invariant on UIDs.
LEMMA InitUidInv == Init => UidInv
<1> SUFFICES ASSUME Init PROVE UidInv
  OBVIOUS
<1>1. pc["imap"] = "idle" /\ pc["smtp"] = "idle"
  BY DEF Init, Procs
<1>2. \A mb \in PrivateBoxes : uidlist[mb] = NoUidlist
  BY DEF Init, PrivateBoxes
<1>3. ListsSound /\ PrivateUidNeverReused
  <2>1. NoUidlist.map = {} /\ seen = {}
    BY DEF Init, NoUidlist
  <2>2. \A mb \in PrivateBoxes : Sound(NoUidlist) /\ AgreesWithSeen(mb, NoUidlist)
    BY <2>1 DEF Sound, AgreesWithSeen
  <2> QED
    BY <1>2, <2>1, <2>2 DEF ListsSound, PrivateUidNeverReused, NeverReused, Sound, AgreesWithSeen
<1>4. SmtpStays /\ CreateAbsent /\ CopyCurrent /\ ViewCurrent /\ HeldListed
  BY <1>1 DEF SmtpStays, CreateAbsent, CopyCurrent, ViewCurrent, HeldListed, ImapIn
<1> QED
  BY InitTypeInv, <1>3, <1>4 DEF UidInv

\* The SMTP process only works on the mailboxes it delivers to.
LEMMA NextSmtpStays == TypeInv /\ SmtpStays /\ [Next]_vars => SmtpStays'
<1> SUFFICES ASSUME TypeInv, SmtpStays, [Next]_vars PROVE SmtpStays'
  OBVIOUS
<1> USE DEF disk, imapVars, history, vars, SmtpStays
<1>a. pc \in [Procs -> Steps] /\ box \in [Procs -> Mailboxes] /\ "imap" \in Procs /\ "smtp" \in Procs
  BY DEF TypeInv, TypeOK, Procs
<1>1. ASSUME NEW mb \in SmtpBoxes, StartDeliver(mb) PROVE SmtpStays'
  BY <1>1, <1>a DEF StartDeliver
<1>2. ASSUME NEW s, NEW mb, NEW dst, NEW uid, NEW arg, StartImap(s, mb, dst, uid, arg) PROVE SmtpStays'
  BY <1>2, <1>a DEF StartImap
<1>3. ASSUME NEW p \in Procs,
             \/ EnsureCheck(p) \/ EnsureCreate(p) \/ DeliverTmp(p)
             \/ DeliverRename(p) \/ DeliverRead(p) \/ DeliverWrite(p) \/ Fail(p)
      PROVE  SmtpStays'
  <2>1. UNCHANGED box["smtp"] /\ (pc'["smtp"] # "idle" => pc["smtp"] # "idle")
    BY <1>3, <1>a DEF Procs, EnsureCheck, EnsureCreate, DeliverTmp, DeliverRename, DeliverRead,
                      DeliverWrite, Fail
  <2> QED
    BY <2>1
<1>4. CASE ImapStep
  <2>1. UNCHANGED <<pc["smtp"], box["smtp"]>>
    BY <1>4, <1>a DEF ImapStep, ScanRead, ScanList, ScanWrite, ListDone, NoSuchMessage, GetMessage,
          FlagRename, FlagRead, FlagKeyError, FlagWrite, RemoveOriginal, RemoveRead, RemoveWrite,
          ExpungeRead, ExpungeRemove, ExpungeWrite
  <2> QED
    BY <2>1
<1>5. ASSUME NEW mb, ManualDrop(mb) PROVE SmtpStays'
  BY <1>5 DEF ManualDrop
<1>6. CASE UNCHANGED vars
  BY <1>6
<1>7. CASE Removal
  <2>1. TypeOK
    BY DEF TypeInv
  <2>2. UNCHANGED <<pc["smtp"], box["smtp"]>>
    BY <1>7, <2>1, RemovalLoses DEF OnlyLoses
  <2> QED
    BY <2>2
<1>8. CASE DeliverRaises
  BY <1>8, <1>a DEF DeliverRaises
<1> QED
  BY NextCases, <1>1, <1>2, <1>3, <1>4, <1>5, <1>6, <1>7, <1>8

\* Every step of either process preserves the invariant on UIDs.
LEMMA NextUidInv == UidInv /\ [Next]_vars => UidInv'
<1> SUFFICES ASSUME UidInv, [Next]_vars PROVE UidInv'
  OBVIOUS
<1> USE DEF disk, imapVars, history, vars
<1>a. TypeInv' /\ SmtpStays'
  BY NextTypeInv, NextSmtpStays DEF UidInv
<1>b. pc \in [Procs -> Steps] /\ "imap" \in Procs
  BY DEF UidInv, TypeInv, TypeOK, Procs
<1>1. ASSUME NEW mb \in SmtpBoxes, StartDeliver(mb) PROVE UidInv'
  <2>1. UNCHANGED <<pc["imap"], box["imap"], data["imap"], held["imap"], imapVars, seen, uidlist>>
    BY <1>1, <1>b DEF StartDeliver, UidInv, TypeInv, TypeOK
  <2> QED
    BY <1>a, <2>1, Elsewhere
<1>2. ASSUME NEW s, NEW mb, NEW dst, NEW uid, NEW arg, StartImap(s, mb, dst, uid, arg) PROVE UidInv'
  <2>1. ListsSound' /\ PrivateUidNeverReused'
    BY <1>2, NoRewrite DEF StartImap
  <2>2. pc'["imap"] \in QuietSteps
    BY <1>2, <1>b DEF StartImap, QuietSteps
  <2> QED
    BY <1>a, <2>1, <2>2, Quiet
<1>3. ASSUME NEW p \in Procs, SharedStep(p) \/ Fail(p) PROVE UidInv'
  BY <1>3, <1>a, SharedUidInv
<1>4. CASE ImapStep
  BY <1>4, <1>a, ImapUidInv
<1>5. ASSUME NEW mb, ManualDrop(mb) PROVE UidInv'
  <2>1. /\ UNCHANGED <<pc["imap"], box["imap"], data["imap"], held["imap"], imapVars, seen>>
        /\ \A b \in PrivateBoxes : UNCHANGED uidlist[b]
    BY <1>5 DEF ManualDrop
  <2> QED
    BY <1>a, <2>1, Elsewhere
<1>6. CASE UNCHANGED vars
  <2>1. /\ UNCHANGED <<pc["imap"], box["imap"], data["imap"], held["imap"], imapVars, seen>>
        /\ \A b \in PrivateBoxes : UNCHANGED uidlist[b]
    BY <1>6
  <2> QED
    BY <1>a, <2>1, Elsewhere
<1>7. CASE Removal
  <2>1. TypeOK
    BY DEF UidInv, TypeInv
  <2>2. PICK mb \in Mailboxes : OnlyLoses(mb)
    BY <1>7, <2>1, RemovalLoses
  <2>3. NoUidlist.map = {}
    BY DEF NoUidlist
  <2>4. \A b \in PrivateBoxes :
          \/ UNCHANGED uidlist[b] /\ {s \in seen' : s.box = b} \subseteq seen
          \/ uidlist'[b].map = {} /\ {s \in seen' : s.box = b} = {}
    BY <2>2, <2>3 DEF OnlyLoses, ForgetShown, PrivateBoxes
  <2>5. ListsSound'
    BY <2>4 DEF UidInv, ListsSound, Sound, AgreesWithSeen
  <2>6. seen' \subseteq seen
    BY <2>2 DEF OnlyLoses, ForgetShown
  <2>7. PrivateUidNeverReused'
    BY <2>6 DEF UidInv, PrivateUidNeverReused, NeverReused
  <2>8. pc'["imap"] \in QuietSteps
    BY <2>2 DEF OnlyLoses, QuietSteps
  <2> QED
    BY <1>a, <2>5, <2>7, <2>8, Quiet
<1>8. CASE DeliverRaises
  <2>1. /\ UNCHANGED <<pc["imap"], box["imap"], data["imap"], held["imap"], imapVars, seen>>
        /\ \A b \in PrivateBoxes : UNCHANGED uidlist[b]
    BY <1>8, <1>b DEF DeliverRaises
  <2> QED
    BY <1>a, <2>1, Elsewhere
<1> QED
  BY NextCases, <1>1, <1>2, <1>3, <1>4, <1>5, <1>6, <1>7, <1>8 DEF SharedStep

\* In a mailbox only the IMAP process touches, a UID an IMAP command ever saw
\* never names another message, for any mailboxes, flags, number of messages
\* and number of exceptions and crashes between any two file operations.
THEOREM UidsNeverReused == Spec => []PrivateUidNeverReused
<1>1. Spec => []UidInv
  BY InitUidInv, NextUidInv, PTL DEF Spec
<1>2. UidInv => PrivateUidNeverReused
  BY DEF UidInv
<1> QED
  BY <1>1, <1>2, PTL

\* Where no SMTP server delivers, no uidlist.json ever gives one UID to two
\* files: every listing shows each message under a UID of its own.
THEOREM UidlistsInjective ==
    ASSUME SmtpBoxes = {}
    PROVE  Spec => []UidlistInjective
<1>1. Spec => []UidInv
  BY InitUidInv, NextUidInv, PTL DEF Spec
<1>2. UidInv => UidlistInjective
  BY DEF UidInv, ListsSound, Sound, UidlistInjective, PrivateBoxes
<1> QED
  BY <1>1, <1>2, PTL

=============================================================================
