------------------------------ MODULE JsonFile ------------------------------
(***************************************************************************)
(* How uidlist.json and accounts.json are written and read                 *)
(* (_write_uidlist and _read_uidlist of storage/maildir_backend.py,        *)
(* _write_all and _read_all of accounts/store.py): the document is dumped  *)
(* into <path>.tmp, always the same name, and os.replace puts it in place. *)
(*                                                                         *)
(* A process saves or loads one document at a time, under its own lock;    *)
(* nothing but the file system orders the steps of two processes.  The     *)
(* text of a document is a number of equal blocks, the writes the file     *)
(* object makes when its buffer is full and when it is closed.             *)
(***************************************************************************)
EXTENDS Naturals, FiniteSets

CONSTANTS
    Procs,     \* the processes that use the file
    Savers,    \* those that ever save
    Values,    \* the documents
    Length,    \* document -> its length in blocks
    Nothing,   \* what a load makes of an absent or empty file: for
               \* accounts.json the document {}, for uidlist.json Broken
    Broken,    \* a load that raises, on a text that is no JSON document
    Hole,      \* a block no write has filled
    Inodes,    \* inode numbers
    NoInode    \* a name that does not exist

ASSUME FileAssumption ==
    /\ Savers \subseteq Procs
    /\ Length \in [Values -> Nat \ {0}]
    /\ Nothing \in Values \union {Broken}
    /\ Broken \notin Values /\ Hole \notin Values
    /\ NoInode \notin Inodes

VARIABLES
    live,        \* the inode of path
    tmp,         \* the inode of path.tmp
    content,     \* inode -> its blocks
    pc,          \* process -> what it is doing
    fd,          \* process -> the inode it has open
    text,        \* process -> the document it is dumping
    written,     \* process -> the blocks it has written
    loaded,      \* process -> the result of its last load
    overlapped   \* history: two processes were saving at the same time

vars == <<live, tmp, content, pc, fd, text, written, loaded, overlapped>>

\* The first n blocks of the text of v, and the whole text.
Prefix(v, n) == [i \in 1..n |-> v]
Text(v) == Prefix(v, Length[v])
Empty == [i \in {} |-> Hole]

Whole(c) == \E v \in Values : c = Text(v)

\* What json.load makes of a content.
Decode(c) ==
    IF DOMAIN c = {} THEN Nothing
    ELSE IF Whole(c) THEN CHOOSE v \in Values : c = Text(v)
    ELSE Broken

\* Writing a block of v at position i; the space before it may be a hole.
Overwrite(c, i, v) ==
    [k \in DOMAIN c \union 1..i |->
        IF k = i THEN v ELSE IF k \in DOMAIN c THEN c[k] ELSE Hole]

TypeOK ==
    /\ live \in Inodes \union {NoInode}
    /\ tmp \in Inodes \union {NoInode}
    /\ DOMAIN content = Inodes
    /\ \A i \in Inodes : \A k \in DOMAIN content[i] : k \in Nat /\ content[i][k] \in Values \union {Hole}
    /\ pc \in [Procs -> {"idle", "dump", "read"}]
    /\ fd \in [Procs -> Inodes \union {NoInode}]
    /\ text \in [Procs -> Values]
    /\ \A p \in Procs : written[p] \in 0 .. Length[text[p]]
    /\ loaded \in [Procs -> Values \union {Nothing, Broken}]
    /\ overlapped \in BOOLEAN

Init ==
    /\ live = NoInode /\ tmp = NoInode
    /\ content = [i \in Inodes |-> Empty]
    /\ pc = [p \in Procs |-> "idle"]
    /\ fd = [p \in Procs |-> NoInode]
    /\ text \in [Procs -> Values]
    /\ written = [p \in Procs |-> 0]
    /\ loaded = [p \in Procs |-> Nothing]
    /\ overlapped = FALSE

\* An inode lives as long as a name or an open file refers to it.
Unused == Inodes \ ({live, tmp} \union {fd[p] : p \in {q \in Procs : pc[q] # "idle"}})

\* Mutant: the temporary file is opened without truncating it.
OpenTmpKeeping(p, v) ==
    /\ pc[p] = "idle" /\ p \in Savers
    /\ IF tmp = NoInode THEN tmp' \in Unused ELSE tmp' = tmp
    /\ content' = IF tmp = NoInode THEN [content EXCEPT ![tmp'] = Empty] ELSE content
    /\ fd' = [fd EXCEPT ![p] = tmp']
    /\ text' = [text EXCEPT ![p] = v]
    /\ written' = [written EXCEPT ![p] = 0]
    /\ overlapped' = (overlapped \/ \E q \in Procs \ {p} : pc[q] = "dump")
    /\ pc' = [pc EXCEPT ![p] = "dump"]
    /\ UNCHANGED <<live, loaded>>

\* open(tmp_path, "w"): creates the file, or truncates the one that is there,
\* left by a crash or still open in another process.
OpenTmp(p, v) ==
    /\ pc[p] = "idle" /\ p \in Savers
    /\ IF tmp = NoInode THEN tmp' \in Unused ELSE tmp' = tmp
    /\ content' = [content EXCEPT ![tmp'] = Empty]
    /\ fd' = [fd EXCEPT ![p] = tmp']
    /\ text' = [text EXCEPT ![p] = v]
    /\ written' = [written EXCEPT ![p] = 0]
    /\ overlapped' = (overlapped \/ \E q \in Procs \ {p} : pc[q] = "dump")
    /\ pc' = [pc EXCEPT ![p] = "dump"]
    /\ UNCHANGED <<live, loaded>>

\* Mutant: one block too many.
DumpTooFar(p) ==
    /\ pc[p] = "dump" /\ written[p] <= Length[text[p]]
    /\ content' = [content EXCEPT ![fd[p]] = Overwrite(@, written[p] + 1, text[p])]
    /\ written' = [written EXCEPT ![p] = @ + 1]
    /\ UNCHANGED <<live, tmp, pc, fd, text, loaded, overlapped>>

\* json.dump, and the flush when the with block closes the file.
Dump(p) ==
    /\ pc[p] = "dump" /\ written[p] < Length[text[p]]
    /\ content' = [content EXCEPT ![fd[p]] = Overwrite(@, written[p] + 1, text[p])]
    /\ written' = [written EXCEPT ![p] = @ + 1]
    /\ UNCHANGED <<live, tmp, pc, fd, text, loaded, overlapped>>

Dumped(p) == pc[p] = "dump" /\ written[p] = Length[text[p]]

\* Mutant: os.replace inside the with block, before the file is flushed.
ReplaceUnflushed(p) ==
    /\ pc[p] = "dump" /\ tmp # NoInode
    /\ live' = tmp /\ tmp' = NoInode
    /\ pc' = [pc EXCEPT ![p] = "idle"]
    /\ UNCHANGED <<content, fd, text, written, loaded, overlapped>>

\* os.replace(tmp_path, path).
Replace(p) ==
    /\ Dumped(p) /\ tmp # NoInode
    /\ live' = tmp /\ tmp' = NoInode
    /\ pc' = [pc EXCEPT ![p] = "idle"]
    /\ UNCHANGED <<content, fd, text, written, loaded, overlapped>>

\* FileNotFoundError: another process has already moved the file away.
ReplaceFails(p) ==
    /\ Dumped(p) /\ tmp = NoInode
    /\ pc' = [pc EXCEPT ![p] = "idle"]
    /\ UNCHANGED <<live, tmp, content, fd, text, written, loaded, overlapped>>

\* open(path, "r"), and then the reading and parsing of what it holds.
OpenLive(p) ==
    /\ pc[p] = "idle" /\ live # NoInode
    /\ fd' = [fd EXCEPT ![p] = live]
    /\ pc' = [pc EXCEPT ![p] = "read"]
    /\ UNCHANGED <<live, tmp, content, text, written, loaded, overlapped>>

Read(p) ==
    /\ pc[p] = "read"
    /\ loaded' = [loaded EXCEPT ![p] = Decode(content[fd[p]])]
    /\ pc' = [pc EXCEPT ![p] = "idle"]
    /\ UNCHANGED <<live, tmp, content, fd, text, written, overlapped>>

LoadMissing(p) ==
    /\ pc[p] = "idle" /\ live = NoInode
    /\ loaded' = [loaded EXCEPT ![p] = Nothing]
    /\ UNCHANGED <<live, tmp, content, pc, fd, text, written, overlapped>>

\* The process crashes, or an I/O error ends the save or the load.
Fail(p) ==
    /\ pc[p] # "idle"
    /\ pc' = [pc EXCEPT ![p] = "idle"]
    /\ loaded' = [loaded EXCEPT ![p] = Nothing]
    /\ UNCHANGED <<live, tmp, content, fd, text, written, overlapped>>

Next ==
    \E p \in Procs :
        \/ \E v \in Values : OpenTmp(p, v)
        \/ Dump(p) \/ Replace(p) \/ ReplaceFails(p)
        \/ OpenLive(p) \/ Read(p) \/ LoadMissing(p)
        \/ Fail(p)

Spec == Init /\ [][Next]_vars

(***************************************************************************)
(* Properties.                                                             *)
(***************************************************************************)

\* The file is a whole document, and so is what every reader has open:
\* whatever crashes interrupt a save.
LiveWhole ==
    /\ live # NoInode => Whole(content[live])
    /\ \A p \in Procs : pc[p] = "read" => Whole(content[fd[p]])

\* Only two saves under way at the same time can tear it.
WholeUnlessOverlapped == ~overlapped => LiveWhole

\* The register whose value changes at os.replace, and whose loads take place
\* when the file is opened.
Register == INSTANCE Register WITH
    value  <- IF live = NoInode THEN Nothing ELSE Decode(content[live]),
    loaded <- [p \in Procs |-> IF pc[p] = "read" THEN Decode(content[fd[p]]) ELSE loaded[p]]

\* Until two saves overlap, whatever crashes interrupt them, every save and
\* load of every process is a step of the register: a save takes effect at
\* once, a load returns the last document saved and never fails to parse.
RegisterUntilOverlap == Register!Init /\ [][overlapped' \/ Register!Next]_(Register!vars)

\* The same without condition: what a file with one saving process is.
IsRegister == Register!Spec
=============================================================================
