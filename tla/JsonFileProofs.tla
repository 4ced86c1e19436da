--------------------------- MODULE JsonFileProofs ---------------------------
(***************************************************************************)
(* What holds of the two JSON files for every number of processes and      *)
(* every document: until two saves overlap, and therefore always when one   *)
(* process saves, it is whole and implements an atomic register.           *)
(***************************************************************************)
EXTENDS JsonFile, TLAPS

(***************************************************************************)
(* Documents and their texts.                                              *)
(***************************************************************************)

\* An opened temporary file holds the first zero blocks of any document.
LEMMA EmptyPrefix == \A v : Empty = Prefix(v, 0)
  BY DEF Empty, Prefix

\* Writing the next block of a prefix gives the next prefix.
LEMMA NextBlock ==
  ASSUME NEW v, NEW n \in Nat
  PROVE  Overwrite(Prefix(v, n), n + 1, v) = Prefix(v, n + 1)
  <1>1. DOMAIN Prefix(v, n) = 1..n  BY DEF Prefix
  <1>2. 1..n \union 1..(n + 1) = 1..(n + 1)  OBVIOUS
  <1>3. \A k \in 1..n : Prefix(v, n)[k] = v  BY DEF Prefix
  <1>4. \A k \in 1..(n + 1) : k = n + 1 \/ k \in 1..n  OBVIOUS
  <1> QED  BY <1>1, <1>2, <1>3, <1>4 DEF Overwrite, Prefix

\* Two documents have different texts: json.load gives back what was dumped.
LEMMA DecodeText == \A v \in Values : Decode(Text(v)) = v
  <1> SUFFICES ASSUME NEW v \in Values PROVE Decode(Text(v)) = v  OBVIOUS
  <1>1. \A w \in Values : 1 \in 1..Length[w]  BY FileAssumption
  <1>2. \A w \in Values : 1 \in DOMAIN Text(w) /\ Text(w)[1] = w
    BY <1>1 DEF Text, Prefix
  <1>3. \A w \in Values : Text(v) = Text(w) => w = v
    <2> SUFFICES ASSUME NEW w \in Values, Text(v) = Text(w) PROVE w = v  OBVIOUS
    <2>1. Text(v)[1] = v /\ Text(w)[1] = w  BY <1>2
    <2> QED  BY <2>1
  <1>4. (CHOOSE w \in Values : Text(v) = Text(w)) = v  BY <1>3
  <1>5. DOMAIN Text(v) # {}  BY <1>2
  <1>6. Whole(Text(v))  BY DEF Whole
  <1> QED  BY <1>4, <1>5, <1>6 DEF Decode

(***************************************************************************)
(* The inductive invariant.                                                *)
(***************************************************************************)

\* Shape of the state; a process that saves or loads has a file open.
Shape ==
    /\ live \in Inodes \union {NoInode}
    /\ tmp \in Inodes \union {NoInode}
    /\ DOMAIN content = Inodes
    /\ pc \in [Procs -> {"idle", "dump", "read"}]
    /\ fd \in [Procs -> Inodes \union {NoInode}]
    /\ text \in [Procs -> Values]
    /\ written \in [Procs -> Nat]
    /\ overlapped \in BOOLEAN
    /\ loaded \in [Procs -> Values \union {Nothing, Broken}]
    /\ \A p \in Procs : pc[p] # "idle" => fd[p] \in Inodes

\* While no two saves overlap: the temporary file is not the live file nor
\* one that a reader has open, and it holds what its only writer has written.
Apart ==
    /\ tmp # NoInode => tmp # live
    /\ \A p \in Procs : pc[p] = "read" => fd[p] # tmp
OneWriter ==
    /\ \A p, q \in Procs : pc[p] = "dump" /\ pc[q] = "dump" => p = q
    /\ \A p \in Procs : pc[p] = "dump" =>
          /\ fd[p] = tmp
          /\ written[p] <= Length[text[p]]
          /\ content[tmp] = Prefix(text[p], written[p])

Inv == Shape /\ (~overlapped => LiveWhole /\ Apart /\ OneWriter)

\* Nothing is open and no file exists when the servers first start.
LEMMA InitInv == Init => Inv
  <1> SUFFICES ASSUME Init PROVE Inv  OBVIOUS
  <1>1. \A p \in Procs : pc[p] = "idle"  BY DEF Init
  <1>2. Shape  BY <1>1, FileAssumption DEF Init, Shape
  <1>3. LiveWhole /\ Apart /\ OneWriter
    BY <1>1 DEF Init, LiveWhole, Apart, OneWriter
  <1> QED  BY <1>2, <1>3 DEF Inv

\* open("w") truncates a file that no reader and no name `live` refers to.
LEMMA OpenTmpInv ==
  ASSUME Inv, NEW p \in Procs, NEW v \in Values, OpenTmp(p, v)
  PROVE  Inv'
  <1>1. tmp' \in Inodes /\ (tmp = NoInode => tmp' \in Unused) /\ (tmp # NoInode => tmp' = tmp)
    BY DEF OpenTmp, Inv, Shape, Unused
  <1>2. Shape'  BY <1>1 DEF OpenTmp, Inv, Shape
  <1> SUFFICES ASSUME ~overlapped' PROVE (LiveWhole /\ Apart /\ OneWriter)'
    BY <1>2 DEF Inv
  <1>3. ~overlapped /\ \A q \in Procs \ {p} : pc[q] # "dump"
    BY DEF OpenTmp, Inv, Shape
  <1>4. tmp' # NoInode  BY <1>1, FileAssumption
  <1>5. \A q \in Procs : pc[q] = "read" => fd[q] # tmp'
    BY <1>1, <1>3 DEF Inv, Apart, Unused
  <1>6. tmp' # live  BY <1>1, <1>3 DEF Inv, Apart, Unused
  <1>7. \A i \in Inodes : i # tmp' => content'[i] = content[i]
    BY DEF OpenTmp, Inv, Shape
  <1>8. content'[tmp'] = Empty  BY <1>1 DEF OpenTmp, Inv, Shape
  <1>9. /\ pc'[p] = "dump" /\ fd'[p] = tmp' /\ written'[p] = 0 /\ text'[p] = v
        /\ \A q \in Procs \ {p} : pc'[q] = pc[q] /\ fd'[q] = fd[q]
    BY DEF OpenTmp, Inv, Shape
  <1>10. LiveWhole'
    <2>1. live' # NoInode => Whole(content'[live'])
      BY <1>3, <1>6, <1>7 DEF OpenTmp, Inv, Shape, LiveWhole
    <2>2. \A q \in Procs : pc'[q] = "read" => Whole(content'[fd'[q]])
      BY <1>3, <1>5, <1>7, <1>9 DEF Inv, Shape, LiveWhole
    <2> QED  BY <2>1, <2>2 DEF LiveWhole, Whole
  <1>11. Apart'  BY <1>4, <1>5, <1>6, <1>9 DEF Apart, OpenTmp
  <1>12. OneWriter'
    <2>1. 0 <= Length[v]  BY FileAssumption
    <2>2. content'[tmp'] = Prefix(text'[p], written'[p])  BY <1>8, <1>9, EmptyPrefix
    <2> QED  BY <1>3, <1>9, <2>1, <2>2 DEF OneWriter
  <1> QED  BY <1>10, <1>11, <1>12

\* A block goes to the temporary file, which nobody else has open.
LEMMA DumpInv ==
  ASSUME Inv, NEW p \in Procs, Dump(p)
  PROVE  Inv'
  <1>1. Shape'  BY DEF Dump, Inv, Shape
  <1> SUFFICES ASSUME ~overlapped' PROVE (LiveWhole /\ Apart /\ OneWriter)'
    BY <1>1 DEF Inv
  <1>2. ~overlapped  BY DEF Dump
  <1>3. fd[p] = tmp /\ tmp \in Inodes /\ content[tmp] = Prefix(text[p], written[p])
    BY <1>2 DEF Dump, Inv, Shape, OneWriter
  <1>4. \A i \in Inodes : i # tmp => content'[i] = content[i]
    BY <1>3 DEF Dump, Inv, Shape
  <1>5. content'[tmp] = Prefix(text[p], written[p] + 1)
    <2>1. content'[tmp] = Overwrite(content[tmp], written[p] + 1, text[p])
      BY <1>3 DEF Dump, Inv, Shape
    <2>2. written[p] \in Nat  BY DEF Inv, Shape
    <2> QED  BY <2>1, <2>2, <1>3, NextBlock
  <1>6. LiveWhole'
    <2>1. live' # NoInode => Whole(content'[live'])
      BY <1>2, <1>3, <1>4, FileAssumption DEF Dump, Inv, Shape, LiveWhole, Apart
    <2>2. \A q \in Procs : pc'[q] = "read" => Whole(content'[fd'[q]])
      BY <1>2, <1>4 DEF Dump, Inv, Shape, LiveWhole, Apart
    <2> QED  BY <2>1, <2>2 DEF LiveWhole, Whole
  <1>7. Apart'  BY <1>2 DEF Dump, Inv, Apart
  <1>8. OneWriter'
    <2>1. written[p] + 1 <= Length[text[p]]
      BY FileAssumption DEF Dump, Inv, Shape
    <2>2. written'[p] = written[p] + 1  BY DEF Dump, Inv, Shape
    <2>3. \A q \in Procs : pc[q] = "dump" => q = p
      BY <1>2 DEF Dump, Inv, OneWriter
    <2>4. fd' = fd /\ tmp' = tmp /\ text' = text /\ pc' = pc  BY DEF Dump
    <2> QED  BY <1>3, <1>5, <2>1, <2>2, <2>3, <2>4 DEF OneWriter
  <1> QED  BY <1>6, <1>7, <1>8

\* os.replace puts a whole document in place.
LEMMA ReplaceInv ==
  ASSUME Inv, NEW p \in Procs, Replace(p)
  PROVE  Inv'
  <1>1. Shape'  BY DEF Replace, Dumped, Inv, Shape
  <1> SUFFICES ASSUME ~overlapped' PROVE (LiveWhole /\ Apart /\ OneWriter)'
    BY <1>1 DEF Inv
  <1>2. ~overlapped  BY DEF Replace
  <1>3. Whole(content[tmp])
    <2>1. content[tmp] = Text(text[p])
      BY <1>2 DEF Replace, Dumped, Inv, OneWriter, Text
    <2> QED  BY <2>1 DEF Whole, Inv, Shape
  <1>4. \A q \in Procs : pc'[q] # "dump"
    BY <1>2 DEF Replace, Dumped, Inv, Shape, OneWriter
  <1>5. \A q \in Procs : pc'[q] = "read" => pc[q] = "read"
    BY DEF Replace, Inv, Shape
  <1>6. LiveWhole'
    BY <1>2, <1>3, <1>5 DEF Replace, Inv, LiveWhole, Whole
  <1>7. Apart'
    BY <1>5, FileAssumption DEF Replace, Inv, Shape, Apart
  <1> QED  BY <1>4, <1>6, <1>7 DEF OneWriter

\* A load opens the live file, which the next saves leave as it is.
LEMMA OpenLiveInv ==
  ASSUME Inv, NEW p \in Procs, OpenLive(p)
  PROVE  Inv'
  <1>1. Shape'  BY DEF OpenLive, Inv, Shape
  <1> SUFFICES ASSUME ~overlapped' PROVE (LiveWhole /\ Apart /\ OneWriter)'
    BY <1>1 DEF Inv
  <1>2. ~overlapped  BY DEF OpenLive
  <1>3. /\ fd'[p] = live /\ pc'[p] = "read"
        /\ \A q \in Procs \ {p} : pc'[q] = pc[q] /\ fd'[q] = fd[q]
    BY DEF OpenLive, Inv, Shape
  <1>4. LiveWhole'
    BY <1>2, <1>3 DEF OpenLive, Inv, LiveWhole, Whole
  <1>5. Apart'
    BY <1>2, <1>3 DEF OpenLive, Inv, Apart
  <1>6. OneWriter'
    BY <1>2, <1>3 DEF OpenLive, Inv, OneWriter
  <1> QED  BY <1>4, <1>5, <1>6

\* The steps that end a save or a load, or find no file, touch no file.
LEMMA EndInv ==
  ASSUME Inv, NEW p \in Procs,
         ReplaceFails(p) \/ Read(p) \/ LoadMissing(p) \/ Fail(p)
  PROVE  Inv'
  <1>1. /\ UNCHANGED <<live, tmp, content, fd, text, written, overlapped>>
        /\ pc' \in [Procs -> {"idle", "dump", "read"}]
        /\ \A q \in Procs : pc'[q] \in {pc[q], "idle"}
    BY DEF ReplaceFails, Read, LoadMissing, Fail, Inv, Shape
  <1>2. loaded' \in [Procs -> Values \union {Nothing, Broken}]
    <2>1. \A c : Decode(c) \in Values \union {Nothing, Broken}
      <3> SUFFICES ASSUME NEW c PROVE Decode(c) \in Values \union {Nothing, Broken}
        OBVIOUS
      <3>1. CASE Whole(c)  BY <3>1 DEF Decode, Whole
      <3>2. CASE ~Whole(c)  BY <3>2 DEF Decode
      <3> QED  BY <3>1, <3>2
    <2> QED  BY <2>1 DEF ReplaceFails, Read, LoadMissing, Fail, Inv, Shape
  <1>3. Shape'  BY <1>1, <1>2 DEF Inv, Shape
  <1>4. (LiveWhole /\ Apart /\ OneWriter) => (LiveWhole /\ Apart /\ OneWriter)'
    BY <1>1 DEF LiveWhole, Apart, OneWriter, Whole
  <1> QED  BY <1>1, <1>3, <1>4 DEF Inv

\* Every step of every process keeps the invariant.
LEMMA NextInv == Inv /\ [Next]_vars => Inv'
  <1> SUFFICES ASSUME Inv, [Next]_vars PROVE Inv'  OBVIOUS
  <1>1. CASE UNCHANGED vars
    BY <1>1 DEF vars, Inv, Shape, LiveWhole, Whole, Apart, OneWriter
  <1>2. CASE Next
    BY <1>2, OpenTmpInv, DumpInv, ReplaceInv, OpenLiveInv, EndInv DEF Next
  <1> QED  BY <1>1, <1>2

\* Without two saves under way at once, path is a whole document and so is
\* what every reader has open, wherever the saves before were interrupted.
THEOREM TornOnlyByOverlap == Spec => []WholeUnlessOverlapped
  <1>1. Inv => WholeUnlessOverlapped  BY DEF Inv, WholeUnlessOverlapped
  <1> QED  BY <1>1, InitInv, NextInv, PTL DEF Spec

(***************************************************************************)
(* Until two saves overlap the file is a register.                         *)
(***************************************************************************)

\* The refinement mapping: a load counts as done once it has opened the file.
Value == IF live = NoInode THEN Nothing ELSE Decode(content[live])
Loaded == [p \in Procs |-> IF pc[p] = "read" THEN Decode(content[fd[p]]) ELSE loaded[p]]

\* The mapped state starts as the register does.
LEMMA InitMaps == Init => Register!Init
  BY DEF Init, Register!Init

\* A save is invisible until os.replace: opening and dumping the temporary
\* file change neither the live document nor what a reader has open.
LEMMA SaveHidden ==
  ASSUME Inv, Inv', ~overlapped', NEW p \in Procs,
         (\E v \in Values : OpenTmp(p, v)) \/ Dump(p)
  PROVE  Value' = Value /\ Loaded' = Loaded
  <1>1. ~overlapped  BY DEF OpenTmp, Dump
  <1>2. tmp' \in Inodes /\ live' = live /\ loaded' = loaded
    BY <1>1 DEF OpenTmp, Dump, Inv, Shape, Unused, OneWriter
  <1>3. \A i \in Inodes : i # tmp' => content'[i] = content[i]
    BY <1>1 DEF OpenTmp, Dump, Inv, Shape, OneWriter
  <1>4. live # NoInode => live # tmp' /\ live \in Inodes
    BY <1>2, FileAssumption DEF Inv, Apart, Shape
  <1>5. \A q \in Procs : (pc'[q] = "read") = (pc[q] = "read")
    BY DEF OpenTmp, Dump, Inv, Shape
  <1>6. \A q \in Procs : pc'[q] = "read" =>
           fd'[q] = fd[q] /\ fd[q] \in Inodes /\ fd[q] # tmp'
    <2>1. \A q \in Procs : pc'[q] = "read" => fd'[q] \in Inodes /\ fd'[q] # tmp'
      BY DEF Inv, Apart, Shape
    <2>2. \A q \in Procs : pc'[q] = "read" => fd'[q] = fd[q]
      BY DEF OpenTmp, Dump, Inv, Shape
    <2> QED  BY <2>1, <2>2
  <1>7. Value' = Value  BY <1>2, <1>3, <1>4 DEF Value
  <1>8. \A q \in Procs : pc'[q] = "read" => content'[fd'[q]] = content[fd[q]]
    BY <1>3, <1>6
  <1>9. \A q \in Procs :
          (IF pc'[q] = "read" THEN Decode(content'[fd'[q]]) ELSE loaded'[q])
          = (IF pc[q] = "read" THEN Decode(content[fd[q]]) ELSE loaded[q])
    BY <1>2, <1>5, <1>8
  <1>10. Loaded' = Loaded  BY <1>9 DEF Loaded
  <1> QED  BY <1>7, <1>10

\* os.replace is the instant at which the register takes the new document.
LEMMA ReplaceSaves ==
  ASSUME Inv, ~overlapped, NEW p \in Procs, Replace(p)
  PROVE  Value' = text[p] /\ text[p] \in Values /\ Loaded' = Loaded
  <1>1. content[tmp] = Text(text[p]) /\ text[p] \in Values
    BY DEF Replace, Dumped, Inv, Shape, OneWriter, Text
  <1>2. live' # NoInode /\ content'[live'] = Text(text[p])
    BY <1>1 DEF Replace
  <1>3. Value' = Decode(Text(text[p]))  BY <1>2 DEF Value
  <1>4. \A q \in Procs : (pc'[q] = "read") = (pc[q] = "read")
    BY DEF Replace, Dumped, Inv, Shape
  <1>5. content' = content /\ fd' = fd /\ loaded' = loaded  BY DEF Replace
  <1>6. Loaded' = Loaded  BY <1>4, <1>5 DEF Loaded
  <1> QED  BY <1>1, <1>3, <1>6, DecodeText

\* Opening the live file is the instant of a load.
LEMMA LoadMaps ==
  ASSUME Inv, NEW p \in Procs, OpenLive(p) \/ LoadMissing(p)
  PROVE  Value' = Value /\ Loaded' = [Loaded EXCEPT ![p] = Value]
  <1>1. Value' = Value  BY DEF OpenLive, LoadMissing, Value
  <1>2. \A q \in Procs \ {p} : pc'[q] = pc[q] /\ fd'[q] = fd[q] /\ loaded'[q] = loaded[q]
    BY DEF OpenLive, LoadMissing, Inv, Shape
  <1>3. content' = content  BY DEF OpenLive, LoadMissing
  <1>4. (IF pc'[p] = "read" THEN Decode(content'[fd'[p]]) ELSE loaded'[p]) = Value
    <2>1. CASE OpenLive(p)
      BY <2>1 DEF OpenLive, Inv, Shape, Value
    <2>2. CASE LoadMissing(p)
      BY <2>2 DEF LoadMissing, Inv, Shape, Value
    <2> QED  BY <2>1, <2>2
  <1>5. Loaded' = [Loaded EXCEPT ![p] = Value]
    BY <1>2, <1>3, <1>4 DEF Loaded
  <1> QED  BY <1>1, <1>5

\* Parsing what was opened, or a replace that failed, changes nothing more.
LEMMA EndMaps ==
  ASSUME Inv, NEW p \in Procs, Read(p) \/ ReplaceFails(p)
  PROVE  Value' = Value /\ Loaded' = Loaded
  <1>1. Value' = Value  BY DEF Read, ReplaceFails, Value
  <1>2. \A q \in Procs \ {p} : pc'[q] = pc[q] /\ fd'[q] = fd[q] /\ loaded'[q] = loaded[q]
    BY DEF Read, ReplaceFails, Inv, Shape
  <1>3. content' = content  BY DEF Read, ReplaceFails
  <1>4. (IF pc'[p] = "read" THEN Decode(content'[fd'[p]]) ELSE loaded'[p])
        = (IF pc[p] = "read" THEN Decode(content[fd[p]]) ELSE loaded[p])
    BY DEF Read, ReplaceFails, Dumped, Inv, Shape
  <1> QED  BY <1>1, <1>2, <1>3, <1>4 DEF Loaded

\* A crash forgets what the process had loaded, and no document.
LEMMA FailMaps ==
  ASSUME Inv, NEW p \in Procs, Fail(p)
  PROVE  Value' = Value /\ Loaded' = [Loaded EXCEPT ![p] = Nothing]
  <1>1. Value' = Value  BY DEF Fail, Value
  <1>2. /\ pc'[p] = "idle" /\ loaded'[p] = Nothing /\ content' = content /\ fd' = fd
        /\ \A q \in Procs \ {p} : pc'[q] = pc[q] /\ loaded'[q] = loaded[q]
    BY DEF Fail, Inv, Shape
  <1> QED  BY <1>1, <1>2 DEF Loaded

\* Every step is a step of the register or leaves it as it is.
LEMMA NextMaps ==
  ASSUME Inv, Inv', ~overlapped, ~overlapped', [Next]_vars
  PROVE  [Register!Next]_(Register!vars)
  <1> USE DEF Value, Loaded, Register!vars, Register!Next
  <1>1. CASE UNCHANGED vars  BY <1>1 DEF vars
  <1>2. ASSUME NEW p \in Procs, (\E v \in Values : OpenTmp(p, v)) \/ Dump(p)
        PROVE UNCHANGED Register!vars
    BY <1>2, SaveHidden
  <1>3. ASSUME NEW p \in Procs, Replace(p) PROVE Register!Next
    BY <1>3, ReplaceSaves DEF Register!Save
  <1>4. ASSUME NEW p \in Procs, OpenLive(p) \/ LoadMissing(p) PROVE Register!Next
    BY <1>4, LoadMaps DEF Register!Load
  <1>5. ASSUME NEW p \in Procs, Read(p) \/ ReplaceFails(p) PROVE UNCHANGED Register!vars
    BY <1>5, EndMaps
  <1>6. ASSUME NEW p \in Procs, Fail(p) PROVE Register!Next
    BY <1>6, FailMaps DEF Register!Forget
  <1> QED  BY <1>1, <1>2, <1>3, <1>4, <1>5, <1>6 DEF Next

\* Until two saves overlap, saves and loads of any number of processes, which
\* crash wherever they like, are those of an atomic register.
THEOREM SavesAreAtomic == Spec => RegisterUntilOverlap
  <1>1. Init => Inv /\ Register!Init  BY InitInv, InitMaps
  <1>2. Inv /\ [Next]_vars => Inv'  BY NextInv
  <1>3. Inv /\ Inv' /\ [Next]_vars => [overlapped' \/ Register!Next]_(Register!vars)
    <2> SUFFICES ASSUME Inv, Inv', [Next]_vars, ~overlapped'
                 PROVE  [Register!Next]_(Register!vars)
      OBVIOUS
    <2>1. ~overlapped
      BY DEF vars, Next, OpenTmp, Dump, Replace, ReplaceFails, OpenLive, Read, LoadMissing, Fail
    <2> QED  BY <2>1, NextMaps
  <1> QED  BY <1>1, <1>2, <1>3, PTL DEF Spec, RegisterUntilOverlap

(***************************************************************************)
(* Types.                                                                  *)
(***************************************************************************)

\* A block is filled by one of the documents, or by nobody yet.
Blocks(c) == \A k \in DOMAIN c : k \in Nat /\ c[k] \in Values \union {Hole}

Sizes ==
    /\ \A i \in Inodes : Blocks(content[i])
    /\ \A p \in Procs : written[p] \in 0 .. Length[text[p]]

\* Writing one block fills it and makes the blocks skipped before it holes.
LEMMA OverwriteBlocks ==
  ASSUME NEW c, Blocks(c), NEW n \in Nat, NEW v \in Values
  PROVE  Blocks(Overwrite(c, n + 1, v))
  <1>1. DOMAIN Overwrite(c, n + 1, v) = DOMAIN c \union 1..(n + 1)  BY DEF Overwrite
  <1>2. \A k \in DOMAIN c \union 1..(n + 1) :
           Overwrite(c, n + 1, v)[k] =
              IF k = n + 1 THEN v ELSE IF k \in DOMAIN c THEN c[k] ELSE Hole
    BY DEF Overwrite
  <1> QED  BY <1>1, <1>2 DEF Blocks

\* Whoever saves, loads or fails, and whether or not saves overlap, the files
\* hold blocks of documents and no process writes past the end of its own.
THEOREM JsonTypeCorrect == Spec => []TypeOK
  <1>1. Init => Sizes
    BY FileAssumption DEF Init, Sizes, Blocks, Empty
  <1>2. Inv /\ Inv' /\ Sizes /\ [Next]_vars => Sizes'
    <2> SUFFICES ASSUME Inv, Inv', Sizes, [Next]_vars PROVE Sizes'  OBVIOUS
    <2>1. ASSUME NEW p \in Procs, NEW v \in Values, OpenTmp(p, v) PROVE Sizes'
      <3>1. Blocks(Empty)  BY DEF Blocks, Empty
      <3>2. \A i \in Inodes : content'[i] = content[i] \/ content'[i] = Empty
        BY <2>1 DEF OpenTmp, Inv, Shape
      <3>3. \A q \in Procs : \/ written'[q] = 0 /\ text'[q] \in Values
                             \/ written'[q] = written[q] /\ text'[q] = text[q]
        BY <2>1 DEF OpenTmp, Inv, Shape
      <3>4. \A q \in Procs : written'[q] \in 0 .. Length[text'[q]]
        BY <3>3, FileAssumption DEF Sizes
      <3> QED  BY <3>1, <3>2, <3>4 DEF Sizes
    <2>2. ASSUME NEW p \in Procs, Dump(p) PROVE Sizes'
      <3>1. fd[p] \in Inodes /\ text[p] \in Values /\ written[p] \in Nat /\ Length[text[p]] \in Nat
        BY <2>2, FileAssumption DEF Dump, Inv, Shape
      <3>2. Blocks(Overwrite(content[fd[p]], written[p] + 1, text[p]))
        BY <3>1, OverwriteBlocks DEF Sizes
      <3>3. \A i \in Inodes : \/ content'[i] = content[i]
                              \/ content'[i] = Overwrite(content[fd[p]], written[p] + 1, text[p])
        BY <2>2 DEF Dump, Inv, Shape
      <3>4. \A q \in Procs : written'[q] \in 0 .. Length[text'[q]]
        BY <2>2, <3>1 DEF Dump, Inv, Shape, Sizes
      <3> QED  BY <3>2, <3>3, <3>4 DEF Sizes
    <2>3. ASSUME NEW p \in Procs,
                 Replace(p) \/ ReplaceFails(p) \/ OpenLive(p) \/ Read(p) \/ LoadMissing(p) \/ Fail(p)
          PROVE  Sizes'
      <3>1. UNCHANGED <<content, written, text>>
        BY <2>3 DEF Replace, ReplaceFails, OpenLive, Read, LoadMissing, Fail
      <3> QED  BY <3>1 DEF Sizes
    <2>4. CASE UNCHANGED vars  BY <2>4 DEF vars, Sizes
    <2> QED  BY <2>1, <2>2, <2>3, <2>4 DEF Next
  <1>3. Inv /\ Sizes => TypeOK
    BY DEF Inv, Shape, Sizes, Blocks, TypeOK
  <1> QED  BY <1>1, <1>2, <1>3, InitInv, NextInv, PTL DEF Spec

(***************************************************************************)
(* One saving process: the file is a register.                             *)
(***************************************************************************)

\* With one saver no two saves overlap.
Alone ==
    /\ ~overlapped
    /\ \A p \in Procs : pc[p] = "dump" => p \in Savers

\* Only the saver opens the temporary file.
LEMMA AloneStays ==
  ASSUME \A p, q \in Savers : p = q
  PROVE  /\ Init => Alone
         /\ Alone /\ Inv /\ [Next]_vars => Alone'
  <1>1. Init => Alone  BY DEF Init, Alone
  <1> SUFFICES ASSUME Alone, Inv, [Next]_vars PROVE Alone'  BY <1>1
  <1>2. CASE UNCHANGED vars  BY <1>2 DEF vars, Alone
  <1>3. ASSUME NEW p \in Procs, NEW v \in Values, OpenTmp(p, v) PROVE Alone'
    BY <1>3 DEF OpenTmp, Alone, Inv, Shape
  <1>4. ASSUME NEW p \in Procs,
               \/ Dump(p) \/ Replace(p) \/ ReplaceFails(p)
               \/ OpenLive(p) \/ Read(p) \/ LoadMissing(p) \/ Fail(p)
        PROVE Alone'
    <2>1. overlapped' = overlapped /\ \A q \in Procs : pc'[q] = "dump" => pc[q] = "dump"
      BY <1>4 DEF Dump, Replace, ReplaceFails, OpenLive, Read, LoadMissing, Fail, Inv, Shape
    <2> QED  BY <2>1 DEF Alone
  <1> QED  BY <1>2, <1>3, <1>4 DEF Next

\* With one saving process, whatever it crashes in, saves and loads of the
\* file are those of an atomic register: no reader ever meets a partial or an
\* older document.  It is what Maildir.tla assumes of uidlist.json.
THEOREM OneSaverIsRegister ==
  ASSUME \A p, q \in Savers : p = q
  PROVE  Spec => IsRegister
  <1>1. Init => Inv /\ Alone /\ Register!Init  BY InitInv, AloneStays, InitMaps
  <1>2. Inv /\ Alone /\ [Next]_vars => Inv' /\ Alone'  BY NextInv, AloneStays
  <1>3. Inv /\ Inv' /\ Alone /\ Alone' /\ [Next]_vars => [Register!Next]_(Register!vars)
    BY NextMaps DEF Alone
  <1> QED  BY <1>1, <1>2, <1>3, PTL DEF Spec, IsRegister, Register!Spec
=============================================================================
