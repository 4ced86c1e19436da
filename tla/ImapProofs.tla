------------------------------ MODULE ImapProofs ------------------------------
(***************************************************************************)
(* IMAP sessions on shared mailboxes, for any sessions, names, flags,      *)
(* message sets and bounds: what clients were told of UIDs and what they   *)
(* conclude of sequence numbers stays true, \Seen means read, and no       *)
(* message vanishes.                                                       *)
(***************************************************************************)
EXTENDS ImapSession, FiniteSetTheorems, WellFoundedInduction, TLAPS

(***************************************************************************)
(* Induction, on a set of numbers.                                         *)
(***************************************************************************)
LEMMA NatSets == ASSUME NEW S \in SUBSET Nat, 0 \in S, \A n \in S : n + 1 \in S PROVE S = Nat
<1> SUFFICES ASSUME NEW n \in Nat, n \notin S PROVE FALSE
  OBVIOUS
<1>1. PICK x \in Nat \ S : \A y \in Nat \ S : ~(<<y, x>> \in OpToRel(<, Nat))
  <2>1. IsWellFoundedOn(OpToRel(<, Nat), Nat)
    BY NatLessThanWellFounded
  <2> QED
    BY <2>1, WFMin
<1>2. x # 0 /\ x - 1 \in Nat
  OBVIOUS
<1>3. x - 1 \in S
  <2> SUFFICES ASSUME x - 1 \notin S PROVE FALSE
    OBVIOUS
  <2>1. <<x - 1, x>> \in OpToRel(<, Nat)
    BY <1>2 DEF OpToRel
  <2> QED
    BY <1>1, <1>2, <2>1
<1> QED
  BY <1>2, <1>3

(***************************************************************************)
(* Ascending.                                                              *)
(***************************************************************************)
NextUp(S, before, k) == IF k \in S THEN Append(before, k) ELSE before

LEMMA UptoExists ==
    ASSUME NEW S, NEW n \in Nat
    PROVE  \E upto : upto = [k \in 0..n |-> IF k = 0 THEN <<>> ELSE NextUp(S, upto[k - 1], k)]
<1> DEFINE T == {m \in Nat : \E upto :
      upto = [k \in 0..m |-> IF k = 0 THEN <<>> ELSE NextUp(S, upto[k - 1], k)]}
<1>1. 0 \in T
  <2> DEFINE r == [k \in 0..0 |-> <<>>]
  <2>1. r = [k \in 0..0 |-> IF k = 0 THEN <<>> ELSE NextUp(S, r[k - 1], k)]
    OBVIOUS
  <2> QED
    BY <2>1
<1>2. ASSUME NEW m \in T PROVE m + 1 \in T
  <2>1. PICK upto : upto = [k \in 0..m |-> IF k = 0 THEN <<>> ELSE NextUp(S, upto[k - 1], k)]
    OBVIOUS
  <2> DEFINE more == [k \in 0..m + 1 |-> IF k <= m THEN upto[k] ELSE NextUp(S, upto[m], m + 1)]
  <2>2. ASSUME NEW k \in 0..m + 1
        PROVE  more[k] = IF k = 0 THEN <<>> ELSE NextUp(S, more[k - 1], k)
    <3>1. CASE k = 0
      BY <2>1, <3>1
    <3>2. CASE k \in 1..m
      BY <2>1, <3>2
    <3>3. CASE k = m + 1
      BY <3>3
    <3> QED
      BY <3>1, <3>2, <3>3
  <2>3. more = [k \in 0..m + 1 |-> IF k = 0 THEN <<>> ELSE NextUp(S, more[k - 1], k)]
    BY <2>2
  <2>4. \E r : r = [k \in 0..m + 1 |-> IF k = 0 THEN <<>> ELSE NextUp(S, r[k - 1], k)]
    <3> HIDE DEF more
    <3> WITNESS more
    <3> QED
      BY <2>3
  <2>5. m + 1 \in Nat
    OBVIOUS
  <2> QED
    BY <2>4, <2>5, Zenon
<1>3. T = Nat
  <2> HIDE DEF T
  <2>1. T \in SUBSET Nat
    BY DEF T
  <2> QED
    BY <1>1, <1>2, <2>1, NatSets
<1> QED
  BY <1>3

Increasing(a) == \A i, j \in DOMAIN a : i < j => a[i] < a[j]

LEMMA AppendedNumbers ==
    ASSUME NEW a \in Seq(Nat), NEW k \in Nat
    PROVE  /\ Append(a, k) \in Seq(Nat) /\ Len(Append(a, k)) = Len(a) + 1
           /\ \A i \in 1..Len(a) : Append(a, k)[i] = a[i]
           /\ Append(a, k)[Len(a) + 1] = k
OBVIOUS

LEMMA AscendingIs ==
    ASSUME NEW S, NEW n \in Nat
    PROVE  /\ Ascending(S, n) \in Seq(Nat) /\ Increasing(Ascending(S, n))
           /\ \A i \in 1..Len(Ascending(S, n)) : Ascending(S, n)[i] \in S \intersect 1..n
           /\ \A k \in S \intersect 1..n : \E i \in 1..Len(Ascending(S, n)) : Ascending(S, n)[i] = k
<1> DEFINE Is(upto) == upto = [k \in 0..n |-> IF k = 0 THEN <<>> ELSE NextUp(S, upto[k - 1], k)]
           up == CHOOSE upto : Is(upto)
           Fits(a, m) == /\ a \in Seq(Nat) /\ Increasing(a)
                         /\ \A i \in 1..Len(a) : a[i] \in S \intersect 1..m
                         /\ \A k \in S \intersect 1..m : \E i \in 1..Len(a) : a[i] = k
           T == {m \in Nat : m <= n => Fits(up[m], m)}
<1>1. Ascending(S, n) = up[n]
  BY DEF Ascending, NextUp
<1>2. Is(up)
  <2>1. \E upto : Is(upto)
    BY UptoExists, Zenon
  <2> QED
    BY <2>1, Zenon
<1> HIDE DEF up
<1>3. up[0] = <<>> /\ \A k \in 1..n : up[k] = NextUp(S, up[k - 1], k)
  BY <1>2
<1>4. 0 \in T
  <2>1. Fits(<<>>, 0)
    BY DEF Increasing
  <2> HIDE DEF Fits
  <2> QED
    BY <1>3, <2>1
<1>5. ASSUME NEW m \in Nat, m + 1 <= n, Fits(up[m], m) PROVE Fits(up[m + 1], m + 1)
  <2>1. m + 1 \in 1..n /\ (m + 1) - 1 = m /\ m + 1 \in Nat
    BY <1>5
  <2>2. up[m + 1] = NextUp(S, up[m], m + 1)
    BY <1>3, <2>1
  <2> DEFINE a == up[m]
  <2>3. Fits(a, m)
    BY <1>5
  <2>4. \A i \in 1..m + 1 : i \in 1..m \/ i = m + 1
    BY <2>1
  <2> HIDE DEF a
  <2>5. CASE m + 1 \notin S
    <3>1. up[m + 1] = a
      BY <2>2, <2>5 DEF NextUp, a
    <3>2. S \intersect 1..m + 1 = S \intersect 1..m
      BY <2>4, <2>5
    <3> QED
      BY <2>3, <3>1, <3>2
  <2>6. CASE m + 1 \in S
    <3> DEFINE b == Append(a, m + 1)
    <3>1. up[m + 1] = b
      BY <2>2, <2>6 DEF NextUp, a
    <3>2. /\ b \in Seq(Nat) /\ Len(b) = Len(a) + 1 /\ b[Len(a) + 1] = m + 1
          /\ \A i \in 1..Len(a) : b[i] = a[i]
      BY <2>1, <2>3, AppendedNumbers
    <3> HIDE DEF b
    <3>3. Len(a) \in Nat /\ DOMAIN a = 1..Len(a) /\ DOMAIN b = 1..Len(b)
      BY <2>3, <3>2
    <3>4. \A i \in 1..Len(b) : i \in 1..Len(a) \/ i = Len(a) + 1
      BY <3>2, <3>3
    <3>5. \A i \in 1..Len(a) : a[i] < m + 1 /\ a[i] \in S \intersect 1..m + 1
      BY <2>1, <2>3
    <3>6. Increasing(b)
      <4> SUFFICES ASSUME NEW i \in 1..Len(b), NEW j \in 1..Len(b), i < j PROVE b[i] < b[j]
        BY <3>3 DEF Increasing
      <4>1. i \in 1..Len(a)
        BY <3>2, <3>3
      <4>2. CASE j = Len(a) + 1
        BY <3>2, <3>5, <4>1, <4>2
      <4>3. CASE j \in 1..Len(a)
        BY <2>3, <3>2, <3>3, <4>1, <4>3 DEF Increasing
      <4> QED
        BY <3>4, <4>2, <4>3
    <3>7. \A i \in 1..Len(b) : b[i] \in S \intersect 1..m + 1
      BY <2>1, <2>6, <3>2, <3>4, <3>5
    <3>8. ASSUME NEW k \in S \intersect 1..m + 1 PROVE \E i \in 1..Len(b) : b[i] = k
      <4>1. Len(a) + 1 \in 1..Len(b) /\ \A i \in 1..Len(a) : i \in 1..Len(b)
        BY <3>2, <3>3
      <4>2. CASE k = m + 1
        BY <3>2, <4>1, <4>2
      <4>3. CASE k \in 1..m
        <5>1. PICK i \in 1..Len(a) : a[i] = k
          BY <2>3, <4>3
        <5> QED
          BY <3>2, <4>1, <5>1
      <4> QED
        BY <2>4, <4>2, <4>3
    <3> QED
      BY <3>1, <3>2, <3>6, <3>7, <3>8
  <2> QED
    BY <2>5, <2>6
<1>6. ASSUME NEW m \in T PROVE m + 1 \in T
  <2> HIDE DEF Fits
  <2>1. m \in Nat /\ m + 1 \in Nat /\ (m + 1 <= n => m <= n)
    OBVIOUS
  <2> QED
    BY <1>5, <2>1
<1>7. T = Nat
  <2> HIDE DEF T
  <2>1. T \in SUBSET Nat
    BY DEF T
  <2> QED
    BY <1>4, <1>6, <2>1, NatSets
<1>8. Fits(up[n], n)
  BY <1>7
<1> QED
  BY <1>1, <1>8

(***************************************************************************)
(* Listings.  What a client knows of a mailbox is determined by the UIDs   *)
(* and the identities of its messages, and when messages come in at the    *)
(* end, what it knew stays a prefix of it.                                 *)
(***************************************************************************)
GoodBox(box) ==
    /\ box \in Mailbox
    /\ \A m \in box.messages : 0 < m.uid /\ m.uid < box.next_uid
    /\ \A m, n \in box.messages : m.uid = n.uid => m = n

LEMMA ListingIs ==
    ASSUME NEW box, GoodBox(box)
    PROVE  /\ Listing(box) \in Seq(box.messages)
           /\ \A i, j \in 1..Len(Listing(box)) : i < j => Listing(box)[i].uid < Listing(box)[j].uid
           /\ \A m \in box.messages : \E i \in 1..Len(Listing(box)) : Listing(box)[i] = m
<1> DEFINE uids == Ascending(Uids(box), box.next_uid)
           l == Listing(box)
<1>1. box.next_uid \in Nat /\ \A m \in box.messages : m \in Message /\ m.uid \in Nat
  BY DEF GoodBox, Mailbox, Message
<1>2. /\ uids \in Seq(Nat) /\ Increasing(uids)
      /\ \A i \in 1..Len(uids) : uids[i] \in Uids(box) \intersect 1..box.next_uid
      /\ \A k \in Uids(box) \intersect 1..box.next_uid : \E i \in 1..Len(uids) : uids[i] = k
  BY <1>1, AscendingIs
<1>3. l = [i \in DOMAIN uids |-> MessageOf(box, uids[i])]
  BY DEF Listing
<1> HIDE DEF uids, l
<1>4. Len(uids) \in Nat /\ DOMAIN uids = 1..Len(uids)
  BY <1>2
<1>5. ASSUME NEW k \in Uids(box) PROVE MessageOf(box, k) \in box.messages /\ MessageOf(box, k).uid = k
  <2>1. \E m \in box.messages : m.uid = k
    BY DEF Uids
  <2> QED
    BY <2>1 DEF MessageOf
<1>6. l \in Seq(box.messages) /\ Len(l) = Len(uids)
  <2>1. \A i \in 1..Len(uids) : MessageOf(box, uids[i]) \in box.messages
    BY <1>2, <1>5
  <2> QED
    BY <1>3, <1>4, <2>1
<1>7. \A i \in 1..Len(l) : l[i].uid = uids[i] /\ l[i] = MessageOf(box, uids[i])
  BY <1>2, <1>3, <1>4, <1>5, <1>6
<1>8. \A i, j \in 1..Len(l) : i < j => l[i].uid < l[j].uid
  BY <1>2, <1>4, <1>6, <1>7 DEF Increasing
<1>9. ASSUME NEW m \in box.messages PROVE \E i \in 1..Len(l) : l[i] = m
  <2>1. m.uid \in Uids(box) \intersect 1..box.next_uid
    BY <1>1 DEF GoodBox, Uids
  <2>2. PICK i \in 1..Len(uids) : uids[i] = m.uid
    BY <1>2, <2>1
  <2>3. l[i].uid = m.uid /\ l[i] \in box.messages
    BY <1>6, <1>7, <2>2
  <2> QED
    BY <1>6, <2>3 DEF GoodBox
<1> QED
  BY <1>6, <1>8, <1>9 DEF l

Entry == [uid : Nat, id : Nat]
Shows(l, box) ==
    /\ l \in Seq(Entry)
    /\ \A i, j \in 1..Len(l) : i < j => l[i].uid < l[j].uid
    /\ \A i \in 1..Len(l) : \E m \in box.messages : l[i] = [uid |-> m.uid, id |-> m.id]
    /\ \A m \in box.messages : \E i \in 1..Len(l) : l[i] = [uid |-> m.uid, id |-> m.id]

LEMMA KnownShows == ASSUME NEW box, GoodBox(box) PROVE Shows(Known(Listing(box)), box)
<1> DEFINE l == Listing(box)
           k == Known(l)
<1>1. /\ l \in Seq(box.messages)
      /\ \A i, j \in 1..Len(l) : i < j => l[i].uid < l[j].uid
      /\ \A m \in box.messages : \E i \in 1..Len(l) : l[i] = m
  BY ListingIs
<1>2. k = [i \in DOMAIN l |-> [uid |-> l[i].uid, id |-> l[i].id]]
  BY DEF Known
<1> HIDE DEF l, k
<1>3. Len(l) \in Nat /\ DOMAIN l = 1..Len(l) /\ \A i \in 1..Len(l) : l[i] \in box.messages
  BY <1>1
<1>4. \A m \in box.messages : [uid |-> m.uid, id |-> m.id] \in Entry
  BY DEF GoodBox, Mailbox, Message, Entry
<1>5. k \in Seq(Entry) /\ Len(k) = Len(l)
  <2>1. \A i \in 1..Len(l) : [uid |-> l[i].uid, id |-> l[i].id] \in Entry
    BY <1>3, <1>4
  <2> QED
    BY <1>2, <1>3, <2>1
<1>6. \A i \in 1..Len(l) : k[i] = [uid |-> l[i].uid, id |-> l[i].id]
  BY <1>2, <1>3
<1>7. ASSUME NEW i \in 1..Len(l) PROVE k[i].uid = l[i].uid
  <2>1. k[i] = [uid |-> l[i].uid, id |-> l[i].id]
    BY <1>6
  <2> QED
    BY <2>1
<1>8. \A i, j \in 1..Len(k) : i < j => k[i].uid < k[j].uid
  BY <1>1, <1>5, <1>7
<1>9. \A i \in 1..Len(k) : \E m \in box.messages : k[i] = [uid |-> m.uid, id |-> m.id]
  BY <1>3, <1>5, <1>6
<1>10. \A m \in box.messages : \E i \in 1..Len(k) : k[i] = [uid |-> m.uid, id |-> m.id]
  BY <1>1, <1>5, <1>6
<1> QED
  BY <1>5, <1>8, <1>9, <1>10 DEF Shows, k, l

\* box2 has the messages of box, and other ones only behind them.
Kept(box, box2) ==
    /\ \A m \in box.messages : \E n \in box2.messages : n.uid = m.uid /\ n.id = m.id
    /\ \A n \in box2.messages :
          \/ \E m \in box.messages : m.uid = n.uid
          \/ \A m \in box.messages : m.uid < n.uid

LEMMA ShownPrefix ==
    ASSUME NEW box, NEW box2, GoodBox(box), GoodBox(box2), Kept(box, box2),
           NEW l, NEW l2, Shows(l, box), Shows(l2, box2)
    PROVE  IsPrefix(l, l2)
<1> DEFINE Same(n) == n <= Len(l) => n <= Len(l2) /\ \A i \in 1..n : l2[i] = l[i]
           T == {n \in Nat : Same(n)}
<1>1. /\ l \in Seq(Entry) /\ l2 \in Seq(Entry) /\ Len(l) \in Nat /\ Len(l2) \in Nat
      /\ \A i \in 1..Len(l) : l[i].uid \in Nat
      /\ \A i \in 1..Len(l2) : l2[i].uid \in Nat
  <2>1. l \in Seq(Entry) /\ l2 \in Seq(Entry)
    BY DEF Shows
  <2>2. \A e \in Entry : e.uid \in Nat
    BY DEF Entry
  <2>3. /\ Len(l) \in Nat /\ Len(l2) \in Nat
        /\ \A i \in 1..Len(l) : l[i] \in Entry
        /\ \A i \in 1..Len(l2) : l2[i] \in Entry
    BY <2>1
  <2> QED
    BY <2>1, <2>2, <2>3
<1>2. 0 \in T
  BY <1>1
<1>3. ASSUME NEW n \in Nat, Same(n), n + 1 <= Len(l) PROVE n + 1 <= Len(l2) /\ l2[n + 1] = l[n + 1]
  <2>1. n <= Len(l2) /\ \A i \in 1..n : l2[i] = l[i]
    BY <1>1, <1>3
  <2>2. n + 1 \in 1..Len(l)
    BY <1>1, <1>3
  <2>3. PICK m \in box.messages : l[n + 1] = [uid |-> m.uid, id |-> m.id]
    BY <2>2 DEF Shows
  <2>4. PICK m2 \in box2.messages : m2.uid = m.uid /\ m2.id = m.id
    BY DEF Kept
  <2>5. PICK j \in 1..Len(l2) : l2[j] = [uid |-> m.uid, id |-> m.id]
    BY <2>4 DEF Shows
  <2>6. l2[j] = l[n + 1] /\ l[n + 1].uid = m.uid
    BY <2>3, <2>5
  <2>7. j > n
    <3> SUFFICES ASSUME j \in 1..n PROVE FALSE
      BY <1>1
    <3>1. l[j] = l[n + 1]
      BY <2>1, <2>6
    <3>2. j \in 1..Len(l) /\ j < n + 1
      BY <1>1, <2>2
    <3> QED
      BY <1>1, <2>2, <3>1, <3>2 DEF Shows
  <2>8. n + 1 \in 1..Len(l2)
    BY <1>1, <2>7
  <2>9. j = n + 1
    <3> SUFFICES ASSUME n + 1 < j PROVE FALSE
      BY <1>1, <2>7
    <3>1. l2[n + 1].uid < l2[j].uid
      BY <2>8 DEF Shows
    <3>2. PICK o \in box2.messages : l2[n + 1] = [uid |-> o.uid, id |-> o.id]
      BY <2>8 DEF Shows
    <3>3. l2[n + 1].uid = o.uid /\ o.uid < m.uid /\ o.uid \in Nat /\ m.uid \in Nat
      BY <1>1, <2>2, <2>6, <2>8, <3>1, <3>2
    <3>4. PICK p \in box.messages : p.uid = o.uid
      BY <3>3 DEF Kept
    <3>5. PICK i \in 1..Len(l) : l[i] = [uid |-> p.uid, id |-> p.id]
      BY DEF Shows
    <3>6. l[i].uid = o.uid
      BY <3>4, <3>5
    <3>7. i < n + 1
      <4>1. CASE i = n + 1
        BY <2>6, <3>3, <3>6, <4>1
      <4>2. CASE n + 1 < i
        <5>1. l[n + 1].uid < l[i].uid
          BY <2>2, <4>2 DEF Shows
        <5> QED
          BY <2>6, <3>3, <3>6, <5>1
      <4> QED
        BY <1>1, <4>1, <4>2
    <3>8. i \in 1..n
      BY <3>7
    <3>9. l2[i] = l[i] /\ i \in 1..Len(l2) /\ i < n + 1
      BY <1>1, <2>1, <3>8
    <3>10. l2[i].uid < l2[n + 1].uid
      BY <2>8, <3>9 DEF Shows
    <3> QED
      BY <1>1, <2>8, <3>3, <3>6, <3>9, <3>10
  <2> QED
    BY <2>6, <2>8, <2>9
<1>4. ASSUME NEW n \in T PROVE n + 1 \in T
  <2>1. n \in Nat /\ n + 1 \in Nat /\ Same(n)
    OBVIOUS
  <2>2. \A i \in 1..n + 1 : i \in 1..n \/ i = n + 1
    BY <2>1
  <2>3. Same(n + 1)
    <3> SUFFICES ASSUME n + 1 <= Len(l) PROVE n + 1 <= Len(l2) /\ \A i \in 1..n + 1 : l2[i] = l[i]
      OBVIOUS
    <3>1. \A i \in 1..n : l2[i] = l[i]
      BY <1>1, <2>1
    <3> QED
      BY <1>3, <2>1, <2>2, <3>1
  <2> QED
    BY <2>1, <2>3
<1>5. T = Nat
  <2> HIDE DEF T
  <2>1. T \in SUBSET Nat
    BY DEF T
  <2> QED
    BY <1>2, <1>4, <2>1, NatSets
<1>6. Len(l) <= Len(l2) /\ \A i \in 1..Len(l) : l2[i] = l[i]
  BY <1>1, <1>5
<1> QED
  BY <1>1, <1>6 DEF IsPrefix

(***************************************************************************)
(* What a client makes of EXPUNGE replies.                                 *)
(***************************************************************************)
LEMMA RemoveAtIs ==
    ASSUME NEW S, NEW s \in Seq(S), NEW n \in 1..Len(s)
    PROVE  /\ RemoveAt(s, n) \in Seq(S) /\ Len(RemoveAt(s, n)) = Len(s) - 1
           /\ \A i \in 1..Len(s) - 1 : RemoveAt(s, n)[i] = IF i < n THEN s[i] ELSE s[i + 1]
<1> DEFINE a == SubSeq(s, 1, n - 1)
           b == SubSeq(s, n + 1, Len(s))
<1>1. Len(s) \in Nat /\ n \in Nat /\ 1 <= n /\ n <= Len(s)
  OBVIOUS
<1>2. a \in Seq(S) /\ Len(a) = n - 1 /\ \A i \in 1..n - 1 : a[i] = s[i]
  <2>1. n - 1 \in Nat /\ \A i \in 1..n - 1 : i \in 1..Len(s)
    BY <1>1
  <2> QED
    BY <1>1, <2>1
<1>3. b \in Seq(S) /\ Len(b) = Len(s) - n /\ \A i \in 1..Len(s) - n : b[i] = s[n + i]
  <2>1. Len(s) - n \in Nat /\ \A i \in 1..Len(s) - n : n + i \in 1..Len(s)
    BY <1>1
  <2>2. CASE n = Len(s)
    BY <1>1, <2>1, <2>2
  <2>3. CASE n < Len(s)
    BY <1>1, <2>1, <2>3
  <2> QED
    BY <1>1, <2>2, <2>3
<1>4. RemoveAt(s, n) = a \o b
  BY DEF RemoveAt
<1> HIDE DEF a, b
<1>5. a \o b \in Seq(S) /\ Len(a \o b) = Len(s) - 1
  <2>1. a \o b \in Seq(S) /\ Len(a \o b) = Len(a) + Len(b)
    <3>1. a \in Seq(S) /\ b \in Seq(S)
      BY <1>2, <1>3
    <3> QED
      BY <3>1
  <2>2. Len(a) + Len(b) = Len(s) - 1
    BY <1>1, <1>2, <1>3
  <2> QED
    BY <2>1, <2>2
<1>6. ASSUME NEW i \in 1..Len(s) - 1 PROVE (a \o b)[i] = IF i < n THEN s[i] ELSE s[i + 1]
  <2>1. CASE i < n
    <3>1. i \in 1..Len(a)
      BY <1>1, <1>2, <2>1
    <3> QED
      BY <1>1, <1>2, <1>3, <2>1, <3>1
  <2>2. CASE ~(i < n)
    <3>1. i - Len(a) \in 1..Len(b) /\ n + (i - Len(a)) = i + 1
      BY <1>1, <1>2, <1>3, <2>2
    <3>2. (a \o b)[i] = b[i - Len(a)]
      BY <1>1, <1>2, <1>3, <2>2
    <3>3. b[i - Len(a)] = s[n + (i - Len(a))]
      BY <1>3, <3>1
    <3> QED
      BY <2>2, <3>1, <3>2, <3>3
  <2> QED
    BY <2>1, <2>2
<1> QED
  BY <1>4, <1>5, <1>6

Drop(l, n) == IF n \in DOMAIN l THEN RemoveAt(l, n) ELSE l

Leaves(l, numbers, n, left) ==
    left = [k \in 0..n |-> IF k = 0 THEN l ELSE Drop(left[k - 1], numbers[k])]

LEMMA LeftExists ==
    ASSUME NEW l, NEW numbers, NEW n \in Nat PROVE \E left : Leaves(l, numbers, n, left)
<1> DEFINE T == {m \in Nat : \E left :
      left = [k \in 0..m |-> IF k = 0 THEN l ELSE Drop(left[k - 1], numbers[k])]}
<1>1. 0 \in T
  <2> DEFINE r == [k \in 0..0 |-> l]
  <2>1. r = [k \in 0..0 |-> IF k = 0 THEN l ELSE Drop(r[k - 1], numbers[k])]
    OBVIOUS
  <2> QED
    BY <2>1
<1>2. ASSUME NEW m \in T PROVE m + 1 \in T
  <2>1. PICK left : left = [k \in 0..m |-> IF k = 0 THEN l ELSE Drop(left[k - 1], numbers[k])]
    OBVIOUS
  <2> DEFINE more == [k \in 0..m + 1 |-> IF k <= m THEN left[k] ELSE Drop(left[m], numbers[m + 1])]
  <2>2. ASSUME NEW k \in 0..m + 1
        PROVE  more[k] = IF k = 0 THEN l ELSE Drop(more[k - 1], numbers[k])
    <3>1. CASE k = 0
      BY <2>1, <3>1
    <3>2. CASE k \in 1..m
      BY <2>1, <3>2
    <3>3. CASE k = m + 1
      BY <3>3
    <3> QED
      BY <3>1, <3>2, <3>3
  <2>3. more = [k \in 0..m + 1 |-> IF k = 0 THEN l ELSE Drop(more[k - 1], numbers[k])]
    BY <2>2
  <2>4. \E r : r = [k \in 0..m + 1 |-> IF k = 0 THEN l ELSE Drop(r[k - 1], numbers[k])]
    <3> HIDE DEF more
    <3> WITNESS more
    <3> QED
      BY <2>3
  <2>5. m + 1 \in Nat
    OBVIOUS
  <2> QED
    BY <2>4, <2>5, Zenon
<1>3. T = Nat
  <2> HIDE DEF T
  <2>1. T \in SUBSET Nat
    BY DEF T
  <2> QED
    BY <1>1, <1>2, <2>1, NatSets
<1> QED
  BY <1>3 DEF Leaves

LEMMA RemovedRuns ==
    ASSUME NEW l, NEW numbers \in Seq(Nat)
    PROVE  \E left : /\ left[0] = l
                     /\ \A k \in 1..Len(numbers) : left[k] = Drop(left[k - 1], numbers[k])
                     /\ Removed(l, numbers) = left[Len(numbers)]
<1> DEFINE Is(left) == Leaves(l, numbers, Len(numbers), left)
           run == CHOOSE left : Is(left)
<1>1. Len(numbers) \in Nat
  OBVIOUS
<1>2. Removed(l, numbers) = run[Len(numbers)]
  BY DEF Removed, Drop, Leaves
<1>3. Is(run)
  <2>1. \E left : Is(left)
    BY <1>1, LeftExists
  <2> QED
    BY <2>1, Zenon
<1> HIDE DEF run
<1>4. run[0] = l /\ \A k \in 1..Len(numbers) : run[k] = Drop(run[k - 1], numbers[k])
  BY <1>1, <1>3 DEF Leaves
<1> QED
  BY <1>2, <1>4

LEMMA RemovedType ==
    ASSUME NEW l \in Seq(Entry), NEW numbers \in Seq(Nat) PROVE Removed(l, numbers) \in Seq(Entry)
<1>1. PICK left : /\ left[0] = l
                  /\ \A k \in 1..Len(numbers) : left[k] = Drop(left[k - 1], numbers[k])
                  /\ Removed(l, numbers) = left[Len(numbers)]
  BY RemovedRuns
<1> DEFINE T == {k \in Nat : k <= Len(numbers) => left[k] \in Seq(Entry)}
<1>2. 0 \in T
  BY <1>1
<1>3. ASSUME NEW k \in T PROVE k + 1 \in T
  <2>1. k \in Nat /\ k + 1 \in Nat
    OBVIOUS
  <2>2. ASSUME k + 1 <= Len(numbers) PROVE left[k + 1] \in Seq(Entry)
    <3>1. k + 1 \in 1..Len(numbers) /\ (k + 1) - 1 = k
      BY <2>1, <2>2
    <3>2. left[k] \in Seq(Entry)
      BY <2>1, <2>2
    <3>3. left[k + 1] = Drop(left[k], numbers[k + 1])
      BY <1>1, <3>1
    <3> HIDE DEF T
    <3>4. DOMAIN left[k] = 1..Len(left[k])
      BY <3>2
    <3> QED
      BY <3>2, <3>3, <3>4, RemoveAtIs DEF Drop
  <2> QED
    BY <2>1, <2>2
<1>4. T = Nat
  <2> HIDE DEF T
  <2>1. T \in SUBSET Nat
    BY DEF T
  <2> QED
    BY <1>2, <1>3, <2>1, NatSets
<1> QED
  BY <1>1, <1>4

\* l is the beginning of l2.
Begins(l, l2) == Len(l) <= Len(l2) /\ \A i \in 1..Len(l) : l[i] = l2[i]

LEMMA PrefixBegins ==
    ASSUME NEW l \in Seq(Entry), NEW l2 \in Seq(Entry) PROVE IsPrefix(l, l2) <=> Begins(l, l2)
BY DEF IsPrefix, Begins

LEMMA DropBegins ==
    ASSUME NEW a \in Seq(Entry), NEW b \in Seq(Entry), Begins(a, b), NEW n \in 1..Len(b)
    PROVE  Drop(a, n) \in Seq(Entry) /\ Drop(b, n) = RemoveAt(b, n) /\ Begins(Drop(a, n), RemoveAt(b, n))
<1>1. /\ Len(a) \in Nat /\ Len(b) \in Nat /\ Len(a) <= Len(b) /\ n \in Nat
      /\ DOMAIN a = 1..Len(a) /\ DOMAIN b = 1..Len(b)
  BY DEF Begins
<1>2. Drop(b, n) = RemoveAt(b, n)
  BY <1>1 DEF Drop
<1>3. /\ RemoveAt(b, n) \in Seq(Entry) /\ Len(RemoveAt(b, n)) = Len(b) - 1
      /\ \A i \in 1..Len(b) - 1 : RemoveAt(b, n)[i] = IF i < n THEN b[i] ELSE b[i + 1]
  BY RemoveAtIs
<1>4. CASE n \in 1..Len(a)
  <2>1. /\ RemoveAt(a, n) \in Seq(Entry) /\ Len(RemoveAt(a, n)) = Len(a) - 1
        /\ \A i \in 1..Len(a) - 1 : RemoveAt(a, n)[i] = IF i < n THEN a[i] ELSE a[i + 1]
    BY <1>4, RemoveAtIs
  <2>2. Drop(a, n) = RemoveAt(a, n)
    BY <1>1, <1>4 DEF Drop
  <2>3. ASSUME NEW i \in 1..Len(a) - 1 PROVE RemoveAt(a, n)[i] = RemoveAt(b, n)[i]
    <3>1. i \in 1..Len(b) - 1 /\ i \in 1..Len(a) /\ i + 1 \in 1..Len(a)
      BY <1>1
    <3> QED
      BY <1>3, <2>1, <3>1 DEF Begins
  <2> QED
    BY <1>1, <1>2, <1>3, <2>1, <2>2, <2>3 DEF Begins
<1>5. CASE n \notin 1..Len(a)
  <2>1. Drop(a, n) = a /\ Len(a) < n
    BY <1>1, <1>5 DEF Drop
  <2>2. Len(a) <= Len(b) - 1 /\ \A i \in 1..Len(a) : i \in 1..Len(b) - 1 /\ i < n
    BY <1>1, <2>1
  <2>3. \A i \in 1..Len(a) : a[i] = RemoveAt(b, n)[i]
    BY <1>3, <2>2 DEF Begins
  <2> QED
    BY <1>2, <1>3, <2>1, <2>2, <2>3 DEF Begins
<1> QED
  BY <1>4, <1>5

\* The replies for the places r, the highest first, have been read up to the
\* k-th: b is what is left of f.
Left(f, r, k, b) ==
    /\ b \in Seq(Entry)
    /\ \A i, j \in 1..Len(b) : i < j => b[i].uid < b[j].uid
    /\ \A i \in 1..Len(b) : \E j \in 1..Len(f) : b[i] = f[j] /\ \A h \in 1..k : j # r[h]
    /\ \A j \in 1..Len(f) : (\A h \in 1..k : j # r[h]) => \E i \in 1..Len(b) : b[i] = f[j]
    /\ \A j \in 1..Len(f) : (\A h \in 1..k : j < r[h]) => j <= Len(b) /\ b[j] = f[j]

LEMMA LeftStep ==
    ASSUME NEW f \in Seq(Entry), \A i, j \in 1..Len(f) : i < j => f[i].uid < f[j].uid,
           NEW r \in Seq(Nat), \A i, j \in 1..Len(r) : i < j => r[j] < r[i],
           \A i \in 1..Len(r) : r[i] \in 1..Len(f),
           NEW k \in Nat, k + 1 <= Len(r), NEW b, Left(f, r, k, b)
    PROVE  r[k + 1] \in 1..Len(b) /\ Left(f, r, k + 1, RemoveAt(b, r[k + 1]))
<1> DEFINE n == r[k + 1]
           c == RemoveAt(b, n)
<1>1. /\ b \in Seq(Entry) /\ Len(b) \in Nat /\ Len(f) \in Nat /\ Len(r) \in Nat
      /\ \A i \in 1..Len(b) : b[i].uid \in Nat
      /\ \A i \in 1..Len(f) : f[i].uid \in Nat
  <2>1. \A e \in Entry : e.uid \in Nat
    BY DEF Entry
  <2>2. b \in Seq(Entry)
    BY DEF Left
  <2>3. (\A i \in 1..Len(b) : b[i] \in Entry) /\ (\A i \in 1..Len(f) : f[i] \in Entry)
    BY <2>2
  <2> QED
    BY <2>1, <2>2, <2>3
<1>2. k + 1 \in 1..Len(r) /\ (\A h \in 1..k : h \in 1..Len(r) /\ h < k + 1)
      /\ \A h \in 1..k + 1 : h \in 1..k \/ h = k + 1
  BY <1>1
<1>3. n \in 1..Len(f) /\ n \in Nat /\ \A h \in 1..k : n < r[h] /\ r[h] \in Nat
  BY <1>1, <1>2
<1> HIDE DEF n
<1>4. n \in 1..Len(b) /\ b[n] = f[n]
  <2>1. n <= Len(b) /\ b[n] = f[n]
    BY <1>3 DEF Left
  <2> QED
    BY <1>1, <1>3, <2>1
<1>5. /\ c \in Seq(Entry) /\ Len(c) = Len(b) - 1
      /\ \A i \in 1..Len(b) - 1 : c[i] = IF i < n THEN b[i] ELSE b[i + 1]
  BY <1>1, <1>4, RemoveAtIs
<1> HIDE DEF c
<1>6. ASSUME NEW i \in 1..Len(c), NEW j \in 1..Len(c), i < j PROVE c[i].uid < c[j].uid
  <2>1. i \in 1..Len(b) - 1 /\ j \in 1..Len(b) - 1 /\ i \in 1..Len(b) /\ j \in 1..Len(b)
        /\ i + 1 \in 1..Len(b) /\ j + 1 \in 1..Len(b) /\ i + 1 < j + 1 /\ i < j + 1
    BY <1>1, <1>5, <1>6
  <2>2. CASE j < n
    <3>1. c[i] = b[i] /\ c[j] = b[j]
      BY <1>3, <1>5, <1>6, <2>1, <2>2
    <3> QED
      BY <1>6, <2>1, <3>1 DEF Left
  <2>3. CASE i < n /\ ~(j < n)
    <3>1. c[i] = b[i] /\ c[j] = b[j + 1]
      BY <1>5, <2>1, <2>3
    <3> QED
      BY <2>1, <3>1 DEF Left
  <2>4. CASE ~(i < n) /\ ~(j < n)
    <3>1. c[i] = b[i + 1] /\ c[j] = b[j + 1]
      BY <1>5, <2>1, <2>4
    <3> QED
      BY <2>1, <3>1 DEF Left
  <2>5. i < n \/ ~(j < n) \/ j < n
    OBVIOUS
  <2> QED
    BY <2>2, <2>3, <2>4
<1>7. ASSUME NEW i \in 1..Len(c) PROVE \E j \in 1..Len(f) : c[i] = f[j] /\ \A h \in 1..k + 1 : j # r[h]
  <2>1. PICK x \in 1..Len(b) : c[i] = b[x] /\ x # n
    <3>1. i \in 1..Len(b) - 1 /\ i \in 1..Len(b) /\ i + 1 \in 1..Len(b)
      BY <1>1, <1>5
    <3>2. CASE i < n
      BY <1>3, <1>5, <3>1, <3>2
    <3>3. CASE ~(i < n)
      <4>1. c[i] = b[i + 1] /\ i + 1 # n
        BY <1>3, <1>5, <3>1, <3>3
      <4> QED
        BY <3>1, <4>1
    <3> QED
      BY <3>2, <3>3
  <2>2. PICK j \in 1..Len(f) : b[x] = f[j] /\ \A h \in 1..k : j # r[h]
    BY DEF Left
  <2>3. j # n
    <3>1. b[x].uid # b[n].uid
      <4>1. x < n \/ n < x
        BY <1>1, <1>3, <2>1
      <4> QED
        BY <1>1, <1>4, <4>1 DEF Left
    <3> QED
      BY <1>4, <2>2, <3>1
  <2> QED
    BY <1>2, <2>1, <2>2, <2>3 DEF n
<1>8. ASSUME NEW j \in 1..Len(f), \A h \in 1..k + 1 : j # r[h] PROVE \E i \in 1..Len(c) : c[i] = f[j]
  <2>1. j # n /\ \A h \in 1..k : j # r[h]
    <3>1. k + 1 \in 1..k + 1 /\ \A h \in 1..k : h \in 1..k + 1
      OBVIOUS
    <3> QED
      BY <1>8, <3>1 DEF n
  <2>2. PICK x \in 1..Len(b) : b[x] = f[j]
    BY <2>1 DEF Left
  <2>3. x # n
    <3>1. f[j].uid # f[n].uid
      <4>1. j < n \/ n < j
        BY <1>1, <1>3, <2>1
      <4> QED
        BY <1>1, <1>3, <4>1
    <3> QED
      BY <1>4, <2>2, <3>1
  <2>4. CASE x < n
    <3>1. x \in 1..Len(b) - 1
      BY <1>1, <1>4, <2>4
    <3> QED
      BY <1>5, <2>2, <2>4, <3>1
  <2>5. CASE n < x
    <3>1. x - 1 \in 1..Len(b) - 1 /\ ~(x - 1 < n) /\ (x - 1) + 1 = x
      BY <1>1, <1>3, <1>4, <2>5
    <3>2. c[x - 1] = b[x]
      BY <1>5, <3>1
    <3> QED
      BY <1>5, <2>2, <3>1, <3>2
  <2> QED
    BY <1>1, <1>3, <2>3, <2>4, <2>5
<1>9. ASSUME NEW j \in 1..Len(f), \A h \in 1..k + 1 : j < r[h] PROVE j <= Len(c) /\ c[j] = f[j]
  <2>1. j < n /\ \A h \in 1..k : j < r[h]
    <3>1. k + 1 \in 1..k + 1 /\ \A h \in 1..k : h \in 1..k + 1
      OBVIOUS
    <3> QED
      BY <1>9, <3>1 DEF n
  <2>2. j <= Len(b) /\ b[j] = f[j]
    BY <2>1 DEF Left
  <2>3. j \in 1..Len(b) - 1
    BY <1>1, <1>4, <2>1
  <2> QED
    BY <1>1, <1>5, <2>1, <2>2, <2>3
<1>10. Left(f, r, k + 1, c)
  BY <1>5, <1>6, <1>7, <1>8, <1>9 DEF Left
<1> QED
  BY <1>4, <1>10 DEF n, c

LEMMA SameLast == ASSUME NEW m \in Nat, NEW n \in Nat, 1..m = 1..n PROVE m = n
<1>1. ASSUME m < n PROVE FALSE
  BY <1>1, n \in 1..n, n \notin 1..m
<1>2. ASSUME n < m PROVE FALSE
  BY <1>2, m \in 1..m, m \notin 1..n
<1> QED
  BY <1>1, <1>2

\* The places of the messages of U, the last one first.
Announces(r, f, U) ==
    /\ r \in Seq(Nat) /\ \A i, j \in 1..Len(r) : i < j => r[j] < r[i]
    /\ \A i \in 1..Len(r) : r[i] \in 1..Len(f) /\ f[r[i]].uid \in U
    /\ \A j \in 1..Len(f) : f[j].uid \in U => \E i \in 1..Len(r) : r[i] = j

\* They are what MOVE announces.
LEMMA RepliesAre ==
    ASSUME NEW f \in Seq(Entry), NEW listing, Len(listing) = Len(f), DOMAIN listing = 1..Len(f),
           \A i \in 1..Len(f) : listing[i].uid = f[i].uid, NEW U
    PROVE  Announces(ExpungeReplies(Places(listing, U)), f, U)
<1> DEFINE S == {i \in DOMAIN listing : listing[i].uid \in U}
           p == Ascending(S, Len(listing))
           r == Reverse(p)
<1>1. Len(f) \in Nat /\ Len(listing) \in Nat
  OBVIOUS
<1>5. \A j \in 1..Len(f) : j \in S <=> f[j].uid \in U
  OBVIOUS
<1>3. ExpungeReplies(Places(listing, U)) = r
  BY DEF ExpungeReplies, Places
<1> HIDE DEF S
<1>2. /\ p \in Seq(Nat) /\ Increasing(p)
      /\ \A i \in 1..Len(p) : p[i] \in S \intersect 1..Len(listing)
      /\ \A k \in S \intersect 1..Len(listing) : \E i \in 1..Len(p) : p[i] = k
  <2> DEFINE n == Len(listing)
  <2>1. n \in Nat
    BY <1>1
  <2> HIDE DEF n, p
  <2>2. /\ Ascending(S, n) \in Seq(Nat) /\ Increasing(Ascending(S, n))
        /\ \A i \in 1..Len(Ascending(S, n)) : Ascending(S, n)[i] \in S \intersect 1..n
        /\ \A k \in S \intersect 1..n : \E i \in 1..Len(Ascending(S, n)) : Ascending(S, n)[i] = k
    BY <2>1, AscendingIs
  <2>3. p = Ascending(S, n)
    BY DEF p, n
  <2> QED
    BY <2>2, <2>3 DEF n
<1>4. r = [i \in 1..Len(p) |-> p[(Len(p) - i) + 1]]
  BY DEF Reverse
<1> HIDE DEF p, r
<1>6. Len(p) \in Nat /\ DOMAIN p = 1..Len(p) /\ \A i \in 1..Len(p) : (Len(p) - i) + 1 \in 1..Len(p)
  BY <1>2
<1>7. \A i \in 1..Len(p) : p[(Len(p) - i) + 1] \in Nat
  BY <1>2, <1>6
<1>8. r \in Seq(Nat) /\ Len(r) = Len(p) /\ \A i \in 1..Len(p) : r[i] = p[(Len(p) - i) + 1]
  BY <1>4, <1>6, <1>7
<1>9. ASSUME NEW i \in 1..Len(r), NEW j \in 1..Len(r), i < j PROVE r[j] < r[i]
  <2> DEFINE x == (Len(p) - j) + 1
             y == (Len(p) - i) + 1
  <2>1. x \in 1..Len(p) /\ y \in 1..Len(p) /\ r[j] = p[x] /\ r[i] = p[y]
    BY <1>6, <1>8
  <2>2. x < y
    BY <1>6, <1>8, <1>9
  <2> HIDE DEF x, y
  <2> QED
    BY <1>2, <1>6, <2>1, <2>2 DEF Increasing
<1>10. ASSUME NEW i \in 1..Len(r) PROVE r[i] \in 1..Len(f) /\ f[r[i]].uid \in U
  BY <1>2, <1>5, <1>6, <1>8
<1>11. ASSUME NEW j \in 1..Len(f), f[j].uid \in U PROVE \E i \in 1..Len(r) : r[i] = j
  <2>1. PICK x \in 1..Len(p) : p[x] = j
    BY <1>2, <1>5, <1>11
  <2>2. (Len(p) - x) + 1 \in 1..Len(p) /\ (Len(p) - ((Len(p) - x) + 1)) + 1 = x
    BY <1>6
  <2> QED
    BY <1>8, <2>1, <2>2
<1> QED
  BY <1>3, <1>8, <1>9, <1>10, <1>11 DEF Announces

\* When the client knew the beginning of the mailbox, it does so after the
\* replies of a MOVE.
LEMMA MovedAway ==
    ASSUME NEW box, NEW box2, GoodBox(box), GoodBox(box2), NEW U,
           \A m \in box2.messages : m \in box.messages,
           \A m \in box.messages : m \in box2.messages <=> m.uid \notin U,
           NEW l \in Seq(Entry), IsPrefix(l, Known(Listing(box)))
    PROVE  IsPrefix(Removed(l, ExpungeReplies(Places(Listing(box), U))), Known(Listing(box2)))
<1> DEFINE f == Known(Listing(box))
           g == Known(Listing(box2))
           r == ExpungeReplies(Places(Listing(box), U))
<1>1. Shows(f, box) /\ Shows(g, box2)
  BY KnownShows
<1>2. f \in Seq(Entry) /\ g \in Seq(Entry) /\ \A i, j \in 1..Len(f) : i < j => f[i].uid < f[j].uid
  BY <1>1 DEF Shows
<1>16. Announces(r, f, U)
  <2> DEFINE L == Listing(box)
  <2>1. L \in Seq(box.messages)
    BY ListingIs
  <2>2. f = [i \in DOMAIN L |-> [uid |-> L[i].uid, id |-> L[i].id]]
    BY DEF Known
  <2> HIDE DEF L, f
  <2>3. Len(L) \in Nat /\ DOMAIN L = 1..Len(L)
    BY <2>1
  <2>4. Len(L) = Len(f) /\ \A i \in 1..Len(f) : L[i].uid = f[i].uid
    <3>1. DOMAIN f = 1..Len(f) /\ Len(f) \in Nat
      BY <1>2
    <3>2. DOMAIN f = 1..Len(L)
      BY <2>2, <2>3
    <3>3. Len(L) = Len(f)
      BY <2>3, <3>1, <3>2, SameLast
    <3>4. ASSUME NEW i \in 1..Len(f) PROVE L[i].uid = f[i].uid
      <4>1. f[i] = [uid |-> L[i].uid, id |-> L[i].id]
        BY <2>2, <2>3, <3>3
      <4> QED
        BY <4>1
    <3> QED
      BY <3>3, <3>4
  <2>5. DOMAIN L = 1..Len(f)
    BY <2>3, <2>4
  <2> QED
    BY <1>2, <2>4, <2>5, RepliesAre DEF L
<1>6. Begins(l, f)
  BY <1>2, PrefixBegins
<1> HIDE DEF f, g, r
<1>3. /\ r \in Seq(Nat) /\ \A i, j \in 1..Len(r) : i < j => r[j] < r[i]
      /\ \A i \in 1..Len(r) : r[i] \in 1..Len(f) /\ f[r[i]].uid \in U
      /\ \A j \in 1..Len(f) : f[j].uid \in U => \E i \in 1..Len(r) : r[i] = j
  BY <1>16 DEF Announces
<1>4. PICK a : /\ a[0] = l
               /\ \A k \in 1..Len(r) : a[k] = Drop(a[k - 1], r[k])
               /\ Removed(l, r) = a[Len(r)]
  BY <1>3, RemovedRuns
<1>5. PICK b : /\ b[0] = f
               /\ \A k \in 1..Len(r) : b[k] = Drop(b[k - 1], r[k])
               /\ Removed(f, r) = b[Len(r)]
  BY <1>3, RemovedRuns
<1> DEFINE Both(k) == Left(f, r, k, b[k]) /\ a[k] \in Seq(Entry) /\ Begins(a[k], b[k])
           T == {k \in Nat : k <= Len(r) => Both(k)}
<1>7. 0 \in T
  <2>1. \A h : h \notin 1..0
    OBVIOUS
  <2>2. \A j \in 1..Len(f) : j <= Len(f)
    BY <1>2
  <2>3. Left(f, r, 0, f)
    BY <1>2, <2>1, <2>2 DEF Left
  <2> QED
    BY <1>4, <1>5, <1>6, <2>3
<1>8. ASSUME NEW k \in Nat, k + 1 <= Len(r), Both(k) PROVE Both(k + 1)
  <2>1. k + 1 \in 1..Len(r) /\ (k + 1) - 1 = k
    BY <1>3, <1>8
  <2>2. a[k + 1] = Drop(a[k], r[k + 1]) /\ b[k + 1] = Drop(b[k], r[k + 1])
    BY <1>4, <1>5, <2>1
  <2>3. r[k + 1] \in 1..Len(b[k]) /\ Left(f, r, k + 1, RemoveAt(b[k], r[k + 1]))
    BY <1>2, <1>3, <1>8, LeftStep
  <2>4. b[k] \in Seq(Entry)
    BY <1>8 DEF Left
  <2>5. /\ Drop(a[k], r[k + 1]) \in Seq(Entry) /\ Drop(b[k], r[k + 1]) = RemoveAt(b[k], r[k + 1])
        /\ Begins(Drop(a[k], r[k + 1]), RemoveAt(b[k], r[k + 1]))
    BY <1>8, <2>3, <2>4, DropBegins
  <2> QED
    BY <2>2, <2>3, <2>5
<1>9. ASSUME NEW k \in T PROVE k + 1 \in T
  <2> HIDE DEF Both
  <2>1. k \in Nat /\ k + 1 \in Nat /\ Len(r) \in Nat
    BY <1>3
  <2>2. k + 1 <= Len(r) => k <= Len(r)
    BY <2>1
  <2> QED
    BY <1>8, <2>1, <2>2
<1>10. T = Nat
  <2> HIDE DEF T
  <2>1. T \in SUBSET Nat
    BY DEF T
  <2> QED
    BY <1>7, <1>9, <2>1, NatSets
<1> DEFINE N == Len(r)
<1>11. Left(f, r, N, b[N]) /\ a[N] \in Seq(Entry) /\ Begins(a[N], b[N])
  <2>1. N \in Nat /\ N <= Len(r)
    BY <1>3
  <2> QED
    BY <1>10, <2>1
<1>12. Shows(b[N], box2)
  <2>1. b[N] \in Seq(Entry) /\ \A i, j \in 1..Len(b[N]) : i < j => b[N][i].uid < b[N][j].uid
    BY <1>11 DEF Left
  <2>2. ASSUME NEW i \in 1..Len(b[N]) PROVE \E m \in box2.messages : b[N][i] = [uid |-> m.uid, id |-> m.id]
    <3>1. PICK j \in 1..Len(f) : b[N][i] = f[j] /\ \A h \in 1..N : j # r[h]
      BY <1>11 DEF Left
    <3>2. PICK m \in box.messages : f[j] = [uid |-> m.uid, id |-> m.id]
      BY <1>1 DEF Shows
    <3>3. f[j].uid \notin U /\ f[j].uid = m.uid
      BY <1>3, <3>1, <3>2
    <3> QED
      BY <3>1, <3>2, <3>3
  <2>3. ASSUME NEW m \in box2.messages PROVE \E i \in 1..Len(b[N]) : b[N][i] = [uid |-> m.uid, id |-> m.id]
    <3>1. m \in box.messages /\ m.uid \notin U
      OBVIOUS
    <3>2. PICK j \in 1..Len(f) : f[j] = [uid |-> m.uid, id |-> m.id]
      BY <1>1, <3>1 DEF Shows
    <3>3. f[j].uid = m.uid
      BY <3>2
    <3>4. \A h \in 1..N : j # r[h]
      BY <1>3, <3>1, <3>3
    <3> QED
      BY <1>11, <3>2, <3>4 DEF Left
  <2> QED
    BY <2>1, <2>2, <2>3 DEF Shows
<1>13. IsPrefix(b[N], g)
  <2>1. Kept(box2, box2)
    BY DEF Kept
  <2> QED
    BY <1>1, <1>12, <2>1, ShownPrefix
<1>14. Begins(b[N], g) /\ b[N] \in Seq(Entry)
  BY <1>2, <1>11, <1>13, PrefixBegins DEF Left
<1>15. Begins(a[N], g)
  <2>1. /\ Len(a[N]) \in Nat /\ Len(b[N]) \in Nat /\ Len(g) \in Nat
        /\ Len(a[N]) <= Len(b[N]) /\ Len(b[N]) <= Len(g)
    BY <1>2, <1>11, <1>14 DEF Begins
  <2>2. Len(a[N]) <= Len(g) /\ \A i \in 1..Len(a[N]) : i \in 1..Len(b[N])
    BY <2>1
  <2> QED
    BY <1>11, <1>14, <2>2 DEF Begins
<1> QED
  BY <1>2, <1>4, <1>11, <1>15, PrefixBegins DEF g, r

(***************************************************************************)
(* The invariant.                                                          *)
(***************************************************************************)
BoxesOK(bx, c) ==
    /\ bx \in [Names -> Mailbox] /\ \A mb \in Names : GoodBox(bx[mb])
    /\ \A mb \in Names : bx[mb] = NoBox \/ (bx[mb].born \in 1..c /\ bx[mb].next_uid # 0)
    /\ \A a, b \in Names : bx[a] # NoBox /\ bx[a].born = bx[b].born => a = b

SessionsOK ==
    /\ state \in [Sessions -> {"NOT_AUTHENTICATED", "AUTHENTICATED", "SELECTED"}]
    /\ selected_mailbox \in [Sessions -> Names \union {NoName}]
    /\ \A s \in Sessions : state[s] = "SELECTED" <=> selected_mailbox[s] # NoName
    /\ readonly \in [Sessions -> BOOLEAN]
    /\ list \in [Sessions -> Seq(Entry)]
    /\ disturbed \in [Sessions -> BOOLEAN]
    /\ reply \in [Sessions -> [asked : SUBSET Parts, sent : SUBSET Parts]]

\* What was told is of a mailbox there has been, and of a UID it gave.
ToldOK ==
    /\ told \subseteq [born : Nat, uid : Nat, id : Nat]
    /\ \A t \in told : t.born \in 1..created
    /\ \A mb \in Names : \A t \in told : t.born = boxes[mb].born => t.uid < boxes[mb].next_uid
    /\ ToldStaysTrue

CountsOK == registered \in BOOLEAN /\ created \in Nat /\ delivered \in Nat /\ read \subseteq Nat

StoreInv == CountsOK /\ BoxesOK(boxes, created) /\ ToldOK /\ SeenMeansRead
ImapInv == StoreInv /\ SessionsOK /\ SyncUnlessDisturbed

LEMMA NoBoxIsGood == GoodBox(NoBox)
BY DEF GoodBox, NoBox, Mailbox

LEMMA FreshIsGood == ASSUME NEW n \in Nat PROVE GoodBox(FreshBox(n))
BY DEF GoodBox, FreshBox, Mailbox

(***************************************************************************)
(* Steps of the mailboxes.                                                 *)
(***************************************************************************)
\* A mailbox keeps its identity, and its UIDs their messages.
GoesOn(old, new) ==
    /\ GoodBox(new) /\ new.born = old.born /\ old.next_uid <= new.next_uid
    /\ \A n \in new.messages :
          n.uid >= old.next_uid \/ \E m \in old.messages : m.uid = n.uid /\ m.id = n.id

\* The mailbox when it was made sure that it exists.
Base(mb) == IF Exists(mb) THEN boxes[mb] ELSE FreshBox(created + 1)

NewBox(box) == GoodBox(box) /\ box.born \in created + 1 .. created' /\ box.next_uid # 0

BoxStep(mb) ==
    \/ boxes'[mb] = NoBox
    \/ Exists(mb) /\ GoesOn(boxes[mb], boxes'[mb])
    \/ ~Exists(mb) /\ NewBox(boxes'[mb])

LEMMA BoxesStep ==
    ASSUME CountsOK, BoxesOK(boxes, created), created' \in Nat, created <= created',
           boxes' = [mb \in Names |-> boxes'[mb]],
           \A mb \in Names : BoxStep(mb),
           \A a, b \in Names : ~Exists(a) /\ ~Exists(b) /\ boxes'[a] # NoBox
               /\ boxes'[a].born = boxes'[b].born => a = b
    PROVE  BoxesOK(boxes', created')
<1>1. ASSUME NEW mb \in Names
      PROVE  /\ GoodBox(boxes'[mb]) /\ boxes'[mb] \in Mailbox
             /\ boxes'[mb] = NoBox \/ (boxes'[mb].born \in 1..created' /\ boxes'[mb].next_uid # 0)
  <2>1. CASE boxes'[mb] = NoBox
    BY <2>1, NoBoxIsGood DEF GoodBox
  <2>2. CASE Exists(mb) /\ GoesOn(boxes[mb], boxes'[mb])
    BY <2>2 DEF CountsOK, BoxesOK, Exists, GoesOn, GoodBox, Mailbox
  <2>3. CASE ~Exists(mb) /\ NewBox(boxes'[mb])
    BY <2>3 DEF CountsOK, NewBox, GoodBox
  <2> QED
    BY <2>1, <2>2, <2>3 DEF BoxStep
<1>2. ASSUME NEW a \in Names, NEW b \in Names, boxes'[a] # NoBox, boxes'[a].born = boxes'[b].born
      PROVE  a = b
  <2>1. boxes'[b] # NoBox
    BY <1>1, <1>2 DEF NoBox
  <2>2. \A mb \in Names : boxes'[mb] # NoBox =>
            IF Exists(mb) THEN boxes'[mb].born = boxes[mb].born /\ boxes[mb].born \in 1..created
            ELSE boxes'[mb].born \in created + 1 .. created'
    BY DEF BoxStep, BoxesOK, GoesOn, NewBox, Exists
  <2>3. CASE Exists(a) /\ Exists(b)
    BY <1>2, <2>1, <2>2, <2>3 DEF BoxesOK, Exists
  <2>4. CASE ~Exists(a) /\ ~Exists(b)
    BY <1>2, <2>4
  <2>5. CASE Exists(a) /\ ~Exists(b)
    BY <1>2, <2>1, <2>2, <2>5 DEF CountsOK
  <2>6. CASE ~Exists(a) /\ Exists(b)
    BY <1>2, <2>1, <2>2, <2>6 DEF CountsOK
  <2> QED
    BY <2>3, <2>4, <2>5, <2>6
<1>3. boxes' \in [Names -> Mailbox]
  BY <1>1
<1> QED
  BY <1>1, <1>2, <1>3 DEF BoxesOK

\* What the mailboxes show after a step.
Shown(t) ==
    \E mb \in Names : \E m \in boxes[mb].messages :
        t = [born |-> boxes[mb].born, uid |-> m.uid, id |-> m.id]

LEMMA ToldStep ==
    ASSUME CountsOK, BoxesOK(boxes, created), ToldOK, BoxesOK(boxes', created'),
           created' \in Nat, created <= created',
           \A mb \in Names : \/ boxes'[mb] = NoBox \/ boxes'[mb].born > created
                             \/ \E old \in Names : GoesOn(boxes[old], boxes'[mb]),
           \A t \in told' : t \in told \/ Shown(t)'
    PROVE  ToldOK'
<1>1. ASSUME NEW t, Shown(t)'
      PROVE  /\ t \in [born : Nat, uid : Nat, id : Nat] /\ t.born \in 1..created'
             /\ \A mb \in Names : t.born = boxes'[mb].born =>
                   t.uid < boxes'[mb].next_uid /\ \A m \in boxes'[mb].messages : t.uid = m.uid => t.id = m.id
  <2>1. PICK o \in Names : \E m \in boxes'[o].messages :
            t = [born |-> boxes'[o].born, uid |-> m.uid, id |-> m.id]
    BY <1>1 DEF Shown
  <2>2. PICK n \in boxes'[o].messages : t = [born |-> boxes'[o].born, uid |-> n.uid, id |-> n.id]
    BY <2>1
  <2>3. boxes'[o] # NoBox
    BY <2>2 DEF NoBox
  <2>4. /\ GoodBox(boxes'[o]) /\ n \in Message /\ boxes'[o].born \in 1..created'
        /\ \A mb \in Names : boxes'[o].born = boxes'[mb].born => mb = o
    BY <2>3 DEF BoxesOK, GoodBox, Mailbox
  <2>5. t.born = boxes'[o].born /\ t.uid = n.uid /\ t.id = n.id
    BY <2>2
  <2>6. t \in [born : Nat, uid : Nat, id : Nat]
    BY <2>2, <2>4 DEF Message
  <2> QED
    BY <2>4, <2>5, <2>6 DEF GoodBox
<1>2. ASSUME NEW t \in told, NEW mb \in Names, t.born = boxes'[mb].born
      PROVE  t.uid < boxes'[mb].next_uid /\ \A m \in boxes'[mb].messages : t.uid = m.uid => t.id = m.id
  <2>1. t.born \in 1..created /\ t.uid \in Nat
    BY DEF ToldOK
  <2>2. PICK old \in Names : GoesOn(boxes[old], boxes'[mb])
    BY <1>2, <2>1 DEF NoBox, CountsOK
  <2>3. t.uid < boxes[old].next_uid /\ boxes[old].next_uid <= boxes'[mb].next_uid
        /\ \A m \in boxes[old].messages : t.uid = m.uid => t.id = m.id
    BY <1>2, <2>2 DEF GoesOn, ToldOK, ToldStaysTrue
  <2>4. boxes[old].next_uid \in Nat /\ boxes'[mb].next_uid \in Nat
    BY DEF BoxesOK, Mailbox
  <2>5. ASSUME NEW m \in boxes'[mb].messages, t.uid = m.uid PROVE t.id = m.id
    <3>1. PICK n \in boxes[old].messages : n.uid = m.uid /\ n.id = m.id
      BY <2>1, <2>2, <2>3, <2>4, <2>5 DEF GoesOn
    <3> QED
      BY <2>3, <2>5, <3>1
  <2> QED
    BY <2>1, <2>3, <2>4, <2>5
<1>3. told' \subseteq [born : Nat, uid : Nat, id : Nat] /\ \A t \in told' : t.born \in 1..created'
  BY <1>1 DEF ToldOK, CountsOK
<1>4. \A mb \in Names : \A t \in told' : t.born = boxes'[mb].born =>
          t.uid < boxes'[mb].next_uid /\ \A m \in boxes'[mb].messages : t.uid = m.uid => t.id = m.id
  BY <1>1, <1>2
<1> QED
  BY <1>3, <1>4 DEF ToldOK, ToldStaysTrue

LEMMA GoesOnAlike == ASSUME NEW box, GoodBox(box) PROVE GoesOn(box, box) /\ Kept(box, box)
BY DEF GoesOn, GoodBox, Mailbox, Kept

LEMMA BaseIs ==
    ASSUME CountsOK, BoxesOK(boxes, created), NEW mb \in Names
    PROVE  /\ GoodBox(Base(mb)) /\ Base(mb).next_uid # 0 /\ Base(mb) # NoBox
           /\ Exists(mb) => Base(mb) = boxes[mb]
           /\ ~Exists(mb) => /\ boxes[mb] = NoBox /\ Base(mb).messages = {} /\ boxes[mb].messages = {}
                             /\ Base(mb).born = created + 1
<1>1. CASE Exists(mb)
  BY <1>1 DEF Base, BoxesOK, Exists
<1>2. CASE ~Exists(mb)
  <2>1. created + 1 \in Nat
    BY DEF CountsOK
  <2> QED
    BY <1>2, <2>1, FreshIsGood DEF Base, Exists, FreshBox, NoBox
<1> QED
  BY <1>1, <1>2

\* A step that makes sure of one mailbox and changes only that one.
OneBox(mb, new) ==
    /\ boxes' = [boxes EXCEPT ![mb] = new]
    /\ created' = created + IF Exists(mb) THEN 0 ELSE 1

LEMMA OneBoxStores ==
    ASSUME StoreInv, NEW mb \in Names, NEW new, GoesOn(Base(mb), new), OneBox(mb, new),
           registered' \in BOOLEAN, delivered' \in Nat, read' \subseteq Nat, read \subseteq read',
           \A n \in new.messages : Seen \in n.flags =>
               n.id \in read' \/ \E m \in Base(mb).messages : m.id = n.id /\ Seen \in m.flags,
           \A t \in told' : \/ t \in told
                            \/ \E m \in new.messages : t = [born |-> new.born, uid |-> m.uid, id |-> m.id]
    PROVE  StoreInv'
<1>1. CountsOK /\ BoxesOK(boxes, created) /\ ToldOK /\ SeenMeansRead
  BY DEF StoreInv
<1>2. created' \in Nat /\ created <= created' /\ (~Exists(mb) => created' = created + 1)
  BY <1>1 DEF OneBox, CountsOK
<1>3. /\ GoodBox(Base(mb)) /\ Base(mb).next_uid # 0
      /\ Exists(mb) => Base(mb) = boxes[mb]
      /\ ~Exists(mb) => Base(mb).messages = {} /\ Base(mb).born = created + 1
  BY <1>1, BaseIs
<1>4. /\ boxes'[mb] = new /\ boxes' = [x \in Names |-> boxes'[x]]
      /\ \A x \in Names : x # mb => boxes'[x] = boxes[x]
  BY <1>1 DEF OneBox, BoxesOK
<1>5. new.born = Base(mb).born /\ GoodBox(new) /\ new.next_uid # 0
  BY <1>3 DEF GoesOn, GoodBox, Mailbox
<1>6. ASSUME NEW x \in Names PROVE BoxStep(x) /\ (~Exists(x) => x = mb \/ boxes'[x] = NoBox)
  <2>1. CASE x # mb
    BY <1>1, <1>4, <2>1, GoesOnAlike DEF BoxStep, Exists, BoxesOK
  <2>2. CASE x = mb /\ Exists(mb)
    BY <1>3, <1>4, <2>2 DEF BoxStep
  <2>3. CASE x = mb /\ ~Exists(mb)
    <3>1. NewBox(new)
      BY <1>1, <1>2, <1>3, <1>5, <2>3 DEF NewBox, CountsOK
    <3> QED
      BY <1>4, <2>3, <3>1 DEF BoxStep
  <2> QED
    BY <2>1, <2>2, <2>3
<1>7. BoxesOK(boxes', created')
  <2>1. \A a, b \in Names : ~Exists(a) /\ ~Exists(b) /\ boxes'[a] # NoBox
            /\ boxes'[a].born = boxes'[b].born => a = b
    <3> SUFFICES ASSUME NEW a \in Names, NEW b \in Names, ~Exists(a), ~Exists(b), boxes'[a] # NoBox,
                        boxes'[a].born = boxes'[b].born
                 PROVE  a = b
      OBVIOUS
    <3>1. a = mb
      BY <1>6
    <3>2. boxes'[a].born = created + 1 /\ created \in Nat
      BY <1>1, <1>3, <1>4, <1>5, <3>1 DEF CountsOK
    <3>3. NoBox.born = 0 /\ boxes'[b].born # 0
      BY <3>2 DEF NoBox
    <3> QED
      BY <1>6, <3>1, <3>3
  <2> QED
    BY <1>1, <1>2, <1>4, <1>6, <2>1, BoxesStep
<1>8. ToldOK'
  <2>1. ASSUME NEW x \in Names
        PROVE  \/ boxes'[x] = NoBox \/ boxes'[x].born > created
               \/ \E old \in Names : GoesOn(boxes[old], boxes'[x])
    BY <1>1, <1>2, <1>6 DEF BoxStep, NewBox, CountsOK
  <2>2. ASSUME NEW t \in told' PROVE t \in told \/ Shown(t)'
    BY <1>4 DEF Shown
  <2> QED
    BY <1>1, <1>2, <1>7, <2>1, <2>2, ToldStep
<1>9. SeenMeansRead'
  <2> SUFFICES ASSUME NEW x \in Names, NEW m \in boxes'[x].messages, Seen \in m.flags PROVE m.id \in read'
    BY DEF SeenMeansRead
  <2>1. CASE x # mb
    BY <1>1, <1>4, <2>1 DEF SeenMeansRead
  <2>2. CASE x = mb
    BY <1>1, <1>3, <1>4, <2>2 DEF SeenMeansRead
  <2> QED
    BY <2>1, <2>2
<1> QED
  BY <1>2, <1>7, <1>8, <1>9 DEF StoreInv, CountsOK

(***************************************************************************)
(* Sessions that a step leaves alone.                                      *)
(***************************************************************************)
InSync(s) ==
    Selected(s) /\ ~disturbed[s] => IsPrefix(list[s], Known(Listing(boxes[selected_mailbox[s]])))

LEMMA PrefixGrows ==
    ASSUME NEW l \in Seq(Entry), NEW box, NEW box2, GoodBox(box), GoodBox(box2), Kept(box, box2),
           IsPrefix(l, Known(Listing(box)))
    PROVE  IsPrefix(l, Known(Listing(box2)))
<1> DEFINE f == Known(Listing(box))
           g == Known(Listing(box2))
<1>1. Shows(f, box) /\ Shows(g, box2)
  BY KnownShows
<1>2. f \in Seq(Entry) /\ g \in Seq(Entry)
  BY <1>1 DEF Shows
<1>3. IsPrefix(f, g)
  BY <1>1, ShownPrefix
<1> HIDE DEF f, g
<1>4. Begins(l, f) /\ Begins(f, g)
  BY <1>2, <1>3, PrefixBegins DEF f
<1>5. /\ Len(l) \in Nat /\ Len(f) \in Nat /\ Len(g) \in Nat
      /\ Len(l) <= Len(f) /\ Len(f) <= Len(g)
  BY <1>2, <1>4 DEF Begins
<1>6. Len(l) <= Len(g) /\ \A i \in 1..Len(l) : i \in 1..Len(f)
  BY <1>5
<1>7. Begins(l, g)
  BY <1>4, <1>6 DEF Begins
<1> QED
  BY <1>2, <1>7, PrefixBegins DEF g

\* s may have been disturbed before or by the step; otherwise its mailbox only grew.
LEMMA StaysInSync ==
    ASSUME SessionsOK, BoxesOK(boxes, created), BoxesOK(boxes', created'), NEW s \in Sessions, InSync(s),
           state'[s] = state[s], selected_mailbox'[s] = selected_mailbox[s], list'[s] = list[s],
           Selected(s) /\ ~disturbed'[s] =>
               ~disturbed[s] /\ Kept(boxes[selected_mailbox[s]], boxes'[selected_mailbox[s]])
    PROVE  InSync(s)'
<1> SUFFICES ASSUME Selected(s)', ~disturbed'[s]
             PROVE  IsPrefix(list'[s], Known(Listing(boxes'[selected_mailbox'[s]])))
  BY DEF InSync
<1>1. Selected(s)
  BY DEF Selected
<1>2. selected_mailbox[s] \in Names /\ list[s] \in Seq(Entry)
  BY <1>1 DEF SessionsOK, Selected
<1>3. GoodBox(boxes[selected_mailbox[s]]) /\ GoodBox(boxes'[selected_mailbox[s]])
  BY <1>2 DEF BoxesOK
<1>4. IsPrefix(list[s], Known(Listing(boxes[selected_mailbox[s]])))
  BY <1>1 DEF InSync
<1>5. Kept(boxes[selected_mailbox[s]], boxes'[selected_mailbox[s]])
  BY <1>1
<1>6. IsPrefix(list[s], Known(Listing(boxes'[selected_mailbox[s]])))
  BY <1>2, <1>3, <1>4, <1>5, PrefixGrows
<1> QED
  BY <1>6

LEMMA SyncIs == SyncUnlessDisturbed <=> \A s \in Sessions : InSync(s)
BY DEF SyncUnlessDisturbed, InSync

\* The box that changes keeps its messages, and so do the others.
LEMMA OneBoxKept ==
    ASSUME CountsOK, BoxesOK(boxes, created), NEW mb \in Names, NEW new, OneBox(mb, new),
           Kept(Base(mb), new)
    PROVE  \A x \in Names : Kept(boxes[x], boxes'[x])
<1> SUFFICES ASSUME NEW x \in Names PROVE Kept(boxes[x], boxes'[x])
  OBVIOUS
<1>1. boxes'[mb] = new /\ (x # mb => boxes'[x] = boxes[x])
  BY DEF OneBox, BoxesOK
<1>2. CASE x # mb
  BY <1>1, <1>2 DEF Kept
<1>3. CASE x = mb
  BY <1>1, <1>3, BaseIs DEF Kept
<1> QED
  BY <1>2, <1>3

LEMMA SessionsStep ==
    ASSUME ImapInv, StoreInv', SessionsOK', NEW mine, \A s \in mine : InSync(s)',
           \A s \in Sessions : s \notin mine =>
               /\ state'[s] = state[s] /\ selected_mailbox'[s] = selected_mailbox[s] /\ list'[s] = list[s]
               /\ Selected(s) /\ ~disturbed'[s] =>
                      ~disturbed[s] /\ Kept(boxes[selected_mailbox[s]], boxes'[selected_mailbox[s]])
    PROVE  ImapInv'
<1>1. /\ SessionsOK /\ BoxesOK(boxes, created) /\ BoxesOK(boxes', created')
      /\ \A s \in Sessions : InSync(s)
  BY SyncIs DEF ImapInv, StoreInv
<1>2. ASSUME NEW s \in Sessions PROVE InSync(s)'
  <2>1. CASE s \in mine
    BY <2>1
  <2>2. CASE s \notin mine
    BY <1>1, <2>2, StaysInSync
  <2> QED
    BY <2>1, <2>2
<1>3. SyncUnlessDisturbed'
  BY <1>2 DEF SyncUnlessDisturbed, InSync
<1> QED
  BY <1>3 DEF ImapInv

\* NothingVanishes, of one step.
Stays ==
    \A mb \in Names : \A m \in boxes[mb].messages :
        \/ \E other \in Names : \E copy \in boxes'[other].messages : copy.id = m.id
        \/ Deleted \in m.flags
        \/ boxes'[mb] = NoBox

LEMMA OneBoxStays ==
    ASSUME CountsOK, BoxesOK(boxes, created), NEW mb \in Names, NEW new, OneBox(mb, new),
           \A m \in Base(mb).messages : Deleted \in m.flags \/ \E n \in new.messages : n.id = m.id
    PROVE  Stays
<1> SUFFICES ASSUME NEW x \in Names, NEW m \in boxes[x].messages, Deleted \notin m.flags
             PROVE  \E other \in Names : \E copy \in boxes'[other].messages : copy.id = m.id
  BY DEF Stays
<1>1. boxes'[mb] = new /\ (x # mb => boxes'[x] = boxes[x])
  BY DEF OneBox, BoxesOK
<1>2. CASE x # mb
  BY <1>1, <1>2
<1>3. CASE x = mb
  <2>1. m \in Base(mb).messages
    BY <1>3, BaseIs
  <2> QED
    BY <1>1, <2>1
<1> QED
  BY <1>2, <1>3

\* What makes sure of one mailbox.
LEMMA EnsuredOne ==
    ASSUME CountsOK, BoxesOK(boxes, created), NEW mb \in Names
    PROVE  /\ Ensured({mb}) = [boxes EXCEPT ![mb] = Base(mb)]
           /\ Ensured({mb})[mb] = Base(mb)
           /\ Ensure({mb}) => created' = created + IF Exists(mb) THEN 0 ELSE 1
<1>1. Missing({mb}) = IF Exists(mb) THEN {} ELSE {mb}
  BY DEF Missing
<1>2. Cardinality({}) = 0 /\ Cardinality({mb}) = 1
  BY FS_EmptySet, FS_Singleton
<1>3. {other \in Missing({mb}) : other = INBOX /\ mb # INBOX} = {}
  BY <1>1
<1>4. ASSUME NEW x \in Names
      PROVE  Ensured({mb})[x] = IF x = mb THEN Base(mb) ELSE boxes[x]
  <2>1. CASE x # mb
    BY <2>1 DEF Ensured
  <2>2. CASE x = mb
    <3>1. created + 1 + 0 = created + 1
      BY DEF CountsOK
    <3>2. Ensured({mb})[mb] = IF Exists(mb) THEN boxes[mb] ELSE FreshBox(created + 1 + 0)
      BY <1>2, <1>3 DEF Ensured
    <3> QED
      BY <2>2, <3>1, <3>2 DEF Base
  <2> QED
    BY <2>1, <2>2
<1>5. Ensured({mb}) = [x \in Names |-> Ensured({mb})[x]]
  BY DEF Ensured
<1>6. Ensured({mb}) = [boxes EXCEPT ![mb] = Base(mb)]
  BY <1>4, <1>5 DEF BoxesOK
<1>7. Ensure({mb}) => created' = created + IF Exists(mb) THEN 0 ELSE 1
  BY <1>1, <1>2 DEF Ensure
<1> QED
  BY <1>4, <1>6, <1>7

\* A step that changes one mailbox, which goes on, and of a session at most the reply.
LEMMA QuietStep ==
    ASSUME ImapInv, NEW mb \in Names, NEW new, GoesOn(Base(mb), new), Kept(Base(mb), new), OneBox(mb, new),
           registered' \in BOOLEAN, delivered' \in Nat, read' \subseteq Nat, read \subseteq read',
           \A n \in new.messages : Seen \in n.flags =>
               n.id \in read' \/ \E m \in Base(mb).messages : m.id = n.id /\ Seen \in m.flags,
           UNCHANGED <<sessions, list, disturbed, told>>,
           reply' \in [Sessions -> [asked : SUBSET Parts, sent : SUBSET Parts]]
    PROVE  ImapInv' /\ Stays
<1>1. StoreInv /\ CountsOK /\ BoxesOK(boxes, created) /\ SessionsOK
  BY DEF ImapInv, StoreInv
<1>2. StoreInv'
  BY <1>1, OneBoxStores
<1>3. SessionsOK'
  BY <1>1 DEF SessionsOK, sessions
<1>4. \A x \in Names : Kept(boxes[x], boxes'[x])
  BY <1>1, OneBoxKept
<1>5. \A s \in Sessions : Selected(s) => selected_mailbox[s] \in Names
  BY <1>1 DEF SessionsOK, Selected
<1>6. ImapInv'
  <2> DEFINE mine == {}
  <2>1. \A s \in mine : InSync(s)'
    OBVIOUS
  <2>2. \A s \in Sessions : s \notin mine =>
            /\ state'[s] = state[s] /\ selected_mailbox'[s] = selected_mailbox[s] /\ list'[s] = list[s]
            /\ Selected(s) /\ ~disturbed'[s] =>
                   ~disturbed[s] /\ Kept(boxes[selected_mailbox[s]], boxes'[selected_mailbox[s]])
    BY <1>4, <1>5 DEF sessions
  <2> HIDE DEF mine
  <2> QED
    BY <1>2, <1>3, <2>1, <2>2, SessionsStep
<1>7. Stays
  BY <1>1, OneBoxStays DEF Kept
<1> QED
  BY <1>6, <1>7

LEMMA GoesOnFresh ==
    ASSUME CountsOK, BoxesOK(boxes, created), NEW mb \in Names
    PROVE  GoesOn(Base(mb), Base(mb)) /\ Kept(Base(mb), Base(mb))
BY BaseIs, GoesOnAlike

(***************************************************************************)
(* The actions that change no session.                                     *)
(***************************************************************************)
LEMMA DeliverStep == ASSUME ImapInv, NEW mb \in SmtpBoxes, Deliver(mb) PROVE ImapInv' /\ Stays
<1>1. CountsOK /\ BoxesOK(boxes, created) /\ mb \in Names
  BY ImapAssumption DEF ImapInv, StoreInv
<1> DEFINE box == Base(mb)
           message == [uid |-> box.next_uid, id |-> delivered + 1, flags |-> {}]
           new == [box EXCEPT !.next_uid = @ + 1, !.messages = @ \union {message}]
<1>2. Ensure({mb}) /\ boxes' = [boxes EXCEPT ![mb] = new] /\ delivered' = delivered + 1
  BY <1>1, EnsuredOne DEF Deliver
<1>3. OneBox(mb, new)
  BY <1>1, <1>2, EnsuredOne DEF OneBox
<1>4. GoodBox(box) /\ box.next_uid # 0
  BY <1>1, BaseIs
<1> HIDE DEF box
<1>5. box \in Mailbox /\ box.next_uid \in Nat /\ delivered \in Nat
  BY <1>1, <1>4 DEF GoodBox, Mailbox, CountsOK
<1>6. message \in Message
  BY <1>5 DEF Message
<1>7. /\ new.born = box.born /\ new.next_uid = box.next_uid + 1
      /\ new.messages = box.messages \union {message} /\ new \in Mailbox
  <2> HIDE DEF message
  <2>1. box.messages \union {message} \in SUBSET Message /\ box.next_uid + 1 \in Nat
    BY <1>5, <1>6 DEF Mailbox
  <2> QED
    BY <1>5, <2>1 DEF Mailbox
<1>8. message.uid = box.next_uid /\ message.flags = {}
  OBVIOUS
<1> HIDE DEF message, new
<1>9. \A m \in box.messages : 0 < m.uid /\ m.uid < box.next_uid /\ m.uid \in Nat
  BY <1>4, <1>5 DEF GoodBox, Mailbox, Message
<1>10. GoodBox(new)
  BY <1>4, <1>5, <1>7, <1>8, <1>9 DEF GoodBox
<1>11. GoesOn(box, new)
  BY <1>5, <1>7, <1>8, <1>10 DEF GoesOn
<1>12. Kept(box, new)
  BY <1>5, <1>7, <1>8, <1>9 DEF Kept
<1>13. \A n \in new.messages : Seen \in n.flags => \E m \in box.messages : m.id = n.id /\ Seen \in m.flags
  BY <1>7, <1>8
<1>14. /\ registered' = registered /\ read' = read /\ reply' = reply /\ delivered' \in Nat
       /\ UNCHANGED <<sessions, list, disturbed, told>>
  BY <1>2, <1>5 DEF Deliver, clients
<1> QED
  BY <1>1, <1>3, <1>11, <1>12, <1>13, <1>14, QuietStep DEF box, CountsOK, ImapInv, SessionsOK

LEMMA SureStep ==
    ASSUME ImapInv, NEW mb \in Names, Ensure({mb}), boxes' = [boxes EXCEPT ![mb] = Base(mb)],
           UNCHANGED <<registered, delivered, sessions, clients>>
    PROVE  ImapInv' /\ Stays
<1>1. CountsOK /\ BoxesOK(boxes, created) /\ SessionsOK
  BY DEF ImapInv, StoreInv
<1>2. OneBox(mb, Base(mb))
  BY <1>1, EnsuredOne DEF OneBox
<1>3. GoesOn(Base(mb), Base(mb)) /\ Kept(Base(mb), Base(mb))
  BY <1>1, GoesOnFresh
<1>4. /\ registered' = registered /\ read' = read /\ reply' = reply /\ delivered' = delivered
      /\ UNCHANGED <<sessions, list, disturbed, told>>
  BY DEF clients
<1> QED
  BY <1>1, <1>2, <1>3, <1>4, QuietStep DEF CountsOK, SessionsOK

LEMMA CreateStep ==
    ASSUME ImapInv, NEW s \in Sessions, NEW mb \in Names, Create(s, mb) \/ (List(s) /\ mb = INBOX)
    PROVE  ImapInv' /\ Stays
<1>1. CountsOK /\ BoxesOK(boxes, created)
  BY DEF ImapInv, StoreInv
<1>2. /\ Ensure({mb}) /\ boxes' = Ensured({mb})
      /\ UNCHANGED <<registered, delivered, sessions, clients>>
  BY DEF Create, List
<1> QED
  BY <1>1, <1>2, EnsuredOne, SureStep

\* A session's own mailbox.
LEMMA OwnBox ==
    ASSUME ImapInv, NEW s \in Sessions, Selected(s)
    PROVE  /\ selected_mailbox[s] \in Names /\ Current(s) = Base(selected_mailbox[s])
           /\ CountsOK /\ BoxesOK(boxes, created) /\ SessionsOK
           /\ GoodBox(Current(s))
           /\ Exists(selected_mailbox[s]) => Current(s) = boxes[selected_mailbox[s]]
           /\ \A new : Put(s, new) <=> boxes' = [boxes EXCEPT ![selected_mailbox[s]] = new]
<1>1. CountsOK /\ BoxesOK(boxes, created) /\ SessionsOK
  BY DEF ImapInv, StoreInv
<1>2. selected_mailbox[s] \in Names /\ Current(s) = Base(selected_mailbox[s])
  BY <1>1 DEF SessionsOK, Selected, Current, Base
<1>3. \A new : Put(s, new) <=> boxes' = [boxes EXCEPT ![selected_mailbox[s]] = new]
  BY DEF Put
<1> QED
  BY <1>1, <1>2, <1>3, BaseIs

LEMMA SearchStep == ASSUME ImapInv, NEW s \in Sessions, Selected(s), Search(s) PROVE ImapInv' /\ Stays
BY OwnBox, SureStep DEF Search

(***************************************************************************)
(* FETCH and STORE.                                                        *)
(***************************************************************************)
LEMMA ReflaggedIs ==
    ASSUME NEW box, GoodBox(box), NEW uids, NEW arg \in [mode : Modes, flags : SUBSET Flags]
    PROVE  LET new == Reflagged(box, uids, arg)
           IN  /\ GoesOn(box, new) /\ Kept(box, new) /\ new.messages \in SUBSET Message
               /\ \A n \in new.messages : \E m \in box.messages :
                     /\ n.uid = m.uid /\ n.id = m.id
                     /\ n.flags = IF m.uid \in uids THEN Applied(arg, m.flags) ELSE m.flags
               /\ \A m \in box.messages : \E n \in new.messages : n.uid = m.uid /\ n.id = m.id
<1> DEFINE to(m) == IF m.uid \in uids THEN [m EXCEPT !.flags = Applied(arg, @)] ELSE m
           new == Reflagged(box, uids, arg)
<1>1. box \in Mailbox /\ box.messages \in SUBSET Message /\ box.next_uid \in Nat
  BY DEF GoodBox, Mailbox
<1>2. ASSUME NEW m \in box.messages
      PROVE  /\ to(m) \in Message /\ to(m).uid = m.uid /\ to(m).id = m.id
             /\ to(m).flags = IF m.uid \in uids THEN Applied(arg, m.flags) ELSE m.flags
  <2>1. m.flags \in SUBSET Flags
    BY <1>1 DEF Message
  <2>2. Applied(arg, m.flags) \in SUBSET Flags
    BY <2>1 DEF Applied, Modes
  <2> QED
    BY <1>1, <2>2 DEF Message
<1>3. new = [box EXCEPT !.messages = {to(m) : m \in box.messages}]
  BY <1>1 DEF Reflagged, Mailbox
<1> HIDE DEF to, new
<1>4. /\ new \in Mailbox /\ new.born = box.born /\ new.next_uid = box.next_uid
      /\ new.messages = {to(m) : m \in box.messages}
  BY <1>1, <1>2, <1>3 DEF Mailbox
<1>5. \A n \in new.messages : \E m \in box.messages : n = to(m)
  BY <1>4
<1>6. \A m \in box.messages : to(m) \in new.messages
  BY <1>4
<1>7. GoodBox(new)
  BY <1>2, <1>4, <1>5 DEF GoodBox
<1>8. GoesOn(box, new)
  BY <1>1, <1>2, <1>4, <1>5, <1>7 DEF GoesOn
<1>9. Kept(box, new)
  BY <1>2, <1>5, <1>6 DEF Kept
<1>10. \A n \in new.messages : n \in Message
  BY <1>2, <1>5
<1> QED
  BY <1>2, <1>5, <1>6, <1>8, <1>9, <1>10 DEF new

\* A fetch that marks messages sends something of them that was asked for without PEEK.
LEMMA MarkedIsRead ==
    ASSUME NEW asked \in SUBSET [part : Parts, peek : BOOLEAN], Marks(asked)
    PROVE  Sent(asked) \intersect PartsOf({item \in asked : ~item.peek}) # {}
<1> DEFINE plain == {item \in asked : ~item.peek}
<1>1. CASE "fields" \in PartsOf(asked)
  <2>1. PICK item \in asked : item.part = "fields"
    BY <1>1 DEF PartsOf
  <2>2. item \in plain
    BY <1>1 DEF Marks
  <2>3. "fields" \in PartsOf(plain)
    BY <2>1, <2>2 DEF PartsOf
  <2> QED
    BY <1>1, <2>3 DEF Sent
<1>2. CASE "fields" \notin PartsOf(asked) /\ [part |-> "header", peek |-> FALSE] \in asked
  <2>1. [part |-> "header", peek |-> FALSE] \in plain
    BY <1>2
  <2>2. "header" \in PartsOf(plain)
    BY <2>1 DEF PartsOf
  <2> QED
    BY <1>2, <2>2 DEF Sent
<1>3. CASE "fields" \notin PartsOf(asked) /\ [part |-> "header", peek |-> FALSE] \notin asked
  BY <1>3 DEF Sent, Marks
<1> QED
  BY <1>1, <1>2, <1>3

LEMMA SentIsParts ==
    ASSUME NEW asked \in SUBSET [part : Parts, peek : BOOLEAN]
    PROVE  PartsOf(asked) \in SUBSET Parts /\ Sent(asked) \in SUBSET Parts
<1>1. PartsOf(asked) \in SUBSET Parts
  BY DEF PartsOf
<1>2. {"fields"} \in SUBSET Parts /\ {"header"} \in SUBSET Parts /\ {"all"} \in SUBSET Parts
  BY DEF Parts
<1> QED
  BY <1>1, <1>2 DEF Sent

LEMMA MarkedIs ==
    ASSUME ImapInv, NEW s \in Sessions, Selected(s), NEW asked \in FetchArgs, NEW uids
    PROVE  /\ GoesOn(Current(s), Marked(s, uids, asked)) /\ Kept(Current(s), Marked(s, uids, asked))
           /\ ReadBy(s, uids, asked) \subseteq Nat /\ read \subseteq ReadBy(s, uids, asked)
           /\ \A n \in Marked(s, uids, asked).messages : Seen \in n.flags =>
                 \/ n.id \in ReadBy(s, uids, asked)
                 \/ \E m \in Current(s).messages : m.id = n.id /\ Seen \in m.flags
<1> DEFINE box == Current(s)
           new == Marked(s, uids, asked)
           red == ReadBy(s, uids, asked)
<1>1. GoodBox(box) /\ read \in SUBSET Nat /\ asked \in SUBSET [part : Parts, peek : BOOLEAN]
  BY OwnBox, ImapAssumption DEF CountsOK
<1>2. Ids(box, uids) \in SUBSET Nat
  BY <1>1 DEF Ids, GoodBox, Mailbox, Message
<1>3. red \subseteq Nat /\ read \subseteq red
  <2> HIDE DEF box
  <2>1. red = read \/ red = read \union Ids(box, uids)
    BY DEF ReadBy, box
  <2> QED
    BY <1>1, <1>2, <2>1
<1>4. CASE ~(Marks(asked) /\ ~readonly[s])
  <2>1. new = box
    BY <1>4 DEF Marked
  <2> QED
    BY <1>1, <1>3, <2>1, GoesOnAlike
<1>5. CASE Marks(asked) /\ ~readonly[s]
  <2>1. new = Reflagged(box, uids, AddSeen)
    BY <1>5 DEF Marked
  <2>2. red = read \union Ids(box, uids)
    BY <1>1, <1>5, MarkedIsRead DEF ReadBy
  <2>3. AddSeen \in [mode : Modes, flags : SUBSET Flags]
    BY ImapAssumption DEF AddSeen, Modes
  <2> HIDE DEF box, new, red
  <2>4. /\ GoesOn(box, new) /\ Kept(box, new)
        /\ \A n \in new.messages : \E m \in box.messages :
              /\ n.uid = m.uid /\ n.id = m.id
              /\ n.flags = IF m.uid \in uids THEN Applied(AddSeen, m.flags) ELSE m.flags
    BY <1>1, <2>1, <2>3, ReflaggedIs
  <2>5. ASSUME NEW n \in new.messages, Seen \in n.flags
        PROVE  n.id \in red \/ \E m \in box.messages : m.id = n.id /\ Seen \in m.flags
    <3>1. PICK m \in box.messages : /\ n.id = m.id
                                    /\ m.uid \notin uids => n.flags = m.flags
      BY <2>4
    <3>2. CASE m.uid \in uids
      BY <2>2, <3>1, <3>2 DEF Ids
    <3>3. CASE m.uid \notin uids
      BY <2>5, <3>1, <3>3
    <3> QED
      BY <3>2, <3>3
  <2> QED
    BY <1>3, <2>4, <2>5 DEF box, new, red
<1> QED
  BY <1>4, <1>5

LEMMA StoredIs ==
    ASSUME ImapInv, NEW s \in Sessions, Selected(s), NEW arg \in StoreArgs, NEW uids
    PROVE  LET new == Reflagged(Current(s), uids, arg)
           IN  /\ GoesOn(Current(s), new) /\ Kept(Current(s), new)
               /\ GivenSeen(s, uids, arg) \subseteq Nat /\ read \subseteq GivenSeen(s, uids, arg)
               /\ \A n \in new.messages : Seen \in n.flags =>
                     \/ n.id \in GivenSeen(s, uids, arg)
                     \/ \E m \in Current(s).messages : m.id = n.id /\ Seen \in m.flags
<1> DEFINE box == Current(s)
           new == Reflagged(box, uids, arg)
           red == GivenSeen(s, uids, arg)
<1>1. GoodBox(box) /\ read \in SUBSET Nat /\ arg \in [mode : Modes, flags : SUBSET Flags]
  BY OwnBox, ImapAssumption DEF CountsOK
<1>2. Ids(box, uids) \in SUBSET Nat
  BY <1>1 DEF Ids, GoodBox, Mailbox, Message
<1>3. red = IF Seen \in arg.flags /\ arg.mode # "remove" THEN read \union Ids(box, uids) ELSE read
  BY DEF GivenSeen
<1> HIDE DEF box, new, red
<1>4. /\ GoesOn(box, new) /\ Kept(box, new)
      /\ \A n \in new.messages : \E m \in box.messages :
            /\ n.uid = m.uid /\ n.id = m.id
            /\ n.flags = IF m.uid \in uids THEN Applied(arg, m.flags) ELSE m.flags
  BY <1>1, ReflaggedIs DEF new
<1>5. ASSUME NEW n \in new.messages, Seen \in n.flags
      PROVE  n.id \in red \/ \E m \in box.messages : m.id = n.id /\ Seen \in m.flags
  <2>1. PICK m \in box.messages : /\ n.id = m.id
                                  /\ n.flags = IF m.uid \in uids THEN Applied(arg, m.flags) ELSE m.flags
    BY <1>4
  <2>2. CASE m.uid \in uids
    <3>1. m.id \in Ids(box, uids)
      BY <2>2 DEF Ids
    <3>2. Seen \in Applied(arg, m.flags)
      BY <1>5, <2>1, <2>2
    <3>3. Seen \in m.flags \/ (Seen \in arg.flags /\ arg.mode # "remove")
      BY <1>1, <3>2 DEF Applied, Modes
    <3> QED
      BY <1>3, <2>1, <3>1, <3>3
  <2>3. CASE m.uid \notin uids
    BY <1>5, <2>1, <2>3
  <2> QED
    BY <2>2, <2>3
<1>6. red \subseteq Nat /\ read \subseteq red
  BY <1>1, <1>2, <1>3
<1> QED
  BY <1>4, <1>5, <1>6 DEF box, new, red

LEMMA FetchStep ==
    ASSUME ImapInv, NEW s \in Sessions, Selected(s), NEW asked \in FetchArgs, NEW uids,
           Fetch(s, uids, asked)
    PROVE  ImapInv' /\ Stays
<1> DEFINE mb == selected_mailbox[s]
           new == Marked(s, uids, asked)
<1>1. /\ mb \in Names /\ Current(s) = Base(mb) /\ CountsOK /\ BoxesOK(boxes, created) /\ SessionsOK
  BY OwnBox
<1>2. /\ GoesOn(Base(mb), new) /\ Kept(Base(mb), new) /\ read' \subseteq Nat /\ read \subseteq read'
      /\ \A n \in new.messages : Seen \in n.flags =>
            n.id \in read' \/ \E m \in Base(mb).messages : m.id = n.id /\ Seen \in m.flags
  BY <1>1, MarkedIs DEF Fetch
<1>3. OneBox(mb, new)
  BY <1>1, EnsuredOne DEF Fetch, Put, OneBox
<1>4. reply' \in [Sessions -> [asked : SUBSET Parts, sent : SUBSET Parts]]
  <2>1. PartsOf(asked) \in SUBSET Parts /\ Sent(asked) \in SUBSET Parts
    BY SentIsParts, ImapAssumption
  <2>2. [asked |-> PartsOf(asked), sent |-> Sent(asked)] \in [asked : SUBSET Parts, sent : SUBSET Parts]
    BY <2>1
  <2> QED
    BY <1>1, <2>2 DEF Fetch, SessionsOK
<1>5. registered' \in BOOLEAN /\ delivered' \in Nat /\ UNCHANGED <<sessions, list, disturbed, told>>
  BY <1>1 DEF Fetch, CountsOK
<1> HIDE DEF mb, new
<1> QED
  BY <1>1, <1>2, <1>3, <1>4, <1>5, QuietStep

LEMMA StoreStep ==
    ASSUME ImapInv, NEW s \in Sessions, Selected(s), NEW arg \in StoreArgs, NEW uids, Store(s, uids, arg)
    PROVE  ImapInv' /\ Stays
<1> DEFINE mb == selected_mailbox[s]
           new == Reflagged(Current(s), uids, arg)
<1>1. /\ mb \in Names /\ Current(s) = Base(mb) /\ CountsOK /\ BoxesOK(boxes, created) /\ SessionsOK
  BY OwnBox
<1>2. /\ GoesOn(Base(mb), new) /\ Kept(Base(mb), new) /\ read' \subseteq Nat /\ read \subseteq read'
      /\ \A n \in new.messages : Seen \in n.flags =>
            n.id \in read' \/ \E m \in Base(mb).messages : m.id = n.id /\ Seen \in m.flags
  BY <1>1, StoredIs DEF Store
<1>3. OneBox(mb, new)
  BY <1>1, EnsuredOne DEF Store, Put, OneBox
<1>4. /\ registered' \in BOOLEAN /\ delivered' \in Nat /\ UNCHANGED <<sessions, list, disturbed, told>>
      /\ reply' \in [Sessions -> [asked : SUBSET Parts, sent : SUBSET Parts]]
  BY <1>1 DEF Store, CountsOK, SessionsOK
<1> HIDE DEF mb, new
<1> QED
  BY <1>1, <1>2, <1>3, <1>4, QuietStep

(***************************************************************************)
(* The ends of sessions.                                                   *)
(***************************************************************************)
LEMMA EndingStep ==
    ASSUME ImapInv, StoreInv', NEW s \in Sessions, NEW mbs, EndsAfter(s, mbs),
           \A x \in Names : x \notin mbs => Kept(boxes[x], boxes'[x])
    PROVE  ImapInv'
<1>1. SessionsOK /\ NoName \notin Names
  BY ImapAssumption DEF ImapInv
<1>2. SessionsOK'
  <2>1. NoReply \in [asked : SUBSET Parts, sent : SUBSET Parts] /\ <<>> \in Seq(Entry)
    BY DEF NoReply
  <2>2. list' \in [Sessions -> Seq(Entry)] /\ reply' \in [Sessions -> [asked : SUBSET Parts, sent : SUBSET Parts]]
    BY <1>1, <2>1 DEF EndsAfter, SessionsOK
  <2>3. disturbed' \in [Sessions -> BOOLEAN]
    BY <1>1 DEF EndsAfter, SessionsOK
  <2>4. /\ state' \in [Sessions -> {"NOT_AUTHENTICATED", "AUTHENTICATED", "SELECTED"}]
        /\ selected_mailbox' \in [Sessions -> Names \union {NoName}]
        /\ readonly' \in [Sessions -> BOOLEAN]
        /\ \A t \in Sessions : state'[t] = "SELECTED" <=> selected_mailbox'[t] # NoName
    BY <1>1 DEF EndsAfter, SessionsOK
  <2> QED
    BY <2>2, <2>3, <2>4 DEF SessionsOK
<1> DEFINE mine == {s}
<1>3. \A t \in mine : InSync(t)'
  <2>1. state'[s] = "NOT_AUTHENTICATED"
    BY <1>1 DEF EndsAfter, SessionsOK
  <2> QED
    BY <2>1 DEF InSync, Selected
<1>4. ASSUME NEW t \in Sessions, t \notin mine
      PROVE  /\ state'[t] = state[t] /\ selected_mailbox'[t] = selected_mailbox[t] /\ list'[t] = list[t]
             /\ Selected(t) /\ ~disturbed'[t] =>
                    ~disturbed[t] /\ Kept(boxes[selected_mailbox[t]], boxes'[selected_mailbox[t]])
  <2>1. t # s
    BY <1>4
  <2>2. state'[t] = state[t] /\ selected_mailbox'[t] = selected_mailbox[t] /\ list'[t] = list[t]
    BY <1>1, <2>1 DEF EndsAfter, SessionsOK
  <2>3. ASSUME Selected(t), ~disturbed'[t] PROVE ~disturbed[t] /\ selected_mailbox[t] \notin mbs
    BY <2>1, <2>3 DEF EndsAfter
  <2>4. Selected(t) => selected_mailbox[t] \in Names
    BY <1>1 DEF Selected, SessionsOK
  <2> QED
    BY <2>2, <2>3, <2>4
<1> HIDE DEF mine
<1> QED
  BY <1>2, <1>3, <1>4, SessionsStep

LEMMA AllKept == ASSUME UNCHANGED boxes PROVE /\ \A x \in Names : Kept(boxes[x], boxes'[x])
                                              /\ Stays
BY DEF Kept, Stays

LEMMA StoreSame ==
    ASSUME StoreInv, UNCHANGED <<store, told, read>> PROVE StoreInv'
BY DEF StoreInv, CountsOK, BoxesOK, ToldOK, ToldStaysTrue, SeenMeansRead, store

LEMMA EndsStep ==
    ASSUME ImapInv, NEW s \in Sessions, Ends(s), UNCHANGED store PROVE ImapInv' /\ Stays
<1>1. StoreInv' /\ UNCHANGED boxes
  BY StoreSame DEF Ends, EndsAfter, ImapInv, store
<1>2. (\A x \in Names : Kept(boxes[x], boxes'[x])) /\ Stays
  BY <1>1, AllKept
<1> QED
  BY <1>1, <1>2, EndingStep DEF Ends

\* A message set names messages there are.
LEMMA TargetsAre ==
    ASSUME ImapInv, NEW s \in Sessions, Selected(s), NEW set, NEW byNumber \in BOOLEAN
    PROVE  Targets(s, set, byNumber) \subseteq Uids(Current(s))
<1> DEFINE listing == Listing(Current(s))
<1>1. \A numbers : Expand(set, numbers) \subseteq numbers
  BY DEF Expand
<1>2. listing \in Seq(Current(s).messages)
  BY OwnBox, ListingIs
<1>3. \A i \in DOMAIN listing : listing[i].uid \in Uids(Current(s))
  <2> HIDE DEF listing
  <2>1. \A i \in DOMAIN listing : listing[i] \in Current(s).messages
    BY <1>2
  <2> QED
    BY <2>1 DEF Uids
<1> HIDE DEF listing
<1>4. Expand(set, DOMAIN listing) \subseteq DOMAIN listing /\ Expand(set, Uids(Current(s))) \subseteq Uids(Current(s))
  BY <1>1
<1>5. Targets(s, set, byNumber) =
         IF byNumber THEN {listing[i].uid : i \in Expand(set, DOMAIN listing)}
         ELSE Expand(set, Uids(Current(s)))
  BY DEF Targets, listing
<1> QED
  BY <1>3, <1>4, <1>5

\* A mailbox with something to do is there.
LEMMA NonemptyExists ==
    ASSUME ImapInv, NEW s \in Sessions, Selected(s), Current(s).messages # {} \/ Uids(Current(s)) # {}
    PROVE  Exists(selected_mailbox[s])
<1> SUFFICES ASSUME ~Exists(selected_mailbox[s]) PROVE FALSE
  OBVIOUS
<1>1. Current(s).messages = {}
  BY OwnBox, BaseIs
<1> QED
  BY <1>1 DEF Uids

LEMMA CutShortExists ==
    ASSUME ImapInv, NEW s \in Sessions, Selected(s), NEW done \in CutShort(s)
    PROVE  Exists(selected_mailbox[s])
<1>1. PICK uids \in Chosen(s) : done \in {Below(uids, k) : k \in uids}
  BY DEF CutShort
<1>2. uids # {}
  BY <1>1
<1>3. uids \subseteq Uids(Current(s))
  <2>1. CASE uids \in {Targets(s, set, FALSE) : set \in Sets}
    BY <2>1, TargetsAre
  <2>2. CASE uids \in {Targets(s, set, TRUE) : set \in {x \in Sets : IsNumber(x)}}
    BY <2>2, TargetsAre
  <2> QED
    BY <1>1, <2>1, <2>2 DEF Chosen
<1> QED
  BY <1>2, <1>3, NonemptyExists

\* The end of a session that has changed its mailbox, which is there.
LEMMA CutOffStep ==
    ASSUME ImapInv, NEW s \in Sessions, Selected(s), Exists(selected_mailbox[s]),
           NEW new, Put(s, new), GoesOn(Current(s), new),
           NEW mbs, EndsAfter(s, mbs), Kept(Current(s), new) \/ selected_mailbox[s] \in mbs,
           UNCHANGED <<registered, created, delivered>>, read' \subseteq Nat, read \subseteq read',
           \A n \in new.messages : Seen \in n.flags =>
               n.id \in read' \/ \E m \in Current(s).messages : m.id = n.id /\ Seen \in m.flags,
           \A m \in Current(s).messages : Deleted \in m.flags \/ \E n \in new.messages : n.id = m.id
    PROVE  ImapInv' /\ Stays
<1> DEFINE mb == selected_mailbox[s]
<1>1. /\ mb \in Names /\ Current(s) = Base(mb) /\ CountsOK /\ BoxesOK(boxes, created) /\ StoreInv
      /\ Current(s) = boxes[mb]
  BY OwnBox DEF ImapInv
<1>2. OneBox(mb, new)
  BY <1>1 DEF OneBox, Put, CountsOK
<1>3. told' = told /\ registered' \in BOOLEAN /\ delivered' \in Nat
  BY <1>1 DEF EndsAfter, CountsOK
<1> HIDE DEF mb
<1>4. StoreInv'
  BY <1>1, <1>2, <1>3, OneBoxStores
<1>5. \A x \in Names : x \notin mbs => Kept(boxes[x], boxes'[x])
  <2>1. boxes'[mb] = new /\ \A x \in Names : x # mb => boxes'[x] = boxes[x]
    BY <1>1, <1>2 DEF OneBox, BoxesOK
  <2> QED
    BY <1>1, <2>1, GoesOnAlike DEF BoxesOK, mb
<1>6. Stays
  BY <1>1, <1>2, OneBoxStays
<1> QED
  BY <1>4, <1>5, <1>6, EndingStep

LEMMA FetchFailsStep ==
    ASSUME ImapInv, NEW s \in Sessions, Selected(s), NEW asked \in FetchArgs, NEW done \in CutShort(s),
           FetchFails(s, done, asked)
    PROVE  ImapInv' /\ Stays
<1> DEFINE new == Marked(s, done, asked)
<1>1. Exists(selected_mailbox[s])
  BY CutShortExists
<1>2. /\ GoesOn(Current(s), new) /\ Kept(Current(s), new) /\ read' \subseteq Nat /\ read \subseteq read'
      /\ \A n \in new.messages : Seen \in n.flags =>
            n.id \in read' \/ \E m \in Current(s).messages : m.id = n.id /\ Seen \in m.flags
  BY MarkedIs DEF FetchFails
<1>3. Put(s, new) /\ EndsAfter(s, {}) /\ UNCHANGED <<registered, created, delivered>>
  BY DEF FetchFails
<1> HIDE DEF new
<1>4. \A m \in Current(s).messages : \E n \in new.messages : n.id = m.id
  BY <1>2 DEF Kept
<1> QED
  BY <1>1, <1>2, <1>3, <1>4, CutOffStep

LEMMA StoreFailsStep ==
    ASSUME ImapInv, NEW s \in Sessions, Selected(s), NEW arg \in StoreArgs, NEW done \in CutShort(s),
           StoreFails(s, done, arg)
    PROVE  ImapInv' /\ Stays
<1> DEFINE new == Reflagged(Current(s), done, arg)
<1>1. Exists(selected_mailbox[s])
  BY CutShortExists
<1>2. /\ GoesOn(Current(s), new) /\ Kept(Current(s), new) /\ read' \subseteq Nat /\ read \subseteq read'
      /\ \A n \in new.messages : Seen \in n.flags =>
            n.id \in read' \/ \E m \in Current(s).messages : m.id = n.id /\ Seen \in m.flags
  BY StoredIs DEF StoreFails
<1>3. Put(s, new) /\ EndsAfter(s, {}) /\ UNCHANGED <<registered, created, delivered>>
  BY DEF StoreFails
<1> HIDE DEF new
<1>4. \A m \in Current(s).messages : \E n \in new.messages : n.id = m.id
  BY <1>2 DEF Kept
<1> QED
  BY <1>1, <1>2, <1>3, <1>4, CutOffStep

(***************************************************************************)
(* EXPUNGE.                                                                *)
(***************************************************************************)
LEMMA FewerGoOn ==
    ASSUME NEW box, GoodBox(box), NEW gone
    PROVE  LET new == [box EXCEPT !.messages = @ \ gone]
           IN GoesOn(box, new) /\ new.messages = box.messages \ gone
BY DEF GoesOn, GoodBox, Mailbox

LEMMA ExpungeFailsStep ==
    ASSUME ImapInv, NEW s \in Sessions, Selected(s), ExpungeFails(s) PROVE ImapInv' /\ Stays
<1>1. PICK k \in {m.uid : m \in ToExpunge(s)} \union {Current(s).next_uid} :
        LET done == {m \in ToExpunge(s) : m.uid < k}
        IN /\ Put(s, [Current(s) EXCEPT !.messages = @ \ done])
           /\ EndsAfter(s, IF done = {} THEN {} ELSE {selected_mailbox[s]})
  BY DEF ExpungeFails
<1> DEFINE done == {m \in ToExpunge(s) : m.uid < k}
           new == [Current(s) EXCEPT !.messages = @ \ done]
           mbs == IF done = {} THEN {} ELSE {selected_mailbox[s]}
<1>2. Put(s, new) /\ EndsAfter(s, mbs) /\ UNCHANGED <<registered, created, delivered, read>>
  BY <1>1 DEF ExpungeFails
<1>3. Current(s).messages # {} /\ \A m \in done : Deleted \in m.flags
  BY DEF ExpungeFails, ToExpunge
<1>4. Exists(selected_mailbox[s])
  BY <1>3, NonemptyExists
<1>5. GoesOn(Current(s), new) /\ new.messages = Current(s).messages \ done
  <2>1. GoodBox(Current(s))
    BY OwnBox
  <2> HIDE DEF done
  <2> QED
    BY <2>1, FewerGoOn
<1>6. Kept(Current(s), new) \/ selected_mailbox[s] \in mbs
  <2> HIDE DEF done, new
  <2>1. CASE done = {}
    BY <1>5, <2>1 DEF Kept
  <2> QED
    BY <2>1
<1> HIDE DEF done, new, mbs
<1>7. read \in SUBSET Nat /\ read' = read
  BY <1>2, OwnBox DEF CountsOK
<1>8. /\ \A n \in new.messages : n \in Current(s).messages
      /\ \A m \in Current(s).messages : Deleted \in m.flags \/ m \in new.messages
  BY <1>3, <1>5
<1> QED
  BY <1>2, <1>4, <1>5, <1>6, <1>7, <1>8, CutOffStep

LEMMA RemovedNone == ASSUME NEW l PROVE Removed(l, <<>>) = l
<1>1. PICK left : /\ left[0] = l
                  /\ \A k \in 1..Len(<<>>) : left[k] = Drop(left[k - 1], (<<>>)[k])
                  /\ Removed(l, <<>>) = left[Len(<<>>)]
  <2>1. <<>> \in Seq(Nat)
    OBVIOUS
  <2> QED
    BY <2>1, RemovedRuns
<1> QED
  BY <1>1

LEMMA ExpungeStep ==
    ASSUME ImapInv, NEW s \in Sessions, Selected(s), Expunge(s) PROVE ImapInv' /\ Stays
<1> DEFINE mb == selected_mailbox[s]
           gone == ToExpunge(s)
           new == [Current(s) EXCEPT !.messages = @ \ gone]
           replies == Ascending({m.uid : m \in gone}, Current(s).next_uid)
<1>1. /\ mb \in Names /\ Current(s) = Base(mb) /\ CountsOK /\ BoxesOK(boxes, created) /\ SessionsOK
      /\ GoodBox(Current(s)) /\ StoreInv
  BY OwnBox DEF ImapInv
<1>2. /\ Put(s, new) /\ list' = [list EXCEPT ![s] = Removed(@, replies)]
      /\ gone # {} => Disturb({mb}, Sessions)
      /\ gone = {} => UNCHANGED disturbed
      /\ UNCHANGED <<registered, delivered, sessions, reply, told, read>>
  BY DEF Expunge
<1>3. OneBox(mb, new)
  BY <1>1, EnsuredOne DEF Expunge, Put, OneBox
<1>4. (\A m \in gone : Deleted \in m.flags) /\ gone \subseteq Current(s).messages
  BY DEF ToExpunge
<1>5. replies \in Seq(Nat) /\ (gone = {} => replies = <<>>)
  <2>1. Current(s).next_uid \in Nat
    BY <1>1 DEF GoodBox, Mailbox
  <2>2. /\ replies \in Seq(Nat)
        /\ \A i \in 1..Len(replies) : replies[i] \in {m.uid : m \in gone}
    <3> DEFINE S == {m.uid : m \in gone}
               n == Current(s).next_uid
    <3> HIDE DEF S, n
    <3>1. Ascending(S, n) \in Seq(Nat) /\ \A i \in 1..Len(Ascending(S, n)) : Ascending(S, n)[i] \in S
      BY <2>1, AscendingIs DEF n
    <3> QED
      BY <3>1 DEF S, n
  <2> HIDE DEF replies
  <2>3. gone = {} => Len(replies) = 0
    BY <2>2
  <2> QED
    BY <2>2, <2>3
<1> HIDE DEF gone, replies
<1>6. GoesOn(Base(mb), new) /\ new.messages = Current(s).messages \ gone
  BY <1>1, FewerGoOn
<1> HIDE DEF new, mb
<1>7. StoreInv'
  <2>1. /\ registered' \in BOOLEAN /\ delivered' \in Nat /\ read' \subseteq Nat /\ read \subseteq read' /\ told' = told
    BY <1>1, <1>2 DEF CountsOK
  <2>2. \A n \in new.messages : n \in Base(mb).messages
    BY <1>1, <1>6
  <2> QED
    BY <1>1, <1>3, <1>6, <2>1, <2>2, OneBoxStores
<1>8. Stays
  <2>1. \A m \in Base(mb).messages : Deleted \in m.flags \/ m \in new.messages
    BY <1>1, <1>4, <1>6
  <2> QED
    BY <1>1, <1>3, <2>1, OneBoxStays
<1>9. SessionsOK'
  <2>1. Removed(list[s], replies) \in Seq(Entry)
    BY <1>1, <1>5, RemovedType DEF SessionsOK
  <2>2. list' \in [Sessions -> Seq(Entry)]
    BY <1>1, <1>2, <2>1 DEF SessionsOK
  <2>3. disturbed' \in [Sessions -> BOOLEAN]
    BY <1>1, <1>2 DEF SessionsOK, Disturb
  <2> QED
    BY <1>1, <1>2, <2>2, <2>3 DEF SessionsOK, sessions
<1>10. \A t \in Sessions :
          /\ state'[t] = state[t] /\ selected_mailbox'[t] = selected_mailbox[t]
          /\ t # s \/ gone = {} => list'[t] = list[t]
  BY <1>1, <1>2, <1>5, RemovedNone DEF SessionsOK, sessions
<1>11. ASSUME NEW t \in Sessions, t # s \/ gone = {}, Selected(t), ~disturbed'[t]
       PROVE  ~disturbed[t] /\ Kept(boxes[selected_mailbox[t]], boxes'[selected_mailbox[t]])
  <2>1. selected_mailbox[t] \in Names
    BY <1>1, <1>11 DEF SessionsOK, Selected
  <2>2. CASE gone = {}
    <3>1. Kept(Base(mb), new)
      BY <1>1, <1>6, <2>2 DEF Kept
    <3> QED
      BY <1>1, <1>2, <1>3, <1>11, <2>1, <2>2, <3>1, OneBoxKept
  <2>3. CASE gone # {}
    <3>1. ~disturbed[t] /\ selected_mailbox[t] # mb
      BY <1>2, <1>11, <2>3 DEF Disturb
    <3>2. boxes'[selected_mailbox[t]] = boxes[selected_mailbox[t]]
      BY <1>1, <1>3, <2>1, <3>1 DEF OneBox, BoxesOK
    <3> QED
      BY <3>1, <3>2 DEF Kept
  <2> QED
    BY <2>2, <2>3
<1> DEFINE mine == IF gone = {} THEN {} ELSE {s}
<1>12. \A t \in mine : InSync(t)'
  <2>1. ASSUME gone # {} PROVE disturbed'[s]
    BY <1>2, <2>1 DEF Disturb, mb
  <2> QED
    BY <2>1 DEF InSync
<1>13. \A t \in Sessions : t \notin mine => t # s \/ gone = {}
  OBVIOUS
<1> HIDE DEF mine
<1> QED
  BY <1>7, <1>8, <1>9, <1>10, <1>11, <1>12, <1>13, SessionsStep

(***************************************************************************)
(* REGISTER and LOGIN make sure of two mailboxes.                          *)
(***************************************************************************)
LEMMA EnsuredTwo ==
    ASSUME CountsOK, Ensure({INBOX, Trash}), boxes' = Ensured({INBOX, Trash})
    PROVE  LET first == IF Exists(INBOX) THEN 0 ELSE 1
               second == IF Exists(Trash) THEN 0 ELSE 1
           IN  /\ created' = created + first + second
               /\ boxes'[INBOX] = IF Exists(INBOX) THEN boxes[INBOX] ELSE FreshBox(created + 1)
               /\ boxes'[Trash] = IF Exists(Trash) THEN boxes[Trash] ELSE FreshBox(created + 1 + first)
               /\ boxes' = [x \in Names |-> boxes'[x]]
               /\ \A x \in Names \ {INBOX, Trash} : boxes'[x] = boxes[x]
<1> DEFINE M == Missing({INBOX, Trash})
           E(mb) == {other \in M : other = INBOX /\ mb # INBOX}
           first == IF Exists(INBOX) THEN 0 ELSE 1
           second == IF Exists(Trash) THEN 0 ELSE 1
<1>1. INBOX \in Names /\ Trash \in Names /\ INBOX # Trash
  BY ImapAssumption
<1>2. /\ Cardinality({}) = 0 /\ Cardinality({INBOX}) = 1 /\ Cardinality({Trash}) = 1
      /\ Cardinality({INBOX, Trash}) = 2
  <2>1. Cardinality({}) = 0 /\ Cardinality({INBOX}) = 1 /\ Cardinality({Trash}) = 1 /\ IsFiniteSet({INBOX})
    BY FS_EmptySet, FS_Singleton
  <2>2. Cardinality({INBOX} \union {Trash}) = Cardinality({INBOX}) + 1
    BY <1>1, <2>1, FS_AddElement
  <2>3. {INBOX} \union {Trash} = {INBOX, Trash}
    OBVIOUS
  <2> QED
    BY <2>1, <2>2, <2>3
<1>3. /\ Exists(INBOX) /\ Exists(Trash) => M = {}
      /\ Exists(INBOX) /\ ~Exists(Trash) => M = {Trash}
      /\ ~Exists(INBOX) /\ Exists(Trash) => M = {INBOX}
      /\ ~Exists(INBOX) /\ ~Exists(Trash) => M = {INBOX, Trash}
  BY <1>1 DEF Missing
<1>4. E(INBOX) = {} /\ E(Trash) = IF Exists(INBOX) THEN {} ELSE {INBOX}
  BY <1>1 DEF Missing
<1>5. created' = created + Cardinality(M)
  BY DEF Ensure
<1>6. \A x \in Names : boxes'[x] = IF Exists(x) \/ x \notin {INBOX, Trash} THEN boxes[x]
                                   ELSE FreshBox(created + 1 + Cardinality(E(x)))
  BY DEF Ensured
<1> HIDE DEF M, E
<1>7. created' = created + first + second
  BY <1>2, <1>3, <1>5 DEF CountsOK
<1>8. created + 1 + 0 = created + 1 /\ Cardinality(E(INBOX)) = 0 /\ Cardinality(E(Trash)) = first
  BY <1>2, <1>4 DEF CountsOK
<1>9. boxes' = [x \in Names |-> boxes'[x]]
  BY DEF Ensured
<1> QED
  BY <1>1, <1>6, <1>7, <1>8, <1>9

LEMMA TwoBoxesStep ==
    ASSUME ImapInv, Ensure({INBOX, Trash}), boxes' = Ensured({INBOX, Trash}),
           registered' \in BOOLEAN, UNCHANGED <<delivered, told, read>>
    PROVE  StoreInv' /\ (\A x \in Names : Kept(boxes[x], boxes'[x])) /\ Stays
<1> DEFINE first == IF Exists(INBOX) THEN 0 ELSE 1
           second == IF Exists(Trash) THEN 0 ELSE 1
<1>1. CountsOK /\ BoxesOK(boxes, created) /\ ToldOK /\ SeenMeansRead /\ INBOX # Trash
  BY ImapAssumption DEF ImapInv, StoreInv
<1>2. /\ created' = created + first + second
      /\ boxes'[INBOX] = IF Exists(INBOX) THEN boxes[INBOX] ELSE FreshBox(created + 1)
      /\ boxes'[Trash] = IF Exists(Trash) THEN boxes[Trash] ELSE FreshBox(created + 1 + first)
      /\ boxes' = [x \in Names |-> boxes'[x]]
      /\ \A x \in Names \ {INBOX, Trash} : boxes'[x] = boxes[x]
  BY <1>1, EnsuredTwo
<1>3. created \in Nat /\ first \in 0..1 /\ second \in 0..1 /\ created' \in Nat /\ created <= created'
  BY <1>1, <1>2 DEF CountsOK
<1>4. ~Exists(INBOX) => NewBox(boxes'[INBOX]) /\ boxes'[INBOX] = FreshBox(created + 1) /\ first = 1
  <2> SUFFICES ASSUME ~Exists(INBOX) PROVE NewBox(FreshBox(created + 1))
    BY <1>2
  <2>1. created + 1 \in Nat /\ created + 1 \in created + 1 .. created'
    BY <1>2, <1>3
  <2> QED
    BY <2>1, FreshIsGood DEF NewBox, FreshBox
<1>5. ~Exists(Trash) => NewBox(boxes'[Trash]) /\ boxes'[Trash] = FreshBox(created + 1 + first)
  <2> SUFFICES ASSUME ~Exists(Trash) PROVE NewBox(FreshBox(created + 1 + first))
    BY <1>2
  <2>1. created + 1 + first \in Nat /\ created + 1 + first \in created + 1 .. created'
    BY <1>2, <1>3
  <2> HIDE DEF first
  <2> QED
    BY <2>1, FreshIsGood DEF NewBox, FreshBox
<1>6. ASSUME NEW x \in Names
      PROVE  /\ Exists(x) => boxes'[x] = boxes[x]
             /\ ~Exists(x) => boxes[x] = NoBox /\ (boxes'[x] = NoBox \/ (x \in {INBOX, Trash} /\ NewBox(boxes'[x])))
  BY <1>2, <1>4, <1>5 DEF Exists
<1> HIDE DEF first, second
<1>7. \A x \in Names : BoxStep(x)
  BY <1>1, <1>6, GoesOnAlike DEF BoxStep, BoxesOK
<1>8. \A a, b \in Names : ~Exists(a) /\ ~Exists(b) /\ boxes'[a] # NoBox
          /\ boxes'[a].born = boxes'[b].born => a = b
  <2> SUFFICES ASSUME NEW a \in Names, NEW b \in Names, ~Exists(a), ~Exists(b), boxes'[a] # NoBox,
                      boxes'[a].born = boxes'[b].born
               PROVE  a = b
    OBVIOUS
  <2>1. a \in {INBOX, Trash} /\ NewBox(boxes'[a])
    BY <1>6
  <2>2. NoBox.born = 0 /\ boxes'[a].born # 0
    BY <1>3, <2>1 DEF NoBox, NewBox
  <2>3. b \in {INBOX, Trash}
    BY <1>6, <2>2
  <2>4. ASSUME ~Exists(INBOX), ~Exists(Trash) PROVE boxes'[INBOX].born # boxes'[Trash].born
    <3>1. boxes'[INBOX].born = created + 1 /\ boxes'[Trash].born = created + 1 + first /\ first = 1
      BY <1>4, <1>5, <2>4 DEF FreshBox
    <3> QED
      BY <1>3, <3>1
  <2> QED
    BY <2>1, <2>3, <2>4
<1>9. BoxesOK(boxes', created')
  BY <1>1, <1>2, <1>3, <1>7, <1>8, BoxesStep
<1>10. ToldOK'
  <2>1. ASSUME NEW x \in Names
        PROVE  \/ boxes'[x] = NoBox \/ boxes'[x].born > created
               \/ \E old \in Names : GoesOn(boxes[old], boxes'[x])
    BY <1>3, <1>7 DEF BoxStep, NewBox
  <2> QED
    BY <1>1, <1>3, <1>9, <2>1, ToldStep
<1>11. \A x \in Names : boxes[x].messages = boxes'[x].messages \/ boxes'[x].messages = {}
  BY <1>2, <1>6 DEF FreshBox, NoBox
<1>12. \A x \in Names : Kept(boxes[x], boxes'[x])
  <2> SUFFICES ASSUME NEW x \in Names PROVE Kept(boxes[x], boxes'[x])
    OBVIOUS
  <2>1. CASE Exists(x)
    BY <1>6, <2>1 DEF Kept
  <2>2. CASE ~Exists(x)
    BY <1>6, <2>2 DEF Kept, NoBox
  <2> QED
    BY <2>1, <2>2
<1>13. SeenMeansRead'
  BY <1>1, <1>11 DEF SeenMeansRead
<1>14. Stays
  BY <1>12 DEF Stays, Kept
<1> QED
  BY <1>1, <1>3, <1>9, <1>10, <1>12, <1>13, <1>14 DEF StoreInv, CountsOK

LEMMA RegisterLoginStep ==
    ASSUME ImapInv, NEW s \in Sessions, Register(s) \/ Login(s) PROVE ImapInv' /\ Stays
<1>1. /\ Ensure({INBOX, Trash}) /\ boxes' = Ensured({INBOX, Trash})
      /\ registered' \in BOOLEAN /\ UNCHANGED <<delivered, told, read, list, disturbed, reply, selected_mailbox, readonly>>
      /\ state[s] = "NOT_AUTHENTICATED"
      /\ state' = state \/ state' = [state EXCEPT ![s] = "AUTHENTICATED"]
  BY DEF Register, Login, sessions, clients, ImapInv, StoreInv, CountsOK
<1>2. SessionsOK
  BY DEF ImapInv
<1>3. StoreInv' /\ (\A x \in Names : Kept(boxes[x], boxes'[x])) /\ Stays
  BY <1>1, TwoBoxesStep
<1>4. SessionsOK'
  BY <1>1, <1>2 DEF SessionsOK
<1> DEFINE mine == {s}
<1>5. \A t \in mine : InSync(t)'
  <2>1. state'[s] # "SELECTED"
    BY <1>1, <1>2 DEF SessionsOK
  <2> QED
    BY <2>1 DEF InSync, Selected
<1>6. ASSUME NEW t \in Sessions, t \notin mine
      PROVE  /\ state'[t] = state[t] /\ selected_mailbox'[t] = selected_mailbox[t] /\ list'[t] = list[t]
             /\ Selected(t) /\ ~disturbed'[t] =>
                    ~disturbed[t] /\ Kept(boxes[selected_mailbox[t]], boxes'[selected_mailbox[t]])
  <2>1. Selected(t) => selected_mailbox[t] \in Names
    BY <1>2 DEF Selected, SessionsOK
  <2> QED
    BY <1>1, <1>2, <1>3, <1>6, <2>1 DEF SessionsOK
<1> HIDE DEF mine
<1> QED
  BY <1>3, <1>4, <1>5, <1>6, SessionsStep

LEMMA SameStep == ASSUME ImapInv, UNCHANGED vars PROVE ImapInv' /\ Stays
<1>1. UNCHANGED <<registered, boxes, created, delivered, state, selected_mailbox, readonly,
                  list, disturbed, reply, told, read>>
  BY DEF vars, store, sessions, clients
<1>2. StoreInv'
  BY <1>1, StoreSame DEF store, ImapInv
<1>3. SessionsOK' /\ SyncUnlessDisturbed'
  BY <1>1 DEF ImapInv, SessionsOK, SyncUnlessDisturbed, Selected
<1> QED
  BY <1>1, <1>2, <1>3, AllKept DEF ImapInv

(***************************************************************************)
(* SELECT and NOOP tell the client of messages.                            *)
(***************************************************************************)
LEMMA KnownIs ==
    ASSUME NEW box, GoodBox(box)
    PROVE  Known(Listing(box)) \in Seq(Entry) /\ IsPrefix(Known(Listing(box)), Known(Listing(box)))
<1> DEFINE f == Known(Listing(box))
<1>1. f \in Seq(Entry)
  BY KnownShows DEF Shows
<1> HIDE DEF f
<1>2. Begins(f, f)
  BY <1>1 DEF Begins
<1>3. IsPrefix(f, f)
  BY <1>1, <1>2, PrefixBegins
<1> QED
  BY <1>1, <1>3 DEF f

LEMMA RestIs ==
    ASSUME NEW S, NEW q \in Seq(S), NEW k \in Nat
    PROVE  LET rest == SubSeq(q, k + 1, Len(q))
           IN  /\ rest \in Seq(S) /\ Len(rest) = IF k < Len(q) THEN Len(q) - k ELSE 0
               /\ \A i \in 1..Len(rest) : k + i \in 1..Len(q) /\ rest[i] = q[k + i]
<1> DEFINE rest == SubSeq(q, k + 1, Len(q))
<1>1. Len(q) \in Nat
  OBVIOUS
<1>2. CASE k < Len(q)
  <2>1. Len(q) - k \in Nat /\ \A i \in 1..Len(q) - k : k + i \in 1..Len(q)
    BY <1>1, <1>2
  <2>2. rest \in Seq(S)
    BY <1>1, <1>2
  <2>3. Len(rest) = Len(q) - k
    BY <1>1, <1>2
  <2>4. \A i \in 1..Len(q) - k : rest[i] = q[k + i]
    BY <1>1, <1>2, <2>1
  <2> HIDE DEF rest
  <2> QED
    BY <1>2, <2>1, <2>2, <2>3, <2>4 DEF rest
<1>3. CASE ~(k < Len(q))
  <2>1. rest \in Seq(S) /\ Len(rest) = 0
    BY <1>1, <1>3
  <2> HIDE DEF rest
  <2> QED
    BY <1>3, <2>1 DEF rest
<1> QED
  BY <1>2, <1>3

\* The client asks for what lies behind what it knows.
LEMMA KnownRest ==
    ASSUME NEW box, GoodBox(box), NEW l \in Seq(Entry)
    PROVE  LET more == l \o Known(SubSeq(Listing(box), Len(l) + 1, Len(Listing(box))))
           IN  /\ more \in Seq(Entry)
               /\ IsPrefix(l, Known(Listing(box))) => IsPrefix(more, Known(Listing(box)))
<1> DEFINE L == Listing(box)
           f == Known(L)
           rest == SubSeq(L, Len(l) + 1, Len(L))
           known == Known(rest)
           k == Len(l)
           of(m) == [uid |-> m.uid, id |-> m.id]
<1>1. L \in Seq(box.messages) /\ Len(L) \in Nat /\ k \in Nat
  <2>1. L \in Seq(box.messages)
    BY ListingIs
  <2> HIDE DEF L
  <2> QED
    BY <2>1
<1>2. \A m \in box.messages : of(m) \in Entry
  BY DEF GoodBox, Mailbox, Message, Entry
<1>3. f = [i \in DOMAIN L |-> of(L[i])] /\ known = [i \in DOMAIN rest |-> of(rest[i])]
  BY DEF Known
<1>4. f \in Seq(Entry)
  BY KnownIs
<1> HIDE DEF L, f, known, of
<1>5. /\ rest \in Seq(box.messages) /\ Len(rest) = IF k < Len(L) THEN Len(L) - k ELSE 0
      /\ \A i \in 1..Len(rest) : k + i \in 1..Len(L) /\ rest[i] = L[k + i]
  BY <1>1, RestIs
<1> HIDE DEF rest
<1>6. DOMAIN rest = 1..Len(rest) /\ Len(rest) \in Nat /\ \A i \in 1..Len(rest) : rest[i] \in box.messages
  BY <1>5
<1>7. \A i \in 1..Len(rest) : of(rest[i]) \in Entry
  BY <1>2, <1>6
<1>8. known \in Seq(Entry) /\ Len(known) = Len(rest) /\ \A i \in 1..Len(rest) : known[i] = of(rest[i])
  BY <1>3, <1>6, <1>7
<1> DEFINE more == l \o known
<1>9. /\ more \in Seq(Entry) /\ Len(more) = k + Len(known)
      /\ \A i \in 1..k : more[i] = l[i]
      /\ \A i \in 1..Len(known) : more[k + i] = known[i]
  BY <1>8
<1> HIDE DEF more, k
<1>10. ASSUME IsPrefix(l, f) PROVE IsPrefix(more, f)
  <2>1. k <= Len(f) /\ \A i \in 1..k : l[i] = f[i]
    BY <1>4, <1>10, PrefixBegins DEF Begins, k
  <2>2. Len(f) = Len(L) /\ \A i \in 1..Len(L) : f[i] = of(L[i])
    <3>1. DOMAIN L = 1..Len(L) /\ \A i \in 1..Len(L) : of(L[i]) \in Entry
      BY <1>1, <1>2
    <3> QED
      BY <1>1, <1>3, <3>1
  <2>3. Len(more) = Len(L)
    BY <1>1, <1>5, <1>8, <1>9, <2>1, <2>2
  <2>4. ASSUME NEW i \in 1..Len(more) PROVE more[i] = f[i]
    <3>1. CASE i \in 1..k
      BY <1>9, <2>1, <3>1
    <3>2. CASE i \notin 1..k
      <4>1. i - k \in 1..Len(known) /\ k + (i - k) = i /\ i \in 1..Len(L)
        BY <1>1, <1>8, <1>9, <2>3, <3>2
      <4>2. more[i] = known[i - k]
        BY <1>9, <4>1
      <4>3. known[i - k] = of(rest[i - k]) /\ rest[i - k] = L[i]
        BY <1>5, <1>8, <4>1
      <4> QED
        BY <2>2, <4>1, <4>2, <4>3
    <3> QED
      BY <3>1, <3>2
  <2>5. Begins(more, f)
    BY <1>1, <2>2, <2>3, <2>4 DEF Begins
  <2> QED
    BY <1>4, <1>9, <2>5, PrefixBegins
<1> QED
  BY <1>9, <1>10 DEF more, known, rest, f, L

LEMMA ToldIs ==
    ASSUME NEW box, NEW t \in Told(box, box.messages)
    PROVE  \E m \in box.messages : t = [born |-> box.born, uid |-> m.uid, id |-> m.id]
BY DEF Told

LEMMA NoopStep == ASSUME ImapInv, NEW s \in Sessions, Selected(s), Noop(s) PROVE ImapInv' /\ Stays
<1> DEFINE mb == selected_mailbox[s]
           box == Base(mb)
           more == list[s] \o Known(SubSeq(Listing(box), Len(list[s]) + 1, Len(Listing(box))))
<1>1. /\ mb \in Names /\ Current(s) = box /\ CountsOK /\ BoxesOK(boxes, created) /\ SessionsOK
      /\ GoodBox(box) /\ StoreInv
  BY OwnBox DEF ImapInv
<1>2. OneBox(mb, box) /\ GoesOn(box, box) /\ Kept(box, box)
  BY <1>1, EnsuredOne, GoesOnFresh DEF Noop, Put, OneBox
<1>3. /\ told' = told \union Told(box, box.messages)
      /\ UNCHANGED <<registered, delivered, sessions, disturbed, reply, read>>
      /\ list' = [list EXCEPT ![s] = more]
  BY <1>1 DEF Noop
<1>4. list[s] \in Seq(Entry)
  BY <1>1 DEF SessionsOK
<1>5. more \in Seq(Entry) /\ (IsPrefix(list[s], Known(Listing(box))) => IsPrefix(more, Known(Listing(box))))
  BY <1>1, <1>4, KnownRest
<1> HIDE DEF mb, box, more
<1>6. StoreInv'
  <2>1. \A t \in told' : t \in told \/ \E m \in box.messages : t = [born |-> box.born, uid |-> m.uid, id |-> m.id]
    BY <1>3, ToldIs
  <2>2. registered' \in BOOLEAN /\ delivered' \in Nat /\ read' \subseteq Nat /\ read \subseteq read'
    BY <1>1, <1>3 DEF CountsOK
  <2> QED
    BY <1>1, <1>2, <2>1, <2>2, OneBoxStores DEF box
<1>7. Stays
  BY <1>1, <1>2, OneBoxStays DEF box
<1>8. SessionsOK'
  <2>1. list' \in [Sessions -> Seq(Entry)]
    BY <1>1, <1>3, <1>5 DEF SessionsOK
  <2> QED
    BY <1>1, <1>3, <2>1 DEF SessionsOK, sessions
<1>9. \A x \in Names : Kept(boxes[x], boxes'[x])
  BY <1>1, <1>2, OneBoxKept DEF box
<1> DEFINE mine == {s}
<1>10. \A t \in mine : InSync(t)'
  <2> SUFFICES ASSUME ~disturbed'[s], Selected(s)'
               PROVE  IsPrefix(list'[s], Known(Listing(boxes'[selected_mailbox'[s]])))
    BY DEF InSync
  <2>1. list'[s] = more /\ selected_mailbox'[s] = mb /\ boxes'[mb] = box /\ ~disturbed[s]
    BY <1>1, <1>2, <1>3 DEF SessionsOK, sessions, OneBox, BoxesOK, mb
  <2>2. GoodBox(boxes[mb]) /\ Kept(boxes[mb], box)
    BY <1>1, <1>9, <2>1 DEF BoxesOK
  <2>3. IsPrefix(list[s], Known(Listing(boxes[mb])))
    BY <2>1 DEF ImapInv, SyncUnlessDisturbed, mb
  <2>4. IsPrefix(list[s], Known(Listing(box)))
    BY <1>1, <1>4, <2>2, <2>3, PrefixGrows
  <2> QED
    BY <1>5, <2>1, <2>4
<1>11. ASSUME NEW t \in Sessions, t \notin mine
       PROVE  /\ state'[t] = state[t] /\ selected_mailbox'[t] = selected_mailbox[t] /\ list'[t] = list[t]
              /\ Selected(t) /\ ~disturbed'[t] =>
                     ~disturbed[t] /\ Kept(boxes[selected_mailbox[t]], boxes'[selected_mailbox[t]])
  <2>1. Selected(t) => selected_mailbox[t] \in Names
    BY <1>1 DEF Selected, SessionsOK
  <2> QED
    BY <1>1, <1>3, <1>9, <1>11, <2>1 DEF SessionsOK, sessions
<1> HIDE DEF mine
<1> QED
  BY <1>6, <1>7, <1>8, <1>10, <1>11, SessionsStep

LEMMA SelectStep ==
    ASSUME ImapInv, NEW s \in Sessions, NEW mb \in Names, NEW examine \in BOOLEAN, Select(s, mb, examine)
    PROVE  ImapInv' /\ Stays
<1> DEFINE box == Base(mb)
<1>1. CountsOK /\ BoxesOK(boxes, created) /\ SessionsOK /\ StoreInv /\ mb # NoName
  BY ImapAssumption DEF ImapInv, StoreInv
<1>2. OneBox(mb, box) /\ GoesOn(box, box) /\ Kept(box, box) /\ GoodBox(box)
  BY <1>1, EnsuredOne, GoesOnFresh, BaseIs DEF Select, OneBox
<1>3. boxes'[mb] = box
  BY <1>1, <1>2 DEF OneBox, BoxesOK
<1>4. /\ told' = told \union Told(box, box.messages)
      /\ UNCHANGED <<registered, delivered, reply, read>>
      /\ list' = [list EXCEPT ![s] = Known(Listing(box))]
      /\ state' = [state EXCEPT ![s] = "SELECTED"]
      /\ selected_mailbox' = [selected_mailbox EXCEPT ![s] = mb]
      /\ readonly' = [readonly EXCEPT ![s] = examine]
      /\ disturbed' = [disturbed EXCEPT ![s] = FALSE]
  BY <1>3 DEF Select
<1>5. Known(Listing(box)) \in Seq(Entry) /\ IsPrefix(Known(Listing(box)), Known(Listing(box)))
  BY <1>2, KnownIs
<1> HIDE DEF box
<1>6. StoreInv'
  <2>1. \A t \in told' : t \in told \/ \E m \in box.messages : t = [born |-> box.born, uid |-> m.uid, id |-> m.id]
    BY <1>4, ToldIs
  <2>2. registered' \in BOOLEAN /\ delivered' \in Nat /\ read' \subseteq Nat /\ read \subseteq read'
    BY <1>1, <1>4 DEF CountsOK
  <2> QED
    BY <1>1, <1>2, <2>1, <2>2, OneBoxStores DEF box
<1>7. Stays
  BY <1>1, <1>2, OneBoxStays DEF box
<1>8. SessionsOK'
  <2>1. list' \in [Sessions -> Seq(Entry)]
    BY <1>1, <1>4, <1>5 DEF SessionsOK
  <2>2. /\ state' \in [Sessions -> {"NOT_AUTHENTICATED", "AUTHENTICATED", "SELECTED"}]
        /\ selected_mailbox' \in [Sessions -> Names \union {NoName}]
        /\ \A t \in Sessions : state'[t] = "SELECTED" <=> selected_mailbox'[t] # NoName
    BY <1>1, <1>4 DEF SessionsOK
  <2>3. readonly' \in [Sessions -> BOOLEAN] /\ disturbed' \in [Sessions -> BOOLEAN] /\ reply' = reply
    BY <1>1, <1>4 DEF SessionsOK
  <2> QED
    BY <1>1, <2>1, <2>2, <2>3 DEF SessionsOK
<1>9. \A x \in Names : Kept(boxes[x], boxes'[x])
  BY <1>1, <1>2, OneBoxKept DEF box
<1> DEFINE mine == {s}
<1>10. \A t \in mine : InSync(t)'
  <2>1. list'[s] = Known(Listing(box)) /\ selected_mailbox'[s] = mb
    BY <1>1, <1>4 DEF SessionsOK
  <2> QED
    BY <1>3, <1>5, <2>1 DEF InSync
<1>11. ASSUME NEW t \in Sessions, t \notin mine
       PROVE  /\ state'[t] = state[t] /\ selected_mailbox'[t] = selected_mailbox[t] /\ list'[t] = list[t]
              /\ Selected(t) /\ ~disturbed'[t] =>
                     ~disturbed[t] /\ Kept(boxes[selected_mailbox[t]], boxes'[selected_mailbox[t]])
  <2>1. Selected(t) => selected_mailbox[t] \in Names
    BY <1>1 DEF Selected, SessionsOK
  <2> QED
    BY <1>1, <1>4, <1>9, <1>11, <2>1 DEF SessionsOK
<1> HIDE DEF mine
<1> QED
  BY <1>6, <1>7, <1>8, <1>10, <1>11, SessionsStep

(***************************************************************************)
(* DELETE and RENAME.                                                      *)
(***************************************************************************)
\* Sessions with one of these mailboxes selected are disturbed.
LEMMA DisturbingStep ==
    ASSUME ImapInv, StoreInv', NEW mbs, Disturb(mbs, Sessions), UNCHANGED <<sessions, list, reply>>,
           \A x \in Names : x \notin mbs => Kept(boxes[x], boxes'[x])
    PROVE  ImapInv'
<1>1. SessionsOK
  BY DEF ImapInv
<1>2. SessionsOK'
  <2>1. disturbed' \in [Sessions -> BOOLEAN]
    BY <1>1 DEF Disturb, SessionsOK
  <2> QED
    BY <1>1, <2>1 DEF SessionsOK, sessions
<1> DEFINE mine == {}
<1>3. \A t \in mine : InSync(t)'
  OBVIOUS
<1>4. ASSUME NEW t \in Sessions
      PROVE  /\ state'[t] = state[t] /\ selected_mailbox'[t] = selected_mailbox[t] /\ list'[t] = list[t]
             /\ Selected(t) /\ ~disturbed'[t] =>
                    ~disturbed[t] /\ Kept(boxes[selected_mailbox[t]], boxes'[selected_mailbox[t]])
  <2>1. Selected(t) => selected_mailbox[t] \in Names
    BY <1>1 DEF Selected, SessionsOK
  <2>2. ~disturbed'[t] => ~disturbed[t] /\ selected_mailbox[t] \notin mbs
    BY DEF Disturb
  <2> QED
    BY <2>1, <2>2 DEF sessions
<1> HIDE DEF mine
<1> QED
  BY <1>2, <1>3, <1>4, SessionsStep

LEMMA DeleteStep ==
    ASSUME ImapInv, NEW s \in Sessions, NEW mb \in Names, Delete(s, mb) PROVE ImapInv' /\ Stays
<1>1. CountsOK /\ BoxesOK(boxes, created) /\ ToldOK /\ SeenMeansRead
  BY DEF ImapInv, StoreInv
<1>2. /\ boxes' = [boxes EXCEPT ![mb] = NoBox] /\ Disturb({mb}, Sessions)
      /\ UNCHANGED <<registered, created, delivered, sessions, list, reply, told, read>>
  BY DEF Delete
<1>3. boxes'[mb] = NoBox /\ boxes' = [x \in Names |-> boxes'[x]] /\ \A x \in Names : x # mb => boxes'[x] = boxes[x]
  BY <1>1, <1>2 DEF BoxesOK
<1>4. \A x \in Names : BoxStep(x) /\ (~Exists(x) => boxes'[x] = NoBox)
  BY <1>1, <1>3, GoesOnAlike DEF BoxStep, Exists, BoxesOK
<1>5. created' \in Nat /\ created <= created'
  BY <1>1, <1>2 DEF CountsOK
<1>6. BoxesOK(boxes', created')
  BY <1>1, <1>3, <1>4, <1>5, BoxesStep
<1>7. ToldOK'
  <2>1. \A x \in Names : boxes'[x] = NoBox \/ \E old \in Names : GoesOn(boxes[old], boxes'[x])
    BY <1>1, <1>3, GoesOnAlike DEF BoxesOK
  <2> QED
    BY <1>1, <1>2, <1>5, <1>6, <2>1, ToldStep
<1>8. SeenMeansRead'
  <2>1. NoBox.messages = {}
    BY DEF NoBox
  <2> QED
    BY <1>1, <1>2, <1>3, <2>1 DEF SeenMeansRead
<1>9. StoreInv'
  BY <1>1, <1>2, <1>6, <1>7, <1>8 DEF StoreInv, CountsOK
<1>10. \A x \in Names : x \notin {mb} => Kept(boxes[x], boxes'[x])
  BY <1>3 DEF Kept
<1>11. Stays
  BY <1>3 DEF Stays
<1> QED
  BY <1>2, <1>9, <1>10, <1>11, DisturbingStep

LEMMA RenameStep ==
    ASSUME ImapInv, NEW s \in Sessions, NEW old \in Names, NEW new \in Names, Rename(s, old, new)
    PROVE  ImapInv' /\ Stays
<1>1. CountsOK /\ BoxesOK(boxes, created) /\ ToldOK /\ SeenMeansRead
  BY DEF ImapInv, StoreInv
<1>2. Exists(old) /\ old # new
  BY DEF Rename
<1>3. CASE Exists(new)
  BY <1>3, EndsStep DEF Rename
<1>4. CASE ~Exists(new)
  <2>1. /\ boxes' = [boxes EXCEPT ![new] = boxes[old], ![old] = NoBox] /\ Disturb({old, new}, Sessions)
        /\ UNCHANGED <<registered, created, delivered, sessions, list, reply, told, read>>
    BY <1>4 DEF Rename
  <2>2. /\ boxes'[new] = boxes[old] /\ boxes'[old] = NoBox /\ boxes' = [x \in Names |-> boxes'[x]]
        /\ \A x \in Names : x # new /\ x # old => boxes'[x] = boxes[x]
    BY <1>1, <1>2, <2>1 DEF BoxesOK
  <2>3. BoxesOK(boxes', created')
    <3>1. ASSUME NEW x \in Names
          PROVE  /\ boxes'[x] \in Mailbox /\ GoodBox(boxes'[x])
                 /\ boxes'[x] = NoBox \/ (boxes'[x].born \in 1..created' /\ boxes'[x].next_uid # 0)
      BY <1>1, <2>1, <2>2, NoBoxIsGood DEF BoxesOK, GoodBox
    <3>2. NoBox.born = 0
      BY DEF NoBox
    <3> DEFINE was(x) == IF x = new THEN old ELSE x
    <3>3. \A x \in Names : boxes'[x] # NoBox => x # old /\ was(x) \in Names /\ boxes'[x] = boxes[was(x)]
      BY <2>2
    <3>4. ASSUME NEW a \in Names, NEW b \in Names, boxes'[a] # NoBox, boxes'[a].born = boxes'[b].born
          PROVE  a = b
      <4>1. boxes'[b] # NoBox
        BY <3>1, <3>2, <3>4 DEF CountsOK
      <4>2. was(a) = was(b)
        BY <1>1, <3>3, <3>4, <4>1 DEF BoxesOK
      <4> QED
        BY <3>3, <3>4, <4>1, <4>2
    <3>5. boxes' \in [Names -> Mailbox]
      BY <2>2, <3>1
    <3> HIDE DEF was
    <3> QED
      BY <3>1, <3>4, <3>5 DEF BoxesOK
  <2>4. \A x \in Names : boxes'[x] = NoBox \/ \E o \in Names : boxes'[x] = boxes[o]
    BY <2>2
  <2>5. ToldOK'
    <3>1. \A x \in Names : boxes'[x] = NoBox \/ \E o \in Names : GoesOn(boxes[o], boxes'[x])
      BY <1>1, <2>4, GoesOnAlike DEF BoxesOK
    <3>2. created' \in Nat /\ created <= created'
      BY <1>1, <2>1 DEF CountsOK
    <3> QED
      BY <1>1, <2>1, <2>3, <3>1, <3>2, ToldStep
  <2>6. SeenMeansRead'
    <3>1. NoBox.messages = {}
      BY DEF NoBox
    <3> QED
      BY <1>1, <2>1, <2>4, <3>1 DEF SeenMeansRead
  <2>7. StoreInv'
    BY <1>1, <2>1, <2>3, <2>5, <2>6 DEF StoreInv, CountsOK
  <2> DEFINE mbs == {old, new}
  <2>8. \A x \in Names : x \notin mbs => Kept(boxes[x], boxes'[x])
    BY <2>2 DEF Kept
  <2>9. Disturb(mbs, Sessions)
    BY <2>1
  <2>10. Stays
    <3>1. boxes[new].messages = {}
      BY <1>4 DEF Exists, NoBox
    <3>2. ASSUME NEW x \in Names PROVE x = old \/ x = new \/ boxes'[x] = boxes[x]
      BY <2>2
    <3> QED
      BY <2>2, <3>1, <3>2 DEF Stays
  <2> HIDE DEF mbs
  <2> QED
    BY <2>1, <2>7, <2>8, <2>9, <2>10, DisturbingStep
<1> QED
  BY <1>3, <1>4

(***************************************************************************)
(* MOVE.                                                                   *)
(***************************************************************************)
\* The destination with the copies of the first n messages.
WithCopies(box, moved, n) ==
    [box EXCEPT !.next_uid = @ + n, !.messages = @ \union {Copy(box, moved, i) : i \in 1..n}]

LEMMA CopyIs ==
    ASSUME NEW box, GoodBox(box), NEW moved, NEW i \in Nat, i # 0, moved[i] \in Message
    PROVE  LET copy == Copy(box, moved, i)
           IN  /\ copy \in Message /\ copy.uid = box.next_uid + i - 1 /\ copy.id = moved[i].id
               /\ copy.flags = moved[i].flags \ {Deleted}
<1>1. box.next_uid \in Nat /\ box.next_uid + i - 1 \in Nat
  BY DEF GoodBox, Mailbox
<1> QED
  BY <1>1 DEF Copy, Message

LEMMA CopiesGoOn ==
    ASSUME NEW box, GoodBox(box), box.next_uid # 0, NEW moved, NEW n \in Nat,
           \A i \in 1..n : moved[i] \in Message
    PROVE  LET new == WithCopies(box, moved, n)
           IN  /\ GoesOn(box, new) /\ Kept(box, new)
               /\ new.messages = box.messages \union {Copy(box, moved, i) : i \in 1..n}
<1> DEFINE copies == {Copy(box, moved, i) : i \in 1..n}
           new == WithCopies(box, moved, n)
<1>1. box \in Mailbox /\ box.next_uid \in Nat /\ \A m \in box.messages : m.uid \in Nat /\ m.uid < box.next_uid
  BY DEF GoodBox, Mailbox, Message
<1>2. ASSUME NEW i \in 1..n
      PROVE  Copy(box, moved, i) \in Message /\ Copy(box, moved, i).uid = box.next_uid + i - 1
  BY CopyIs
<1>3. \A c \in copies : \E i \in 1..n : c = Copy(box, moved, i) /\ c.uid = box.next_uid + i - 1 /\ c \in Message
  BY <1>2
<1> HIDE DEF copies
<1>4. /\ new \in Mailbox /\ new.born = box.born /\ new.next_uid = box.next_uid + n
      /\ new.messages = box.messages \union copies
  <2>1. box.messages \union copies \in SUBSET Message /\ box.next_uid + n \in Nat
    BY <1>1, <1>3 DEF Mailbox
  <2> QED
    BY <1>1, <2>1 DEF WithCopies, Mailbox, copies
<1> HIDE DEF new
<1>5. \A c \in copies : c.uid \in Nat /\ box.next_uid <= c.uid /\ 0 < c.uid /\ c.uid < box.next_uid + n
  BY <1>1, <1>3
<1>6. \A c, d \in copies : c.uid = d.uid => c = d
  <2> SUFFICES ASSUME NEW c \in copies, NEW d \in copies, c.uid = d.uid PROVE c = d
    OBVIOUS
  <2>1. PICK i \in 1..n : c = Copy(box, moved, i) /\ c.uid = box.next_uid + i - 1
    BY <1>3
  <2>2. PICK j \in 1..n : d = Copy(box, moved, j) /\ d.uid = box.next_uid + j - 1
    BY <1>3
  <2>3. i = j
    BY <1>1, <2>1, <2>2
  <2> QED
    BY <2>1, <2>2, <2>3
<1>7. GoodBox(new)
  <2>1. \A m \in new.messages : 0 < m.uid /\ m.uid < new.next_uid
    BY <1>1, <1>4, <1>5 DEF GoodBox
  <2>2. \A m, o \in new.messages : m.uid = o.uid => m = o
    BY <1>1, <1>4, <1>5, <1>6 DEF GoodBox
  <2> QED
    BY <1>4, <2>1, <2>2 DEF GoodBox
<1>8. GoesOn(box, new)
  BY <1>1, <1>4, <1>5, <1>7 DEF GoesOn
<1>9. Kept(box, new)
  BY <1>1, <1>4, <1>5 DEF Kept
<1> QED
  BY <1>4, <1>8, <1>9 DEF new, copies

LEMMA EnsuredPair ==
    ASSUME CountsOK, BoxesOK(boxes, created), NEW src \in Names, NEW dst \in Names, Exists(src)
    PROVE  /\ Ensured({src, dst}) = [boxes EXCEPT ![dst] = Base(dst)]
           /\ Ensured({src, dst})[dst] = Base(dst)
           /\ Ensure({src, dst}) => created' = created + IF Exists(dst) THEN 0 ELSE 1
<1>1. Missing({src, dst}) = IF Exists(dst) THEN {} ELSE {dst}
  BY DEF Missing
<1>2. Cardinality({}) = 0 /\ Cardinality({dst}) = 1
  BY FS_EmptySet, FS_Singleton
<1>3. {other \in Missing({src, dst}) : other = INBOX /\ dst # INBOX} = {}
  BY <1>1
<1>4. ASSUME NEW x \in Names
      PROVE  Ensured({src, dst})[x] = IF x = dst THEN Base(dst) ELSE boxes[x]
  <2>1. CASE x # dst
    BY <2>1 DEF Ensured
  <2>2. CASE x = dst
    <3>1. created + 1 + 0 = created + 1
      BY DEF CountsOK
    <3>2. Ensured({src, dst})[dst] = IF Exists(dst) THEN boxes[dst] ELSE FreshBox(created + 1 + 0)
      BY <1>2, <1>3 DEF Ensured
    <3> QED
      BY <2>2, <3>1, <3>2 DEF Base
  <2> QED
    BY <2>1, <2>2
<1>5. Ensured({src, dst}) = [x \in Names |-> Ensured({src, dst})[x]]
  BY DEF Ensured
<1>6. Ensured({src, dst}) = [boxes EXCEPT ![dst] = Base(dst)]
  BY <1>4, <1>5 DEF BoxesOK
<1>7. Ensure({src, dst}) => created' = created + IF Exists(dst) THEN 0 ELSE 1
  BY <1>1, <1>2 DEF Ensure
<1> QED
  BY <1>4, <1>6, <1>7

\* What is told is of the first n copies.
CopiesTold(dst, moved, n) ==
    \A t \in told' : t \in told \/ \E i \in 1..n :
        t = [born |-> Base(dst).born, uid |-> Base(dst).next_uid + i - 1, id |-> moved[i].id]

\* The mailboxes when n messages have been moved.
LEMMA MovingBoxes ==
    ASSUME ImapInv, NEW src \in Names, NEW dst \in Names, src # dst, Exists(src), Ensure({src, dst}),
           NEW moved \in Seq(boxes[src].messages), NEW n \in 0..Len(moved),
           boxes' = Moving(src, dst, moved, n),
           UNCHANGED <<registered, delivered, read>>,
           CopiesTold(dst, moved, n)
    PROVE  /\ StoreInv' /\ Stays
           /\ boxes'[src] = [boxes[src] EXCEPT !.messages = @ \ {moved[i] : i \in 1..n}]
           /\ \A x \in Names : x # src => Kept(boxes[x], boxes'[x])
<1> DEFINE gone == {moved[i] : i \in 1..n}
           box == Base(dst)
           newsrc == [boxes[src] EXCEPT !.messages = @ \ gone]
           newdst == WithCopies(box, moved, n)
<1>1. CountsOK /\ BoxesOK(boxes, created) /\ ToldOK /\ SeenMeansRead /\ GoodBox(boxes[src])
  BY DEF ImapInv, StoreInv, BoxesOK
<1>2. /\ GoodBox(box) /\ box.next_uid # 0 /\ box # NoBox
      /\ Exists(dst) => box = boxes[dst]
      /\ ~Exists(dst) => boxes[dst] = NoBox /\ box.messages = {} /\ boxes[dst].messages = {} /\ box.born = created + 1
  BY <1>1, BaseIs
<1>3. /\ Ensured({src, dst}) = [boxes EXCEPT ![dst] = box] /\ Ensured({src, dst})[dst] = box
      /\ created' = created + IF Exists(dst) THEN 0 ELSE 1
  BY <1>1, EnsuredPair
<1>4. n \in Nat /\ \A i \in 1..n : moved[i] \in boxes[src].messages /\ moved[i] \in Message
  BY <1>1 DEF GoodBox, Mailbox
<1> HIDE DEF box
<1>5. boxes' = [boxes EXCEPT ![src] = newsrc, ![dst] = newdst]
  <2> DEFINE bx == Ensured({src, dst})
  <2>1. boxes' = [bx EXCEPT ![src].messages = @ \ gone, ![dst].next_uid = @ + n,
                            ![dst].messages = @ \union {Copy(box, moved, i) : i \in 1..n}]
    <3> DEFINE copies(b) == {Copy(b, moved, i) : i \in 1..n}
    <3>1. boxes' = [bx EXCEPT ![src].messages = @ \ gone, ![dst].next_uid = @ + n,
                              ![dst].messages = @ \union copies(bx[dst])]
      BY DEF Moving
    <3>2. bx[dst] = box
      BY <1>3
    <3> HIDE DEF copies, bx, gone
    <3>3. boxes' = [bx EXCEPT ![src].messages = @ \ gone, ![dst].next_uid = @ + n,
                              ![dst].messages = @ \union copies(box)]
      BY <3>1, <3>2
    <3> QED
      BY <3>3 DEF copies
  <2>2. bx = [boxes EXCEPT ![dst] = box] /\ boxes \in [Names -> Mailbox] /\ box \in Mailbox
    BY <1>1, <1>2, <1>3 DEF BoxesOK, GoodBox
  <2> HIDE DEF bx, gone
  <2> QED
    BY <2>1, <2>2 DEF WithCopies, Mailbox
<1>6. GoesOn(boxes[src], newsrc) /\ newsrc.messages = boxes[src].messages \ gone
  <2> HIDE DEF gone
  <2> QED
    BY <1>1, FewerGoOn
<1>7. /\ GoesOn(box, newdst) /\ Kept(box, newdst)
      /\ newdst.messages = box.messages \union {Copy(box, moved, i) : i \in 1..n}
  BY <1>2, <1>4, CopiesGoOn
<1>8. \A i \in 1..n : /\ Copy(box, moved, i).uid = box.next_uid + i - 1 /\ Copy(box, moved, i).id = moved[i].id
                      /\ Copy(box, moved, i).flags = moved[i].flags \ {Deleted}
  BY <1>2, <1>4, CopyIs
<1> HIDE DEF newsrc, newdst
<1>9. /\ boxes'[src] = newsrc /\ boxes'[dst] = newdst /\ boxes' = [x \in Names |-> boxes'[x]]
      /\ \A x \in Names : x # src /\ x # dst => boxes'[x] = boxes[x]
  BY <1>1, <1>5 DEF BoxesOK
<1>10. created' \in Nat /\ created <= created' /\ created \in Nat /\ (~Exists(dst) => created' = created + 1)
  BY <1>1, <1>3 DEF CountsOK
<1>11. newdst.born = box.born /\ GoodBox(newdst) /\ newdst.next_uid # 0
  BY <1>2, <1>7 DEF GoesOn, GoodBox, Mailbox
<1>12. ASSUME NEW x \in Names PROVE BoxStep(x) /\ (~Exists(x) => x = dst \/ boxes'[x] = NoBox)
  <2>1. CASE x # src /\ x # dst
    BY <1>1, <1>9, <2>1, GoesOnAlike DEF BoxStep, Exists, BoxesOK
  <2>2. CASE x = src
    BY <1>6, <1>9, <2>2 DEF BoxStep
  <2>3. CASE x = dst /\ Exists(dst)
    BY <1>2, <1>7, <1>9, <2>3 DEF BoxStep
  <2>4. CASE x = dst /\ ~Exists(dst)
    <3>1. NewBox(newdst)
      BY <1>2, <1>10, <1>11, <2>4 DEF NewBox
    <3> QED
      BY <1>9, <2>4, <3>1 DEF BoxStep
  <2> QED
    BY <2>1, <2>2, <2>3, <2>4
<1>13. BoxesOK(boxes', created')
  <2>1. \A a, b \in Names : ~Exists(a) /\ ~Exists(b) /\ boxes'[a] # NoBox
            /\ boxes'[a].born = boxes'[b].born => a = b
    <3> SUFFICES ASSUME NEW a \in Names, NEW b \in Names, ~Exists(a), ~Exists(b), boxes'[a] # NoBox,
                        boxes'[a].born = boxes'[b].born
                 PROVE  a = b
      OBVIOUS
    <3>1. a = dst
      BY <1>12
    <3>2. boxes'[a].born = created + 1
      BY <1>2, <1>9, <1>11, <3>1
    <3>3. NoBox.born = 0 /\ boxes'[b].born # 0
      BY <1>10, <3>2 DEF NoBox
    <3> QED
      BY <1>12, <3>1, <3>3
  <2> QED
    BY <1>1, <1>9, <1>10, <1>12, <2>1, BoxesStep
<1>14. ToldOK'
  <2>1. ASSUME NEW x \in Names
        PROVE  \/ boxes'[x] = NoBox \/ boxes'[x].born > created
               \/ \E old \in Names : GoesOn(boxes[old], boxes'[x])
    BY <1>10, <1>12 DEF BoxStep, NewBox
  <2>2. ASSUME NEW t \in told' PROVE t \in told \/ Shown(t)'
    <3> SUFFICES ASSUME t \notin told PROVE Shown(t)'
      OBVIOUS
    <3>1. PICK i \in 1..n : t = [born |-> box.born, uid |-> box.next_uid + i - 1, id |-> moved[i].id]
      BY DEF box, CopiesTold
    <3>2. Copy(box, moved, i) \in boxes'[dst].messages
      BY <1>7, <1>9
    <3>3. t = [born |-> boxes'[dst].born, uid |-> Copy(box, moved, i).uid, id |-> Copy(box, moved, i).id]
      BY <1>8, <1>9, <1>11, <3>1
    <3> QED
      BY <3>2, <3>3 DEF Shown
  <2> QED
    BY <1>1, <1>10, <1>13, <2>1, <2>2, ToldStep
<1>15. SeenMeansRead'
  <2> SUFFICES ASSUME NEW x \in Names, NEW m \in boxes'[x].messages, Seen \in m.flags PROVE m.id \in read
    BY DEF SeenMeansRead
  <2>1. CASE x # dst
    BY <1>1, <1>6, <1>9, <2>1 DEF SeenMeansRead
  <2>2. CASE x = dst /\ m \in box.messages
    BY <1>1, <1>2, <2>2 DEF SeenMeansRead
  <2>3. CASE x = dst /\ m \notin box.messages
    <3>1. PICK i \in 1..n : m = Copy(box, moved, i)
      BY <1>7, <1>9, <2>3
    <3>2. Seen \in moved[i].flags /\ m.id = moved[i].id
      BY <1>8, <3>1
    <3> QED
      BY <1>1, <1>4, <3>2 DEF SeenMeansRead
  <2> QED
    BY <2>1, <2>2, <2>3
<1>16. StoreInv'
  BY <1>1, <1>10, <1>13, <1>14, <1>15 DEF StoreInv, CountsOK
<1>17. \A x \in Names : x # src => Kept(boxes[x], boxes'[x])
  <2> SUFFICES ASSUME NEW x \in Names, x # src PROVE Kept(boxes[x], boxes'[x])
    OBVIOUS
  <2>1. CASE x # dst
    BY <1>9, <2>1 DEF Kept
  <2>2. CASE x = dst
    BY <1>2, <1>7, <1>9, <2>2 DEF Kept
  <2> QED
    BY <2>1, <2>2
<1>18. Stays
  <2> SUFFICES ASSUME NEW x \in Names, NEW m \in boxes[x].messages
               PROVE  \E other \in Names : \E copy \in boxes'[other].messages : copy.id = m.id
    BY DEF Stays
  <2>1. CASE x # src
    BY <1>17, <2>1 DEF Kept
  <2>2. CASE x = src /\ m \notin gone
    <3>1. m \in boxes'[src].messages
      BY <1>6, <1>9, <2>2
    <3> QED
      BY <3>1
  <2>3. CASE x = src /\ m \in gone
    <3>1. PICK i \in 1..n : m = moved[i]
      BY <2>3
    <3>2. Copy(box, moved, i) \in boxes'[dst].messages /\ Copy(box, moved, i).id = m.id
      BY <1>7, <1>8, <1>9, <3>1
    <3> QED
      BY <3>2
  <2> QED
    BY <2>1, <2>2, <2>3
<1> QED
  BY <1>9, <1>16, <1>17, <1>18 DEF newsrc

LEMMA PlacesAre ==
    ASSUME NEW box, GoodBox(box), NEW uids
    PROVE  LET places == Places(Listing(box), uids)
               L == Listing(box)
           IN  /\ places \in Seq(Nat)
               /\ \A i \in 1..Len(places) : places[i] \in 1..Len(L) /\ L[places[i]].uid \in uids
               /\ \A j \in 1..Len(L) : L[j].uid \in uids => \E i \in 1..Len(places) : places[i] = j
<1> DEFINE L == Listing(box)
           S == {i \in DOMAIN L : L[i].uid \in uids}
           n == Len(L)
           places == Ascending(S, n)
<1>1. L \in Seq(box.messages)
  BY ListingIs
<1>2. Places(Listing(box), uids) = places
  BY DEF Places
<1> HIDE DEF L
<1>3. n \in Nat /\ DOMAIN L = 1..n
  BY <1>1
<1>4. \A j : j \in S <=> j \in 1..n /\ L[j].uid \in uids
  BY <1>3
<1> HIDE DEF S, n
<1>5. /\ places \in Seq(Nat)
      /\ \A i \in 1..Len(places) : places[i] \in S \intersect 1..n
      /\ \A k \in S \intersect 1..n : \E i \in 1..Len(places) : places[i] = k
  BY <1>3, AscendingIs
<1> HIDE DEF places
<1> QED
  BY <1>2, <1>4, <1>5 DEF L, n

LEMMA MovedAre ==
    ASSUME ImapInv, NEW s \in Sessions, Selected(s), NEW uids, NEW byNumber \in BOOLEAN
    PROVE  LET moved == Order(s, Places(Listing(Current(s)), uids), byNumber)
           IN  /\ moved \in Seq(Current(s).messages)
               /\ {moved[i] : i \in 1..Len(moved)} = {m \in Current(s).messages : m.uid \in uids}
<1> DEFINE box == Current(s)
           L == Listing(box)
           p == Places(L, uids)
           order == IF byNumber THEN Reverse(p) ELSE p
           moved == Order(s, p, byNumber)
<1>1. GoodBox(box)
  BY OwnBox
<1>2. moved = [i \in DOMAIN order |-> L[order[i]]]
  BY DEF Order
<1> HIDE DEF box, moved
<1>3. L \in Seq(box.messages) /\ \A m \in box.messages : \E i \in 1..Len(L) : L[i] = m
  BY <1>1, ListingIs
<1>4. /\ p \in Seq(Nat)
      /\ \A i \in 1..Len(p) : p[i] \in 1..Len(L) /\ L[p[i]].uid \in uids
      /\ \A j \in 1..Len(L) : L[j].uid \in uids => \E i \in 1..Len(p) : p[i] = j
  BY <1>1, PlacesAre
<1> HIDE DEF L, p
<1>5. /\ order \in Seq(Nat)
      /\ \A i \in 1..Len(order) : order[i] \in 1..Len(L) /\ L[order[i]].uid \in uids
      /\ \A j \in 1..Len(L) : L[j].uid \in uids => \E i \in 1..Len(order) : order[i] = j
  <2>1. CASE ~byNumber
    BY <1>4, <2>1
  <2>2. CASE byNumber
    <3>1. order = [i \in 1..Len(p) |-> p[(Len(p) - i) + 1]]
      BY <2>2 DEF Reverse
    <3> HIDE DEF order
    <3>2. Len(p) \in Nat /\ \A i \in 1..Len(p) : (Len(p) - i) + 1 \in 1..Len(p)
      BY <1>4
    <3>3. \A i \in 1..Len(p) : p[(Len(p) - i) + 1] \in Nat
      BY <1>4, <3>2
    <3>4. order \in Seq(Nat) /\ Len(order) = Len(p) /\ \A i \in 1..Len(p) : order[i] = p[(Len(p) - i) + 1]
      BY <3>1, <3>2, <3>3
    <3>5. ASSUME NEW j \in 1..Len(L), L[j].uid \in uids PROVE \E i \in 1..Len(order) : order[i] = j
      <4>1. PICK x \in 1..Len(p) : p[x] = j
        BY <1>4, <3>5
      <4>2. (Len(p) - x) + 1 \in 1..Len(p) /\ (Len(p) - ((Len(p) - x) + 1)) + 1 = x
        BY <3>2
      <4> QED
        BY <3>4, <4>1, <4>2
    <3> QED
      BY <1>4, <3>2, <3>4, <3>5
  <2> QED
    BY <2>1, <2>2
<1> HIDE DEF order
<1>6. DOMAIN order = 1..Len(order) /\ Len(order) \in Nat
  BY <1>5
<1>7. \A i \in 1..Len(order) : L[order[i]] \in box.messages
  BY <1>3, <1>5
<1>8. moved \in Seq(box.messages) /\ Len(moved) = Len(order) /\ \A i \in 1..Len(order) : moved[i] = L[order[i]]
  BY <1>2, <1>6, <1>7
<1>9. ASSUME NEW m PROVE m \in {moved[i] : i \in 1..Len(moved)} <=> m \in box.messages /\ m.uid \in uids
  <2>1. ASSUME m \in box.messages, m.uid \in uids PROVE \E i \in 1..Len(moved) : m = moved[i]
    <3>1. PICK j \in 1..Len(L) : L[j] = m
      BY <1>3, <2>1
    <3>2. PICK i \in 1..Len(order) : order[i] = j
      BY <1>5, <2>1, <3>1
    <3> QED
      BY <1>8, <3>1, <3>2
  <2>2. ASSUME NEW i \in 1..Len(moved), m = moved[i] PROVE m \in box.messages /\ m.uid \in uids
    BY <1>5, <1>7, <1>8, <2>2
  <2> QED
    BY <2>1, <2>2
<1>10. {moved[i] : i \in 1..Len(moved)} = {m \in box.messages : m.uid \in uids}
  BY <1>9
<1> QED
  BY <1>8, <1>10 DEF box, L, p, moved

\* What the replies of a MOVE leave of the list is a list.
LEMMA RepliesType ==
    ASSUME ImapInv, NEW s \in Sessions, Selected(s), NEW uids
    PROVE  Removed(list[s], ExpungeReplies(Places(Listing(Current(s)), uids))) \in Seq(Entry)
<1> DEFINE p == Places(Listing(Current(s)), uids)
<1>1. GoodBox(Current(s)) /\ list[s] \in Seq(Entry)
  BY OwnBox DEF SessionsOK
<1>2. p \in Seq(Nat)
  BY <1>1, PlacesAre
<1> HIDE DEF p
<1>3. Reverse(p) \in Seq(Nat)
  <2>1. \A i \in 1..Len(p) : (Len(p) - i) + 1 \in 1..Len(p) /\ Len(p) \in Nat
    BY <1>2
  <2>2. \A i \in 1..Len(p) : p[(Len(p) - i) + 1] \in Nat
    BY <1>2, <2>1
  <2> QED
    BY <1>2, <2>2 DEF Reverse
<1> QED
  BY <1>1, <1>3, RemovedType DEF ExpungeReplies, p

LEMMA MoveFailsStep ==
    ASSUME ImapInv, NEW s \in Sessions, Selected(s), NEW uids, uids \subseteq Uids(Current(s)),
           NEW byNumber \in BOOLEAN, NEW dst \in Names, MoveFails(s, uids, byNumber, dst)
    PROVE  ImapInv' /\ Stays
<1> DEFINE src == selected_mailbox[s]
           moved == Order(s, Places(Listing(Current(s)), uids), byNumber)
<1>1. PICK n \in 0 .. Len(moved) - 1 :
           /\ Ensure({src, dst})
           /\ boxes' = Moving(src, dst, moved, n)
           /\ EndsAfter(s, IF n = 0 THEN {} ELSE {src})
  BY DEF MoveFails
<1>2. dst # src /\ UNCHANGED <<registered, delivered, read>> /\ told' = told
  BY <1>1 DEF MoveFails, EndsAfter
<1>3. moved \in Seq(Current(s).messages)
  BY MovedAre
<1>4. src \in Names /\ (Exists(src) => Current(s) = boxes[src])
  BY OwnBox
<1> DEFINE mbs == IF n = 0 THEN {} ELSE {src}
<1> HIDE DEF moved
<1>5. Len(moved) \in Nat /\ n \in 0..Len(moved) /\ moved[1] \in Current(s).messages
  BY <1>3
<1>6. Exists(src)
  BY <1>5, NonemptyExists
<1> HIDE DEF src
<1>7. moved \in Seq(boxes[src].messages)
  BY <1>3, <1>4, <1>6
<1>11. CopiesTold(dst, moved, n)
  BY <1>2 DEF CopiesTold
<1>8. /\ StoreInv' /\ Stays
      /\ boxes'[src] = [boxes[src] EXCEPT !.messages = @ \ {moved[i] : i \in 1..n}]
      /\ \A x \in Names : x # src => Kept(boxes[x], boxes'[x])
  BY <1>1, <1>2, <1>4, <1>5, <1>6, <1>7, <1>11, MovingBoxes
<1>9. ASSUME NEW x \in Names, x \notin mbs PROVE Kept(boxes[x], boxes'[x])
  <2>1. CASE x # src
    BY <1>8, <2>1
  <2>2. CASE x = src
    <3>1. 1..n = {}
      BY <1>9, <2>2
    <3>2. boxes[src] \in Mailbox
      BY <1>4 DEF ImapInv, StoreInv, BoxesOK
    <3>3. boxes'[src].messages = boxes[src].messages
      <4>1. {moved[i] : i \in 1..n} = {}
        BY <3>1
      <4> DEFINE none == {moved[i] : i \in 1..n}
      <4> HIDE DEF none
      <4>2. boxes'[src].messages = boxes[src].messages \ none
        BY <1>8, <3>2 DEF Mailbox, none
      <4> QED
        BY <4>1, <4>2 DEF none
    <3> QED
      BY <2>2, <3>3 DEF Kept
  <2> QED
    BY <2>1, <2>2
<1>10. EndsAfter(s, mbs)
  BY <1>1
<1> HIDE DEF mbs
<1> QED
  BY <1>8, <1>9, <1>10, EndingStep

LEMMA MoveStep ==
    ASSUME ImapInv, NEW s \in Sessions, Selected(s), NEW uids, uids \subseteq Uids(Current(s)),
           NEW byNumber \in BOOLEAN, NEW dst \in Names, Move(s, uids, byNumber, dst)
    PROVE  ImapInv' /\ Stays
<1> DEFINE src == selected_mailbox[s]
           places == Places(Listing(Current(s)), uids)
           moved == Order(s, places, byNumber)
           removed == Removed(list[s], ExpungeReplies(places))
           box == Ensured({src, dst})[dst]
           copied == {[moved[i] EXCEPT !.uid = box.next_uid + i - 1] : i \in DOMAIN moved}
<1>1. /\ uids # {} /\ Ensure({src, dst}) /\ list' = [list EXCEPT ![s] = removed]
      /\ UNCHANGED <<registered, delivered, sessions, reply, read>>
  BY DEF Move
<1>2. \/ /\ src = dst /\ UNCHANGED boxes /\ Disturb({src}, {s})
         /\ told' = told \union Told(box, ToSet(moved))
      \/ /\ src # dst /\ boxes' = Moving(src, dst, moved, Len(moved)) /\ Disturb({src}, Sessions \ {s})
         /\ told' = told \union Told(box, copied)
  BY DEF Move, CopyOrder, Order
<1>3. /\ src \in Names /\ (Exists(src) => Current(s) = boxes[src]) /\ Current(s) = Base(src)
      /\ CountsOK /\ BoxesOK(boxes, created) /\ SessionsOK /\ StoreInv
      /\ \A t \in Sessions : InSync(t)
  BY OwnBox DEF ImapInv, SyncUnlessDisturbed, InSync
<1>4. Exists(src)
  BY <1>1, NonemptyExists
<1>5. moved \in Seq(Current(s).messages) /\ {moved[i] : i \in 1..Len(moved)} = {m \in Current(s).messages : m.uid \in uids}
  BY MovedAre
<1>6. removed \in Seq(Entry)
  BY RepliesType
<1>7. /\ box = Base(dst) /\ created' = created + IF Exists(dst) THEN 0 ELSE 1
  BY <1>1, <1>3, <1>4, EnsuredPair
<1>8. removed = Removed(list[s], ExpungeReplies(Places(Listing(boxes[src]), uids)))
  BY <1>3, <1>4
<1> HIDE DEF places, moved, removed, box
<1>9. Len(moved) \in Nat /\ DOMAIN moved = 1..Len(moved) /\ moved \in Seq(boxes[src].messages)
      /\ \A i \in 1..Len(moved) : moved[i] \in boxes[src].messages
  BY <1>3, <1>4, <1>5
<1>10. GoodBox(boxes[src]) /\ \A m \in boxes[src].messages : m \in Message
  BY <1>3 DEF BoxesOK, GoodBox, Mailbox
<1>11. Disturb({src}, {s}) \/ Disturb({src}, Sessions \ {s})
  BY <1>2
<1>12. SessionsOK'
  <2>1. list' \in [Sessions -> Seq(Entry)]
    BY <1>1, <1>3, <1>6 DEF SessionsOK
  <2>2. disturbed' \in [Sessions -> BOOLEAN]
    BY <1>3, <1>11 DEF SessionsOK, Disturb
  <2> QED
    BY <1>1, <1>3, <2>1, <2>2 DEF SessionsOK, sessions
<1> DEFINE mine == {s}
<1>13. \A t \in Sessions : t \notin mine =>
          state'[t] = state[t] /\ selected_mailbox'[t] = selected_mailbox[t] /\ list'[t] = list[t]
  BY <1>1, <1>3 DEF SessionsOK, sessions
<1>14. \A t \in Sessions : Selected(t) => selected_mailbox[t] \in Names
  BY <1>3 DEF SessionsOK, Selected
<1>15. CASE src = dst
  <2>1. UNCHANGED boxes /\ Disturb({src}, {s}) /\ told' = told \union Told(box, ToSet(moved)) /\ box = boxes[src]
    BY <1>2, <1>4, <1>7, <1>15 DEF Base
  <2>2. OneBox(src, box)
    BY <1>3, <1>7, <1>15, <2>1 DEF OneBox, BoxesOK
  <2>3. GoesOn(Base(src), box) /\ Base(src) = box
    BY <1>7, <1>10, <1>15, <2>1, GoesOnAlike
  <2>4. ASSUME NEW t \in told'
        PROVE  t \in told \/ \E m \in box.messages : t = [born |-> box.born, uid |-> m.uid, id |-> m.id]
    <3>1. \A m \in ToSet(moved) : m \in box.messages
      BY <1>9, <2>1 DEF ToSet
    <3> QED
      BY <2>1, <3>1 DEF Told
  <2>5. registered' \in BOOLEAN /\ delivered' \in Nat /\ read' \subseteq Nat /\ read \subseteq read'
    BY <1>1, <1>3 DEF CountsOK
  <2>6. StoreInv'
    BY <1>3, <2>2, <2>3, <2>4, <2>5, OneBoxStores
  <2>7. (\A x \in Names : Kept(boxes[x], boxes'[x])) /\ Stays
    BY <2>1, AllKept
  <2>8. \A t \in mine : InSync(t)'
    <3>1. disturbed'[s]
      BY <2>1 DEF Disturb
    <3> QED
      BY <3>1 DEF InSync
  <2>9. \A t \in Sessions : ~disturbed'[t] => ~disturbed[t]
    BY <2>1 DEF Disturb
  <2> HIDE DEF mine
  <2> QED
    BY <1>12, <1>13, <1>14, <2>6, <2>7, <2>8, <2>9, SessionsStep
<1>16. CASE src # dst
  <2>1. /\ boxes' = Moving(src, dst, moved, Len(moved)) /\ Disturb({src}, Sessions \ {s})
        /\ told' = told \union Told(box, copied)
    BY <1>2, <1>16
  <2>2. ASSUME NEW t \in told'
        PROVE  t \in told \/ \E i \in 1..Len(moved) :
                  t = [born |-> Base(dst).born, uid |-> Base(dst).next_uid + i - 1, id |-> moved[i].id]
    <3> SUFFICES ASSUME t \in Told(box, copied)
                 PROVE  \E i \in 1..Len(moved) :
                           t = [born |-> box.born, uid |-> box.next_uid + i - 1, id |-> moved[i].id]
      BY <1>7, <2>1
    <3>1. PICK m \in copied : t = [born |-> box.born, uid |-> m.uid, id |-> m.id]
      BY DEF Told
    <3>2. PICK i \in 1..Len(moved) : m = [moved[i] EXCEPT !.uid = box.next_uid + i - 1]
      BY <1>9, <3>1
    <3>3. moved[i] \in Message
      BY <1>9, <1>10
    <3>4. m.uid = box.next_uid + i - 1 /\ m.id = moved[i].id
      BY <3>2, <3>3 DEF Message
    <3> QED
      BY <3>1, <3>4
  <2>3. /\ StoreInv' /\ Stays
        /\ boxes'[src] = [boxes[src] EXCEPT !.messages = @ \ {moved[i] : i \in 1..Len(moved)}]
        /\ \A x \in Names : x # src => Kept(boxes[x], boxes'[x])
    <3> DEFINE n == Len(moved)
    <3>1. n \in 0..Len(moved)
      BY <1>9
    <3>2. boxes' = Moving(src, dst, moved, n)
      BY <2>1
    <3>3. UNCHANGED <<registered, delivered, read>>
      BY <1>1
    <3>4. CopiesTold(dst, moved, n)
      BY <2>2 DEF CopiesTold
    <3>5. src \in Names /\ Exists(src) /\ src # dst /\ Ensure({src, dst}) /\ moved \in Seq(boxes[src].messages)
      BY <1>1, <1>3, <1>4, <1>9, <1>16
    <3> HIDE DEF n, src
    <3>6. /\ StoreInv' /\ Stays
          /\ boxes'[src] = [boxes[src] EXCEPT !.messages = @ \ {moved[i] : i \in 1..n}]
          /\ \A x \in Names : x # src => Kept(boxes[x], boxes'[x])
      BY <3>1, <3>2, <3>3, <3>4, <3>5, MovingBoxes
    <3> QED
      BY <3>6 DEF n
  <2>4. boxes'[src].messages = {m \in boxes[src].messages : m.uid \notin uids}
    <3> DEFINE gone == {m \in boxes[src].messages : m.uid \in uids}
    <3>1. boxes'[src] = [boxes[src] EXCEPT !.messages = @ \ gone]
      BY <1>3, <1>4, <1>5, <2>3
    <3> HIDE DEF gone
    <3>2. boxes'[src].messages = boxes[src].messages \ gone
      BY <1>10, <3>1, FewerGoOn
    <3> QED
      BY <3>2 DEF gone
  <2>5. \A t \in mine : InSync(t)'
    <3> SUFFICES ASSUME Selected(s)', ~disturbed'[s]
                 PROVE  IsPrefix(list'[s], Known(Listing(boxes'[selected_mailbox'[s]])))
      BY DEF InSync
    <3>1. list'[s] = removed /\ selected_mailbox'[s] = src /\ ~disturbed[s]
      BY <1>1, <1>3, <2>1 DEF SessionsOK, sessions, Disturb
    <3>2. IsPrefix(list[s], Known(Listing(boxes[src]))) /\ list[s] \in Seq(Entry)
      BY <1>3, <3>1 DEF InSync, SessionsOK
    <3>3. GoodBox(boxes'[src])
      BY <1>3, <2>3 DEF StoreInv, BoxesOK
    <3>4. /\ \A m \in boxes'[src].messages : m \in boxes[src].messages
          /\ \A m \in boxes[src].messages : m \in boxes'[src].messages <=> m.uid \notin uids
      BY <2>4
    <3> DEFINE one == boxes[src]
               two == boxes'[src]
    <3> HIDE DEF one, two
    <3>5. IsPrefix(Removed(list[s], ExpungeReplies(Places(Listing(one), uids))), Known(Listing(two)))
      BY <1>10, <3>2, <3>3, <3>4, MovedAway DEF one, two
    <3> QED
      BY <1>8, <3>1, <3>5 DEF one, two
  <2>6. ASSUME NEW t \in Sessions, t \notin mine, Selected(t), ~disturbed'[t]
        PROVE  ~disturbed[t] /\ Kept(boxes[selected_mailbox[t]], boxes'[selected_mailbox[t]])
    <3>1. ~disturbed[t] /\ selected_mailbox[t] # src
      BY <2>1, <2>6 DEF Disturb
    <3> QED
      BY <1>14, <2>3, <2>6, <3>1
  <2> HIDE DEF mine
  <2> QED
    BY <1>12, <1>13, <2>3, <2>5, <2>6, SessionsStep
<1> QED
  BY <1>15, <1>16

(***************************************************************************)
(* The invariant holds.                                                    *)
(***************************************************************************)
LEMMA OnMessagesStep ==
    ASSUME ImapInv, NEW s \in Sessions, Selected(s), OnMessages(s) PROVE ImapInv' /\ Stays
<1>1. CASE Noop(s)
  BY <1>1, NoopStep
<1>2. CASE Search(s)
  BY <1>2, SearchStep
<1>3. CASE Expunge(s)
  BY <1>3, ExpungeStep
<1>4. CASE ExpungeFails(s)
  BY <1>4, ExpungeFailsStep
<1>5. CASE \E uids \in Chosen(s) : \E asked \in FetchArgs : Fetch(s, uids, asked)
  BY <1>5, FetchStep
<1>6. CASE \E uids \in Chosen(s) : \E arg \in StoreArgs : Store(s, uids, arg)
  BY <1>6, StoreStep
<1>7. CASE \E done \in CutShort(s) : \E asked \in FetchArgs : FetchFails(s, done, asked)
  BY <1>7, FetchFailsStep
<1>8. CASE \E done \in CutShort(s) : \E arg \in StoreArgs : StoreFails(s, done, arg)
  BY <1>8, StoreFailsStep
<1>9. CASE \E byNumber \in BOOLEAN, dst \in Names :
             \E uids \in {Targets(s, set, byNumber) : set \in Sets} :
                 Move(s, uids, byNumber, dst) \/ MoveFails(s, uids, byNumber, dst)
  <2>1. PICK byNumber \in BOOLEAN, dst \in Names, set \in Sets :
            \/ Move(s, Targets(s, set, byNumber), byNumber, dst)
            \/ MoveFails(s, Targets(s, set, byNumber), byNumber, dst)
    BY <1>9
  <2>2. Targets(s, set, byNumber) \subseteq Uids(Current(s))
    BY TargetsAre
  <2> QED
    BY <2>1, <2>2, MoveStep, MoveFailsStep
<1> QED
  BY <1>1, <1>2, <1>3, <1>4, <1>5, <1>6, <1>7, <1>8, <1>9 DEF OnMessages

LEMMA NextStep == ASSUME ImapInv, [Next]_vars PROVE ImapInv' /\ Stays
<1>1. CASE \E mb \in SmtpBoxes : Deliver(mb)
  BY <1>1, DeliverStep
<1>2. ASSUME NEW s \in Sessions, Register(s) \/ Login(s) \/ Logout(s) \/ ReplyOnly(s) \/ List(s)
      PROVE  ImapInv' /\ Stays
  <2>1. CASE Register(s) \/ Login(s)
    BY <2>1, RegisterLoginStep
  <2>2. CASE Logout(s)
    BY <2>2, EndsStep DEF Logout
  <2>3. CASE ReplyOnly(s)
    BY <2>3, SameStep DEF ReplyOnly
  <2>4. CASE List(s)
    BY <2>4, CreateStep, ImapAssumption
  <2> QED
    BY <1>2, <2>1, <2>2, <2>3, <2>4
<1>3. ASSUME NEW s \in Sessions, NEW mb \in Names,
             \/ \E examine \in BOOLEAN : Select(s, mb, examine)
             \/ Create(s, mb) \/ Delete(s, mb)
             \/ \E new \in Names : Rename(s, mb, new)
      PROVE  ImapInv' /\ Stays
  BY <1>3, SelectStep, CreateStep, DeleteStep, RenameStep
<1>4. ASSUME NEW s \in Sessions, Selected(s) /\ OnMessages(s) PROVE ImapInv' /\ Stays
  BY <1>4, OnMessagesStep
<1>5. CASE UNCHANGED vars
  BY <1>5, SameStep
<1> QED
  BY <1>1, <1>2, <1>3, <1>4, <1>5 DEF Next

LEMMA InitStep == Init => ImapInv
<1> SUFFICES ASSUME Init PROVE ImapInv
  OBVIOUS
<1>1. \A mb \in Names : boxes[mb] = NoBox
  BY DEF Init
<1>2. NoBox \in Mailbox /\ NoBox.messages = {}
  BY DEF NoBox, Mailbox
<1>3. BoxesOK(boxes, created)
  BY <1>1, <1>2, NoBoxIsGood DEF Init, BoxesOK
<1>4. ToldOK /\ SeenMeansRead /\ CountsOK
  BY <1>1, <1>2 DEF Init, ToldOK, ToldStaysTrue, SeenMeansRead, CountsOK
<1>5. SessionsOK
  <2>1. NoReply \in [asked : SUBSET Parts, sent : SUBSET Parts] /\ <<>> \in Seq(Entry)
    BY DEF NoReply
  <2>2. NoName \notin Names
    BY ImapAssumption
  <2> QED
    BY <2>1, <2>2 DEF Init, SessionsOK
<1>6. SyncUnlessDisturbed
  BY DEF Init, SyncUnlessDisturbed, Selected
<1> QED
  BY <1>3, <1>4, <1>5, <1>6 DEF ImapInv, StoreInv

LEMMA ImapInvariant == Spec => []ImapInv
<1>1. ImapInv /\ [Next]_vars => ImapInv'
  BY NextStep
<1> QED
  BY <1>1, InitStep, PTL DEF Spec

(***************************************************************************)
(* Message sets.                                                           *)
(***************************************************************************)
LEMMA MaxIs ==
    ASSUME NEW S \in SUBSET Nat, NEW m \in S, \A x \in S : x <= m
    PROVE  Max(S) = m
<1>1. m \in S /\ \A y \in S : m >= y
  OBVIOUS
<1>2. Max(S) \in S /\ \A y \in S : Max(S) >= y
  BY <1>1 DEF Max
<1>3. Max(S) \in Nat /\ m \in Nat /\ Max(S) >= m /\ m >= Max(S)
  BY <1>1, <1>2
<1> QED
  BY <1>3

LEMMA MinIs ==
    ASSUME NEW S \in SUBSET Nat, NEW m \in S, \A x \in S : m <= x
    PROVE  Min(S) = m
<1>1. m \in S /\ \A y \in S : m <= y
  OBVIOUS
<1>2. Min(S) \in S /\ \A y \in S : Min(S) <= y
  BY <1>1 DEF Min
<1>3. Min(S) \in Nat /\ m \in Nat /\ m <= Min(S) /\ Min(S) <= m
  BY <1>1, <1>2
<1> QED
  BY <1>3

\* A range names the same numbers whichever end is written first.
LEMMA SpanIs ==
    ASSUME NEW a \in Nat, NEW b \in Nat, NEW n \in Nat
    PROVE  n \in Min({a, b})..Max({a, b}) <=> (a <= n /\ n <= b) \/ (b <= n /\ n <= a)
<1>1. CASE a <= b
  <2>1. Min({a, b}) = a /\ Max({a, b}) = b
    BY <1>1, MaxIs, MinIs
  <2> QED
    BY <1>1, <2>1
<1>2. CASE b < a
  <2>1. Min({a, b}) = b /\ Max({a, b}) = a
    BY <1>2, MaxIs, MinIs
  <2> QED
    BY <1>2, <2>1
<1> QED
  BY <1>1, <1>2

\* Of the numbers there are, _expand_uid_set gives those in the set.
LEMMA ExpandIs ==
    ASSUME NEW set \in Sets, NEW numbers \in SUBSET Nat, NEW n \in numbers, Max(numbers) \in Nat
    PROVE  n \in Expand(set, numbers) <=> InSet(n, set, Max(numbers))
<1> DEFINE last == Max(numbers)
           at(e) == IF e = Star THEN last ELSE e
           part(p) == IF Len(p) = 1 THEN {at(p[1])}
                      ELSE Min({at(p[1]), at(p[2])})..Max({at(p[1]), at(p[2])})
           between(a, b) == a <= n /\ n <= b
           in(i) == between(at(set[i][1]), at(set[i][Len(set[i])]))
                    \/ between(at(set[i][Len(set[i])]), at(set[i][1]))
<1>1. n \in Nat /\ last \in Nat
  OBVIOUS
<1>2. Expand(set, numbers) = numbers \intersect UNION {part(set[i]) : i \in DOMAIN set}
  BY DEF Expand
<1>3. InSet(n, set, last) <=> \E i \in DOMAIN set : in(i)
  BY DEF InSet
<1>4. ASSUME NEW i \in DOMAIN set PROVE n \in part(set[i]) <=> in(i)
  <2>1. set[i] \in Seq(Nat \union {Star}) /\ (Len(set[i]) = 1 \/ Len(set[i]) = 2)
    BY ImapAssumption
  <2>2. set[i][1] \in Nat \union {Star} /\ set[i][Len(set[i])] \in Nat \union {Star}
    BY <2>1
  <2>3. at(set[i][1]) \in Nat /\ at(set[i][Len(set[i])]) \in Nat
    BY <1>1, <2>2
  <2> DEFINE a == at(set[i][1])
             b == at(set[i][Len(set[i])])
  <2>4. CASE Len(set[i]) = 1
    <3>1. part(set[i]) = {a} /\ b = a
      BY <2>4
    <3> HIDE DEF part, at
    <3>2. n \in {a} <=> between(a, a)
      BY <1>1, <2>3
    <3> QED
      BY <3>1, <3>2
  <2>5. CASE Len(set[i]) = 2
    <3>1. part(set[i]) = Min({a, b})..Max({a, b})
      BY <2>5
    <3> HIDE DEF part, at
    <3> QED
      BY <1>1, <2>3, <3>1, SpanIs
  <2> QED
    BY <2>1, <2>4, <2>5
<1> HIDE DEF part, in, last
<1>5. n \in UNION {part(set[i]) : i \in DOMAIN set} <=> \E i \in DOMAIN set : in(i)
  BY <1>4
<1> QED
  BY <1>2, <1>3, <1>5 DEF last

\* A number the client knows is the place of its message in the listing.
LEMMA ByNumber ==
    ASSUME ImapInv, NEW s \in Sessions, Selected(s), Exists(selected_mailbox[s]), ~disturbed[s],
           NEW set \in Sets, NEW n \in DOMAIN list[s]
    PROVE  list[s][n].uid \in Targets(s, set, TRUE) <=> InSet(n, set, Len(Listing(Current(s))))
<1> DEFINE box == Current(s)
           l == Listing(box)
           known == Known(l)
<1>1. GoodBox(box) /\ box = boxes[selected_mailbox[s]] /\ SessionsOK
  BY OwnBox
<1>2. /\ l \in Seq(box.messages) /\ known \in Seq(Entry)
      /\ \A i, j \in 1..Len(l) : i < j => l[i].uid < l[j].uid
  BY <1>1, ListingIs, KnownIs
<1>3. list[s] \in Seq(Entry)
  BY <1>1 DEF SessionsOK
<1>4. Begins(list[s], known)
  <2>1. IsPrefix(list[s], known)
    BY <1>1 DEF ImapInv, SyncUnlessDisturbed
  <2> HIDE DEF known
  <2> QED
    BY <1>2, <1>3, <2>1, PrefixBegins
<1>5. known = [i \in DOMAIN l |-> [uid |-> l[i].uid, id |-> l[i].id]]
  BY DEF Known
<1>6. Targets(s, set, TRUE) = {l[i].uid : i \in Expand(set, DOMAIN l)}
  BY DEF Targets
<1>7. \A m \in box.messages : m.uid \in Nat
  BY <1>1 DEF GoodBox, Mailbox, Message
<1> HIDE DEF box, l, known
<1>8. DOMAIN l = 1..Len(l) /\ Len(l) \in Nat /\ Len(known) = Len(l) /\ \A i \in 1..Len(l) : l[i].uid \in Nat
  BY <1>2, <1>5, <1>7
<1>9. n \in 1..Len(l) /\ list[s][n] = known[n]
  BY <1>3, <1>4, <1>8 DEF Begins
<1>10. list[s][n].uid = l[n].uid
  BY <1>5, <1>8, <1>9
<1>11. Max(1..Len(l)) = Len(l)
  <2>1. 1..Len(l) \in SUBSET Nat /\ Len(l) \in 1..Len(l) /\ \A x \in 1..Len(l) : x <= Len(l)
    BY <1>8, <1>9
  <2> QED
    BY <2>1, MaxIs
<1>12. n \in Expand(set, 1..Len(l)) <=> InSet(n, set, Len(l))
  BY <1>8, <1>9, <1>11, ExpandIs
<1>13. \A i \in Expand(set, 1..Len(l)) : i \in 1..Len(l)
  BY DEF Expand
<1>14. \A i \in 1..Len(l) : l[i].uid = l[n].uid => i = n
  BY <1>2, <1>8, <1>9
<1> QED
  BY <1>6, <1>8, <1>9, <1>10, <1>12, <1>13, <1>14 DEF l, box

\* A UID of a message that is there stands for that message, however many
\* more the mailbox has.
LEMMA ByUid ==
    ASSUME ImapInv, NEW s \in Sessions, Selected(s), NEW set \in Sets, NEW uid \in Uids(Current(s))
    PROVE  uid \in Targets(s, set, FALSE) <=> InSet(uid, set, Max(Uids(Current(s))))
<1> DEFINE box == Current(s)
           l == Listing(box)
<1>1. GoodBox(box)
  BY OwnBox
<1>2. /\ l \in Seq(box.messages)
      /\ \A i, j \in 1..Len(l) : i < j => l[i].uid < l[j].uid
      /\ \A m \in box.messages : \E i \in 1..Len(l) : l[i] = m
  BY <1>1, ListingIs
<1>3. \A m \in box.messages : m.uid \in Nat
  BY <1>1 DEF GoodBox, Mailbox, Message
<1>4. Targets(s, set, FALSE) = Expand(set, Uids(box))
  BY DEF Targets
<1>5. PICK m \in box.messages : m.uid = uid
  BY DEF Uids
<1> HIDE DEF box, l
<1>6. Len(l) \in Nat /\ \A i \in 1..Len(l) : l[i] \in box.messages /\ l[i].uid \in Nat
  BY <1>2, <1>3
<1>7. Len(l) \in 1..Len(l)
  BY <1>2, <1>5, <1>6
<1>8. Uids(box) \in SUBSET Nat /\ l[Len(l)].uid \in Uids(box)
  BY <1>3, <1>6, <1>7 DEF Uids
<1>9. ASSUME NEW u \in Uids(box) PROVE u <= l[Len(l)].uid
  <2>1. PICK i \in 1..Len(l) : l[i].uid = u
    BY <1>2 DEF Uids
  <2>2. CASE i = Len(l)
    BY <1>6, <2>1, <2>2
  <2>3. CASE i < Len(l)
    <3>1. l[i].uid < l[Len(l)].uid /\ l[i].uid \in Nat /\ l[Len(l)].uid \in Nat
      BY <1>2, <1>6, <1>7, <2>3
    <3> QED
      BY <2>1, <3>1
  <2> QED
    BY <1>6, <2>2, <2>3
<1>10. Max(Uids(box)) \in Nat
  BY <1>8, <1>9, MaxIs
<1> QED
  BY <1>4, <1>8, <1>10, ExpandIs DEF box

(***************************************************************************)
(* The theorems.                                                           *)
(***************************************************************************)
\* Every variable keeps its type, and UIDs stay below the next one.
THEOREM ImapTypeCorrect == Spec => []TypeOK
<1>1. ImapInv => TypeOK
  <2> SUFFICES ASSUME ImapInv PROVE TypeOK
    OBVIOUS
  <2>1. /\ CountsOK /\ BoxesOK(boxes, created) /\ ToldOK /\ SessionsOK
    BY DEF ImapInv, StoreInv
  <2>2. \A s \in Sessions : list[s] \in Seq(Entry)
    BY <2>1 DEF SessionsOK
  <2>3. \A s \in Sessions : \A i \in DOMAIN list[s] : list[s][i] \in Entry
    BY <2>2
  <2>4. \A s \in Sessions : \A i \in DOMAIN list[s] : list[s][i] \in [uid : Nat, id : Nat]
    BY <2>3 DEF Entry
  <2> QED
    BY <2>1, <2>4 DEF TypeOK, CountsOK, BoxesOK, GoodBox, ToldOK, SessionsOK
<1> QED
  BY <1>1, ImapInvariant, PTL

\* A sequence number a client computed from the replies names the message it
\* thinks, unless something was removed behind its back: deliveries, moves by
\* any session and their EXPUNGE replies, and mailboxes created again.
THEOREM NumbersAgree == Spec => []SyncUnlessDisturbed
<1>1. ImapInv => SyncUnlessDisturbed
  BY DEF ImapInv
<1> QED
  BY <1>1, ImapInvariant, PTL

\* What SELECT, NOOP or COPYUID said of a UID stays true as long as the
\* mailbox exists, under whatever name.
THEOREM ToldIsTrue == Spec => []ToldStaysTrue
<1>1. ImapInv => ToldStaysTrue
  BY DEF ImapInv, StoreInv, ToldOK
<1> QED
  BY <1>1, ImapInvariant, PTL

\* A message gets \Seen by nothing but a STORE or a fetch that sent something
\* of it to a session that may change the mailbox.
THEOREM SeenIsRead == Spec => []SeenMeansRead
<1>1. ImapInv => SeenMeansRead
  BY DEF ImapInv, StoreInv
<1> QED
  BY <1>1, ImapInvariant, PTL

\* No step takes a message away that was not marked \Deleted, except with its
\* mailbox, wherever an exception stops it.
THEOREM MessagesStay == Spec => NothingVanishes
<1>1. ImapInv /\ [Next]_vars => [Stays]_vars
  BY NextStep
<1> QED
  BY <1>1, ImapInvariant, PTL DEF Spec, NothingVanishes, Stays

\* A message set names the messages the client means by it: by number those it
\* knows by these numbers while nothing disturbed the mailbox, by UID any that
\* some client was told the UID of.
THEOREM SetsNameMessages == Spec => []SetsMeanMessages
<1>1. ImapInv => SetsMeanMessages
  <2> SUFFICES ASSUME ImapInv, NEW s \in Sessions, Selected(s), Exists(selected_mailbox[s]), NEW set \in Sets
               PROVE  /\ ~disturbed[s] => \A n \in DOMAIN list[s] :
                           list[s][n].uid \in Targets(s, set, TRUE) <=> InSet(n, set, Len(Listing(Current(s))))
                      /\ \A t \in told : t.born = Current(s).born /\ t.uid \in Uids(Current(s)) =>
                           (t.uid \in Targets(s, set, FALSE) <=> InSet(t.uid, set, Max(Uids(Current(s)))))
    BY DEF SetsMeanMessages
  <2> QED
    BY ByNumber, ByUid
<1> QED
  BY <1>1, ImapInvariant, PTL
===============================================================================
