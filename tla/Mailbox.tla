------------------------------- MODULE Mailbox -------------------------------
(***************************************************************************)
(* What storage/maildir_backend.py promises of a user's mailboxes, without *)
(* files and lists: messages that arrive, are shown under UIDs, get flags, *)
(* are copied to another mailbox, and go only when expunged, once the      *)
(* other mailbox has them, or with their mailbox when a user deletes or    *)
(* renames it.  A message keeps what it says (its origin); a copy is       *)
(* another message of the same origin.                                     *)
(***************************************************************************)
EXTENDS Naturals

CONSTANTS Mailboxes, Flags, Deleted

VARIABLES
    content,   \* mailbox -> its messages: [id, origin, flags]
    shown,     \* every [box, uid, base] shown: in box, uid names message base
    leaving    \* the mailboxes a DELETE has begun on

vars == <<content, shown, leaving>>

Init == content = [mb \in Mailboxes |-> {}] /\ shown = {} /\ leaving = {}

IsNew(id) ==
    /\ \A mb \in Mailboxes : \A m \in content[mb] : m.id # id
    /\ \A s \in shown : s.base # id

Arrives(mb, m) ==
    /\ IsNew(m.id) /\ m.flags = {}
    /\ content' = [content EXCEPT ![mb] = @ \union {m}]
    /\ UNCHANGED <<shown, leaving>>

Goes(mb, m) ==
    /\ content' = [content EXCEPT ![mb] = @ \ {m}]
    /\ UNCHANGED <<shown, leaving>>

\* deliver_message for a message that is not in any mailbox.
Receive(mb, m) == m.origin = m.id /\ Arrives(mb, m)

\* move_message: first the copy.
Copy(src, mb, m) ==
    /\ \E original \in content[src] : m.origin = original.origin
    /\ Arrives(mb, m)

\* Then the original, when there is a copy with all its flags but \Deleted.
MoveAway(mb, m) ==
    /\ \E dst \in Mailboxes \ {mb} : \E copy \in content[dst] :
          copy.origin = m.origin /\ copy.flags = m.flags \ {Deleted}
    /\ Goes(mb, m)

\* set_flags.
SetFlags(mb, m, flags) ==
    /\ content' = [content EXCEPT ![mb] = (@ \ {m}) \union {[m EXCEPT !.flags = flags]}]
    /\ UNCHANGED <<shown, leaving>>

\* One message of an expunge.
Expunge(mb, m) == Deleted \in m.flags /\ Goes(mb, m)

\* A caller gets messages of a mailbox with their UIDs.
Show(mb) ==
    /\ shown \subseteq shown'
    /\ \A s \in shown' \ shown : s.box = mb /\ \E m \in content[mb] : m.id = s.base
    /\ \A s, t \in shown' : s.box = t.box /\ s.uid = t.uid => s.base = t.base
    /\ UNCHANGED <<content, leaving>>

\* A DELETE begins; it ends, or the mailbox is made again where it stopped.
Leave(mb) == leaving' = leaving \union {mb} /\ UNCHANGED <<content, shown>>
Stay(mb) == leaving' = leaving \ {mb} /\ UNCHANGED <<content, shown>>

\* One message of a mailbox being deleted.
Drop(mb, m) == mb \in leaving /\ Goes(mb, m)

\* The UIDs of a mailbox being deleted name nothing any more.
Forgotten(mb) == {s \in shown : s.box # mb}
Forget(mb) ==
    /\ mb \in leaving
    /\ shown' = Forgotten(mb)
    /\ UNCHANGED <<content, leaving>>

\* RENAME: a mailbox goes as a whole.
GoAway(mb) ==
    /\ content' = [content EXCEPT ![mb] = {}]
    /\ shown' = Forgotten(mb)
    /\ leaving' = leaving \ {mb}

Next ==
    \E mb \in Mailboxes :
        \/ \E m \in content'[mb] :
              Receive(mb, m) \/ \E src \in Mailboxes \ {mb} : Copy(src, mb, m)
        \/ \E m \in content[mb] :
              \/ MoveAway(mb, m) \/ Expunge(mb, m) \/ Drop(mb, m)
              \/ \E flags \in SUBSET Flags : SetFlags(mb, m, flags)
        \/ Show(mb)
        \/ Leave(mb) \/ Stay(mb) \/ Forget(mb) \/ GoAway(mb)

Spec == Init /\ [][Next]_vars
=============================================================================
