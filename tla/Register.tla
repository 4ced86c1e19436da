------------------------------ MODULE Register ------------------------------
(***************************************************************************)
(* What the two JSON files promise their users: a save replaces the whole  *)
(* document at once, and a load returns the last document saved.           *)
(***************************************************************************)
CONSTANTS
    Procs,     \* the processes that load the document
    Values,    \* the documents
    Nothing    \* what a load returns before the first save

VARIABLES
    value,     \* the document
    loaded     \* process -> the result of its last load

vars == <<value, loaded>>

Init ==
    /\ value = Nothing
    /\ loaded = [p \in Procs |-> Nothing]

Save(v) == value' = v /\ UNCHANGED loaded

Load(p) == loaded' = [loaded EXCEPT ![p] = value] /\ UNCHANGED value

\* A process that fails loses what it had loaded.
Forget(p) == loaded' = [loaded EXCEPT ![p] = Nothing] /\ UNCHANGED value

Next ==
    \/ \E v \in Values : Save(v)
    \/ \E p \in Procs : Load(p) \/ Forget(p)

Spec == Init /\ [][Next]_vars
=============================================================================
