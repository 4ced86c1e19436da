----------------------------- MODULE MCJsonFile -----------------------------
EXTENDS JsonFile, TLC

CONSTANTS short, long

\* A text of one block, written at once, and one that takes two writes.
MCLength == short :> 1 @@ long :> 2

\* What no later step and no property looks at is left out: the contents of
\* unused inodes, and the variables of processes that save nothing.
Busy(p) == pc[p] # "idle"
MCView ==
    <<live, tmp, [i \in Inodes \ Unused |-> content[i]], pc,
      [p \in {q \in Procs : Busy(q)} |-> fd[p]],
      [p \in {q \in Procs : pc[q] = "dump"} |-> <<text[p], written[p]>>],
      loaded, overlapped>>
=============================================================================
