------------------------------ MODULE MCMaildir ------------------------------
EXTENDS Maildir

MCStoreArgs ==
    {[mode |-> "add", flags |-> {"Deleted"}],
     [mode |-> "add", flags |-> {"Seen"}],
     [mode |-> "remove", flags |-> {"Seen"}],
     [mode |-> "replace", flags |-> {}]}

\* One change that makes EXPUNGE and the flags of a MOVE matter, for the
\* larger system of two servers.
MCOneStoreArg == {[mode |-> "add", flags |-> {"Seen", "Deleted"}]}

\* The part of the state a process can still act on: the locals of a finished
\* operation are overwritten before they are read again, and rmtree reads none
\* but its mailbox.
Alive(p, x) == IF pc[p] = "idle" THEN 0 ELSE x
Local(p, x) == IF pc[p] \in {"idle", "rmtree"} THEN 0 ELSE x

Live ==
    <<disk, pc,
      Alive("imap", <<box["imap"], stage>>), Alive("smtp", box["smtp"]),
      Local("imap", <<job, held["imap"], data["imap"], view, got, copyUid>>),
      Local("smtp", <<held["smtp"], data["smtp"]>>)>>

MCView == <<Live, history>>

\* Without the history that no property of the run looks at.
MCFilesView == <<Live, expunged, Alive("smtp", taken), removals, failures>>

\* A removal or a failure, not both.
MCOneMishap == removals + failures <= 1
=============================================================================
