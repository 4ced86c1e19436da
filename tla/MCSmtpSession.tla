--------------------------- MODULE MCSmtpSession ---------------------------
\* Two messages, one of them with a line that starts with a dot.
EXTENDS SmtpSession, TLC

CONSTANTS plain, dotted

\* A message of one line, and one that is a single dotted line.
MCLines == plain :> 1 @@ dotted :> 1
MCDotted == plain :> {} @@ dotted :> {1}
=============================================================================
