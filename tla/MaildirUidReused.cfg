SPECIFICATION Spec
CONSTANTS
  Mailboxes = {"INBOX", "Trash"}
  SmtpBoxes = {"INBOX"}
  DropBoxes = {}
  Flags = {"Seen", "Deleted"}
  Deleted = "Deleted"
  StoreArgs <- MCOneStoreArg
  Uids = {1}
  MaxFiles = 3
  MaxRemovals = 0
  MaxFailures = 0
VIEW MCView
INVARIANTS
  UidNeverReused
