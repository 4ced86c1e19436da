SPECIFICATION Spec
CONSTANTS
  Mailboxes = {"INBOX", "Trash"}
  SmtpBoxes = {"INBOX"}
  DropBoxes = {}
  Flags = {"Seen", "Deleted"}
  Deleted = "Deleted"
  StoreArgs <- MCOneStoreArg
  Uids = {1}
  MaxFiles = 3
  MaxRemovals = 1
  MaxFailures = 1
VIEW MCFilesView
CONSTRAINT MCOneMishap
INVARIANTS
  FilesStillThere
  PrivateUpdatesComplete
PROPERTY
  LeavesSafely
