SPECIFICATION Spec
CONSTANTS
  Mailboxes = {"INBOX", "Trash"}
  SmtpBoxes = {}
  DropBoxes = {"INBOX"}
  Flags = {"Seen", "Deleted"}
  Deleted = "Deleted"
  StoreArgs <- MCStoreArgs
  Uids = {1, 2}
  MaxFiles = 3
  MaxRemovals = 1
  MaxFailures = 1
VIEW MCView
INVARIANTS
  TypeOK
  UidlistInjective
  PrivateUidNeverReused
  PrivateUidStable
  NoMessageLost
  FilesStillThere
  PrivateUpdatesComplete
  OneCopy
PROPERTY
  IsMailbox
