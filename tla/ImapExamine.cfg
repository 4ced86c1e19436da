SPECIFICATION Spec
CONSTANTS
  Sessions = {s1}
  Names = {"INBOX", "Trash"}
  INBOX = "INBOX"
  Trash = "Trash"
  NoName = "None"
  SmtpBoxes = {"INBOX"}
  Seen = Seen
  Deleted = Deleted
  Flags = {Seen, Deleted}
  StoreArgs <- MCStoreArgs
  FetchArgs <- MCFetchArgs
  Sets <- MCSets
  Star = Star
  MaxMessages = 2
  MaxUid = 2
  MaxBoxes = 2
PROPERTY
  ExamineIsReadOnly
