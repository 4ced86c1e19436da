SPECIFICATION Spec
CONSTANTS
  Procs = {"imap", "smtp"}
  Savers = {"imap", "smtp"}
  short = short
  long = long
  Values = {short, long}
  Length <- MCLength
  Nothing = Broken
  Broken = Broken
  Hole = Hole
  Inodes = {1, 2, 3, 4}
  NoInode = 0
INVARIANTS
  TypeOK
  WholeUnlessOverlapped
PROPERTY
  RegisterUntilOverlap
VIEW MCView
