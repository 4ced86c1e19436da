SPECIFICATION Spec
CONSTANTS
  Chars = {"a", "b", "x", "1", "R", "L", "space", "quote", "backslash"}
  Space = "space"
  DoubleQuote = "quote"
  Backslash = "backslash"
  ParseError = ParseError
  Users <- MCUsers
  NoUser = NoUser
  Passwords <- MCPasswords
  NoPassword = NoPassword
  Sessions = {s1, s2}
  Tag <- MCTag
  Register <- MCRegister
  Login <- MCLogin
SYMMETRY AlikeSessions
INVARIANTS
  TypeOK
  AcknowledgedStays
  SessionsProved
  LoggedInHasMailboxes
PROPERTIES
  MadeForAccounts
