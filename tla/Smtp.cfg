SPECIFICATION Spec
CONSTANTS
  Conns = {1, 2}
  Users = {"alice", "bob"}
  Senders = {"alice", "ghost"}
  Recipients = {"alice", "bob"}
  NoUser = NoUser
  plain = plain
  dotted = dotted
  Messages = {plain, dotted}
  Lines <- MCLines
  Dotted <- MCDotted
  NoMessage = NoMessage
  NoConn = NoConn
  Dot = Dot
  None = None
  MaxRcpts = 2
  MaxSends = 2
INVARIANTS
  TypeOK
  TransactionAgreed
  AckedIsStored
  NothingUnasked
  WholeUnlessCut
PROPERTIES
  EveryLineAnswered
