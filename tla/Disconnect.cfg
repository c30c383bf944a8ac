SPECIFICATION Spec
CONSTANTS
  Client = {c1, c2}
  Nick = {n1, n2}
  Ident = {u1}
  Password = {right}
  ServerPassword = right
  ChanName = {a}
  ChanObj = {o1, o2}
  Key = {}
  Limit = {}
  Topic = {}
  Letter = {}
  NoClient = NoClient
  NoNick = NoNick
  NoIdent = NoIdent
  NoPassword = NoPassword
  NoChan = NoChan
  NoKey = NoKey
  NoTopic = NoTopic
SYMMETRY Symmetry
CONSTRAINT OrderlyRegistration
INVARIANTS DisconnectLeavesChannels
CHECK_DEADLOCK FALSE
