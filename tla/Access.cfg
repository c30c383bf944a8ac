SPECIFICATION Spec
CONSTANTS
  Client = {c1, c2}
  Nick = {n1, n2}
  Ident = {u1}
  Password = {right}
  ServerPassword = right
  ChanName = {a}
  ChanObj = {o1, o2}
  Key = {k1}
  Limit = {1}
  Topic = {}
  Letter = {"i", "k", "l", "b"}
  NoClient = NoClient
  NoNick = NoNick
  NoIdent = NoIdent
  NoPassword = NoPassword
  NoChan = NoChan
  NoKey = NoKey
  NoTopic = NoTopic
SYMMETRY Symmetry
CONSTRAINTS OrderlyRegistration OneOper OneBan
INVARIANTS ChTypeOK
PROPERTIES AdmittedOnly
CHECK_DEADLOCK FALSE
