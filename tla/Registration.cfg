SPECIFICATION RegSpec
CONSTANTS
  Client = {c1, c2, c3}
  Nick = {n1, n2, n3}
  Ident = {u1, u2}
  Password = {right, wrong}
  ServerPassword = right
  NoClient = NoClient
  NoNick = NoNick
  NoIdent = NoIdent
  NoPassword = NoPassword
SYMMETRY Symmetry
INVARIANTS RegTypeOK NickUnique RegisteredIffComplete
PROPERTIES IdentityFrozen OperFromOper
CHECK_DEADLOCK FALSE
