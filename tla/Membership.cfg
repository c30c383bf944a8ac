SPECIFICATION Spec
CONSTANTS
  Client = {c1, c2, c3}
  Nick = {n1, n2}
  Ident = {u1}
  Password = {right}
  ServerPassword = right
  ChanName = {a}
  ChanObj = {o1, o2}
  Key = {}
  Limit = {}
  Topic = {}
  Letter = {"o", "v"}
  NoClient = NoClient
  NoNick = NoNick
  NoIdent = NoIdent
  NoPassword = NoPassword
  NoChan = NoChan
  NoKey = NoKey
  NoTopic = NoTopic
SYMMETRY Symmetry
CONSTRAINTS OrderlyRegistration OneOper
INVARIANTS RolesHeldByMembers MapsAgree NoDanglingDeref
PROPERTIES EmptiedOnlyByDrop RoleNeedsOperator OneMembership
CHECK_DEADLOCK FALSE
