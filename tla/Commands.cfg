SPECIFICATION Spec
CONSTANTS
  IntWidth = 18
  LongWidth = 22
  PortArg <- MCPortArg
  Line <- MCLine
  Mode = "MODE"
  Channel = "#c"
  Member <- MCMember
  NumberOf <- MCNumberOf
  Modes0 <- MCModes0
INVARIANTS CmdTypeOK NoTextLost ParsedByGrammar AnnouncementReplays MembersAgree
PROPERTIES PortAsGiven
CHECK_DEADLOCK FALSE
