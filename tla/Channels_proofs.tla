-------------------------- MODULE Channels_proofs --------------------------
(* Theorems about Channels, for every set of clients, names, addresses and *)
(* mode parameters.                                                        *)
EXTENDS Channels, Registration_proofs

\* Every command is one of Registration's handlers or leaves its variables
\* alone.
LEMMA StepIsRegStep == [Next]_vars => [RegNext]_regVars
  <1> SUFFICES ASSUME Next PROVE RegNext \/ UNCHANGED regVars
    BY DEF vars
  <1>1. ASSUME NEW c \in Client, RegistrationCommand(c) PROVE RegNext
    BY <1>1 DEF RegistrationCommand, RegNext
  <1>2. ASSUME NEW c \in Client, NEW n \in Nick, ChangeNick(c, n) PROVE RegNext
    BY <1>2 DEF ChangeNick, RegNext
  <1>3. ASSUME NEW c \in Client, HandleQuit(c) \/ LoseConnection(c)
        PROVE  RegNext
    BY <1>3 DEF HandleQuit, LoseConnection, Drop, RegNext
  <1>4. ASSUME NEW c \in Client, ChannelCommand(c) PROVE UNCHANGED regVars
    BY <1>4 DEF ChannelCommand, CreateChannel, JoinChannel, HandlePart,
                HandleKick, HandleInvite, HandleTopic, BeginMode
  <1>5. ASSUME NEW c \in Client, Query(c) PROVE UNCHANGED regVars
    BY <1>5 DEF Query, HandlePrivmsg, HandleWhoChannel, HandleWhoClient,
                HandleWhois, Reads
  <1>6. CASE ModeStep
    BY <1>6 DEF ModeStep, SetFlag, SetKey, SetLimit, SetOp, SetVoice, SetBan,
                 EndMode, Accepted
  <1>7. CASE RestOfRead
    BY <1>7 DEF RestOfRead, QuitLast, QuitThenCreate, QuitThenJoin, EndRead
  <1> QED BY <1>1, <1>2, <1>3, <1>4, <1>5, <1>6, <1>7 DEF Next

\* Channels implements Registration, so what is proved there holds here.
THEOREM ImplementsRegistration == Spec => RegSpec
  <1>1. Init => RegInit
    BY DEF Init
  <1> QED BY <1>1, StepIsRegStep, PTL DEF Spec, RegSpec

\* Nicknames are unique whatever happens on the channels.
THEOREM NicknamesStayUnique == Spec => []NickUnique
  BY ImplementsRegistration, NicknamesAreUnique, PTL

-----------------------------------------------------------------------------
(* The inductive invariant *)

OneNamePerObject ==
  \A m1, m2 \in ChanName : chan[m1] = chan[m2] /\ chan[m1] # NoChan => m1 = m2

\* The model's convention on the addresses of channels that were deleted.
FreedIsEmpty ==
  \A o \in ChanObj \ Live :
    /\ \A k \in Nick : members[o][k] = NoClient
    /\ ops[o] = {} /\ voiced[o] = {}

\* A client that is not connected holds no channel, and one that holds a
\* channel has registered, so it has a nickname.
HoldersAreRegistered ==
  \A c \in Client, m \in ChanName :
    joined[c][m] # NoChan => c \in conn /\ registered[c]

MovedIsHistory == moved \subseteq conn /\ (abandoned = {} => moved = {})

ModeOnLive == modeOn # NoChan => modeOn \in Live

MapInv ==
  /\ OneNamePerObject /\ FreedIsEmpty /\ HoldersAreRegistered
  /\ MovedIsHistory /\ ModeOnLive
  /\ RolesHeldByMembers
  /\ EntriesAreClients /\ ClientsAreEntries

ChInv == RegInv /\ ChTypeOK /\ MapInv /\ NoDanglingDeref

-----------------------------------------------------------------------------
(* Types *)

LEMMA FreshHasType == FreshAccess \in Access
  BY DEF FreshAccess, Access, FlagLetter

LEMMA LookupType == \A n : GetClientByNickname(n) \in conn \cup {NoClient}
  BY DEF GetClientByNickname, HoldersOf

LEMMA RegisteredHaveNicks ==
  ASSUME RegInv, NEW c \in conn, registered[c]
  PROVE  nick[c] \in Nick
  BY RegistrationAssumption
  DEF RegInv, RegTypeOK, RegisteredIffComplete, Complete

LEMMA LeaveType ==
  ASSUME ChTypeOK, NEW d \in Client, NEW m \in ChanName, chan[m] # NoChan,
         Leave(d, m)
  PROVE  /\ chan' \in [ChanName -> ChanObj \cup {NoChan}]
         /\ members' \in [ChanObj -> [Nick -> Client \cup {NoClient}]]
         /\ ops' \in [ChanObj -> SUBSET Nick]
         /\ voiced' \in [ChanObj -> SUBSET Nick]
         /\ access' \in [ChanObj -> Access]
         /\ joined' \in [Client -> [ChanName -> ChanObj \cup {NoChan}]]
  <1> chan[m] \in ChanObj
    BY DEF ChTypeOK
  <1>1. access' \in [ChanObj -> Access]
    <2>1. access' = access \/ access' = [access EXCEPT ![chan[m]] = FreshAccess]
      BY DEF Leave
    <2> QED BY <2>1, FreshHasType DEF ChTypeOK
  <1>2. chan' \in [ChanName -> ChanObj \cup {NoChan}]
    BY DEF Leave, ChTypeOK
  <1>3. /\ members' \in [ChanObj -> [Nick -> Client \cup {NoClient}]]
        /\ joined' \in [Client -> [ChanName -> ChanObj \cup {NoChan}]]
    BY DEF Leave, ChTypeOK
  <1>4. ops' \in [ChanObj -> SUBSET Nick] /\ voiced' \in [ChanObj -> SUBSET Nick]
    BY DEF Leave, ChTypeOK
  <1> QED BY <1>1, <1>2, <1>3, <1>4

LEMMA ModeType ==
  ASSUME ChTypeOK, ModeStep
  PROVE  ChTypeOK'
  <1> USE DEF ChTypeOK
  <1>1. CASE EndMode
    BY <1>1 DEF EndMode, Touch, NoRename
  <1>2. ASSUME NEW letter, Accepted(letter)
        PROVE  /\ modeOn \in ChanObj
               /\ access[modeOn] \in Access
               /\ modeChanged' = TRUE
               /\ UNCHANGED <<chan, members, joined, modeOn, gone, dangled,
                              running, abandoned, moved>>
    BY <1>2 DEF Accepted, NoRename
  <1>3. ASSUME NEW f \in FlagLetter, NEW adding \in BOOLEAN, SetFlag(f, adding)
        PROVE  ChTypeOK'
    <2> DEFINE a == [access[modeOn] EXCEPT !.flags =
                       IF adding THEN @ \cup {f} ELSE @ \ {f}]
    <2>1. Accepted(f)
      BY <1>3 DEF SetFlag
    <2>2. access' = [access EXCEPT ![modeOn] = a] /\ UNCHANGED <<ops, voiced>>
      BY <1>3 DEF SetFlag
    <2>3. a \in Access
      <3>1. access[modeOn] \in Access
        BY <1>2, <2>1
      <3>2. access[modeOn].flags \cup {f} \in SUBSET FlagLetter
        BY <3>1 DEF Access
      <3>3. access[modeOn].flags \ {f} \in SUBSET FlagLetter
        BY <3>1 DEF Access
      <3> QED BY <3>1, <3>2, <3>3 DEF Access
    <2> HIDE DEF a
    <2> QED BY <1>2, <2>1, <2>2, <2>3
  <1>4. ASSUME NEW key \in Key \cup {NoKey}, SetKey(key) PROVE ChTypeOK'
    <2> DEFINE a == [access[modeOn] EXCEPT !.key = key]
    <2>1. /\ Accepted("k")
          /\ access' = [access EXCEPT ![modeOn] = a] /\ UNCHANGED <<ops, voiced>>
      BY <1>4 DEF SetKey
    <2>2. a \in Access
      BY <1>2, <2>1 DEF Access
    <2> HIDE DEF a
    <2> QED BY <1>2, <2>1, <2>2
  <1>5. ASSUME NEW limit \in Limit \cup {0}, SetLimit(limit) PROVE ChTypeOK'
    <2> DEFINE a == [access[modeOn] EXCEPT !.limit = limit]
    <2>1. /\ Accepted("l")
          /\ access' = [access EXCEPT ![modeOn] = a] /\ UNCHANGED <<ops, voiced>>
      BY <1>5 DEF SetLimit
    <2>2. a \in Access
      BY <1>2, <2>1 DEF Access
    <2> HIDE DEF a
    <2> QED BY <1>2, <2>1, <2>2
  <1>6. ASSUME NEW n \in Nick, NEW adding \in BOOLEAN, SetOp(n, adding)
        PROVE  ChTypeOK'
    <2>1. /\ Accepted("o") /\ UNCHANGED <<voiced, access>>
          /\ ops' = [ops EXCEPT ![modeOn] = IF adding THEN @ \cup {n} ELSE @ \ {n}]
      BY <1>6 DEF SetOp
    <2>2. ops' \in [ChanObj -> SUBSET Nick]
      BY <2>1
    <2> QED BY <1>2, <2>1, <2>2
  <1>7. ASSUME NEW n \in Nick, NEW adding \in BOOLEAN, SetVoice(n, adding)
        PROVE  ChTypeOK'
    <2>1. /\ Accepted("v") /\ UNCHANGED <<ops, access>>
          /\ voiced' =
               [voiced EXCEPT ![modeOn] = IF adding THEN @ \cup {n} ELSE @ \ {n}]
      BY <1>7 DEF SetVoice
    <2>2. voiced' \in [ChanObj -> SUBSET Nick]
      BY <2>1
    <2> QED BY <1>2, <2>1, <2>2
  <1>8. ASSUME NEW mask \in Mask, NEW adding \in BOOLEAN, SetBan(mask, adding)
        PROVE  ChTypeOK'
    <2> DEFINE a == [access[modeOn] EXCEPT !.banned =
                       IF adding THEN @ \cup {mask} ELSE @ \ {mask}]
    <2>1. /\ Accepted("b")
          /\ access' = [access EXCEPT ![modeOn] = a] /\ UNCHANGED <<ops, voiced>>
      BY <1>8 DEF SetBan
    <2>2. a \in Access
      <3>1. access[modeOn] \in Access
        BY <1>2, <2>1
      <3>2. access[modeOn].banned \cup {mask} \in SUBSET Mask
        BY <3>1 DEF Access
      <3>3. access[modeOn].banned \ {mask} \in SUBSET Mask
        BY <3>1 DEF Access
      <3> QED BY <3>1, <3>2, <3>3 DEF Access
    <2> HIDE DEF a
    <2> QED BY <1>2, <2>1, <2>2
  <1> QED
    BY <1>1, <1>3, <1>4, <1>5, <1>6, <1>7, <1>8 DEF ModeStep

\* What the entry made behind a QUIT does to the history and the entries.
LEMMA LateEntryIs ==
  ASSUME ChTypeOK, NEW o \in ChanObj, LateEntry(o), gone.client # NoClient
  PROVE  /\ gone.nick \in Nick /\ gone.client \in Client
         /\ members' = [members EXCEPT ![o][gone.nick] = gone.client]
         /\ members' \in [ChanObj -> [Nick -> Client \cup {NoClient}]]
         /\ abandoned' = abandoned \cup {gone.nick}
         /\ abandoned' \subseteq Nick
  <1>1. gone.nick \in Nick /\ gone.client \in Client
    BY DEF ChTypeOK, LateEntry, Quitter
  <1> DEFINE k == gone.nick
             c == gone.client
  <1>2. /\ members' = [members EXCEPT ![o][k] = c]
        /\ abandoned' = abandoned \cup {k}
    BY DEF LateEntry
  <1>3. k \in Nick /\ c \in Client
    BY <1>1
  <1> HIDE DEF k, c
  <1>4. members' \in [ChanObj -> [Nick -> Client \cup {NoClient}]]
    BY <1>2, <1>3 DEF ChTypeOK
  <1> QED BY <1>2, <1>3, <1>4 DEF ChTypeOK, k, c

LEMMA RestType ==
  ASSUME ChTypeOK, RestOfRead
  PROVE  ChTypeOK'
  <1> USE DEF ChTypeOK
  <1>1. /\ gone.client # NoClient /\ gone' = Nobody
        /\ dangled' \in BOOLEAN /\ running' \in BOOLEAN
        /\ UNCHANGED <<voiced, joined, modeOn, modeChanged, moved>>
    BY DEF RestOfRead, QuitLast, QuitThenCreate, QuitThenJoin, EndRead
  <1>2. gone' \in Quitter
    BY <1>1 DEF Quitter, Nobody
  <1>3. CASE QuitLast
    BY <1>1, <1>2, <1>3 DEF QuitLast
  <1>4. ASSUME NEW m \in ChanName, NEW o \in ChanObj,
               NEW given \in Key \cup {NoKey}, QuitThenCreate(m, o, given)
        PROVE  ChTypeOK'
    <2>1. LateEntry(o)
      BY <1>4 DEF QuitThenCreate
    <2>2. /\ gone.nick \in Nick /\ abandoned' \subseteq Nick
          /\ members' \in [ChanObj -> [Nick -> Client \cup {NoClient}]]
      BY <1>1, <2>1, LateEntryIs
    <2>3. [access[o] EXCEPT !.key = given] \in Access
      <3>1. access[o] \in Access
        OBVIOUS
      <3> QED BY <3>1 DEF Access
    <2>4. access' = [access EXCEPT ![o] = [access[o] EXCEPT !.key = given]]
      BY <1>4 DEF QuitThenCreate
    <2>5. access' \in [ChanObj -> Access]
      BY <2>3, <2>4
    <2>6. /\ chan' \in [ChanName -> ChanObj \cup {NoChan}]
          /\ ops' \in [ChanObj -> SUBSET Nick]
      BY <1>4, <2>2 DEF QuitThenCreate
    <2> QED BY <1>1, <1>2, <2>2, <2>5, <2>6
  <1>5. ASSUME NEW m \in ChanName, NEW given \in Key \cup {NoKey},
               QuitThenJoin(m, given)
        PROVE  ChTypeOK'
    <2>1. LateEntry(chan[m]) /\ chan[m] \in ChanObj
      BY <1>5 DEF QuitThenJoin
    <2>2. /\ abandoned' \subseteq Nick
          /\ members' \in [ChanObj -> [Nick -> Client \cup {NoClient}]]
      BY <1>1, <2>1, LateEntryIs
    <2> QED BY <1>1, <1>2, <1>5, <2>2 DEF QuitThenJoin
  <1> QED BY <1>3, <1>4, <1>5 DEF RestOfRead

\* One step keeps the types.  The facts beyond types that it needs: whoever is
\* on a channel has a nickname.
LEMMA TypeStep ==
  ASSUME RegInv, ChTypeOK, HoldersAreRegistered, MovedIsHistory, [Next]_vars
  PROVE  ChTypeOK'
  <1> USE DEF ChTypeOK
  <1>1. ASSUME NEW c \in Client, RegistrationCommand(c) PROVE ChTypeOK'
    BY <1>1 DEF RegistrationCommand, chVars
  <1>2. ASSUME NEW c \in Client, NEW n \in Nick, ChangeNick(c, n)
        PROVE  ChTypeOK'
    <2>1. CASE n # nick[c] /\ JoinedObjs(c) # {}
      <3>1. c \in conn /\ registered[c]
        BY <2>1 DEF JoinedObjs, HoldersAreRegistered
      <3>2. nick[c] \in Nick
        BY <3>1, RegisteredHaveNicks
      <3> QED BY <1>2, <2>1, <3>2 DEF ChangeNick, NoMode
    <2>2. CASE ~(n # nick[c] /\ JoinedObjs(c) # {})
      BY <1>2, <2>2 DEF ChangeNick, NoMode, NoRename
    <2> QED BY <2>1, <2>2
  <1>3. ASSUME NEW c \in Client, NEW m \in ChanName, NEW o \in ChanObj,
               NEW given \in Key \cup {NoKey}, CreateChannel(c, m, o, given)
        PROVE  ChTypeOK'
    <2>1. nick[c] \in Nick
      BY <1>3, RegisteredHaveNicks DEF CreateChannel, Sends
    <2>2. [access[o] EXCEPT !.key = given] \in Access
      <3>1. access[o] \in Access
        OBVIOUS
      <3> QED BY <3>1 DEF Access
    <2>3. access' = [access EXCEPT ![o] = [access[o] EXCEPT !.key = given]]
      BY <1>3 DEF CreateChannel
    <2>4. access' \in [ChanObj -> Access]
      BY <2>2, <2>3
    <2>5. members' \in [ChanObj -> [Nick -> Client \cup {NoClient}]]
      BY <1>3 DEF CreateChannel
    <2>6. /\ chan' \in [ChanName -> ChanObj \cup {NoChan}]
          /\ ops' \in [ChanObj -> SUBSET Nick]
          /\ joined' \in [Client -> [ChanName -> ChanObj \cup {NoChan}]]
      BY <1>3, <2>1 DEF CreateChannel
    <2> QED
      BY <1>3, <2>4, <2>5, <2>6 DEF CreateChannel, NoMode, NoRename
  <1>4. ASSUME NEW c \in Client, NEW m \in ChanName,
               NEW given \in Key \cup {NoKey}, JoinChannel(c, m, given)
        PROVE  ChTypeOK'
    <2>1. chan[m] \in ChanObj
      BY <1>4 DEF JoinChannel
    <2> QED BY <1>4, <2>1 DEF JoinChannel, Touch, NoMode, NoRename
  <1>5. ASSUME NEW c \in Client, NEW m \in ChanName, HandlePart(c, m)
        PROVE  ChTypeOK'
    <2>1. chan[m] # NoChan /\ Leave(c, m)
      BY <1>5 DEF HandlePart
    <2> QED BY <1>5, <2>1, LeaveType DEF HandlePart, Touch, NoMode, NoRename
  <1>6. ASSUME NEW c \in Client, NEW m \in ChanName, NEW t \in Nick,
               HandleKick(c, m, t)
        PROVE  ChTypeOK'
    <2> DEFINE d == GetClientByNickname(t)
    <2>1. d \in Client
      BY <1>6, LookupType DEF HandleKick, RegInv, RegTypeOK
    <2>2. chan[m] # NoChan /\ Leave(d, m)
      BY <1>6 DEF HandleKick
    <2> HIDE DEF d
    <2> QED BY <1>6, <2>1, <2>2, LeaveType DEF HandleKick, Touch, NoMode, NoRename
  <1>7. ASSUME NEW c \in Client, NEW m \in ChanName, NEW n \in Nick,
               HandleInvite(c, n, m)
        PROVE  ChTypeOK'
    <2> DEFINE o == chan[m]
               a == [access[o] EXCEPT !.invited = @ \cup {n}]
    <2>1. o \in ChanObj /\ access' = [access EXCEPT ![o] = a]
      BY <1>7 DEF HandleInvite
    <2>2. a \in Access
      <3>1. access[o] \in Access
        BY <2>1
      <3> QED BY <3>1 DEF Access
    <2> HIDE DEF o, a
    <2>3. access' \in [ChanObj -> Access]
      BY <2>1, <2>2
    <2> QED BY <1>7, <2>3 DEF HandleInvite, NoMode, NoRename
  <1>8. ASSUME NEW c \in Client, NEW m \in ChanName,
               NEW topic \in Topic \cup {NoTopic}, HandleTopic(c, m, topic)
        PROVE  ChTypeOK'
    <2> DEFINE o == chan[m]
               a == [access[o] EXCEPT !.topic = topic]
    <2>1. o \in ChanObj /\ access' = [access EXCEPT ![o] = a]
      BY <1>8 DEF HandleTopic
    <2>2. a \in Access
      <3>1. access[o] \in Access
        BY <2>1
      <3> QED BY <3>1 DEF Access
    <2> HIDE DEF o, a
    <2>3. access' \in [ChanObj -> Access]
      BY <2>1, <2>2
    <2> QED BY <1>8, <2>3 DEF HandleTopic, Touch, NoMode, NoRename
  <1>9. ASSUME NEW c \in Client, NEW m \in ChanName, BeginMode(c, m)
        PROVE  ChTypeOK'
    BY <1>9 DEF BeginMode, NoRename
  <1>10. ASSUME NEW c \in Client, HandleQuit(c) \/ LoseConnection(c)
         PROVE  ChTypeOK'
    <2>1. /\ Drop(c) /\ dangled' \in BOOLEAN /\ running' \in BOOLEAN
          /\ modeOn' = modeOn /\ modeChanged' = modeChanged
      BY <1>10 DEF HandleQuit, LoseConnection, Touch, Drop
    <2>5. gone' \in Quitter
      <3>1. registered[c] => nick[c] \in Nick /\ user[c] \in Ident
        BY <2>1, RegisteredHaveNicks
        DEF Drop, RemoveClient, RegInv, RegTypeOK, RegisteredIffComplete, Complete
      <3> QED BY <1>10, <3>1 DEF HandleQuit, LoseConnection, Quitter, Nobody
    <2>2. members' \in [ChanObj -> [Nick -> Client \cup {NoClient}]]
      BY <2>1 DEF Drop
    <2>3. /\ ops' \in [ChanObj -> SUBSET Nick]
          /\ voiced' \in [ChanObj -> SUBSET Nick]
      BY <2>1 DEF Drop
    <2>4. joined' \in [Client -> [ChanName -> ChanObj \cup {NoChan}]]
      BY <2>1 DEF Drop
    <2>6. moved' \subseteq Client /\ UNCHANGED <<chan, access, abandoned>>
      BY <2>1 DEF Drop
    <2> QED BY <2>1, <2>2, <2>3, <2>4, <2>5, <2>6
  <1>11. ASSUME NEW c \in Client, Query(c) PROVE ChTypeOK'
    BY <1>11 DEF Query, HandlePrivmsg, HandleWhoChannel, HandleWhoClient,
                 HandleWhois, Reads, Touch, NoMode, NoRename
  <1>12. CASE ModeStep
    BY <1>12, ModeType
  <1>13. CASE UNCHANGED vars
    BY <1>13 DEF vars, chVars
  <1>14. CASE RestOfRead
    BY <1>14, RestType
  <1> QED
    BY <1>1, <1>2, <1>3, <1>4, <1>5, <1>6, <1>7, <1>8, <1>9, <1>10, <1>11,
       <1>12, <1>13, <1>14
    DEF Next, ChannelCommand

-----------------------------------------------------------------------------
(* The two membership maps, one lemma per kind of step. *)

\* Registration commands add clients and never rename or unregister one.
LEMMA RegistrationKeepsMaps ==
  ASSUME RegInv, ChTypeOK, MapInv, NEW c \in Client, RegistrationCommand(c)
  PROVE  MapInv'
  <1> USE DEF MapInv
  <1>1. UNCHANGED chVars
    BY DEF RegistrationCommand
  <1>2. /\ conn \subseteq conn' /\ conn' \subseteq Client /\ nick' = nick
        /\ \A d \in conn : registered[d] => registered'[d]
    BY DEF RegistrationCommand, AcceptNewConnection, HandlePass, HandleUser,
           HandleOper, HandleUserMode, RegisterClient, RegInv, RegTypeOK
  <1>3. OneNamePerObject' /\ FreedIsEmpty' /\ ModeOnLive' /\ RolesHeldByMembers'
    BY <1>1 DEF chVars, OneNamePerObject, FreedIsEmpty, ModeOnLive, Live,
                RolesHeldByMembers, Keys
  <1>4. HoldersAreRegistered' /\ MovedIsHistory'
    BY <1>1, <1>2 DEF chVars, HoldersAreRegistered, MovedIsHistory
  <1>5. EntriesAreClients'
    BY <1>1, <1>2 DEF chVars, EntriesAreClients
  <1>6. ClientsAreEntries'
    BY <1>1, <1>2 DEF chVars, ClientsAreEntries, HoldersAreRegistered
  <1> QED BY <1>3, <1>4, <1>5, <1>6

\* NICK gives up the old nickname when the client is on a channel, and
\* touches no entry when it is not.
LEMMA RenameKeepsMaps ==
  ASSUME RegInv, ChTypeOK, MapInv, NEW c \in Client, NEW n \in Nick,
         ChangeNick(c, n)
  PROVE  MapInv'
  <1> USE DEF MapInv
  <1>1. /\ c \in conn /\ conn' = conn
        /\ nick' = [nick EXCEPT ![c] = n]
        /\ \A d \in conn : registered[d] => registered'[d]
    BY DEF ChangeNick, HandleNick, RegisterClient, RegInv, RegTypeOK
  <1>2. UNCHANGED <<chan, members, ops, voiced, joined, modeOn>>
    BY DEF ChangeNick, NoMode
  <1>3. OneNamePerObject' /\ FreedIsEmpty' /\ ModeOnLive' /\ RolesHeldByMembers'
    BY <1>2 DEF OneNamePerObject, FreedIsEmpty, ModeOnLive, Live,
                RolesHeldByMembers, Keys
  <1>4. HoldersAreRegistered'
    BY <1>1, <1>2 DEF HoldersAreRegistered
  <1>5. CASE n # nick[c] /\ JoinedObjs(c) # {}
    <2>1. abandoned' = abandoned \cup {nick[c]} /\ moved' = moved \cup {c}
      BY <1>5 DEF ChangeNick
    <2>2. MovedIsHistory'
      BY <1>1, <2>1 DEF MovedIsHistory
    <2>3. EntriesAreClients'
      BY <1>1, <1>2, <2>1 DEF EntriesAreClients, RegInv, RegTypeOK
    <2>4. ClientsAreEntries'
      BY <1>1, <1>2, <2>1 DEF ClientsAreEntries, RegInv, RegTypeOK
    <2> QED BY <1>3, <1>4, <2>2, <2>3, <2>4
  <1>6. CASE n = nick[c]
    <2>1. nick' = nick /\ UNCHANGED <<abandoned, moved>>
      BY <1>1, <1>6 DEF ChangeNick, NoRename, RegInv, RegTypeOK
    <2> QED
      BY <1>1, <1>2, <1>3, <1>4, <2>1
      DEF MovedIsHistory, EntriesAreClients, ClientsAreEntries
  <1>7. CASE JoinedObjs(c) = {}
    <2>1. \A m \in ChanName : joined[c][m] = NoChan
      BY <1>7 DEF JoinedObjs
    <2>2. UNCHANGED <<abandoned, moved>>
      BY <1>7 DEF ChangeNick, NoRename
    <2>3. MovedIsHistory'
      BY <1>1, <2>2 DEF MovedIsHistory
    <2>4. EntriesAreClients'
      BY <1>1, <1>2, <2>1, <2>2 DEF EntriesAreClients, RegInv, RegTypeOK
    <2>5. ClientsAreEntries'
      BY <1>1, <1>2, <2>1, <2>2 DEF ClientsAreEntries, RegInv, RegTypeOK
    <2> QED BY <1>3, <1>4, <2>3, <2>4, <2>5
  <1> QED BY <1>5, <1>6, <1>7

LEMMA CreateKeepsMaps ==
  ASSUME RegInv, ChTypeOK, MapInv, NEW c \in Client, NEW m \in ChanName,
         NEW o \in ChanObj, NEW given \in Key \cup {NoKey},
         CreateChannel(c, m, o, given)
  PROVE  MapInv'
  <1> USE DEF MapInv
  <1> DEFINE k == nick[c]
  <1>1. /\ c \in conn /\ registered[c] /\ k \in Nick
        /\ chan[m] = NoChan /\ o \notin Live
        /\ o # NoChan /\ c # NoClient
    BY RegisteredHaveNicks, ChannelsAssumption, RegistrationAssumption
    DEF CreateChannel, Sends
  <1>2. /\ chan' = [chan EXCEPT ![m] = o]
        /\ members' = [members EXCEPT ![o][k] = c]
        /\ ops' = [ops EXCEPT ![o] = @ \cup {k}]
        /\ joined' = [joined EXCEPT ![c][m] = o]
        /\ UNCHANGED <<conn, nick, registered, voiced, modeOn, abandoned, moved>>
    BY DEF CreateChannel, regVars, NoMode, NoRename
  <1>3. Live' = Live \cup {o}
    <2>1. \A x \in ChanObj, mm \in ChanName : chan[mm] = x => chan'[mm] = x
      BY <1>1, <1>2, ChannelsAssumption DEF ChTypeOK
    <2>2. chan'[m] = o
      BY <1>2 DEF ChTypeOK
    <2>3. \A mm \in ChanName : chan'[mm] # chan[mm] => chan'[mm] = o
      BY <1>2 DEF ChTypeOK
    <2> QED BY <2>1, <2>2, <2>3 DEF Live
  <1>4. OneNamePerObject'
    BY <1>1, <1>2 DEF OneNamePerObject, Live, ChTypeOK
  <1>5. FreedIsEmpty' /\ ModeOnLive'
    BY <1>1, <1>2, <1>3 DEF FreedIsEmpty, ModeOnLive, ChTypeOK
  <1>6. HoldersAreRegistered' /\ MovedIsHistory'
    BY <1>1, <1>2 DEF HoldersAreRegistered, MovedIsHistory, ChTypeOK
  <1>7. RolesHeldByMembers'
    BY <1>1, <1>2 DEF RolesHeldByMembers, Keys, ChTypeOK
  <1>8. EntriesAreClients'
    <2> SUFFICES ASSUME NEW mm \in ChanName, NEW kk \in Nick \ abandoned,
                        chan'[mm] # NoChan, members'[chan'[mm]][kk] # NoClient
                 PROVE  LET d == members'[chan'[mm]][kk] IN
                        /\ d \in conn /\ nick[d] = kk
                        /\ joined'[d][mm] = chan'[mm]
      BY <1>2 DEF EntriesAreClients
    <2>1. CASE mm = m
      <3>1. chan'[mm] = o /\ members[o][kk] = NoClient
        BY <1>1, <1>2, <2>1 DEF FreedIsEmpty, ChTypeOK
      <3>2. kk = k /\ members'[o][kk] = c
        BY <1>1, <1>2, <3>1 DEF ChTypeOK
      <3> QED BY <1>1, <1>2, <2>1, <3>1, <3>2 DEF ChTypeOK
    <2>2. CASE mm # m
      <3>1. chan'[mm] = chan[mm] /\ chan[mm] # o
        BY <1>1, <1>2, <2>2 DEF Live, ChTypeOK
      <3>2. members'[chan[mm]] = members[chan[mm]]
        BY <1>2, <3>1 DEF ChTypeOK
      <3> DEFINE d == members[chan[mm]][kk]
      <3>3. d \in conn /\ nick[d] = kk /\ joined[d][mm] = chan[mm]
        BY <3>1, <3>2 DEF EntriesAreClients
      <3>4. joined'[d][mm] = joined[d][mm]
        BY <1>2, <2>2, <3>3 DEF ChTypeOK, RegInv, RegTypeOK
      <3> QED BY <3>1, <3>2, <3>3, <3>4
    <2> QED BY <2>1, <2>2
  <1>9. ClientsAreEntries'
    <2> SUFFICES ASSUME NEW d \in conn \ moved, NEW mm \in ChanName,
                        nick[d] \notin abandoned, joined'[d][mm] # NoChan
                 PROVE  /\ chan'[mm] = joined'[d][mm]
                        /\ members'[joined'[d][mm]][nick[d]] = d
      BY <1>2 DEF ClientsAreEntries
    <2>0. d \in Client
      BY DEF RegInv, RegTypeOK
    <2>1. CASE d = c /\ mm = m
      BY <1>1, <1>2, <2>1 DEF ChTypeOK
    <2>2. CASE ~(d = c /\ mm = m)
      <3>1. joined'[d][mm] = joined[d][mm]
        BY <1>2, <2>0, <2>2 DEF ChTypeOK
      <3>2. chan[mm] = joined[d][mm] /\ members[chan[mm]][nick[d]] = d
        BY <3>1 DEF ClientsAreEntries
      <3>3. mm # m /\ chan[mm] # o /\ chan[mm] \in ChanObj
        BY <1>1, <3>1, <3>2 DEF Live, ChTypeOK
      <3>4. chan'[mm] = chan[mm] /\ members'[chan[mm]] = members[chan[mm]]
        BY <1>2, <3>3 DEF ChTypeOK
      <3> QED BY <3>1, <3>2, <3>4
    <2> QED BY <2>1, <2>2
  <1> QED BY <1>4, <1>5, <1>6, <1>7, <1>8, <1>9

\* What MapsAgree says of a client's own map, with the facts around it.
LEMMA HeldChannel ==
  ASSUME RegInv, ChTypeOK, MapInv, NEW d \in conn \ moved, NEW m \in ChanName,
         nick[d] \notin abandoned, joined[d][m] # NoChan
  PROVE  /\ chan[m] = joined[d][m] /\ chan[m] \in ChanObj
         /\ nick[d] \in Nick
         /\ members[chan[m]][nick[d]] = d
         /\ nick[d] \in Keys(chan[m])
  <1>1. d \in Client /\ d # NoClient
    BY RegistrationAssumption DEF RegInv, RegTypeOK
  <1>2. chan[m] = joined[d][m] /\ members[chan[m]][nick[d]] = d
    BY DEF MapInv, ClientsAreEntries
  <1>3. nick[d] \in Nick
    BY <1>1, RegisteredHaveNicks DEF MapInv, HoldersAreRegistered
  <1> QED BY <1>1, <1>2, <1>3 DEF Keys, ChTypeOK

LEMMA JoinKeepsMaps ==
  ASSUME RegInv, ChTypeOK, MapInv, NEW c \in Client, NEW m \in ChanName,
         NEW given \in Key \cup {NoKey}, JoinChannel(c, m, given)
  PROVE  MapInv'
  <1> USE DEF MapInv
  <1> DEFINE k == nick[c]
             o == chan[m]
  <1>1. /\ c \in conn /\ registered[c] /\ k \in Nick
        /\ o \in ChanObj /\ o \in Live /\ members[o][k] = NoClient
        /\ c # NoClient
    BY RegisteredHaveNicks, RegistrationAssumption
    DEF JoinChannel, Sends, ChTypeOK, Live, IsClient, Keys
  <1>2. /\ members' = [members EXCEPT ![o][k] = c]
        /\ joined' = [joined EXCEPT ![c][m] = o]
        /\ UNCHANGED <<conn, nick, registered, chan, ops, voiced, modeOn,
                       abandoned, moved>>
    BY DEF JoinChannel, regVars, NoMode, NoRename
  <1>3. OneNamePerObject' /\ ModeOnLive'
    BY <1>2 DEF OneNamePerObject, ModeOnLive, Live
  <1>4. FreedIsEmpty'
    BY <1>1, <1>2 DEF FreedIsEmpty, Live, ChTypeOK
  <1>5. HoldersAreRegistered' /\ MovedIsHistory'
    BY <1>1, <1>2 DEF HoldersAreRegistered, MovedIsHistory, ChTypeOK
  <1>6. RolesHeldByMembers'
    BY <1>1, <1>2 DEF RolesHeldByMembers, Keys, ChTypeOK
  <1>7. EntriesAreClients'
    <2> SUFFICES ASSUME NEW mm \in ChanName, NEW kk \in Nick \ abandoned,
                        chan[mm] # NoChan, members'[chan[mm]][kk] # NoClient
                 PROVE  LET d == members'[chan[mm]][kk] IN
                        d \in conn /\ nick[d] = kk /\ joined'[d][mm] = chan[mm]
      BY <1>2 DEF EntriesAreClients
    <2>1. CASE mm = m /\ kk = k
      BY <1>1, <1>2, <2>1 DEF ChTypeOK
    <2>2. CASE ~(mm = m /\ kk = k)
      <3> DEFINE d == members[chan[mm]][kk]
      <3>1. chan[mm] = o => mm = m
        BY <1>1 DEF OneNamePerObject, ChTypeOK
      <3>2. members'[chan[mm]][kk] = d
        BY <1>1, <1>2, <2>2, <3>1 DEF ChTypeOK
      <3>3. d \in conn /\ nick[d] = kk /\ joined[d][mm] = chan[mm]
        BY <3>2 DEF EntriesAreClients
      <3>4. joined'[d][mm] = joined[d][mm]
        BY <1>2, <2>2, <3>3 DEF ChTypeOK, RegInv, RegTypeOK
      <3> QED BY <3>2, <3>3, <3>4
    <2> QED BY <2>1, <2>2
  <1>8. ClientsAreEntries'
    <2> SUFFICES ASSUME NEW d \in conn \ moved, NEW mm \in ChanName,
                        nick[d] \notin abandoned, joined'[d][mm] # NoChan
                 PROVE  /\ chan[mm] = joined'[d][mm]
                        /\ members'[joined'[d][mm]][nick[d]] = d
      BY <1>2 DEF ClientsAreEntries
    <2>0. d \in Client
      BY DEF RegInv, RegTypeOK
    <2>1. CASE d = c /\ mm = m
      BY <1>1, <1>2, <2>1 DEF ChTypeOK
    <2>2. CASE ~(d = c /\ mm = m)
      <3>1. joined'[d][mm] = joined[d][mm]
        BY <1>2, <2>0, <2>2 DEF ChTypeOK
      <3>2. /\ chan[mm] = joined[d][mm] /\ chan[mm] \in ChanObj
            /\ members[chan[mm]][nick[d]] = d /\ d # NoClient
        BY <2>0, <3>1, HeldChannel, RegistrationAssumption
      <3>3. members'[chan[mm]][nick[d]] = d
        BY <1>1, <1>2, <3>2 DEF ChTypeOK
      <3> QED BY <3>1, <3>2, <3>3
    <2> QED BY <2>1, <2>2
  <1> QED BY <1>3, <1>4, <1>5, <1>6, <1>7, <1>8

\* PART and KICK, once the client that leaves is found under its entry.
LEMMA LeaveKeepsMaps ==
  ASSUME RegInv, ChTypeOK, MapInv, NEW d \in conn, NEW m \in ChanName,
         chan[m] # NoChan, nick[d] \in Keys(chan[m]), Leave(d, m),
         modeOn = NoChan, UNCHANGED <<regVars, modeOn, abandoned, moved>>
  PROVE  MapInv'
  <1> USE DEF MapInv
  <1> DEFINE k == nick[d]
             o == chan[m]
             emptied == Keys(o) \subseteq {k}
  <1>1. /\ d \in Client /\ k \in Nick /\ o \in ChanObj
        /\ k # NoNick /\ NoChan \notin ChanObj
    BY RegistrationAssumption, ChannelsAssumption
    DEF RegInv, RegTypeOK, ChTypeOK, Keys
  <1>2. /\ members' = [members EXCEPT ![o][k] = NoClient]
        /\ ops' = [ops EXCEPT ![o] = @ \ {k}]
        /\ voiced' = [voiced EXCEPT ![o] = @ \ {k}]
        /\ joined' = [joined EXCEPT ![d][m] = NoChan]
        /\ chan' = IF emptied THEN [chan EXCEPT ![m] = NoChan] ELSE chan
        /\ UNCHANGED <<conn, nick, registered, modeOn, abandoned, moved>>
    BY DEF Leave, regVars
  <1>3. \A mm \in ChanName :
          /\ chan'[mm] # NoChan => chan'[mm] = chan[mm]
          /\ mm # m => chan'[mm] = chan[mm] /\ (chan[mm] # NoChan => chan[mm] # o)
    BY <1>1, <1>2 DEF ChTypeOK, OneNamePerObject
  <1>4. OneNamePerObject' /\ ModeOnLive'
    BY <1>2, <1>3 DEF OneNamePerObject, ModeOnLive
  <1>5. RolesHeldByMembers'
    BY <1>1, <1>2 DEF RolesHeldByMembers, Keys, ChTypeOK
  <1>6. FreedIsEmpty'
    <2> SUFFICES ASSUME NEW x \in ChanObj, x \notin Live'
                 PROVE  /\ \A kk \in Nick : members'[x][kk] = NoClient
                        /\ ops'[x] = {} /\ voiced'[x] = {}
      BY DEF FreedIsEmpty
    <2>1. CASE x = o
      <3>1. emptied
        BY <1>1, <1>2, <2>1 DEF Live
      <3>2. \A kk \in Nick : members'[o][kk] = NoClient
        BY <1>1, <1>2, <3>1 DEF Keys, ChTypeOK
      <3>3. ops[o] \subseteq {k} /\ voiced[o] \subseteq {k}
        BY <1>1, <3>1 DEF RolesHeldByMembers
      <3> QED BY <1>1, <1>2, <2>1, <3>2, <3>3 DEF ChTypeOK
    <2>2. CASE x # o
      <3>1. x \notin Live
        BY <1>3, <2>2 DEF Live
      <3> QED BY <1>1, <1>2, <2>2, <3>1 DEF FreedIsEmpty, ChTypeOK
    <2> QED BY <2>1, <2>2
  <1>7. HoldersAreRegistered' /\ MovedIsHistory'
    BY <1>1, <1>2 DEF HoldersAreRegistered, MovedIsHistory, ChTypeOK
  <1>8. EntriesAreClients'
    <2> SUFFICES ASSUME NEW mm \in ChanName, NEW kk \in Nick \ abandoned,
                        chan'[mm] # NoChan, members'[chan'[mm]][kk] # NoClient
                 PROVE  LET e == members'[chan'[mm]][kk] IN
                        /\ e \in conn /\ nick[e] = kk
                        /\ joined'[e][mm] = chan'[mm]
      BY <1>2 DEF EntriesAreClients
    <2> DEFINE e == members[chan[mm]][kk]
    <2>1. chan'[mm] = chan[mm] /\ chan[mm] \in ChanObj
      BY <1>3 DEF ChTypeOK
    <2>2. members'[chan[mm]][kk] = e /\ ~(chan[mm] = o /\ kk = k)
      BY <1>1, <1>2, <2>1 DEF ChTypeOK
    <2>3. e \in conn /\ nick[e] = kk /\ joined[e][mm] = chan[mm]
      BY <2>1, <2>2 DEF EntriesAreClients
    <2>4. ~(e = d /\ mm = m)
      BY <2>2, <2>3
    <2>5. joined'[e][mm] = joined[e][mm]
      BY <1>2, <2>3, <2>4 DEF ChTypeOK, RegInv, RegTypeOK
    <2> QED BY <2>1, <2>2, <2>3, <2>5
  <1>9. ClientsAreEntries'
    <2> SUFFICES ASSUME NEW e \in conn \ moved, NEW mm \in ChanName,
                        nick[e] \notin abandoned, joined'[e][mm] # NoChan
                 PROVE  /\ chan'[mm] = joined'[e][mm]
                        /\ members'[joined'[e][mm]][nick[e]] = e
      BY <1>2 DEF ClientsAreEntries
    <2>0. e \in Client /\ ~(e = d /\ mm = m) /\ joined'[e][mm] = joined[e][mm]
      BY <1>1, <1>2 DEF RegInv, RegTypeOK, ChTypeOK
    <2>1. /\ chan[mm] = joined[e][mm] /\ chan[mm] \in ChanObj
          /\ nick[e] \in Nick /\ members[chan[mm]][nick[e]] = e
          /\ nick[e] \in Keys(chan[mm])
      BY <2>0, HeldChannel
    <2>2. CASE mm = m
      <3>1. nick[e] # k
        BY <1>1, <2>0, <2>2 DEF RegInv, NickUnique
      <3>2. chan' = chan
        BY <1>2, <2>1, <2>2, <3>1
      <3> QED BY <1>1, <1>2, <2>0, <2>1, <2>2, <3>1, <3>2 DEF ChTypeOK
    <2>3. CASE mm # m
      <3>1. chan'[mm] = chan[mm] /\ chan[mm] # o
        BY <1>1, <1>3, <2>1, <2>3
      <3> QED BY <1>1, <1>2, <2>0, <2>1, <3>1 DEF ChTypeOK
    <2> QED BY <2>2, <2>3
  <1> QED BY <1>4, <1>5, <1>6, <1>7, <1>8, <1>9

LEMMA DropKeepsMaps ==
  ASSUME RegInv, ChTypeOK, MapInv, NEW c \in Client, Drop(c), modeOn = NoChan
  PROVE  MapInv'
  <1> USE DEF MapInv
  <1> DEFINE k == nick[c]
             left == {o \in JoinedObjs(c) \cap Live : IsClient(o, c)}
  <1>1. /\ c \in conn /\ conn' = conn \ {c}
        /\ nick' = [nick EXCEPT ![c] = NoNick]
        /\ registered' = [registered EXCEPT ![c] = FALSE]
        /\ moved' = moved \ {c}
        /\ joined' = [joined EXCEPT ![c] = [m \in ChanName |-> NoChan]]
        /\ UNCHANGED <<chan, modeOn, abandoned>>
    BY DEF Drop, RemoveClient
  <1>2. \A o \in ChanObj :
          /\ \A kk \in Nick :
               members'[o][kk] =
                 IF o \in left /\ kk = k THEN NoClient ELSE members[o][kk]
          /\ ops'[o] = IF o \in left THEN ops[o] \ {k} ELSE ops[o]
          /\ voiced'[o] = IF o \in left THEN voiced[o] \ {k} ELSE voiced[o]
    BY DEF Drop, ChTypeOK
  <1>9. \A o \in ChanObj :
          o \in JoinedObjs(c) \cap Live /\ k \in Nick /\ members[o][k] # NoClient
            => o \in left
    BY DEF left, IsClient, Keys
  <1> HIDE DEF left
  <1>3. OneNamePerObject' /\ ModeOnLive'
    BY <1>1 DEF OneNamePerObject, ModeOnLive
  <1>4. FreedIsEmpty'
    <2>1. Live' = Live
      BY <1>1 DEF Live
    <2>2. \A o \in ChanObj \ Live : o \notin left
      BY DEF left
    <2> SUFFICES ASSUME NEW o \in ChanObj, o \notin Live
                 PROVE  /\ \A kk \in Nick : members'[o][kk] = NoClient
                        /\ ops'[o] = {} /\ voiced'[o] = {}
      BY <2>1 DEF FreedIsEmpty
    <2>3. /\ \A kk \in Nick : members[o][kk] = NoClient
          /\ ops[o] = {} /\ voiced[o] = {}
      BY DEF FreedIsEmpty
    <2> QED BY <1>2, <2>2, <2>3
  <1>5. HoldersAreRegistered' /\ MovedIsHistory'
    BY <1>1 DEF HoldersAreRegistered, MovedIsHistory, ChTypeOK, RegInv, RegTypeOK
  <1>6. RolesHeldByMembers'
    <2> SUFFICES ASSUME NEW o \in ChanObj, NEW kk \in ops'[o] \cup voiced'[o]
                 PROVE  kk \in Nick /\ members'[o][kk] # NoClient
      BY DEF RolesHeldByMembers, Keys
    <2>0. /\ ops'[o] = IF o \in left THEN ops[o] \ {k} ELSE ops[o]
          /\ voiced'[o] = IF o \in left THEN voiced[o] \ {k} ELSE voiced[o]
          /\ kk \in Nick => members'[o][kk] =
               IF o \in left /\ kk = k THEN NoClient ELSE members[o][kk]
      BY <1>2
    <2>1. kk \in Nick /\ members[o][kk] # NoClient
      <3>1. kk \in ops[o] \cup voiced[o]
        BY <2>0
      <3> QED BY <3>1 DEF RolesHeldByMembers, Keys
    <2>2. ~(o \in left /\ kk = k)
      BY <2>0
    <2> QED BY <2>0, <2>1, <2>2
  <1>7. EntriesAreClients'
    <2> SUFFICES ASSUME NEW mm \in ChanName, NEW kk \in Nick \ abandoned,
                        chan[mm] # NoChan, members'[chan[mm]][kk] # NoClient
                 PROVE  LET e == members'[chan[mm]][kk] IN
                        /\ e \in conn' /\ nick'[e] = kk
                        /\ joined'[e][mm] = chan[mm]
      BY <1>1 DEF EntriesAreClients
    <2> DEFINE e == members[chan[mm]][kk]
    <2>1. chan[mm] \in ChanObj /\ chan[mm] \in Live
      BY DEF ChTypeOK, Live
    <2>2. members'[chan[mm]][kk] = e /\ ~(chan[mm] \in left /\ kk = k)
      BY <1>2, <2>1
    <2>3. e \in conn /\ nick[e] = kk /\ joined[e][mm] = chan[mm]
      BY <2>2 DEF EntriesAreClients
    <2>4. e # c
      <3> SUFFICES ASSUME e = c PROVE FALSE
        OBVIOUS
      <3>1. chan[mm] \in JoinedObjs(c) \cap Live
        BY <2>1, <2>3 DEF JoinedObjs
      <3>2. kk = k /\ members[chan[mm]][k] # NoClient
        BY <1>2, <2>1, <2>2, <2>3
      <3> QED BY <1>9, <2>1, <2>2, <3>1, <3>2
    <2> QED
      BY <1>1, <2>2, <2>3, <2>4 DEF RegInv, RegTypeOK, ChTypeOK
  <1>8. ClientsAreEntries'
    <2> SUFFICES ASSUME NEW e \in conn' \ moved', NEW mm \in ChanName,
                        nick'[e] \notin abandoned, joined'[e][mm] # NoChan
                 PROVE  /\ chan[mm] = joined'[e][mm]
                        /\ members'[joined'[e][mm]][nick'[e]] = e
      BY <1>1 DEF ClientsAreEntries
    <2>1. /\ e \in conn \ moved /\ e # c
          /\ nick'[e] = nick[e] /\ joined'[e] = joined[e]
      BY <1>1 DEF RegInv, RegTypeOK, ChTypeOK
    <2>2. /\ chan[mm] = joined[e][mm] /\ chan[mm] \in ChanObj
          /\ nick[e] \in Nick /\ members[chan[mm]][nick[e]] = e
      BY <2>1, HeldChannel
    <2>3. nick[e] # k
      BY <1>1, <2>1, <2>2, RegistrationAssumption DEF RegInv, NickUnique
    <2>4. members'[chan[mm]][nick[e]] = members[chan[mm]][nick[e]]
      BY <1>2, <2>2, <2>3
    <2>5. joined'[e][mm] = chan[mm] /\ nick'[e] = nick[e]
      BY <2>1, <2>2
    <2> QED BY <2>2, <2>4, <2>5
  <1> QED BY <1>3, <1>4, <1>5, <1>6, <1>7, <1>8

\* The steps that leave the two maps alone; MODE may still change roles.
LEMMA OthersKeepMaps ==
  ASSUME ChTypeOK, MapInv,
         UNCHANGED <<regVars, chan, members, joined, abandoned, moved>>,
         ModeOnLive', RolesHeldByMembers',
         \A o \in ChanObj \ Live : ops'[o] = ops[o] /\ voiced'[o] = voiced[o]
  PROVE  MapInv'
  <1> USE DEF MapInv, regVars
  <1>1. OneNamePerObject' /\ HoldersAreRegistered' /\ MovedIsHistory'
    BY DEF OneNamePerObject, HoldersAreRegistered, MovedIsHistory
  <1>2. FreedIsEmpty'
    BY DEF FreedIsEmpty, Live
  <1>3. EntriesAreClients' /\ ClientsAreEntries'
    BY DEF EntriesAreClients, ClientsAreEntries
  <1> QED BY <1>1, <1>2, <1>3

LEMMA ModeKeepsMaps ==
  ASSUME ChTypeOK, MapInv, ModeStep
  PROVE  MapInv'
  <1> USE DEF MapInv
  <1>1. UNCHANGED <<regVars, chan, members, joined, abandoned, moved>>
    BY DEF ModeStep, SetFlag, SetKey, SetLimit, SetOp, SetVoice, SetBan,
           EndMode, Accepted, NoRename
  <1>2. ModeOnLive'
    BY DEF ModeStep, SetFlag, SetKey, SetLimit, SetOp, SetVoice, SetBan,
           EndMode, Accepted, ModeOnLive, Live
  <1>3. modeOn \in Live
    BY DEF ModeStep, SetFlag, SetKey, SetLimit, SetOp, SetVoice, SetBan,
           EndMode, Accepted, ModeOnLive
  <1>4. ASSUME NEW n \in Nick, NEW adding \in BOOLEAN, SetOp(n, adding)
        PROVE  MapInv'
    <2>1. /\ ops' = [ops EXCEPT ![modeOn] =
                       IF adding THEN @ \cup {n} ELSE @ \ {n}]
          /\ adding => n \in Keys(modeOn)
          /\ voiced' = voiced
      BY <1>4 DEF SetOp
    <2>2. RolesHeldByMembers'
      BY <1>1, <2>1 DEF RolesHeldByMembers, Keys, ChTypeOK
    <2>3. \A o \in ChanObj \ Live : ops'[o] = ops[o] /\ voiced'[o] = voiced[o]
      BY <1>3, <2>1 DEF ChTypeOK
    <2> QED BY <1>1, <1>2, <2>2, <2>3, OthersKeepMaps
  <1>5. ASSUME NEW n \in Nick, NEW adding \in BOOLEAN, SetVoice(n, adding)
        PROVE  MapInv'
    <2>1. /\ voiced' = [voiced EXCEPT ![modeOn] =
                          IF adding THEN @ \cup {n} ELSE @ \ {n}]
          /\ adding => n \in Keys(modeOn)
          /\ ops' = ops
      BY <1>5 DEF SetVoice
    <2>2. RolesHeldByMembers'
      BY <1>1, <2>1 DEF RolesHeldByMembers, Keys, ChTypeOK
    <2>3. \A o \in ChanObj \ Live : ops'[o] = ops[o] /\ voiced'[o] = voiced[o]
      BY <1>3, <2>1 DEF ChTypeOK
    <2> QED BY <1>1, <1>2, <2>2, <2>3, OthersKeepMaps
  <1>6. ASSUME UNCHANGED <<ops, voiced>> PROVE MapInv'
    <2>1. RolesHeldByMembers'
      BY <1>1, <1>6 DEF RolesHeldByMembers, Keys
    <2> QED BY <1>1, <1>2, <1>6, <2>1, OthersKeepMaps
  <1>7. \/ \E n \in Nick, adding \in BOOLEAN : SetOp(n, adding) \/ SetVoice(n, adding)
        \/ UNCHANGED <<ops, voiced>>
    BY DEF ModeStep, SetFlag, SetKey, SetLimit, SetBan, EndMode
  <1> QED BY <1>4, <1>5, <1>6, <1>7

\* What is done behind a QUIT gives up the nickname it is done under.
LEMMA RestKeepsMaps ==
  ASSUME RegInv, ChTypeOK, MapInv, RestOfRead
  PROVE  MapInv'
  <1> USE DEF MapInv
  <1>1. /\ gone.client # NoClient
        /\ UNCHANGED <<regVars, voiced, joined, modeOn, moved>>
    BY DEF RestOfRead, QuitLast, QuitThenCreate, QuitThenJoin, EndRead
  <1> DEFINE k == gone.nick
             c == gone.client
  <1>2. CASE QuitLast
    <2>1. UNCHANGED <<chan, members, ops, abandoned>>
      BY <1>2 DEF QuitLast
    <2>2. ModeOnLive' /\ RolesHeldByMembers'
      BY <1>1, <2>1 DEF ModeOnLive, Live, RolesHeldByMembers, Keys
    <2> QED BY <1>1, <2>1, <2>2, OthersKeepMaps
  <1>3. ASSUME NEW o \in ChanObj, LateEntry(o),
               \A mm \in ChanName : chan'[mm] = chan[mm] \/ chan'[mm] = o,
               \A mm \in ChanName : chan[mm] # NoChan => chan'[mm] = chan[mm],
               o \in Live', OneNamePerObject', ops'[o] \subseteq ops[o] \cup {k},
               \A mm \in ChanName : chan'[mm] = o =>
                 chan[mm] = o \/ \A kk \in Nick : members[o][kk] = NoClient,
               \A x \in ChanObj \ {o} : ops'[x] = ops[x],
               members[o][k] = NoClient
        PROVE  MapInv'
    <2>1. /\ k \in Nick /\ c \in Client
          /\ members' = [members EXCEPT ![o][k] = c]
          /\ abandoned' = abandoned \cup {k}
      BY <1>1, <1>3, LateEntryIs
    <2> HIDE DEF k, c
    <2>2. \A x \in ChanObj, kk \in Nick :
            members'[x][kk] = IF x = o /\ kk = k THEN c ELSE members[x][kk]
      BY <2>1 DEF ChTypeOK
    <2>3. Live \subseteq Live'
      BY <1>3, ChannelsAssumption DEF Live
    <2>4. \A x \in ChanObj \ Live' : members'[x] = members[x] /\ ops'[x] = ops[x]
      BY <1>3, <2>1 DEF ChTypeOK
    <2>5. FreedIsEmpty' /\ ModeOnLive'
      BY <1>1, <2>3, <2>4 DEF FreedIsEmpty, ModeOnLive
    <2>6. HoldersAreRegistered' /\ MovedIsHistory'
      BY <1>1, <2>1 DEF regVars, HoldersAreRegistered, MovedIsHistory
    <2>7. c # NoClient
      BY <1>1 DEF c
    <2>8. RolesHeldByMembers'
      <3> SUFFICES ASSUME NEW x \in ChanObj, NEW kk \in ops'[x] \cup voiced'[x]
                   PROVE  kk \in Nick /\ members'[x][kk] # NoClient
        BY DEF RolesHeldByMembers, Keys
      <3>1. kk \in ops[x] \cup voiced[x] \/ (x = o /\ kk = k)
        BY <1>1, <1>3 DEF k
      <3>2. kk \in ops[x] \cup voiced[x] => kk \in Nick /\ members[x][kk] # NoClient
        BY DEF RolesHeldByMembers, Keys
      <3> QED BY <2>1, <2>2, <2>7, <3>1, <3>2
    <2>9. EntriesAreClients'
      <3> SUFFICES ASSUME NEW mm \in ChanName, NEW kk \in Nick \ abandoned',
                          chan'[mm] # NoChan, members'[chan'[mm]][kk] # NoClient
                   PROVE  LET d == members'[chan'[mm]][kk] IN
                          /\ d \in conn' /\ nick'[d] = kk
                          /\ joined'[d][mm] = chan'[mm]
        BY DEF EntriesAreClients
      <3>0. kk # k /\ kk \in Nick \ abandoned
        BY <2>1
      <3>1. chan'[mm] \in ChanObj
        BY <1>3 DEF ChTypeOK
      <3>2. members'[chan'[mm]][kk] = members[chan'[mm]][kk]
        BY <2>2, <3>0, <3>1
      <3>3. chan'[mm] = chan[mm]
        BY <1>3, <3>0, <3>2
      <3> QED BY <1>1, <3>0, <3>2, <3>3 DEF regVars, EntriesAreClients
    <2>10. ClientsAreEntries'
      <3> SUFFICES ASSUME NEW d \in conn' \ moved', NEW mm \in ChanName,
                          nick'[d] \notin abandoned', joined'[d][mm] # NoChan
                   PROVE  /\ chan'[mm] = joined'[d][mm]
                          /\ members'[joined'[d][mm]][nick'[d]] = d
        BY DEF ClientsAreEntries
      <3>1. /\ d \in conn \ moved /\ nick'[d] = nick[d] /\ joined' = joined
            /\ nick[d] \notin abandoned /\ nick[d] # k
        BY <1>1, <2>1 DEF regVars
      <3>2. /\ chan[mm] = joined[d][mm] /\ chan[mm] \in ChanObj
            /\ nick[d] \in Nick /\ members[chan[mm]][nick[d]] = d
        BY <3>1, HeldChannel
      <3>3. chan'[mm] = chan[mm]
        BY <1>3, <3>2, ChannelsAssumption
      <3>4. members'[chan[mm]][nick[d]] = members[chan[mm]][nick[d]]
        BY <2>2, <3>1, <3>2
      <3> QED BY <3>1, <3>2, <3>3, <3>4
    <2> QED BY <1>3, <2>5, <2>6, <2>8, <2>9, <2>10
  <1>4. ASSUME NEW m \in ChanName, NEW o \in ChanObj,
               NEW given \in Key \cup {NoKey}, QuitThenCreate(m, o, given)
        PROVE  MapInv'
    <2>1. /\ LateEntry(o) /\ chan[m] = NoChan /\ o \notin Live
          /\ chan' = [chan EXCEPT ![m] = o]
          /\ ops' = [ops EXCEPT ![o] = @ \cup {k}]
      BY <1>4 DEF QuitThenCreate
    <2>2. k \in Nick
      BY <1>1, <2>1, LateEntryIs
    <2> HIDE DEF k, c
    <2>3. \A mm \in ChanName : chan'[mm] = IF mm = m THEN o ELSE chan[mm]
      BY <2>1 DEF ChTypeOK
    <2>4. \A mm \in ChanName : chan[mm] # o
      BY <2>1 DEF Live
    <2>5. OneNamePerObject'
      BY <2>3, <2>4 DEF OneNamePerObject
    <2>6. \A kk \in Nick : members[o][kk] = NoClient
      BY <2>1 DEF FreedIsEmpty
    <2>7. o \in Live'
      BY <2>3 DEF Live
    <2>8. ops'[o] \subseteq ops[o] \cup {k} /\ \A x \in ChanObj \ {o} : ops'[x] = ops[x]
      BY <2>1 DEF ChTypeOK
    <2> QED BY <1>3, <2>1, <2>2, <2>3, <2>5, <2>6, <2>7, <2>8 DEF k
  <1>5. ASSUME NEW m \in ChanName, NEW given \in Key \cup {NoKey},
               QuitThenJoin(m, given)
        PROVE  MapInv'
    <2>1. /\ LateEntry(chan[m]) /\ chan[m] \in ChanObj /\ k \notin Keys(chan[m])
          /\ UNCHANGED <<chan, ops>>
      BY <1>5 DEF QuitThenJoin, ChTypeOK
    <2>2. k \in Nick
      BY <1>1, <2>1, LateEntryIs
    <2>3. members[chan[m]][k] = NoClient
      BY <2>1, <2>2 DEF Keys
    <2>4. OneNamePerObject' /\ chan[m] \in Live'
      BY <2>1 DEF OneNamePerObject, Live
    <2> QED BY <1>3, <2>1, <2>3, <2>4
  <1> QED BY <1>2, <1>4, <1>5 DEF RestOfRead

LEMMA MapStep ==
  ASSUME RegInv, ChTypeOK, MapInv, [Next]_vars
  PROVE  MapInv'
  <1>1. ASSUME NEW c \in Client, NEW m \in ChanName, HandlePart(c, m)
        PROVE  MapInv'
    <2>1. /\ c \in conn /\ chan[m] # NoChan /\ nick[c] \in Keys(chan[m])
          /\ Leave(c, m)
          /\ modeOn = NoChan
          /\ UNCHANGED <<regVars, modeOn, abandoned, moved>>
      BY <1>1 DEF HandlePart, Sends, Idle, IsClient, NoMode, NoRename
    <2> QED BY <2>1, LeaveKeepsMaps
  <1>2. ASSUME NEW c \in Client, NEW m \in ChanName, NEW t \in Nick,
               HandleKick(c, m, t)
        PROVE  MapInv'
    <2> DEFINE d == GetClientByNickname(t)
    <2>1. d \in conn /\ nick[d] = t
      BY <1>2, LookupByNickname DEF HandleKick, RegInv
    <2>2. /\ chan[m] # NoChan /\ nick[d] \in Keys(chan[m])
          /\ Leave(d, m)
          /\ modeOn = NoChan
          /\ UNCHANGED <<regVars, modeOn, abandoned, moved>>
      BY <1>2, <2>1 DEF HandleKick, Sends, Idle, NoMode, NoRename
    <2> HIDE DEF d
    <2> QED BY <2>1, <2>2, LeaveKeepsMaps
  <1>3. ASSUME NEW c \in Client, HandleQuit(c) \/ LoseConnection(c)
        PROVE  MapInv'
    BY <1>3, DropKeepsMaps DEF HandleQuit, LoseConnection, Idle
  <1>4. ASSUME UNCHANGED <<regVars, chan, members, ops, voiced, joined,
                           abandoned, moved>>,
               ModeOnLive'
        PROVE  MapInv'
    <2>1. RolesHeldByMembers'
      BY <1>4 DEF MapInv, RolesHeldByMembers, Keys
    <2> QED BY <1>4, <2>1, OthersKeepMaps
  <1>5. ASSUME NEW c \in Client, NEW m \in ChanName, BeginMode(c, m)
        PROVE  MapInv'
    <2>1. ModeOnLive'
      BY <1>5 DEF BeginMode, ModeOnLive, Live, ChTypeOK
    <2> QED BY <1>5, <1>4, <2>1 DEF BeginMode, NoRename
  <1>6. ASSUME UNCHANGED <<chan, modeOn>> PROVE ModeOnLive'
    BY <1>6 DEF MapInv, ModeOnLive, Live
  <1>7. ASSUME NEW c \in Client, NEW m \in ChanName, NEW n \in Nick,
               HandleInvite(c, n, m)
        PROVE  MapInv'
    BY <1>7, <1>4, <1>6 DEF HandleInvite, NoMode, NoRename
  <1>8. ASSUME NEW c \in Client, NEW m \in ChanName,
               NEW topic \in Topic \cup {NoTopic}, HandleTopic(c, m, topic)
        PROVE  MapInv'
    BY <1>8, <1>4, <1>6 DEF HandleTopic, NoMode, NoRename
  <1>9. ASSUME NEW c \in Client, Query(c) PROVE MapInv'
    <2>1. Reads(c)
      BY <1>9 DEF Query, HandlePrivmsg, HandleWhoChannel, HandleWhoClient,
                  HandleWhois
    <2> QED BY <2>1, <1>4, <1>6 DEF Reads, NoMode, NoRename
  <1>10. CASE UNCHANGED vars
    BY <1>10, <1>4, <1>6 DEF vars, chVars
  <1>11. ASSUME NEW c \in Client, ChannelCommand(c) PROVE MapInv'
    BY <1>11, <1>1, <1>2, <1>5, <1>7, <1>8, CreateKeepsMaps, JoinKeepsMaps
    DEF ChannelCommand
  <1> QED
    BY <1>3, <1>9, <1>10, <1>11, RegistrationKeepsMaps, RenameKeepsMaps,
       ModeKeepsMaps, RestKeepsMaps
    DEF Next

-----------------------------------------------------------------------------
(* Pointers *)

\* While no nickname was given up on a channel, every pointer a live channel
\* or a connected client holds is to a live object.
LEMMA PointersAreLive ==
  ASSUME RegInv, ChTypeOK, MapInv, abandoned = {}
  PROVE  /\ \A o \in Live : Members(o) \subseteq conn
         /\ \A c \in Client : JoinedObjs(c) \subseteq Live
  <1>1. ASSUME NEW o \in Live PROVE Members(o) \subseteq conn
    <2>1. PICK m \in ChanName : chan[m] = o
      BY DEF Live
    <2>2. o # NoChan
      BY ChannelsAssumption DEF Live
    <2> QED BY <2>1, <2>2 DEF Members, Keys, MapInv, EntriesAreClients
  <1>2. ASSUME NEW c \in Client, NEW m \in ChanName, joined[c][m] # NoChan
        PROVE  joined[c][m] \in Live
    <2>1. c \in conn \ moved
      BY <1>2 DEF MapInv, HoldersAreRegistered, MovedIsHistory
    <2>2. chan[m] = joined[c][m] /\ chan[m] \in ChanObj
      BY <1>2, <2>1, HeldChannel
    <2> QED BY <2>2 DEF Live
  <1> QED BY <1>1, <1>2 DEF JoinedObjs

\* A nickname given up on a channel stays in the history.
LEMMA AbandonedGrows ==
  ASSUME [Next]_vars
  PROVE  abandoned \subseteq abandoned'
  <1>1. ASSUME NEW c \in Client, RegistrationCommand(c)
        PROVE  abandoned' = abandoned
    BY <1>1 DEF RegistrationCommand, chVars
  <1>2. ASSUME NEW c \in Client, NEW n \in Nick, ChangeNick(c, n)
        PROVE  abandoned \subseteq abandoned'
    BY <1>2 DEF ChangeNick, NoRename
  <1>3. ASSUME NEW c \in Client, ChannelCommand(c)
        PROVE  abandoned' = abandoned
    <2>1. PICK m \in ChanName :
            \/ \E o \in ChanObj, given \in Key \cup {NoKey} :
                 CreateChannel(c, m, o, given)
            \/ \E given \in Key \cup {NoKey} : JoinChannel(c, m, given)
            \/ HandlePart(c, m)
            \/ \E t \in Nick : HandleKick(c, m, t)
            \/ \E n \in Nick : HandleInvite(c, n, m)
            \/ \E topic \in Topic \cup {NoTopic} : HandleTopic(c, m, topic)
            \/ BeginMode(c, m)
      BY <1>3 DEF ChannelCommand
    <2>2. NoRename
      BY <2>1 DEF CreateChannel, JoinChannel, HandlePart, HandleKick,
                  HandleInvite, HandleTopic, BeginMode
    <2> QED BY <2>2 DEF NoRename
  <1>4. ASSUME NEW c \in Client, HandleQuit(c) \/ LoseConnection(c)
        PROVE  abandoned' = abandoned
    BY <1>4 DEF HandleQuit, LoseConnection, Drop
  <1>5. ASSUME NEW c \in Client, Query(c)
        PROVE  abandoned' = abandoned
    BY <1>5 DEF Query, HandlePrivmsg, HandleWhoChannel, HandleWhoClient,
                HandleWhois, Reads, NoRename
  <1>6. ASSUME ModeStep
        PROVE  abandoned' = abandoned
    BY <1>6 DEF ModeStep, SetFlag, SetKey, SetLimit, SetOp, SetVoice, SetBan,
                EndMode, Accepted, NoRename
  <1>7. ASSUME UNCHANGED vars
        PROVE  abandoned' = abandoned
    BY <1>7 DEF vars, chVars
  <1>8. ASSUME RestOfRead
        PROVE  abandoned \subseteq abandoned'
    BY <1>8 DEF RestOfRead, QuitLast, QuitThenCreate, QuitThenJoin, LateEntry
  <1> QED BY <1>1, <1>2, <1>3, <1>4, <1>5, <1>6, <1>7, <1>8 DEF Next

LEMMA DerefStep ==
  ASSUME RegInv, ChTypeOK, MapInv, NoDanglingDeref, [Next]_vars
  PROVE  NoDanglingDeref'
  <1> SUFFICES ASSUME abandoned' = {} PROVE ~dangled'
    BY DEF NoDanglingDeref
  <1>1. abandoned = {}
    BY AbandonedGrows
  <1>2. ~dangled
    BY <1>1 DEF NoDanglingDeref
  <1>3. \A o \in Live : Members(o) \subseteq conn
    BY <1>1, PointersAreLive
  <1>4. \A c \in Client : JoinedObjs(c) \subseteq Live
    BY <1>1, PointersAreLive
  <1>5. \A m \in ChanName : chan[m] # NoChan => chan[m] \in Live
    BY DEF Live, ChTypeOK
  <1>6. \A m \in ChanName : chan[m] # NoChan => Members(chan[m]) \subseteq conn
    BY <1>3, <1>5
  <1>7. ASSUME NEW c \in Client, ChannelCommand(c) PROVE dangled' = dangled
    <2>1. ASSUME NEW m \in ChanName, NEW given \in Key \cup {NoKey},
                 JoinChannel(c, m, given)
          PROVE  dangled' = dangled
      BY <2>1, <1>6 DEF JoinChannel, Touch
    <2>2. ASSUME NEW m \in ChanName, HandlePart(c, m) PROVE dangled' = dangled
      BY <2>2, <1>6 DEF HandlePart, Touch
    <2>3. ASSUME NEW m \in ChanName, NEW t \in Nick, HandleKick(c, m, t)
          PROVE  dangled' = dangled
      BY <2>3, <1>6 DEF HandleKick, Touch
    <2>4. ASSUME NEW m \in ChanName, NEW topic \in Topic \cup {NoTopic},
                 HandleTopic(c, m, topic)
          PROVE  dangled' = dangled
      BY <2>4, <1>6 DEF HandleTopic, Touch
    <2> QED
      BY <1>7, <2>1, <2>2, <2>3, <2>4
      DEF ChannelCommand, CreateChannel, HandleInvite, BeginMode
  <1>8. ASSUME NEW c \in Client, HandleQuit(c) PROVE dangled' = dangled
    <2>1. (UNION {Members(o) : o \in JoinedObjs(c) \cap Live}) \ {c} \subseteq conn
      BY <1>3
    <2> QED BY <1>8, <1>4, <2>1 DEF HandleQuit, Touch
  <1>9. ASSUME NEW c \in Client, LoseConnection(c) PROVE dangled' = dangled
    BY <1>9, <1>4 DEF LoseConnection, Touch
  <1>10. ASSUME NEW c \in Client, Query(c) PROVE dangled' = dangled
    <2>1. ASSUME NEW m \in ChanName, HandlePrivmsg(c, m) \/ HandleWhoChannel(c, m)
          PROVE  dangled' = dangled
      BY <2>1, <1>6 DEF HandlePrivmsg, HandleWhoChannel, Touch
    <2>2. ASSUME NEW m \in ChanName, NEW d \in Client, HandleWhoClient(c, d, m)
          PROVE  dangled' = dangled
      <3>1. joined[d][m] \in Live
        BY <2>2, <1>4 DEF HandleWhoClient, JoinedObjs
      <3> QED BY <2>2, <3>1 DEF HandleWhoClient, Touch
    <2>3. ASSUME NEW n \in Nick, HandleWhois(c, n) PROVE dangled' = dangled
      <3>1. GetClientByNickname(n) \in Client
        BY <2>3, LookupType DEF HandleWhois, RegInv, RegTypeOK
      <3> QED BY <2>3, <3>1, <1>4 DEF HandleWhois, Touch
    <2> QED BY <1>10, <2>1, <2>2, <2>3 DEF Query
  <1>11. ASSUME ModeStep PROVE dangled' = dangled
    <2>1. CASE EndMode
      <3>1. modeOn \in Live
        BY <2>1 DEF EndMode, MapInv, ModeOnLive
      <3> QED BY <2>1, <3>1, <1>3 DEF EndMode, Touch
    <2>2. CASE ~EndMode
      BY <1>11, <2>2 DEF ModeStep, SetFlag, SetKey, SetLimit, SetOp, SetVoice,
                         SetBan, Accepted
    <2> QED BY <2>1, <2>2
  <1>12. ASSUME NEW c \in Client,
                RegistrationCommand(c) \/ \E n \in Nick : ChangeNick(c, n)
         PROVE  dangled' = dangled
    BY <1>12 DEF RegistrationCommand, ChangeNick, chVars
  <1>13. ASSUME UNCHANGED vars PROVE dangled' = dangled
    BY <1>13 DEF vars, chVars
  <1>14. ASSUME RestOfRead PROVE dangled' = dangled
    <2>1. QuitLast
      BY <1>14 DEF RestOfRead, QuitThenCreate, QuitThenJoin, LateEntry
    <2> QED BY <2>1 DEF QuitLast, EndRead, ChTypeOK
  <1> QED
    BY <1>2, <1>7, <1>8, <1>9, <1>10, <1>11, <1>12, <1>13, <1>14 DEF Next

-----------------------------------------------------------------------------
(* The theorems *)

LEMMA ChInitInv == Init => ChInv
  <1> SUFFICES ASSUME Init PROVE ChInv
    OBVIOUS
  <1>1. RegInv
    BY RegInitInv DEF Init
  <1>2. ChTypeOK
    BY FreshHasType DEF Init, ChTypeOK, Quitter, Nobody
  <1>3. MapInv
    BY DEF Init, RegInit, MapInv, OneNamePerObject, FreedIsEmpty,
           HoldersAreRegistered, MovedIsHistory, ModeOnLive, RolesHeldByMembers,
           Keys, EntriesAreClients, ClientsAreEntries
  <1>4. NoDanglingDeref
    BY DEF Init, NoDanglingDeref
  <1> QED BY <1>1, <1>2, <1>3, <1>4 DEF ChInv

LEMMA ChNextInv == ChInv /\ [Next]_vars => ChInv'
  <1> SUFFICES ASSUME ChInv, [Next]_vars PROVE ChInv'
    OBVIOUS
  <1> USE DEF ChInv
  <1>1. RegInv'
    BY StepIsRegStep, RegNextInv
  <1>2. ChTypeOK'
    BY TypeStep DEF MapInv
  <1>3. MapInv'
    BY MapStep
  <1>4. NoDanglingDeref'
    BY DerefStep
  <1> QED BY <1>1, <1>2, <1>3, <1>4

\* Every reachable state satisfies the inductive invariant.
THEOREM ChInvariance == Spec => []ChInv
  BY ChInitInv, ChNextInv, PTL DEF Spec

\* The channel structures keep their types.
THEOREM ChTypeCorrect == Spec => []ChTypeOK
  BY ChInvariance, PTL DEF ChInv

\* Roles are held by member entries, whatever renames, kicks and reuse do.
THEOREM RolesAreMembers == Spec => []RolesHeldByMembers
  BY ChInvariance, PTL DEF ChInv, MapInv

\* The nickname-keyed map and the clients' own maps agree on every nickname
\* that was not given up on a channel.
THEOREM MapsAlwaysAgree == Spec => []MapsAgree
  BY ChInvariance, PTL DEF ChInv, MapInv, MapsAgree

\* Until a client renames itself on a channel, or joins one behind its own QUIT,
\* no handler goes through an entry of either map to a deleted Client or
\* Channel: of what is freed, only the client that has just quit is used, by
\* the loop that handled its QUIT.
THEOREM MapsLeadToLiveObjects == Spec => []NoDanglingDeref
  BY ChInvariance, PTL DEF ChInv

=============================================================================
