----------------------- MODULE Channels_steps_proofs ------------------------
(* The action properties of Channels, from its inductive invariant and one *)
(* lemma that says how the entries of an existing channel may change.      *)
EXTENDS Channels_proofs, FiniteSetTheorems

\* What a step may do to the entries of a channel that exists before and after
\* it: one client enters by JOIN, before or behind its QUIT, one leaves by PART or
\* KICK, one connection ends, or nothing changes.
LEMMA EntriesChange ==
  ASSUME ChInv, [Next]_vars, NEW m \in ChanName,
         chan[m] # NoChan, chan'[m] = chan[m]
  PROVE  \/ \E c \in Client, given \in Key \cup {NoKey} : JoinChannel(c, m, given)
         \/ \E given \in Key \cup {NoKey} : QuitThenJoin(m, given)
         \/ \E d \in conn : Leave(d, m) /\ nick[d] \in Keys(chan[m])
         \/ \E c \in Client : Drop(c)
         \/ members'[chan[m]] = members[chan[m]]
  <1> DEFINE o == chan[m]
  <1> USE DEF ChInv
  <1>1. o \in ChanObj /\ o \in Live
    BY DEF ChTypeOK, Live
  <1>2. \A mm \in ChanName : chan[mm] = o => mm = m
    BY DEF MapInv, OneNamePerObject
  <1>3. ASSUME NEW c \in Client, NEW mm \in ChanName, NEW x \in ChanObj,
               NEW given \in Key \cup {NoKey}, CreateChannel(c, mm, x, given)
        PROVE  members'[o] = members[o]
    BY <1>1, <1>3 DEF CreateChannel, ChTypeOK
  <1>4. ASSUME NEW c \in Client, NEW mm \in ChanName,
               NEW given \in Key \cup {NoKey}, JoinChannel(c, mm, given), mm # m
        PROVE  members'[o] = members[o]
    <2>1. chan[mm] # o
      BY <1>2, <1>4
    <2> QED BY <1>1, <1>4, <2>1 DEF JoinChannel, ChTypeOK
  <1>5. ASSUME NEW d \in conn, NEW mm \in ChanName, Leave(d, mm), mm # m
        PROVE  members'[o] = members[o]
    <2>1. chan[mm] # o
      BY <1>2, <1>5
    <2> QED BY <1>1, <1>5, <2>1 DEF Leave, ChTypeOK
  <1>6. ASSUME NEW c \in Client, NEW mm \in ChanName, HandlePart(c, mm)
        PROVE  Leave(c, mm) /\ c \in conn /\ nick[c] \in Keys(chan[mm])
    BY <1>6 DEF HandlePart, Sends, IsClient
  <1>7. ASSUME NEW c \in Client, NEW mm \in ChanName, NEW t \in Nick,
               HandleKick(c, mm, t)
        PROVE  \E d \in conn : Leave(d, mm) /\ nick[d] \in Keys(chan[mm])
    <2> DEFINE d == GetClientByNickname(t)
    <2>1. d \in conn /\ nick[d] = t
      BY <1>7, LookupByNickname DEF HandleKick, RegInv
    <2>2. Leave(d, mm) /\ t \in Keys(chan[mm])
      BY <1>7 DEF HandleKick
    <2> QED BY <2>1, <2>2
  <1>8. ASSUME NEW c \in Client, NEW mm \in ChanName,
               \/ \E n \in Nick : HandleInvite(c, n, mm)
               \/ \E topic \in Topic \cup {NoTopic} : HandleTopic(c, mm, topic)
               \/ BeginMode(c, mm)
        PROVE  members' = members
    BY <1>8 DEF HandleInvite, HandleTopic, BeginMode
  <1>9. ASSUME NEW c \in Client,
               \/ RegistrationCommand(c)
               \/ \E n \in Nick : ChangeNick(c, n)
               \/ Query(c)
        PROVE  members' = members
    BY <1>9 DEF RegistrationCommand, ChangeNick, chVars, Query, HandlePrivmsg,
                HandleWhoChannel, HandleWhoClient, HandleWhois, Reads
  <1>10. CASE ModeStep \/ UNCHANGED vars
    BY <1>10 DEF ModeStep, SetFlag, SetKey, SetLimit, SetOp, SetVoice, SetBan,
                 EndMode, Accepted, vars, chVars
  <1>11. ASSUME NEW c \in Client, HandleQuit(c) \/ LoseConnection(c)
         PROVE  Drop(c)
    BY <1>11 DEF HandleQuit, LoseConnection
  <1>12. ASSUME NEW c \in Client, ChannelCommand(c)
         PROVE  \/ \E given \in Key \cup {NoKey} : JoinChannel(c, m, given)
                \/ \E d \in conn : Leave(d, m) /\ nick[d] \in Keys(chan[m])
                \/ members'[o] = members[o]
    <2>1. PICK mm \in ChanName :
            \/ \E x \in ChanObj, given \in Key \cup {NoKey} :
                 CreateChannel(c, mm, x, given)
            \/ \E given \in Key \cup {NoKey} : JoinChannel(c, mm, given)
            \/ \E d \in conn : Leave(d, mm) /\ nick[d] \in Keys(chan[mm])
            \/ members' = members
      BY <1>12, <1>6, <1>7, <1>8 DEF ChannelCommand
    <2> QED BY <2>1, <1>3, <1>4, <1>5
  <1>13. CASE RestOfRead
    <2>1. ASSUME NEW mm \in ChanName, NEW x \in ChanObj,
                 NEW given \in Key \cup {NoKey}, QuitThenCreate(mm, x, given)
          PROVE  members'[o] = members[o]
      BY <1>1, <2>1 DEF QuitThenCreate, LateEntry, ChTypeOK
    <2>2. ASSUME NEW mm \in ChanName, NEW given \in Key \cup {NoKey},
                 QuitThenJoin(mm, given), mm # m
          PROVE  members'[o] = members[o]
      <3>1. chan[mm] # o
        BY <1>2, <2>2
      <3> QED BY <1>1, <2>2, <3>1 DEF QuitThenJoin, LateEntry, ChTypeOK
    <2>3. QuitLast => members' = members
      BY DEF QuitLast
    <2> QED BY <1>13, <2>1, <2>2, <2>3 DEF RestOfRead
  <1> QED
    BY <1>9, <1>10, <1>11, <1>12, <1>13 DEF Next

-----------------------------------------------------------------------------

\* PART and KICK delete the channel they would leave without members.
LEMMA EmptiedStep ==
  ASSUME ChInv, [Next]_vars, NEW m \in ChanName,
         chan[m] # NoChan, chan'[m] = chan[m],
         Keys(chan[m]) # {}, Keys(chan[m])' = {}
  PROVE  conn' # conn
  <1> DEFINE o == chan[m]
  <1>1. o \in ChanObj /\ members \in [ChanObj -> [Nick -> Client \cup {NoClient}]]
    BY DEF ChInv, ChTypeOK
  <1>2. \A k \in Nick : members'[o][k] = NoClient
    BY DEF Keys
  <1>3. ~(members'[o] = members[o])
    BY <1>2 DEF Keys
  <1>4. ASSUME NEW c \in Client, NEW given, JoinChannel(c, m, given) PROVE FALSE
    <2>1. c # NoClient /\ nick[c] \in Nick /\ members' = [members EXCEPT ![o][nick[c]] = c]
      BY <1>4, RegisteredHaveNicks, RegistrationAssumption
      DEF JoinChannel, Sends, ChInv
    <2> QED BY <1>1, <1>2, <2>1
  <1>5. ASSUME NEW d \in conn, Leave(d, m) PROVE FALSE
    <2>1. chan' # [chan EXCEPT ![m] = NoChan]
      BY DEF ChInv, ChTypeOK
    <2>2. PICK k \in Keys(o) : k # nick[d]
      BY <1>5, <2>1 DEF Leave
    <2>3. members' = [members EXCEPT ![o][nick[d]] = NoClient]
      BY <1>5 DEF Leave
    <2>4. members'[o][k] = members[o][k] /\ k \in Nick /\ members[o][k] # NoClient
      BY <1>1, <2>2, <2>3 DEF Keys
    <2> QED BY <1>2, <2>4
  <1>6. ASSUME NEW c \in Client, Drop(c) PROVE conn' # conn
    BY <1>6 DEF Drop, RemoveClient
  <1>7. ASSUME NEW given, QuitThenJoin(m, given) PROVE FALSE
    <2> DEFINE k == gone.nick
               c == gone.client
    <2>1. LateEntry(o) /\ gone.client # NoClient
      BY <1>7 DEF QuitThenJoin, EndRead
    <2>2. k \in Nick /\ c # NoClient /\ members' = [members EXCEPT ![o][k] = c]
      BY <1>1, <2>1, LateEntryIs DEF ChInv
    <2> HIDE DEF k, c
    <2> QED BY <1>1, <1>2, <2>2
  <1> QED BY <1>3, <1>4, <1>5, <1>6, <1>7, EntriesChange

\* An existing channel is emptied by the end of a connection only.
THEOREM OnlyDropEmpties == Spec => EmptiedOnlyByDrop
  <1>1. ChInv /\ [Next]_vars =>
          [\A m \in ChanName :
             LET o == chan[m] IN
             /\ o # NoChan /\ chan'[m] = o
             /\ Keys(o) # {} /\ Keys(o)' = {}
             => conn' # conn]_vars
    BY EmptiedStep
  <1> QED BY <1>1, ChInvariance, PTL DEF Spec, EmptiedOnlyByDrop

-----------------------------------------------------------------------------

\* The operators of an existing channel change by a departure, or in the MODE
\* loop that somebody entered for it, and otherwise not at all.
LEMMA OperatorsChange ==
  ASSUME ChInv, [Next]_vars, NEW m \in ChanName,
         chan[m] # NoChan, modeOn # chan[m]
  PROVE  ops'[chan[m]] \subseteq ops[chan[m]]
  <1> DEFINE o == chan[m]
  <1> USE DEF ChInv
  <1>1. o \in ChanObj /\ o \in Live
    BY DEF ChTypeOK, Live
  <1>2. ASSUME NEW c \in Client, NEW mm \in ChanName, NEW x \in ChanObj,
               NEW given \in Key \cup {NoKey}, CreateChannel(c, mm, x, given)
        PROVE  ops'[o] = ops[o]
    BY <1>1, <1>2 DEF CreateChannel, ChTypeOK
  <1>3. ASSUME NEW d, NEW mm \in ChanName, Leave(d, mm)
        PROVE  ops'[o] \subseteq ops[o]
    BY <1>1, <1>3 DEF Leave, ChTypeOK
  <1>4. ASSUME NEW c \in Client, Drop(c) PROVE ops'[o] \subseteq ops[o]
    BY <1>1, <1>4 DEF Drop
  <1>5. ASSUME NEW c \in Client, ChannelCommand(c)
        PROVE  ops'[o] \subseteq ops[o]
    <2>1. ASSUME NEW mm \in ChanName,
                 \/ HandlePart(c, mm)
                 \/ \E t \in Nick : HandleKick(c, mm, t)
          PROVE  \E d : Leave(d, mm)
      BY <2>1 DEF HandlePart, HandleKick
    <2>2. ASSUME NEW mm \in ChanName,
                 \/ \E given \in Key \cup {NoKey} : JoinChannel(c, mm, given)
                 \/ \E n \in Nick : HandleInvite(c, n, mm)
                 \/ \E topic \in Topic \cup {NoTopic} : HandleTopic(c, mm, topic)
                 \/ BeginMode(c, mm)
          PROVE  ops' = ops
      BY <2>2 DEF JoinChannel, HandleInvite, HandleTopic, BeginMode
    <2> QED BY <1>2, <1>3, <1>5, <2>1, <2>2 DEF ChannelCommand
  <1>6. CASE ModeStep
    <2>1. ASSUME NEW n \in Nick, NEW adding \in BOOLEAN, SetOp(n, adding)
          PROVE  ops'[o] = ops[o]
      BY <1>1, <2>1 DEF SetOp, ChTypeOK
    <2> QED
      BY <1>6, <2>1 DEF ModeStep, SetFlag, SetKey, SetLimit, SetVoice, SetBan,
                        EndMode
  <1>7. ASSUME NEW c \in Client,
               \/ RegistrationCommand(c)
               \/ \E n \in Nick : ChangeNick(c, n)
               \/ Query(c)
        PROVE  ops' = ops
    BY <1>7 DEF RegistrationCommand, ChangeNick, chVars, Query, HandlePrivmsg,
                HandleWhoChannel, HandleWhoClient, HandleWhois, Reads
  <1>8. CASE UNCHANGED vars
    BY <1>8 DEF vars, chVars
  <1>9. ASSUME NEW c \in Client, HandleQuit(c) \/ LoseConnection(c)
        PROVE  Drop(c)
    BY <1>9 DEF HandleQuit, LoseConnection
  <1>10. CASE RestOfRead
    <2>1. ASSUME NEW mm \in ChanName, NEW x \in ChanObj,
                 NEW given \in Key \cup {NoKey}, QuitThenCreate(mm, x, given)
          PROVE  ops'[o] = ops[o]
      BY <1>1, <2>1 DEF QuitThenCreate, ChTypeOK
    <2> QED BY <1>10, <2>1 DEF RestOfRead, QuitLast, QuitThenJoin
  <1> QED BY <1>4, <1>5, <1>6, <1>7, <1>8, <1>9, <1>10 DEF Next

\* Only an operator of the channel, or an IRC operator, gets into its MODE loop.
LEMMA LoopNeedsOperator ==
  ASSUME ChInv, [Next]_vars, NEW m \in ChanName,
         chan[m] # NoChan, modeOn # chan[m],
         ops[chan[m]] = {}, \A c \in conn : ~oper[c]
  PROVE  modeOn' # chan[m]
  <1> DEFINE o == chan[m]
  <1> SUFFICES ASSUME modeOn' # modeOn PROVE modeOn' # o
    OBVIOUS
  <1>1. ASSUME NEW c \in Client, NEW mm \in ChanName, BeginMode(c, mm)
        PROVE  modeOn' # o
    BY <1>1 DEF BeginMode, Sends, IsOperator
  <1>2. CASE EndMode
    BY <1>2 DEF EndMode
  <1>3. ASSUME NEW c \in Client, ChannelCommand(c)
        PROVE  \E mm \in ChanName : BeginMode(c, mm)
    BY <1>3 DEF ChannelCommand, CreateChannel, JoinChannel, HandlePart,
                HandleKick, HandleInvite, HandleTopic, NoMode
  <1>4. ASSUME NEW c \in Client,
               \/ RegistrationCommand(c)
               \/ \E n \in Nick : ChangeNick(c, n)
               \/ HandleQuit(c) \/ LoseConnection(c)
               \/ Query(c)
        PROVE  FALSE
    BY <1>4 DEF RegistrationCommand, ChangeNick, chVars, HandleQuit,
                LoseConnection, Drop, Query, HandlePrivmsg, HandleWhoChannel,
                HandleWhoClient, HandleWhois, Reads, NoMode
  <1>5. CASE ModeStep
    BY <1>2, <1>5 DEF ModeStep, SetFlag, SetKey, SetLimit, SetOp, SetVoice,
                      SetBan, Accepted
  <1>6. CASE UNCHANGED vars
    BY <1>6 DEF vars, chVars
  <1>7. CASE RestOfRead
    BY <1>7 DEF RestOfRead, QuitLast, QuitThenCreate, QuitThenJoin, EndRead
  <1> QED BY <1>1, <1>3, <1>4, <1>5, <1>6, <1>7 DEF Next

\* A channel without operators gets none unless an IRC operator is there.
THEOREM OperatorsComeFromOperators == Spec => RoleNeedsOperator
  <1>1. ChInv /\ [Next]_vars =>
          [\A m \in ChanName :
             LET o == chan[m] IN
             o # NoChan /\ chan'[m] = o /\ modeOn # o /\ ops[o] = {}
               /\ (\A c \in conn : ~oper[c]) =>
                 ops'[o] = {} /\ modeOn' # o]_vars
    BY OperatorsChange, LoopNeedsOperator
  <1> QED BY <1>1, ChInvariance, PTL DEF Spec, RoleNeedsOperator

-----------------------------------------------------------------------------

\* Entries are added one at a time, so that a channel always has finitely many
\* however large Nick is, and comparing their number with a limit means
\* something.
FinitelyMany == \A o \in ChanObj : IsFiniteSet(Keys(o))

LEMMA KeysAfterEntry ==
  ASSUME ChTypeOK, NEW o \in ChanObj, NEW k \in Nick, NEW c,
         members' = [members EXCEPT ![o][k] = c]
  PROVE  /\ Keys(o)' = IF c # NoClient THEN Keys(o) \cup {k} ELSE Keys(o) \ {k}
         /\ \A x \in ChanObj \ {o} : Keys(x)' = Keys(x)
  BY DEF Keys, ChTypeOK

LEMMA FinitelyManyStep ==
  ASSUME ChInv, FinitelyMany, [Next]_vars
  PROVE  FinitelyMany'
  <1> USE DEF ChInv
  <1>1. ASSUME NEW o \in ChanObj, NEW k \in Nick, NEW c,
               members' = [members EXCEPT ![o][k] = c]
        PROVE  FinitelyMany'
    <2>1. IsFiniteSet(Keys(o) \cup {k}) /\ IsFiniteSet(Keys(o) \ {k})
      BY FS_AddElement, FS_RemoveElement DEF FinitelyMany
    <2>2. IsFiniteSet(Keys(o)')
      BY <1>1, <2>1, KeysAfterEntry
    <2>3. \A x \in ChanObj \ {o} : Keys(x)' = Keys(x)
      BY <1>1, KeysAfterEntry
    <2> QED BY <2>2, <2>3 DEF FinitelyMany
  <1>2. ASSUME members' = members PROVE FinitelyMany'
    BY <1>2 DEF FinitelyMany, Keys
  <1>3. ASSUME NEW c \in Client, ChannelCommand(c) PROVE FinitelyMany'
    <2>1. ASSUME NEW m \in ChanName, NEW o \in ChanObj,
                 NEW given \in Key \cup {NoKey}, CreateChannel(c, m, o, given)
          PROVE  FinitelyMany'
      <3>1. nick[c] \in Nick
        BY <2>1, RegisteredHaveNicks DEF CreateChannel, Sends
      <3>2. members' = [members EXCEPT ![o][nick[c]] = c]
        BY <2>1 DEF CreateChannel
      <3> QED BY <3>1, <3>2, <1>1
    <2>2. ASSUME NEW m \in ChanName, NEW given \in Key \cup {NoKey},
                 JoinChannel(c, m, given)
          PROVE  FinitelyMany'
      <3>1. nick[c] \in Nick /\ chan[m] \in ChanObj
        BY <2>2, RegisteredHaveNicks DEF JoinChannel, Sends, ChTypeOK
      <3>2. members' = [members EXCEPT ![chan[m]][nick[c]] = c]
        BY <2>2 DEF JoinChannel
      <3> QED BY <3>1, <3>2, <1>1
    <2>3. ASSUME NEW d, NEW m \in ChanName, Leave(d, m), chan[m] # NoChan,
                 nick[d] \in Nick
          PROVE  FinitelyMany'
      <3>1. chan[m] \in ChanObj
        BY <2>3 DEF ChTypeOK
      <3>2. members' = [members EXCEPT ![chan[m]][nick[d]] = NoClient]
        BY <2>3 DEF Leave
      <3> QED BY <2>3, <3>1, <3>2, <1>1
    <2>4. ASSUME NEW m \in ChanName, HandlePart(c, m) PROVE FinitelyMany'
      BY <2>3, <2>4 DEF HandlePart, IsClient, Keys
    <2>5. ASSUME NEW m \in ChanName, NEW t \in Nick, HandleKick(c, m, t)
          PROVE  FinitelyMany'
      <3> DEFINE d == GetClientByNickname(t)
      <3>1. nick[d] = t /\ Leave(d, m) /\ chan[m] # NoChan
        BY <2>5, LookupByNickname DEF HandleKick, RegInv
      <3> HIDE DEF d
      <3> QED BY <2>3, <3>1
    <2>6. ASSUME NEW m \in ChanName,
                 \/ \E n \in Nick : HandleInvite(c, n, m)
                 \/ \E topic \in Topic \cup {NoTopic} : HandleTopic(c, m, topic)
                 \/ BeginMode(c, m)
          PROVE  FinitelyMany'
      BY <1>2, <2>6 DEF HandleInvite, HandleTopic, BeginMode
    <2> QED BY <1>3, <2>1, <2>2, <2>4, <2>5, <2>6 DEF ChannelCommand
  <1>4. ASSUME NEW c \in Client, HandleQuit(c) \/ LoseConnection(c)
        PROVE  FinitelyMany'
    <2>1. Drop(c)
      BY <1>4 DEF HandleQuit, LoseConnection
    <2>2. ASSUME NEW o \in ChanObj PROVE IsFiniteSet(Keys(o)')
      <3>1. \A k \in Nick : members'[o][k] \in {NoClient, members[o][k]}
        BY <2>1 DEF Drop, ChTypeOK
      <3>2. Keys(o)' \subseteq Keys(o)
        BY <3>1 DEF Keys
      <3> QED BY <3>2, FS_Subset DEF FinitelyMany
    <2> QED BY <2>2 DEF FinitelyMany
  <1>5. ASSUME NEW c \in Client,
               \/ RegistrationCommand(c)
               \/ \E n \in Nick : ChangeNick(c, n)
               \/ Query(c)
        PROVE  FinitelyMany'
    BY <1>2, <1>5 DEF RegistrationCommand, ChangeNick, chVars, Query,
                      HandlePrivmsg, HandleWhoChannel, HandleWhoClient,
                      HandleWhois, Reads
  <1>6. CASE ModeStep \/ UNCHANGED vars
    BY <1>2, <1>6 DEF ModeStep, SetFlag, SetKey, SetLimit, SetOp, SetVoice,
                      SetBan, EndMode, Accepted, vars, chVars
  <1>7. CASE RestOfRead
    <2>1. ASSUME NEW o \in ChanObj, LateEntry(o), gone.client # NoClient
          PROVE  FinitelyMany'
      <3> DEFINE k == gone.nick
                 c == gone.client
      <3>1. k \in Nick /\ members' = [members EXCEPT ![o][k] = c]
        BY <2>1, LateEntryIs
      <3> HIDE DEF k, c
      <3> QED BY <3>1, <1>1
    <2>2. ASSUME NEW m \in ChanName, NEW given, QuitThenJoin(m, given)
          PROVE  FinitelyMany'
      BY <2>1, <2>2 DEF QuitThenJoin, EndRead, ChTypeOK
    <2> QED
      BY <1>2, <1>7, <2>1, <2>2 DEF RestOfRead, QuitLast, QuitThenCreate, EndRead
  <1> QED BY <1>3, <1>4, <1>5, <1>6, <1>7 DEF Next

\* A channel's entries are finitely many in every reachable state.
THEOREM EntriesAreFinite == Spec => []FinitelyMany
  <1>1. Init => FinitelyMany
    <2>1. ASSUME Init, NEW o \in ChanObj PROVE IsFiniteSet(Keys(o))
      <3>1. Keys(o) = {}
        BY <2>1 DEF Init, Keys
      <3> QED BY <3>1, FS_EmptySet
    <2> QED BY <2>1 DEF FinitelyMany
  <1> QED BY <1>1, FinitelyManyStep, ChInvariance, PTL DEF Spec

\* A new entry is that of a client that passed every test of JOIN, and there
\* was room for it.
LEMMA AdmissionStep ==
  ASSUME ChInv, FinitelyMany, [Next]_vars, NEW m \in ChanName, NEW k \in Nick,
         chan[m] # NoChan, chan'[m] = chan[m],
         k \in Keys(chan[m])' \ Keys(chan[m])
  PROVE  LET o == chan[m] IN
         /\ access[o].limit # 0 => Cardinality(Keys(o)') <= access[o].limit
         /\ "i" \in access[o].flags => k \in access[o].invited
         /\ \E u \in Ident :
              /\ \/ \E c \in conn : registered[c] /\ <<k, u>> = <<nick[c], user[c]>>
                 \/ <<k, u>> = <<gone.nick, gone.user>>
              /\ {k, <<k, u>>} \cap access[o].banned = {}
  <1> DEFINE o == chan[m]
             Entrant(kk, u) ==
               \/ \E c \in conn : registered[c] /\ <<kk, u>> = <<nick[c], user[c]>>
               \/ <<kk, u>> = <<gone.nick, gone.user>>
  <1> USE DEF ChInv
  <1>1. o \in ChanObj /\ members'[o][k] # NoClient /\ members[o][k] = NoClient
    BY DEF Keys, ChTypeOK
  <1>2. ASSUME NEW d \in conn, Leave(d, m) PROVE FALSE
    BY <1>1, <1>2 DEF Leave, ChTypeOK
  <1>3. ASSUME NEW c \in Client, Drop(c) PROVE FALSE
    BY <1>1, <1>3 DEF Drop, ChTypeOK
  <1>4. ASSUME NEW c \in Client, NEW given \in Key \cup {NoKey},
               JoinChannel(c, m, given)
        PROVE  \E kk \in Nick, u \in Ident, e \in Client :
                 /\ Entrant(kk, u) /\ Admits(o, kk, u, given)
                 /\ members' = [members EXCEPT ![o][kk] = e]
    <2>1. /\ c \in conn /\ registered[c] /\ Admits(o, nick[c], user[c], given)
          /\ members' = [members EXCEPT ![o][nick[c]] = c]
      BY <1>4 DEF JoinChannel, Sends
    <2>2. nick[c] \in Nick /\ user[c] \in Ident
      BY <2>1, RegisteredHaveNicks
      DEF RegInv, RegTypeOK, RegisteredIffComplete, Complete
    <2> QED BY <2>1, <2>2
  <1>5. ASSUME NEW given \in Key \cup {NoKey}, QuitThenJoin(m, given)
        PROVE  \E kk \in Nick, u \in Ident, e \in Client :
                 /\ Entrant(kk, u) /\ Admits(o, kk, u, given)
                 /\ members' = [members EXCEPT ![o][kk] = e]
    <2>1. LateEntry(o) /\ gone.client # NoClient /\ Admits(o, gone.nick, gone.user, given)
      BY <1>5 DEF QuitThenJoin, EndRead
    <2>2. /\ gone.nick \in Nick /\ gone.client \in Client
          /\ members' = [members EXCEPT ![o][gone.nick] = gone.client]
      BY <1>1, <2>1, LateEntryIs
    <2>3. gone.user \in Ident
      BY <2>2, RegistrationAssumption DEF ChTypeOK, Quitter
    <2> QED BY <2>1, <2>2, <2>3
  <1>6. PICK given \in Key \cup {NoKey}, kk \in Nick, u \in Ident, e \in Client :
          /\ Entrant(kk, u) /\ Admits(o, kk, u, given)
          /\ members' = [members EXCEPT ![o][kk] = e]
    <2>1. members'[o] # members[o]
      BY <1>1
    <2>2. \/ \E c \in Client, given \in Key \cup {NoKey} : JoinChannel(c, m, given)
          \/ \E given \in Key \cup {NoKey} : QuitThenJoin(m, given)
          \/ \E d \in conn : Leave(d, m)
          \/ \E c \in Client : Drop(c)
      BY <2>1, EntriesChange
    <2>3. CASE \E c \in Client, given \in Key \cup {NoKey} :
                 JoinChannel(c, m, given)
      BY <1>4, <2>3
    <2>4. CASE \E given \in Key \cup {NoKey} : QuitThenJoin(m, given)
      BY <1>5, <2>4
    <2> QED BY <1>2, <1>3, <2>2, <2>3, <2>4
  <1>7. e # NoClient /\ Keys(o)' = Keys(o) \cup {kk}
    BY <1>1, <1>6, KeysAfterEntry, RegistrationAssumption
  <1>8. kk = k
    BY <1>7
  <1>9. /\ "i" \in access[o].flags => k \in access[o].invited
        /\ Entrant(k, u) /\ {k, <<k, u>>} \cap access[o].banned = {}
    BY <1>6, <1>8 DEF Admits, IsBanned
  <1>10. access[o].limit # 0 => Cardinality(Keys(o)') <= access[o].limit
    <2>1. access[o].limit \in Nat
      <3>1. access[o] \in Access
        BY <1>1 DEF ChTypeOK
      <3>2. access[o].limit \in Limit \cup {0}
        BY <3>1 DEF Access
      <3>3. Limit \cup {0} \subseteq Nat
        BY ChannelsAssumption
      <3> QED BY <3>2, <3>3
    <2>2. IsFiniteSet(Keys(o)) /\ Cardinality(Keys(o)) \in Nat
      BY <1>1, FS_CardinalityType DEF FinitelyMany
    <2>3. Cardinality(Keys(o)') = Cardinality(Keys(o)) + 1
      BY <1>7, <1>8, <2>2, FS_AddElement
    <2>4. access[o].limit > 0 => ~(Cardinality(Keys(o)) >= access[o].limit)
      BY <1>6 DEF Admits, Full
    <2> QED BY <2>1, <2>2, <2>3, <2>4
  <1> QED BY <1>9, <1>10

\* Bans, invitations, limits and registration are asked of every new entry.
THEOREM EntryIsAdmission == Spec => AdmittedOnly
  <1>1. ChInv /\ FinitelyMany /\ [Next]_vars =>
          [\A m \in ChanName, k \in Nick :
             LET o == chan[m] IN
             o # NoChan /\ chan'[m] = o /\ k \in Keys(o)' \ Keys(o) =>
               /\ access[o].limit # 0 => Cardinality(Keys(o)') <= access[o].limit
               /\ "i" \in access[o].flags => k \in access[o].invited
               /\ \E u \in Ident :
                    /\ \/ \E c \in conn :
                            registered[c] /\ <<k, u>> = <<nick[c], user[c]>>
                       \/ <<k, u>> = <<gone.nick, gone.user>>
                    /\ {k, <<k, u>>} \cap access[o].banned = {}]_vars
    BY AdmissionStep
  <1> QED BY <1>1, ChInvariance, EntriesAreFinite, PTL DEF Spec, AdmittedOnly
=============================================================================
