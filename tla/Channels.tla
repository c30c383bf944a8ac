------------------------------ MODULE Channels ------------------------------
(***************************************************************************)
(* Channels and their members: JOIN, PART, KICK, INVITE, TOPIC, MODE, QUIT *)
(* and the loss of a connection, on top of the client life of              *)
(* Registration.                                                           *)
(*                                                                         *)
(* Membership is kept twice.  Channel::_clients maps a NICKNAME to a       *)
(* Client*, Client::_channels maps a channel name to a Channel*, and NICK  *)
(* changes neither map.  Addresses are reused after delete, so a member of *)
(* ChanObj or Client may be live again as another object.                  *)
(*                                                                         *)
(* A dereference through one of these maps of an object that was freed is  *)
(* undefined behaviour: the process aborts, or it reads the dead memory    *)
(* and goes on as if that object were not there.  The loop that hands out  *)
(* the lines of one read keeps a third pointer, to the client they came    *)
(* from, and goes on with it when QUIT has deleted that client.            *)
(*                                                                         *)
(* Channel names are taken after toLower, so the clients of the model      *)
(* spell a name in one way; all clients connect from one host.             *)
(***************************************************************************)
EXTENDS Registration, Naturals, FiniteSets

CONSTANTS
  ChanName,   \* channel names isValidChannelName accepts
  ChanObj,    \* addresses of Channel objects
  Key,        \* channel passwords
  Limit,      \* arguments of MODE +l
  Topic,
  Letter,     \* the mode letters clients use (a bound)
  NoChan, NoKey, NoTopic

FlagLetter == {"i", "t", "n", "m"}

ASSUME ChannelsAssumption ==
  /\ NoChan \notin ChanObj
  /\ NoKey \notin Key
  /\ NoTopic \notin Topic
  /\ Limit \subseteq 1..1000
  /\ Letter \subseteq FlagLetter \cup {"k", "l", "o", "v", "b"}

VARIABLES
  chan,        \* Server::_channels
  members,     \* Channel::_clients, NoClient where there is no entry
  ops,         \* Channel::_operators
  voiced,      \* Channel::_voiced
  access,      \* the other fields of a Channel: who may enter, and its topic
  joined,      \* Client::_channels, NoChan where there is no entry
  modeOn,      \* the channel whose MODE command is in its loop, or NoChan
  modeChanged, \* whether modeChanges is not empty in that loop
  gone,        \* the client whose QUIT is handled, until its read is done with
  dangled,     \* whether a freed object was used through one of the maps
  running,     \* FALSE from when the use of a freed object aborts the process
  abandoned,   \* history: nicknames given up while on a channel, or entered
               \* with by a client that had quit
  moved        \* history: connected clients that gave one up

chVars == <<chan, members, ops, voiced, access, joined, modeOn, modeChanged,
            gone, dangled, running, abandoned, moved>>
vars == <<regVars, chVars>>

\* A ban mask is a nickname or a full nick!user@host prefix.
Mask == Nick \cup (Nick \X Ident)

Access == [flags : SUBSET FlagLetter, key : Key \cup {NoKey},
           limit : Limit \cup {0}, topic : Topic \cup {NoTopic},
           invited : SUBSET Nick, banned : SUBSET Mask]

\* What the dead memory of a client that quit still reads as.  One that was
\* not registered has no name here: its further lines are refused.
Quitter ==
  [client : Client, nick : Nick, user : Ident]
    \cup [client : Client \cup {NoClient}, nick : {NoNick}, user : {NoIdent}]
Nobody == [client |-> NoClient, nick |-> NoNick, user |-> NoIdent]

ChTypeOK ==
  /\ chan \in [ChanName -> ChanObj \cup {NoChan}]
  /\ members \in [ChanObj -> [Nick -> Client \cup {NoClient}]]
  /\ ops \in [ChanObj -> SUBSET Nick]
  /\ voiced \in [ChanObj -> SUBSET Nick]
  /\ access \in [ChanObj -> Access]
  /\ joined \in [Client -> [ChanName -> ChanObj \cup {NoChan}]]
  /\ modeOn \in ChanObj \cup {NoChan}
  /\ modeChanged \in BOOLEAN
  /\ gone \in Quitter
  /\ dangled \in BOOLEAN
  /\ running \in BOOLEAN
  /\ abandoned \subseteq Nick
  /\ moved \subseteq Client

\* A Channel as its constructor leaves it before the creator is added.  The
\* model gives the fields of an address these values when it is freed.
FreshAccess == [flags |-> {"n"}, key |-> NoKey, limit |-> 0, topic |-> NoTopic,
                invited |-> {}, banned |-> {}]

Init ==
  /\ RegInit
  /\ chan = [m \in ChanName |-> NoChan]
  /\ members = [o \in ChanObj |-> [k \in Nick |-> NoClient]]
  /\ ops = [o \in ChanObj |-> {}]
  /\ voiced = [o \in ChanObj |-> {}]
  /\ access = [o \in ChanObj |-> FreshAccess]
  /\ joined = [c \in Client |-> [m \in ChanName |-> NoChan]]
  /\ modeOn = NoChan
  /\ modeChanged = FALSE
  /\ gone = Nobody
  /\ dangled = FALSE
  /\ running = TRUE
  /\ abandoned = {}
  /\ moved = {}

-----------------------------------------------------------------------------
(* Helpers *)

Live == {o \in ChanObj : \E m \in ChanName : chan[m] = o}

Keys(o) == {k \in Nick : members[o][k] # NoClient}

\* Channel::isClient, isOperator and isBanned: by the nickname of the moment.
IsClient(o, c) == nick[c] \in Keys(o)
IsOperator(o, c) == nick[c] \in ops[o]
IsBanned(o, k, u) == k \in access[o].banned \/ <<k, u>> \in access[o].banned

\* Mutant of Full: the limit is compared with > instead of >=.
FullOffByOne(o) ==
  access[o].limit > 0 /\ Cardinality(Keys(o)) > access[o].limit

Full(o) == access[o].limit > 0 /\ Cardinality(Keys(o)) >= access[o].limit

\* The objects that broadcastMessage and WHO go through.
Members(o) == {members[o][k] : k \in Keys(o)}

\* The pointers a client holds in its own map.
JoinedObjs(c) == {joined[c][m] : m \in ChanName} \ {NoChan}

\* What a handler that goes through these objects does to the process.
Touch(objs, clients) ==
  IF objs \subseteq Live /\ clients \subseteq conn
  THEN UNCHANGED <<dangled, running>>
  ELSE dangled' = TRUE /\ running' \in BOOLEAN

\* The single thread is between two commands, and not in a read whose QUIT
\* was handled.
Idle == modeOn = NoChan /\ gone = Nobody /\ running

Sends(c) == Idle /\ c \in conn /\ registered[c]

\* What the commands below leave alone unless they say otherwise.
NoMode == UNCHANGED <<modeOn, modeChanged, gone>>
NoRename == UNCHANGED <<abandoned, moved>>

-----------------------------------------------------------------------------
(* Connections and registration.  These handlers leave the channels alone. *)

RegistrationCommand(c) ==
  /\ Idle
  /\ \/ AcceptNewConnection(c)
     \/ \E given \in Password : HandlePass(c, given)
     \/ \E name \in Ident, hasReal \in BOOLEAN : HandleUser(c, name, hasReal)
     \/ HandleOper(c)
     \/ \E n \in Nick, adding \in BOOLEAN : HandleUserMode(c, n, adding)
  /\ UNCHANGED chVars

\* NICK renames the client and no map is told.
ChangeNick(c, n) ==
  /\ Idle
  /\ HandleNick(c, n)
  /\ IF n # nick[c] /\ JoinedObjs(c) # {}
     THEN /\ abandoned' = abandoned \cup {nick[c]}
          /\ moved' = moved \cup {c}
     ELSE NoRename
  /\ NoMode
  /\ UNCHANGED <<chan, members, ops, voiced, access, joined, dangled, running>>

-----------------------------------------------------------------------------
(* JOIN *)

\* The name is not in use: the sender becomes member and operator of a new
\* object at any free address, and the password given becomes its key.
CreateChannel(c, m, o, given) ==
  /\ Sends(c)
  /\ chan[m] = NoChan
  /\ o \notin Live
  /\ chan' = [chan EXCEPT ![m] = o]
  /\ members' = [members EXCEPT ![o][nick[c]] = c]
  /\ ops' = [ops EXCEPT ![o] = @ \cup {nick[c]}]
  /\ access' = [access EXCEPT ![o].key = given]
  /\ joined' = [joined EXCEPT ![c][m] = o]
  /\ NoMode /\ NoRename
  /\ UNCHANGED <<regVars, voiced, dangled, running>>

Admits(o, k, u, given) ==
  /\ access[o].key \in {NoKey, given}
  /\ "i" \in access[o].flags => k \in access[o].invited
  /\ ~Full(o)
  /\ ~IsBanned(o, k, u)

JoinChannel(c, m, given) ==
  LET o == chan[m] IN
  /\ Sends(c)
  /\ o # NoChan
  /\ Admits(o, nick[c], user[c], given)
  /\ ~IsClient(o, c)
  /\ members' = [members EXCEPT ![o][nick[c]] = c]
  /\ joined' = [joined EXCEPT ![c][m] = o]
  /\ Touch({}, Members(o) \ {c})
  /\ NoMode /\ NoRename
  /\ UNCHANGED <<regVars, chan, ops, voiced, access>>

-----------------------------------------------------------------------------
(* PART and KICK: both announce to the whole channel, then remove. *)

\* Mutants of Leave: the channel left empty stays; the client's own map is not
\* told; the operators are not.
LeaveKeepingChannel(d, m) ==
  LET o == chan[m] IN
  /\ members' = [members EXCEPT ![o][nick[d]] = NoClient]
  /\ ops' = [ops EXCEPT ![o] = @ \ {nick[d]}]
  /\ voiced' = [voiced EXCEPT ![o] = @ \ {nick[d]}]
  /\ joined' = [joined EXCEPT ![d][m] = NoChan]
  /\ UNCHANGED <<chan, access>>

LeaveKeepingPointer(d, m) ==
  LET o == chan[m] IN
  /\ members' = [members EXCEPT ![o][nick[d]] = NoClient]
  /\ ops' = [ops EXCEPT ![o] = @ \ {nick[d]}]
  /\ voiced' = [voiced EXCEPT ![o] = @ \ {nick[d]}]
  /\ UNCHANGED joined
  /\ IF Keys(o) \subseteq {nick[d]}
     THEN /\ chan' = [chan EXCEPT ![m] = NoChan]
          /\ access' = [access EXCEPT ![o] = FreshAccess]
     ELSE UNCHANGED <<chan, access>>

LeaveKeepingRole(d, m) ==
  LET o == chan[m] IN
  /\ members' = [members EXCEPT ![o][nick[d]] = NoClient]
  /\ joined' = [joined EXCEPT ![d][m] = NoChan]
  /\ IF Keys(o) \subseteq {nick[d]}
     THEN /\ chan' = [chan EXCEPT ![m] = NoChan]
          /\ access' = [access EXCEPT ![o] = FreshAccess]
     ELSE UNCHANGED <<chan, access>>
  /\ UNCHANGED <<ops, voiced>>

\* Channel::removeClient, and the removal of a channel it leaves empty.
Leave(d, m) ==
  LET o == chan[m]
      emptied == Keys(o) \subseteq {nick[d]}
  IN /\ members' = [members EXCEPT ![o][nick[d]] = NoClient]
     /\ ops' = [ops EXCEPT ![o] = @ \ {nick[d]}]
     /\ voiced' = [voiced EXCEPT ![o] = @ \ {nick[d]}]
     /\ joined' = [joined EXCEPT ![d][m] = NoChan]
     /\ IF emptied
        THEN /\ chan' = [chan EXCEPT ![m] = NoChan]
             /\ access' = [access EXCEPT ![o] = FreshAccess]
        ELSE UNCHANGED <<chan, access>>

\* One channel of the comma list; the handler takes them in turn.
HandlePart(c, m) ==
  LET o == chan[m] IN
  /\ Sends(c)
  /\ o # NoChan
  /\ IsClient(o, c)
  /\ Touch({}, Members(o))
  /\ Leave(c, m)
  /\ NoMode /\ NoRename
  /\ UNCHANGED regVars

HandleKick(c, m, t) ==
  LET o == chan[m]
      d == GetClientByNickname(t)
  IN /\ Sends(c)
     /\ o # NoChan
     /\ IsClient(o, c)
     /\ IsOperator(o, c)
     /\ t \in Keys(o)
     /\ d # NoClient
     /\ Touch({}, Members(o))
     /\ Leave(d, m)
     /\ NoMode /\ NoRename
     /\ UNCHANGED regVars

-----------------------------------------------------------------------------
(* The end of a connection *)

\* Mutant of Drop: leaveAllChannels is not called.
DropWithoutLeaving(c) ==
  /\ joined' = [joined EXCEPT ![c] = [m \in ChanName |-> NoChan]]
  /\ moved' = moved \ {c}
  /\ RemoveClient(c)
  /\ UNCHANGED <<chan, members, ops, voiced, access, modeOn, modeChanged,
                 abandoned>>

\* Client::leaveAllChannels, then the object is deleted.  A Channel that is
\* left empty stays in the directory.
Drop(c) ==
  LET left == {o \in JoinedObjs(c) \cap Live : IsClient(o, c)} IN
  /\ members' = [o \in ChanObj |->
       IF o \in left THEN [members[o] EXCEPT ![nick[c]] = NoClient]
                     ELSE members[o]]
  /\ ops' = [o \in ChanObj |-> IF o \in left THEN ops[o] \ {nick[c]} ELSE ops[o]]
  /\ voiced' =
       [o \in ChanObj |-> IF o \in left THEN voiced[o] \ {nick[c]} ELSE voiced[o]]
  /\ joined' = [joined EXCEPT ![c] = [m \in ChanName |-> NoChan]]
  /\ moved' = moved \ {c}
  /\ RemoveClient(c)
  /\ UNCHANGED <<chan, access, modeOn, modeChanged, abandoned>>

\* QUIT, registered or not: the members of its channels are told first.  The
\* read it came with is not done with yet.
HandleQuit(c) ==
  /\ Idle
  /\ Touch(JoinedObjs(c),
           (UNION {Members(o) : o \in JoinedObjs(c) \cap Live}) \ {c})
  /\ Drop(c)
  /\ gone' = IF registered[c]
             THEN [client |-> c, nick |-> nick[c], user |-> user[c]]
             ELSE [Nobody EXCEPT !.client = c]

\* End of input, a failed send or recv, or a hang-up: nobody is told.
LoseConnection(c) ==
  /\ Idle
  /\ Touch(JoinedObjs(c), {})
  /\ Drop(c)
  /\ UNCHANGED gone

-----------------------------------------------------------------------------
(* The rest of a read behind QUIT.  The loop of _handleClientInput hands the *)
(* lines that follow to the handlers, and then clears the input buffer, with *)
(* its pointer to the client that was deleted.  Unless the process aborts,   *)
(* the dead memory still reads as that client.  Bound: of the lines behind   *)
(* QUIT at most one has an effect on a channel, and it is a JOIN.            *)

EndRead(clients) ==
  /\ running
  /\ gone.client # NoClient
  /\ gone' = Nobody
  /\ dangled' = (dangled \/ ~(clients \subseteq conn))
  /\ running' \in BOOLEAN
  /\ UNCHANGED <<regVars, voiced, joined, modeOn, modeChanged, moved>>

QuitLast ==
  /\ EndRead({})
  /\ UNCHANGED <<chan, members, ops, access, abandoned>>

\* The entry leads to the deleted client; the channel that this client is told
\* of in its own map is forgotten with the memory.
LateEntry(o) ==
  /\ gone.nick # NoNick
  /\ members' = [members EXCEPT ![o][gone.nick] = gone.client]
  /\ abandoned' = abandoned \cup {gone.nick}

QuitThenCreate(m, o, given) ==
  /\ EndRead({})
  /\ chan[m] = NoChan
  /\ o \notin Live
  /\ LateEntry(o)
  /\ chan' = [chan EXCEPT ![m] = o]
  /\ ops' = [ops EXCEPT ![o] = @ \cup {gone.nick}]
  /\ access' = [access EXCEPT ![o].key = given]

QuitThenJoin(m, given) ==
  LET o == chan[m] IN
  /\ o # NoChan
  /\ EndRead(Members(o) \ {gone.client})
  /\ Admits(o, gone.nick, gone.user, given)
  /\ gone.nick \notin Keys(o)
  /\ LateEntry(o)
  /\ UNCHANGED <<chan, ops, access>>

RestOfRead ==
  \/ QuitLast
  \/ \E m \in ChanName, given \in Key \cup {NoKey} :
       \/ \E o \in ChanObj : QuitThenCreate(m, o, given)
       \/ QuitThenJoin(m, given)

-----------------------------------------------------------------------------
(* INVITE and TOPIC *)

\* The target need not be registered.  An invitation is never taken back.
HandleInvite(c, n, m) ==
  LET o == chan[m] IN
  /\ Sends(c)
  /\ GetClientByNickname(n) # NoClient
  /\ o # NoChan
  /\ IsClient(o, c)
  /\ n \notin Keys(o)
  /\ "i" \in access[o].flags => IsOperator(o, c) \/ oper[c]
  /\ access' = [access EXCEPT ![o].invited = @ \cup {n}]
  /\ NoMode /\ NoRename
  /\ UNCHANGED <<regVars, chan, members, ops, voiced, joined, dangled, running>>

HandleTopic(c, m, topic) ==
  LET o == chan[m] IN
  /\ Sends(c)
  /\ o # NoChan
  /\ IsClient(o, c)
  /\ "t" \in access[o].flags => IsOperator(o, c) \/ oper[c]
  /\ access' = [access EXCEPT ![o].topic = topic]
  /\ Touch({}, Members(o))
  /\ NoMode /\ NoRename
  /\ UNCHANGED <<regVars, chan, members, ops, voiced, joined>>

-----------------------------------------------------------------------------
(* MODE <channel>: permission is asked once, then the loop applies the     *)
(* letters one by one, and at its end the members are told if any letter   *)
(* was accepted.  A letter setMode refuses changes nothing.                *)

\* Mutant of BeginMode: any registered client may change the modes.
BeginModeUnchecked(c, m) ==
  /\ Sends(c)
  /\ chan[m] # NoChan
  /\ modeOn' = chan[m]
  /\ UNCHANGED <<regVars, chan, members, ops, voiced, access, joined,
                 modeChanged, gone, dangled, running>>
  /\ NoRename

BeginMode(c, m) ==
  LET o == chan[m] IN
  /\ Sends(c)
  /\ o # NoChan
  /\ IsOperator(o, c) \/ oper[c]
  /\ modeOn' = o
  /\ UNCHANGED <<regVars, chan, members, ops, voiced, access, joined,
                 modeChanged, gone, dangled, running>>
  /\ NoRename

\* The part common to the letters: one of them is accepted.
Accepted(letter) ==
  /\ modeOn # NoChan
  /\ letter \in Letter
  /\ modeChanged' = TRUE
  /\ UNCHANGED <<regVars, chan, members, joined, modeOn, gone, dangled, running>>
  /\ NoRename

SetFlag(f, adding) ==
  /\ Accepted(f)
  /\ access' = [access EXCEPT ![modeOn].flags =
                                IF adding THEN @ \cup {f} ELSE @ \ {f}]
  /\ UNCHANGED <<ops, voiced>>

\* +k with a password, -k for NoKey.
SetKey(key) ==
  /\ Accepted("k")
  /\ access' = [access EXCEPT ![modeOn].key = key]
  /\ UNCHANGED <<ops, voiced>>

\* Mutant of SetLimit: the limit is stored one too low, -l as -1.
SetLimitOffByOne(limit) ==
  /\ Accepted("l")
  /\ access' = [access EXCEPT ![modeOn].limit = limit - 1]
  /\ UNCHANGED <<ops, voiced>>

\* +l with a number in 1..1000, -l for 0.
SetLimit(limit) ==
  /\ Accepted("l")
  /\ access' = [access EXCEPT ![modeOn].limit = limit]
  /\ UNCHANGED <<ops, voiced>>

\* Mutant of SetOp: +o does not ask for a member.
SetOpAnyone(n, adding) ==
  /\ Accepted("o")
  /\ adding \/ n \in ops[modeOn]
  /\ ops' = [ops EXCEPT ![modeOn] = IF adding THEN @ \cup {n} ELSE @ \ {n}]
  /\ UNCHANGED <<voiced, access>>

\* +o asks for a member, -o for an operator; so do +v and -v.
SetOp(n, adding) ==
  /\ Accepted("o")
  /\ n \in IF adding THEN Keys(modeOn) ELSE ops[modeOn]
  /\ ops' = [ops EXCEPT ![modeOn] = IF adding THEN @ \cup {n} ELSE @ \ {n}]
  /\ UNCHANGED <<voiced, access>>

SetVoice(n, adding) ==
  /\ Accepted("v")
  /\ n \in IF adding THEN Keys(modeOn) ELSE voiced[modeOn]
  /\ voiced' = [voiced EXCEPT ![modeOn] = IF adding THEN @ \cup {n} ELSE @ \ {n}]
  /\ UNCHANGED <<ops, access>>

SetBan(mask, adding) ==
  /\ Accepted("b")
  /\ adding \/ mask \in access[modeOn].banned
  /\ access' = [access EXCEPT ![modeOn].banned =
                                IF adding THEN @ \cup {mask} ELSE @ \ {mask}]
  /\ UNCHANGED <<ops, voiced>>

EndMode ==
  /\ modeOn # NoChan
  /\ Touch({}, IF modeChanged THEN Members(modeOn) ELSE {})
  /\ modeOn' = NoChan
  /\ modeChanged' = FALSE
  /\ UNCHANGED <<regVars, chan, members, ops, voiced, access, joined, gone>>
  /\ NoRename

ModeStep ==
  \/ \E f \in FlagLetter, adding \in BOOLEAN : SetFlag(f, adding)
  \/ \E key \in Key \cup {NoKey} : SetKey(key)
  \/ \E limit \in Limit \cup {0} : SetLimit(limit)
  \/ \E n \in Nick, adding \in BOOLEAN : SetOp(n, adding) \/ SetVoice(n, adding)
  \/ \E mask \in Mask, adding \in BOOLEAN : SetBan(mask, adding)
  \/ EndMode

-----------------------------------------------------------------------------
(* Commands that change nothing but read through the maps. *)

Reads(c) ==
  /\ Sends(c)
  /\ NoMode /\ NoRename
  /\ UNCHANGED <<regVars, chan, members, ops, voiced, access, joined>>

\* PRIVMSG to a channel.  A NOTICE goes to the same members, or is refused.
HandlePrivmsg(c, m) ==
  /\ Reads(c)
  /\ chan[m] # NoChan
  /\ IsClient(chan[m], c)
  /\ Touch({}, Members(chan[m]) \ {c})

HandleWhoChannel(c, m) ==
  /\ Reads(c)
  /\ chan[m] # NoChan
  /\ Touch({}, Members(chan[m]))

\* WHO <mask>, for one matching client: m is a name both maps have (the code
\* takes the first in order).
HandleWhoClient(c, d, m) ==
  /\ Reads(c)
  /\ d \in conn
  /\ registered[d]
  /\ joined[c][m] # NoChan
  /\ joined[d][m] # NoChan
  /\ Touch({joined[d][m]}, {})

HandleWhois(c, n) ==
  LET d == GetClientByNickname(n) IN
  /\ Reads(c)
  /\ d # NoClient
  /\ Touch(JoinedObjs(d), {})

-----------------------------------------------------------------------------

ChannelCommand(c) ==
  \E m \in ChanName :
    \/ \E o \in ChanObj, given \in Key \cup {NoKey} : CreateChannel(c, m, o, given)
    \/ \E given \in Key \cup {NoKey} : JoinChannel(c, m, given)
    \/ HandlePart(c, m)
    \/ \E t \in Nick : HandleKick(c, m, t)
    \/ \E n \in Nick : HandleInvite(c, n, m)
    \/ \E topic \in Topic \cup {NoTopic} : HandleTopic(c, m, topic)
    \/ BeginMode(c, m)

Query(c) ==
  \/ \E m \in ChanName :
       \/ HandlePrivmsg(c, m)
       \/ HandleWhoChannel(c, m)
       \/ \E d \in Client : HandleWhoClient(c, d, m)
  \/ \E n \in Nick : HandleWhois(c, n)

Next ==
  \/ \E c \in Client :
       \/ RegistrationCommand(c)
       \/ \E n \in Nick : ChangeNick(c, n)
       \/ ChannelCommand(c)
       \/ HandleQuit(c)
       \/ LoseConnection(c)
       \/ Query(c)
  \/ RestOfRead
  \/ ModeStep

Spec == Init /\ [][Next]_vars

-----------------------------------------------------------------------------
(* Properties *)

\* Operators and voiced nicknames are members, through every rename, kick,
\* departure and reuse of an address: setMode asks for membership before it
\* gives a role and removeClient takes the roles with the entry.
RolesHeldByMembers ==
  \A o \in ChanObj : ops[o] \cup voiced[o] \subseteq Keys(o)

\* The two membership maps agree on every nickname that nobody has given up
\* while on a channel: an entry under it leads to the connected client that
\* has this nickname and holds the channel in its own map ...
EntriesAreClients ==
  \A m \in ChanName, k \in Nick \ abandoned :
    chan[m] # NoChan /\ members[chan[m]][k] # NoClient =>
      LET c == members[chan[m]][k] IN
      c \in conn /\ nick[c] = k /\ joined[c][m] = chan[m]

\* ... and a client that has not renamed itself on a channel, under such a
\* nickname, holds only live channels that list it.
ClientsAreEntries ==
  \A c \in conn \ moved, m \in ChanName :
    nick[c] \notin abandoned /\ joined[c][m] # NoChan =>
      chan[m] = joined[c][m] /\ members[joined[c][m]][nick[c]] = c

MapsAgree == EntriesAreClients /\ ClientsAreEntries

\* Until somebody renames itself while on a channel, or joins one behind its
\* own QUIT, no handler goes through an entry of either map to a deleted Client
\* or Channel: the one freed object ever used is the client whose QUIT the
\* loop has just handled, by the loop's own pointer (EndRead).
NoDanglingDeref == abandoned = {} => ~dangled

\* PART and KICK never leave a channel without members: only the end of a
\* connection does.
EmptiedOnlyByDrop ==
  [][\A m \in ChanName :
       LET o == chan[m] IN
       /\ o # NoChan /\ chan'[m] = o
       /\ Keys(o) # {} /\ Keys(o)' = {}
       => conn' # conn]_vars

\* Operators come from operators: while a channel has none and no client is an
\* IRC operator, no command gives it one or gets into its MODE loop; joining
\* it, even when it was left empty, does not.
RoleNeedsOperator ==
  [][\A m \in ChanName :
       LET o == chan[m] IN
       o # NoChan /\ chan'[m] = o /\ modeOn # o /\ ops[o] = {}
         /\ (\A c \in conn : ~oper[c]) =>
           ops'[o] = {} /\ modeOn' # o]_vars

\* A nickname enters an existing channel only as that of a registered client,
\* or of one that has just quit, that the bans in force do not name, with an
\* invitation if the channel is +i, and the channel then has no more entries
\* than its limit: no other handler opens a second way in, and no limit of n
\* admits n + 1.
AdmittedOnly ==
  [][\A m \in ChanName, k \in Nick :
       LET o == chan[m] IN
       o # NoChan /\ chan'[m] = o /\ k \in Keys(o)' \ Keys(o) =>
         /\ access[o].limit # 0 => Cardinality(Keys(o)') <= access[o].limit
         /\ "i" \in access[o].flags => k \in access[o].invited
         /\ \E u \in Ident :
              /\ \/ \E c \in conn : registered[c] /\ <<k, u>> = <<nick[c], user[c]>>
                 \/ <<k, u>> = <<gone.nick, gone.user>>
              /\ {k, <<k, u>>} \cap access[o].banned = {}]_vars

\* What the guide says of a disconnection: the server will "remove the client
\* from any channels it was in".  When QUIT is handled, and before the client
\* can send anything more, no channel lists it.
DisconnectLeavesChannels ==
  \A m \in ChanName : chan[m] # NoChan => gone.client \notin Members(chan[m])

\* Until a nickname is given up on a channel, or enters one behind its client's
\* QUIT, the maps together are one relation between clients and channels: a
\* command changes it for one client and one channel, entering gives no role,
\* leaving takes all of them, and only the end of a connection leaves several
\* channels, or an empty one, behind.
Kept(s) == IF abandoned = {} THEN s ELSE {}

Holding(role) ==
  {p \in conn \X ChanName :
     chan[p[2]] # NoChan /\ nick[p[1]] \in role[chan[p[2]]]}

Board == INSTANCE Membership WITH
  exists  <- Kept({m \in ChanName : chan[m] # NoChan}),
  on      <- Kept({p \in Client \X ChanName : joined[p[1]][p[2]] # NoChan}),
  op      <- Kept(Holding(ops)),
  voice   <- Kept(Holding(voiced)),
  promise <- abandoned = {}

OneMembership == Board!Spec
=============================================================================
