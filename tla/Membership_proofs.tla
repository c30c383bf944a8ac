------------------------- MODULE Membership_proofs --------------------------
(* Channels implements Membership: the server's maps, kept by nickname and  *)
(* by client, are one relation as long as nobody renames itself on a        *)
(* channel or joins one behind its QUIT.                                    *)
EXTENDS Channels_proofs

\* The variables of Membership, while its promise stands.
Exists == {m \in ChanName : chan[m] # NoChan}
On == {p \in Client \X ChanName : joined[p[1]][p[2]] # NoChan}

\* What the maps say together: a client's own map, the channel's entries, and
\* the nickname of the moment.
OneRelation ==
  /\ \A c \in Client, m \in ChanName :
       joined[c][m] # NoChan => c \in conn /\ chan[m] # NoChan
  /\ \A c \in conn, m \in ChanName :
       chan[m] # NoChan =>
         /\ nick[c] \in Keys(chan[m]) <=> joined[c][m] # NoChan
         /\ nick[c] \in ops[chan[m]] \cup voiced[chan[m]] =>
              joined[c][m] # NoChan
  /\ \A m \in ChanName, k \in Nick :
       chan[m] # NoChan /\ k \in Keys(chan[m]) =>
         \E c \in conn : nick[c] = k /\ joined[c][m] # NoChan

RelationKept == abandoned = {} => OneRelation

LEMMA MapsAreOneRelation == ChInv => RelationKept
  <1> SUFFICES ASSUME ChInv, abandoned = {} PROVE OneRelation
    BY DEF RelationKept
  <1> USE DEF ChInv, MapInv
  <1>1. moved = {}
    BY DEF MovedIsHistory
  <1>2. ASSUME NEW c \in Client, NEW m \in ChanName, joined[c][m] # NoChan
        PROVE  /\ c \in conn /\ chan[m] # NoChan
               /\ nick[c] \in Keys(chan[m])
    <2>1. c \in conn
      BY <1>2 DEF HoldersAreRegistered
    <2> QED BY <1>1, <1>2, <2>1, HeldChannel
  <1>3. ASSUME NEW m \in ChanName, NEW k \in Nick,
               chan[m] # NoChan, k \in Keys(chan[m])
        PROVE  \E c \in conn : nick[c] = k /\ joined[c][m] # NoChan
    <2>1. members[chan[m]][k] # NoClient
      BY <1>3 DEF Keys
    <2> QED BY <1>3, <2>1 DEF EntriesAreClients
  <1>4. ASSUME NEW c \in conn, NEW m \in ChanName,
               chan[m] # NoChan, nick[c] \in Keys(chan[m])
        PROVE  joined[c][m] # NoChan
    <2>1. nick[c] \in Nick
      BY <1>4 DEF Keys
    <2>2. PICK d \in conn : nick[d] = nick[c] /\ joined[d][m] # NoChan
      BY <1>3, <1>4, <2>1
    <2>3. d = c
      BY <2>1, <2>2, RegistrationAssumption DEF RegInv, NickUnique
    <2> QED BY <2>2, <2>3
  <1>5. \A m \in ChanName :
          chan[m] # NoChan => ops[chan[m]] \cup voiced[chan[m]] \subseteq Keys(chan[m])
    BY DEF RolesHeldByMembers, ChTypeOK
  <1>6. conn \subseteq Client
    BY DEF RegInv, RegTypeOK
  <1> QED BY <1>2, <1>3, <1>4, <1>5, <1>6 DEF OneRelation

LEMMA MapsStayOneRelation == ChInv' => RelationKept'
  BY MapsAreOneRelation, PTL

LEMMA SamePairs ==
  ASSUME NEW S \in SUBSET (Client \X ChanName),
         NEW T \in SUBSET (Client \X ChanName),
         \A c \in Client, m \in ChanName : <<c, m>> \in S <=> <<c, m>> \in T
  PROVE  S = T
  OBVIOUS

PairFacts ==
  /\ On \subseteq Client \X ChanName
  /\ Holding(ops) \subseteq Client \X ChanName
  /\ Holding(voiced) \subseteq Client \X ChanName
  /\ \A c \in Client, m \in ChanName :
       /\ <<c, m>> \in On <=> joined[c][m] # NoChan
       /\ <<c, m>> \in Holding(ops) <=>
            c \in conn /\ chan[m] # NoChan /\ nick[c] \in ops[chan[m]]
       /\ <<c, m>> \in Holding(voiced) <=>
            c \in conn /\ chan[m] # NoChan /\ nick[c] \in voiced[chan[m]]

LEMMA PairsAre == ChInv => PairFacts
  BY DEF PairFacts, On, Holding, ChInv, RegInv, RegTypeOK

LEMMA PairsStay == ChInv' => PairFacts'
  BY PairsAre, PTL

\* The relation is left alone by a step that changes no map, no role and no
\* nickname.
LEMMA NothingMoves ==
  ASSUME abandoned = {},
         UNCHANGED <<conn, nick, chan, ops, voiced, joined, abandoned>>
  PROVE  UNCHANGED Board!vars
  BY DEF Board!vars, Board!roles, Kept, Holding

-----------------------------------------------------------------------------
(* One lemma per kind of step, while no nickname was given up on a channel. *)

LEMMA RegistrationIsConnect ==
  ASSUME ChInv, ChInv', abandoned = {}, NEW c \in Client, RegistrationCommand(c)
  PROVE  [Board!Next]_(Board!vars)
  <1>1. UNCHANGED chVars
    BY DEF RegistrationCommand
  <1>2. CASE AcceptNewConnection(c)
    <2>1. c \notin conn /\ conn' = conn \cup {c} /\ nick' = nick
      BY <1>2 DEF AcceptNewConnection
    <2>2. nick[c] = NoNick
      BY <2>1 DEF ChInv, RegInv, FreedIsFresh
    <2>3. \A m \in ChanName : chan[m] # NoChan =>
            nick[c] \notin ops[chan[m]] /\ nick[c] \notin voiced[chan[m]]
      BY <2>2, RegistrationAssumption DEF ChInv, ChTypeOK
    <2>4. Exists' = Exists /\ On' = On
      BY <1>1 DEF chVars, Exists, On
    <2>5. Holding(ops)' = Holding(ops) /\ Holding(voiced)' = Holding(voiced)
      BY <1>1, <2>1, <2>3 DEF chVars, Holding
    <2>6. Board!Connect(c)
      BY <1>1, <2>1, <2>4, <2>5
      DEF chVars, Board!Connect, Board!roles, Kept, Exists, On
    <2> QED BY <2>6 DEF Board!Next
  <1>3. CASE ~AcceptNewConnection(c)
    <2>1. conn' = conn /\ nick' = nick
      BY <1>3 DEF RegistrationCommand, HandlePass, HandleUser, HandleOper,
                  HandleUserMode
    <2> QED BY <1>1, <2>1, NothingMoves DEF chVars
  <1> QED BY <1>2, <1>3

\* A client on no channel may take another nickname: nobody on a channel had
\* either of the two.
LEMMA RenameOffChannels ==
  ASSUME ChInv, ChInv', abandoned = {}, abandoned' = {},
         NEW c \in Client, NEW n \in Nick, ChangeNick(c, n)
  PROVE  UNCHANGED Board!vars
  <1>1. /\ c \in conn /\ conn' = conn /\ nick' = [nick EXCEPT ![c] = n]
        /\ UNCHANGED <<chan, ops, voiced, joined>>
    BY DEF ChangeNick, HandleNick
  <1>2. nick' = nick \/ JoinedObjs(c) = {}
    BY <1>1 DEF ChangeNick, ChInv, RegInv, RegTypeOK
  <1>3. CASE nick' = nick
    BY <1>1, <1>3, NothingMoves
  <1>4. CASE JoinedObjs(c) = {}
    <2>1. \A m \in ChanName : joined[c][m] = NoChan
      BY <1>4 DEF JoinedObjs
    <2>2. OneRelation /\ OneRelation'
      BY MapsAreOneRelation, MapsStayOneRelation DEF RelationKept
    <2>3. \A m \in ChanName : chan[m] # NoChan =>
            /\ nick[c] \notin ops[chan[m]] \cup voiced[chan[m]]
            /\ nick'[c] \notin ops[chan[m]] \cup voiced[chan[m]]
      BY <1>1, <2>1, <2>2 DEF OneRelation
    <2>4. \A d \in conn : d # c => nick'[d] = nick[d]
      BY <1>1 DEF ChInv, RegInv, RegTypeOK
    <2>5. Holding(ops)' = Holding(ops) /\ Holding(voiced)' = Holding(voiced)
      BY <1>1, <2>3, <2>4 DEF Holding
    <2> QED BY <1>1, <2>5 DEF Board!vars, Board!roles, Kept
  <1> QED BY <1>2, <1>3, <1>4

LEMMA CreateIsCreate ==
  ASSUME ChInv, ChInv', abandoned = {}, NEW c \in Client, NEW m \in ChanName,
         NEW o \in ChanObj, NEW given \in Key \cup {NoKey},
         CreateChannel(c, m, o, given)
  PROVE  c \in conn /\ Board!Create(c, m)
  <1> USE DEF ChInv
  <1>1. /\ c \in conn /\ nick[c] \in Nick /\ nick[c] # NoNick
        /\ chan[m] = NoChan /\ o \notin Live /\ o # NoChan
    BY RegisteredHaveNicks, ChannelsAssumption, RegistrationAssumption
    DEF CreateChannel, Sends
  <1>2. /\ chan' = [chan EXCEPT ![m] = o]
        /\ ops' = [ops EXCEPT ![o] = @ \cup {nick[c]}]
        /\ joined' = [joined EXCEPT ![c][m] = o]
        /\ UNCHANGED <<conn, nick, voiced, abandoned>>
    BY DEF CreateChannel, regVars, NoRename
  <1>3. ops'[o] = {nick[c]} /\ voiced[o] = {}
    BY <1>1, <1>2 DEF MapInv, FreedIsEmpty, ChTypeOK
  <1>4. \A mm \in ChanName : mm # m /\ chan[mm] # NoChan =>
          chan'[mm] = chan[mm] /\ ops'[chan[mm]] = ops[chan[mm]]
    BY <1>1, <1>2 DEF ChTypeOK, Live
  <1>5. \A mm \in ChanName : chan'[mm] = IF mm = m THEN o ELSE chan[mm]
    BY <1>2 DEF ChTypeOK
  <1>6. \A d \in Client, mm \in ChanName :
          joined'[d][mm] = IF d = c /\ mm = m THEN o ELSE joined[d][mm]
    BY <1>2 DEF ChTypeOK
  <1>7. \A d \in conn : nick[d] = nick[c] => d = c
    BY <1>1 DEF RegInv, NickUnique
  <1>8. PairFacts /\ PairFacts'
    BY PairsAre, PairsStay
  <1>9. Exists' = Exists \cup {m} /\ m \notin Exists
    BY <1>1, <1>5 DEF Exists
  <1>10. On' = On \cup {<<c, m>>}
    BY <1>1, <1>6, <1>8, SamePairs DEF PairFacts
  <1>11. Holding(ops)' = Holding(ops) \cup {<<c, m>>}
    <2>1. ASSUME NEW d \in Client, NEW mm \in ChanName
          PROVE  <<d, mm>> \in Holding(ops)' <=>
                   <<d, mm>> \in Holding(ops) \cup {<<c, m>>}
      <3>1. CASE mm = m
        <4>1. <<d, m>> \notin Holding(ops)
          BY <1>1, <1>8 DEF PairFacts
        <4>2. <<d, m>> \in Holding(ops)' <=>
                d \in conn' /\ chan'[m] # NoChan /\ nick'[d] \in ops'[chan'[m]]
          BY <1>8 DEF PairFacts
        <4>3. chan'[m] = o /\ conn' = conn /\ nick' = nick
          BY <1>2, <1>5
        <4>4. <<d, m>> \in Holding(ops)' <=> d \in conn /\ nick[d] = nick[c]
          BY <1>1, <1>3, <4>2, <4>3
        <4> QED BY <1>1, <1>7, <3>1, <4>1, <4>4
      <3>2. CASE mm # m
        <4>1. <<d, mm>> \in Holding(ops)' <=>
                d \in conn' /\ chan'[mm] # NoChan /\ nick'[d] \in ops'[chan'[mm]]
          BY <1>8 DEF PairFacts
        <4>2. <<d, mm>> \in Holding(ops) <=>
                d \in conn /\ chan[mm] # NoChan /\ nick[d] \in ops[chan[mm]]
          BY <1>8 DEF PairFacts
        <4>3. chan'[mm] = chan[mm] /\ conn' = conn /\ nick' = nick
          BY <1>2, <1>5, <3>2
        <4>4. chan[mm] # NoChan => ops'[chan[mm]] = ops[chan[mm]]
          BY <1>4, <3>2
        <4>5. <<d, mm>> # <<c, m>>
          BY <3>2
        <4> QED BY <4>1, <4>2, <4>3, <4>4, <4>5
      <3> QED BY <3>1, <3>2
    <2> QED BY <1>8, <2>1, SamePairs DEF PairFacts
  <1>12. Holding(voiced)' = Holding(voiced)
    <2>1. ASSUME NEW d \in Client, NEW mm \in ChanName
          PROVE  <<d, mm>> \in Holding(voiced)' <=> <<d, mm>> \in Holding(voiced)
      BY <1>1, <1>2, <1>3, <1>5, <1>8 DEF PairFacts
    <2>2. /\ Holding(voiced) \in SUBSET (Client \X ChanName)
          /\ Holding(voiced)' \in SUBSET (Client \X ChanName)
      BY <1>8 DEF PairFacts
    <2> QED BY <2>1, <2>2, SamePairs
  <1> QED
    BY <1>1, <1>2, <1>9, <1>10, <1>11, <1>12
    DEF Board!Create, Kept, Exists, On

LEMMA JoinIsEnter ==
  ASSUME ChInv, ChInv', abandoned = {}, NEW c \in Client, NEW m \in ChanName,
         NEW given \in Key \cup {NoKey}, JoinChannel(c, m, given)
  PROVE  c \in conn /\ Board!Enter(c, m)
  <1> USE DEF ChInv
  <1>1. /\ c \in conn /\ chan[m] # NoChan /\ nick[c] \notin Keys(chan[m])
    BY DEF JoinChannel, Sends, IsClient
  <1>2. /\ joined' = [joined EXCEPT ![c][m] = chan[m]]
        /\ UNCHANGED <<conn, nick, chan, ops, voiced, abandoned>>
    BY DEF JoinChannel, regVars, NoRename
  <1>3. OneRelation
    BY MapsAreOneRelation DEF RelationKept
  <1>4. joined[c][m] = NoChan
    BY <1>1, <1>3 DEF OneRelation
  <1>5. PairFacts /\ PairFacts'
    BY PairsAre, PairsStay
  <1>6. \A d \in Client, mm \in ChanName :
          joined'[d][mm] = IF d = c /\ mm = m THEN chan[m] ELSE joined[d][mm]
    BY <1>2 DEF ChTypeOK
  <1>7. On' = On \cup {<<c, m>>} /\ <<c, m>> \notin On
    BY <1>1, <1>4, <1>5, <1>6, SamePairs DEF PairFacts
  <1>8. Exists' = Exists /\ m \in Exists
    BY <1>1, <1>2 DEF Exists
  <1>9. Holding(ops)' = Holding(ops) /\ Holding(voiced)' = Holding(voiced)
    BY <1>2 DEF Holding
  <1> QED
    BY <1>1, <1>2, <1>7, <1>8, <1>9 DEF Board!Enter, Kept, Exists, On

LEMMA LeaveIsLeave ==
  ASSUME ChInv, ChInv', abandoned = {}, NEW d \in conn, NEW m \in ChanName,
         chan[m] # NoChan, nick[d] \in Keys(chan[m]), Leave(d, m),
         UNCHANGED <<regVars, abandoned>>
  PROVE  Board!Leave(d, m)
  <1> USE DEF ChInv
  <1> DEFINE k == nick[d]
             o == chan[m]
             emptied == Keys(o) \subseteq {k}
  <1>1. d \in Client /\ k \in Nick /\ k # NoNick /\ o \in ChanObj
    BY RegistrationAssumption DEF RegInv, RegTypeOK, ChTypeOK, Keys
  <1>2. /\ ops' = [ops EXCEPT ![o] = @ \ {k}]
        /\ voiced' = [voiced EXCEPT ![o] = @ \ {k}]
        /\ joined' = [joined EXCEPT ![d][m] = NoChan]
        /\ chan' = IF emptied THEN [chan EXCEPT ![m] = NoChan] ELSE chan
        /\ UNCHANGED <<conn, nick, abandoned>>
    BY DEF Leave, regVars
  <1>3. /\ \A mm \in ChanName :
             chan'[mm] = IF mm = m /\ emptied THEN NoChan ELSE chan[mm]
        /\ \A e \in Client, mm \in ChanName :
             joined'[e][mm] = IF e = d /\ mm = m THEN NoChan ELSE joined[e][mm]
        /\ ops'[o] = ops[o] \ {k} /\ voiced'[o] = voiced[o] \ {k}
        /\ \A x \in ChanObj \ {o} : ops'[x] = ops[x] /\ voiced'[x] = voiced[x]
    BY <1>1, <1>2 DEF ChTypeOK
  <1>4. \A mm \in ChanName : mm # m /\ chan[mm] # NoChan =>
          chan[mm] \in ChanObj \ {o}
    BY DEF MapInv, OneNamePerObject, ChTypeOK
  <1>5. \A e \in conn : nick[e] = k => e = d
    BY <1>1 DEF RegInv, NickUnique
  <1>6. OneRelation
    BY MapsAreOneRelation DEF RelationKept
  <1>7. emptied => ops[o] \subseteq {k} /\ voiced[o] \subseteq {k}
    BY <1>1 DEF MapInv, RolesHeldByMembers
  <1>8. PairFacts /\ PairFacts'
    BY PairsAre, PairsStay
  <1>9. <<d, m>> \in On /\ On' = On \ {<<d, m>>}
    <2>1. joined[d][m] # NoChan
      BY <1>6 DEF OneRelation
    <2>2. <<d, m>> \in On
      BY <1>1, <1>8, <2>1 DEF PairFacts
    <2>3. ASSUME NEW e \in Client, NEW mm \in ChanName
          PROVE  <<e, mm>> \in On' <=> <<e, mm>> \in On \ {<<d, m>>}
      <3>1. /\ <<e, mm>> \in On <=> joined[e][mm] # NoChan
            /\ <<e, mm>> \in On' <=> joined'[e][mm] # NoChan
        BY <1>8 DEF PairFacts
      <3> QED BY <1>3, <3>1
    <2>4. On \in SUBSET (Client \X ChanName) /\ On' \in SUBSET (Client \X ChanName)
      BY <1>8 DEF PairFacts
    <2>5. On \ {<<d, m>>} \in SUBSET (Client \X ChanName)
      BY <2>4
    <2> QED BY <2>2, <2>3, <2>4, <2>5, SamePairs
  <1>10. Holding(ops)' = Holding(ops) \ {<<d, m>>}
    <2>1. ASSUME NEW e \in Client, NEW mm \in ChanName
          PROVE  <<e, mm>> \in Holding(ops)' <=>
                   <<e, mm>> \in Holding(ops) \ {<<d, m>>}
      <3>1. <<e, mm>> \in Holding(ops)' <=>
              e \in conn /\ chan'[mm] # NoChan /\ nick[e] \in ops'[chan'[mm]]
        BY <1>2, <1>8 DEF PairFacts
      <3>2. <<e, mm>> \in Holding(ops) <=>
              e \in conn /\ chan[mm] # NoChan /\ nick[e] \in ops[chan[mm]]
        BY <1>8 DEF PairFacts
      <3>3. CASE mm # m
        BY <1>3, <1>4, <3>1, <3>2, <3>3
      <3>4. CASE mm = m
        BY <1>3, <1>5, <1>7, <3>1, <3>2, <3>4
      <3> QED BY <3>3, <3>4
    <2>2. /\ Holding(ops) \ {<<d, m>>} \in SUBSET (Client \X ChanName)
          /\ Holding(ops)' \in SUBSET (Client \X ChanName)
      BY <1>8 DEF PairFacts
    <2> QED BY <2>1, <2>2, SamePairs
  <1>11. Holding(voiced)' = Holding(voiced) \ {<<d, m>>}
    <2>1. ASSUME NEW e \in Client, NEW mm \in ChanName
          PROVE  <<e, mm>> \in Holding(voiced)' <=>
                   <<e, mm>> \in Holding(voiced) \ {<<d, m>>}
      <3>1. <<e, mm>> \in Holding(voiced)' <=>
              e \in conn /\ chan'[mm] # NoChan /\ nick[e] \in voiced'[chan'[mm]]
        BY <1>2, <1>8 DEF PairFacts
      <3>2. <<e, mm>> \in Holding(voiced) <=>
              e \in conn /\ chan[mm] # NoChan /\ nick[e] \in voiced[chan[mm]]
        BY <1>8 DEF PairFacts
      <3>3. CASE mm # m
        BY <1>3, <1>4, <3>1, <3>2, <3>3
      <3>4. CASE mm = m
        BY <1>3, <1>5, <1>7, <3>1, <3>2, <3>4
      <3> QED BY <3>3, <3>4
    <2>2. /\ Holding(voiced) \ {<<d, m>>} \in SUBSET (Client \X ChanName)
          /\ Holding(voiced)' \in SUBSET (Client \X ChanName)
      BY <1>8 DEF PairFacts
    <2> QED BY <2>1, <2>2, SamePairs
  <1>12. Exists' = IF \E e \in Client : <<e, m>> \in On'
                   THEN Exists ELSE Exists \ {m}
    <2>1. \A e \in Client : <<e, m>> \in On' <=> joined[e][m] # NoChan /\ e # d
      BY <1>3, <1>8 DEF PairFacts
    <2>2. CASE emptied
      <3>1. \A e \in Client : joined[e][m] # NoChan => e = d
        BY <1>5, <1>6, <2>2 DEF OneRelation
      <3>2. ~\E e \in Client : <<e, m>> \in On'
        BY <2>1, <3>1
      <3>3. Exists' = Exists \ {m}
        BY <1>3, <2>2 DEF Exists
      <3> QED BY <3>2, <3>3
    <2>3. CASE ~emptied
      <3>1. PICK kk \in Keys(o) : kk # k
        BY <2>3
      <3>2. PICK e \in conn : nick[e] = kk /\ joined[e][m] # NoChan
        BY <1>6, <3>1 DEF OneRelation, Keys
      <3>3. e \in Client /\ <<e, m>> \in On'
        BY <2>1, <3>1, <3>2 DEF RegInv, RegTypeOK
      <3>4. Exists' = Exists
        BY <1>2, <2>3 DEF Exists
      <3> QED BY <3>3, <3>4
    <2> QED BY <2>2, <2>3
  <1> HIDE DEF k, o, emptied
  <1> QED
    BY <1>2, <1>9, <1>10, <1>11, <1>12
    DEF Board!Leave, Board!Without, Kept, Exists, On

LEMMA DropIsDisconnect ==
  ASSUME ChInv, ChInv', abandoned = {}, NEW c \in Client, Drop(c)
  PROVE  Board!Disconnect(c)
  <1> USE DEF ChInv
  <1>1. /\ c \in conn /\ conn' = conn \ {c}
        /\ nick' = [nick EXCEPT ![c] = NoNick]
        /\ joined' = [joined EXCEPT ![c] = [m \in ChanName |-> NoChan]]
        /\ UNCHANGED <<chan, abandoned>>
    BY DEF Drop, RemoveClient
  <1>2. ASSUME NEW e \in conn, e # c, NEW o \in ChanObj
        PROVE  /\ nick'[e] = nick[e]
               /\ nick'[e] \in ops'[o] <=> nick[e] \in ops[o]
               /\ nick'[e] \in voiced'[o] <=> nick[e] \in voiced[o]
    <2>1. nick'[e] = nick[e]
      BY <1>1, <1>2 DEF RegInv, RegTypeOK
    <2>2. nick[e] \in Nick => nick[e] # nick[c]
      BY <1>1, <1>2, RegistrationAssumption DEF RegInv, NickUnique
    <2>3. /\ ops'[o] = ops[o] \/ ops'[o] = ops[o] \ {nick[c]}
          /\ voiced'[o] = voiced[o] \/ voiced'[o] = voiced[o] \ {nick[c]}
      BY DEF Drop
    <2>4. ops[o] \subseteq Nick /\ voiced[o] \subseteq Nick
      BY DEF ChTypeOK
    <2> QED BY <2>1, <2>2, <2>3, <2>4
  <1>3. PairFacts /\ PairFacts'
    BY PairsAre, PairsStay
  <1>4. \A m \in ChanName : chan[m] # NoChan => chan[m] \in ChanObj
    BY DEF ChTypeOK
  <1>5. On' = On \ ({c} \X ChanName)
    <2>1. \A e \in Client, m \in ChanName :
            joined'[e][m] = IF e = c THEN NoChan ELSE joined[e][m]
      BY <1>1 DEF ChTypeOK
    <2>2. ASSUME NEW e \in Client, NEW m \in ChanName
          PROVE  <<e, m>> \in On' <=> <<e, m>> \in On \ ({c} \X ChanName)
      <3>1. /\ <<e, m>> \in On <=> joined[e][m] # NoChan
            /\ <<e, m>> \in On' <=> joined'[e][m] # NoChan
        BY <1>3 DEF PairFacts
      <3> QED BY <2>1, <3>1
    <2>3. /\ On \ ({c} \X ChanName) \in SUBSET (Client \X ChanName)
          /\ On' \in SUBSET (Client \X ChanName)
      BY <1>3 DEF PairFacts
    <2> QED BY <2>2, <2>3, SamePairs
  <1>6. Holding(ops)' = Holding(ops) \ ({c} \X ChanName)
    <2>1. ASSUME NEW e \in Client, NEW m \in ChanName
          PROVE  <<e, m>> \in Holding(ops)' <=>
                   <<e, m>> \in Holding(ops) \ ({c} \X ChanName)
      <3>1. <<e, m>> \in Holding(ops)' <=>
              e \in conn \ {c} /\ chan[m] # NoChan /\ nick'[e] \in ops'[chan[m]]
        BY <1>1, <1>3 DEF PairFacts
      <3>2. <<e, m>> \in Holding(ops) <=>
              e \in conn /\ chan[m] # NoChan /\ nick[e] \in ops[chan[m]]
        BY <1>3 DEF PairFacts
      <3> QED BY <1>2, <1>4, <3>1, <3>2
    <2>2. /\ Holding(ops) \ ({c} \X ChanName) \in SUBSET (Client \X ChanName)
          /\ Holding(ops)' \in SUBSET (Client \X ChanName)
      BY <1>3 DEF PairFacts
    <2> QED BY <2>1, <2>2, SamePairs
  <1>7. Holding(voiced)' = Holding(voiced) \ ({c} \X ChanName)
    <2>1. ASSUME NEW e \in Client, NEW m \in ChanName
          PROVE  <<e, m>> \in Holding(voiced)' <=>
                   <<e, m>> \in Holding(voiced) \ ({c} \X ChanName)
      <3>1. <<e, m>> \in Holding(voiced)' <=>
              /\ e \in conn \ {c} /\ chan[m] # NoChan
              /\ nick'[e] \in voiced'[chan[m]]
        BY <1>1, <1>3 DEF PairFacts
      <3>2. <<e, m>> \in Holding(voiced) <=>
              e \in conn /\ chan[m] # NoChan /\ nick[e] \in voiced[chan[m]]
        BY <1>3 DEF PairFacts
      <3> QED BY <1>2, <1>4, <3>1, <3>2
    <2>2. /\ Holding(voiced) \ ({c} \X ChanName) \in SUBSET (Client \X ChanName)
          /\ Holding(voiced)' \in SUBSET (Client \X ChanName)
      BY <1>3 DEF PairFacts
    <2> QED BY <2>1, <2>2, SamePairs
  <1>8. Exists' = Exists
    BY <1>1 DEF Exists
  <1> QED
    BY <1>1, <1>5, <1>6, <1>7, <1>8
    DEF Board!Disconnect, Board!Without, Kept, Exists, On

LEMMA SetOpIsSetRole ==
  ASSUME ChInv, ChInv', abandoned = {}, NEW n \in Nick, NEW adding \in BOOLEAN,
         SetOp(n, adding)
  PROVE  \E p \in On : Board!SetRole(p)
  <1> USE DEF ChInv
  <1>1. /\ modeOn # NoChan
        /\ n \in IF adding THEN Keys(modeOn) ELSE ops[modeOn]
        /\ ops' = [ops EXCEPT ![modeOn] =
                     IF adding THEN @ \cup {n} ELSE @ \ {n}]
        /\ UNCHANGED <<conn, nick, chan, voiced, joined, abandoned>>
    BY DEF SetOp, Accepted, regVars, NoRename
  <1>2. PICK m \in ChanName : chan[m] = modeOn
    BY <1>1 DEF MapInv, ModeOnLive, Live
  <1>3. modeOn \in ChanObj /\ n \in Keys(modeOn)
    BY <1>1 DEF ChTypeOK, MapInv, RolesHeldByMembers
  <1>4. PICK e \in conn : nick[e] = n /\ joined[e][m] # NoChan
    BY <1>1, <1>2, <1>3, MapsAreOneRelation DEF RelationKept, OneRelation
  <1>5. e \in Client /\ \A d \in conn : nick[d] = n => d = e
    BY <1>4, RegistrationAssumption DEF RegInv, RegTypeOK, NickUnique
  <1>6. PairFacts /\ PairFacts'
    BY PairsAre, PairsStay
  <1> DEFINE p == <<e, m>>
             changed == IF adding THEN Holding(ops) \cup {p} ELSE Holding(ops) \ {p}
  <1>7. p \in On
    BY <1>4, <1>5, <1>6 DEF PairFacts
  <1>8. Holding(ops)' = changed
    <2>1. ASSUME NEW d \in Client, NEW mm \in ChanName
          PROVE  <<d, mm>> \in Holding(ops)' <=> <<d, mm>> \in changed
      <3>1. <<d, mm>> \in Holding(ops)' <=>
              d \in conn /\ chan[mm] # NoChan /\ nick[d] \in ops'[chan[mm]]
        BY <1>1, <1>6 DEF PairFacts
      <3>2. <<d, mm>> \in Holding(ops) <=>
              d \in conn /\ chan[mm] # NoChan /\ nick[d] \in ops[chan[mm]]
        BY <1>6 DEF PairFacts
      <3>3. CASE mm = m
        <4>1. ops'[chan[m]] = IF adding THEN ops[chan[m]] \cup {n}
                                        ELSE ops[chan[m]] \ {n}
          BY <1>1, <1>2, <1>3 DEF ChTypeOK
        <4> QED BY <1>1, <1>2, <1>4, <1>5, <3>1, <3>2, <3>3, <4>1
      <3>4. CASE mm # m
        <4>1. chan[mm] # NoChan => chan[mm] \in ChanObj /\ chan[mm] # modeOn
          BY <1>1, <1>2, <3>4 DEF MapInv, OneNamePerObject, ChTypeOK
        <4>2. chan[mm] # NoChan => ops'[chan[mm]] = ops[chan[mm]]
          BY <1>1, <4>1 DEF ChTypeOK
        <4> QED BY <3>1, <3>2, <3>4, <4>2
      <3> QED BY <3>3, <3>4
    <2>2. changed \in SUBSET (Client \X ChanName)
      BY <1>6, <1>7 DEF PairFacts
    <2>3. Holding(ops)' \in SUBSET (Client \X ChanName)
      BY <1>6 DEF PairFacts
    <2> HIDE DEF changed
    <2> QED BY <2>1, <2>2, <2>3, SamePairs
  <1>9. /\ Exists' = Exists /\ On' = On
        /\ Holding(voiced)' = Holding(voiced)
    BY <1>1 DEF Exists, On, Holding
  <1>10. Holding(ops)' \in {Holding(ops) \cup {p}, Holding(ops) \ {p}}
    BY <1>8
  <1> HIDE DEF p, changed
  <1>11. Board!SetRole(p)
    BY <1>1, <1>7, <1>9, <1>10 DEF Board!SetRole, Kept, Exists, On
  <1> QED BY <1>7, <1>11

LEMMA SetVoiceIsSetRole ==
  ASSUME ChInv, ChInv', abandoned = {}, NEW n \in Nick, NEW adding \in BOOLEAN,
         SetVoice(n, adding)
  PROVE  \E p \in On : Board!SetRole(p)
  <1> USE DEF ChInv
  <1>1. /\ modeOn # NoChan
        /\ n \in IF adding THEN Keys(modeOn) ELSE voiced[modeOn]
        /\ voiced' = [voiced EXCEPT ![modeOn] =
                     IF adding THEN @ \cup {n} ELSE @ \ {n}]
        /\ UNCHANGED <<conn, nick, chan, ops, joined, abandoned>>
    BY DEF SetVoice, Accepted, regVars, NoRename
  <1>2. PICK m \in ChanName : chan[m] = modeOn
    BY <1>1 DEF MapInv, ModeOnLive, Live
  <1>3. modeOn \in ChanObj /\ n \in Keys(modeOn)
    BY <1>1 DEF ChTypeOK, MapInv, RolesHeldByMembers
  <1>4. PICK e \in conn : nick[e] = n /\ joined[e][m] # NoChan
    BY <1>1, <1>2, <1>3, MapsAreOneRelation DEF RelationKept, OneRelation
  <1>5. e \in Client /\ \A d \in conn : nick[d] = n => d = e
    BY <1>4, RegistrationAssumption DEF RegInv, RegTypeOK, NickUnique
  <1>6. PairFacts /\ PairFacts'
    BY PairsAre, PairsStay
  <1> DEFINE p == <<e, m>>
             changed == IF adding THEN Holding(voiced) \cup {p} ELSE Holding(voiced) \ {p}
  <1>7. p \in On
    BY <1>4, <1>5, <1>6 DEF PairFacts
  <1>8. Holding(voiced)' = changed
    <2>1. ASSUME NEW d \in Client, NEW mm \in ChanName
          PROVE  <<d, mm>> \in Holding(voiced)' <=> <<d, mm>> \in changed
      <3>1. <<d, mm>> \in Holding(voiced)' <=>
              d \in conn /\ chan[mm] # NoChan /\ nick[d] \in voiced'[chan[mm]]
        BY <1>1, <1>6 DEF PairFacts
      <3>2. <<d, mm>> \in Holding(voiced) <=>
              d \in conn /\ chan[mm] # NoChan /\ nick[d] \in voiced[chan[mm]]
        BY <1>6 DEF PairFacts
      <3>3. CASE mm = m
        <4>1. voiced'[chan[m]] = IF adding THEN voiced[chan[m]] \cup {n}
                                        ELSE voiced[chan[m]] \ {n}
          BY <1>1, <1>2, <1>3 DEF ChTypeOK
        <4> QED BY <1>1, <1>2, <1>4, <1>5, <3>1, <3>2, <3>3, <4>1
      <3>4. CASE mm # m
        <4>1. chan[mm] # NoChan => chan[mm] \in ChanObj /\ chan[mm] # modeOn
          BY <1>1, <1>2, <3>4 DEF MapInv, OneNamePerObject, ChTypeOK
        <4>2. chan[mm] # NoChan => voiced'[chan[mm]] = voiced[chan[mm]]
          BY <1>1, <4>1 DEF ChTypeOK
        <4> QED BY <3>1, <3>2, <3>4, <4>2
      <3> QED BY <3>3, <3>4
    <2>2. changed \in SUBSET (Client \X ChanName)
      BY <1>6, <1>7 DEF PairFacts
    <2>3. Holding(voiced)' \in SUBSET (Client \X ChanName)
      BY <1>6 DEF PairFacts
    <2> HIDE DEF changed
    <2> QED BY <2>1, <2>2, <2>3, SamePairs
  <1>9. /\ Exists' = Exists /\ On' = On
        /\ Holding(ops)' = Holding(ops)
    BY <1>1 DEF Exists, On, Holding
  <1>10. Holding(voiced)' \in {Holding(voiced) \cup {p}, Holding(voiced) \ {p}}
    BY <1>8
  <1> HIDE DEF p, changed
  <1>11. Board!SetRole(p)
    BY <1>1, <1>7, <1>9, <1>10 DEF Board!SetRole, Kept, Exists, On
  <1> QED BY <1>7, <1>11

-----------------------------------------------------------------------------

\* While no nickname was given up on a channel, each command is one step of
\* Membership.
LEMMA PromisedStep ==
  ASSUME ChInv, ChInv', [Next]_vars, abandoned = {}, abandoned' = {}
  PROVE  [Board!Next]_(Board!vars)
  <1>0. conn \subseteq Client /\ On = Kept(On)
    BY DEF ChInv, RegInv, RegTypeOK, Kept
  <1>1. ASSUME NEW c \in Client, NEW m \in ChanName, NEW o \in ChanObj,
               NEW given \in Key \cup {NoKey}, CreateChannel(c, m, o, given)
        PROVE  Board!Next
    BY <1>1, CreateIsCreate DEF Board!Next
  <1>2. ASSUME NEW c \in Client, NEW m \in ChanName,
               NEW given \in Key \cup {NoKey}, JoinChannel(c, m, given)
        PROVE  Board!Next
    BY <1>2, JoinIsEnter DEF Board!Next
  <1>3. ASSUME NEW c \in Client, NEW m \in ChanName, HandlePart(c, m)
        PROVE  Board!Next
    <2>1. /\ c \in conn /\ chan[m] # NoChan /\ nick[c] \in Keys(chan[m])
          /\ Leave(c, m) /\ UNCHANGED <<regVars, abandoned>>
      BY <1>3 DEF HandlePart, Sends, IsClient, NoRename
    <2> QED BY <2>1, LeaveIsLeave DEF Board!Next
  <1>4. ASSUME NEW c \in Client, NEW m \in ChanName, NEW t \in Nick,
               HandleKick(c, m, t)
        PROVE  Board!Next
    <2> DEFINE d == GetClientByNickname(t)
    <2>1. d \in conn /\ nick[d] = t
      BY <1>4, LookupByNickname DEF HandleKick, ChInv, RegInv
    <2>2. /\ chan[m] # NoChan /\ nick[d] \in Keys(chan[m])
          /\ Leave(d, m) /\ UNCHANGED <<regVars, abandoned>>
      BY <1>4, <2>1 DEF HandleKick, NoRename
    <2> HIDE DEF d
    <2> QED BY <2>1, <2>2, LeaveIsLeave DEF Board!Next
  <1>5. ASSUME NEW c \in Client, NEW m \in ChanName,
               \/ \E n \in Nick : HandleInvite(c, n, m)
               \/ \E topic \in Topic \cup {NoTopic} : HandleTopic(c, m, topic)
               \/ BeginMode(c, m)
        PROVE  UNCHANGED Board!vars
    BY <1>5, NothingMoves
    DEF HandleInvite, HandleTopic, BeginMode, regVars, NoRename
  <1>6. ASSUME NEW c \in Client, ChannelCommand(c)
        PROVE  Board!Next \/ UNCHANGED Board!vars
    BY <1>6, <1>1, <1>2, <1>3, <1>4, <1>5 DEF ChannelCommand
  <1>7. ASSUME NEW c \in Client, HandleQuit(c) \/ LoseConnection(c)
        PROVE  Board!Next
    BY <1>7, DropIsDisconnect DEF HandleQuit, LoseConnection, Board!Next
  <1>8. ASSUME NEW c \in Client, Query(c) PROVE UNCHANGED Board!vars
    <2>1. Reads(c)
      BY <1>8 DEF Query, HandlePrivmsg, HandleWhoChannel, HandleWhoClient,
                  HandleWhois
    <2> QED BY <2>1, NothingMoves DEF Reads, regVars, NoRename
  <1>9. CASE ModeStep
    <2>1. ASSUME NEW n \in Nick, NEW adding \in BOOLEAN,
                 SetOp(n, adding) \/ SetVoice(n, adding)
          PROVE  Board!Next
      <3>1. PICK p \in On : Board!SetRole(p)
        BY <2>1, SetOpIsSetRole, SetVoiceIsSetRole
      <3> QED BY <1>0, <3>1 DEF Board!Next, On
    <2>2. CASE UNCHANGED <<ops, voiced>>
      <3>1. UNCHANGED <<conn, nick, chan, joined, abandoned>>
        BY <1>9 DEF ModeStep, SetFlag, SetKey, SetLimit, SetOp, SetVoice,
                    SetBan, EndMode, Accepted, regVars, NoRename
      <3> QED BY <2>2, <3>1, NothingMoves
    <2> QED
      BY <1>9, <2>1, <2>2 DEF ModeStep, SetFlag, SetKey, SetLimit, SetBan, EndMode
  <1>10. CASE UNCHANGED vars
    BY <1>10, NothingMoves DEF vars, regVars, chVars
  <1>11. CASE RestOfRead
    <2>1. QuitLast
      BY <1>11 DEF RestOfRead, QuitThenCreate, QuitThenJoin, LateEntry
    <2> QED BY <2>1, NothingMoves DEF QuitLast, EndRead, regVars
  <1> QED
    BY <1>6, <1>7, <1>8, <1>9, <1>10, <1>11, RegistrationIsConnect,
       RenameOffChannels
    DEF Next

\* A nickname is given up on a channel by NICK, or by JOIN behind QUIT, and
\* neither connects or disconnects anybody.
LEMMA GivenUp ==
  ASSUME [Next]_vars, abandoned' # abandoned
  PROVE  conn' = conn
  <1>1. ASSUME NEW c \in Client, NEW n \in Nick, ChangeNick(c, n)
        PROVE  conn' = conn
    BY <1>1 DEF ChangeNick, HandleNick
  <1>2. ASSUME NEW c \in Client, RegistrationCommand(c) PROVE FALSE
    BY <1>2 DEF RegistrationCommand, chVars
  <1>3. ASSUME NEW c \in Client, ChannelCommand(c) \/ Query(c)
        PROVE  conn' = conn
    BY <1>3 DEF ChannelCommand, CreateChannel, JoinChannel, HandlePart,
                HandleKick, HandleInvite, HandleTopic, BeginMode, regVars,
                Query, HandlePrivmsg, HandleWhoChannel, HandleWhoClient,
                HandleWhois, Reads
  <1>4. ASSUME NEW c \in Client, HandleQuit(c) \/ LoseConnection(c) PROVE FALSE
    BY <1>4 DEF HandleQuit, LoseConnection, Drop
  <1>5. CASE ModeStep
    BY <1>5 DEF ModeStep, SetFlag, SetKey, SetLimit, SetOp, SetVoice, SetBan,
                EndMode, Accepted, regVars
  <1>6. CASE UNCHANGED vars
    BY <1>6 DEF vars, chVars
  <1>7. CASE RestOfRead
    BY <1>7 DEF RestOfRead, QuitLast, QuitThenCreate, QuitThenJoin, EndRead,
                regVars
  <1> QED BY <1>1, <1>2, <1>3, <1>4, <1>5, <1>6, <1>7 DEF Next

LEMMA BoardStep == ChInv /\ ChInv' /\ [Next]_vars => [Board!Next]_(Board!vars)
  <1> SUFFICES ASSUME ChInv, ChInv', [Next]_vars PROVE [Board!Next]_(Board!vars)
    OBVIOUS
  <1>1. CASE abandoned' = {}
    BY <1>1, AbandonedGrows, PromisedStep
  <1>2. CASE abandoned = {} /\ abandoned' # {}
    <2>1. conn' = conn
      BY <1>2, GivenUp
    <2>2. Board!Broken
      BY <1>2, <2>1 DEF Board!Broken, Kept
    <2> QED BY <2>2 DEF Board!Next
  <1>3. CASE abandoned # {} /\ abandoned' # {}
    <2>1. conn' \in SUBSET Client
      BY DEF ChInv, RegInv, RegTypeOK
    <2>2. Board!Unpromised
      BY <1>3, <2>1 DEF Board!Unpromised, Board!roles, Kept
    <2> QED BY <2>2 DEF Board!Next
  <1> QED BY <1>1, <1>2, <1>3

LEMMA BoardInit == Init => Board!Init
  <1> SUFFICES ASSUME Init PROVE Board!Init
    OBVIOUS
  <1>1. conn = {} /\ abandoned = {}
    BY DEF Init, RegInit
  <1>2. Exists = {} /\ On = {}
    BY DEF Init, Exists, On
  <1>3. Holding(ops) = {} /\ Holding(voiced) = {}
    BY <1>1 DEF Holding
  <1> QED BY <1>1, <1>2, <1>3 DEF Board!Init, Kept, Exists, On

\* Until somebody renames itself on a channel, or joins one behind its QUIT, the
\* server's maps behave as one relation between clients and channels, for any
\* number of either.
THEOREM ImplementsMembership == Spec => OneMembership
  BY BoardInit, BoardStep, ChInvariance, PTL DEF Spec, OneMembership, Board!Spec
=============================================================================
