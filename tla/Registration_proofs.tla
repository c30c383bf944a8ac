------------------------ MODULE Registration_proofs ------------------------
(* Theorems about Registration, for every set of clients, nicknames, user  *)
(* names and passwords.                                                    *)
EXTENDS Registration, TLAPS

\* The model's convention on addresses that are not in use, which is what
\* makes a client accepted at a reused address start from nothing.
FreedIsFresh ==
  \A c \in Client \ conn :
    /\ auth[c] = FALSE /\ nick[c] = NoNick /\ user[c] = NoIdent
    /\ real[c] = FALSE /\ registered[c] = FALSE /\ oper[c] = FALSE

\* Who became an operator by OPER is one: the history forgets a client that
\* loses the status, so that a later gain shows.
OperedAreOpers == \A c \in opered : oper[c]

\* The inductive invariant.
RegInv ==
  RegTypeOK /\ FreedIsFresh /\ OperedAreOpers /\ NickUnique /\ RegisteredIffComplete

-----------------------------------------------------------------------------
\* What the lookup by nickname returns: the one client that has it, and no
\* client exactly when nobody has it.
LEMMA LookupByNickname ==
  ASSUME RegTypeOK, NickUnique, NEW n \in Nick
  PROVE  /\ GetClientByNickname(n) = NoClient =>
              \A d \in conn : nick[d] # n
         /\ GetClientByNickname(n) # NoClient =>
              /\ GetClientByNickname(n) \in conn
              /\ nick[GetClientByNickname(n)] = n
         /\ \A d \in conn : nick[d] = n => GetClientByNickname(n) = d
  <1>1. NoClient \notin conn
    BY RegistrationAssumption DEF RegTypeOK
  <1>2. n # NoNick
    BY RegistrationAssumption
  <1>3. CASE HoldersOf(n) = {}
    BY <1>1, <1>3 DEF GetClientByNickname, HoldersOf
  <1>4. CASE HoldersOf(n) # {}
    <2> DEFINE g == GetClientByNickname(n)
    <2>1. g = CHOOSE c \in HoldersOf(n) : TRUE
      BY <1>4 DEF GetClientByNickname
    <2>2. g \in HoldersOf(n)
      BY <1>4, <2>1
    <2>3. g \in conn /\ nick[g] = n
      BY <2>2 DEF HoldersOf
    <2>4. \A d \in conn : nick[d] = n => g = d
      BY <2>3, <1>2 DEF NickUnique
    <2> QED BY <2>3, <2>4, <1>1
  <1> QED BY <1>3, <1>4

-----------------------------------------------------------------------------
LEMMA RegInitInv == RegInit => RegInv
  BY DEF RegInit, RegInv, RegTypeOK, FreedIsFresh, OperedAreOpers, NickUnique,
         RegisteredIffComplete

LEMMA RegNextInv == RegInv /\ [RegNext]_regVars => RegInv'
  <1> SUFFICES ASSUME RegInv, [RegNext]_regVars PROVE RegInv'
    OBVIOUS
  <1> USE DEF RegInv
  <1>1. ASSUME NEW c \in Client, AcceptNewConnection(c) PROVE RegInv'
    <2> USE <1>1 DEF AcceptNewConnection
    <2>1. RegTypeOK'
      BY DEF RegTypeOK
    <2>2. FreedIsFresh'
      BY DEF FreedIsFresh
    <2>3. NickUnique'
      BY DEF FreedIsFresh, NickUnique
    <2>4. RegisteredIffComplete'
      BY DEF FreedIsFresh, RegisteredIffComplete, Complete
    <2>5. OperedAreOpers'
      BY DEF OperedAreOpers
    <2> QED BY <2>1, <2>2, <2>3, <2>4, <2>5
  <1>2. ASSUME NEW c \in Client, NEW given \in Password, HandlePass(c, given)
        PROVE  RegInv'
    <2> USE <1>2 DEF HandlePass
    <2>1. RegTypeOK'
      BY DEF RegTypeOK, RegisterClient, Complete
    <2>2. FreedIsFresh'
      BY DEF RegTypeOK, FreedIsFresh, RegisterClient
    <2>3. NickUnique'
      BY DEF NickUnique
    <2>4. RegisteredIffComplete'
      BY DEF RegTypeOK, RegisterClient, RegisteredIffComplete, Complete
    <2>5. OperedAreOpers'
      BY DEF OperedAreOpers
    <2> QED BY <2>1, <2>2, <2>3, <2>4, <2>5
  <1>3. ASSUME NEW c \in Client, NEW n \in Nick, HandleNick(c, n)
        PROVE  RegInv'
    <2> USE <1>3 DEF HandleNick
    <2>1. RegTypeOK'
      BY DEF RegTypeOK, RegisterClient, Complete
    <2>2. FreedIsFresh'
      BY DEF RegTypeOK, FreedIsFresh, RegisterClient
    <2>3. NickUnique'
      <3>1. \A d \in conn : nick[d] = n => d = c
        BY LookupByNickname
      <3> QED BY <3>1 DEF NickUnique, RegTypeOK
    <2>4. RegisteredIffComplete'
      <3>1. n # NoNick
        BY RegistrationAssumption
      <3> QED
        BY <3>1 DEF RegTypeOK, RegisterClient, RegisteredIffComplete, Complete
    <2>5. OperedAreOpers'
      BY DEF OperedAreOpers
    <2> QED BY <2>1, <2>2, <2>3, <2>4, <2>5
  <1>4. ASSUME NEW c \in Client, NEW name \in Ident, NEW hasReal \in BOOLEAN,
               HandleUser(c, name, hasReal)
        PROVE  RegInv'
    <2> USE <1>4 DEF HandleUser
    <2>1. RegTypeOK'
      BY DEF RegTypeOK, RegisterClient, Complete
    <2>2. FreedIsFresh'
      BY DEF RegTypeOK, FreedIsFresh, RegisterClient
    <2>3. NickUnique'
      BY DEF NickUnique
    <2>4. RegisteredIffComplete'
      BY DEF RegTypeOK, RegisterClient, RegisteredIffComplete, Complete
    <2>5. OperedAreOpers'
      BY DEF OperedAreOpers
    <2> QED BY <2>1, <2>2, <2>3, <2>4, <2>5
  <1>5. ASSUME NEW c \in Client, HandleOper(c) PROVE RegInv'
    BY <1>5 DEF HandleOper, RegTypeOK, FreedIsFresh, OperedAreOpers,
                NickUnique, RegisteredIffComplete
  <1>6. ASSUME NEW c \in Client, NEW n \in Nick, NEW adding \in BOOLEAN,
               HandleUserMode(c, n, adding)
        PROVE  RegInv'
    <2> DEFINE t == GetClientByNickname(n)
    <2>1. t \in conn
      BY <1>6, LookupByNickname DEF HandleUserMode
    <2> HIDE DEF t
    <2>2. /\ oper' = [oper EXCEPT ![t] = adding]
          /\ opered' = IF adding THEN opered ELSE opered \ {t}
          /\ UNCHANGED <<conn, auth, nick, user, real, registered>>
      BY <1>6 DEF HandleUserMode, t
    <2> QED
      BY <2>1, <2>2 DEF RegTypeOK, FreedIsFresh, OperedAreOpers, NickUnique,
                        RegisteredIffComplete
  <1>7. ASSUME NEW c \in Client, RemoveClient(c) PROVE RegInv'
    <2> USE <1>7 DEF RemoveClient
    <2>1. RegTypeOK'
      BY DEF RegTypeOK
    <2>2. FreedIsFresh'
      BY DEF RegTypeOK, FreedIsFresh
    <2>3. NickUnique'
      BY DEF RegTypeOK, NickUnique
    <2>4. RegisteredIffComplete'
      BY DEF RegTypeOK, RegisteredIffComplete, Complete
    <2>5. OperedAreOpers'
      BY DEF RegTypeOK, OperedAreOpers
    <2> QED BY <2>1, <2>2, <2>3, <2>4, <2>5
  <1>8. CASE UNCHANGED regVars
    BY <1>8 DEF regVars, RegTypeOK, FreedIsFresh, OperedAreOpers,
                NickUnique, RegisteredIffComplete
  <1> QED
    BY <1>1, <1>2, <1>3, <1>4, <1>5, <1>6, <1>7, <1>8 DEF RegNext

\* Every reachable state satisfies the inductive invariant.
THEOREM RegInvariance == RegSpec => []RegInv
  BY RegInitInv, RegNextInv, PTL DEF RegSpec

\* The fields of a Client keep their types.
THEOREM RegTypeCorrect == RegSpec => []RegTypeOK
  BY RegInvariance, PTL DEF RegInv

\* NICK's lookup keeps nicknames unique among all connections, registered or
\* not, so that the lookup itself is never ambiguous.
THEOREM NicknamesAreUnique == RegSpec => []NickUnique
  BY RegInvariance, PTL DEF RegInv

\* PASS, NICK and USER in any order and any number: registered exactly when
\* complete.
THEOREM RegistrationIsComplete == RegSpec => []RegisteredIffComplete
  BY RegInvariance, PTL DEF RegInv

\* Registration and the user name last as long as the connection.
THEOREM IdentityIsFrozen == RegSpec => IdentityFrozen
  <1> DEFINE Frozen == \A c \in conn \cap conn' :
                registered[c] => registered'[c] /\ user'[c] = user[c]
  <1>1. ASSUME RegInv, [RegNext]_regVars PROVE [Frozen]_regVars
    <2> SUFFICES ASSUME RegNext, NEW d \in conn \cap conn', registered[d]
                 PROVE  registered'[d] /\ user'[d] = user[d]
      BY <1>1
    <2> USE <1>1 DEF RegInv, RegTypeOK
    <2>1. ASSUME NEW c \in Client, AcceptNewConnection(c)
          PROVE  registered'[d] /\ user'[d] = user[d]
      BY <2>1 DEF AcceptNewConnection
    <2>2. ASSUME NEW c \in Client, NEW given \in Password, HandlePass(c, given)
          PROVE  registered'[d] /\ user'[d] = user[d]
      BY <2>2 DEF HandlePass, RegisterClient
    <2>3. ASSUME NEW c \in Client, NEW n \in Nick, HandleNick(c, n)
          PROVE  registered'[d] /\ user'[d] = user[d]
      BY <2>3 DEF HandleNick, RegisterClient
    <2>4. ASSUME NEW c \in Client, NEW name \in Ident, NEW hasReal \in BOOLEAN,
                 HandleUser(c, name, hasReal)
          PROVE  registered'[d] /\ user'[d] = user[d]
      BY <2>4 DEF HandleUser, RegisterClient
    <2>5. ASSUME NEW c \in Client, HandleOper(c)
          PROVE  registered'[d] /\ user'[d] = user[d]
      BY <2>5 DEF HandleOper
    <2>6. ASSUME NEW c \in Client, NEW n \in Nick, NEW adding \in BOOLEAN,
                 HandleUserMode(c, n, adding)
          PROVE  registered'[d] /\ user'[d] = user[d]
      BY <2>6 DEF HandleUserMode
    <2>7. ASSUME NEW c \in Client, RemoveClient(c)
          PROVE  registered'[d] /\ user'[d] = user[d]
      BY <2>7 DEF RemoveClient
    <2> QED
      BY <2>1, <2>2, <2>3, <2>4, <2>5, <2>6, <2>7 DEF RegNext
  <1> QED
    BY <1>1, RegInvariance, PTL DEF RegSpec, IdentityFrozen

\* IRC-operator status comes by the client's own OPER in that step or from
\* another registered operator.
THEOREM OperComesFromOper == RegSpec => OperFromOper
  <1> DEFINE Given == \A c \in conn' :
                oper'[c] /\ ~oper[c] =>
                  \/ c \in opered' \ opered /\ registered[c]
                  \/ \E d \in conn \ {c} : oper[d] /\ registered[d]
  <1>1. ASSUME RegInv, [RegNext]_regVars PROVE [Given]_regVars
    <2> SUFFICES ASSUME RegNext, NEW e \in conn', oper'[e], ~oper[e]
                 PROVE  \/ e \in opered' \ opered /\ registered[e]
                        \/ \E d \in conn \ {e} : oper[d] /\ registered[d]
      BY <1>1
    <2> USE <1>1 DEF RegInv, RegTypeOK
    <2>1. ASSUME NEW c \in Client, HandleOper(c)
          PROVE  e \in opered' \ opered /\ registered[e]
      BY <2>1 DEF HandleOper, OperedAreOpers
    <2>2. ASSUME NEW c \in Client, NEW n \in Nick, NEW adding \in BOOLEAN,
                 HandleUserMode(c, n, adding)
          PROVE  \E d \in conn \ {e} : oper[d] /\ registered[d]
      <3> DEFINE t == GetClientByNickname(n)
      <3>1. t \in conn
        BY <2>2, LookupByNickname DEF HandleUserMode
      <3> HIDE DEF t
      <3>2. /\ c \in conn /\ registered[c]
            /\ IF adding THEN oper[c] /\ c # t ELSE oper[c] \/ c = t
            /\ oper' = [oper EXCEPT ![t] = adding]
            /\ conn' = conn
        BY <2>2 DEF HandleUserMode, t
      <3>3. e = t /\ adding = TRUE
        BY <3>1, <3>2
      <3> QED BY <3>2, <3>3
    <2>3. ASSUME NEW c \in Client,
                 \/ AcceptNewConnection(c)
                 \/ \E given \in Password : HandlePass(c, given)
                 \/ \E n \in Nick : HandleNick(c, n)
                 \/ \E name \in Ident, hasReal \in BOOLEAN :
                      HandleUser(c, name, hasReal)
                 \/ RemoveClient(c)
          PROVE  FALSE
      BY <2>3 DEF AcceptNewConnection, HandlePass, HandleNick, HandleUser,
                  RemoveClient
    <2> QED
      BY <2>1, <2>2, <2>3 DEF RegNext
  <1> QED
    BY <1>1, RegInvariance, PTL DEF RegSpec, OperFromOper

=============================================================================
