---------------------------- MODULE Registration ----------------------------
(***************************************************************************)
(* The life of a client connection: accept, PASS / NICK / USER in any      *)
(* order, registration, IRC-operator status, and removal.                  *)
(*                                                                         *)
(* A member of Client is the address of a Client object.  An address that  *)
(* was freed may be handed out again by the next accept, as operator new   *)
(* does.  The fields of an object that is not connected hold the values    *)
(* the constructor gives them.                                             *)
(*                                                                         *)
(* A handler that only queues a reply (a numeric error, a query) leaves    *)
(* every variable alone: it is a stuttering step, and the condition under  *)
(* which it is taken is the negation of the guard of the action below.     *)
(***************************************************************************)
CONSTANTS
  Client,          \* addresses of Client objects
  Nick,            \* the nicknames isValidNickname accepts
  Ident,           \* user names (the first parameter of USER)
  Password,        \* passwords a client may send with PASS
  ServerPassword,  \* Server::_password, NoPassword for the empty string
  NoClient, NoNick, NoIdent, NoPassword

ASSUME RegistrationAssumption ==
  /\ NoClient \notin Client
  /\ NoNick \notin Nick
  /\ NoIdent \notin Ident
  /\ NoPassword \notin Password
  /\ ServerPassword \in Password \cup {NoPassword}

VARIABLES
  conn,        \* the clients in Server::_clients
  auth,        \* Client::_authenticated
  nick,        \* Client::_nickname, NoNick for ""
  user,        \* Client::_username, NoIdent for ""
  real,        \* whether Client::_realname is not empty
  registered,  \* Client::_registered
  oper,        \* Client::_isOper
  opered       \* history: operators that became one by their own OPER

regVars == <<conn, auth, nick, user, real, registered, oper, opered>>

RegTypeOK ==
  /\ conn \subseteq Client
  /\ auth \in [Client -> BOOLEAN]
  /\ nick \in [Client -> Nick \cup {NoNick}]
  /\ user \in [Client -> Ident \cup {NoIdent}]
  /\ real \in [Client -> BOOLEAN]
  /\ registered \in [Client -> BOOLEAN]
  /\ oper \in [Client -> BOOLEAN]
  /\ opered \subseteq Client

RegInit ==
  /\ conn = {}
  /\ auth = [c \in Client |-> FALSE]
  /\ nick = [c \in Client |-> NoNick]
  /\ user = [c \in Client |-> NoIdent]
  /\ real = [c \in Client |-> FALSE]
  /\ registered = [c \in Client |-> FALSE]
  /\ oper = [c \in Client |-> FALSE]
  /\ opered = {}

-----------------------------------------------------------------------------
(* Helpers *)

HoldersOf(n) == {c \in conn : nick[c] = n}

\* The code returns the first match in descriptor order; NickUnique makes
\* the match unique.
GetClientByNickname(n) ==
  IF HoldersOf(n) = {} THEN NoClient ELSE CHOOSE c \in HoldersOf(n) : TRUE

Authenticates(given) == ServerPassword = NoPassword \/ given = ServerPassword

\* What checkRegistration requires of a client's fields.
Complete(a, n, u, r) == a /\ n # NoNick /\ u # NoIdent /\ r

\* The call at the end of PASS, NICK and USER: the client is registered when
\* the fields this step leaves it with are complete.
RegisterClient(c) ==
  registered' =
    [registered EXCEPT
       ![c] = @ \/ Complete(auth'[c], nick'[c], user'[c], real'[c])]

-----------------------------------------------------------------------------
(* Actions: one per handler that changes a client. *)

AcceptNewConnection(c) ==
  /\ c \notin conn
  /\ conn' = conn \cup {c}
  /\ UNCHANGED <<auth, nick, user, real, registered, oper, opered>>

HandlePass(c, given) ==
  /\ c \in conn
  /\ ~registered[c]
  /\ Authenticates(given)
  /\ auth' = [auth EXCEPT ![c] = TRUE]
  /\ UNCHANGED <<conn, nick, user, real, oper, opered>>
  /\ RegisterClient(c)

\* Mutants of HandleNick: only the nicknames of registered clients are taken;
\* the call of registerClient is missing.
HandleNickOfRegistered(c, n) ==
  /\ c \in conn
  /\ \A d \in HoldersOf(n) : registered[d] => d = c
  /\ nick' = [nick EXCEPT ![c] = n]
  /\ UNCHANGED <<conn, auth, user, real, oper, opered>>
  /\ RegisterClient(c)

HandleNickAlone(c, n) ==
  /\ c \in conn
  /\ GetClientByNickname(n) \in {NoClient, c}
  /\ nick' = [nick EXCEPT ![c] = n]
  /\ UNCHANGED <<conn, auth, user, real, registered, oper, opered>>

HandleNick(c, n) ==
  /\ c \in conn
  /\ GetClientByNickname(n) \in {NoClient, c}
  /\ nick' = [nick EXCEPT ![c] = n]
  /\ UNCHANGED <<conn, auth, user, real, oper, opered>>
  /\ RegisterClient(c)

\* Mutants of HandleUser: a registered client may send it again; the two
\* parameters are stored in each other's field.
HandleUserAgain(c, name, hasReal) ==
  /\ c \in conn
  /\ user' = [user EXCEPT ![c] = name]
  /\ real' = [real EXCEPT ![c] = hasReal]
  /\ UNCHANGED <<conn, auth, nick, oper, opered>>
  /\ RegisterClient(c)

HandleUserSwapped(c, name, hasReal) ==
  /\ c \in conn
  /\ ~registered[c]
  /\ user' = [user EXCEPT ![c] = hasReal]
  /\ real' = [real EXCEPT ![c] = name]
  /\ UNCHANGED <<conn, auth, nick, oper, opered>>
  /\ RegisterClient(c)

\* The real name is the last parameter and may be the empty string after ":".
HandleUser(c, name, hasReal) ==
  /\ c \in conn
  /\ ~registered[c]
  /\ user' = [user EXCEPT ![c] = name]
  /\ real' = [real EXCEPT ![c] = hasReal]
  /\ UNCHANGED <<conn, auth, nick, oper, opered>>
  /\ RegisterClient(c)

\* OPER with the one accepted name and password.
HandleOper(c) ==
  /\ c \in conn
  /\ registered[c]
  /\ oper' = [oper EXCEPT ![c] = TRUE]
  /\ opered' = opered \cup {c}
  /\ UNCHANGED <<conn, auth, nick, user, real, registered>>

\* Mutant of HandleUserMode: the test that refuses +o is missing, so that
\* anybody may give it to himself.
HandleUserModeOpen(c, n, adding) ==
  LET t == GetClientByNickname(n) IN
  /\ c \in conn
  /\ registered[c]
  /\ t # NoClient
  /\ nick[c] = nick[t] \/ oper[c]
  /\ adding \/ oper[c] \/ c = t
  /\ oper' = [oper EXCEPT ![t] = adding]
  /\ opered' = IF adding THEN opered ELSE opered \ {t}
  /\ UNCHANGED <<conn, auth, nick, user, real, registered>>

\* MODE <nickname> +o or -o.  The target need not be registered.  A mode
\* string with several letters has the effect of one command per letter: the
\* one test made before the loop is of fields that no letter can change
\* unless the target is the sender, and then it holds anyway.
HandleUserMode(c, n, adding) ==
  LET t == GetClientByNickname(n) IN
  /\ c \in conn
  /\ registered[c]
  /\ t # NoClient
  /\ nick[c] = nick[t] \/ oper[c]
  /\ IF adding THEN oper[c] /\ c # t ELSE oper[c] \/ c = t
  /\ oper' = [oper EXCEPT ![t] = adding]
  /\ opered' = IF adding THEN opered ELSE opered \ {t}
  /\ UNCHANGED <<conn, auth, nick, user, real, registered>>

\* The object is deleted; see the header for the fields of a freed address.
RemoveClient(c) ==
  /\ c \in conn
  /\ conn' = conn \ {c}
  /\ auth' = [auth EXCEPT ![c] = FALSE]
  /\ nick' = [nick EXCEPT ![c] = NoNick]
  /\ user' = [user EXCEPT ![c] = NoIdent]
  /\ real' = [real EXCEPT ![c] = FALSE]
  /\ registered' = [registered EXCEPT ![c] = FALSE]
  /\ oper' = [oper EXCEPT ![c] = FALSE]
  /\ opered' = opered \ {c}

RegNext ==
  \E c \in Client :
    \/ AcceptNewConnection(c)
    \/ \E given \in Password : HandlePass(c, given)
    \/ \E n \in Nick : HandleNick(c, n)
    \/ \E name \in Ident, hasReal \in BOOLEAN : HandleUser(c, name, hasReal)
    \/ HandleOper(c)
    \/ \E n \in Nick, adding \in BOOLEAN : HandleUserMode(c, n, adding)
    \/ RemoveClient(c)

RegSpec == RegInit /\ [][RegNext]_regVars

-----------------------------------------------------------------------------
(* Properties *)

\* No two connected clients ever hold the same nickname, whether or not they
\* are registered: the lookup in NICK covers every connection, and nothing
\* else gives a client a nickname.
NickUnique ==
  \A c, d \in conn : nick[c] = nick[d] /\ nick[c] # NoNick => c = d

\* PASS, NICK and USER may come in any order and be repeated: a client is
\* registered exactly from the moment all its data is there, and no later
\* command takes a piece of it away.
RegisteredIffComplete ==
  \A c \in conn :
    registered[c] <=> Complete(auth[c], nick[c], user[c], real[c])

\* A registered client stays registered, under the same user name, until its
\* connection is removed, whatever it or the others send.
IdentityFrozen ==
  [][\A c \in conn \cap conn' :
       registered[c] => registered'[c] /\ user'[c] = user[c]]_regVars

\* IRC-operator status is never taken: a client gains it by its own OPER, once
\* registered, or from another client that has it and is registered.  MODE
\* tests the sender and not the target, who may still be registering, and
\* nobody gets it by MODE on himself, not even who has had it before.
OperFromOper ==
  [][\A c \in conn' :
       oper'[c] /\ ~oper[c] =>
         \/ c \in opered' \ opered /\ registered[c]
         \/ \E d \in conn \ {c} : oper[d] /\ registered[d]]_regVars
=============================================================================
