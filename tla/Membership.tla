----------------------------- MODULE Membership ------------------------------
(***************************************************************************)
(* What the channels promise, with one relation in the place of the        *)
(* server's several maps: who is on which channel, and in which role.  The *)
(* promise is kept by client, not by nickname, and it ends when a client   *)
(* renames itself on a channel, or enters one after it has quit: from then *)
(* on nothing is said.                                                     *)
(***************************************************************************)
CONSTANTS Client, ChanName

VARIABLES
  conn,     \* the connected clients
  exists,   \* the channels that exist
  on,       \* who is on which channel, a set of pairs; some of them are
  op,       \* operators,
  voice,    \* some have a voice
  promise   \* whether the promise still stands

roles == <<on, op, voice>>
vars == <<conn, exists, roles, promise>>

Init ==
  /\ conn = {} /\ exists = {}
  /\ on = {} /\ op = {} /\ voice = {}
  /\ promise = TRUE

Connect(c) ==
  /\ c \notin conn
  /\ conn' = conn \cup {c}
  /\ UNCHANGED <<exists, roles, promise>>

\* The creator of a channel is its operator ...
Create(c, m) ==
  /\ m \notin exists
  /\ exists' = exists \cup {m}
  /\ on' = on \cup {<<c, m>>}
  /\ op' = op \cup {<<c, m>>}
  /\ UNCHANGED <<conn, voice, promise>>

\* ... and nobody who enters later is.
Enter(c, m) ==
  /\ m \in exists
  /\ <<c, m>> \notin on
  /\ on' = on \cup {<<c, m>>}
  /\ UNCHANGED <<conn, exists, op, voice, promise>>

Without(pairs) ==
  /\ on' = on \ pairs
  /\ op' = op \ pairs
  /\ voice' = voice \ pairs

\* A client leaves or is kicked.  The channel ends with its last member.
Leave(c, m) ==
  /\ <<c, m>> \in on
  /\ Without({<<c, m>>})
  /\ exists' = IF \E d \in Client : <<d, m>> \in on' THEN exists ELSE exists \ {m}
  /\ UNCHANGED <<conn, promise>>

\* A client goes: it leaves all its channels, and these stay.
Disconnect(c) ==
  /\ c \in conn
  /\ conn' = conn \ {c}
  /\ Without({c} \X ChanName)
  /\ UNCHANGED <<exists, promise>>

\* One who is on a channel gains or loses a role there.
SetRole(p) ==
  /\ p \in on
  /\ \/ op' \in {op \cup {p}, op \ {p}} /\ UNCHANGED voice
     \/ voice' \in {voice \cup {p}, voice \ {p}} /\ UNCHANGED op
  /\ UNCHANGED <<conn, exists, on, promise>>

Broken ==
  /\ promise' = FALSE
  /\ exists' = {} /\ on' = {} /\ op' = {} /\ voice' = {}
  /\ UNCHANGED conn

Unpromised ==
  /\ ~promise
  /\ conn' \in SUBSET Client
  /\ UNCHANGED <<exists, roles, promise>>

Next ==
  \/ \E c \in Client : Connect(c) \/ Disconnect(c)
  \/ \E c \in conn, m \in ChanName : Create(c, m) \/ Enter(c, m) \/ Leave(c, m)
  \/ \E p \in on : SetRole(p)
  \/ Broken \/ Unpromised

Spec == Init /\ [][Next]_vars
=============================================================================
