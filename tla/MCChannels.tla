----------------------------- MODULE MCChannels -----------------------------
(* Instances of Channels for TLC, with the bounds of its runs. *)
EXTENDS Channels, TLC

Symmetry ==
  Permutations(Client) \cup Permutations(Nick) \cup Permutations(ChanName)
    \cup Permutations(ChanObj)

\* Clients send PASS before USER and give a real name.  The run of
\* Registration takes the three commands in every order.
OrderlyRegistration ==
  \A c \in Client : user[c] # NoIdent => auth[c] /\ real[c]

\* At most one IRC operator at a time.  The run of Registration has more.
OneOper == Cardinality({c \in Client : oper[c]}) <= 1

\* At most one ban mask at a time on a channel.
OneBan == \A o \in ChanObj : Cardinality(access[o].banned) <= 1
=============================================================================
