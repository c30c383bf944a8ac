----------------------------- MODULE OutputPath ------------------------------
(***************************************************************************)
(* The output of one client.  A reply is queued in Client::_buffer and     *)
(* sent when poll finds the socket writable; broadcastMessage sends at     *)
(* once, past the queue.  The socket is non-blocking: send takes what      *)
(* fits, and fails with EAGAIN if nothing does.                            *)
(*                                                                         *)
(* A message is its number in the order in which the server issued it, and *)
(* consists of its text and the CR LF that ends it, each of which the      *)
(* socket takes as a whole (inside either, a cut does the same).  That a   *)
(* write to a broken connection ends the process is in EventLoop.          *)
(***************************************************************************)
EXTENDS Naturals, FiniteSets, SequencesExt

CONSTANTS
  Room,     \* what the socket's send buffer holds
  MaxMsg    \* bound: the messages issued

ASSUME OutputAssumption == Room \in Nat \ {0} /\ MaxMsg \in Nat

VARIABLES
  kind,       \* history: how each message was issued
  buffer,     \* Client::_buffer
  sock,       \* the socket's send buffer
  seen,       \* what the peer has received
  connected,  \* whether the client is in Server::_clients
  failed      \* history: sends that lost something

vars == <<kind, buffer, sock, seen, connected, failed>>

Unit == (1..MaxMsg) \X {"text", "end"}

OutTypeOK ==
  /\ kind \in Seq({"queued", "direct"}) /\ Len(kind) <= MaxMsg
  /\ buffer \in Seq(Unit)
  /\ sock \in Seq(Unit) /\ Len(sock) <= Room
  /\ seen \in Seq(Unit)
  /\ connected \in BOOLEAN
  /\ failed \in 0..MaxMsg

Init ==
  /\ kind = <<>>
  /\ buffer = <<>>
  /\ sock = <<>>
  /\ seen = <<>>
  /\ connected = TRUE
  /\ failed = 0

-----------------------------------------------------------------------------

Issue(how) ==
  /\ connected
  /\ Len(kind) < MaxMsg
  /\ kind' = Append(kind, how)

\* Mutant of Message: the CR LF is not added.
MessageUnterminated(m) == <<<<m, "text">>>>

Message(m) == <<<<m, "text">>, <<m, "end">>>>

\* What send takes of s.
Taken(s) == LET free == Room - Len(sock) IN
            IF Len(s) < free THEN Len(s) ELSE free

\* Client::addToBuffer, the whole of what most replies do.
AddToBuffer ==
  /\ Issue("queued")
  /\ buffer' = buffer \o Message(Len(kind'))
  /\ UNCHANGED <<sock, seen, connected, failed>>

\* broadcastMessage to this client: what send returned is not looked at.
SendMessage ==
  LET msg == Message(Len(kind'))
      n == Taken(msg)
  IN /\ Issue("direct")
     /\ sock' = sock \o SubSeq(msg, 1, n)
     /\ failed' = IF n < Len(msg) THEN failed + 1 ELSE failed
     /\ UNCHANGED <<buffer, seen, connected>>

\* Mutants of HandleClientOutput: the queue is cleared on EAGAIN too; it is
\* not cleared; the socket was not made non-blocking and takes everything; the
\* queue is sent only when there is room for all of it.
HandleClientOutputClearing ==
  LET n == Taken(buffer) IN
  /\ connected
  /\ buffer # <<>>
  /\ sock' = sock \o SubSeq(buffer, 1, n)
  /\ buffer' = <<>>
  /\ failed' = IF n > 0 /\ n < Len(buffer) THEN failed + 1 ELSE failed
  /\ UNCHANGED <<kind, seen, connected>>

HandleClientOutputKeeping ==
  LET n == Taken(buffer) IN
  /\ connected
  /\ buffer # <<>>
  /\ n > 0
  /\ sock' = sock \o SubSeq(buffer, 1, n)
  /\ UNCHANGED <<kind, buffer, seen, connected, failed>>

HandleClientOutputBlocking ==
  /\ connected
  /\ buffer # <<>>
  /\ sock' = sock \o buffer
  /\ buffer' = <<>>
  /\ UNCHANGED <<kind, seen, connected, failed>>

HandleClientOutputWhole ==
  /\ connected
  /\ buffer # <<>>
  /\ Taken(buffer) = Len(buffer)
  /\ sock' = sock \o buffer
  /\ buffer' = <<>>
  /\ UNCHANGED <<kind, seen, connected, failed>>

\* The queue is sent as one; when part of it was taken, all of it is cleared.
HandleClientOutput ==
  LET n == Taken(buffer) IN
  /\ connected
  /\ buffer # <<>>
  /\ sock' = sock \o SubSeq(buffer, 1, n)
  /\ buffer' = IF n > 0 THEN <<>> ELSE buffer
  /\ failed' = IF n > 0 /\ n < Len(buffer) THEN failed + 1 ELSE failed
  /\ UNCHANGED <<kind, seen, connected>>

\* QUIT, a loss of the connection, or _cleanup: the queue goes with the Client.
RemoveClient ==
  /\ connected
  /\ connected' = FALSE
  /\ buffer' = <<>>
  /\ UNCHANGED <<kind, sock, seen, failed>>

PeerReceives ==
  /\ sock # <<>>
  /\ seen' = Append(seen, Head(sock))
  /\ sock' = Tail(sock)
  /\ UNCHANGED <<kind, buffer, connected, failed>>

Next ==
  \/ AddToBuffer \/ SendMessage
  \/ HandleClientOutput
  \/ RemoveClient
  \/ PeerReceives

Spec == Init /\ [][Next]_vars

\* The loop asks for POLLOUT in every round and for every client.
FairSpec == Spec /\ WF_vars(HandleClientOutput)

-----------------------------------------------------------------------------
(* Properties *)

\* What has been or may yet be received, in its order.
Flow == seen \o sock \o buffer

Place(u) == {k \in 1..Len(Flow) : Flow[k] = u}

\* Nothing is received twice, and only one thing is ever out of order: a
\* broadcast overtakes replies that were still queued.  Replies stay in order
\* among themselves and so do broadcasts, whatever was lost on the way.
OnlyBroadcastsOvertake ==
  \A j, k \in 1..Len(Flow) : j < k =>
    /\ Flow[j] # Flow[k]
    /\ Flow[j][1] > Flow[k][1] =>
         kind[Flow[j][1]] = "direct" /\ kind[Flow[k][1]] = "queued"
    /\ Flow[j][1] = Flow[k][1] => Flow[j][2] = "text"

\* While no send took less than it was given, a connected client gets every
\* message whole; EAGAIN on the queue is not a loss.  When the client goes, it
\* loses what was still queued, that is the last replies and nothing else.
LossHasCause ==
  failed = 0 =>
    \A m \in 1..Len(kind) :
      \/ \E k \in 1..(Len(Flow) - 1) : SubSeq(Flow, k, k + 1) = Message(m)
      \/ /\ ~connected
         /\ \A n \in m..Len(kind) : kind[n] = "queued" => Place(<<n, "text">>) = {}
         /\ kind[m] = "queued"

\* A send cut short spoils one line at most: the peer finds no more texts
\* without their end than there were such sends.
DamageIsContained ==
  Cardinality({k \in 1..(Len(Flow) - 1) :
                 Flow[k][2] = "text" /\ Flow[k + 1][2] = "text"}) <= failed

\* If the peer goes on reading, then once nothing more is issued to it the
\* client has its queue emptied or is removed: EAGAIN is tried again, and a
\* full socket does not keep the last replies for ever.
QueueDrains ==
  WF_vars(PeerReceives) => (Len(kind) = MaxMsg ~> buffer = <<>>)
=============================================================================
