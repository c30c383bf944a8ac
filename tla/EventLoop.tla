----------------------------- MODULE EventLoop -----------------------------
(***************************************************************************)
(* Server::run: one thread polls the listening socket and the clients and  *)
(* walks over the vector of pollfds, from which the handlers it calls      *)
(* erase elements.  SIGINT and SIGTERM clear _running at any moment.       *)
(*                                                                         *)
(* Each element is served in three parts, input, output and hang-up, that  *)
(* read _pollfds[i] again each time: after an erasure that is the next     *)
(* element, or the memory just past the end.  Peers act in between.        *)
(*                                                                         *)
(* What the commands of a client do to nicknames and channels is in        *)
(* Channels; here a read may end in QUIT, and QUIT frees the Client that   *)
(* _handleClientInput goes on using.                                       *)
(***************************************************************************)
EXTENDS Naturals, FiniteSets, SequencesExt

CONSTANTS
  Fd,      \* the descriptors accept can return; the process may open no more
  Listen   \* Server::_serverSocket

ASSUME EventLoopAssumption ==
  /\ Listen \notin Fd
  /\ IsFiniteSet(Fd)

VARIABLES
  pc,         \* where the process is
  running,    \* Server::_running
  pollfds,    \* Server::_pollfds
  past,       \* the element erase left behind just past the end
  clients,    \* the keys of Server::_clients
  i,          \* the index of the loop, from 1
  numEvents,  \* what poll returned, less the elements taken so far
  peer,       \* the connection as the kernel knows it
  unread,     \* whether bytes of the client wait to be received
  backlog     \* whether a connection waits to be accepted

loopVars == <<pc, pollfds, past, clients, i, numEvents>>
vars == <<loopVars, running, peer, unread, backlog>>

Event == {"IN", "OUT", "HUP"}   \* HUP stands for POLLHUP and POLLERR

\* The other end sent FIN ("closed") or RST ("reset"), of which the next send
\* is told; once that is done, or if the RST came after a FIN, the kernel answers
\* a send with SIGPIPE ("broken").
PeerState == {"open", "closed", "reset", "broken"}

PollFd == [fd : Fd \cup {Listen}, revents : SUBSET Event]

\* "corrupted": the heap was damaged and the process aborts.
\* "killed": by SIGPIPE, which the program does not handle.
Ended == {"failed", "stopped", "corrupted", "killed"}

EvTypeOK ==
  /\ pc \in {"setup", "ready", "while", "poll", "for", "in", "out", "hup"}
              \cup Ended
  /\ running \in BOOLEAN
  /\ pollfds \in Seq(PollFd)
  /\ past \in Seq(PollFd) /\ Len(past) <= 1
  /\ clients \subseteq Fd
  /\ i \in Nat \ {0}
  /\ numEvents \in Nat
  /\ peer \in [Fd -> PeerState]
  /\ unread \in [Fd -> BOOLEAN]
  /\ backlog \in BOOLEAN

Init ==
  /\ pc = "setup"
  /\ running = TRUE
  /\ pollfds = <<>>
  /\ past = <<>>
  /\ clients = {}
  /\ i = 1
  /\ numEvents = 0
  /\ peer = [f \in Fd |-> "open"]
  /\ unread = [f \in Fd |-> FALSE]
  /\ backlog = FALSE

-----------------------------------------------------------------------------
(* Peers, the kernel, and the user at the terminal *)

Alive == pc \notin Ended

Connect ==
  /\ Alive
  /\ pc # "setup"
  /\ backlog' = TRUE
  /\ UNCHANGED <<loopVars, running, peer, unread>>

Send(f) ==
  /\ Alive
  /\ f \in clients
  /\ peer[f] = "open"
  /\ unread' = [unread EXCEPT ![f] = TRUE]
  /\ UNCHANGED <<loopVars, running, peer, backlog>>

\* What was sent before a FIN or a RST can still be received.  A connection
\* breaks by what is sent to it, which broadcastMessage does without a look at
\* what send returns.
Disconnect(f) ==
  /\ Alive
  /\ f \in clients
  /\ \/ peer[f] = "open" /\ peer' = [peer EXCEPT ![f] = "closed"]
     \/ peer[f] = "open" /\ peer' = [peer EXCEPT ![f] = "reset"]
     \/ peer[f] \in {"closed", "reset"} /\ peer' = [peer EXCEPT ![f] = "broken"]
  /\ UNCHANGED <<loopVars, running, unread, backlog>>

\* The handler is installed before the socket is set up.
Signal ==
  /\ Alive
  /\ running' = FALSE
  /\ UNCHANGED <<loopVars, peer, unread, backlog>>

-----------------------------------------------------------------------------
(* Start-up *)

SetupServerSocket ==
  /\ pc = "setup"
  /\ \/ /\ pollfds' = <<[fd |-> Listen, revents |-> {}]>>
        /\ pc' = "ready"
     \/ /\ pc' = "failed"
        /\ UNCHANGED pollfds
  /\ UNCHANGED <<past, clients, i, numEvents, running, peer, unread, backlog>>

\* run sets the flag again: a signal that came before is forgotten.
Run ==
  /\ pc = "ready"
  /\ running' = TRUE
  /\ pc' = "while"
  /\ UNCHANGED <<pollfds, past, clients, i, numEvents, peer, unread, backlog>>

-----------------------------------------------------------------------------
(* The outer loop *)

Cleanup ==
  /\ clients' = {}
  /\ pollfds' = <<>>
  /\ peer' = [f \in Fd |-> "open"]
  /\ unread' = [f \in Fd |-> FALSE]
  /\ pc' = "stopped"
  /\ UNCHANGED <<past, i, numEvents, running, backlog>>

\* Mutant of While: the server stops when its clients have gone.
WhileClients ==
  /\ pc = "while"
  /\ \/ /\ running \/ clients # {}
        /\ pc' = "poll"
        /\ UNCHANGED <<pollfds, past, clients, i, numEvents, running, peer,
                       unread, backlog>>
     \/ /\ ~running /\ clients = {}
        /\ Cleanup

While ==
  /\ pc = "while"
  /\ \/ /\ running
        /\ pc' = "poll"
        /\ UNCHANGED <<pollfds, past, clients, i, numEvents, running, peer,
                       unread, backlog>>
     \/ /\ ~running
        /\ Cleanup

\* What the kernel reports of a descriptor, given those it finds writable.
Reported(fd, writable) ==
  IF fd = Listen
  THEN {e \in {"IN"} : backlog}
  ELSE {e \in {"IN"} : unread[fd] \/ peer[fd] # "open"}
         \cup {e \in {"OUT"} : fd \in writable}
         \cup {e \in {"HUP"} : peer[fd] \in {"reset", "broken"}}

\* The set of elements from index j on with an event that poll reported.
ReadyFrom(j, s) == {k \in j..Len(s) : s[k].revents # {}}

\* With no event to report this is the return after the timeout of a second.
PollReturns ==
  /\ pc = "poll"
  /\ \E writable \in SUBSET clients :
       pollfds' = [j \in 1..Len(pollfds) |->
         [pollfds[j] EXCEPT !.revents = Reported(pollfds[j].fd, writable)]]
  /\ numEvents' = Cardinality(ReadyFrom(1, pollfds'))
  /\ i' = 1
  /\ pc' = "for"
  /\ UNCHANGED <<past, clients, running, peer, unread, backlog>>

PollInterrupted ==
  /\ pc = "poll"
  /\ ~running
  /\ pc' = "while"
  /\ UNCHANGED <<pollfds, past, clients, i, numEvents, running, peer, unread,
                 backlog>>

\* Mutant of PollFails: the error is not looked at.
PollFailsUnchecked ==
  /\ pc = "poll"
  /\ numEvents' = -1
  /\ i' = 1
  /\ pc' = "for"
  /\ UNCHANGED <<pollfds, past, clients, running, peer, unread, backlog>>

PollFails ==
  /\ pc = "poll"
  /\ Cleanup

-----------------------------------------------------------------------------
(* The walk over the vector *)

More == i <= Len(pollfds) /\ numEvents > 0

\* The values of the index, the count and the events are dead from here on.
EndRound ==
  /\ pc = "for"
  /\ ~More
  /\ pc' = "while"
  /\ i' = 1
  /\ numEvents' = 0
  /\ pollfds' = [j \in 1..Len(pollfds) |-> [pollfds[j] EXCEPT !.revents = {}]]
  /\ UNCHANGED <<past, clients, running, peer, unread, backlog>>

\* Mutant of Skip: the count is lowered before the test of the events.
SkipCounting ==
  /\ pc = "for"
  /\ More
  /\ pollfds[i].revents = {}
  /\ i' = i + 1
  /\ numEvents' = numEvents - 1
  /\ UNCHANGED <<pc, pollfds, past, clients, running, peer, unread, backlog>>

Skip ==
  /\ pc = "for"
  /\ More
  /\ pollfds[i].revents = {}
  /\ i' = i + 1
  /\ UNCHANGED <<pc, pollfds, past, clients, numEvents, running, peer, unread,
                 backlog>>

\* Accepted, dropped because its mode cannot be set, or refused because the
\* process has no descriptor left, and then it goes on waiting.
AcceptNewConnection ==
  \/ \E f \in Fd \ clients :
       /\ clients' = clients \cup {f}
       /\ pollfds' = Append(pollfds, [fd |-> f, revents |-> {}])
       /\ backlog' = FALSE
  \/ /\ backlog' = FALSE
     /\ UNCHANGED <<clients, pollfds>>
  \/ /\ clients = Fd
     /\ UNCHANGED <<clients, pollfds, backlog>>

\* Mutant of ServeListener: the round ends after it.
ServeListenerOnly ==
  /\ pc = "for"
  /\ More
  /\ pollfds[i].revents # {}
  /\ pollfds[i].fd = Listen
  /\ AcceptNewConnection
  /\ numEvents' = 0
  /\ i' = i + 1
  /\ UNCHANGED <<pc, past, running, peer, unread>>

ServeListener ==
  /\ pc = "for"
  /\ More
  /\ pollfds[i].revents # {}
  /\ pollfds[i].fd = Listen
  /\ AcceptNewConnection
  /\ numEvents' = numEvents - 1
  /\ i' = i + 1
  /\ UNCHANGED <<pc, past, running, peer, unread>>

ServeClient ==
  /\ pc = "for"
  /\ More
  /\ pollfds[i].revents # {}
  /\ pollfds[i].fd # Listen
  /\ numEvents' = numEvents - 1
  /\ pc' = "in"
  /\ UNCHANGED <<pollfds, past, clients, i, running, peer, unread, backlog>>

-----------------------------------------------------------------------------
(* The three parts of serving element i *)

\* What _pollfds[i] reads, also when i is just past the end.
Slot == IF i <= Len(pollfds) THEN pollfds[i] ELSE past[1]

Reads(e, f) == e \in Slot.revents /\ f = Slot.fd /\ f \in clients

Position(f) == CHOOSE j \in 1..Len(pollfds) : pollfds[j].fd = f

\* Mutants of RemoveClient: the pollfd stays; the client stays in the map; the
\* descriptors are moved down and their events are not.
RemoveKeepingPollfd(f) ==
  /\ clients' = clients \ {f}
  /\ peer' = [peer EXCEPT ![f] = "open"]
  /\ unread' = [unread EXCEPT ![f] = FALSE]
  /\ UNCHANGED pollfds

RemoveKeepingClient(f) ==
  /\ pollfds' = RemoveAt(pollfds, Position(f))
  /\ peer' = [peer EXCEPT ![f] = "open"]
  /\ unread' = [unread EXCEPT ![f] = FALSE]
  /\ UNCHANGED clients

RemoveMovingFds(f) ==
  /\ clients' = clients \ {f}
  /\ LET moved == RemoveAt(pollfds, Position(f)) IN
     pollfds' = [j \in 1..Len(moved) |->
                   [fd |-> moved[j].fd, revents |-> pollfds[j].revents]]
  /\ peer' = [peer EXCEPT ![f] = "open"]
  /\ unread' = [unread EXCEPT ![f] = FALSE]

\* Server::_removeClient of a connected client.  The kernel's state of a closed
\* descriptor is that of the next connection to get it.
RemoveClient(f) ==
  /\ clients' = clients \ {f}
  /\ pollfds' = RemoveAt(pollfds, Position(f))
  /\ peer' = [peer EXCEPT ![f] = "open"]
  /\ unread' = [unread EXCEPT ![f] = FALSE]

\* erase moves the elements behind f down; the last place keeps its value.
Erased(f) ==
  /\ RemoveClient(f)
  /\ past' = <<Last(pollfds)>>

\* The commands of a read may send to any client at once and several times, so
\* that its connection breaks under them: SIGPIPE.
MayBeKilled == {x \in {"killed"} : \E g \in clients : peer[g] # "open"}

NoInput ==
  /\ pc = "in"
  /\ \/ "IN" \notin Slot.revents
     \/ Slot.fd \notin clients
     \/ ~unread[Slot.fd] /\ peer[Slot.fd] = "open"
  /\ pc' = "out"
  /\ UNCHANGED <<pollfds, past, clients, i, numEvents, running, peer, unread,
                 backlog>>

ReceiveCommands(f) ==
  /\ pc = "in"
  /\ Reads("IN", f)
  /\ unread[f]
  /\ unread' = [unread EXCEPT ![f] = FALSE]
  /\ pc' \in {"out"} \cup MayBeKilled
  /\ UNCHANGED <<pollfds, past, clients, i, numEvents, running, peer, backlog>>

\* One of the commands is QUIT; the rest of the handler uses the freed Client.
ReceiveQuit(f) ==
  /\ pc = "in"
  /\ Reads("IN", f)
  /\ unread[f]
  /\ Erased(f)
  /\ pc' \in {"out", "corrupted"} \cup MayBeKilled
  /\ UNCHANGED <<i, numEvents, running, backlog>>

ReceiveEnd(f) ==
  /\ pc = "in"
  /\ Reads("IN", f)
  /\ ~unread[f]
  /\ peer[f] # "open"
  /\ Erased(f)
  /\ pc' = "out"
  /\ UNCHANGED <<i, numEvents, running, backlog>>

\* No output is due, or the queue is empty, or it is sent.
OutputDone ==
  /\ pc = "out"
  /\ pc' = "hup"
  /\ UNCHANGED <<pollfds, past, clients, i, numEvents, running, peer, unread,
                 backlog>>

OutputFails(f) ==
  /\ pc = "out"
  /\ Reads("OUT", f)
  /\ peer[f] = "reset"
  /\ Erased(f)
  /\ pc' = "hup"
  /\ UNCHANGED <<i, numEvents, running, backlog>>

OutputKills(f) ==
  /\ pc = "out"
  /\ Reads("OUT", f)
  /\ peer[f] = "broken"
  /\ pc' = "killed"
  /\ UNCHANGED <<pollfds, past, clients, i, numEvents, running, peer, unread,
                 backlog>>

\* i is lowered and raised again.  What lies past the end is not read again
\* once the element is served.
HangUp ==
  /\ pc = "hup"
  /\ "HUP" \in Slot.revents
  /\ \/ Slot.fd \in clients /\ RemoveClient(Slot.fd)
     \/ /\ Slot.fd \notin clients
        /\ UNCHANGED <<clients, pollfds, peer, unread>>
  /\ pc' = "for"
  /\ past' = <<>>
  /\ UNCHANGED <<i, numEvents, running, backlog>>

NoHangUp ==
  /\ pc = "hup"
  /\ "HUP" \notin Slot.revents
  /\ i' = i + 1
  /\ pc' = "for"
  /\ past' = <<>>
  /\ UNCHANGED <<pollfds, clients, numEvents, running, peer, unread, backlog>>

-----------------------------------------------------------------------------

Serve ==
  \/ NoInput
  \/ \E f \in Fd : ReceiveCommands(f) \/ ReceiveQuit(f) \/ ReceiveEnd(f)
  \/ OutputDone
  \/ \E f \in Fd : OutputFails(f) \/ OutputKills(f)
  \/ HangUp
  \/ NoHangUp

Step ==
  \/ SetupServerSocket \/ Run \/ While
  \/ PollReturns \/ PollInterrupted \/ PollFails
  \/ EndRound \/ Skip \/ ServeListener \/ ServeClient
  \/ Serve

Environment ==
  \/ Connect
  \/ \E f \in Fd : Send(f) \/ Disconnect(f)
  \/ Signal

Next == Step \/ Environment

Spec == Init /\ [][Next]_vars

\* No handler blocks, and poll returns after a second at the latest.
FairSpec == Spec /\ WF_vars(Step)

-----------------------------------------------------------------------------
(* Properties *)

\* Between any two handlers the vector holds the listening socket first and
\* then each connected client once: none is left unpolled, none polled twice.
PollSetMatchesClients ==
  pc \notin {"setup"} \cup Ended =>
    /\ Len(pollfds) = 1 + Cardinality(clients)
    /\ pollfds[1].fd = Listen
    /\ {pollfds[j].fd : j \in 2..Len(pollfds)} = clients

\* The loop's early exit leaves no reported event behind: although removals
\* shift elements under the index and are not counted, numEvents never falls
\* below the number of elements with events that are still ahead.
NoneLeftBehind ==
  pc = "for" => numEvents >= Cardinality(ReadyFrom(i, pollfds))

\* After an erasure the index may be one past the end and never further, and
\* what is read there names a client that is gone: no handler acts on it.
BeyondEndIsInert ==
  pc \in {"in", "out", "hup"} /\ i > Len(pollfds) =>
    /\ i = Len(pollfds) + 1
    /\ past # <<>>
    /\ past[1].fd \notin clients

\* Reading element i again after an erasure never takes one connection for
\* another: as long as the server runs, a client is removed only after its
\* connection was reset, or by its own input, that is its QUIT or the end of
\* its stream, and then all it sent was received.
OnlyTheGone ==
  [][\A f \in clients \ clients' :
       \/ pc' = "stopped"
       \/ peer[f] \in {"reset", "broken"}
       \/ pc = "in" /\ i <= Len(pollfds) /\ pollfds[i].fd = f
            /\ (unread[f] \/ peer[f] = "closed")]_vars

\* What a client has sent is received sooner or later, or its connection ends,
\* whatever the others do: an element is passed over only when one before it
\* goes away, and no new one comes before it.
InputIsRead ==
  \A f \in Fd : unread[f] ~> ~unread[f] \/ ~Alive

\* A signal that arrives once run has begun ends the server.
StopsWhenTold ==
  pc \notin {"setup", "ready"} /\ ~running ~> ~Alive

\* What the README says of QUIT, "Disconnect from the server": it ends the
\* sender's connection, and not the process with everybody else's.
QuitOnlyDisconnects == pc # "corrupted"

\* What the guide says of a disconnection: it is detected "through poll() or
\* read/write errors".  A write to a connection that is gone returns an error
\* and does not end the process.
WriteErrorDetected == pc # "killed"
=============================================================================
