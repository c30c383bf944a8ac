-------------------------- MODULE EventLoop_proofs --------------------------
(* Theorems about EventLoop, for every finite set of descriptors: the walk  *)
(* over a vector that shrinks under its index stays in step with it.        *)
EXTENDS EventLoop, SequenceTheorems, FiniteSetTheorems, TLAPS

InWalk == pc \in {"in", "out", "hup"}

\* Before the socket is set up there is nothing to poll.
NothingYet == pc = "setup" => clients = {} /\ pollfds = <<>>

\* The vector holds the listening socket first, and each client once.
OneElementEach ==
  /\ Len(pollfds) = 1 + Cardinality(clients)
  /\ pollfds[1].fd = Listen
  /\ \A j \in 2..Len(pollfds) : pollfds[j].fd \in clients
  /\ \A f \in clients : \E j \in 2..Len(pollfds) : pollfds[j].fd = f
  /\ \A j, k \in 1..Len(pollfds) : pollfds[j].fd = pollfds[k].fd => j = k

PollSetKept == pc \notin {"setup"} \cup Ended => OneElementEach

\* The listening socket is never served as a client.
PastListener == InWalk => i >= 2

\* While an element is served the count covers those behind it, whichever
\* element has meanwhile come to its place.
CountCovers ==
  /\ pc = "for" => numEvents >= Cardinality(ReadyFrom(i, pollfds))
  /\ InWalk => numEvents >= Cardinality(ReadyFrom(i + 1, pollfds))

\* A hang-up that poll reported is still true when it is acted on.
HupMeansGone ==
  \A j \in 1..Len(pollfds) :
    "HUP" \in pollfds[j].revents =>
      pollfds[j].fd \in Fd /\ peer[pollfds[j].fd] \in {"reset", "broken"}

\* The inductive invariant.
LoopInv ==
  /\ EvTypeOK /\ NothingYet /\ PollSetKept
  /\ PastListener /\ BeyondEndIsInert /\ CountCovers /\ HupMeansGone

-----------------------------------------------------------------------------
(* Sequences and the set of elements with events *)

LEMMA RemovedAt ==
  ASSUME NEW S, NEW s \in Seq(S), NEW p \in 1..Len(s)
  PROVE  /\ RemoveAt(s, p) \in Seq(S)
         /\ Len(RemoveAt(s, p)) = Len(s) - 1
         /\ \A k \in 1..(Len(s) - 1) :
              RemoveAt(s, p)[k] = IF k < p THEN s[k] ELSE s[k + 1]
  <1> DEFINE a == SubSeq(s, 1, p - 1)
             b == SubSeq(s, p + 1, Len(s))
  <1>1. Len(s) \in Nat /\ p \in Nat
    BY LenProperties
  <1>2. /\ a \in Seq(S) /\ Len(a) = p - 1
        /\ \A k \in 1..(p - 1) : a[k] = s[k]
    <2>1. \A k \in 1..(p - 1) : s[k] \in S
      BY <1>1, ElementOfSeq
    <2> QED BY <1>1, <2>1, SubSeqProperties
  <1>3. /\ b \in Seq(S) /\ Len(b) = Len(s) - p
        /\ \A k \in 1..(Len(s) - p) : b[k] = s[p + k]
    <2>1. \A k \in (p + 1)..Len(s) : s[k] \in S
      BY <1>1, ElementOfSeq
    <2>2. /\ SubSeq(s, p + 1, Len(s)) \in Seq(S)
          /\ Len(SubSeq(s, p + 1, Len(s))) =
               IF p + 1 <= Len(s) THEN Len(s) - (p + 1) + 1 ELSE 0
          /\ \A k \in 1..(Len(s) - (p + 1) + 1) :
               SubSeq(s, p + 1, Len(s))[k] = s[p + 1 + k - 1]
      BY <1>1, <2>1, SubSeqProperties
    <2> QED BY <1>1, <2>2
  <1> HIDE DEF a, b
  <1>4. /\ a \o b \in Seq(S) /\ Len(a \o b) = Len(a) + Len(b)
        /\ \A k \in 1..(Len(a) + Len(b)) :
             (a \o b)[k] = IF k <= Len(a) THEN a[k] ELSE b[k - Len(a)]
    BY <1>2, <1>3, ConcatProperties
  <1>5. RemoveAt(s, p) = a \o b
    BY DEF RemoveAt, a, b
  <1>6. Len(a \o b) = Len(s) - 1
    BY <1>1, <1>2, <1>3, <1>4
  <1>7. ASSUME NEW k \in 1..(Len(s) - 1)
        PROVE  (a \o b)[k] = IF k < p THEN s[k] ELSE s[k + 1]
    <2>1. CASE k < p
      BY <1>1, <1>2, <1>3, <1>4, <2>1
    <2>2. CASE ~(k < p)
      <3>1. (a \o b)[k] = b[k - (p - 1)] /\ k - (p - 1) \in 1..(Len(s) - p)
        BY <1>1, <1>2, <1>3, <1>4, <2>2
      <3>2. b[k - (p - 1)] = s[p + (k - (p - 1))]
        BY <1>3, <3>1
      <3>3. p + (k - (p - 1)) = k + 1
        BY <1>1
      <3> QED BY <2>2, <3>1, <3>2, <3>3
    <2> QED BY <2>1, <2>2
  <1> QED BY <1>4, <1>5, <1>6, <1>7

LEMMA ReadyIsFinite ==
  ASSUME NEW s \in Seq(PollFd), NEW n \in Nat \ {0}
  PROVE  /\ ReadyFrom(n, s) \subseteq n..Len(s)
         /\ IsFiniteSet(ReadyFrom(n, s))
         /\ Cardinality(ReadyFrom(n, s)) \in Nat
  <1>1. Len(s) \in Nat
    BY LenProperties
  <1>2. IsFiniteSet(n..Len(s))
    BY <1>1, FS_Interval
  <1>3. ReadyFrom(n, s) \subseteq n..Len(s)
    BY DEF ReadyFrom
  <1> QED BY <1>2, <1>3, FS_Subset, FS_CardinalityType

\* Going on by one passes over one element with events at most, and over none
\* when the element has no event.
LEMMA ReadyNext ==
  ASSUME NEW s \in Seq(PollFd), NEW n \in Nat \ {0}
  PROVE  /\ Cardinality(ReadyFrom(n + 1, s)) <= Cardinality(ReadyFrom(n, s))
         /\ n <= Len(s) /\ s[n].revents # {} =>
              Cardinality(ReadyFrom(n, s)) = Cardinality(ReadyFrom(n + 1, s)) + 1
  <1> DEFINE R == ReadyFrom(n, s)
  <1>1. Len(s) \in Nat
    BY LenProperties
  <1>2. ReadyFrom(n + 1, s) = R \ {n}
    BY <1>1 DEF ReadyFrom
  <1>3. n <= Len(s) /\ s[n].revents # {} => n \in R
    BY <1>1 DEF ReadyFrom
  <1>4. IsFiniteSet(R) /\ Cardinality(R) \in Nat
    BY ReadyIsFinite
  <1> HIDE DEF R
  <1>5. Cardinality(R \ {n}) =
          IF n \in R THEN Cardinality(R) - 1 ELSE Cardinality(R)
    BY <1>4, FS_RemoveElement
  <1>6. Cardinality(R \ {n}) <= Cardinality(R)
    BY <1>4, <1>5
  <1>7. n \in R => Cardinality(R) = Cardinality(R \ {n}) + 1
    BY <1>4, <1>5
  <1> QED BY <1>2, <1>3, <1>6, <1>7 DEF R

\* An erasure at p or before it moves the elements with events down by one.
LEMMA ReadyAfterRemoval ==
  ASSUME NEW s \in Seq(PollFd), NEW p \in 1..Len(s), NEW n \in Nat, n >= p
  PROVE  Cardinality(ReadyFrom(n, RemoveAt(s, p))) <=
           Cardinality(ReadyFrom(n + 1, s))
  <1> DEFINE t == RemoveAt(s, p)
             A == ReadyFrom(n, t)
             B == ReadyFrom(n + 1, s)
             up == [k \in A |-> k + 1]
  <1>1. Len(s) \in Nat /\ p \in Nat \ {0} /\ n \in Nat \ {0}
    BY LenProperties
  <1>2. /\ t \in Seq(PollFd) /\ Len(t) = Len(s) - 1
        /\ \A k \in 1..(Len(s) - 1) : t[k] = IF k < p THEN s[k] ELSE s[k + 1]
    BY RemovedAt
  <1> HIDE DEF t
  <1>3. ASSUME NEW k \in A PROVE k \in Nat /\ k + 1 \in B
    <2>1. k \in n..Len(t) /\ t[k].revents # {}
      BY DEF ReadyFrom
    <2>2. k \in 1..(Len(s) - 1) /\ ~(k < p) /\ t[k] = s[k + 1]
      BY <1>1, <1>2, <2>1
    <2>3. k + 1 \in (n + 1)..Len(s)
      BY <1>1, <1>2, <2>1
    <2> QED BY <2>1, <2>2, <2>3 DEF ReadyFrom
  <1>4. up \in Injection(A, B)
    <2>1. up \in [A -> B]
      BY <1>3
    <2>2. ASSUME NEW a \in A, NEW b \in A, up[a] = up[b] PROVE a = b
      BY <1>3, <2>2
    <2> HIDE DEF A, B, up
    <2> QED BY <2>1, <2>2 DEF Injection, IsInjective
  <1>5. IsFiniteSet(B)
    BY <1>1, ReadyIsFinite
  <1> HIDE DEF A, B, up
  <1>6. Cardinality(A) <= Cardinality(B)
    BY <1>4, <1>5, FS_Injection
  <1> QED BY <1>6 DEF A, B, t

LEMMA FcnIsSeq ==
  ASSUME NEW S, NEW n \in Nat, NEW g \in [1..n -> S]
  PROVE  g \in Seq(S) /\ Len(g) = n
  OBVIOUS

-----------------------------------------------------------------------------
(* Removing a client *)

\* With one element each, the element of a client is the one erase finds.
LEMMA PositionIs ==
  ASSUME EvTypeOK, OneElementEach, NEW p \in 1..Len(pollfds)
  PROVE  Position(pollfds[p].fd) = p
  <1> DEFINE f == pollfds[p].fd
  <1>1. /\ Position(f) \in 1..Len(pollfds)
        /\ pollfds[Position(f)].fd = f
    BY DEF Position
  <1> QED BY <1>1 DEF OneElementEach

LEMMA RemovalKeeps ==
  ASSUME EvTypeOK, OneElementEach, HupMeansGone, NEW p \in 2..Len(pollfds),
         NEW f \in clients, pollfds[p].fd = f, RemoveClient(f)
  PROVE  /\ pollfds' = RemoveAt(pollfds, p)
         /\ pollfds' \in Seq(PollFd) /\ Len(pollfds') = Len(pollfds) - 1
         /\ clients' \subseteq Fd /\ clients' = clients \ {f}
         /\ peer' \in [Fd -> PeerState] /\ unread' \in [Fd -> BOOLEAN]
         /\ OneElementEach' /\ HupMeansGone'
  <1>1. /\ Len(pollfds) \in Nat /\ p \in 1..Len(pollfds)
        /\ pollfds \in Seq(PollFd) /\ clients \subseteq Fd /\ f \in Fd
    BY LenProperties DEF EvTypeOK
  <1>2. Position(f) = p
    BY <1>1, PositionIs
  <1>3. /\ pollfds' = RemoveAt(pollfds, p)
        /\ clients' = clients \ {f}
        /\ peer' = [peer EXCEPT ![f] = "open"]
        /\ unread' = [unread EXCEPT ![f] = FALSE]
    BY <1>2 DEF RemoveClient
  <1>4. /\ pollfds' \in Seq(PollFd) /\ Len(pollfds') = Len(pollfds) - 1
        /\ \A k \in 1..(Len(pollfds) - 1) :
             pollfds'[k] = IF k < p THEN pollfds[k] ELSE pollfds[k + 1]
    BY <1>1, <1>3, RemovedAt
  <1>5. peer' \in [Fd -> PeerState] /\ unread' \in [Fd -> BOOLEAN]
    BY <1>3 DEF EvTypeOK, PeerState
  <1>6. \A k \in 1..Len(pollfds) : k # p => pollfds[k].fd # f
    BY <1>1 DEF OneElementEach
  \* Element k of the new vector comes from another place than p.
  <1>7. ASSUME NEW k \in 1..Len(pollfds')
        PROVE  \E kk \in 1..Len(pollfds) :
                 /\ kk = (IF k < p THEN k ELSE k + 1) /\ kk # p
                 /\ pollfds'[k] = pollfds[kk]
    <2>1. CASE k < p
      BY <1>1, <1>4, <2>1
    <2>2. CASE ~(k < p)
      BY <1>1, <1>4, <2>2
    <2> QED BY <2>1, <2>2
  <1>8. OneElementEach'
    <2>1. Len(pollfds') = 1 + Cardinality(clients')
      <3>1. IsFiniteSet(clients) /\ Cardinality(clients) \in Nat
        BY <1>1, EventLoopAssumption, FS_Subset, FS_CardinalityType
      <3>2. Cardinality(clients \ {f}) = Cardinality(clients) - 1
        BY <3>1, FS_RemoveElement
      <3> QED BY <1>3, <1>4, <3>1, <3>2 DEF OneElementEach
    <2>2. pollfds'[1].fd = Listen
      BY <1>1, <1>4 DEF OneElementEach
    <2>3. ASSUME NEW k \in 2..Len(pollfds') PROVE pollfds'[k].fd \in clients'
      <3>1. k \in 1..Len(pollfds') /\ k \in Nat
        BY <1>1, <1>4
      <3>2. PICK kk \in 1..Len(pollfds) :
              /\ kk = (IF k < p THEN k ELSE k + 1) /\ kk # p
              /\ pollfds'[k] = pollfds[kk]
        BY <1>7, <3>1
      <3>3. kk \in 2..Len(pollfds)
        BY <1>1, <1>4, <3>2
      <3> QED BY <1>3, <1>6, <3>2, <3>3 DEF OneElementEach
    <2>4. ASSUME NEW g \in clients'
          PROVE  \E k \in 2..Len(pollfds') : pollfds'[k].fd = g
      <3>1. PICK kk \in 2..Len(pollfds) : pollfds[kk].fd = g
        BY <1>3, <2>4 DEF OneElementEach
      <3>2. kk # p
        BY <1>3, <2>4, <3>1
      <3>3. CASE kk < p
        BY <1>1, <1>4, <3>1, <3>3
      <3>4. CASE kk > p
        <4>1. kk - 1 \in 2..Len(pollfds') /\ ~(kk - 1 < p)
          BY <1>1, <1>4, <3>4
        <4>2. pollfds'[kk - 1] = pollfds[(kk - 1) + 1]
          BY <1>1, <1>4, <4>1
        <4> QED BY <3>1, <4>1, <4>2
      <3> QED BY <1>1, <3>2, <3>3, <3>4
    <2>5. ASSUME NEW j \in 1..Len(pollfds'), NEW k \in 1..Len(pollfds'),
                 pollfds'[j].fd = pollfds'[k].fd
          PROVE  j = k
      <3>1. PICK jj \in 1..Len(pollfds) :
              /\ jj = (IF j < p THEN j ELSE j + 1) /\ jj # p
              /\ pollfds'[j] = pollfds[jj]
        BY <1>7
      <3>2. PICK kk \in 1..Len(pollfds) :
              /\ kk = (IF k < p THEN k ELSE k + 1) /\ kk # p
              /\ pollfds'[k] = pollfds[kk]
        BY <1>7
      <3>3. jj = kk
        BY <2>5, <3>1, <3>2 DEF OneElementEach
      <3> QED BY <1>1, <1>4, <3>1, <3>2, <3>3
    <2> QED BY <2>1, <2>2, <2>3, <2>4, <2>5 DEF OneElementEach
  <1>9. HupMeansGone'
    <2> SUFFICES ASSUME NEW k \in 1..Len(pollfds'), "HUP" \in pollfds'[k].revents
                 PROVE  /\ pollfds'[k].fd \in Fd
                        /\ peer'[pollfds'[k].fd] \in {"reset", "broken"}
      BY DEF HupMeansGone
    <2>1. PICK kk \in 1..Len(pollfds) : kk # p /\ pollfds'[k] = pollfds[kk]
      BY <1>7
    <2>2. pollfds[kk].fd \in Fd /\ peer[pollfds[kk].fd] \in {"reset", "broken"}
      BY <2>1 DEF HupMeansGone
    <2> QED BY <1>3, <1>6, <2>1, <2>2 DEF EvTypeOK
  <1> QED BY <1>1, <1>3, <1>4, <1>5, <1>8, <1>9

\* While an element is served, what is read as the current one is that of a
\* client in the map only if the index is still inside the vector.
LEMMA SlotOfClient ==
  ASSUME LoopInv, InWalk, Slot.fd \in clients
  PROVE  i \in 2..Len(pollfds) /\ Slot = pollfds[i]
  <1>1. i \in Nat /\ i >= 2 /\ Len(pollfds) \in Nat
    BY LenProperties DEF LoopInv, EvTypeOK, PastListener
  <1>2. i <= Len(pollfds)
    <2> SUFFICES ASSUME i > Len(pollfds) PROVE FALSE
      BY <1>1
    <2>1. past[1].fd \notin clients
      BY DEF LoopInv, BeyondEndIsInert, InWalk
    <2>2. Slot = past[1]
      BY <1>1 DEF Slot
    <2> QED BY <2>1, <2>2
  <1> QED BY <1>1, <1>2 DEF Slot

\* The element served is erased: the next one comes to its place, or the index
\* is left one past the end, where it reads the client that is gone.
LEMMA ErasureKeeps ==
  ASSUME LoopInv, InWalk, NEW f \in clients, Slot.fd = f, Erased(f),
         UNCHANGED <<i, numEvents>>
  PROVE  /\ pollfds' \in Seq(PollFd)
         /\ clients' \subseteq Fd
         /\ peer' \in [Fd -> PeerState] /\ unread' \in [Fd -> BOOLEAN]
         /\ past' \in Seq(PollFd) /\ Len(past') = 1
         /\ OneElementEach' /\ HupMeansGone'
         /\ i' > Len(pollfds') =>
              i' = Len(pollfds') + 1 /\ past' # <<>> /\ past'[1].fd \notin clients'
         /\ numEvents' >= Cardinality(ReadyFrom(i' + 1, pollfds'))
  <1>1. /\ i \in 2..Len(pollfds) /\ pollfds[i].fd = f
        /\ RemoveClient(f) /\ past' = <<Last(pollfds)>>
    BY SlotOfClient DEF Erased
  <1>2. /\ EvTypeOK /\ OneElementEach /\ HupMeansGone
        /\ Len(pollfds) \in Nat /\ i \in Nat /\ pollfds \in Seq(PollFd)
    BY LenProperties DEF LoopInv, PollSetKept, InWalk, EvTypeOK, Ended
  <1>3. /\ pollfds' = RemoveAt(pollfds, i)
        /\ pollfds' \in Seq(PollFd) /\ Len(pollfds') = Len(pollfds) - 1
        /\ clients' \subseteq Fd /\ clients' = clients \ {f}
        /\ peer' \in [Fd -> PeerState] /\ unread' \in [Fd -> BOOLEAN]
        /\ OneElementEach' /\ HupMeansGone'
    BY <1>1, <1>2, RemovalKeeps
  <1>4. Last(pollfds) = pollfds[Len(pollfds)] /\ Last(pollfds) \in PollFd
    BY <1>1, <1>2, ElementOfSeq DEF Last
  <1>5. past' \in Seq(PollFd) /\ Len(past') = 1 /\ past'[1] = Last(pollfds)
    BY <1>1, <1>4
  <1>6. i' > Len(pollfds') =>
          i' = Len(pollfds') + 1 /\ past' # <<>> /\ past'[1].fd \notin clients'
    BY <1>1, <1>2, <1>3, <1>4, <1>5
  <1>7. numEvents' >= Cardinality(ReadyFrom(i' + 1, pollfds'))
    <2>1. numEvents >= Cardinality(ReadyFrom(i + 1, pollfds)) /\ numEvents \in Nat
      BY DEF LoopInv, CountCovers, InWalk, EvTypeOK
    <2>2. Cardinality(ReadyFrom(i + 1, pollfds')) <= Cardinality(ReadyFrom(i + 2, pollfds))
      <3>1. i + 1 \in Nat /\ i + 1 >= i /\ i \in 1..Len(pollfds)
        BY <1>1, <1>2
      <3>2. Cardinality(ReadyFrom(i + 1, RemoveAt(pollfds, i))) <=
              Cardinality(ReadyFrom((i + 1) + 1, pollfds))
        BY <1>2, <3>1, ReadyAfterRemoval
      <3>3. (i + 1) + 1 = i + 2
        BY <1>2
      <3> QED BY <1>3, <3>2, <3>3
    <2>3. Cardinality(ReadyFrom(i + 2, pollfds)) <= Cardinality(ReadyFrom(i + 1, pollfds))
      <3>1. i + 1 \in Nat \ {0} /\ (i + 1) + 1 = i + 2
        BY <1>2
      <3> QED BY <1>2, <3>1, ReadyNext
    <2>4. /\ Cardinality(ReadyFrom(i + 1, pollfds')) \in Nat
          /\ Cardinality(ReadyFrom(i + 1, pollfds)) \in Nat
          /\ Cardinality(ReadyFrom(i + 2, pollfds)) \in Nat
      <3>1. i + 1 \in Nat \ {0} /\ i + 2 \in Nat \ {0}
        BY <1>2
      <3> QED BY <1>2, <1>3, <3>1, ReadyIsFinite
    <2> QED BY <2>1, <2>2, <2>3, <2>4
  <1> QED BY <1>3, <1>5, <1>6, <1>7

-----------------------------------------------------------------------------
(* One lemma per part of Next *)

\* Peers and signals change nothing the loop keeps, and no peer comes back.
LEMMA EnvironmentKeeps ==
  ASSUME LoopInv, Environment
  PROVE  LoopInv'
  <1>1. UNCHANGED loopVars
    BY DEF Environment, Connect, Send, Disconnect, Signal
  <1>2. EvTypeOK'
    <2>1. CASE Connect
      BY <1>1, <2>1 DEF Connect, LoopInv, EvTypeOK, loopVars
    <2>2. ASSUME NEW f \in Fd, Send(f) PROVE EvTypeOK'
      BY <1>1, <2>2 DEF Send, LoopInv, EvTypeOK, loopVars
    <2>3. ASSUME NEW f \in Fd, Disconnect(f) PROVE EvTypeOK'
      BY <1>1, <2>3 DEF Disconnect, LoopInv, EvTypeOK, loopVars, PeerState
    <2>4. CASE Signal
      BY <1>1, <2>4 DEF Signal, LoopInv, EvTypeOK, loopVars
    <2> QED BY <2>1, <2>2, <2>3, <2>4 DEF Environment
  <1>3. HupMeansGone'
    <2>1. \A f \in Fd : peer[f] \in {"reset", "broken"} =>
                          peer'[f] \in {"reset", "broken"}
      BY DEF Environment, Connect, Send, Disconnect, Signal, LoopInv, EvTypeOK
    <2> QED BY <1>1, <2>1 DEF LoopInv, HupMeansGone, loopVars
  <1>4. /\ NothingYet' /\ PollSetKept' /\ PastListener' /\ BeyondEndIsInert'
        /\ CountCovers'
    BY <1>1 DEF LoopInv, NothingYet, PollSetKept, OneElementEach, PastListener,
                BeyondEndIsInert, CountCovers, InWalk, ReadyFrom, loopVars
  <1> QED BY <1>2, <1>3, <1>4 DEF LoopInv

\* Where nothing is being walked over, the invariant says little.
LEMMA QuietInv ==
  ASSUME EvTypeOK, PollSetKept, HupMeansGone,
         pc \in {"ready", "while", "poll"} \cup Ended
  PROVE  LoopInv
  BY DEF LoopInv, NothingYet, PastListener, BeyondEndIsInert, CountCovers,
         InWalk, Ended

LEMMA QuietStays ==
  (EvTypeOK /\ PollSetKept /\ HupMeansGone
     /\ pc \in {"ready", "while", "poll"} \cup Ended)' => LoopInv'
  BY QuietInv, PTL

LEMMA StartKeeps ==
  ASSUME LoopInv, SetupServerSocket \/ Run
  PROVE  LoopInv'
  <1> USE DEF LoopInv
  <1>1. CASE SetupServerSocket
    <2>1. clients = {} /\ pollfds = <<>> /\ UNCHANGED clients
      BY <1>1 DEF SetupServerSocket, NothingYet
    <2>2. CASE pc' = "ready" /\ pollfds' = <<[fd |-> Listen, revents |-> {}]>>
      <3>1. pollfds' \in Seq(PollFd) /\ Len(pollfds') = 1
        BY <2>2 DEF PollFd
      <3>2. pollfds'[1].fd = Listen /\ pollfds'[1].revents = {}
        BY <2>2
      <3>3. EvTypeOK'
        BY <1>1, <2>1, <2>2, <3>1 DEF SetupServerSocket, EvTypeOK
      <3>4. OneElementEach'
        BY <2>1, <3>1, <3>2, FS_EmptySet DEF OneElementEach
      <3>5. HupMeansGone'
        BY <3>1, <3>2 DEF HupMeansGone
      <3> QED BY <2>2, <3>3, <3>4, <3>5, QuietStays DEF PollSetKept
    <2>3. CASE pc' = "failed" /\ pollfds' = pollfds
      <3>1. EvTypeOK'
        BY <1>1, <2>3 DEF SetupServerSocket, EvTypeOK, Ended
      <3>2. HupMeansGone' /\ PollSetKept'
        BY <1>1, <2>3 DEF SetupServerSocket, HupMeansGone, PollSetKept, Ended
      <3> QED BY <2>3, <3>1, <3>2, QuietStays DEF Ended
    <2> QED BY <1>1, <2>2, <2>3 DEF SetupServerSocket
  <1>2. CASE Run
    <2>1. EvTypeOK'
      BY <1>2 DEF Run, EvTypeOK
    <2>2. OneElementEach' /\ HupMeansGone'
      BY <1>2 DEF Run, PollSetKept, OneElementEach, HupMeansGone, Ended
    <2>3. pc' = "while"
      BY <1>2 DEF Run
    <2> QED BY <2>1, <2>2, <2>3, QuietStays DEF PollSetKept
  <1> QED BY <1>1, <1>2

LEMMA CleanupKeeps ==
  ASSUME LoopInv, Cleanup
  PROVE  LoopInv'
  <1>1. /\ clients' = {} /\ pollfds' = <<>> /\ pc' = "stopped"
        /\ peer' = [f \in Fd |-> "open"] /\ unread' = [f \in Fd |-> FALSE]
        /\ UNCHANGED <<past, i, numEvents, running, backlog>>
    BY DEF Cleanup
  <1>2. EvTypeOK'
    BY <1>1 DEF LoopInv, EvTypeOK, PeerState, Ended
  <1>3. HupMeansGone' /\ PollSetKept'
    BY <1>1 DEF HupMeansGone, PollSetKept, Ended
  <1> QED BY <1>1, <1>2, <1>3, QuietStays DEF Ended

LEMMA WhileKeeps ==
  ASSUME LoopInv, While \/ PollInterrupted \/ PollFails
  PROVE  LoopInv'
  <1>1. CASE Cleanup
    BY <1>1, CleanupKeeps
  <1>2. CASE ~Cleanup
    <2>1. /\ pc \in {"while", "poll"} /\ pc' \in {"while", "poll"}
          /\ UNCHANGED <<pollfds, past, clients, i, numEvents, running, peer,
                         unread, backlog>>
      BY <1>2 DEF While, PollInterrupted, PollFails
    <2>2. EvTypeOK'
      BY <2>1 DEF LoopInv, EvTypeOK
    <2>3. OneElementEach' /\ HupMeansGone'
      BY <2>1 DEF LoopInv, PollSetKept, OneElementEach, HupMeansGone, Ended
    <2> QED BY <2>1, <2>2, <2>3, QuietStays DEF PollSetKept
  <1> QED BY <1>1, <1>2

\* New events for the same descriptors.
LEMMA SameDescriptors ==
  ASSUME OneElementEach, clients' = clients, Len(pollfds') = Len(pollfds),
         \A j \in 1..Len(pollfds) : pollfds'[j].fd = pollfds[j].fd,
         pollfds \in Seq(PollFd), Cardinality(clients) \in Nat
  PROVE  OneElementEach'
  <1>1. Len(pollfds) \in Nat /\ Len(pollfds) >= 1
    BY LenProperties DEF OneElementEach
  <1> QED BY <1>1 DEF OneElementEach

LEMMA HowManyClients ==
  ASSUME EvTypeOK
  PROVE  IsFiniteSet(clients) /\ Cardinality(clients) \in Nat
  BY EventLoopAssumption, FS_Subset, FS_CardinalityType DEF EvTypeOK

LEMMA PollKeeps ==
  ASSUME LoopInv, PollReturns
  PROVE  LoopInv'
  <1> USE DEF LoopInv
  <1>1. pollfds \in Seq(PollFd) /\ Len(pollfds) \in Nat /\ OneElementEach
    BY LenProperties DEF EvTypeOK, PollReturns, PollSetKept, Ended
  <1>2. /\ numEvents' = Cardinality(ReadyFrom(1, pollfds'))
        /\ i' = 1 /\ pc' = "for"
        /\ UNCHANGED <<past, clients, running, peer, unread, backlog>>
    BY DEF PollReturns
  <1>3. PICK writable \in SUBSET clients :
          pollfds' = [j \in 1..Len(pollfds) |->
            [pollfds[j] EXCEPT !.revents = Reported(pollfds[j].fd, writable)]]
    BY DEF PollReturns
  <1>4. ASSUME NEW j \in 1..Len(pollfds)
        PROVE  /\ pollfds'[j] \in PollFd
               /\ pollfds'[j].fd = pollfds[j].fd
               /\ pollfds'[j].revents = Reported(pollfds[j].fd, writable)
    <2>1. pollfds[j] \in PollFd
      BY <1>1, ElementOfSeq
    <2>2. Reported(pollfds[j].fd, writable) \in SUBSET Event
      BY DEF Reported, Event
    <2> HIDE DEF LoopInv
    <2> QED BY <1>3, <2>1, <2>2 DEF PollFd
  <1>5. pollfds' \in Seq(PollFd) /\ Len(pollfds') = Len(pollfds)
    <2>1. pollfds' \in [1..Len(pollfds) -> PollFd]
      BY <1>3, <1>4
    <2> QED BY <1>1, <2>1, FcnIsSeq
  <1>6. numEvents' \in Nat
    BY <1>2, <1>5, ReadyIsFinite
  <1>7. EvTypeOK'
    BY <1>2, <1>5, <1>6 DEF EvTypeOK
  <1>8. OneElementEach'
    BY <1>1, <1>2, <1>4, <1>5, SameDescriptors, HowManyClients
  <1>9. HupMeansGone'
    <2> SUFFICES ASSUME NEW j \in 1..Len(pollfds), "HUP" \in pollfds'[j].revents
                 PROVE  /\ pollfds'[j].fd \in Fd
                        /\ peer'[pollfds'[j].fd] \in {"reset", "broken"}
      BY <1>5 DEF HupMeansGone
    <2>1. "HUP" \in Reported(pollfds[j].fd, writable)
      BY <1>4
    <2>2. /\ pollfds[j].fd # Listen
          /\ peer[pollfds[j].fd] \in {"reset", "broken"}
      BY <2>1 DEF Reported
    <2>3. pollfds[j].fd \in Fd
      <3>1. pollfds[j] \in PollFd
        BY <1>1, ElementOfSeq
      <3> QED BY <2>2, <3>1 DEF PollFd
    <2> QED BY <1>2, <1>4, <2>2, <2>3
  <1>10. CountCovers'
    BY <1>2, <1>5, <1>6 DEF CountCovers, InWalk
  <1>11. NothingYet' /\ PastListener' /\ BeyondEndIsInert' /\ PollSetKept'
    BY <1>2, <1>8 DEF NothingYet, PastListener, BeyondEndIsInert, PollSetKept,
                      InWalk
  <1> QED BY <1>7, <1>9, <1>10, <1>11

\* What the walk has at every element.
LEMMA WalkFacts ==
  ASSUME LoopInv, pc \in {"for", "in", "out", "hup"}
  PROVE  /\ EvTypeOK /\ OneElementEach /\ HupMeansGone
         /\ pollfds \in Seq(PollFd) /\ Len(pollfds) \in Nat
         /\ i \in Nat \ {0} /\ numEvents \in Nat
         /\ Cardinality(ReadyFrom(i, pollfds)) \in Nat
         /\ Cardinality(ReadyFrom(i + 1, pollfds)) \in Nat
         /\ Cardinality(ReadyFrom(i + 1, pollfds)) <=
              Cardinality(ReadyFrom(i, pollfds))
  <1>1. /\ EvTypeOK /\ OneElementEach /\ HupMeansGone
        /\ pollfds \in Seq(PollFd) /\ Len(pollfds) \in Nat
        /\ i \in Nat \ {0} /\ numEvents \in Nat
    BY LenProperties DEF LoopInv, EvTypeOK, PollSetKept, Ended
  <1>2. i + 1 \in Nat \ {0}
    BY <1>1
  <1> QED BY <1>1, <1>2, ReadyIsFinite, ReadyNext

LEMMA EndRoundKeeps ==
  ASSUME LoopInv, EndRound
  PROVE  LoopInv'
  <1>1. /\ pc' = "while" /\ i' = 1 /\ numEvents' = 0
        /\ pollfds' = [j \in 1..Len(pollfds) |-> [pollfds[j] EXCEPT !.revents = {}]]
        /\ UNCHANGED <<past, clients, running, peer, unread, backlog>>
    BY DEF EndRound
  <1>2. EvTypeOK /\ OneElementEach /\ pollfds \in Seq(PollFd) /\ Len(pollfds) \in Nat
    BY WalkFacts DEF EndRound
  <1>3. ASSUME NEW j \in 1..Len(pollfds)
        PROVE  /\ pollfds'[j] \in PollFd
               /\ pollfds'[j].fd = pollfds[j].fd /\ pollfds'[j].revents = {}
    <2>1. pollfds[j] \in PollFd
      BY <1>2, ElementOfSeq
    <2> QED BY <1>1, <2>1 DEF PollFd
  <1>4. pollfds' \in Seq(PollFd) /\ Len(pollfds') = Len(pollfds)
    <2>1. pollfds' \in [1..Len(pollfds) -> PollFd]
      BY <1>1, <1>3
    <2> QED BY <1>2, <2>1, FcnIsSeq
  <1>5. EvTypeOK'
    BY <1>1, <1>2, <1>4 DEF EvTypeOK
  <1>6. OneElementEach'
    BY <1>1, <1>2, <1>3, <1>4, SameDescriptors, HowManyClients
  <1>7. HupMeansGone'
    BY <1>3, <1>4 DEF HupMeansGone
  <1> QED BY <1>1, <1>5, <1>6, <1>7, QuietStays DEF PollSetKept

\* The steps of the walk that leave the vector and the map alone.
LEMMA WalkOnKeeps ==
  ASSUME LoopInv, pc \in {"for", "in", "out", "hup"},
         UNCHANGED <<pollfds, clients, peer>>,
         EvTypeOK', PastListener', BeyondEndIsInert', CountCovers',
         pc' # "setup"
  PROVE  LoopInv'
  <1>1. OneElementEach' /\ HupMeansGone'
    BY WalkFacts DEF OneElementEach, HupMeansGone
  <1> QED BY <1>1 DEF LoopInv, NothingYet, PollSetKept

LEMMA SkipKeeps ==
  ASSUME LoopInv, Skip
  PROVE  LoopInv'
  <1>1. /\ pc = "for" /\ pc' = "for" /\ i' = i + 1
        /\ UNCHANGED <<pollfds, past, clients, numEvents, running, peer, unread,
                       backlog>>
    BY DEF Skip
  <1>2. /\ EvTypeOK /\ i \in Nat \ {0} /\ numEvents \in Nat
        /\ Cardinality(ReadyFrom(i, pollfds)) \in Nat
        /\ Cardinality(ReadyFrom(i + 1, pollfds)) \in Nat
        /\ Cardinality(ReadyFrom(i + 1, pollfds)) <=
             Cardinality(ReadyFrom(i, pollfds))
    BY <1>1, WalkFacts
  <1>3. EvTypeOK'
    BY <1>1, <1>2 DEF EvTypeOK
  <1>4. CountCovers'
    BY <1>1, <1>2 DEF LoopInv, CountCovers, InWalk
  <1>5. PastListener' /\ BeyondEndIsInert'
    BY <1>1 DEF PastListener, BeyondEndIsInert, InWalk
  <1> QED BY <1>1, <1>3, <1>4, <1>5, WalkOnKeeps

\* A new element goes to the end and has no event yet.
LEMMA AcceptKeeps ==
  ASSUME EvTypeOK, OneElementEach, HupMeansGone, NEW f \in Fd \ clients,
         clients' = clients \cup {f}, peer' = peer,
         pollfds' = Append(pollfds, [fd |-> f, revents |-> {}])
  PROVE  /\ pollfds' \in Seq(PollFd)
         /\ OneElementEach' /\ HupMeansGone'
         /\ \A n \in Nat \ {0} : ReadyFrom(n, pollfds') = ReadyFrom(n, pollfds)
  <1> DEFINE e == [fd |-> f, revents |-> {}]
  <1>1. pollfds \in Seq(PollFd) /\ Len(pollfds) \in Nat /\ e \in PollFd
    BY LenProperties DEF EvTypeOK, PollFd
  <1>2. /\ pollfds' \in Seq(PollFd) /\ Len(pollfds') = Len(pollfds) + 1
        /\ \A j \in 1..Len(pollfds) : pollfds'[j] = pollfds[j]
        /\ pollfds'[Len(pollfds) + 1] = e
    BY <1>1, AppendProperties
  <1>3. e.fd = f /\ e.revents = {}
    OBVIOUS
  <1> HIDE DEF e
  <1>4. \A j \in 1..Len(pollfds) : pollfds[j].fd # f
    <2>1. f # Listen
      BY EventLoopAssumption
    <2> QED BY <1>1, <2>1 DEF OneElementEach
  <1>5. OneElementEach'
    <2>1. Len(pollfds') = 1 + Cardinality(clients')
      <3>1. IsFiniteSet(clients) /\ Cardinality(clients) \in Nat
        BY HowManyClients
      <3>2. Cardinality(clients \cup {f}) = Cardinality(clients) + 1
        BY <3>1, FS_AddElement
      <3> QED BY <1>2, <3>1, <3>2 DEF OneElementEach
    <2>2. Len(pollfds) >= 1 /\ pollfds'[1].fd = Listen
      BY <1>1, <1>2, HowManyClients DEF OneElementEach
    <2>3. \A j \in 2..Len(pollfds') : pollfds'[j].fd \in clients'
      BY <1>1, <1>2, <1>3 DEF OneElementEach
    <2>4. ASSUME NEW g \in clients'
          PROVE  \E j \in 2..Len(pollfds') : pollfds'[j].fd = g
      <3>1. CASE g = f
        BY <1>1, <1>2, <1>3, <2>2, <3>1
      <3>2. CASE g # f
        <4>1. PICK j \in 2..Len(pollfds) : pollfds[j].fd = g
          BY <2>4, <3>2 DEF OneElementEach
        <4> QED BY <1>1, <1>2, <4>1
      <3> QED BY <3>1, <3>2
    <2>5. \A j, k \in 1..Len(pollfds') :
            pollfds'[j].fd = pollfds'[k].fd => j = k
      BY <1>1, <1>2, <1>3, <1>4 DEF OneElementEach
    <2> QED BY <2>1, <2>2, <2>3, <2>4, <2>5 DEF OneElementEach
  <1>6. HupMeansGone'
    BY <1>1, <1>2, <1>3 DEF HupMeansGone
  <1>7. ASSUME NEW n \in Nat \ {0}
        PROVE  ReadyFrom(n, pollfds') = ReadyFrom(n, pollfds)
    BY <1>1, <1>2, <1>3 DEF ReadyFrom
  <1> QED BY <1>2, <1>5, <1>6, <1>7

LEMMA ServeListenerKeeps ==
  ASSUME LoopInv, ServeListener
  PROVE  LoopInv'
  <1>1. /\ pc = "for" /\ pc' = "for" /\ i' = i + 1 /\ numEvents' = numEvents - 1
        /\ i <= Len(pollfds) /\ numEvents > 0 /\ pollfds[i].revents # {}
        /\ AcceptNewConnection
        /\ UNCHANGED <<past, running, peer, unread>>
    BY DEF ServeListener, More
  <1>2. /\ EvTypeOK /\ OneElementEach /\ HupMeansGone
        /\ i \in Nat \ {0} /\ numEvents \in Nat /\ pollfds \in Seq(PollFd)
        /\ Cardinality(ReadyFrom(i, pollfds)) \in Nat
        /\ Cardinality(ReadyFrom(i + 1, pollfds)) \in Nat
    BY <1>1, WalkFacts
  <1>3. /\ numEvents - 1 \in Nat /\ i + 1 \in Nat \ {0}
        /\ numEvents - 1 >= Cardinality(ReadyFrom(i + 1, pollfds))
    <2>1. Cardinality(ReadyFrom(i, pollfds)) =
            Cardinality(ReadyFrom(i + 1, pollfds)) + 1
      BY <1>1, <1>2, ReadyNext
    <2>2. numEvents >= Cardinality(ReadyFrom(i, pollfds))
      BY <1>1 DEF LoopInv, CountCovers
    <2> QED BY <1>1, <1>2, <2>1, <2>2
  <1>4. PastListener' /\ BeyondEndIsInert'
    BY <1>1 DEF PastListener, BeyondEndIsInert, InWalk
  <1>5. CASE UNCHANGED <<clients, pollfds>>
    <2>1. EvTypeOK'
      BY <1>1, <1>2, <1>3, <1>5 DEF EvTypeOK, AcceptNewConnection
    <2>2. CountCovers'
      BY <1>1, <1>3, <1>5 DEF CountCovers, InWalk
    <2> QED BY <1>1, <1>4, <1>5, <2>1, <2>2, WalkOnKeeps
  <1>6. ASSUME NEW f \in Fd \ clients, clients' = clients \cup {f},
               pollfds' = Append(pollfds, [fd |-> f, revents |-> {}]),
               backlog' = FALSE
        PROVE  LoopInv'
    <2>1. /\ pollfds' \in Seq(PollFd) /\ OneElementEach' /\ HupMeansGone'
          /\ ReadyFrom(i + 1, pollfds') = ReadyFrom(i + 1, pollfds)
      BY <1>1, <1>2, <1>3, <1>6, AcceptKeeps
    <2>2. EvTypeOK'
      BY <1>1, <1>2, <1>3, <1>6, <2>1 DEF EvTypeOK
    <2>3. CountCovers'
      BY <1>1, <1>3, <2>1 DEF CountCovers, InWalk
    <2> QED
      BY <1>1, <1>4, <2>1, <2>2, <2>3 DEF LoopInv, NothingYet, PollSetKept
  <1> QED BY <1>1, <1>5, <1>6 DEF AcceptNewConnection

LEMMA ServeClientKeeps ==
  ASSUME LoopInv, ServeClient
  PROVE  LoopInv'
  <1>1. /\ pc = "for" /\ pc' = "in" /\ numEvents' = numEvents - 1
        /\ i <= Len(pollfds) /\ numEvents > 0
        /\ pollfds[i].revents # {} /\ pollfds[i].fd # Listen
        /\ UNCHANGED <<pollfds, past, clients, i, running, peer, unread, backlog>>
    BY DEF ServeClient, More
  <1>2. /\ EvTypeOK /\ OneElementEach
        /\ i \in Nat \ {0} /\ numEvents \in Nat /\ pollfds \in Seq(PollFd)
        /\ Len(pollfds) \in Nat
        /\ Cardinality(ReadyFrom(i, pollfds)) \in Nat
        /\ Cardinality(ReadyFrom(i + 1, pollfds)) \in Nat
    BY <1>1, WalkFacts
  <1>3. numEvents - 1 >= Cardinality(ReadyFrom(i + 1, pollfds))
    <2>1. Cardinality(ReadyFrom(i, pollfds)) =
            Cardinality(ReadyFrom(i + 1, pollfds)) + 1
      BY <1>1, <1>2, ReadyNext
    <2>2. numEvents >= Cardinality(ReadyFrom(i, pollfds))
      BY <1>1 DEF LoopInv, CountCovers
    <2> QED BY <1>2, <2>1, <2>2
  <1>4. EvTypeOK'
    BY <1>1, <1>2 DEF EvTypeOK
  <1>5. PastListener'
    BY <1>1, <1>2 DEF PastListener, OneElementEach
  <1>6. BeyondEndIsInert'
    BY <1>1, <1>2 DEF BeyondEndIsInert
  <1>7. CountCovers'
    BY <1>1, <1>3 DEF CountCovers
  <1> QED BY <1>1, <1>4, <1>5, <1>6, <1>7, WalkOnKeeps

\* Input and output that leave the vector alone.
LEMMA ServedOnKeeps ==
  ASSUME LoopInv, pc \in {"in", "out"}, pc' \in {"out", "hup", "killed"},
         UNCHANGED <<pollfds, past, clients, i, numEvents, running, peer, backlog>>,
         unread' \in [Fd -> BOOLEAN]
  PROVE  LoopInv'
  <1>1. EvTypeOK'
    BY DEF LoopInv, EvTypeOK, Ended
  <1>2. PastListener' /\ BeyondEndIsInert' /\ CountCovers'
    BY DEF LoopInv, PastListener, BeyondEndIsInert, CountCovers, InWalk, ReadyFrom
  <1> QED BY <1>1, <1>2, WalkOnKeeps

\* Input and output that end with the client erased.
LEMMA ServedLastKeeps ==
  ASSUME LoopInv, pc \in {"in", "out"},
         pc' \in {"out", "hup", "corrupted", "killed"},
         NEW f \in clients, Slot.fd = f, Erased(f),
         UNCHANGED <<i, numEvents, running, backlog>>
  PROVE  LoopInv'
  <1>1. InWalk
    BY DEF InWalk
  <1>2. /\ pollfds' \in Seq(PollFd)
        /\ clients' \subseteq Fd
        /\ peer' \in [Fd -> PeerState] /\ unread' \in [Fd -> BOOLEAN]
        /\ past' \in Seq(PollFd) /\ Len(past') = 1
        /\ OneElementEach' /\ HupMeansGone'
        /\ i' > Len(pollfds') =>
             i' = Len(pollfds') + 1 /\ past' # <<>> /\ past'[1].fd \notin clients'
        /\ numEvents' >= Cardinality(ReadyFrom(i' + 1, pollfds'))
    BY <1>1, ErasureKeeps
  <1>3. EvTypeOK'
    BY <1>2 DEF LoopInv, EvTypeOK, Ended
  <1>4. PastListener'
    BY <1>1 DEF LoopInv, PastListener
  <1>5. BeyondEndIsInert' /\ CountCovers'
    BY <1>2 DEF BeyondEndIsInert, CountCovers, InWalk
  <1> QED
    BY <1>2, <1>3, <1>4, <1>5 DEF LoopInv, NothingYet, PollSetKept

LEMMA HangUpKeeps ==
  ASSUME LoopInv, HangUp
  PROVE  LoopInv'
  <1>1. /\ pc = "hup" /\ InWalk /\ pc' = "for" /\ past' = <<>>
        /\ UNCHANGED <<i, numEvents, running, backlog>>
    BY DEF HangUp, InWalk
  <1>2. /\ EvTypeOK /\ OneElementEach /\ HupMeansGone
        /\ pollfds \in Seq(PollFd) /\ Len(pollfds) \in Nat
        /\ i \in Nat \ {0} /\ i >= 2 /\ numEvents \in Nat
        /\ Cardinality(ReadyFrom(i + 1, pollfds)) \in Nat
        /\ numEvents >= Cardinality(ReadyFrom(i + 1, pollfds))
    BY <1>1, WalkFacts DEF LoopInv, PastListener, CountCovers
  <1>3. PastListener' /\ BeyondEndIsInert'
    BY <1>1 DEF PastListener, BeyondEndIsInert, InWalk
  <1>4. CASE Slot.fd \in clients /\ RemoveClient(Slot.fd)
    <2>1. i \in 2..Len(pollfds) /\ Slot = pollfds[i]
      BY <1>1, <1>4, SlotOfClient
    <2>2. /\ pollfds' = RemoveAt(pollfds, i)
          /\ pollfds' \in Seq(PollFd) /\ clients' \subseteq Fd
          /\ peer' \in [Fd -> PeerState] /\ unread' \in [Fd -> BOOLEAN]
          /\ OneElementEach' /\ HupMeansGone'
      BY <1>2, <1>4, <2>1, RemovalKeeps
    <2>3. EvTypeOK'
      BY <1>1, <1>2, <2>2 DEF EvTypeOK
    <2>4. CountCovers'
      <3>1. i \in 1..Len(pollfds) /\ i \in Nat /\ i >= i
        BY <1>2, <2>1
      <3>2. Cardinality(ReadyFrom(i, RemoveAt(pollfds, i))) <=
              Cardinality(ReadyFrom(i + 1, pollfds))
        BY <1>2, <3>1, ReadyAfterRemoval
      <3>3. Cardinality(ReadyFrom(i, pollfds')) \in Nat
        BY <1>2, <2>2, ReadyIsFinite
      <3>4. numEvents >= Cardinality(ReadyFrom(i, pollfds'))
        BY <1>2, <2>2, <3>2, <3>3
      <3> QED BY <1>1, <3>4 DEF CountCovers, InWalk
    <2> QED BY <1>1, <1>3, <2>2, <2>3, <2>4 DEF LoopInv, NothingYet, PollSetKept
  <1>5. CASE Slot.fd \notin clients /\ UNCHANGED <<clients, pollfds, peer, unread>>
    <2>1. EvTypeOK'
      BY <1>1, <1>2, <1>5 DEF EvTypeOK
    \* Only the place past the end names no client.
    <2>2. i > Len(pollfds)
      BY <1>2, <1>5 DEF Slot, OneElementEach
    <2>3. ReadyFrom(i, pollfds) = {}
      BY <1>2, <2>2 DEF ReadyFrom
    <2>4. CountCovers'
      BY <1>1, <1>2, <1>5, <2>3, FS_EmptySet DEF CountCovers, InWalk
    <2> QED BY <1>1, <1>3, <1>5, <2>1, <2>4, WalkOnKeeps
  <1> QED BY <1>4, <1>5 DEF HangUp

LEMMA NoHangUpKeeps ==
  ASSUME LoopInv, NoHangUp
  PROVE  LoopInv'
  <1>1. /\ pc = "hup" /\ InWalk /\ pc' = "for" /\ past' = <<>> /\ i' = i + 1
        /\ UNCHANGED <<pollfds, clients, numEvents, running, peer, unread, backlog>>
    BY DEF NoHangUp, InWalk
  <1>2. EvTypeOK /\ i \in Nat \ {0}
    BY <1>1, WalkFacts
  <1>3. EvTypeOK'
    BY <1>1, <1>2 DEF EvTypeOK
  <1>4. PastListener' /\ BeyondEndIsInert' /\ CountCovers'
    BY <1>1 DEF LoopInv, CountCovers, PastListener, BeyondEndIsInert, InWalk
  <1> QED BY <1>1, <1>3, <1>4, WalkOnKeeps

LEMMA ServeKeeps ==
  ASSUME LoopInv, Serve
  PROVE  LoopInv'
  <1>1. CASE NoInput \/ OutputDone \/ \E f \in Fd : OutputKills(f)
    <2>1. /\ pc \in {"in", "out"} /\ pc' \in {"out", "hup", "killed"}
          /\ UNCHANGED <<pollfds, past, clients, i, numEvents, running, peer,
                         unread, backlog>>
      BY <1>1 DEF NoInput, OutputDone, OutputKills
    <2> QED BY <2>1, ServedOnKeeps DEF LoopInv, EvTypeOK
  <1>2. ASSUME NEW f \in Fd, ReceiveCommands(f) PROVE LoopInv'
    <2>1. /\ pc \in {"in", "out"} /\ pc' \in {"out", "hup", "killed"}
          /\ unread' = [unread EXCEPT ![f] = FALSE]
          /\ UNCHANGED <<pollfds, past, clients, i, numEvents, running, peer,
                         backlog>>
      BY <1>2 DEF ReceiveCommands, MayBeKilled
    <2>2. unread' \in [Fd -> BOOLEAN]
      BY <2>1 DEF LoopInv, EvTypeOK
    <2> QED BY <2>1, <2>2, ServedOnKeeps
  <1>3. ASSUME NEW f \in Fd, ReceiveQuit(f) \/ ReceiveEnd(f) \/ OutputFails(f)
        PROVE  LoopInv'
    <2>1. /\ pc \in {"in", "out"} /\ pc' \in {"out", "hup", "corrupted", "killed"}
          /\ f \in clients /\ Slot.fd = f /\ Erased(f)
          /\ UNCHANGED <<i, numEvents, running, backlog>>
      BY <1>3 DEF ReceiveQuit, ReceiveEnd, OutputFails, Reads, MayBeKilled
    <2> QED BY <2>1, ServedLastKeeps
  <1> QED BY <1>1, <1>2, <1>3, HangUpKeeps, NoHangUpKeeps DEF Serve

-----------------------------------------------------------------------------
(* The invariant *)

LEMMA LoopInit == Init => LoopInv
  <1> SUFFICES ASSUME Init PROVE LoopInv
    OBVIOUS
  <1>1. EvTypeOK
    <2>1. <<>> \in Seq(PollFd) /\ Len(<<>>) <= 1
      OBVIOUS
    <2>2. peer \in [Fd -> PeerState] /\ unread \in [Fd -> BOOLEAN]
      BY DEF Init, PeerState
    <2>3. pollfds = <<>> /\ past = <<>>
      BY DEF Init
    <2>4. pollfds \in Seq(PollFd) /\ past \in Seq(PollFd) /\ Len(past) <= 1
      BY <2>1, <2>3
    <2>5. pc = "setup" /\ running \in BOOLEAN /\ backlog \in BOOLEAN
      BY DEF Init
    <2>6. clients \subseteq Fd /\ i \in Nat \ {0} /\ numEvents \in Nat
      BY DEF Init
    <2> QED BY <2>2, <2>4, <2>5, <2>6 DEF EvTypeOK
  <1>2. HupMeansGone
    BY DEF Init, HupMeansGone
  <1> QED BY <1>1, <1>2 DEF Init, LoopInv, NothingYet, PollSetKept, PastListener,
                            BeyondEndIsInert, CountCovers, InWalk

LEMMA LoopNext == LoopInv /\ [Next]_vars => LoopInv'
  <1> SUFFICES ASSUME LoopInv, [Next]_vars PROVE LoopInv'
    OBVIOUS
  <1>1. CASE UNCHANGED vars
    BY <1>1 DEF vars, loopVars, LoopInv, EvTypeOK, NothingYet, PollSetKept,
                OneElementEach, PastListener, BeyondEndIsInert, CountCovers,
                HupMeansGone, InWalk, ReadyFrom
  <1>2. CASE Step
    <2>1. CASE SetupServerSocket \/ Run
      BY <2>1, StartKeeps
    <2>2. CASE While \/ PollInterrupted \/ PollFails
      BY <2>2, WhileKeeps
    <2>3. CASE PollReturns
      BY <2>3, PollKeeps
    <2>4. CASE EndRound
      BY <2>4, EndRoundKeeps
    <2>5. CASE Skip
      BY <2>5, SkipKeeps
    <2>6. CASE ServeListener
      BY <2>6, ServeListenerKeeps
    <2>7. CASE ServeClient
      BY <2>7, ServeClientKeeps
    <2>8. CASE Serve
      BY <2>8, ServeKeeps
    <2> QED BY <1>2, <2>1, <2>2, <2>3, <2>4, <2>5, <2>6, <2>7, <2>8 DEF Step
  <1>3. CASE Environment
    BY <1>3, EnvironmentKeeps
  <1> QED BY <1>1, <1>2, <1>3 DEF Next

LEMMA LoopInvariance == Spec => []LoopInv
  BY LoopInit, LoopNext, PTL DEF Spec

-----------------------------------------------------------------------------
(* Theorems *)

\* The types of the loop hold whatever arrives, leaves and is erased: its
\* index stays positive and its count of events never goes below zero.
THEOREM EventLoopTypes == Spec => []EvTypeOK
  <1>1. LoopInv => EvTypeOK
    BY DEF LoopInv
  <1> QED BY <1>1, LoopInvariance, PTL

\* acceptNewConnection, _removeClient and the walk keep _pollfds and _clients
\* together: the listening socket first, and then each client exactly once.
THEOREM PollSetIsTheClients == Spec => []PollSetMatchesClients
  <1>1. LoopInv => PollSetMatchesClients
    <2> SUFFICES ASSUME LoopInv, pc \notin {"setup"} \cup Ended
                 PROVE  /\ Len(pollfds) = 1 + Cardinality(clients)
                        /\ pollfds[1].fd = Listen
                        /\ {pollfds[j].fd : j \in 2..Len(pollfds)} = clients
      BY DEF PollSetMatchesClients
    <2> QED BY DEF LoopInv, PollSetKept, OneElementEach
  <1> QED BY <1>1, LoopInvariance, PTL

\* The early exit of the walk over _pollfds, on numEvents, leaves no reported
\* event behind, although erasures shift elements under the index.
THEOREM NothingReportedIsLeft == Spec => []NoneLeftBehind
  <1>1. LoopInv => NoneLeftBehind
    BY DEF LoopInv, CountCovers, NoneLeftBehind
  <1> QED BY <1>1, LoopInvariance, PTL

\* What run reads at _pollfds[i] after an erasure is inside the vector, or one
\* place past its end, where it names a client that is gone.
THEOREM PastTheEndIsInert == Spec => []BeyondEndIsInert
  <1>1. LoopInv => BeyondEndIsInert
    BY DEF LoopInv
  <1> QED BY <1>1, LoopInvariance, PTL

Parting(f) ==
  \/ pc' = "stopped"
  \/ peer[f] \in {"reset", "broken"}
  \/ pc = "in" /\ i <= Len(pollfds) /\ pollfds[i].fd = f
       /\ (unread[f] \/ peer[f] = "closed")

\* The steps that take a client out of the map.
LEMMA PartingStep ==
  ASSUME LoopInv, [Next]_vars, NEW f \in clients \ clients'
  PROVE  Parting(f)
  <1>1. CASE UNCHANGED vars \/ Environment
    BY <1>1 DEF vars, loopVars, Environment, Connect, Send, Disconnect, Signal
  <1>2. CASE Step
    <2>1. CASE Cleanup
      BY <2>1 DEF Cleanup, Parting
    <2>2. CASE \E g \in Fd : ReceiveQuit(g) \/ ReceiveEnd(g)
      <3>1. PICK g \in Fd : ReceiveQuit(g) \/ ReceiveEnd(g)
        BY <2>2
      <3>2. /\ pc = "in" /\ Slot.fd = g /\ g \in clients
            /\ clients' = clients \ {g}
            /\ unread[g] \/ peer[g] # "open"
        BY <3>1 DEF ReceiveQuit, ReceiveEnd, Reads, Erased, RemoveClient
      <3>3. f = g /\ f \in Fd
        BY <3>2
      <3>4. i \in 2..Len(pollfds) /\ Slot = pollfds[i]
        BY <3>2, SlotOfClient DEF InWalk
      <3>5. i <= Len(pollfds) /\ pollfds[i].fd = f
        BY <3>2, <3>3, <3>4
      <3>6. peer[f] \in {"open", "closed", "reset", "broken"}
        BY <3>3 DEF LoopInv, EvTypeOK, PeerState
      <3> QED BY <3>2, <3>3, <3>5, <3>6 DEF Parting
    <2>3. CASE \E g \in Fd : OutputFails(g)
      BY <2>3 DEF OutputFails, Erased, RemoveClient, Parting
    <2>4. CASE HangUp
      <3>1. Slot.fd \in clients /\ RemoveClient(Slot.fd) /\ "HUP" \in Slot.revents
        BY <2>4 DEF HangUp
      <3>2. f = Slot.fd
        BY <3>1 DEF RemoveClient
      <3>3. i \in 2..Len(pollfds) /\ Slot = pollfds[i]
        BY <2>4, <3>1, SlotOfClient DEF HangUp, InWalk
      <3>4. i \in 1..Len(pollfds)
        BY <3>3
      <3>5. peer[pollfds[i].fd] \in {"reset", "broken"}
        BY <3>1, <3>3, <3>4 DEF LoopInv, HupMeansGone
      <3> QED BY <3>2, <3>3, <3>5 DEF Parting
    <2>5. CASE ~Cleanup /\ (SetupServerSocket \/ Run \/ While \/ PollReturns
                             \/ PollInterrupted \/ PollFails)
      BY <2>5 DEF SetupServerSocket, Run, While, PollReturns, PollInterrupted,
                  PollFails
    <2>6. CASE EndRound \/ Skip \/ ServeListener \/ ServeClient
      BY <2>6 DEF EndRound, Skip, ServeListener, ServeClient, AcceptNewConnection
    <2>7. CASE NoInput \/ OutputDone \/ NoHangUp
      BY <2>7 DEF NoInput, OutputDone, NoHangUp
    <2>8. CASE \E g \in Fd : ReceiveCommands(g) \/ OutputKills(g)
      BY <2>8 DEF ReceiveCommands, OutputKills
    <2> QED
      BY <1>2, <2>1, <2>2, <2>3, <2>4, <2>5, <2>6, <2>7, <2>8 DEF Step, Serve
  <1> QED BY <1>1, <1>2 DEF Next

\* While the server runs no client is removed for another: one goes only after
\* its connection was reset, or at its own QUIT or the end of its own stream.
THEOREM NoneRemovedForAnother == Spec => OnlyTheGone
  <1>1. LoopInv /\ [Next]_vars => [\A f \in clients \ clients' : Parting(f)]_vars
    BY PartingStep
  <1>2. LoopInv /\ [Next]_vars =>
          [\A f \in clients \ clients' :
             \/ pc' = "stopped"
             \/ peer[f] \in {"reset", "broken"}
             \/ pc = "in" /\ i <= Len(pollfds) /\ pollfds[i].fd = f
                  /\ (unread[f] \/ peer[f] = "closed")]_vars
    BY <1>1 DEF Parting
  <1> QED BY <1>2, LoopInvariance, PTL DEF Spec, OnlyTheGone
=============================================================================
