-------------------------- MODULE OutputPath_proofs --------------------------
(* Theorems about OutputPath, for every size of the socket's buffer and      *)
(* every number of messages: what the order and the damage are at worst.     *)
EXTENDS OutputPath, SequenceTheorems, FiniteSetTheorems, TLAPS

\* What the socket has taken.
Sent == seen \o sock

\* Each unit belongs to a message that was issued.
Issued(F, K) == \A j \in 1..Len(F) : F[j][1] \in 1..Len(K)

\* OnlyBroadcastsOvertake of any flow.
InOrder(F, K) ==
  \A j, k \in 1..Len(F) : j < k =>
    /\ F[j] # F[k]
    /\ F[j][1] > F[k][1] => K[F[j][1]] = "direct" /\ K[F[k][1]] = "queued"
    /\ F[j][1] = F[k][1] => F[j][2] = "text"

\* The texts that their end does not follow.
Loose(F) ==
  {k \in 1..Len(F) : F[k][2] = "text" /\ (k = Len(F) \/ F[k + 1][2] = "text")}

\* broadcastMessage puts nothing in the queue, and the queue is never cut.
QueueHoldsReplies == \A k \in 1..Len(buffer) : kind[buffer[k][1]] = "queued"

QueueIsWhole == Loose(buffer) = {}

\* A send fails at the cost of a message that no other send fails for.
FailuresCounted ==
  /\ failed <= Len(kind)
  /\ buffer # <<>> => failed < Len(kind)

\* What is lost from the end of a line was lost by a send.
FewLoose == Cardinality(Loose(Sent)) <= failed

Whole(F, m) ==
  \E k \in 1..(Len(F) - 1) : F[k] = <<m, "text">> /\ F[k + 1] = <<m, "end">>

\* m and the later replies were in the queue when the client went.
LeftInQueue(F, m) ==
  /\ ~connected
  /\ \A n \in m..Len(kind) :
       kind[n] = "queued" => \A k \in 1..Len(F) : F[k] # <<n, "text">>
  /\ kind[m] = "queued"

Accounted == failed = 0 => \A m \in 1..Len(kind) : Whole(Flow, m) \/ LeftInQueue(Flow, m)

\* The inductive invariant.
OutInv ==
  /\ OutTypeOK /\ FailuresCounted
  /\ Issued(Flow, kind) /\ InOrder(Flow, kind)
  /\ QueueHoldsReplies /\ QueueIsWhole /\ FewLoose
  /\ Accounted

-----------------------------------------------------------------------------
(* Sequences of units *)

LEMMA FlowIs ==
  ASSUME OutTypeOK
  PROVE  /\ Sent \in Seq(Unit) /\ Len(Sent) = Len(seen) + Len(sock)
         /\ Flow = Sent \o buffer /\ Flow \in Seq(Unit)
         /\ Len(Flow) = Len(Sent) + Len(buffer)
         /\ Len(Sent) \in Nat /\ Len(buffer) \in Nat
         /\ \A j \in 1..Len(Sent) : Flow[j] = Sent[j]
         /\ \A j \in 1..Len(buffer) : Flow[Len(Sent) + j] = buffer[j]
  <1>1. seen \in Seq(Unit) /\ sock \in Seq(Unit) /\ buffer \in Seq(Unit)
    BY DEF OutTypeOK
  <1>2. Sent \in Seq(Unit) /\ Len(Sent) = Len(seen) + Len(sock)
    BY <1>1, ConcatProperties DEF Sent
  <1>3. Flow = Sent \o buffer
    BY DEF Flow, Sent
  <1> HIDE DEF Sent
  <1>4. Len(Sent) \in Nat /\ Len(buffer) \in Nat
    BY <1>1, <1>2, LenProperties
  <1>5. /\ Sent \o buffer \in Seq(Unit)
        /\ Len(Sent \o buffer) = Len(Sent) + Len(buffer)
        /\ \A j \in 1..(Len(Sent) + Len(buffer)) : (Sent \o buffer)[j] =
             IF j <= Len(Sent) THEN Sent[j] ELSE buffer[j - Len(Sent)]
    <2>1. Sent \in Seq(Unit) /\ buffer \in Seq(Unit)
      BY <1>1, <1>2
    <2> QED BY <2>1, ConcatProperties, Zenon
  <1> QED BY <1>2, <1>3, <1>4, <1>5

LEMMA FlowIsNext ==
  OutTypeOK' =>
    /\ Sent' \in Seq(Unit) /\ Len(Sent') = Len(seen') + Len(sock')
    /\ Flow' = Sent' \o buffer' /\ Flow' \in Seq(Unit)
    /\ Len(Flow') = Len(Sent') + Len(buffer')
    /\ Len(Sent') \in Nat /\ Len(buffer') \in Nat
    /\ \A j \in 1..Len(Sent') : Flow'[j] = Sent'[j]
    /\ \A j \in 1..Len(buffer') : Flow'[Len(Sent') + j] = buffer'[j]
  <1> DEFINE Facts ==
        /\ Sent \in Seq(Unit) /\ Len(Sent) = Len(seen) + Len(sock)
        /\ Flow = Sent \o buffer /\ Flow \in Seq(Unit)
        /\ Len(Flow) = Len(Sent) + Len(buffer)
        /\ Len(Sent) \in Nat /\ Len(buffer) \in Nat
        /\ \A j \in 1..Len(Sent) : Flow[j] = Sent[j]
        /\ \A j \in 1..Len(buffer) : Flow[Len(Sent) + j] = buffer[j]
  <1>1. OutTypeOK => Facts
    BY FlowIs
  <1> HIDE DEF Facts
  <1>2. OutTypeOK' => Facts'
    BY <1>1, PTL
  <1> QED BY <1>2 DEF Facts

LEMMA MessageIs ==
  ASSUME NEW m \in 1..MaxMsg
  PROVE  /\ Message(m) \in Seq(Unit) /\ Len(Message(m)) = 2
         /\ Message(m)[1] = <<m, "text">> /\ Message(m)[2] = <<m, "end">>
  BY DEF Message, Unit

LEMMA TakenIs ==
  ASSUME OutTypeOK, NEW s \in Seq(Unit)
  PROVE  /\ Taken(s) \in 0..Len(s)
         /\ Len(sock) + Taken(s) <= Room
         /\ \A n \in 0..Len(s) :
              /\ SubSeq(s, 1, n) \in Seq(Unit) /\ Len(SubSeq(s, 1, n)) = n
              /\ \A k \in 1..n : SubSeq(s, 1, n)[k] = s[k]
  <1>1. Len(s) \in Nat /\ Len(sock) \in Nat /\ Len(sock) <= Room /\ Room \in Nat
    BY OutputAssumption, LenProperties DEF OutTypeOK
  <1>2. Taken(s) \in 0..Len(s) /\ Len(sock) + Taken(s) <= Room
    BY <1>1 DEF Taken
  <1>3. ASSUME NEW n \in 0..Len(s)
        PROVE  /\ SubSeq(s, 1, n) \in Seq(Unit) /\ Len(SubSeq(s, 1, n)) = n
               /\ \A k \in 1..n : SubSeq(s, 1, n)[k] = s[k]
    <2>1. \A k \in 1..n : s[k] \in Unit
      BY <1>1, ElementOfSeq
    <2> QED BY <1>1, <2>1, SubSeqProperties
  <1> QED BY <1>2, <1>3

\* G is F with t put in behind place a.
Inserted(G, F, a, t) ==
  /\ Len(G) = Len(F) + Len(t)
  /\ \A j \in 1..a : G[j] = F[j]
  /\ \A j \in 1..Len(t) : G[a + j] = t[j]
  /\ \A j \in (a + 1)..Len(F) : G[j + Len(t)] = F[j]

\* Where an element of G comes from.
LEMMA Origin ==
  ASSUME NEW F \in Seq(Unit), NEW G \in Seq(Unit), NEW t \in Seq(Unit),
         NEW a \in 0..Len(F), Inserted(G, F, a, t), NEW j \in 1..Len(G)
  PROVE  \/ j <= a /\ j \in 1..Len(F) /\ G[j] = F[j]
         \/ j > a /\ j <= a + Len(t) /\ j - a \in 1..Len(t) /\ G[j] = t[j - a]
         \/ /\ j > a + Len(t) /\ j - Len(t) \in (a + 1)..Len(F)
            /\ G[j] = F[j - Len(t)]
  <1>1. Len(F) \in Nat /\ Len(t) \in Nat /\ a \in Nat /\ j \in Nat
        /\ Len(G) = Len(F) + Len(t)
    BY LenProperties DEF Inserted
  <1>2. CASE j <= a
    BY <1>1, <1>2 DEF Inserted
  <1>3. CASE j > a /\ j <= a + Len(t)
    <2>1. j - a \in 1..Len(t) /\ a + (j - a) = j
      BY <1>1, <1>3
    <2> QED BY <1>3, <2>1 DEF Inserted
  <1>4. CASE j > a + Len(t)
    <2>1. j - Len(t) \in (a + 1)..Len(F) /\ (j - Len(t)) + Len(t) = j
      BY <1>1, <1>4
    <2> QED BY <1>4, <2>1 DEF Inserted
  <1> QED BY <1>1, <1>2, <1>3, <1>4

\* A new message, or the part of it that was taken, goes in at a place behind
\* which it overtakes replies only.
LEMMA InsertKeepsOrder ==
  ASSUME NEW F \in Seq(Unit), NEW G \in Seq(Unit), NEW t \in Seq(Unit),
         NEW K \in Seq({"queued", "direct"}), NEW how \in {"queued", "direct"},
         NEW a \in 0..Len(F), Inserted(G, F, a, t),
         Issued(F, K), InOrder(F, K), Len(t) \in 0..2,
         Len(t) >= 1 => t[1] = <<Len(K) + 1, "text">>,
         Len(t) = 2 => t[2] = <<Len(K) + 1, "end">>,
         \A j \in (a + 1)..Len(F) : how = "direct" /\ K[F[j][1]] = "queued"
  PROVE  Issued(G, Append(K, how)) /\ InOrder(G, Append(K, how))
  <1> DEFINE m == Len(K) + 1
             L == Append(K, how)
  <1>1. /\ Len(K) \in Nat /\ Len(F) \in Nat /\ Len(t) \in Nat /\ a \in Nat
        /\ Len(L) = m /\ L[m] = how
        /\ \A x \in 1..Len(K) : L[x] = K[x]
    BY LenProperties, AppendProperties
  <1> HIDE DEF L
  <1>2. ASSUME NEW j \in 1..Len(t) PROVE t[j][1] = m
    <2>1. \A n \in 0..2 : \A x \in 1..n : x = 1 \/ (x = 2 /\ n = 2)
      OBVIOUS
    <2>2. j = 1 \/ (j = 2 /\ Len(t) = 2)
      BY <2>1
    <2> QED BY <2>2
  <1>3. \A j \in 1..Len(F) : F[j][1] \in 1..Len(K) /\ F[j][1] \in Nat
                             /\ F[j][1] < m /\ L[F[j][1]] = K[F[j][1]]
    BY <1>1 DEF Issued
  <1>4. Issued(G, L)
    <2> SUFFICES ASSUME NEW j \in 1..Len(G) PROVE G[j][1] \in 1..m
      BY <1>1 DEF Issued
    <2>1. CASE \E k \in 1..Len(F) : G[j] = F[k]
      BY <1>1, <1>3, <2>1
    <2>2. CASE \E k \in 1..Len(t) : G[j] = t[k]
      <3>1. PICK k \in 1..Len(t) : G[j] = t[k]
        BY <2>2
      <3>2. G[j][1] = m
        BY <1>2, <3>1
      <3> QED BY <1>1, <3>2
    <2>3. \/ j \in 1..Len(F) /\ G[j] = F[j]
          \/ j - a \in 1..Len(t) /\ G[j] = t[j - a]
          \/ j - Len(t) \in (a + 1)..Len(F) /\ G[j] = F[j - Len(t)]
      BY Origin
    <2>4. \A k \in (a + 1)..Len(F) : k \in 1..Len(F)
      BY <1>1
    <2> QED BY <2>1, <2>2, <2>3, <2>4
  <1>5. InOrder(G, L)
    <2> SUFFICES ASSUME NEW j \in 1..Len(G), NEW k \in 1..Len(G), j < k
                 PROVE  /\ G[j] # G[k]
                        /\ G[j][1] > G[k][1] =>
                             L[G[j][1]] = "direct" /\ L[G[k][1]] = "queued"
                        /\ G[j][1] = G[k][1] => G[j][2] = "text"
      BY DEF InOrder
    \* Both come from F, in the same order.
    <2>1. CASE \E x, y \in 1..Len(F) : x < y /\ G[j] = F[x] /\ G[k] = F[y]
      <3>1. PICK x \in 1..Len(F), y \in 1..Len(F) :
              x < y /\ G[j] = F[x] /\ G[k] = F[y]
        BY <2>1
      <3>2. /\ F[x] # F[y]
            /\ F[x][1] > F[y][1] => K[F[x][1]] = "direct" /\ K[F[y][1]] = "queued"
            /\ F[x][1] = F[y][1] => F[x][2] = "text"
        BY <3>1 DEF InOrder
      <3> QED BY <1>3, <3>1, <3>2
    \* The second is new.
    <2>2. CASE \E x \in 1..Len(F), y \in 1..Len(t) : G[j] = F[x] /\ G[k] = t[y]
      BY <1>1, <1>2, <1>3, <2>2
    \* The first is new, and the second was behind it.
    <2>3. CASE \E x \in 1..Len(t), y \in (a + 1)..Len(F) : G[j] = t[x] /\ G[k] = F[y]
      <3>1. PICK x \in 1..Len(t), y \in (a + 1)..Len(F) : G[j] = t[x] /\ G[k] = F[y]
        BY <2>3
      <3>2. y \in 1..Len(F) /\ G[j][1] = m /\ G[k][1] < m
        BY <1>1, <1>2, <1>3, <3>1
      <3>3. L[G[j][1]] = "direct" /\ L[G[k][1]] = "queued"
        BY <1>1, <1>3, <3>1, <3>2
      <3> QED BY <1>1, <3>1, <3>2, <3>3, <1>3
    <2>4. CASE \E x, y \in 1..Len(t) : x < y /\ G[j] = t[x] /\ G[k] = t[y]
      <3>1. PICK x \in 1..Len(t), y \in 1..Len(t) : x < y /\ G[j] = t[x] /\ G[k] = t[y]
        BY <2>4
      <3>2. x = 1 /\ y = 2 /\ Len(t) = 2
        BY <3>1, SMTT(30)
      <3>3. G[j] = <<m, "text">> /\ G[k] = <<m, "end">>
        BY <3>1, <3>2
      <3> QED BY <1>1, <3>3
    <2>5. \/ j <= a /\ j \in 1..Len(F) /\ G[j] = F[j]
          \/ j > a /\ j <= a + Len(t) /\ j - a \in 1..Len(t) /\ G[j] = t[j - a]
          \/ /\ j > a + Len(t) /\ j - Len(t) \in (a + 1)..Len(F)
             /\ G[j] = F[j - Len(t)]
      BY Origin
    <2>6. \/ k <= a /\ k \in 1..Len(F) /\ G[k] = F[k]
          \/ k > a /\ k <= a + Len(t) /\ k - a \in 1..Len(t) /\ G[k] = t[k - a]
          \/ /\ k > a + Len(t) /\ k - Len(t) \in (a + 1)..Len(F)
             /\ G[k] = F[k - Len(t)]
      BY Origin
    <2>7. j \in Nat /\ k \in Nat /\ (a + 1)..Len(F) \subseteq 1..Len(F)
      BY <1>1
    <2>8. CASE j <= a
      <3>1. j \in 1..Len(F) /\ G[j] = F[j]
        BY <1>1, <2>5, <2>7, <2>8
      <3>2. CASE k <= a
        BY <1>1, <2>1, <2>6, <2>7, <3>1, <3>2
      <3>3. CASE k - a \in 1..Len(t) /\ G[k] = t[k - a]
        BY <2>2, <3>1, <3>3
      <3>4. CASE k - Len(t) \in (a + 1)..Len(F) /\ G[k] = F[k - Len(t)]
        <4>1. j < k - Len(t) /\ k - Len(t) \in 1..Len(F)
          BY <1>1, <2>7, <2>8, <3>4
        <4> QED BY <2>1, <3>1, <3>4, <4>1
      <3> QED BY <2>6, <3>2, <3>3, <3>4
    <2>9. CASE j > a /\ j <= a + Len(t)
      <3>1. j - a \in 1..Len(t) /\ G[j] = t[j - a]
        BY <1>1, <2>5, <2>7, <2>9
      <3>2. CASE k <= a + Len(t)
        <4>1. k - a \in 1..Len(t) /\ G[k] = t[k - a] /\ j - a < k - a
          BY <1>1, <2>6, <2>7, <2>9, <3>2
        <4> QED BY <2>4, <3>1, <4>1
      <3>3. CASE k > a + Len(t)
        <4>1. k - Len(t) \in (a + 1)..Len(F) /\ G[k] = F[k - Len(t)]
          BY <1>1, <2>6, <2>7, <3>3
        <4> QED BY <2>3, <3>1, <4>1
      <3> QED BY <1>1, <2>7, <3>2, <3>3
    <2>10. CASE j > a + Len(t)
      <3>1. /\ j - Len(t) \in 1..Len(F) /\ G[j] = F[j - Len(t)]
            /\ k - Len(t) \in 1..Len(F) /\ G[k] = F[k - Len(t)]
            /\ j - Len(t) < k - Len(t)
        BY <1>1, <2>5, <2>6, <2>7, <2>10, SMTT(30)
      <3> QED BY <2>1, <3>1
    <2> QED BY <1>1, <2>7, <2>8, <2>9, <2>10
  <1> QED BY <1>4, <1>5 DEF L

\* Losing the end of the flow takes nothing out of order.
LEMMA PrefixKeepsOrder ==
  ASSUME NEW F \in Seq(Unit), NEW G \in Seq(Unit), NEW K,
         Len(G) <= Len(F), \A j \in 1..Len(G) : G[j] = F[j],
         Issued(F, K), InOrder(F, K)
  PROVE  Issued(G, K) /\ InOrder(G, K)
  <1>1. Len(F) \in Nat /\ Len(G) \in Nat /\ 1..Len(G) \subseteq 1..Len(F)
    BY LenProperties
  <1>2. Issued(G, K)
    BY <1>1 DEF Issued
  <1>3. ASSUME NEW j \in 1..Len(G), NEW k \in 1..Len(G), j < k
        PROVE  /\ G[j] # G[k]
               /\ G[j][1] > G[k][1] => K[G[j][1]] = "direct" /\ K[G[k][1]] = "queued"
               /\ G[j][1] = G[k][1] => G[j][2] = "text"
    <2>1. j \in 1..Len(F) /\ k \in 1..Len(F) /\ G[j] = F[j] /\ G[k] = F[k]
      BY <1>1
    <2>2. /\ F[j] # F[k]
          /\ F[j][1] > F[k][1] => K[F[j][1]] = "direct" /\ K[F[k][1]] = "queued"
          /\ F[j][1] = F[k][1] => F[j][2] = "text"
      BY <1>3, <2>1 DEF InOrder
    <2> QED BY <2>1, <2>2
  <1>4. InOrder(G, K)
    BY <1>3 DEF InOrder
  <1> QED BY <1>2, <1>4

-----------------------------------------------------------------------------
(* What each action does to the flow *)

LEMMA IssueIs ==
  ASSUME OutTypeOK, NEW how \in {"queued", "direct"}, Issue(how)
  PROVE  /\ connected /\ Len(kind) \in Nat /\ Len(kind) + 1 \in 1..MaxMsg
         /\ kind' = Append(kind, how) /\ kind' \in Seq({"queued", "direct"})
         /\ Len(kind') = Len(kind) + 1 /\ kind'[Len(kind) + 1] = how
         /\ \A m \in 1..Len(kind) : kind'[m] = kind[m]
  <1>1. kind \in Seq({"queued", "direct"}) /\ Len(kind) \in Nat /\ MaxMsg \in Nat
    BY OutputAssumption, LenProperties DEF OutTypeOK
  <1> QED BY <1>1, AppendProperties DEF Issue

LEMMA AddStep ==
  ASSUME OutTypeOK, FailuresCounted, AddToBuffer
  PROVE  /\ OutTypeOK' /\ FailuresCounted'
         /\ Sent' = Sent /\ failed' = failed /\ connected /\ connected'
         /\ buffer' = buffer \o Message(Len(kind) + 1)
         /\ Inserted(Flow', Flow, Len(Flow), Message(Len(kind) + 1))
  <1> DEFINE m == Len(kind) + 1
             t == Message(m)
  <1>1. Issue("queued") /\ UNCHANGED <<sock, seen, connected, failed>>
        /\ buffer' = buffer \o Message(Len(kind'))
    BY DEF AddToBuffer
  <1>2. /\ connected /\ Len(kind) \in Nat /\ m \in 1..MaxMsg
        /\ kind' \in Seq({"queued", "direct"}) /\ Len(kind') = m
    BY <1>1, IssueIs
  <1>3. t \in Seq(Unit) /\ Len(t) = 2
    BY <1>2, MessageIs
  <1>4. buffer' = buffer \o t
    BY <1>1, <1>2
  <1> HIDE DEF t
  <1>5. buffer \in Seq(Unit) /\ Len(buffer) \in Nat
    BY LenProperties DEF OutTypeOK
  <1>6. /\ buffer' \in Seq(Unit) /\ Len(buffer') = Len(buffer) + 2
        /\ \A j \in 1..(Len(buffer) + 2) : buffer'[j] =
             IF j <= Len(buffer) THEN buffer[j] ELSE t[j - Len(buffer)]
    <2>1. /\ buffer \o t \in Seq(Unit)
          /\ Len(buffer \o t) = Len(buffer) + Len(t)
          /\ \A j \in 1..(Len(buffer) + Len(t)) : (buffer \o t)[j] =
               IF j <= Len(buffer) THEN buffer[j] ELSE t[j - Len(buffer)]
      BY <1>3, <1>5, ConcatProperties
    <2> QED BY <1>3, <1>4, <2>1
  <1>7. m <= MaxMsg /\ m \in Nat
    BY <1>2, OutputAssumption
  <1>8. OutTypeOK'
    BY <1>1, <1>2, <1>6, <1>7 DEF OutTypeOK
  <1>9. FailuresCounted'
    <2>1. failed \in Nat /\ failed <= Len(kind)
      BY DEF FailuresCounted, OutTypeOK
    <2> QED BY <1>1, <1>2, <2>1 DEF FailuresCounted
  <1>10. Sent' = Sent
    BY <1>1 DEF Sent
  <1>11. Inserted(Flow', Flow, Len(Flow), t)
    <2>1. /\ Len(Flow) = Len(Sent) + Len(buffer) /\ Len(Sent) \in Nat
          /\ \A j \in 1..Len(Sent) : Flow[j] = Sent[j]
          /\ \A j \in 1..Len(buffer) : Flow[Len(Sent) + j] = buffer[j]
      BY FlowIs
    <2>2. /\ Len(Flow') = Len(Sent) + Len(buffer')
          /\ \A j \in 1..Len(Sent) : Flow'[j] = Sent[j]
          /\ \A j \in 1..Len(buffer') : Flow'[Len(Sent) + j] = buffer'[j]
      BY <1>8, <1>10, FlowIsNext
    <2>3. ASSUME NEW j \in 1..Len(Flow) PROVE Flow'[j] = Flow[j]
      <3>1. CASE j <= Len(Sent)
        BY <1>5, <2>1, <2>2, <3>1
      <3>2. CASE j > Len(Sent)
        <4>1. /\ j - Len(Sent) \in 1..Len(buffer)
              /\ Len(Sent) + (j - Len(Sent)) = j
          BY <1>5, <2>1, <3>2
        <4>2. buffer'[j - Len(Sent)] = buffer[j - Len(Sent)]
          BY <1>5, <1>6, <4>1
        <4>3. j - Len(Sent) \in 1..Len(buffer')
          BY <1>5, <1>6, <4>1
        <4> QED BY <2>1, <2>2, <4>1, <4>2, <4>3
      <3> QED BY <1>5, <2>1, <3>1, <3>2
    <2>4. ASSUME NEW j \in 1..2 PROVE Flow'[Len(Flow) + j] = t[j]
      <3>1. /\ Len(buffer) + j \in 1..Len(buffer')
            /\ ~(Len(buffer) + j <= Len(buffer))
            /\ (Len(buffer) + j) - Len(buffer) = j
            /\ Len(Flow) + j = Len(Sent) + (Len(buffer) + j)
        BY <1>5, <1>6, <2>1
      <3>2. buffer'[Len(buffer) + j] = t[j]
        BY <1>5, <1>6, <3>1
      <3> QED BY <2>2, <3>1, <3>2
    <2>5. Len(Flow') = Len(Flow) + 2 /\ (Len(Flow) + 1)..Len(Flow) = {}
      BY <1>5, <1>6, <2>1, <2>2
    <2> QED BY <1>3, <2>3, <2>4, <2>5 DEF Inserted
  <1> QED BY <1>1, <1>2, <1>4, <1>8, <1>9, <1>10, <1>11 DEF t

\* n units of t are put in behind what was sent before.
LEMMA SendStep ==
  ASSUME OutTypeOK, FailuresCounted, SendMessage
  PROVE  \E n \in 0..2 :
           LET t == SubSeq(Message(Len(kind) + 1), 1, n) IN
           /\ OutTypeOK' /\ FailuresCounted'
           /\ t \in Seq(Unit) /\ Len(t) = n
           /\ n >= 1 => t[1] = <<Len(kind) + 1, "text">>
           /\ n = 2 => t[2] = <<Len(kind) + 1, "end">>
           /\ Sent' = Sent \o t /\ buffer' = buffer /\ connected /\ connected'
           /\ failed' = IF n < 2 THEN failed + 1 ELSE failed
           /\ Inserted(Flow', Flow, Len(Sent), t)
  <1> DEFINE m == Len(kind) + 1
             msg == Message(m)
             n == Taken(msg)
             t == SubSeq(msg, 1, n)
  <1>1. /\ Issue("direct") /\ UNCHANGED <<buffer, seen, connected>>
        /\ LET ms == Message(Len(kind')) IN
           /\ sock' = sock \o SubSeq(ms, 1, Taken(ms))
           /\ failed' = IF Taken(ms) < Len(ms) THEN failed + 1 ELSE failed
    BY DEF SendMessage
  <1>2. /\ connected /\ Len(kind) \in Nat /\ m \in 1..MaxMsg
        /\ kind' \in Seq({"queued", "direct"}) /\ Len(kind') = m
    BY <1>1, IssueIs
  <1>3. /\ msg \in Seq(Unit) /\ Len(msg) = 2
        /\ msg[1] = <<m, "text">> /\ msg[2] = <<m, "end">>
    BY <1>2, MessageIs
  <1>4. sock' = sock \o t /\ failed' = IF n < 2 THEN failed + 1 ELSE failed
    BY <1>1, <1>2, <1>3
  <1> HIDE DEF msg
  <1>5. n \in 0..2 /\ Len(sock) + n <= Room
    BY <1>3, TakenIs
  <1>6. /\ t \in Seq(Unit) /\ Len(t) = n
        /\ \A k \in 1..n : t[k] = msg[k]
    BY <1>3, <1>5, TakenIs
  <1> HIDE DEF n, t
  <1>7. /\ seen \in Seq(Unit) /\ sock \in Seq(Unit) /\ buffer \in Seq(Unit)
        /\ Len(buffer) \in Nat
    BY LenProperties DEF OutTypeOK
  <1>8. sock' \in Seq(Unit) /\ Len(sock') = Len(sock) + n
    BY <1>4, <1>6, <1>7, ConcatProperties
  <1>9. failed' \in 0..m /\ failed' <= m /\ (buffer # <<>> => failed' < m)
    BY <1>2, <1>4, <1>5 DEF OutTypeOK, FailuresCounted
  <1>10. m <= MaxMsg /\ m \in Nat
    BY <1>2, OutputAssumption
  <1>11. OutTypeOK'
    <2>1. failed' \in 0..MaxMsg
      BY <1>9, <1>10, OutputAssumption
    <2> QED BY <1>1, <1>2, <1>5, <1>8, <1>10, <2>1 DEF OutTypeOK
  <1>12. FailuresCounted'
    BY <1>1, <1>2, <1>9 DEF FailuresCounted
  <1>13. Sent' = Sent \o t
    <2>1. (seen \o sock) \o t = seen \o (sock \o t)
      BY <1>6, <1>7, ConcatAssociative, SMTT(30)
    <2> QED BY <1>1, <1>4, <2>1 DEF Sent
  <1>14. Inserted(Flow', Flow, Len(Sent), t)
    <2>1. /\ Len(Flow) = Len(Sent) + Len(buffer) /\ Len(Sent) \in Nat
          /\ Sent \in Seq(Unit)
          /\ \A j \in 1..Len(Sent) : Flow[j] = Sent[j]
          /\ \A j \in 1..Len(buffer) : Flow[Len(Sent) + j] = buffer[j]
      BY FlowIs
    <2>2. /\ Len(Flow') = Len(Sent') + Len(buffer)
          /\ \A j \in 1..Len(Sent') : Flow'[j] = Sent'[j]
          /\ \A j \in 1..Len(buffer) : Flow'[Len(Sent') + j] = buffer[j]
      BY <1>1, <1>11, FlowIsNext
    <2>3. /\ Len(Sent') = Len(Sent) + n
          /\ \A j \in 1..(Len(Sent) + n) : Sent'[j] =
               IF j <= Len(Sent) THEN Sent[j] ELSE t[j - Len(Sent)]
      <3>1. /\ Len(Sent \o t) = Len(Sent) + Len(t)
            /\ \A j \in 1..(Len(Sent) + Len(t)) : (Sent \o t)[j] =
                 IF j <= Len(Sent) THEN Sent[j] ELSE t[j - Len(Sent)]
        <4>1. Sent \in Seq(Unit) /\ t \in Seq(Unit)
          BY <1>6, <2>1
        <4> QED BY <4>1, ConcatProperties
      <3> QED BY <1>6, <1>13, <3>1
    <2>4. ASSUME NEW j \in 1..Len(Sent) PROVE Flow'[j] = Flow[j]
      BY <1>5, <2>1, <2>2, <2>3
    <2>5. ASSUME NEW j \in 1..n PROVE Flow'[Len(Sent) + j] = t[j]
      <3>1. /\ Len(Sent) + j \in 1..(Len(Sent) + n)
            /\ ~(Len(Sent) + j <= Len(Sent)) /\ (Len(Sent) + j) - Len(Sent) = j
        BY <1>5, <2>1
      <3> QED BY <2>2, <2>3, <3>1
    <2>6. ASSUME NEW j \in (Len(Sent) + 1)..Len(Flow) PROVE Flow'[j + n] = Flow[j]
      <3>1. /\ j - Len(Sent) \in 1..Len(buffer)
            /\ Len(Sent) + (j - Len(Sent)) = j
            /\ Len(Sent') + (j - Len(Sent)) = j + n
        BY <1>5, <1>7, <2>1, <2>3
      <3> QED BY <2>1, <2>2, <3>1
    <2>7. Len(Flow') = Len(Flow) + n
      BY <1>5, <1>7, <2>1, <2>2, <2>3
    <2> QED BY <1>6, <2>4, <2>5, <2>6, <2>7 DEF Inserted
  <1>15. (n >= 1 => t[1] = <<m, "text">>) /\ (n = 2 => t[2] = <<m, "end">>)
    BY <1>3, <1>5, <1>6
  <1> QED
    BY <1>1, <1>2, <1>4, <1>5, <1>6, <1>11, <1>12, <1>13, <1>14, <1>15
    DEF t, msg

\* Nothing was taken, or the first n units of the queue and the rest is lost.
LEMMA OutputStep ==
  ASSUME OutTypeOK, FailuresCounted, HandleClientOutput
  PROVE  /\ OutTypeOK' /\ FailuresCounted' /\ connected /\ connected' /\ kind' = kind
         /\ \/ Sent' = Sent /\ buffer' = buffer /\ failed' = failed
            \/ \E n \in 1..Len(buffer) :
                 LET t == SubSeq(buffer, 1, n) IN
                 /\ t \in Seq(Unit) /\ Len(t) = n
                 /\ \A k \in 1..n : t[k] = buffer[k]
                 /\ Sent' = Sent \o t /\ buffer' = <<>>
                 /\ failed' = IF n < Len(buffer) THEN failed + 1 ELSE failed
  <1> DEFINE n == Taken(buffer)
             t == SubSeq(buffer, 1, n)
  <1>1. /\ connected /\ buffer # <<>>
        /\ sock' = sock \o t
        /\ buffer' = IF n > 0 THEN <<>> ELSE buffer
        /\ failed' = IF n > 0 /\ n < Len(buffer) THEN failed + 1 ELSE failed
        /\ UNCHANGED <<kind, seen, connected>>
    BY DEF HandleClientOutput
  <1>2. /\ seen \in Seq(Unit) /\ sock \in Seq(Unit) /\ buffer \in Seq(Unit)
        /\ Len(buffer) \in Nat
    BY LenProperties DEF OutTypeOK
  <1>3. n \in 0..Len(buffer) /\ Len(sock) + n <= Room
    BY <1>2, TakenIs
  <1>4. t \in Seq(Unit) /\ Len(t) = n /\ \A k \in 1..n : t[k] = buffer[k]
    BY <1>2, <1>3, TakenIs
  <1> HIDE DEF n, t
  <1>5. sock' \in Seq(Unit) /\ Len(sock') = Len(sock) + n
    BY <1>1, <1>2, <1>4, ConcatProperties
  <1>6. Sent' = Sent \o t
    <2>1. (seen \o sock) \o t = seen \o (sock \o t)
      BY <1>2, <1>4, ConcatAssociative, SMTT(30)
    <2> QED BY <1>1, <2>1 DEF Sent
  <1>7. failed < Len(kind) /\ failed \in Nat /\ Len(kind) \in Nat
        /\ Len(kind) <= MaxMsg /\ MaxMsg \in Nat
    BY <1>1, OutputAssumption, LenProperties DEF OutTypeOK, FailuresCounted
  <1>8. buffer' \in Seq(Unit) /\ failed' \in 0..MaxMsg
    BY <1>1, <1>2, <1>3, <1>7
  <1>9. OutTypeOK'
    BY <1>1, <1>3, <1>5, <1>8 DEF OutTypeOK
  <1>10. FailuresCounted'
    BY <1>1, <1>3, <1>7 DEF FailuresCounted
  <1>11. CASE n = 0
    <2>1. t = <<>>
      BY <1>4, <1>11, EmptySeq
    <2>2. Sent \o t = Sent
      <3>1. Sent \in Seq(Unit)
        BY FlowIs
      <3> QED BY <2>1, <3>1, ConcatEmptySeq
    <2> QED BY <1>1, <1>6, <1>9, <1>10, <1>11, <2>2
  <1>12. CASE n > 0
    <2>1. n \in 1..Len(buffer)
      BY <1>2, <1>3, <1>12
    <2>2. buffer' = <<>> /\ failed' = IF n < Len(buffer) THEN failed + 1 ELSE failed
      BY <1>1, <1>12
    <2> QED BY <1>1, <1>4, <1>6, <1>9, <1>10, <2>1, <2>2 DEF t
  <1>13. n = 0 \/ n > 0
    BY <1>2, <1>3
  <1> QED BY <1>11, <1>12, <1>13

LEMMA RemoveStep ==
  ASSUME OutTypeOK, FailuresCounted, RemoveClient
  PROVE  /\ OutTypeOK' /\ FailuresCounted' /\ connected /\ ~connected'
         /\ kind' = kind /\ failed' = failed
         /\ Sent' = Sent /\ buffer' = <<>> /\ Flow' = Sent
  <1>1. /\ connected /\ connected' = FALSE /\ buffer' = <<>>
        /\ UNCHANGED <<kind, sock, seen, failed>>
    BY DEF RemoveClient
  <1>2. OutTypeOK' /\ FailuresCounted'
    <2>1. <<>> \in Seq(Unit)
      OBVIOUS
    <2>2. buffer' \in Seq(Unit)
      BY <1>1, <2>1
    <2>3. OutTypeOK'
      BY <1>1, <2>2 DEF OutTypeOK
    <2>4. FailuresCounted'
      BY <1>1 DEF FailuresCounted
    <2> QED BY <2>3, <2>4
  <1>3. Sent' = Sent
    BY <1>1 DEF Sent
  <1>4. Sent \o <<>> = Sent
    <2>1. Sent \in Seq(Unit)
      BY FlowIs
    <2> QED BY <2>1, ConcatEmptySeq
  <1>5. Flow' = Sent' \o buffer'
    BY DEF Flow, Sent
  <1> QED BY <1>1, <1>2, <1>3, <1>4, <1>5

LEMMA ReceiveStep ==
  ASSUME OutTypeOK, FailuresCounted, PeerReceives
  PROVE  /\ OutTypeOK' /\ FailuresCounted'
         /\ UNCHANGED <<kind, buffer, connected, failed>>
         /\ Sent' = Sent /\ Flow' = Flow
  <1>1. /\ sock # <<>> /\ seen' = Append(seen, Head(sock)) /\ sock' = Tail(sock)
        /\ UNCHANGED <<kind, buffer, connected, failed>>
    BY DEF PeerReceives
  <1>2. seen \in Seq(Unit) /\ sock \in Seq(Unit) /\ Len(sock) \in Nat /\ Len(sock) <= Room
    BY LenProperties DEF OutTypeOK
  <1>3. /\ Head(sock) \in Unit /\ Tail(sock) \in Seq(Unit)
        /\ Len(Tail(sock)) = Len(sock) - 1
        /\ sock = <<Head(sock)>> \o Tail(sock)
    <2>1. /\ Head(sock) \in Unit /\ Tail(sock) \in Seq(Unit)
          /\ Len(Tail(sock)) = Len(sock) - 1
      BY <1>1, <1>2, HeadTailProperties
    <2>2. sock = <<Head(sock)>> \o Tail(sock)
      BY <1>1, <1>2
    <2> QED BY <2>1, <2>2
  <1>4. seen' = seen \o <<Head(sock)>> /\ seen' \in Seq(Unit)
    <2>1. Append(seen, Head(sock)) = seen \o <<Head(sock)>>
      BY <1>2, <1>3, AppendIsConcat
    <2>2. Append(seen, Head(sock)) \in Seq(Unit)
      BY <1>2, <1>3, AppendProperties
    <2> QED BY <1>1, <2>1, <2>2
  <1>5. Sent' = Sent
    <2>1. (seen \o <<Head(sock)>>) \o Tail(sock) = seen \o (<<Head(sock)>> \o Tail(sock))
      <3>1. <<Head(sock)>> \in Seq(Unit)
        BY <1>3
      <3> QED BY <1>2, <1>3, <3>1, ConcatAssociative
    <2> QED BY <1>1, <1>3, <1>4, <2>1 DEF Sent
  <1>6. OutTypeOK'
    <2>1. Len(sock') <= Room /\ sock' \in Seq(Unit)
      <3>1. Room \in Nat
        BY OutputAssumption
      <3> QED BY <1>1, <1>2, <1>3, <3>1
    <2> QED BY <1>1, <1>4, <2>1 DEF OutTypeOK
  <1>7. FailuresCounted'
    BY <1>1 DEF FailuresCounted
  <1>8. Flow' = Flow
    <2>1. Flow' = Sent' \o buffer' /\ Flow = Sent \o buffer
      BY DEF Flow, Sent
    <2> QED BY <1>1, <1>5, <2>1
  <1> QED BY <1>1, <1>5, <1>6, <1>7, <1>8

-----------------------------------------------------------------------------
(* Texts without their end *)

LEMMA LooseIsFinite ==
  ASSUME NEW F \in Seq(Unit)
  PROVE  /\ IsFiniteSet(Loose(F)) /\ Cardinality(Loose(F)) \in Nat
         /\ Cardinality(Loose(F)) = 0 => Loose(F) = {}
  <1>1. IsFiniteSet(1..Len(F))
    BY LenProperties, FS_Interval
  <1>2. Loose(F) \subseteq 1..Len(F)
    BY DEF Loose
  <1>3. IsFiniteSet(Loose(F))
    BY <1>1, <1>2, FS_Subset
  <1> QED BY <1>3, FS_CardinalityType, FS_EmptySet

\* Putting t behind A leaves one more loose text at most, its last.
LEMMA LooseConcat ==
  ASSUME NEW A \in Seq(Unit), NEW t \in Seq(Unit),
         \A k \in 1..Len(t) : t[k][2] = "text" /\ k # Len(t) => t[k + 1][2] # "text"
  PROVE  /\ A \o t \in Seq(Unit)
         /\ Loose(A \o t) \subseteq Loose(A) \cup {Len(A) + Len(t)}
         /\ Len(t) > 0 /\ t[Len(t)][2] # "text" => Loose(A \o t) \subseteq Loose(A)
         /\ Cardinality(Loose(A \o t)) <= Cardinality(Loose(A)) + 1
         /\ Len(t) > 0 /\ t[Len(t)][2] # "text" =>
              Cardinality(Loose(A \o t)) <= Cardinality(Loose(A))
  <1> DEFINE G == A \o t
             a == Len(A)
             n == Len(t)
  <1>1. a \in Nat /\ n \in Nat
    BY LenProperties
  <1>2. /\ G \in Seq(Unit) /\ Len(G) = a + n
        /\ \A j \in 1..(a + n) : G[j] = IF j <= a THEN A[j] ELSE t[j - a]
    BY ConcatProperties
  <1> HIDE DEF G
  <1>3. ASSUME NEW k \in Loose(G)
        PROVE  k \in Loose(A) \/ (k = a + n /\ n > 0 /\ t[n][2] = "text")
    <2>1. /\ k \in 1..(a + n) /\ k \in Nat /\ G[k][2] = "text"
          /\ k = a + n \/ G[k + 1][2] = "text"
      BY <1>1, <1>2 DEF Loose
    <2>2. CASE k < a
      <3>1. k + 1 \in 1..(a + n) /\ k \in 1..a /\ k # a + n
        BY <1>1, <2>1, <2>2
      <3>2. G[k] = A[k] /\ G[k + 1] = A[k + 1]
        BY <1>1, <1>2, <2>1, <2>2, <3>1
      <3> QED BY <2>1, <3>1, <3>2 DEF Loose
    <2>3. CASE k = a
      <3>1. G[k] = A[k]
        BY <1>1, <1>2, <2>1, <2>3
      <3> QED BY <2>1, <2>3, <3>1 DEF Loose
    <2>4. CASE k > a
      <3>1. k - a \in 1..n /\ G[k] = t[k - a] /\ n > 0
        BY <1>1, <1>2, <2>1, <2>4
      <3>2. k = a + n => k - a = n
        BY <1>1
      <3>3. ASSUME k # a + n PROVE FALSE
        <4>1. k + 1 \in 1..(a + n) /\ (k - a) + 1 = (k + 1) - a /\ k - a # n
          BY <1>1, <2>1, <2>4, <3>3
        <4>2. G[k + 1] = t[(k + 1) - a]
          BY <1>1, <1>2, <2>1, <2>4, <4>1
        <4>3. G[k + 1] = t[(k - a) + 1]
          BY <4>1, <4>2
        <4> QED BY <2>1, <3>1, <3>3, <4>1, <4>3
      <3> QED BY <2>1, <3>1, <3>2, <3>3
    <2> QED BY <1>1, <2>1, <2>2, <2>3, <2>4
  <1>4. IsFiniteSet(Loose(A)) /\ Cardinality(Loose(A)) \in Nat
    BY LooseIsFinite
  <1>5. Cardinality(Loose(G)) <= Cardinality(Loose(A)) + 1
    <2> DEFINE B == Loose(A) \cup {a + n}
    <2>1. /\ IsFiniteSet(B) /\ Cardinality(B) \in Nat
          /\ Cardinality(B) <= Cardinality(Loose(A)) + 1
      <3>1. /\ IsFiniteSet(B)
            /\ Cardinality(B) = IF a + n \in Loose(A) THEN Cardinality(Loose(A))
                                ELSE Cardinality(Loose(A)) + 1
        BY <1>4, FS_AddElement
      <3> HIDE DEF B
      <3> QED BY <1>4, <3>1
    <2>2. Loose(G) \subseteq B
      BY <1>3
    <2> HIDE DEF B
    <2>3. Cardinality(Loose(G)) \in Nat
      BY <1>2, LooseIsFinite
    <2>4. Cardinality(Loose(G)) <= Cardinality(B)
      BY <2>1, <2>2, FS_Subset
    <2> QED BY <1>4, <2>1, <2>3, <2>4
  <1>6. n > 0 /\ t[n][2] # "text" => Loose(G) \subseteq Loose(A)
    BY <1>3
  <1>7. n > 0 /\ t[n][2] # "text" => Cardinality(Loose(G)) <= Cardinality(Loose(A))
    BY <1>4, <1>6, FS_Subset
  <1> QED BY <1>2, <1>3, <1>5, <1>6, <1>7 DEF G

-----------------------------------------------------------------------------
(* One lemma per action *)

LEMMA AddKeeps ==
  ASSUME OutInv, AddToBuffer
  PROVE  OutInv'
  <1> DEFINE m == Len(kind) + 1
             t == Message(m)
  <1> USE DEF OutInv
  <1>1. /\ OutTypeOK' /\ FailuresCounted'
        /\ Sent' = Sent /\ failed' = failed /\ connected /\ connected'
        /\ buffer' = buffer \o t
        /\ Inserted(Flow', Flow, Len(Flow), t)
    BY AddStep
  <1>2. /\ Len(kind) \in Nat /\ m \in 1..MaxMsg
        /\ kind' = Append(kind, "queued")
        /\ Len(kind') = m /\ kind'[m] = "queued"
        /\ \A x \in 1..Len(kind) : kind'[x] = kind[x]
    BY IssueIs DEF AddToBuffer
  <1>3. /\ t \in Seq(Unit) /\ Len(t) = 2
        /\ t[1] = <<m, "text">> /\ t[2] = <<m, "end">>
    BY <1>2, MessageIs
  <1> HIDE DEF t, m
  <1>4. Flow \in Seq(Unit) /\ Flow' \in Seq(Unit) /\ Len(Flow) \in Nat
    BY <1>1, FlowIs, FlowIsNext, LenProperties
  <1>5. Issued(Flow', kind') /\ InOrder(Flow', kind')
    <2>1. Len(Flow) \in 0..Len(Flow) /\ (Len(Flow) + 1)..Len(Flow) = {}
      BY <1>4
    <2>2. kind \in Seq({"queued", "direct"})
      BY DEF OutTypeOK
    <2>3. /\ Len(t) \in 0..2
          /\ Len(t) >= 1 => t[1] = <<Len(kind) + 1, "text">>
          /\ Len(t) = 2 => t[2] = <<Len(kind) + 1, "end">>
      BY <1>3 DEF m
    <2>4. \A j \in (Len(Flow) + 1)..Len(Flow) :
            "queued" = "direct" /\ kind[Flow[j][1]] = "queued"
      BY <2>1
    <2>5. Issued(Flow, kind) /\ InOrder(Flow, kind)
      OBVIOUS
    <2> HIDE DEF OutInv
    <2>6. /\ Issued(Flow', Append(kind, "queued"))
          /\ InOrder(Flow', Append(kind, "queued"))
      BY <1>1, <1>3, <1>4, <2>1, <2>2, <2>3, <2>4, <2>5, InsertKeepsOrder
    <2> QED BY <1>2, <2>6
  <1>6. buffer \in Seq(Unit) /\ Len(buffer) \in Nat
    BY LenProperties DEF OutTypeOK
  <1>7. QueueHoldsReplies'
    <2>1. /\ Len(buffer \o t) = Len(buffer) + 2
          /\ \A j \in 1..(Len(buffer) + 2) : (buffer \o t)[j] =
               IF j <= Len(buffer) THEN buffer[j] ELSE t[j - Len(buffer)]
      <3>1. /\ Len(buffer \o t) = Len(buffer) + Len(t)
            /\ \A j \in 1..(Len(buffer) + Len(t)) : (buffer \o t)[j] =
                 IF j <= Len(buffer) THEN buffer[j] ELSE t[j - Len(buffer)]
        BY <1>3, <1>6, ConcatProperties
      <3> QED BY <1>3, <3>1
    <2>2. ASSUME NEW j \in 1..Len(buffer') PROVE kind'[buffer'[j][1]] = "queued"
      <3>1. CASE j <= Len(buffer)
        <4>1. j \in 1..Len(buffer) /\ buffer'[j] = buffer[j]
          BY <1>1, <1>6, <2>1, <3>1
        <4>2. buffer[j][1] \in 1..Len(kind)
          <5>1. /\ Len(Sent) + j \in 1..Len(Flow)
                /\ Flow[Len(Sent) + j] = buffer[j]
            BY <4>1, FlowIs
          <5> QED BY <5>1 DEF Issued
        <4> QED BY <1>2, <4>1, <4>2 DEF QueueHoldsReplies
      <3>2. CASE j > Len(buffer)
        <4>1. j - Len(buffer) \in 1..2 /\ buffer'[j] = t[j - Len(buffer)]
          BY <1>1, <1>6, <2>1, <3>2
        <4>2. buffer'[j][1] = m
          <5>1. j - Len(buffer) = 1 \/ j - Len(buffer) = 2
            BY <4>1
          <5> QED BY <1>3, <4>1, <5>1
        <4> QED BY <1>2, <4>2
      <3> QED BY <1>1, <1>6, <2>1, <3>1, <3>2
    <2> QED BY <2>2 DEF QueueHoldsReplies
  <1>8. QueueIsWhole'
    <2>1. Loose(buffer \o t) \subseteq Loose(buffer)
      BY <1>3, <1>6, LooseConcat, SMTT(30)
    <2> QED BY <1>1, <2>1 DEF QueueIsWhole
  <1>9. FewLoose'
    BY <1>1 DEF FewLoose
  <1>10. Accounted'
    <2> SUFFICES ASSUME failed' = 0, NEW x \in 1..m PROVE Whole(Flow', x)
      BY <1>2 DEF Accounted
    <2>1. /\ Len(Flow') = Len(Flow) + 2
          /\ \A j \in 1..Len(Flow) : Flow'[j] = Flow[j]
          /\ \A j \in 1..2 : Flow'[Len(Flow) + j] = t[j]
      BY <1>1, <1>3 DEF Inserted
    <2>2. CASE x = m
      <3>1. /\ Flow'[Len(Flow) + 1] = <<m, "text">>
            /\ Flow'[(Len(Flow) + 1) + 1] = <<m, "end">>
            /\ Len(Flow) + 1 \in 1..(Len(Flow') - 1)
        BY <1>3, <1>4, <2>1
      <3> QED BY <2>2, <3>1 DEF Whole
    <2>3. CASE x # m
      <3>1. x \in 1..Len(kind)
        BY <1>2, <2>3 DEF m
      <3>2. Whole(Flow, x)
        BY <1>1, <3>1 DEF Accounted, LeftInQueue
      <3>3. PICK k \in 1..(Len(Flow) - 1) :
              Flow[k] = <<x, "text">> /\ Flow[k + 1] = <<x, "end">>
        BY <3>2 DEF Whole
      <3>4. /\ k \in 1..(Len(Flow') - 1)
            /\ Flow'[k] = Flow[k] /\ Flow'[k + 1] = Flow[k + 1]
        BY <1>4, <2>1, <3>3
      <3> QED BY <3>3, <3>4 DEF Whole
    <2> QED BY <2>2, <2>3
  <1> QED BY <1>1, <1>5, <1>7, <1>8, <1>9, <1>10

LEMMA SendKeeps ==
  ASSUME OutInv, SendMessage
  PROVE  OutInv'
  <1> DEFINE m == Len(kind) + 1
  <1>0. /\ OutTypeOK /\ FailuresCounted
        /\ Issued(Flow, kind) /\ InOrder(Flow, kind)
        /\ QueueHoldsReplies /\ QueueIsWhole /\ FewLoose /\ Accounted
    BY DEF OutInv
  <1>1. PICK n \in 0..2 :
          LET t == SubSeq(Message(Len(kind) + 1), 1, n) IN
          /\ OutTypeOK' /\ FailuresCounted'
          /\ t \in Seq(Unit) /\ Len(t) = n
          /\ n >= 1 => t[1] = <<Len(kind) + 1, "text">>
          /\ n = 2 => t[2] = <<Len(kind) + 1, "end">>
          /\ Sent' = Sent \o t /\ buffer' = buffer /\ connected /\ connected'
          /\ failed' = IF n < 2 THEN failed + 1 ELSE failed
          /\ Inserted(Flow', Flow, Len(Sent), t)
    BY <1>0, SendStep
  <1> DEFINE t == SubSeq(Message(Len(kind) + 1), 1, n)
  <1>2. /\ OutTypeOK' /\ FailuresCounted'
        /\ t \in Seq(Unit) /\ Len(t) = n
        /\ n >= 1 => t[1] = <<m, "text">>
        /\ n = 2 => t[2] = <<m, "end">>
        /\ Sent' = Sent \o t /\ buffer' = buffer /\ connected /\ connected'
        /\ failed' = IF n < 2 THEN failed + 1 ELSE failed
        /\ Inserted(Flow', Flow, Len(Sent), t)
    BY <1>1
  <1>3. /\ Len(kind) \in Nat /\ kind' = Append(kind, "direct") /\ Len(kind') = m
        /\ \A x \in 1..Len(kind) : kind'[x] = kind[x]
        /\ kind \in Seq({"queued", "direct"}) /\ failed \in Nat
    BY <1>0, IssueIs DEF SendMessage, OutTypeOK
  <1> HIDE DEF t, m
  <1>4. /\ Flow \in Seq(Unit) /\ Sent \in Seq(Unit)
        /\ Len(Sent) \in Nat /\ Len(buffer) \in Nat
        /\ Len(Flow) = Len(Sent) + Len(buffer)
        /\ \A j \in 1..Len(Sent) : Flow[j] = Sent[j]
        /\ \A j \in 1..Len(buffer) : Flow[Len(Sent) + j] = buffer[j]
    BY <1>0, FlowIs
  <1>5. Flow' \in Seq(Unit)
    BY <1>2, FlowIsNext
  <1>6. Issued(Flow', kind') /\ InOrder(Flow', kind')
    <2>1. Len(Sent) \in 0..Len(Flow)
      BY <1>4
    <2>2. /\ Len(t) \in 0..2
          /\ Len(t) >= 1 => t[1] = <<Len(kind) + 1, "text">>
          /\ Len(t) = 2 => t[2] = <<Len(kind) + 1, "end">>
      BY <1>2 DEF m
    <2>3. \A j \in (Len(Sent) + 1)..Len(Flow) :
            "direct" = "direct" /\ kind[Flow[j][1]] = "queued"
      <3> SUFFICES ASSUME NEW j \in (Len(Sent) + 1)..Len(Flow)
                   PROVE  kind[Flow[j][1]] = "queued"
        OBVIOUS
      <3>1. /\ j - Len(Sent) \in 1..Len(buffer)
            /\ Len(Sent) + (j - Len(Sent)) = j
        BY <1>4
      <3>2. Flow[j] = buffer[j - Len(Sent)]
        BY <1>4, <3>1
      <3> QED BY <1>0, <3>1, <3>2 DEF QueueHoldsReplies
    <2>4. /\ Issued(Flow', Append(kind, "direct"))
          /\ InOrder(Flow', Append(kind, "direct"))
      BY <1>0, <1>2, <1>3, <1>4, <1>5, <2>1, <2>2, <2>3, InsertKeepsOrder
    <2> QED BY <1>3, <2>4
  <1>7. QueueHoldsReplies'
    <2> SUFFICES ASSUME NEW k \in 1..Len(buffer) PROVE kind'[buffer[k][1]] = "queued"
      BY <1>2 DEF QueueHoldsReplies
    <2>1. Len(Sent) + k \in 1..Len(Flow) /\ Flow[Len(Sent) + k] = buffer[k]
      BY <1>4
    <2>2. buffer[k][1] \in 1..Len(kind)
      BY <1>0, <2>1 DEF Issued
    <2> QED BY <1>0, <1>3, <2>2 DEF QueueHoldsReplies
  <1>8. QueueIsWhole'
    BY <1>0, <1>2 DEF QueueIsWhole
  <1>9. FewLoose'
    <2>1. \A k \in 1..Len(t) : t[k][2] = "text" /\ k # Len(t) => t[k + 1][2] # "text"
      <3> SUFFICES ASSUME NEW k \in 1..n, k # n PROVE t[k + 1][2] # "text"
        BY <1>2
      <3>1. k = 1 /\ n = 2
        OBVIOUS
      <3> QED BY <1>2, <3>1
    <2>2. /\ Cardinality(Loose(Sent \o t)) <= Cardinality(Loose(Sent)) + 1
          /\ Len(t) > 0 /\ t[Len(t)][2] # "text" =>
               Cardinality(Loose(Sent \o t)) <= Cardinality(Loose(Sent))
      BY <1>2, <1>4, <2>1, LooseConcat
    <2>3. /\ Cardinality(Loose(Sent)) \in Nat /\ Cardinality(Loose(Sent)) <= failed
          /\ Sent' \in Seq(Unit)
      BY <1>0, <1>2, <1>4, LooseIsFinite, FlowIsNext DEF FewLoose
    <2>4. Cardinality(Loose(Sent')) \in Nat
      BY <2>3, LooseIsFinite
    <2>5. CASE n < 2
      BY <1>2, <1>3, <2>2, <2>3, <2>4, <2>5 DEF FewLoose
    <2>6. CASE n = 2
      <3>1. Len(t) > 0 /\ t[Len(t)][2] # "text"
        BY <1>2, <2>6
      <3> QED BY <1>2, <1>3, <2>2, <2>3, <2>4, <2>6, <3>1 DEF FewLoose
    <2> QED BY <2>5, <2>6
  <1>10. Accounted'
    <2> SUFFICES ASSUME failed' = 0, NEW x \in 1..m PROVE Whole(Flow', x)
      BY <1>3 DEF Accounted
    <2>1. n = 2 /\ failed = 0
      BY <1>2, <1>3
    <2>2. /\ Len(Flow') = Len(Flow) + 2
          /\ \A j \in 1..Len(Sent) : Flow'[j] = Flow[j]
          /\ \A j \in 1..2 : Flow'[Len(Sent) + j] = t[j]
          /\ \A j \in (Len(Sent) + 1)..Len(Flow) : Flow'[j + 2] = Flow[j]
      BY <1>2, <2>1 DEF Inserted
    <2>3. CASE x = m
      <3>1. /\ Flow'[Len(Sent) + 1] = <<m, "text">>
            /\ Flow'[(Len(Sent) + 1) + 1] = <<m, "end">>
            /\ Len(Sent) + 1 \in 1..(Len(Flow') - 1)
        BY <1>2, <1>4, <2>1, <2>2
      <3> QED BY <2>3, <3>1 DEF Whole
    <2>4. CASE x # m
      <3>1. x \in 1..Len(kind)
        BY <1>3, <2>4 DEF m
      <3>2. Whole(Flow, x)
        BY <1>0, <1>2, <2>1, <3>1 DEF Accounted, LeftInQueue
      <3>3. PICK k \in 1..(Len(Flow) - 1) :
              Flow[k] = <<x, "text">> /\ Flow[k + 1] = <<x, "end">>
        BY <3>2 DEF Whole
      \* What was sent does not end in a text, so x is not cut in two.
      <3>4. k # Len(Sent)
        <4>1. Loose(Sent) = {}
          <5>1. Cardinality(Loose(Sent)) \in Nat
            BY <1>4, LooseIsFinite
          <5>2. Cardinality(Loose(Sent)) = 0
            BY <1>0, <2>1, <5>1 DEF FewLoose
          <5> QED BY <1>4, <5>2, LooseIsFinite
        <4>2. ASSUME k = Len(Sent) PROVE k \in Loose(Sent)
          BY <1>4, <3>3, <4>2 DEF Loose
        <4> QED BY <4>1, <4>2
      <3>5. CASE k < Len(Sent)
        <4>1. /\ k \in 1..(Len(Flow') - 1)
              /\ Flow'[k] = Flow[k] /\ Flow'[k + 1] = Flow[k + 1]
          BY <1>4, <2>2, <3>3, <3>5, SMTT(30)
        <4> QED BY <3>3, <4>1 DEF Whole
      <3>6. CASE k > Len(Sent)
        <4>1. /\ k + 2 \in 1..(Len(Flow') - 1)
              /\ Flow'[k + 2] = Flow[k]
              /\ Flow'[(k + 1) + 2] = Flow[k + 1]
              /\ (k + 1) + 2 = (k + 2) + 1
          <5>1. /\ k \in (Len(Sent) + 1)..Len(Flow)
                /\ k + 1 \in (Len(Sent) + 1)..Len(Flow)
            BY <1>4, <3>3, <3>6
          <5>2. k + 2 \in 1..(Len(Flow') - 1) /\ (k + 1) + 2 = (k + 2) + 1
            BY <1>4, <2>2, <3>3, <3>6
          <5> QED BY <2>2, <5>1, <5>2
        <4> QED BY <3>3, <4>1 DEF Whole
      <3> QED BY <1>4, <3>3, <3>4, <3>5, <3>6
    <2> QED BY <2>3, <2>4
  <1> QED BY <1>2, <1>6, <1>7, <1>8, <1>9, <1>10 DEF OutInv

LEMMA ReceiveKeeps ==
  ASSUME OutInv, PeerReceives
  PROVE  OutInv'
  <1>1. /\ OutTypeOK' /\ FailuresCounted'
        /\ UNCHANGED <<kind, buffer, connected, failed>>
        /\ Sent' = Sent /\ Flow' = Flow
    BY ReceiveStep DEF OutInv
  <1>2. Issued(Flow', kind') /\ InOrder(Flow', kind')
    BY <1>1 DEF OutInv
  <1>3. QueueHoldsReplies' /\ QueueIsWhole' /\ FewLoose'
    BY <1>1 DEF OutInv, QueueHoldsReplies, QueueIsWhole, FewLoose
  <1>4. Accounted'
    BY <1>1 DEF OutInv, Accounted, LeftInQueue
  <1> QED BY <1>1, <1>2, <1>3, <1>4 DEF OutInv

\* What is behind the sent part of the flow is the queue.
LEMMA FlowOf ==
  ASSUME OutTypeOK', buffer' = <<>>
  PROVE  Flow' = Sent'
  <1>1. Sent' \in Seq(Unit) /\ Flow' = Sent' \o buffer'
    BY FlowIsNext
  <1>2. Sent' \o <<>> = Sent'
    BY <1>1, ConcatEmptySeq
  <1> QED BY <1>1, <1>2

LEMMA OutputKeeps ==
  ASSUME OutInv, HandleClientOutput
  PROVE  OutInv'
  <1>0. /\ OutTypeOK /\ FailuresCounted
        /\ Issued(Flow, kind) /\ InOrder(Flow, kind)
        /\ QueueHoldsReplies /\ QueueIsWhole /\ FewLoose /\ Accounted
    BY DEF OutInv
  <1>1. /\ OutTypeOK' /\ FailuresCounted' /\ connected /\ connected' /\ kind' = kind
        /\ \/ Sent' = Sent /\ buffer' = buffer /\ failed' = failed
           \/ \E n \in 1..Len(buffer) :
                LET t == SubSeq(buffer, 1, n) IN
                /\ t \in Seq(Unit) /\ Len(t) = n
                /\ \A k \in 1..n : t[k] = buffer[k]
                /\ Sent' = Sent \o t /\ buffer' = <<>>
                /\ failed' = IF n < Len(buffer) THEN failed + 1 ELSE failed
    BY <1>0, OutputStep
  <1>2. CASE Sent' = Sent /\ buffer' = buffer /\ failed' = failed
    <2>1. Flow' = Flow
      BY <1>2 DEF Flow, Sent
    <2>2. Issued(Flow', kind') /\ InOrder(Flow', kind')
      BY <1>0, <1>1, <2>1
    <2>3. QueueHoldsReplies' /\ QueueIsWhole' /\ FewLoose'
      BY <1>0, <1>1, <1>2 DEF QueueHoldsReplies, QueueIsWhole, FewLoose
    <2>4. Accounted'
      BY <1>0, <1>1, <1>2, <2>1 DEF Accounted, LeftInQueue
    <2> QED BY <1>1, <2>2, <2>3, <2>4 DEF OutInv
  <1>3. ASSUME NEW n \in 1..Len(buffer), NEW t \in Seq(Unit), Len(t) = n,
               \A k \in 1..n : t[k] = buffer[k],
               Sent' = Sent \o t, buffer' = <<>>,
               failed' = IF n < Len(buffer) THEN failed + 1 ELSE failed
        PROVE  OutInv'
    <2>1. /\ Flow \in Seq(Unit) /\ Sent \in Seq(Unit)
          /\ Len(Sent) \in Nat /\ Len(buffer) \in Nat
          /\ Len(Flow) = Len(Sent) + Len(buffer)
          /\ \A j \in 1..Len(Sent) : Flow[j] = Sent[j]
          /\ \A j \in 1..Len(buffer) : Flow[Len(Sent) + j] = buffer[j]
          /\ Flow = Sent \o buffer /\ buffer \in Seq(Unit) /\ failed \in Nat
      BY <1>0, FlowIs DEF OutTypeOK
    <2>2. Flow' = Sent \o t
      BY <1>1, <1>3, FlowOf
    <2>3. /\ Sent \o t \in Seq(Unit)
          /\ Len(Sent \o t) = Len(Sent) + n
          /\ \A j \in 1..(Len(Sent) + n) : (Sent \o t)[j] =
               IF j <= Len(Sent) THEN Sent[j] ELSE t[j - Len(Sent)]
      <3>1. /\ Sent \o t \in Seq(Unit)
            /\ Len(Sent \o t) = Len(Sent) + Len(t)
            /\ \A j \in 1..(Len(Sent) + Len(t)) : (Sent \o t)[j] =
                 IF j <= Len(Sent) THEN Sent[j] ELSE t[j - Len(Sent)]
        BY <2>1, ConcatProperties
      <3> QED BY <1>3, <3>1
    <2>4. Issued(Flow', kind') /\ InOrder(Flow', kind')
      <3>1. Len(Sent \o t) <= Len(Flow)
        BY <2>1, <2>3
      <3>2. ASSUME NEW j \in 1..Len(Sent \o t) PROVE (Sent \o t)[j] = Flow[j]
        <4>1. CASE j <= Len(Sent)
          BY <2>1, <2>3, <4>1
        <4>2. CASE j > Len(Sent)
          <5>1. /\ j - Len(Sent) \in 1..n /\ j - Len(Sent) \in 1..Len(buffer)
                /\ Len(Sent) + (j - Len(Sent)) = j
            BY <2>1, <2>3, <4>2
          <5>2. (Sent \o t)[j] = t[j - Len(Sent)]
            BY <2>1, <2>3, <4>2
          <5> QED BY <1>3, <2>1, <5>1, <5>2
        <4> QED BY <2>1, <2>3, <4>1, <4>2
      <3>3. Issued(Sent \o t, kind) /\ InOrder(Sent \o t, kind)
        BY <1>0, <2>1, <2>3, <3>1, <3>2, PrefixKeepsOrder
      <3> QED BY <1>1, <2>2, <3>3
    <2>5. QueueHoldsReplies' /\ QueueIsWhole'
      <3>1. Len(<<>>) = 0 /\ 1..0 = {}
        OBVIOUS
      <3>2. 1..Len(buffer') = {}
        BY <1>3, <3>1
      <3> QED BY <3>2 DEF QueueHoldsReplies, QueueIsWhole, Loose
    <2>6. FewLoose'
      <3>1. ASSUME NEW k \in 1..Len(buffer), buffer[k][2] = "text"
            PROVE  k # Len(buffer) /\ buffer[k + 1][2] # "text"
        BY <1>0, <3>1 DEF QueueIsWhole, Loose
      <3>2. ASSUME NEW k \in 1..n, t[k][2] = "text", k # n
            PROVE  t[k + 1][2] # "text"
        <4>1. k \in 1..Len(buffer) /\ k + 1 \in 1..n
          BY <2>1, <3>2
        <4> QED BY <1>3, <3>1, <3>2, <4>1
      <3>3. /\ Cardinality(Loose(Sent \o t)) <= Cardinality(Loose(Sent)) + 1
            /\ Len(t) > 0 /\ t[Len(t)][2] # "text" =>
                 Cardinality(Loose(Sent \o t)) <= Cardinality(Loose(Sent))
        BY <1>3, <2>1, <3>2, LooseConcat
      <3>4. /\ Cardinality(Loose(Sent)) \in Nat /\ Cardinality(Loose(Sent)) <= failed
            /\ Cardinality(Loose(Sent \o t)) \in Nat
        BY <1>0, <2>1, <2>3, LooseIsFinite DEF FewLoose
      <3>5. CASE n < Len(buffer)
        BY <1>3, <2>1, <3>3, <3>4, <3>5 DEF FewLoose
      <3>6. CASE n = Len(buffer)
        <4>1. Len(t) > 0 /\ t[Len(t)][2] # "text"
          BY <1>3, <2>1, <3>1, <3>6
        <4> QED BY <1>3, <2>1, <3>3, <3>4, <3>6, <4>1 DEF FewLoose
      <3> QED BY <2>1, <3>5, <3>6
    <2>7. Accounted'
      <3> SUFFICES ASSUME failed' = 0
                   PROVE  \A m \in 1..Len(kind) : Whole(Flow', m)
        BY <1>1 DEF Accounted
      <3>1. n = Len(buffer) /\ failed = 0
        BY <1>3, <2>1
      <3>2. t = buffer
        BY <1>3, <2>1, <3>1, SeqEqual
      <3>3. Flow' = Flow
        BY <2>1, <2>2, <3>2
      <3> QED BY <1>0, <1>1, <3>1, <3>3 DEF Accounted, LeftInQueue
    <2> QED BY <1>1, <2>4, <2>5, <2>6, <2>7 DEF OutInv
  <1> QED BY <1>1, <1>2, <1>3

\* What goes with the client is the end of its queue.
LEMMA RemoveKeeps ==
  ASSUME OutInv, RemoveClient
  PROVE  OutInv'
  <1>0. /\ OutTypeOK /\ FailuresCounted
        /\ Issued(Flow, kind) /\ InOrder(Flow, kind)
        /\ QueueHoldsReplies /\ QueueIsWhole /\ FewLoose /\ Accounted
    BY DEF OutInv
  <1>1. /\ OutTypeOK' /\ FailuresCounted' /\ connected /\ ~connected'
        /\ kind' = kind /\ failed' = failed
        /\ Sent' = Sent /\ buffer' = <<>> /\ Flow' = Sent
    BY <1>0, RemoveStep
  <1>2. /\ Flow \in Seq(Unit) /\ Sent \in Seq(Unit)
        /\ Len(Sent) \in Nat /\ Len(buffer) \in Nat
        /\ Len(Flow) = Len(Sent) + Len(buffer)
        /\ \A j \in 1..Len(Sent) : Flow[j] = Sent[j]
        /\ \A j \in 1..Len(buffer) : Flow[Len(Sent) + j] = buffer[j]
        /\ Len(kind) \in Nat
    BY <1>0, FlowIs, LenProperties DEF OutTypeOK
  <1>3. Issued(Flow', kind') /\ InOrder(Flow', kind')
    <2>1. Len(Sent) <= Len(Flow) /\ \A j \in 1..Len(Sent) : Sent[j] = Flow[j]
      BY <1>2
    <2>2. Issued(Sent, kind) /\ InOrder(Sent, kind)
      BY <1>0, <1>2, <2>1, PrefixKeepsOrder
    <2> QED BY <1>1, <2>2
  <1>4. QueueHoldsReplies' /\ QueueIsWhole'
    <2>1. Len(<<>>) = 0 /\ 1..0 = {}
      OBVIOUS
    <2>2. 1..Len(buffer') = {}
      BY <1>1, <2>1
    <2> QED BY <2>2 DEF QueueHoldsReplies, QueueIsWhole, Loose
  <1>5. FewLoose'
    BY <1>0, <1>1 DEF FewLoose
  <1>6. Accounted'
    <2> SUFFICES ASSUME failed = 0, NEW m \in 1..Len(kind)
                 PROVE  Whole(Sent, m) \/
                          /\ \A n \in m..Len(kind) : kind[n] = "queued" =>
                               \A k \in 1..Len(Sent) : Sent[k] # <<n, "text">>
                          /\ kind[m] = "queued"
      BY <1>1 DEF Accounted, LeftInQueue
    <2>1. PICK p \in 1..(Len(Flow) - 1) :
            Flow[p] = <<m, "text">> /\ Flow[p + 1] = <<m, "end">>
      BY <1>0, <1>1 DEF Accounted, LeftInQueue, Whole
    <2>2. CASE p < Len(Sent)
      <3>1. /\ p \in 1..(Len(Sent) - 1)
            /\ Sent[p] = Flow[p] /\ Sent[p + 1] = Flow[p + 1]
        BY <1>2, <2>1, <2>2
      <3> QED BY <2>1, <3>1 DEF Whole
    <2>3. p # Len(Sent)
      <3>1. Loose(Sent) = {}
        <4>1. Cardinality(Loose(Sent)) \in Nat
          BY <1>2, LooseIsFinite
        <4>2. Cardinality(Loose(Sent)) = 0
          BY <1>0, <4>1 DEF FewLoose
        <4> QED BY <1>2, <4>2, LooseIsFinite
      <3>2. ASSUME p = Len(Sent) PROVE p \in Loose(Sent)
        BY <1>2, <2>1, <3>2 DEF Loose
      <3> QED BY <3>1, <3>2
    <2>4. CASE p > Len(Sent)
      <3>1. p - Len(Sent) \in 1..Len(buffer) /\ Len(Sent) + (p - Len(Sent)) = p
        BY <1>2, <2>1, <2>4
      <3>2. buffer[p - Len(Sent)] = <<m, "text">>
        BY <1>2, <2>1, <3>1
      <3>3. kind[m] = "queued"
        <4>1. kind[buffer[p - Len(Sent)][1]] = "queued"
          BY <1>0, <3>1 DEF QueueHoldsReplies
        <4> QED BY <3>2, <4>1
      \* A later reply that was sent would have overtaken m.
      <3>4. ASSUME NEW n \in m..Len(kind), kind[n] = "queued",
                   NEW k \in 1..Len(Sent), Sent[k] = <<n, "text">>
            PROVE  FALSE
        <4>1. /\ k \in 1..Len(Flow) /\ p \in 1..Len(Flow) /\ k < p
              /\ Flow[k] = <<n, "text">>
          BY <1>2, <2>1, <2>4, <3>4
        <4>2. /\ Flow[k] # Flow[p]
              /\ Flow[k][1] > Flow[p][1] => kind[Flow[k][1]] = "direct"
          BY <1>0, <4>1 DEF InOrder
        <4>3. Flow[k][1] = n /\ Flow[p][1] = m
          BY <2>1, <4>1
        <4>4. CASE n = m
          BY <2>1, <4>1, <4>2, <4>4
        <4>5. CASE n > m
          BY <3>4, <4>2, <4>3, <4>5
        <4>6. n = m \/ n > m
          BY <1>2
        <4> QED BY <4>4, <4>5, <4>6
      <3> QED BY <3>3, <3>4
    <2> QED BY <1>2, <2>1, <2>2, <2>3, <2>4
  <1> QED BY <1>1, <1>3, <1>4, <1>5, <1>6 DEF OutInv

-----------------------------------------------------------------------------
(* The invariant *)

LEMMA OutInit == Init => OutInv
  <1> SUFFICES ASSUME Init PROVE OutInv
    OBVIOUS
  <1>1. /\ kind = <<>> /\ buffer = <<>> /\ sock = <<>> /\ seen = <<>>
        /\ connected = TRUE /\ failed = 0
    BY DEF Init
  <1>2. Room \in Nat /\ MaxMsg \in Nat
    BY OutputAssumption
  <1>3. OutTypeOK
    <2>1. /\ <<>> \in Seq(Unit) /\ <<>> \in Seq({"queued", "direct"})
          /\ Len(<<>>) = 0
      OBVIOUS
    <2>2. /\ kind \in Seq({"queued", "direct"}) /\ Len(kind) <= MaxMsg
          /\ buffer \in Seq(Unit) /\ sock \in Seq(Unit) /\ Len(sock) <= Room
          /\ seen \in Seq(Unit) /\ connected \in BOOLEAN /\ failed \in 0..MaxMsg
      BY <1>1, <1>2, <2>1
    <2> QED BY <2>2 DEF OutTypeOK
  <1>4. Len(kind) = 0 /\ Len(buffer) = 0 /\ Len(Sent) = 0 /\ Len(Flow) = 0
    <2>1. Len(kind) = 0 /\ Len(buffer) = 0 /\ Len(seen) = 0 /\ Len(sock) = 0
      BY <1>1
    <2> QED BY <1>3, <2>1, FlowIs
  <1>5. 1..0 = {}
    OBVIOUS
  <1>6. FailuresCounted
    BY <1>1, <1>4 DEF FailuresCounted
  <1>7. Issued(Flow, kind) /\ InOrder(Flow, kind)
    BY <1>4, <1>5 DEF Issued, InOrder
  <1>8. QueueHoldsReplies /\ QueueIsWhole
    BY <1>4, <1>5 DEF QueueHoldsReplies, QueueIsWhole, Loose
  <1>9. FewLoose
    <2>1. Loose(Sent) = {}
      BY <1>4, <1>5 DEF Loose
    <2> QED BY <1>1, <2>1, FS_EmptySet DEF FewLoose
  <1>10. Accounted
    BY <1>4, <1>5 DEF Accounted
  <1> QED BY <1>3, <1>6, <1>7, <1>8, <1>9, <1>10 DEF OutInv

LEMMA OutNext == OutInv /\ [Next]_vars => OutInv'
  <1> SUFFICES ASSUME OutInv, [Next]_vars PROVE OutInv'
    OBVIOUS
  <1>1. CASE UNCHANGED vars
    <2>1. UNCHANGED <<kind, buffer, sock, seen, connected, failed>>
      BY <1>1 DEF vars
    <2>2. Sent' = Sent /\ Flow' = Flow
      BY <2>1 DEF Sent, Flow
    <2>3. OutTypeOK' /\ FailuresCounted'
      BY <2>1 DEF OutInv, OutTypeOK, FailuresCounted
    <2>4. Issued(Flow', kind') /\ InOrder(Flow', kind')
      BY <2>1, <2>2 DEF OutInv
    <2>5. QueueHoldsReplies' /\ QueueIsWhole' /\ FewLoose'
      BY <2>1, <2>2 DEF OutInv, QueueHoldsReplies, QueueIsWhole, FewLoose
    <2>6. Accounted'
      BY <2>1, <2>2 DEF OutInv, Accounted, LeftInQueue
    <2> QED BY <2>3, <2>4, <2>5, <2>6 DEF OutInv
  <1>2. CASE Next
    BY <1>2, AddKeeps, SendKeeps, OutputKeeps, RemoveKeeps, ReceiveKeeps DEF Next
  <1> QED BY <1>1, <1>2

LEMMA OutInvariance == Spec => []OutInv
  BY OutInit, OutNext, PTL DEF Spec

-----------------------------------------------------------------------------
(* Theorems *)

\* The types of the output path: the socket is never filled beyond its room,
\* and no more sends fail than messages are issued.
THEOREM OutputTypes == Spec => []OutTypeOK
  <1>1. OutInv => OutTypeOK
    BY DEF OutInv
  <1> QED BY <1>1, OutInvariance, PTL

\* What addToBuffer, broadcastMessage and _handleClientOutput put into the
\* socket is never doubled, and out of order only where a broadcast overtakes
\* queued replies.
THEOREM OrderOfOutput == Spec => []OnlyBroadcastsOvertake
  <1>1. OutInv => OnlyBroadcastsOvertake
    BY DEF OutInv, InOrder, OnlyBroadcastsOvertake
  <1> QED BY <1>1, OutInvariance, PTL

\* While no send of broadcastMessage or _handleClientOutput was cut short, a
\* connected client gets every message whole, and one that goes loses the last
\* replies of its queue and nothing else.
THEOREM NothingLostWithoutCause == Spec => []LossHasCause
  <1>1. OutInv => LossHasCause
    <2> SUFFICES ASSUME OutInv, failed = 0, NEW m \in 1..Len(kind)
                 PROVE
          \/ \E k \in 1..(Len(Flow) - 1) : SubSeq(Flow, k, k + 1) = Message(m)
          \/ /\ ~connected
             /\ \A n \in m..Len(kind) : kind[n] = "queued" => Place(<<n, "text">>) = {}
             /\ kind[m] = "queued"
      BY DEF LossHasCause
    <2>1. OutTypeOK
      BY DEF OutInv
    <2>2. Flow \in Seq(Unit) /\ Len(Flow) \in Nat
      BY <2>1, FlowIs, LenProperties
    <2>3. Whole(Flow, m) \/ LeftInQueue(Flow, m)
      BY DEF OutInv, Accounted
    <2>4. CASE Whole(Flow, m)
      <3>1. PICK k \in 1..(Len(Flow) - 1) :
              Flow[k] = <<m, "text">> /\ Flow[k + 1] = <<m, "end">>
        BY <2>4 DEF Whole
      <3>2. SubSeq(Flow, k, k + 1) = Message(m)
        <4> DEFINE s == SubSeq(Flow, k, k + 1)
        <4>1. k \in 1..Len(Flow) /\ k + 1 \in k..Len(Flow) /\ k \in Nat
          BY <2>2, <3>1
        <4>2. \A j \in k..(k + 1) : Flow[j] \in Unit
          BY <2>2, <4>1, ElementOfSeq
        <4>3. /\ s \in Seq(Unit) /\ Len(s) = 2
              /\ s[1] = Flow[k] /\ s[2] = Flow[k + 1]
          BY <2>2, <4>1, <4>2, SubSeqProperties
        <4>4. m \in 1..MaxMsg
          BY <2>1, OutputAssumption, LenProperties DEF OutTypeOK
        <4>5. /\ Message(m) \in Seq(Unit) /\ Len(Message(m)) = 2
              /\ Message(m)[1] = <<m, "text">> /\ Message(m)[2] = <<m, "end">>
          BY <4>4, MessageIs
        <4> HIDE DEF s
        <4>6. \A j \in 1..Len(s) : s[j] = Message(m)[j]
          <5>1. \A j \in 1..2 : j = 1 \/ j = 2
            OBVIOUS
          <5> QED BY <3>1, <4>3, <4>5, <5>1
        <4>7. s = Message(m)
          BY <4>3, <4>5, <4>6, SeqEqual
        <4> QED BY <4>7 DEF s
      <3> QED BY <3>2
    <2>5. CASE LeftInQueue(Flow, m)
      <3>1. ASSUME NEW n \in m..Len(kind), kind[n] = "queued"
            PROVE  Place(<<n, "text">>) = {}
        BY <2>5, <3>1 DEF LeftInQueue, Place
      <3> QED BY <2>5, <3>1 DEF LeftInQueue
    <2> QED BY <2>3, <2>4, <2>5
  <1> QED BY <1>1, OutInvariance, PTL

\* A send of broadcastMessage or _handleClientOutput that is cut short spoils
\* one line at most.
THEOREM DamageIsOneLine == Spec => []DamageIsContained
  <1>1. OutInv => DamageIsContained
    <2> SUFFICES ASSUME OutInv PROVE DamageIsContained
      OBVIOUS
    <2> DEFINE T == {k \in 1..(Len(Flow) - 1) :
                       Flow[k][2] = "text" /\ Flow[k + 1][2] = "text"}
    <2>1. OutTypeOK /\ QueueIsWhole /\ FewLoose
      BY DEF OutInv
    <2>2. /\ Sent \in Seq(Unit) /\ Len(Sent) \in Nat /\ Len(buffer) \in Nat
          /\ Len(Flow) = Len(Sent) + Len(buffer)
          /\ \A j \in 1..Len(Sent) : Flow[j] = Sent[j]
          /\ \A j \in 1..Len(buffer) : Flow[Len(Sent) + j] = buffer[j]
      BY <2>1, FlowIs
    <2>3. ASSUME NEW k \in T PROVE k \in Loose(Sent)
      <3>1. /\ k \in 1..(Len(Flow) - 1)
            /\ Flow[k][2] = "text" /\ Flow[k + 1][2] = "text"
        OBVIOUS
      <3>2. CASE k <= Len(Sent)
        <4>1. CASE k = Len(Sent)
          BY <2>2, <3>1, <4>1 DEF Loose
        <4>2. CASE k < Len(Sent)
          <5>1. /\ k \in 1..Len(Sent) /\ k + 1 \in 1..Len(Sent)
            BY <2>2, <3>1, <4>2
          <5>2. Sent[k][2] = "text" /\ Sent[k + 1][2] = "text"
            BY <2>2, <3>1, <5>1
          <5> QED BY <5>1, <5>2 DEF Loose
        <4> QED BY <2>2, <3>1, <3>2, <4>1, <4>2
      <3>3. CASE k > Len(Sent)
        <4>1. /\ k - Len(Sent) \in 1..Len(buffer)
              /\ (k - Len(Sent)) + 1 \in 1..Len(buffer)
              /\ Len(Sent) + (k - Len(Sent)) = k
              /\ Len(Sent) + ((k - Len(Sent)) + 1) = k + 1
          BY <2>2, <3>1, <3>3
        <4>2. /\ buffer[k - Len(Sent)][2] = "text"
              /\ buffer[(k - Len(Sent)) + 1][2] = "text"
          BY <2>2, <3>1, <4>1
        <4>3. k - Len(Sent) \in Loose(buffer)
          BY <4>1, <4>2 DEF Loose
        <4> QED BY <2>1, <4>3 DEF QueueIsWhole
      <3> QED BY <2>2, <3>1, <3>2, <3>3
    <2>4. IsFiniteSet(Loose(Sent)) /\ Cardinality(Loose(Sent)) \in Nat
      BY <2>2, LooseIsFinite
    <2>5. T \subseteq Loose(Sent)
      BY <2>3
    <2>6. failed \in Nat /\ Cardinality(Loose(Sent)) <= failed
      BY <2>1 DEF FewLoose, OutTypeOK
    <2> HIDE DEF T
    <2>7. Cardinality(T) \in Nat /\ Cardinality(T) <= Cardinality(Loose(Sent))
      BY <2>4, <2>5, FS_Subset, FS_CardinalityType
    <2>8. Cardinality(T) <= failed
      BY <2>4, <2>6, <2>7
    <2> QED BY <2>8 DEF DamageIsContained, T
  <1> QED BY <1>1, OutInvariance, PTL
=============================================================================
