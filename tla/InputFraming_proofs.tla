------------------------- MODULE InputFraming_proofs -------------------------
(* Theorems about InputFraming, for every size of the buffer, every set of   *)
(* symbols and every length of input: what is handled is what was written,   *)
(* in whole lines as long as the reads end at line ends.                     *)
EXTENDS InputFraming, SequenceTheorems, WellFoundedInduction, TLAPS

\* Between reads nothing of a line is kept.
NothingKept == phase # "lines" => inBuffer = <<>> /\ rest = <<>>

\* The inductive invariant.
FrInv == FrTypeOK /\ NothingKept

Unread == SubSeq(stream, got + 1, Len(stream))

Todo == rest \o Unread

Intact == ~NulIn(SubSeq(stream, 1, got))

-----------------------------------------------------------------------------
(* Sequences *)

LEMMA LeastIs ==
  ASSUME NEW T \in SUBSET Nat, T # {}
  PROVE  Min(T) \in T /\ \A y \in T : Min(T) <= y
  <1>1. PICK x \in T : \A y \in T : ~(<<y, x>> \in OpToRel(<, Nat))
    BY NatLessThanWellFounded, WFMin
  <1>2. \A y \in T : x <= y
    <2> SUFFICES ASSUME NEW y \in T, ~(x <= y) PROVE FALSE
      OBVIOUS
    <2>1. y \in Nat /\ x \in Nat /\ y < x
      OBVIOUS
    <2>2. <<y, x>> \in OpToRel(<, Nat)
      BY <2>1 DEF OpToRel
    <2> QED BY <1>1, <2>2
  <1>3. \E z \in T : \A y \in T : z <= y
    BY <1>2
  <1> QED BY <1>3 DEF Min

\* Any part of a sequence.
LEMMA Part ==
  ASSUME NEW S, NEW s \in Seq(S), NEW m \in 1..(Len(s) + 1), NEW n \in 0..Len(s),
         m <= n + 1
  PROVE  /\ SubSeq(s, m, n) \in Seq(S) /\ Len(SubSeq(s, m, n)) = n - m + 1
         /\ \A j \in 1..(n - m + 1) : SubSeq(s, m, n)[j] = s[m + j - 1]
  <1>1. Len(s) \in Nat
    BY LenProperties
  <1>2. \A j \in m..n : s[j] \in S
    BY <1>1, ElementOfSeq
  <1>3. m \in Int /\ n \in Int
    BY <1>1
  <1>4. /\ SubSeq(s, m, n) \in Seq(S)
        /\ Len(SubSeq(s, m, n)) = IF m <= n THEN n - m + 1 ELSE 0
        /\ \A j \in 1..(n - m + 1) : SubSeq(s, m, n)[j] = s[m + j - 1]
    BY <1>2, <1>3, SubSeqProperties
  <1> QED BY <1>1, <1>4

LEMMA Whole ==
  ASSUME NEW S, NEW s \in Seq(S), NEW t \in Seq(S)
  PROVE  /\ s \o t \in Seq(S) /\ Len(s \o t) = Len(s) + Len(t)
         /\ Len(s) \in Nat /\ Len(t) \in Nat
         /\ \A j \in 1..Len(s) : (s \o t)[j] = s[j]
         /\ \A j \in 1..Len(t) : (s \o t)[Len(s) + j] = t[j]
  <1>1. Len(s) \in Nat /\ Len(t) \in Nat
    BY LenProperties
  <1>2. /\ s \o t \in Seq(S) /\ Len(s \o t) = Len(s) + Len(t)
        /\ \A j \in 1..(Len(s) + Len(t)) :
             (s \o t)[j] = IF j <= Len(s) THEN s[j] ELSE t[j - Len(s)]
    BY ConcatProperties
  <1> QED BY <1>1, <1>2

\* A cut of s \o t inside s.
LEMMA CutInFirst ==
  ASSUME NEW S, NEW s \in Seq(S), NEW t \in Seq(S), NEW n \in 0..Len(s)
  PROVE  /\ SubSeq(s \o t, 1, n) = SubSeq(s, 1, n)
         /\ SubSeq(s \o t, n + 1, Len(s \o t)) = SubSeq(s, n + 1, Len(s)) \o t
  <1> DEFINE u == s \o t
             a == SubSeq(s, n + 1, Len(s))
             b == SubSeq(u, n + 1, Len(u))
  <1>1. /\ u \in Seq(S) /\ Len(u) = Len(s) + Len(t)
        /\ Len(s) \in Nat /\ Len(t) \in Nat
        /\ \A j \in 1..Len(s) : u[j] = s[j]
        /\ \A j \in 1..Len(t) : u[Len(s) + j] = t[j]
    BY Whole
  <1> HIDE DEF u
  <1>2. /\ SubSeq(u, 1, n) \in Seq(S) /\ Len(SubSeq(u, 1, n)) = n
        /\ \A j \in 1..n : SubSeq(u, 1, n)[j] = u[j]
    <2>1. 1 \in 1..(Len(u) + 1) /\ n \in 0..Len(u) /\ 1 <= n + 1
      BY <1>1
    <2>2. /\ SubSeq(u, 1, n) \in Seq(S) /\ Len(SubSeq(u, 1, n)) = n - 1 + 1
          /\ \A j \in 1..(n - 1 + 1) : SubSeq(u, 1, n)[j] = u[1 + j - 1]
      BY <1>1, <2>1, Part
    <2> QED BY <1>1, <2>2
  <1>3. /\ SubSeq(s, 1, n) \in Seq(S) /\ Len(SubSeq(s, 1, n)) = n
        /\ \A j \in 1..n : SubSeq(s, 1, n)[j] = s[j]
    <2>1. 1 \in 1..(Len(s) + 1) /\ n \in 0..Len(s) /\ 1 <= n + 1
      BY <1>1
    <2>2. /\ SubSeq(s, 1, n) \in Seq(S) /\ Len(SubSeq(s, 1, n)) = n - 1 + 1
          /\ \A j \in 1..(n - 1 + 1) : SubSeq(s, 1, n)[j] = s[1 + j - 1]
      BY <2>1, Part
    <2> QED BY <1>1, <2>2
  <1>4. SubSeq(u, 1, n) = SubSeq(s, 1, n)
    <2>1. \A j \in 1..n : SubSeq(u, 1, n)[j] = SubSeq(s, 1, n)[j]
      BY <1>1, <1>2, <1>3
    <2> QED BY <1>2, <1>3, <2>1, SeqEqual
  <1>5. /\ a \in Seq(S) /\ Len(a) = Len(s) - n
        /\ \A j \in 1..(Len(s) - n) : a[j] = s[n + j]
    <2>1. n + 1 \in 1..(Len(s) + 1) /\ Len(s) \in 0..Len(s) /\ n + 1 <= Len(s) + 1
      BY <1>1
    <2>2. /\ a \in Seq(S) /\ Len(a) = Len(s) - (n + 1) + 1
          /\ \A j \in 1..(Len(s) - (n + 1) + 1) : a[j] = s[n + 1 + j - 1]
      BY <2>1, Part
    <2> HIDE DEF a
    <2> QED BY <1>1, <2>2
  <1>6. /\ b \in Seq(S) /\ Len(b) = Len(u) - n
        /\ \A j \in 1..(Len(u) - n) : b[j] = u[n + j]
    <2>1. n + 1 \in 1..(Len(u) + 1) /\ Len(u) \in 0..Len(u) /\ n + 1 <= Len(u) + 1
      BY <1>1
    <2>2. /\ b \in Seq(S) /\ Len(b) = Len(u) - (n + 1) + 1
          /\ \A j \in 1..(Len(u) - (n + 1) + 1) : b[j] = u[n + 1 + j - 1]
      BY <1>1, <2>1, Part
    <2> HIDE DEF b
    <2> QED BY <1>1, <2>2
  <1> HIDE DEF a, b
  <1>7. /\ a \o t \in Seq(S) /\ Len(a \o t) = Len(u) - n
        /\ \A j \in 1..Len(a) : (a \o t)[j] = a[j]
        /\ \A j \in 1..Len(t) : (a \o t)[Len(a) + j] = t[j]
    <2>1. /\ a \o t \in Seq(S) /\ Len(a \o t) = Len(a) + Len(t)
          /\ \A j \in 1..Len(a) : (a \o t)[j] = a[j]
          /\ \A j \in 1..Len(t) : (a \o t)[Len(a) + j] = t[j]
      <3>1. a \in Seq(S)
        BY <1>5
      <3> QED BY <3>1, Whole
    <2> QED BY <1>1, <1>5, <2>1, SMTT(30)
  <1>8. ASSUME NEW j \in 1..(Len(u) - n) PROVE b[j] = (a \o t)[j]
    <2>1. CASE j <= Len(s) - n
      BY <1>1, <1>5, <1>6, <1>7, <2>1
    <2>2. CASE j > Len(s) - n
      <3>1. /\ j - (Len(s) - n) \in 1..Len(t)
            /\ Len(a) + (j - (Len(s) - n)) = j
            /\ Len(s) + (j - (Len(s) - n)) = n + j
        BY <1>1, <1>5, <2>2
      <3>2. b[j] = u[n + j]
        BY <1>6
      <3>3. u[n + j] = t[j - (Len(s) - n)]
        BY <1>1, <3>1
      <3>4. (a \o t)[j] = t[j - (Len(s) - n)]
        BY <1>7, <3>1
      <3> QED BY <3>2, <3>3, <3>4
    <2>3. j <= Len(s) - n \/ j > Len(s) - n
      BY <1>1
    <2> QED BY <2>1, <2>2, <2>3
  <1>9. b = a \o t
    BY <1>6, <1>7, <1>8, SeqEqual
  <1> QED BY <1>4, <1>9 DEF a, b, u

\* getline and the C string: what is before the first x and what is behind it.
LEMMA SplitAt ==
  ASSUME NEW S, NEW s \in Seq(S), NEW x
  PROVE  \/ /\ \A j \in 1..Len(s) : s[j] # x
            /\ Before(s, x) = s /\ After(s, x) = <<>>
         \/ \E k \in 1..Len(s) :
              /\ s[k] = x /\ \A j \in 1..(k - 1) : s[j] # x
              /\ Before(s, x) = SubSeq(s, 1, k - 1)
              /\ After(s, x) = SubSeq(s, k + 1, Len(s))
  <1> DEFINE I == {j \in 1..Len(s) : s[j] = x}
             k == IF I # {} THEN Min(I) ELSE 0
  <1>1. Len(s) \in Nat
    BY LenProperties
  <1>2. /\ Before(s, x) = IF k = 0 THEN s ELSE SubSeq(s, 1, k - 1)
        /\ After(s, x) = IF k = 0 THEN <<>> ELSE SubSeq(s, k + 1, Len(s))
    BY DEF Before, After, SelectInSeq
  <1>3. CASE I = {}
    BY <1>2, <1>3
  <1>4. CASE I # {}
    <2>1. I \in SUBSET Nat
      BY <1>1
    <2>2. Min(I) \in I /\ \A y \in I : Min(I) <= y
      BY <1>4, <2>1, LeastIs
    <2>3. k = Min(I)
      BY <1>4
    <2>4. k \in 1..Len(s) /\ s[k] = x /\ k # 0
      BY <2>2, <2>3
    <2>5. ASSUME NEW j \in 1..(k - 1) PROVE s[j] # x
      <3>1. j \in 1..Len(s) /\ ~(k <= j)
        BY <1>1, <2>4
      <3> QED BY <2>2, <2>3, <3>1
    <2> HIDE DEF k
    <2> QED BY <1>2, <2>4, <2>5
  <1> QED BY <1>3, <1>4

LEMMA Narrowed ==
  ASSUME NEW S, NEW T, NEW s \in Seq(S), \A j \in 1..Len(s) : s[j] \in T
  PROVE  s \in Seq(T)
  <1>1. Len(s) \in Nat /\ s \in [1..Len(s) -> S]
    BY LenProperties
  <1>2. s \in [1..Len(s) -> T]
    BY <1>1
  <1>3. \A n \in Nat : \A g \in [1..n -> T] : g \in Seq(T)
    OBVIOUS
  <1> QED BY <1>1, <1>2, <1>3

\* The cut is behind the first n elements.
CutBehind(S, s, x, n) ==
  /\ Before(s, x) = SubSeq(s, 1, n) /\ Before(s, x) \in Seq(S \ {x})
  /\ Len(Before(s, x)) = n /\ After(s, x) \in Seq(S)
  /\ \A j \in 1..n : s[j] # x
  /\ \/ n = Len(s) /\ Before(s, x) = s /\ After(s, x) = <<>>
     \/ /\ n < Len(s) /\ s[n + 1] = x
        /\ After(s, x) = SubSeq(s, n + 2, Len(s))

LEMMA CutAt ==
  ASSUME NEW S, NEW s \in Seq(S), NEW x
  PROVE  \E n \in 0..Len(s) : CutBehind(S, s, x, n)
  <1>1. Len(s) \in Nat
    BY LenProperties
  <1>2. CASE /\ \A j \in 1..Len(s) : s[j] # x
             /\ Before(s, x) = s /\ After(s, x) = <<>>
    <2>1. SubSeq(s, 1, Len(s)) = s
      BY SubSeqFull
    <2>2. s \in Seq(S \ {x})
      <3>1. \A j \in 1..Len(s) : s[j] \in S \ {x}
        BY <1>1, <1>2, ElementOfSeq
      <3> QED BY <3>1, Narrowed
    <2>3. <<>> \in Seq(S) /\ Len(s) \in 0..Len(s)
      BY <1>1
    <2> QED BY <1>2, <2>1, <2>2, <2>3 DEF CutBehind
  <1>3. ASSUME NEW k \in 1..Len(s), s[k] = x, \A j \in 1..(k - 1) : s[j] # x,
               Before(s, x) = SubSeq(s, 1, k - 1),
               After(s, x) = SubSeq(s, k + 1, Len(s))
        PROVE  \E n \in 0..Len(s) : CutBehind(S, s, x, n)
    <2> DEFINE n == k - 1
    <2>1. n \in 0..Len(s) /\ n < Len(s) /\ n + 1 = k /\ n + 2 = k + 1
      BY <1>1
    <2>2. /\ SubSeq(s, 1, n) \in Seq(S) /\ Len(SubSeq(s, 1, n)) = n
          /\ \A j \in 1..n : SubSeq(s, 1, n)[j] = s[j]
      <3>1. 1 \in 1..(Len(s) + 1) /\ 1 <= n + 1
        BY <1>1, <2>1
      <3>2. /\ SubSeq(s, 1, n) \in Seq(S) /\ Len(SubSeq(s, 1, n)) = n - 1 + 1
            /\ \A j \in 1..(n - 1 + 1) : SubSeq(s, 1, n)[j] = s[1 + j - 1]
        BY <2>1, <3>1, Part
      <3> HIDE DEF n
      <3> QED BY <1>1, <2>1, <3>2
    <2>3. SubSeq(s, k + 1, Len(s)) \in Seq(S)
      <3>1. k + 1 \in 1..(Len(s) + 1) /\ Len(s) \in 0..Len(s) /\ k + 1 <= Len(s) + 1
        BY <1>1
      <3> QED BY <3>1, Part
    <2>4. SubSeq(s, 1, n) \in Seq(S \ {x})
      <3>1. ASSUME NEW j \in 1..n PROVE SubSeq(s, 1, n)[j] \in S \ {x}
        <4>1. j \in 1..Len(s) /\ s[j] # x
          BY <1>1, <1>3, <2>1
        <4>2. s[j] \in S
          BY <4>1, ElementOfSeq
        <4> QED BY <2>2, <4>1, <4>2
      <3> HIDE DEF n
      <3>2. \A j \in 1..Len(SubSeq(s, 1, n)) : SubSeq(s, 1, n)[j] \in S \ {x}
        BY <2>2, <3>1
      <3>3. SubSeq(s, 1, n) \in Seq(S)
        BY <2>2
      <3> QED BY <3>2, <3>3, Narrowed
    <2>5. \A j \in 1..n : s[j] # x
      BY <1>3
    <2> HIDE DEF n
    <2>6. Before(s, x) = SubSeq(s, 1, n)
      BY <1>3 DEF n
    <2>7. s[n + 1] = x /\ After(s, x) = SubSeq(s, n + 2, Len(s))
      BY <1>3, <2>1
    <2> QED BY <1>3, <2>1, <2>2, <2>3, <2>4, <2>5, <2>6, <2>7 DEF CutBehind
  <1> QED BY <1>2, <1>3, SplitAt

\* The line of a piece of text, with one CR at its end or none.
LEMMA ChompIs ==
  ASSUME NEW S, NEW s \in Seq(S)
  PROVE  Chomp(s) \in Seq(S) /\ Chomp(s) = Order!WithoutCR(s)
  <1>1. CASE s = <<>>
    BY <1>1 DEF Chomp, Order!WithoutCR
  <1>2. CASE s # <<>>
    <2>1. Len(s) \in Nat /\ Len(s) # 0
      BY <1>2, LenProperties, EmptySeq
    <2>2. /\ 1 \in 1..(Len(s) + 1) /\ Len(s) - 1 \in 0..Len(s)
          /\ 1 <= (Len(s) - 1) + 1
      BY <2>1
    <2>3. SubSeq(s, 1, Len(s) - 1) \in Seq(S)
      BY <2>2, Part
    <2>4. Chomp(s) = Order!WithoutCR(s)
      BY DEF Chomp, Last, Front, Order!WithoutCR
    <2>5. Chomp(s) \in {s, SubSeq(s, 1, Len(s) - 1)}
      BY DEF Chomp, Front
    <2> QED BY <2>3, <2>4, <2>5
  <1> QED BY <1>1, <1>2

-----------------------------------------------------------------------------
(* The lines of a text *)

\* What holds of 0, and of n + 1 if it holds of n, as a set.
LEMMA Induction ==
  ASSUME NEW T, 0 \in T, \A n \in Nat : n \in T => n + 1 \in T
  PROVE  Nat \subseteq T
  <1> DEFINE Rest == Nat \ T
  <1>1. CASE Rest # {}
    <2> DEFINE n == Min(Rest)
    <2>1. n \in Rest /\ \A y \in Rest : n <= y
      BY <1>1, LeastIs
    <2> HIDE DEF n
    <2>2. n \in Nat /\ n \notin T /\ n # 0
      BY <2>1
    <2>3. n - 1 \in Nat /\ (n - 1) + 1 = n
      BY <2>2
    <2>4. n - 1 \notin Rest
      BY <2>1, <2>2, <2>3
    <2> QED BY <2>2, <2>3, <2>4
  <1> QED BY <1>1

\* g has a first value, and for each value the next one.
Follows(g, N, V, first, F) ==
  /\ g \in [0..N -> V] /\ g[0] = first
  /\ \A k \in 1..N : g[k] = F[k][g[k - 1]]

LEMMA Recursion ==
  ASSUME NEW V, NEW v0 \in V, NEW N \in Nat, NEW F \in [1..N -> [V -> V]]
  PROVE  \E g : Follows(g, N, V, v0, F)
  <1> DEFINE Is(n, g) == g[0] = v0 /\ \A k \in 1..n : g[k] = F[k][g[k - 1]]
             T == {n \in Nat : n <= N => \E g \in [0..n -> V] : Is(n, g)}
  <1>1. 0 \in T
    <2> DEFINE g == [k \in 0..0 |-> v0]
    <2>1. g \in [0..0 -> V] /\ Is(0, g)
      OBVIOUS
    <2> QED BY <2>1
  <1>2. ASSUME NEW n \in Nat, n \in T PROVE n + 1 \in T
    <2>1. ASSUME n + 1 <= N
          PROVE  \E h \in [0..(n + 1) -> V] : Is(n + 1, h)
      <3>1. PICK g \in [0..n -> V] : Is(n, g)
        BY <1>2, <2>1
      <3> DEFINE h == [k \in 0..(n + 1) |-> IF k = n + 1 THEN F[n + 1][g[n]] ELSE g[k]]
      <3>2. F[n + 1][g[n]] \in V
        BY <2>1, <3>1
      <3>3. ASSUME NEW k \in 0..n PROVE k \in 0..(n + 1) /\ h[k] = g[k]
        OBVIOUS
      <3>4. h \in [0..(n + 1) -> V] /\ h[n + 1] = F[n + 1][g[n]]
        BY <3>1, <3>2
      <3> HIDE DEF h
      <3>5. ASSUME NEW k \in 1..(n + 1) PROVE h[k] = F[k][h[k - 1]]
        <4>1. CASE k = n + 1
          <5>1. k - 1 = n /\ h[n] = g[n]
            BY <3>3, <4>1
          <5> QED BY <3>4, <4>1, <5>1
        <4>2. CASE k # n + 1
          <5>1. k \in 1..n /\ k \in 0..n /\ k - 1 \in 0..n
            BY <4>2
          <5>2. h[k] = g[k] /\ h[k - 1] = g[k - 1]
            BY <3>3, <5>1
          <5> QED BY <3>1, <5>1, <5>2
        <4> QED BY <4>1, <4>2
      <3>6. h[0] = v0
        <4>1. 0 \in 0..n
          OBVIOUS
        <4> QED BY <3>1, <3>3, <4>1
      <3>7. Is(n + 1, h)
        BY <3>5, <3>6
      <3> QED BY <3>4, <3>7
    <2> HIDE DEF Is
    <2> QED BY <2>1
  <1> HIDE DEF T
  <1>3. N \in T
    BY <1>1, <1>2, Induction
  <1> QED BY <1>3 DEF T, Follows

\* Behind a line end, or from the start on.
StartsLine(s, a) == a = 1 \/ s[a - 1] = LF

LEMMA LineToAt ==
  ASSUME NEW s \in Seq(Symbol), NEW n \in 0..Len(s), NEW a \in 1..(n + 1),
         StartsLine(s, a), \A j \in a..n : s[j] # LF
  PROVE  LineTo(s, n) = SubSeq(s, a, n)
  <1> DEFINE T == {k \in 1..(n + 1) : \A j \in k..n : s[j] # LF}
             m == Min(T)
  <1>1. Len(s) \in Nat /\ n \in Nat
    BY LenProperties
  <1>2. a \in T /\ T \in SUBSET Nat
    BY <1>1
  <1>3. m \in T /\ m <= a
    BY <1>2, LeastIs
  <1>4. LineTo(s, n) = SubSeq(s, m, n)
    BY DEF LineTo
  <1> HIDE DEF m
  <1>5. ASSUME m < a PROVE FALSE
    <2>1. a - 1 \in m..n /\ a # 1
      BY <1>1, <1>3, <1>5
    <2> QED BY <1>3, <2>1 DEF StartsLine
  <1>6. m = a
    BY <1>1, <1>3, <1>5
  <1> QED BY <1>4, <1>6

\* Where the line starts.
LEMMA LineStarts ==
  ASSUME NEW s \in Seq(Symbol), NEW n \in 0..Len(s)
  PROVE  \E a \in 1..(n + 1) : StartsLine(s, a) /\ \A j \in a..n : s[j] # LF
  <1> DEFINE T == {k \in 1..(n + 1) : \A j \in k..n : s[j] # LF}
             a == Min(T)
  <1>1. Len(s) \in Nat /\ n \in Nat
    BY LenProperties
  <1>2. n + 1 \in T /\ T \in SUBSET Nat
    BY <1>1
  <1>3. a \in T /\ \A k \in T : a <= k
    BY <1>2, LeastIs
  <1> HIDE DEF a
  <1>4. ASSUME a # 1, s[a - 1] # LF PROVE FALSE
    <2>1. a - 1 \in 1..(n + 1) /\ \A j \in (a - 1)..n : j = a - 1 \/ j \in a..n
      BY <1>1, <1>3, <1>4
    <2>2. a - 1 \in T
      BY <1>3, <1>4, <2>1
    <2> QED BY <1>1, <1>3, <2>2
  <1> QED BY <1>3, <1>4 DEF StartsLine

LEMMA LineToIs ==
  ASSUME NEW s \in Seq(Symbol), NEW n \in 0..Len(s)
  PROVE  LineTo(s, n) \in Seq(Symbol)
  <1>1. PICK a \in 1..(n + 1) : StartsLine(s, a) /\ \A j \in a..n : s[j] # LF
    BY LineStarts
  <1>2. LineTo(s, n) = SubSeq(s, a, n)
    BY <1>1, LineToAt
  <1>3. a \in 1..(Len(s) + 1) /\ a <= n + 1
    BY LenProperties
  <1> QED BY <1>2, <1>3, Part

LEMMA LineToSame ==
  ASSUME NEW s \in Seq(Symbol), NEW t \in Seq(Symbol),
         NEW n \in 0..Len(s), n <= Len(t), \A j \in 1..n : s[j] = t[j]
  PROVE  LineTo(s, n) = LineTo(t, n)
  <1>1. Len(s) \in Nat /\ Len(t) \in Nat /\ n \in 0..Len(t)
    BY LenProperties
  <1>2. PICK a \in 1..(n + 1) : StartsLine(s, a) /\ \A j \in a..n : s[j] # LF
    BY LineStarts
  <1>3. StartsLine(t, a) /\ \A j \in a..n : t[j] # LF
    <2>1. a = 1 \/ a - 1 \in 1..n
      BY <1>1
    <2>2. a..n \subseteq 1..n
      BY <1>1
    <2> QED BY <1>2, <2>1, <2>2 DEF StartsLine
  <1>4. LineTo(s, n) = SubSeq(s, a, n) /\ LineTo(t, n) = SubSeq(t, a, n)
    BY <1>1, <1>2, <1>3, LineToAt
  <1>5. a \in 1..(Len(s) + 1) /\ a \in 1..(Len(t) + 1) /\ a <= n + 1
    BY <1>1
  <1>6. /\ SubSeq(s, a, n) \in Seq(Symbol) /\ Len(SubSeq(s, a, n)) = n - a + 1
        /\ \A j \in 1..(n - a + 1) : SubSeq(s, a, n)[j] = s[a + j - 1]
    BY <1>5, Part
  <1>7. /\ SubSeq(t, a, n) \in Seq(Symbol) /\ Len(SubSeq(t, a, n)) = n - a + 1
        /\ \A j \in 1..(n - a + 1) : SubSeq(t, a, n)[j] = t[a + j - 1]
    BY <1>1, <1>5, Part
  <1>8. ASSUME NEW j \in 1..(n - a + 1) PROVE SubSeq(s, a, n)[j] = SubSeq(t, a, n)[j]
    <2>1. a + j - 1 \in 1..n
      BY <1>1
    <2> QED BY <1>6, <1>7, <2>1
  <1>9. SubSeq(s, a, n) = SubSeq(t, a, n)
    BY <1>6, <1>7, <1>8, SeqEqual
  <1> QED BY <1>4, <1>9

LEMMA LineToBehind ==
  ASSUME NEW s \in Seq(Symbol), NEW p \in 0..Len(s), NEW n \in p..Len(s),
         p = 0 \/ s[p] = LF, \A j \in (p + 1)..n : s[j] # LF
  PROVE  LineTo(s, n) = SubSeq(s, p + 1, n)
  <1>1. Len(s) \in Nat /\ n \in 0..Len(s) /\ p + 1 \in 1..(n + 1) /\ (p + 1) - 1 = p
    BY LenProperties
  <1>2. StartsLine(s, p + 1)
    BY <1>1 DEF StartsLine
  <1> QED BY <1>1, <1>2, LineToAt

LEMMA LineToEmpty ==
  ASSUME NEW s \in Seq(Symbol), NEW n \in 0..Len(s), n = 0 \/ s[n] = LF
  PROVE  LineTo(s, n) = <<>>
  <1>1. Len(s) \in Nat /\ n \in n..Len(s) /\ \A j \in (n + 1)..n : s[j] # LF
    BY LenProperties
  <1>2. LineTo(s, n) = SubSeq(s, n + 1, n)
    BY <1>1, LineToBehind
  <1>3. n + 1 \in Int /\ n \in Int /\ n < n + 1
    BY <1>1
  <1> QED BY <1>2, <1>3, SubSeqEmpty

LEMMA LineToNext ==
  ASSUME NEW s \in Seq(Symbol), NEW n \in 1..Len(s), s[n] # LF
  PROVE  LineTo(s, n) = Append(LineTo(s, n - 1), s[n])
  <1>1. Len(s) \in Nat /\ n \in Nat /\ n - 1 \in 0..Len(s) /\ n \in 0..Len(s)
        /\ (n - 1) + 1 = n
    BY LenProperties
  <1>2. PICK a \in 1..n : StartsLine(s, a) /\ \A j \in a..(n - 1) : s[j] # LF
    <2>1. \E a \in 1..((n - 1) + 1) :
            StartsLine(s, a) /\ \A j \in a..(n - 1) : s[j] # LF
      BY <1>1, LineStarts
    <2> QED BY <1>1, <2>1
  <1>3. LineTo(s, n - 1) = SubSeq(s, a, n - 1)
    <2>1. a \in 1..((n - 1) + 1)
      BY <1>1
    <2> QED BY <1>1, <1>2, <2>1, LineToAt
  <1>4. LineTo(s, n) = SubSeq(s, a, n)
    <2>1. a \in 1..(n + 1) /\ \A j \in a..n : j = n \/ j \in a..(n - 1)
      BY <1>1
    <2>2. \A j \in a..n : s[j] # LF
      BY <1>2, <2>1
    <2> QED BY <1>1, <1>2, <2>1, <2>2, LineToAt
  <1>5. SubSeq(s, a, n) = SubSeq(s, a, n - 1) \o <<s[n]>>
    <2>1. a \in 1..Len(s) /\ n \in a..Len(s)
      BY <1>1
    <2> QED BY <2>1, SubSeqRecursiveSecond
  <1>6. SubSeq(s, a, n - 1) \in Seq(Symbol) /\ s[n] \in Symbol
    <2>1. LineTo(s, n - 1) \in Seq(Symbol)
      BY <1>1, LineToIs
    <2> QED BY <1>3, <2>1, ElementOfSeq
  <1>7. Append(SubSeq(s, a, n - 1), s[n]) = SubSeq(s, a, n - 1) \o <<s[n]>>
    BY <1>6, AppendIsConcat
  <1> QED BY <1>3, <1>4, <1>5, <1>7

LEMMA Chomps ==
  /\ Chomp(<<>>) = <<>> /\ Chomp(<<CR>>) = <<>>
  /\ \A s \in Seq(Symbol), x \in Symbol :
       Chomp(Append(s, x)) = IF x = CR THEN s ELSE Append(s, x)
  <1>1. ASSUME NEW s \in Seq(Symbol), NEW x \in Symbol
        PROVE  Chomp(Append(s, x)) = IF x = CR THEN s ELSE Append(s, x)
    <2> DEFINE t == Append(s, x)
    <2>1. /\ Len(s) \in Nat /\ t \in Seq(Symbol) /\ Len(t) = Len(s) + 1
          /\ t[Len(s) + 1] = x /\ \A j \in 1..Len(s) : t[j] = s[j]
      BY LenProperties, AppendProperties
    <2> HIDE DEF t
    <2>2. t # <<>> /\ Last(t) = x
      BY <2>1 DEF Last
    <2>3. Front(t) = s
      <3>1. /\ 1 \in 1..(Len(t) + 1) /\ Len(s) \in 0..Len(t) /\ 1 <= Len(s) + 1
            /\ Len(t) - 1 = Len(s)
        BY <2>1
      <3>2. /\ SubSeq(t, 1, Len(s)) \in Seq(Symbol)
            /\ Len(SubSeq(t, 1, Len(s))) = Len(s) - 1 + 1
            /\ \A j \in 1..(Len(s) - 1 + 1) : SubSeq(t, 1, Len(s))[j] = t[1 + j - 1]
        BY <2>1, <3>1, Part
      <3>3. Len(s) - 1 + 1 = Len(s) /\ \A j \in 1..Len(s) : 1 + j - 1 = j
        BY <2>1
      <3>4. SubSeq(t, 1, Len(s)) = s
        BY <2>1, <3>2, <3>3, SeqEqual
      <3> QED BY <3>1, <3>4 DEF Front
    <2>4. Chomp(t) = IF x = CR THEN s ELSE t
      BY <2>2, <2>3 DEF Chomp
    <2> QED BY <2>4 DEF t
  <1>2. Chomp(<<>>) = <<>>
    BY DEF Chomp
  <1>3. Chomp(<<CR>>) = <<>>
    <2>1. <<>> \in Seq(Symbol) /\ CR \in Symbol /\ Append(<<>>, CR) = <<CR>>
      BY DEF Symbol
    <2> QED BY <1>1, <2>1
  <1> QED BY <1>1, <1>2, <1>3

Text == Seq(Seq(Symbol))

LEMMA AnotherIs ==
  ASSUME NEW lines \in Text, NEW l \in Seq(Symbol)
  PROVE  Another(lines, l) \in Text
  <1>1. Append(lines, l) \in Text
    BY AppendProperties DEF Text
  <1> QED BY <1>1 DEF Another

\* g has the lines of s up to each place, as far as n.
Collects(s, n, g) ==
  /\ g[0] = <<>>
  /\ \A k \in 1..n :
       g[k] = IF s[k] = LF THEN Another(g[k - 1], Chomp(LineTo(s, k - 1)))
                           ELSE g[k - 1]

LEMMA LinesAre ==
  ASSUME NEW s \in Seq(Symbol)
  PROVE  \E g : Collects(s, Len(s), g) /\ Lines(s) = g[Len(s)]
  <1> DEFINE N == Len(s)
             G(g) == g = [n \in 0..N |->
                        IF n = 0 THEN <<>>
                        ELSE IF s[n] = LF
                             THEN Another(g[n - 1], Chomp(LineTo(s, n - 1)))
                             ELSE g[n - 1]]
             F == [k \in 1..N |-> [v \in Text |->
                     IF s[k] = LF THEN Another(v, Chomp(LineTo(s, k - 1))) ELSE v]]
  <1>1. N \in Nat
    BY LenProperties
  <1>2. F \in [1..N -> [Text -> Text]]
    <2>1. ASSUME NEW k \in 1..N, NEW v \in Text
          PROVE  Another(v, Chomp(LineTo(s, k - 1))) \in Text
      <3>1. k - 1 \in 0..N
        BY <1>1
      <3>2. Chomp(LineTo(s, k - 1)) \in Seq(Symbol)
        BY <3>1, LineToIs, ChompIs
      <3> QED BY <3>2, AnotherIs
    <2> QED BY <2>1
  <1>3. ASSUME NEW k \in 1..N, NEW v \in Text
        PROVE  F[k][v] = IF s[k] = LF THEN Another(v, Chomp(LineTo(s, k - 1))) ELSE v
    OBVIOUS
  <1> HIDE DEF F
  <1>4. <<>> \in Text
    BY DEF Text
  <1>5. PICK h \in [0..N -> Text] :
          h[0] = <<>> /\ \A k \in 1..N : h[k] = F[k][h[k - 1]]
    <2>1. \E h : Follows(h, N, Text, <<>>, F)
      BY <1>1, <1>2, <1>4, Recursion
    <2> QED BY <2>1 DEF Follows
  <1>6. G(h)
    <2> DEFINE hh == [n \in 0..N |->
                        IF n = 0 THEN <<>>
                        ELSE IF s[n] = LF
                             THEN Another(h[n - 1], Chomp(LineTo(s, n - 1)))
                             ELSE h[n - 1]]
    <2>1. ASSUME NEW n \in 0..N PROVE h[n] = hh[n]
      <3>1. CASE n = 0
        BY <1>5, <3>1
      <3>2. CASE n # 0
        <4>1. n \in 1..N /\ n - 1 \in 0..N
          BY <1>1, <3>2
        <4>2. h[n - 1] \in Text
          BY <1>5, <4>1
        <4>3. h[n] = F[n][h[n - 1]]
          BY <1>5, <4>1
        <4> QED BY <1>3, <3>2, <4>1, <4>2, <4>3
      <3> QED BY <3>1, <3>2
    <2>2. h = hh
      BY <1>5, <2>1
    <2> QED BY <2>2
  <1> DEFINE g == CHOOSE g : G(g)
  <1>7. G(g)
    BY <1>6
  <1>8. Lines(s) = g[N]
    BY DEF Lines
  <1> HIDE DEF g
  <1>9. Collects(s, N, g)
    <2>1. g[0] = <<>>
      BY <1>1, <1>7
    <2>2. ASSUME NEW k \in 1..N
          PROVE  g[k] = IF s[k] = LF THEN Another(g[k - 1], Chomp(LineTo(s, k - 1)))
                                     ELSE g[k - 1]
      <3>1. k \in 0..N /\ k # 0
        BY <1>1
      <3> QED BY <1>7, <3>1
    <2> QED BY <2>1, <2>2 DEF Collects
  <1> QED BY <1>8, <1>9

\* What the lines up to n are depends on the text up to n alone.
LEMMA CollectsSame ==
  ASSUME NEW s \in Seq(Symbol), NEW t \in Seq(Symbol), NEW n \in Nat,
         n <= Len(s), n <= Len(t), \A j \in 1..n : s[j] = t[j],
         NEW g, Collects(s, n, g), NEW h, Collects(t, n, h)
  PROVE  g[n] = h[n]
  <1> DEFINE T == {k \in Nat : k <= n => g[k] = h[k]}
  <1>1. 0 \in T
    BY DEF Collects
  <1>2. ASSUME NEW k \in Nat, k \in T PROVE k + 1 \in T
    <2>1. ASSUME k + 1 <= n PROVE g[k + 1] = h[k + 1]
      <3>1. /\ k + 1 \in 1..n /\ (k + 1) - 1 = k /\ g[k] = h[k]
            /\ k \in 0..Len(s) /\ k <= Len(t) /\ 1..k \subseteq 1..n
        BY <1>2, <2>1, LenProperties
      <3>2. LineTo(s, k) = LineTo(t, k) /\ s[k + 1] = t[k + 1]
        BY <3>1, LineToSame
      <3>3. g[k + 1] = IF s[k + 1] = LF THEN Another(g[k], Chomp(LineTo(s, k)))
                                        ELSE g[k]
        BY <3>1 DEF Collects
      <3>4. h[k + 1] = IF t[k + 1] = LF THEN Another(h[k], Chomp(LineTo(t, k)))
                                        ELSE h[k]
        BY <3>1 DEF Collects
      <3> QED BY <3>1, <3>2, <3>3, <3>4
    <2> QED BY <2>1
  <1> HIDE DEF T
  <1>3. n \in T
    BY <1>1, <1>2, Induction
  <1> QED BY <1>3 DEF T

\* The lines that end in the first n symbols of s.
LinesTo(s, n) == Lines(SubSeq(s, 1, n))

LEMMA Start ==
  ASSUME NEW s \in Seq(Symbol), NEW n \in 0..Len(s)
  PROVE  /\ SubSeq(s, 1, n) \in Seq(Symbol) /\ Len(SubSeq(s, 1, n)) = n /\ n \in Nat
         /\ \A j \in 1..n : SubSeq(s, 1, n)[j] = s[j]
  <1>1. Len(s) \in Nat /\ 1 \in 1..(Len(s) + 1) /\ 1 <= n + 1
    BY LenProperties
  <1>2. /\ SubSeq(s, 1, n) \in Seq(Symbol) /\ Len(SubSeq(s, 1, n)) = n - 1 + 1
        /\ \A j \in 1..(n - 1 + 1) : SubSeq(s, 1, n)[j] = s[1 + j - 1]
    BY <1>1, Part
  <1> QED BY <1>1, <1>2

LEMMA LinesToIs ==
  ASSUME NEW s \in Seq(Symbol), NEW g, Collects(s, Len(s), g), NEW n \in 0..Len(s)
  PROVE  LinesTo(s, n) = g[n]
  <1> DEFINE p == SubSeq(s, 1, n)
  <1>1. /\ p \in Seq(Symbol) /\ Len(p) = n /\ n \in Nat /\ n <= Len(s)
        /\ Len(s) \in Nat /\ \A j \in 1..n : p[j] = s[j]
    BY Start, LenProperties
  <1>2. LinesTo(s, n) = Lines(p)
    BY DEF LinesTo
  <1> HIDE DEF p
  <1>3. PICK h : Collects(p, n, h) /\ Lines(p) = h[n]
    BY <1>1, LinesAre
  <1>4. Collects(s, n, g)
    <2>1. 1..n \subseteq 1..Len(s)
      BY <1>1
    <2> QED BY <2>1 DEF Collects
  <1>5. h[n] = g[n]
    BY <1>1, <1>3, <1>4, CollectsSame
  <1> QED BY <1>2, <1>3, <1>5

\* One symbol more.
LEMMA LinesToNext ==
  ASSUME NEW s \in Seq(Symbol)
  PROVE  /\ LinesTo(s, 0) = <<>> /\ LinesTo(s, Len(s)) = Lines(s)
         /\ \A n \in 1..Len(s) :
              LinesTo(s, n) = IF s[n] = LF
                              THEN Another(LinesTo(s, n - 1), Chomp(LineTo(s, n - 1)))
                              ELSE LinesTo(s, n - 1)
  <1>1. PICK g : Collects(s, Len(s), g) /\ Lines(s) = g[Len(s)]
    BY LinesAre
  <1>2. Len(s) \in Nat /\ 0 \in 0..Len(s) /\ Len(s) \in 0..Len(s)
    BY LenProperties
  <1>3. ASSUME NEW n \in 1..Len(s)
        PROVE  LinesTo(s, n) = IF s[n] = LF
                               THEN Another(LinesTo(s, n - 1), Chomp(LineTo(s, n - 1)))
                               ELSE LinesTo(s, n - 1)
    <2>1. n \in 0..Len(s) /\ n - 1 \in 0..Len(s)
      BY <1>2
    <2>2. LinesTo(s, n) = g[n] /\ LinesTo(s, n - 1) = g[n - 1]
      BY <1>1, <2>1, LinesToIs
    <2> QED BY <1>1, <2>2 DEF Collects
  <1>4. LinesTo(s, 0) = g[0] /\ LinesTo(s, Len(s)) = g[Len(s)]
    BY <1>1, <1>2, LinesToIs
  <1> QED BY <1>1, <1>3, <1>4 DEF Collects

-----------------------------------------------------------------------------
(* What getline makes of a text that ends at n *)

\* The lines that end up to n, and the text behind them as one more.
Pieces(s, n) == Another(LinesTo(s, n), Chomp(LineTo(s, n)))

\* The same up to a line end.
LEMMA PiecesAtEnd ==
  ASSUME NEW s \in Seq(Symbol), NEW n \in 0..Len(s), n = 0 \/ s[n] = LF
  PROVE  Pieces(s, n) = LinesTo(s, n)
  BY LineToEmpty, Chomps DEF Pieces, Another

\* A line end behind the text adds nothing.
LEMMA PiecesOverEnd ==
  ASSUME NEW s \in Seq(Symbol), NEW n \in 1..Len(s), s[n] = LF
  PROVE  Pieces(s, n) = Pieces(s, n - 1)
  <1>1. n \in 0..Len(s)
    BY LenProperties
  <1>2. Pieces(s, n) = LinesTo(s, n)
    BY <1>1, PiecesAtEnd
  <1> QED BY <1>2, LinesToNext DEF Pieces

\* Nor does a CR, behind text that does not end in one.
LEMMA PiecesOverCR ==
  ASSUME NEW s \in Seq(Symbol), NEW n \in 1..Len(s), n + 1 \in 1..Len(s),
         s[n] # LF, s[n] # CR, s[n + 1] = CR
  PROVE  Pieces(s, n + 1) = Pieces(s, n)
  <1>1. Len(s) \in Nat /\ n - 1 \in 0..Len(s) /\ n \in 0..Len(s) /\ (n + 1) - 1 = n
    BY LenProperties
  <1>2. s[n + 1] # LF
    BY FramingAssumption
  <1>3. s[n] \in Symbol /\ CR \in Symbol
    BY ElementOfSeq DEF Symbol
  <1>4. LineTo(s, n - 1) \in Seq(Symbol) /\ LineTo(s, n) \in Seq(Symbol)
    BY <1>1, LineToIs
  <1>5. LineTo(s, n) = Append(LineTo(s, n - 1), s[n])
    BY LineToNext
  <1>6. LineTo(s, n + 1) = Append(LineTo(s, n), CR)
    BY <1>1, <1>2, LineToNext
  <1>7. Chomp(LineTo(s, n)) = LineTo(s, n)
    BY <1>3, <1>4, <1>5, Chomps
  <1>8. Chomp(LineTo(s, n + 1)) = LineTo(s, n)
    BY <1>3, <1>4, <1>6, Chomps
  <1>9. LinesTo(s, n + 1) = LinesTo(s, n)
    BY <1>1, <1>2, LinesToNext
  <1> QED BY <1>7, <1>8, <1>9 DEF Pieces

LEMMA LinesToOver ==
  ASSUME NEW s \in Seq(Symbol), NEW p \in 0..Len(s), NEW n \in p..Len(s),
         \A j \in (p + 1)..n : s[j] # LF
  PROVE  LinesTo(s, n) = LinesTo(s, p)
  <1> DEFINE T == {k \in Nat : p + k <= n => LinesTo(s, p + k) = LinesTo(s, p)}
  <1>1. Len(s) \in Nat /\ p \in Nat /\ n \in Nat
    BY LenProperties
  <1>2. 0 \in T
    BY <1>1
  <1>3. ASSUME NEW k \in Nat, k \in T PROVE k + 1 \in T
    <2>1. ASSUME p + (k + 1) <= n PROVE LinesTo(s, p + (k + 1)) = LinesTo(s, p)
      <3>1. /\ p + (k + 1) \in (p + 1)..n /\ p + (k + 1) \in 1..Len(s)
            /\ (p + (k + 1)) - 1 = p + k /\ p + k <= n
        BY <1>1, <2>1
      <3>2. LinesTo(s, p + (k + 1)) = LinesTo(s, p + k)
        BY <3>1, LinesToNext
      <3> QED BY <1>3, <3>1, <3>2
    <2> QED BY <2>1
  <1> HIDE DEF T
  <1>4. n - p \in T
    <2>1. n - p \in Nat
      BY <1>1
    <2> QED BY <1>2, <1>3, <2>1, Induction
  <1>5. p + (n - p) = n
    BY <1>1
  <1> QED BY <1>1, <1>4, <1>5 DEF T

\* The text from a line end on is one piece.
LEMMA PiecesOverLine ==
  ASSUME NEW s \in Seq(Symbol), NEW p \in 0..Len(s), NEW n \in p..Len(s),
         p = 0 \/ s[p] = LF, \A j \in (p + 1)..n : s[j] # LF
  PROVE  Pieces(s, n) = Another(Pieces(s, p), Chomp(SubSeq(s, p + 1, n)))
  BY PiecesAtEnd, LinesToOver, LineToBehind DEF Pieces

LEMMA PiecesSame ==
  ASSUME NEW s \in Seq(Symbol), NEW t \in Seq(Symbol),
         NEW n \in 0..Len(s), n <= Len(t), \A j \in 1..n : s[j] = t[j]
  PROVE  Pieces(s, n) = Pieces(t, n)
  <1>1. n \in 0..Len(t)
    BY LenProperties
  <1>2. SubSeq(s, 1, n) = SubSeq(t, 1, n)
    <2>1. /\ SubSeq(s, 1, n) \in Seq(Symbol) /\ Len(SubSeq(s, 1, n)) = n
          /\ \A j \in 1..n : SubSeq(s, 1, n)[j] = s[j]
      BY Start
    <2>2. /\ SubSeq(t, 1, n) \in Seq(Symbol) /\ Len(SubSeq(t, 1, n)) = n
          /\ \A j \in 1..n : SubSeq(t, 1, n)[j] = t[j]
      BY <1>1, Start
    <2> QED BY <2>1, <2>2, SeqEqual
  <1>3. LineTo(s, n) = LineTo(t, n)
    BY LineToSame
  <1> QED BY <1>2, <1>3 DEF Pieces, LinesTo

\* Lines are only added.
LEMMA AnotherKeeps ==
  ASSUME NEW lines \in Text, NEW l \in Seq(Symbol)
  PROVE  /\ IsPrefix(lines, Another(lines, l))
         /\ \A m \in Text : IsPrefix(m, lines) => IsPrefix(m, Another(lines, l))
  <1>1. CASE l = <<>>
    BY <1>1, LenProperties DEF Another, IsPrefix, Text
  <1>2. CASE l # <<>>
    <2> DEFINE a == Append(lines, l)
    <2>1. /\ Len(lines) \in Nat /\ a \in Text /\ Len(a) = Len(lines) + 1
          /\ \A j \in 1..Len(lines) : a[j] = lines[j]
      BY LenProperties, AppendProperties DEF Text
    <2>2. Another(lines, l) = a
      BY <1>2 DEF Another
    <2> HIDE DEF a
    <2>3. ASSUME NEW m \in Text, IsPrefix(m, lines) PROVE IsPrefix(m, a)
      <3>1. Len(m) \in Nat /\ Len(m) <= Len(lines)
            /\ \A j \in 1..Len(m) : m[j] = lines[j]
        BY <2>3, LenProperties DEF IsPrefix, Text
      <3>2. \A j \in 1..Len(m) : j \in 1..Len(lines)
        BY <2>1, <3>1
      <3> QED BY <2>1, <3>1, <3>2 DEF IsPrefix
    <2>4. IsPrefix(lines, lines)
      BY <2>1 DEF IsPrefix
    <2> QED BY <2>2, <2>3, <2>4
  <1> QED BY <1>1, <1>2

LEMMA LinesToText ==
  ASSUME NEW s \in Seq(Symbol)
  PROVE  \A k \in 0..Len(s) : LinesTo(s, k) \in Text
  <1>0. Len(s) \in Nat
    BY LenProperties
  <1> DEFINE U == {k \in Nat : k <= Len(s) => LinesTo(s, k) \in Text}
  <1>1. 0 \in U
    <2>1. LinesTo(s, 0) = <<>>
      BY LinesToNext
    <2>2. <<>> \in Text
      BY DEF Text
    <2> QED BY <2>1, <2>2
  <1>2. ASSUME NEW k \in Nat, k \in U PROVE k + 1 \in U
    <2>1. ASSUME k + 1 <= Len(s) PROVE LinesTo(s, k + 1) \in Text
      <3>1. k + 1 \in 1..Len(s) /\ (k + 1) - 1 = k /\ k \in 0..Len(s)
        BY <1>0, <2>1
      <3>2. LinesTo(s, k) \in Text /\ Chomp(LineTo(s, k)) \in Seq(Symbol)
        BY <1>2, <3>1, LineToIs, ChompIs
      <3>3. Another(LinesTo(s, k), Chomp(LineTo(s, k))) \in Text
        BY <3>2, AnotherIs
      <3> QED BY <3>1, <3>2, <3>3, LinesToNext
    <2> QED BY <2>1
  <1> HIDE DEF U
  <1>3. Nat \subseteq U
    BY <1>1, <1>2, Induction
  <1> QED BY <1>0, <1>3 DEF U

LEMMA LinesGrow ==
  ASSUME NEW s \in Seq(Symbol), NEW p \in 0..Len(s), NEW n \in p..Len(s)
  PROVE  IsPrefix(LinesTo(s, p), LinesTo(s, n))
  <1> DEFINE T == {k \in Nat : p + k <= n =>
                     IsPrefix(LinesTo(s, p), LinesTo(s, p + k))}
  <1>1. Len(s) \in Nat /\ p \in Nat /\ n \in Nat
    BY LenProperties
  <1>2. \A k \in 0..Len(s) : LinesTo(s, k) \in Text
    BY LinesToText
  <1>3. 0 \in T
    BY <1>1, <1>2 DEF IsPrefix
  <1>4. ASSUME NEW k \in Nat, k \in T PROVE k + 1 \in T
    <2>1. ASSUME p + (k + 1) <= n
          PROVE  IsPrefix(LinesTo(s, p), LinesTo(s, p + (k + 1)))
      <3>1. /\ p + (k + 1) \in 1..Len(s) /\ (p + (k + 1)) - 1 = p + k
            /\ p + k <= n /\ p + k \in 0..Len(s)
        BY <1>1, <2>1
      <3>2. /\ LinesTo(s, p + k) \in Text /\ LinesTo(s, p) \in Text
            /\ Chomp(LineTo(s, p + k)) \in Seq(Symbol)
        BY <1>2, <3>1, LineToIs, ChompIs
      <3>3. IsPrefix(LinesTo(s, p), LinesTo(s, p + k))
        BY <1>4, <3>1
      <3>4. IsPrefix(LinesTo(s, p), Another(LinesTo(s, p + k), Chomp(LineTo(s, p + k))))
        BY <3>2, <3>3, AnotherKeeps
      <3> QED BY <3>1, <3>3, <3>4, LinesToNext
    <2> QED BY <2>1
  <1> HIDE DEF T
  <1>5. n - p \in T
    <2>1. n - p \in Nat
      BY <1>1
    <2> QED BY <1>3, <1>4, <2>1, Induction
  <1>6. p + (n - p) = n
    BY <1>1
  <1> QED BY <1>1, <1>5, <1>6 DEF T

LEMMA PiecesHoldLines ==
  ASSUME NEW s \in Seq(Symbol), NEW n \in 0..Len(s)
  PROVE  IsPrefix(LinesTo(s, n), Pieces(s, n))
  <1>1. Chomp(LineTo(s, n)) \in Seq(Symbol) /\ LinesTo(s, n) \in Text
    BY LineToIs, ChompIs, LinesToText
  <1> QED BY <1>1, AnotherKeeps DEF Pieces

-----------------------------------------------------------------------------
(* What each action does *)

LEMMA Facts ==
  ASSUME FrInv
  PROVE  /\ stream \in Seq(Symbol) /\ Len(stream) \in Nat /\ got \in 0..Len(stream)
         /\ rest \in Seq(Symbol \ {NUL}) /\ rest \in Seq(Symbol)
         /\ Unread \in Seq(Symbol) /\ Len(Unread) = Len(stream) - got
         /\ \A j \in 1..(Len(stream) - got) : Unread[j] = stream[got + j]
         /\ SubSeq(stream, 1, got) \in Seq(Symbol) /\ Len(SubSeq(stream, 1, got)) = got
         /\ \A j \in 1..got : SubSeq(stream, 1, got)[j] = stream[j]
  <1>1. /\ stream \in Seq(Symbol) /\ Len(stream) \in Nat /\ got \in 0..Len(stream)
        /\ rest \in Seq(Symbol \ {NUL})
    BY LenProperties DEF FrInv, FrTypeOK
  <1>2. rest \in Seq(Symbol)
    <2>1. \A j \in 1..Len(rest) : rest[j] \in Symbol
      BY <1>1, ElementOfSeq
    <2> QED BY <1>1, <2>1, Narrowed
  <1>3. /\ Unread \in Seq(Symbol) /\ Len(Unread) = Len(stream) - got
        /\ \A j \in 1..(Len(stream) - got) : Unread[j] = stream[got + j]
    <2>1. /\ got + 1 \in 1..(Len(stream) + 1) /\ Len(stream) \in 0..Len(stream)
          /\ got + 1 <= Len(stream) + 1
      BY <1>1
    <2>2. /\ Unread \in Seq(Symbol) /\ Len(Unread) = Len(stream) - (got + 1) + 1
          /\ \A j \in 1..(Len(stream) - (got + 1) + 1) :
               Unread[j] = stream[got + 1 + j - 1]
      BY <1>1, <2>1, Part DEF Unread
    <2> QED BY <1>1, <2>2
  <1>4. /\ SubSeq(stream, 1, got) \in Seq(Symbol) /\ Len(SubSeq(stream, 1, got)) = got
        /\ \A j \in 1..got : SubSeq(stream, 1, got)[j] = stream[j]
    <2>1. 1 \in 1..(Len(stream) + 1) /\ got \in 0..Len(stream) /\ 1 <= got + 1
      BY <1>1
    <2>2. /\ SubSeq(stream, 1, got) \in Seq(Symbol)
          /\ Len(SubSeq(stream, 1, got)) = got - 1 + 1
          /\ \A j \in 1..(got - 1 + 1) : SubSeq(stream, 1, got)[j] = stream[1 + j - 1]
      BY <1>1, <2>1, Part
    <2> QED BY <1>1, <2>2
  <1> QED BY <1>1, <1>2, <1>3, <1>4

\* A NUL was received if there is one among what recv has returned.
LEMMA IntactIs ==
  ASSUME FrInv
  PROVE  Intact <=> \A j \in 1..got : stream[j] # NUL
  BY Facts DEF Intact, NulIn

NextFacts ==
  /\ Unread \in Seq(Symbol) /\ Len(Unread) = Len(stream) - got
  /\ \A j \in 1..(Len(stream) - got) : Unread[j] = stream[got + j]
  /\ Intact <=> \A j \in 1..got : stream[j] # NUL

LEMMA FactsNext == FrInv' => NextFacts'
  <1>1. FrInv => NextFacts
    BY Facts, IntactIs DEF NextFacts
  <1> QED BY <1>1, PTL

LEMMA WriteStep ==
  ASSUME FrInv, NEW s \in Symbol, Write(s)
  PROVE  FrInv' /\ Order!Written(s)
  <1>1. /\ Len(stream) < MaxStream /\ stream' = Append(stream, s)
        /\ UNCHANGED <<got, cuts, inBuffer, rest, handled, phase>>
    BY DEF Write
  <1>2. /\ stream \in Seq(Symbol) /\ Len(stream) \in Nat /\ got \in 0..Len(stream)
        /\ rest \in Seq(Symbol) /\ Unread \in Seq(Symbol)
        /\ Len(Unread) = Len(stream) - got
        /\ \A j \in 1..(Len(stream) - got) : Unread[j] = stream[got + j]
    BY Facts
  <1>3. /\ stream' \in Seq(Symbol) /\ Len(stream') = Len(stream) + 1
        /\ \A j \in 1..Len(stream) : stream'[j] = stream[j]
        /\ stream'[Len(stream) + 1] = s
    BY <1>1, <1>2, AppendProperties
  <1>4. FrInv'
    <2>1. MaxStream \in Nat
      BY FramingAssumption
    <2>2. Len(stream') <= MaxStream /\ got' \in 0..Len(stream')
      BY <1>1, <1>2, <1>3, <2>1
    <2>3. FrTypeOK'
      BY <1>1, <1>3, <2>2 DEF FrInv, FrTypeOK
    <2>4. NothingKept'
      BY <1>1 DEF FrInv, NothingKept
    <2> QED BY <2>3, <2>4 DEF FrInv
  <1>5. Todo' = Append(Todo, s)
    <2>1. /\ Unread' \in Seq(Symbol) /\ Len(Unread') = Len(stream') - got
          /\ \A j \in 1..(Len(stream') - got) : Unread'[j] = stream'[got + j]
      BY <1>1, <1>4, FactsNext DEF NextFacts
    <2>2. /\ Append(Unread, s) \in Seq(Symbol)
          /\ Len(Append(Unread, s)) = Len(Unread) + 1
          /\ \A j \in 1..Len(Unread) : Append(Unread, s)[j] = Unread[j]
          /\ Append(Unread, s)[Len(Unread) + 1] = s
      BY <1>2, AppendProperties
    <2>3. Unread' = Append(Unread, s)
      <3>1. Len(Unread') = Len(Append(Unread, s))
        BY <1>2, <1>3, <2>1, <2>2
      <3>2. ASSUME NEW j \in 1..Len(Unread') PROVE Unread'[j] = Append(Unread, s)[j]
        <4>1. CASE j <= Len(Unread)
          BY <1>2, <1>3, <2>1, <2>2, <4>1
        <4>2. CASE j = Len(Unread) + 1
          <5>1. got + j = Len(stream) + 1
            BY <1>2, <4>2
          <5> QED BY <1>2, <1>3, <2>1, <2>2, <4>2, <5>1
        <4>3. j <= Len(Unread) \/ j = Len(Unread) + 1
          BY <1>2, <1>3, <2>1
        <4> QED BY <4>1, <4>2, <4>3
      <3> QED BY <2>1, <2>2, <3>1, <3>2, SeqEqual
    <2>4. Append(Unread, s) = Unread \o <<s>> /\ <<s>> \in Seq(Symbol)
      BY <1>2, AppendIsConcat
    <2>5. rest \o (Unread \o <<s>>) = (rest \o Unread) \o <<s>>
      BY <1>2, <2>4, ConcatAssociative
    <2>6. rest \o Unread \in Seq(Symbol)
      BY <1>2, ConcatProperties
    <2>7. Append(rest \o Unread, s) = (rest \o Unread) \o <<s>>
      BY <2>6, AppendIsConcat
    <2> QED BY <1>1, <2>3, <2>4, <2>5, <2>7 DEF Todo
  <1>6. Intact' <=> Intact
    <2>1. Intact' <=> \A j \in 1..got' : stream'[j] # NUL
      BY <1>4, FactsNext DEF NextFacts
    <2>2. Intact <=> \A j \in 1..got : stream[j] # NUL
      BY IntactIs
    <2>3. \A j \in 1..got : stream'[j] = stream[j]
      BY <1>2, <1>3, SMTT(30)
    <2> QED BY <1>1, <2>1, <2>2, <2>3
  <1> QED BY <1>1, <1>4, <1>5, <1>6 DEF Order!Written, Todo, Unread, Intact

\* What recv took moves to the lines to handle, and none of it is lost unless
\* the C string ended in it.
LEMMA ReceiveStep ==
  ASSUME FrInv, Receive
  PROVE  /\ FrInv' /\ handled' = handled
         /\ (Todo' = Todo /\ Intact' = Intact) \/ Order!Lost
  <1>1. PICK n \in 1..(BufferSize - 1) :
          /\ got + n <= Len(stream) /\ got' = got + n
          /\ inBuffer' = inBuffer \o Before(SubSeq(stream, got + 1, got + n), NUL)
    BY DEF Receive
  <1>2. /\ phase = "poll" /\ cuts' = cuts \cup {got'} /\ rest' = inBuffer'
        /\ phase' = "lines" /\ UNCHANGED <<stream, handled>>
    BY DEF Receive
  <1>3. /\ stream \in Seq(Symbol) /\ Len(stream) \in Nat /\ got \in 0..Len(stream)
        /\ Unread \in Seq(Symbol) /\ n \in Nat \ {0}
    BY Facts, FramingAssumption
  <1>4. inBuffer = <<>> /\ rest = <<>>
    BY <1>2 DEF FrInv, NothingKept
  <1> DEFINE P == SubSeq(stream, got + 1, got + n)
             b == Before(P, NUL)
  <1>5. P \in Seq(Symbol) /\ Len(P) = n /\ \A j \in 1..n : P[j] = stream[got + j]
    <2>1. /\ got + 1 \in 1..(Len(stream) + 1) /\ got + n \in 0..Len(stream)
          /\ got + 1 <= (got + n) + 1
      BY <1>1, <1>3
    <2>2. /\ P \in Seq(Symbol) /\ Len(P) = (got + n) - (got + 1) + 1
          /\ \A j \in 1..((got + n) - (got + 1) + 1) : P[j] = stream[got + 1 + j - 1]
      BY <1>3, <2>1, Part
    <2> HIDE DEF P
    <2> QED BY <1>3, <2>2
  <1>6. P \o Unread' = Unread
    <2>1. /\ got + 1 \in 1..(Len(stream) + 1)
          /\ got + n \in ((got + 1) - 1)..Len(stream)
          /\ Len(stream) \in (got + n)..Len(stream)
      BY <1>1, <1>3
    <2>2. P \o SubSeq(stream, (got + n) + 1, Len(stream)) =
            SubSeq(stream, got + 1, Len(stream))
      BY <1>3, <2>1, ConcatAdjacentSubSeq
    <2> QED BY <1>1, <1>2, <2>2 DEF Unread
  <1> HIDE DEF P
  <1>7. PICK k \in 0..Len(P) :
          /\ b = SubSeq(P, 1, k) /\ b \in Seq(Symbol \ {NUL})
          /\ \A j \in 1..k : P[j] # NUL
          /\ \/ k = Len(P) /\ b = P
             \/ k < Len(P) /\ P[k + 1] = NUL
    <2>1. P \in Seq(Symbol)
      BY <1>5
    <2>2. \E k \in 0..Len(P) : CutBehind(Symbol, P, NUL, k)
      BY <2>1, CutAt
    <2> QED BY <2>2 DEF CutBehind
  <1> HIDE DEF b
  <1>8. inBuffer' = b /\ rest' = b
    <2>1. inBuffer' = inBuffer \o b
      BY <1>1 DEF P, b
    <2>2. <<>> \o b = b
      BY <1>7, ConcatEmptySeq
    <2> QED BY <1>2, <1>4, <2>1, <2>2
  <1>9. FrInv'
    <2>1. got' \in 0..Len(stream') /\ got' \in 1..got' /\ 1..got \subseteq 1..got'
      BY <1>1, <1>2, <1>3
    <2>2. cuts' \subseteq 1..got'
      BY <1>2, <2>1 DEF FrInv, FrTypeOK
    <2>3. FrTypeOK'
      BY <1>2, <1>7, <1>8, <2>1, <2>2 DEF FrInv, FrTypeOK
    <2>4. NothingKept'
      BY <1>2 DEF NothingKept
    <2> QED BY <2>3, <2>4 DEF FrInv
  <1>10. Unread' \in Seq(Symbol) /\ (Intact' <=> \A j \in 1..got' : stream[j] # NUL)
    BY <1>2, <1>9, FactsNext DEF NextFacts
  <1>11. Todo = P \o Unread' /\ Todo' = b \o Unread'
    <2>1. <<>> \o Unread = Unread
      BY <1>3, ConcatEmptySeq
    <2> QED BY <1>4, <1>6, <1>8, <2>1 DEF Todo
  <1>12. CASE k = Len(P) /\ b = P
    <2>1. ASSUME NEW j \in 1..got', stream[j] = NUL PROVE j \in 1..got
      <3>1. CASE j > got
        <4>1. j - got \in 1..n /\ got + (j - got) = j
          BY <1>1, <1>3, <3>1
        <4>2. P[j - got] # NUL
          BY <1>5, <1>7, <1>12, <4>1
        <4> QED BY <1>5, <2>1, <4>1, <4>2
      <3> QED BY <1>1, <1>3, <3>1
    <2>2. 1..got \subseteq 1..got'
      BY <1>1, <1>3
    <2>3. Intact' <=> Intact
      BY <1>10, <2>1, <2>2, IntactIs
    <2>4. Intact' = Intact
      BY <2>3 DEF Intact
    <2> QED BY <1>2, <1>9, <1>11, <1>12, <2>4
  <1>13. CASE k < Len(P) /\ P[k + 1] = NUL
    <2>1. got + (k + 1) \in 1..got' /\ k + 1 \in 1..n
      BY <1>1, <1>3, <1>5, <1>7, <1>13
    <2>2. stream[got + (k + 1)] = NUL
      BY <1>5, <1>13, <2>1
    <2>3. ~Intact'
      BY <1>10, <2>1, <2>2
    <2>4. SubSeq(Todo, 1, k) = b
      BY <1>5, <1>7, <1>10, <1>11, CutInFirst
    <2>5. SubSeq(Todo, n + 1, Len(Todo)) = Unread'
      <3>1. n \in 0..Len(P)
        BY <1>3, <1>5
      <3>2. SubSeq(P \o Unread', n + 1, Len(P \o Unread')) =
              SubSeq(P, n + 1, Len(P)) \o Unread'
        BY <1>5, <1>10, <3>1, CutInFirst
      <3>3. SubSeq(P, n + 1, Len(P)) = <<>>
        <4>1. n + 1 \in Int /\ Len(P) \in Int /\ Len(P) < n + 1
          BY <1>3, <1>5
        <4> QED BY <4>1, SubSeqEmpty
      <3>4. <<>> \o Unread' = Unread'
        BY <1>10, ConcatEmptySeq
      <3> QED BY <1>11, <3>2, <3>3, <3>4
    <2>6. k \in 0..Len(Todo) /\ n \in 0..Len(Todo) /\ k <= n
      <3>1. Len(P \o Unread') = Len(P) + Len(Unread') /\ Len(Unread') \in Nat
        BY <1>5, <1>10, ConcatProperties, LenProperties
      <3> QED BY <1>3, <1>5, <1>7, <1>11, <1>13, <3>1
    <2>7. Todo' = SubSeq(Todo, 1, k) \o SubSeq(Todo, n + 1, Len(Todo))
      BY <1>11, <2>4, <2>5
    <2>8. Order!Lost
      BY <1>2, <2>3, <2>6, <2>7 DEF Order!Lost, Todo, Unread, Intact
    <2> QED BY <1>2, <1>9, <2>8
  <1> QED BY <1>7, <1>12, <1>13

\* A line is what stands before the first line end, or all that was read.
LEMMA LineStep ==
  ASSUME FrInv, HandleLine
  PROVE  FrInv' /\ \E n \in 0..Len(Todo) : Order!PieceHandled(n)
  <1> DEFINE cut == Before(rest, LF)
             piece == Chomp(cut)
  <1>1. /\ phase = "lines" /\ rest # <<>>
        /\ handled' = IF piece = <<>> THEN handled ELSE Append(handled, piece)
        /\ rest' = After(rest, LF)
        /\ UNCHANGED <<stream, got, cuts, inBuffer, phase>>
    BY DEF HandleLine
  <1>2. /\ rest \in Seq(Symbol \ {NUL}) /\ rest \in Seq(Symbol)
        /\ Unread \in Seq(Symbol)
    BY Facts
  <1>3. PICK n \in 0..Len(rest) :
          /\ cut = SubSeq(rest, 1, n) /\ cut \in Seq((Symbol \ {NUL}) \ {LF})
          /\ After(rest, LF) \in Seq(Symbol \ {NUL})
          /\ \A j \in 1..n : rest[j] # LF
          /\ \/ n = Len(rest) /\ After(rest, LF) = <<>>
             \/ /\ n < Len(rest) /\ rest[n + 1] = LF
                /\ After(rest, LF) = SubSeq(rest, n + 2, Len(rest))
    <2>1. rest \in Seq(Symbol \ {NUL})
      BY <1>2
    <2>2. \E n \in 0..Len(rest) : CutBehind(Symbol \ {NUL}, rest, LF, n)
      BY <2>1, CutAt
    <2> QED BY <2>2 DEF CutBehind
  <1> HIDE DEF cut
  <1>4. piece \in Seq((Symbol \ {NUL}) \ {LF}) /\ piece = Order!WithoutCR(cut)
    BY <1>3, ChompIs
  <1> HIDE DEF piece
  <1>5. FrInv'
    <2>1. handled' \in Seq(Seq(Symbol \ {NUL, LF}) \ {<<>>})
      <3>1. (Symbol \ {NUL}) \ {LF} = Symbol \ {NUL, LF}
        OBVIOUS
      <3>2. piece \in Seq(Symbol \ {NUL, LF})
        BY <1>4, <3>1
      <3>3. handled \in Seq(Seq(Symbol \ {NUL, LF}) \ {<<>>})
        BY DEF FrInv, FrTypeOK
      <3>4. CASE piece = <<>>
        BY <1>1, <3>3, <3>4
      <3>5. CASE piece # <<>>
        <4>1. piece \in Seq(Symbol \ {NUL, LF}) \ {<<>>}
          BY <3>2, <3>5
        <4> HIDE DEF FrInv
        <4>2. Append(handled, piece) \in Seq(Seq(Symbol \ {NUL, LF}) \ {<<>>})
          BY <3>3, <4>1, AppendProperties
        <4> QED BY <1>1, <3>5, <4>2
      <3> QED BY <3>4, <3>5
    <2>2. rest' \in Seq(Symbol \ {NUL})
      BY <1>1, <1>3
    <2>3. FrTypeOK'
      BY <1>1, <2>1, <2>2 DEF FrInv, FrTypeOK
    <2>4. NothingKept'
      BY <1>1 DEF NothingKept
    <2> QED BY <2>3, <2>4 DEF FrInv
  <1>6. /\ Len(Todo) = Len(rest) + Len(Unread)
        /\ Len(rest) \in Nat /\ Len(Unread) \in Nat
        /\ \A j \in 1..Len(rest) : Todo[j] = rest[j]
    BY <1>2, Whole DEF Todo
  <1>7. /\ SubSeq(Todo, 1, n) = cut
        /\ SubSeq(Todo, n + 1, Len(Todo)) = SubSeq(rest, n + 1, Len(rest)) \o Unread
    BY <1>2, <1>3, CutInFirst DEF Todo
  <1>8. n \in 0..Len(Todo) /\ \A j \in 1..n : Todo[j] # LF
    BY <1>3, <1>6
  <1> DEFINE end == IF n < Len(Todo) /\ Todo[n + 1] = LF THEN n + 1 ELSE n
  <1>9. Todo' = rest' \o Unread
    BY <1>1 DEF Todo, Unread
  <1>10. \E from \in {n, end} : Todo' = SubSeq(Todo, from + 1, Len(Todo))
    <2>1. CASE n = Len(rest) /\ After(rest, LF) = <<>>
      <3>1. SubSeq(rest, n + 1, Len(rest)) = <<>>
        <4>1. n + 1 \in Int /\ Len(rest) \in Int /\ Len(rest) < n + 1
          BY <1>6, <2>1
        <4> QED BY <4>1, SubSeqEmpty
      <3> QED BY <1>1, <1>7, <1>9, <2>1, <3>1
    <2>2. CASE /\ n < Len(rest) /\ rest[n + 1] = LF
               /\ After(rest, LF) = SubSeq(rest, n + 2, Len(rest))
      <3>1. n + 1 \in 0..Len(rest) /\ (n + 1) + 1 = n + 2
        BY <1>6, <2>2
      <3>2. SubSeq(Todo, (n + 1) + 1, Len(Todo)) =
              SubSeq(rest, (n + 1) + 1, Len(rest)) \o Unread
        BY <1>2, <3>1, CutInFirst DEF Todo
      <3>3. end = n + 1
        BY <1>6, <2>2, <3>1
      <3> HIDE DEF end
      <3>4. Todo' = SubSeq(Todo, end + 1, Len(Todo))
        BY <1>1, <1>9, <2>2, <3>1, <3>2, <3>3
      <3> QED BY <3>4
    <2> QED BY <1>3, <2>1, <2>2
  <1>11. /\ handled' = IF Order!WithoutCR(SubSeq(Todo, 1, n)) = <<>> THEN handled
                       ELSE Append(handled, Order!WithoutCR(SubSeq(Todo, 1, n)))
         /\ Intact' = Intact
    BY <1>1, <1>4, <1>7 DEF Intact
  <1>12. Order!PieceHandled(n)
    BY <1>8, <1>10, <1>11 DEF Order!PieceHandled, Todo, Unread, Intact
  <1> QED BY <1>5, <1>8, <1>12

\* The end of the loop and the removal leave the text alone.
LEMMA RestStep ==
  ASSUME FrInv, EndLines \/ RemoveClient
  PROVE  FrInv' /\ UNCHANGED <<Todo, handled, Intact>>
  <1>1. CASE EndLines
    <2>1. phase = "lines" /\ rest = <<>> /\ inBuffer' = <<>> /\ phase' = "poll"
      BY <1>1 DEF EndLines
    <2>2. UNCHANGED <<stream, got, cuts, rest, handled>>
      BY <1>1 DEF EndLines
    <2>3. <<>> \in Seq(Symbol \ {NUL})
      OBVIOUS
    <2>4. FrTypeOK'
      BY <2>1, <2>2, <2>3 DEF FrInv, FrTypeOK
    <2>5. NothingKept'
      BY <2>1, <2>2 DEF NothingKept
    <2> QED BY <2>2, <2>4, <2>5 DEF FrInv, Todo, Unread, Intact
  <1>2. CASE RemoveClient
    <2>1. /\ phase = "poll" /\ phase' = "gone"
          /\ UNCHANGED <<stream, got, cuts, inBuffer, rest, handled>>
      BY <1>2 DEF RemoveClient
    <2>2. FrTypeOK'
      BY <2>1 DEF FrInv, FrTypeOK
    <2>3. NothingKept'
      BY <2>1 DEF FrInv, NothingKept
    <2> QED BY <2>1, <2>2, <2>3 DEF FrInv, Todo, Unread, Intact
  <1> QED BY <1>1, <1>2

LEMMA UnchangedStep ==
  ASSUME FrInv, UNCHANGED vars
  PROVE  FrInv' /\ UNCHANGED <<Todo, handled, Intact>>
  BY DEF vars, FrInv, FrTypeOK, NothingKept, Todo, Unread, Intact

LEMMA FrInit == Init => FrInv /\ Order!LineInit
  <1> SUFFICES ASSUME Init PROVE FrInv /\ Order!LineInit
    OBVIOUS
  <1>1. /\ stream = <<>> /\ got = 0 /\ cuts = {} /\ inBuffer = <<>>
        /\ rest = <<>> /\ handled = <<>> /\ phase = "poll"
    BY DEF Init
  <1>2. /\ <<>> \in Seq(Symbol) /\ <<>> \in Seq(Symbol \ {NUL}) /\ Len(<<>>) = 0
        /\ <<>> \in Seq(Seq(Symbol \ {NUL, LF}) \ {<<>>})
    OBVIOUS
  <1>3. MaxStream \in Nat
    BY FramingAssumption
  <1>4. FrTypeOK
    BY <1>1, <1>2, <1>3 DEF FrTypeOK
  <1>5. NothingKept
    BY <1>1 DEF NothingKept
  <1>6. FrInv
    BY <1>4, <1>5 DEF FrInv
  <1>7. Todo = <<>>
    <2>1. Unread \in Seq(Symbol) /\ Len(Unread) = 0
      BY <1>1, <1>2, <1>6, Facts
    <2>2. Unread = <<>>
      BY <2>1, EmptySeq
    <2>3. <<>> \o <<>> = <<>>
      BY ConcatEmptySeq, <1>2
    <2> QED BY <1>1, <2>2, <2>3 DEF Todo
  <1>8. Intact
    BY <1>1, <1>6, IntactIs
  <1> QED BY <1>1, <1>6, <1>7, <1>8 DEF Order!LineInit, Todo, Unread, Intact

LEMMA FrNext ==
  FrInv /\ [Next]_vars =>
    FrInv' /\ [Order!LineNext]_<<Todo, handled, Intact>>
  <1> SUFFICES ASSUME FrInv, [Next]_vars
               PROVE  FrInv' /\ [Order!LineNext]_<<Todo, handled, Intact>>
    OBVIOUS
  <1>1. ASSUME NEW s \in Symbol, Write(s)
        PROVE  FrInv' /\ Order!LineNext
    BY <1>1, WriteStep DEF Order!LineNext
  <1>2. CASE Receive
    BY <1>2, ReceiveStep DEF Order!LineNext
  <1>3. CASE HandleLine
    BY <1>3, LineStep DEF Order!LineNext, Todo, Unread
  <1>4. CASE EndLines \/ RemoveClient
    BY <1>4, RestStep
  <1>5. CASE UNCHANGED vars
    BY <1>5, UnchangedStep
  <1> QED BY <1>1, <1>2, <1>3, <1>4, <1>5 DEF Next

LEMMA FrInvariant == Spec => []FrInv
  <1>1. FrInv /\ [Next]_vars => FrInv'
    BY FrNext
  <1> QED BY FrInit, <1>1, PTL DEF Spec

-----------------------------------------------------------------------------
(* Whole lines *)

\* Nothing written so far says that the read that ended at p cut a line.
Spared(p) ==
  \/ stream[p] = LF
  \/ p = Len(stream)
  \/ stream[p + 1] = LF
  \/ /\ stream[p] # CR /\ stream[p + 1] = CR
     /\ p + 1 = Len(stream) \/ stream[p + 2] = LF

Undamaged == (\A p \in cuts : Spared(p)) /\ Intact

\* How much of the stream has been handled, and that getline is in step there.
Pos == got - Len(rest)

InStep ==
  /\ Pos \in Nat /\ rest = SubSeq(stream, Pos + 1, got)
  /\ Pos = 0 \/ stream[Pos] = LF \/ Pos \in cuts
  /\ handled = Pieces(stream, Pos)

\* What FrInv lacks for WholeLines.
WholeInv ==
  /\ got = 0 \/ got \in cuts
  /\ Undamaged => InStep

LEMMA WriteWhole ==
  ASSUME FrInv, WholeInv, NEW s \in Symbol, Write(s)
  PROVE  WholeInv'
  <1>1. stream' = Append(stream, s) /\ UNCHANGED <<got, cuts, rest, handled>>
    BY DEF Write
  <1>2. /\ stream \in Seq(Symbol) /\ Len(stream) \in Nat /\ got \in 0..Len(stream)
        /\ cuts \subseteq 1..got /\ rest \in Seq(Symbol) /\ Len(rest) \in Nat
    BY Facts, LenProperties DEF FrInv, FrTypeOK
  <1>3. /\ stream' \in Seq(Symbol) /\ Len(stream') = Len(stream) + 1
        /\ \A j \in 1..Len(stream) : stream'[j] = stream[j]
    BY <1>1, <1>2, AppendProperties
  <1>4. ASSUME Undamaged' PROVE InStep'
    <2>1. Intact
      <3>1. FrInv'
        BY WriteStep
      <3>2. \A j \in 1..got : stream'[j] # NUL
        BY <1>1, <1>4, <3>1, FactsNext DEF NextFacts, Undamaged
      <3>3. \A j \in 1..got : j \in 1..Len(stream)
        BY <1>2
      <3> QED BY <1>3, <3>2, <3>3, IntactIs
    <2>2. ASSUME NEW p \in cuts PROVE Spared(p)
      <3>1. p \in 1..Len(stream) /\ p # Len(stream')
        BY <1>2, <1>3
      <3>2. Spared(p)'
        BY <1>1, <1>4 DEF Undamaged
      <3>3. CASE p = Len(stream)
        BY <3>3 DEF Spared
      <3>4. CASE p # Len(stream)
        <4>1. p + 1 \in 1..Len(stream) /\ p + 1 # Len(stream')
          BY <1>2, <1>3, <3>1, <3>4
        <4>2. stream'[p] = stream[p] /\ stream'[p + 1] = stream[p + 1]
          BY <1>3, <3>1, <4>1
        <4>3. p + 1 = Len(stream) \/ stream'[p + 2] = stream[p + 2]
          <5>1. p + 1 = Len(stream) \/ p + 2 \in 1..Len(stream)
            BY <1>2, <4>1
          <5> QED BY <1>3, <5>1
        <4> QED BY <3>1, <3>2, <4>1, <4>2, <4>3 DEF Spared
      <3> QED BY <3>3, <3>4
    <2>3. InStep
      BY <2>1, <2>2 DEF WholeInv, Undamaged
    <2>4. Pos' = Pos /\ Pos \in 0..got /\ Pos \in 0..Len(stream)
      BY <1>1, <1>2, <2>3 DEF Pos, InStep
    <2>5. SubSeq(stream', Pos + 1, got) = SubSeq(stream, Pos + 1, got)
      <3>1. /\ Pos + 1 \in 1..(Len(stream) + 1) /\ Pos + 1 \in 1..(Len(stream') + 1)
            /\ got \in 0..Len(stream') /\ Pos + 1 <= got + 1
        BY <1>2, <1>3, <2>4
      <3>2. /\ SubSeq(stream, Pos + 1, got) \in Seq(Symbol)
            /\ Len(SubSeq(stream, Pos + 1, got)) = got - (Pos + 1) + 1
            /\ \A j \in 1..(got - (Pos + 1) + 1) :
                 SubSeq(stream, Pos + 1, got)[j] = stream[Pos + 1 + j - 1]
        BY <1>2, <3>1, Part
      <3>3. /\ SubSeq(stream', Pos + 1, got) \in Seq(Symbol)
            /\ Len(SubSeq(stream', Pos + 1, got)) = got - (Pos + 1) + 1
            /\ \A j \in 1..(got - (Pos + 1) + 1) :
                 SubSeq(stream', Pos + 1, got)[j] = stream'[Pos + 1 + j - 1]
        BY <1>3, <3>1, Part
      <3>4. \A j \in 1..(got - (Pos + 1) + 1) : Pos + 1 + j - 1 \in 1..Len(stream)
        BY <1>2, <2>4
      <3>5. \A j \in 1..(got - (Pos + 1) + 1) :
              SubSeq(stream', Pos + 1, got)[j] = SubSeq(stream, Pos + 1, got)[j]
        BY <1>3, <3>2, <3>3, <3>4
      <3> HIDE DEF Pos
      <3> QED BY <3>2, <3>3, <3>5, SeqEqual
    <2>6. Pos = 0 \/ stream'[Pos] = stream[Pos]
      BY <1>2, <1>3, <2>4
    <2>7. Pieces(stream', Pos) = Pieces(stream, Pos)
      <3>1. \A j \in 1..Pos : stream[j] = stream'[j]
        BY <1>2, <1>3, <2>4
      <3>2. Pos <= Len(stream')
        BY <1>2, <1>3, <2>4
      <3> QED BY <1>2, <1>3, <2>4, <3>1, <3>2, PiecesSame
    <2> QED BY <1>1, <2>3, <2>4, <2>5, <2>6, <2>7 DEF InStep
  <1> QED BY <1>1, <1>4 DEF WholeInv

LEMMA Middle ==
  ASSUME NEW s \in Seq(Symbol), NEW p \in 0..Len(s), NEW n \in p..Len(s)
  PROVE  /\ SubSeq(s, p + 1, n) \in Seq(Symbol) /\ Len(SubSeq(s, p + 1, n)) = n - p
         /\ \A j \in 1..(n - p) : SubSeq(s, p + 1, n)[j] = s[p + j]
  <1>1. /\ Len(s) \in Nat /\ p + 1 \in 1..(Len(s) + 1) /\ n \in 0..Len(s)
        /\ p + 1 <= n + 1 /\ n - (p + 1) + 1 = n - p
    BY LenProperties
  <1>2. /\ SubSeq(s, p + 1, n) \in Seq(Symbol)
        /\ Len(SubSeq(s, p + 1, n)) = n - (p + 1) + 1
        /\ \A j \in 1..(n - (p + 1) + 1) : SubSeq(s, p + 1, n)[j] = s[p + 1 + j - 1]
    BY <1>1, Part
  <1>3. \A j \in 1..(n - p) : p + 1 + j - 1 = p + j
    BY <1>1
  <1> QED BY <1>1, <1>2, <1>3

\* A part of a part.
LEMMA MiddleOf ==
  ASSUME NEW s \in Seq(Symbol), NEW p \in 0..Len(s), NEW n \in p..Len(s),
         NEW a \in 0..(n - p), NEW b \in a..(n - p)
  PROVE  SubSeq(SubSeq(s, p + 1, n), a + 1, b) = SubSeq(s, (p + a) + 1, p + b)
  <1> DEFINE m == SubSeq(s, p + 1, n)
  <1>1. Len(s) \in Nat /\ n \in Nat /\ p \in Nat /\ a \in Nat /\ b \in Nat
    BY LenProperties
  <1>2. m \in Seq(Symbol) /\ Len(m) = n - p /\ \A j \in 1..(n - p) : m[j] = s[p + j]
    BY Middle
  <1> HIDE DEF m
  <1>3. /\ SubSeq(m, a + 1, b) \in Seq(Symbol) /\ Len(SubSeq(m, a + 1, b)) = b - a
        /\ \A j \in 1..(b - a) : SubSeq(m, a + 1, b)[j] = m[a + j]
    <2>1. a \in 0..Len(m) /\ b \in a..Len(m)
      BY <1>2
    <2> QED BY <1>2, <2>1, Middle
  <1>4. /\ SubSeq(s, (p + a) + 1, p + b) \in Seq(Symbol)
        /\ Len(SubSeq(s, (p + a) + 1, p + b)) = b - a
        /\ \A j \in 1..(b - a) : SubSeq(s, (p + a) + 1, p + b)[j] = s[(p + a) + j]
    <2>1. /\ p + a \in 0..Len(s) /\ p + b \in (p + a)..Len(s)
          /\ (p + b) - (p + a) = b - a
      BY <1>1
    <2> DEFINE x == p + a
               y == p + b
    <2>2. x \in 0..Len(s) /\ y \in x..Len(s) /\ y - x = b - a
      BY <2>1
    <2> HIDE DEF x, y
    <2>3. /\ SubSeq(s, x + 1, y) \in Seq(Symbol) /\ Len(SubSeq(s, x + 1, y)) = y - x
          /\ \A j \in 1..(y - x) : SubSeq(s, x + 1, y)[j] = s[x + j]
      BY <2>2, Middle
    <2> QED BY <2>2, <2>3 DEF x, y
  <1>5. ASSUME NEW j \in 1..(b - a)
        PROVE  SubSeq(m, a + 1, b)[j] = SubSeq(s, (p + a) + 1, p + b)[j]
    <2>1. a + j \in 1..(n - p) /\ p + (a + j) = (p + a) + j
      BY <1>1
    <2>2. m[a + j] = s[p + (a + j)]
      BY <1>2, <2>1
    <2> QED BY <1>3, <1>4, <2>1, <2>2
  <1>6. SubSeq(m, a + 1, b) = SubSeq(s, (p + a) + 1, p + b)
    BY <1>3, <1>4, <1>5, SeqEqual
  <1> QED BY <1>6 DEF m

LEMMA ReceiveWhole ==
  ASSUME FrInv, WholeInv, Receive
  PROVE  WholeInv'
  <1>1. PICK n \in 1..(BufferSize - 1) :
          /\ got + n <= Len(stream) /\ got' = got + n
          /\ inBuffer' = inBuffer \o Before(SubSeq(stream, got + 1, got + n), NUL)
    BY DEF Receive
  <1>2. /\ phase = "poll" /\ cuts' = cuts \cup {got'} /\ rest' = inBuffer'
        /\ UNCHANGED <<stream, handled>>
    BY DEF Receive
  <1>3. /\ stream \in Seq(Symbol) /\ Len(stream) \in Nat /\ got \in 0..Len(stream)
        /\ n \in Nat \ {0}
    BY Facts, FramingAssumption
  <1>4. inBuffer = <<>> /\ rest = <<>>
    BY <1>2 DEF FrInv, NothingKept
  <1> DEFINE P == SubSeq(stream, got + 1, got')
  <1>5. /\ got' \in got..Len(stream) /\ got' - got = n /\ got \in Nat
    BY <1>1, <1>3
  <1>6. P \in Seq(Symbol) /\ Len(P) = n /\ \A j \in 1..n : P[j] = stream[got + j]
    BY <1>3, <1>5, Middle
  <1>7. rest' = Before(P, NUL)
    <2>1. rest' = <<>> \o Before(P, NUL)
      BY <1>1, <1>2, <1>4
    <2>2. Before(P, NUL) \in Seq(Symbol \ {NUL})
      BY <1>6, CutAt DEF CutBehind
    <2> QED BY <2>1, <2>2, ConcatEmptySeq
  <1> HIDE DEF P
  <1>8. ASSUME Undamaged' PROVE InStep'
    <2>1. \A j \in 1..got' : stream[j] # NUL
      BY <1>2, <1>8, ReceiveStep, FactsNext DEF NextFacts, Undamaged
    <2>2. Undamaged
      <3>1. 1..got \subseteq 1..got'
        BY <1>3, <1>5
      <3>2. Intact
        BY <2>1, <3>1, IntactIs
      <3>3. \A p \in cuts : Spared(p)
        BY <1>2, <1>8 DEF Undamaged, Spared
      <3> QED BY <3>2, <3>3 DEF Undamaged
    <2>3. Len(rest) = 0
      BY <1>4
    <2>4. Pos = got /\ handled = Pieces(stream, got)
      BY <1>3, <2>2, <2>3 DEF WholeInv, InStep, Pos
    <2>5. rest' = P
      <3>1. ASSUME NEW k \in 1..Len(P) PROVE P[k] # NUL
        <4>1. k \in 1..n
          BY <1>6
        <4>2. got + k \in 1..got'
          BY <1>1, <1>3, <4>1
        <4> QED BY <1>6, <2>1, <4>1, <4>2
      <3> QED BY <1>6, <1>7, <3>1, SplitAt
    <2>6. Pos' = got
      BY <1>5, <1>6, <2>5 DEF Pos
    <2>7. got = 0 \/ got \in cuts'
      BY <1>2 DEF WholeInv
    <2> QED BY <1>2, <1>5, <2>4, <2>5, <2>6, <2>7 DEF InStep, P
  <1> QED BY <1>2, <1>8 DEF WholeInv

\* getline goes on where it was in step and is in step behind the piece.
LEMMA LineWhole ==
  ASSUME FrInv, WholeInv, HandleLine
  PROVE  WholeInv'
  <1> DEFINE cut == Before(rest, LF)
             p == Pos
  <1>1. /\ rest # <<>> /\ handled' = Another(handled, Chomp(cut))
        /\ rest' = After(rest, LF) /\ UNCHANGED <<stream, got, cuts>>
    BY DEF HandleLine, Another
  <1>2. /\ stream \in Seq(Symbol) /\ Len(stream) \in Nat /\ got \in 0..Len(stream)
        /\ rest \in Seq(Symbol)
    BY Facts
  <1>3. PICK n \in 0..Len(rest) :
          /\ cut = SubSeq(rest, 1, n) /\ \A j \in 1..n : rest[j] # LF
          /\ \/ n = Len(rest) /\ rest' = <<>>
             \/ /\ n < Len(rest) /\ rest[n + 1] = LF
                /\ rest' = SubSeq(rest, n + 2, Len(rest))
    <2>1. \E n \in 0..Len(rest) : CutBehind(Symbol, rest, LF, n)
      BY <1>2, CutAt
    <2> QED BY <1>1, <2>1 DEF CutBehind
  <1> HIDE DEF cut
  <1>4. ASSUME Undamaged' PROVE InStep'
    <2>0. n \in Nat
      BY <1>2, LenProperties
    <2>1. Undamaged
      BY <1>1, <1>4 DEF Undamaged, Spared, Intact
    <2>2. /\ p \in Nat /\ rest = SubSeq(stream, p + 1, got) /\ handled = Pieces(stream, p)
          /\ p = 0 \/ stream[p] = LF \/ p \in cuts
      BY <2>1 DEF WholeInv, InStep
    <2>3. Len(rest) \in Nat /\ Len(rest) # 0 /\ p = got - Len(rest)
      BY <1>1, <1>2, EmptySeq DEF Pos
    <2> HIDE DEF p
    <2> DEFINE len == Len(rest)
    <2>4. /\ p \in 0..Len(stream) /\ got \in p..Len(stream) /\ p < got
          /\ got - p = len /\ len \in Nat /\ p \in Nat
      BY <1>2, <2>2, <2>3
    <2>15. n <= len
      BY <2>4
    <2>5. \A j \in 1..Len(rest) : rest[j] = stream[p + j]
      BY <1>2, <2>2, <2>4, Middle
    <2>6. cut = SubSeq(stream, p + 1, p + n)
      <3>1. SubSeq(rest, 0 + 1, n) = SubSeq(stream, (p + 0) + 1, p + n)
        <4>1. 0 \in 0..(got - p) /\ n \in 0..(got - p)
          BY <2>3, <2>4
        <4> QED BY <1>2, <2>2, <2>4, <4>1, MiddleOf
      <3>2. 0 + 1 = 1 /\ (p + 0) + 1 = p + 1
        BY <2>2
      <3> QED BY <1>3, <3>1, <3>2
    <2>7. \A j \in (p + 1)..(p + n) : stream[j] # LF
      <3> SUFFICES ASSUME NEW j \in (p + 1)..(p + n) PROVE stream[j] # LF
        OBVIOUS
      <3>1. p \in Nat /\ n <= len /\ len \in Nat
        BY <2>4, <2>15
      <3>2. j - p \in 1..n /\ p + (j - p) = j
        BY <2>0, <3>1
      <3>3. j - p \in 1..len
        BY <2>0, <3>1, <3>2
      <3> QED BY <1>3, <2>5, <3>2, <3>3
    <2>8. /\ p + n \in p..Len(stream) /\ p + n \in 0..Len(stream)
      BY <1>2, <2>3, <2>4
    \* Where the next piece starts.
    <2> DEFINE q == IF n = Len(rest) THEN got ELSE (p + n) + 1
    <2>9. q \in 1..got /\ (q = got \/ stream[q] = LF)
      <3>1. CASE n = Len(rest)
        BY <2>2, <2>4, <3>1
      <3>2. CASE n # Len(rest)
        <4>1. n < Len(rest) /\ rest[n + 1] = LF /\ n + 1 \in 1..Len(rest)
          BY <1>3, <2>3, <3>2
        <4>2. stream[p + (n + 1)] = LF
          BY <2>5, <4>1
        <4>3. p + (n + 1) = (p + n) + 1 /\ (p + n) + 1 \in 1..got
          BY <1>2, <2>0, <2>4, <4>1
        <4> QED BY <3>2, <4>2, <4>3
      <3> QED BY <3>1, <3>2
    <2>10. rest' = SubSeq(stream, q + 1, got) /\ Len(rest') = got - q
      <3>1. Len(SubSeq(stream, q + 1, got)) = got - q
        <4> HIDE DEF q
        <4>1. q \in 0..Len(stream) /\ got \in q..Len(stream)
          BY <1>2, <2>9
        <4> QED BY <1>2, <4>1, Middle
      <3>2. CASE n = Len(rest)
        <4>1. rest' = <<>> /\ q = got
          BY <1>3, <2>3, <3>2
        <4>2. SubSeq(stream, got + 1, got) = <<>>
          <5>1. got + 1 \in Int /\ got \in Int /\ got < got + 1
            BY <1>2
          <5> QED BY <5>1, SubSeqEmpty
        <4> QED BY <3>1, <4>1, <4>2
      <3>3. CASE n # Len(rest)
        <4>1. n < Len(rest) /\ rest' = SubSeq(rest, n + 2, Len(rest)) /\ q = (p + n) + 1
          BY <1>3, <2>3, <3>3
        <4>0. n < len
          BY <4>1
        <4>2. SubSeq(rest, (n + 1) + 1, got - p) =
                SubSeq(stream, (p + (n + 1)) + 1, p + (got - p))
          <5>1. n + 1 \in 0..(got - p) /\ got - p \in (n + 1)..(got - p)
            BY <2>0, <2>4, <4>0
          <5> QED BY <1>2, <2>2, <2>4, <5>1, MiddleOf
        <4>3. (n + 1) + 1 = n + 2 /\ p + (n + 1) = q /\ p + (got - p) = got
          BY <1>2, <2>0, <2>4, <4>1
        <4> HIDE DEF q
        <4> QED BY <2>4, <3>1, <4>1, <4>2, <4>3
      <3> QED BY <3>2, <3>3
    <2>11. Pieces(stream, q) = Pieces(stream, p + n)
      <3>1. CASE n = Len(rest)
        <4>1. q = p + n
          BY <1>2, <2>2, <2>4, <3>1
        <4> QED BY <4>1
      <3>2. CASE n # Len(rest)
        <4>1. q = (p + n) + 1 /\ q - 1 = p + n /\ q # p + n
          BY <2>0, <2>4, <3>2
        <4> HIDE DEF q
        <4>2. q \in 1..Len(stream)
          BY <1>2, <2>9
        <4>3. stream[q] = LF
          <5>1. n < Len(rest) /\ rest[n + 1] = LF /\ n + 1 \in 1..Len(rest)
            BY <1>3, <2>3, <3>2
          <5>2. p + (n + 1) = q
            BY <2>0, <2>4, <4>1
          <5> QED BY <2>5, <5>1, <5>2
        <4> QED BY <1>2, <4>1, <4>2, <4>3, PiecesOverEnd
      <3> QED BY <3>1, <3>2
    <2> HIDE DEF q
    <2>12. handled' = Pieces(stream, p + n)
      <3>1. CASE p = 0 \/ stream[p] = LF
        BY <1>1, <1>2, <2>2, <2>4, <2>6, <2>7, <2>8, <3>1, PiecesOverLine
      <3>2. CASE p # 0 /\ stream[p] # LF
        <4>1. Spared(p) /\ p \in 1..Len(stream) /\ p + 1 \in 1..Len(stream)
              /\ p # Len(stream)
          BY <1>2, <2>1, <2>2, <2>4, <3>2 DEF Undamaged
        <4>2. rest[1] = stream[p + 1]
          BY <2>3, <2>5
        <4>3. CASE stream[p + 1] = LF
          <5>1. n = 0
            <6>1. n # 0 => 1 \in 1..n
              BY <2>3
            <6> QED BY <1>3, <4>2, <4>3, <6>1
          <5>2. cut = <<>>
            <6>1. 1 \in Int /\ 0 \in Int /\ 0 < 1
              OBVIOUS
            <6> QED BY <1>3, <5>1, <6>1, SubSeqEmpty
          <5>3. handled' = handled /\ p + n = p
            BY <1>1, <2>2, <5>1, <5>2, Chomps DEF Another
          <5> QED BY <2>2, <5>3
        <4>4. CASE stream[p + 1] # LF
          <5>1. /\ stream[p] # CR /\ stream[p + 1] = CR
                /\ p + 1 = Len(stream) \/ stream[p + 2] = LF
            BY <3>2, <4>1, <4>4 DEF Spared
          <5>2. n = 1
            <6>1. n # 0
              BY <1>3, <2>3, <4>2, <4>4
            <6>2. ASSUME n > 1 PROVE FALSE
              <7>1. 2 \in 1..n /\ 2 \in 1..Len(rest) /\ p + 2 <= got
                BY <2>3, <2>4, <6>2
              <7>2. stream[p + 2] # LF
                BY <1>3, <2>5, <7>1
              <7> QED BY <1>2, <2>4, <5>1, <7>1, <7>2
            <6> QED BY <2>3, <6>1, <6>2
          <5>3. cut = <<CR>>
            <6>1. SubSeq(rest, 1, 1) = <<rest[1]>>
              <7>1. 1 \in 1..Len(rest) /\ 1 \in 1..(Len(rest) + 1) /\ 1 <= 1 + 1
                BY <2>3
              <7>2. /\ SubSeq(rest, 1, 1) \in Seq(Symbol)
                    /\ Len(SubSeq(rest, 1, 1)) = 1 - 1 + 1
                    /\ \A j \in 1..(1 - 1 + 1) : SubSeq(rest, 1, 1)[j] = rest[1 + j - 1]
                BY <1>2, <7>1, Part
              <7>3. <<rest[1]>> \in Seq(Symbol) /\ Len(<<rest[1]>>) = 1
                BY <1>2, <7>1, ElementOfSeq
              <7>4. SubSeq(rest, 1, 1)[1] = rest[1] /\ Len(SubSeq(rest, 1, 1)) = 1
                BY <7>2
              <7>5. \A j \in 1..1 : SubSeq(rest, 1, 1)[j] = <<rest[1]>>[j]
                BY <7>4
              <7> QED BY <7>2, <7>3, <7>4, <7>5, SeqEqual
            <6> QED BY <1>3, <4>2, <5>1, <5>2, <6>1
          <5>4. handled' = handled
            BY <1>1, <5>3, Chomps DEF Another
          <5>5. Pieces(stream, p + 1) = Pieces(stream, p)
            BY <1>2, <3>2, <4>1, <5>1, PiecesOverCR
          <5> QED BY <2>2, <5>2, <5>4, <5>5
        <4> QED BY <4>3, <4>4
      <3> QED BY <3>1, <3>2
    <2>13. Pos' = q
      BY <1>1, <1>2, <2>9, <2>10 DEF Pos
    <2>14. got # 0
      BY <2>2, <2>4
    <2> QED BY <1>1, <2>9, <2>10, <2>11, <2>12, <2>13, <2>14 DEF InStep, WholeInv
  <1> QED BY <1>1, <1>4 DEF WholeInv

LEMMA RestWhole ==
  ASSUME FrInv, WholeInv, EndLines \/ RemoveClient \/ UNCHANGED vars
  PROVE  WholeInv'
  <1>1. UNCHANGED <<stream, got, cuts, rest, handled>>
    BY DEF EndLines, RemoveClient, vars
  <1>2. UNCHANGED <<Undamaged, InStep>>
    BY <1>1 DEF Undamaged, Spared, Intact, InStep, Pos
  <1> QED BY <1>1, <1>2 DEF WholeInv

LEMMA WholeInit == Init => WholeInv
  <1> SUFFICES ASSUME Init PROVE WholeInv
    OBVIOUS
  <1>1. stream = <<>> /\ got = 0 /\ rest = <<>> /\ handled = <<>>
    BY DEF Init
  <1>2. <<>> \in Seq(Symbol) /\ Len(<<>>) = 0
    OBVIOUS
  <1>3. Pos = 0
    <2>1. got = 0 /\ Len(rest) = 0
      BY <1>1, <1>2
    <2> QED BY <2>1 DEF Pos
  <1>4. Pieces(<<>>, 0) = <<>>
    <2>1. 0 \in 0..Len(<<>>)
      BY <1>2
    <2> QED BY <1>2, <2>1, PiecesAtEnd, LinesToNext
  <1>5. SubSeq(<<>>, 0 + 1, 0) = <<>>
    OBVIOUS
  <1>6. InStep
    <2> HIDE DEF Pos
    <2> QED BY <1>1, <1>3, <1>4, <1>5 DEF InStep
  <1> QED BY <1>1, <1>6 DEF WholeInv

LEMMA WholeInvariant == Spec => [](FrInv /\ WholeInv)
  <1>1. FrInv /\ WholeInv /\ [Next]_vars => FrInv' /\ WholeInv'
    <2> SUFFICES ASSUME FrInv, WholeInv, [Next]_vars
                 PROVE  FrInv' /\ WholeInv'
      OBVIOUS
    <2>1. FrInv'
      BY FrNext
    <2>2. ASSUME NEW s \in Symbol, Write(s) PROVE WholeInv'
      BY <2>2, WriteWhole
    <2>3. CASE Receive
      BY <2>1, <2>3, ReceiveWhole
    <2>4. CASE HandleLine
      BY <2>1, <2>4, LineWhole
    <2>5. CASE EndLines \/ RemoveClient \/ UNCHANGED vars
      BY <2>1, <2>5, RestWhole
    <2> QED BY <2>1, <2>2, <2>3, <2>4, <2>5 DEF Next
  <1> QED BY FrInit, WholeInit, <1>1, PTL DEF Spec

\* Where reads have ended harmlessly, the client's lines go on from what is
\* handled.
LEMMA WholeIs ==
  ASSUME FrInv, WholeInv
  PROVE  WholeLines
  <1> SUFFICES ASSUME \A p \in cuts : Harmless(p), ~NulIn(stream)
               PROVE  /\ IsPrefix(handled, Lines(stream))
                      /\ phase = "poll" => IsPrefix(Lines(SubSeq(stream, 1, got)), handled)
    BY DEF WholeLines
  <1>1. /\ stream \in Seq(Symbol) /\ Len(stream) \in Nat /\ got \in 0..Len(stream)
        /\ rest \in Seq(Symbol) /\ Len(rest) \in Nat /\ cuts \subseteq 1..got
    BY Facts, LenProperties DEF FrInv, FrTypeOK
  <1>2. Undamaged
    <2>1. \A j \in 1..got : stream[j] # NUL
      <3>1. 1..got \subseteq 1..Len(stream)
        BY <1>1
      <3> QED BY <3>1 DEF NulIn
    <2>2. Intact
      BY <2>1, IntactIs
    <2>3. \A p \in cuts : Harmless(p) => Spared(p)
      BY DEF Harmless, Spared
    <2> QED BY <2>2, <2>3 DEF Undamaged
  <1>3. Pos \in Nat /\ (Pos = 0 \/ stream[Pos] = LF \/ Pos \in cuts)
        /\ handled = Pieces(stream, Pos)
    BY <1>2 DEF WholeInv, InStep
  <1>4. Pos \in 0..got /\ Pos \in 0..Len(stream) /\ Len(stream) \in Pos..Len(stream)
    BY <1>1, <1>3 DEF Pos
  <1>5. LinesTo(stream, Len(stream)) = Lines(stream)
    BY <1>1, LinesToNext
  <1>6. IsPrefix(handled, Lines(stream))
    <2> HIDE DEF Pos
    <2>1. CASE Pos = 0 \/ stream[Pos] = LF
      <3>1. handled = LinesTo(stream, Pos)
        BY <1>1, <1>3, <1>4, <2>1, PiecesAtEnd
      <3> QED BY <1>1, <1>4, <1>5, <3>1, LinesGrow
    <2>2. CASE Pos # 0 /\ stream[Pos] # LF
      <3>1. Pos \in cuts /\ Harmless(Pos)
        BY <1>3, <2>2
      <3>2. CASE Pos + 1 <= Len(stream) /\ stream[Pos + 1] = LF
        <4> DEFINE q == Pos + 1
        <4>1. q \in 1..Len(stream) /\ q \in 0..Len(stream) /\ q - 1 = Pos
              /\ Len(stream) \in q..Len(stream)
          BY <1>1, <1>4, <3>2
        <4>2. stream[q] = LF
          BY <3>2
        <4> HIDE DEF q
        <4>3. Pieces(stream, q) = Pieces(stream, Pos)
          BY <1>1, <4>1, <4>2, PiecesOverEnd
        <4>4. handled = LinesTo(stream, q)
          BY <1>1, <1>3, <4>1, <4>2, <4>3, PiecesAtEnd
        <4> QED BY <1>1, <1>5, <4>1, <4>4, LinesGrow
      <3>3. CASE /\ Pos + 2 <= Len(stream)
                 /\ stream[Pos] # CR /\ stream[Pos + 1] = CR /\ stream[Pos + 2] = LF
        <4> DEFINE q == Pos + 2
        <4>1. /\ q \in 1..Len(stream) /\ q \in 0..Len(stream) /\ q - 1 = Pos + 1
              /\ Len(stream) \in q..Len(stream)
              /\ Pos \in 1..Len(stream) /\ Pos + 1 \in 1..Len(stream)
          BY <1>1, <1>4, <2>2, <3>3
        <4>2. stream[q] = LF
          BY <3>3
        <4> HIDE DEF q
        <4>3. Pieces(stream, Pos + 1) = Pieces(stream, Pos)
          BY <1>1, <2>2, <3>3, <4>1, PiecesOverCR
        <4>4. Pieces(stream, q) = Pieces(stream, Pos + 1)
          BY <1>1, <4>1, <4>2, PiecesOverEnd
        <4>5. handled = LinesTo(stream, q)
          BY <1>1, <1>3, <4>1, <4>2, <4>3, <4>4, PiecesAtEnd
        <4> QED BY <1>1, <1>5, <4>1, <4>5, LinesGrow
      <3> QED BY <2>2, <3>1, <3>2, <3>3 DEF Harmless
    <2> QED BY <2>1, <2>2
  <1>7. ASSUME phase = "poll" PROVE IsPrefix(Lines(SubSeq(stream, 1, got)), handled)
    <2>1. rest = <<>>
      BY <1>7 DEF FrInv, NothingKept
    <2>2. Len(rest) = 0
      BY <2>1
    <2>3. Pos = got
      BY <1>1, <2>2 DEF Pos
    <2>4. IsPrefix(LinesTo(stream, got), Pieces(stream, got))
      BY <1>1, PiecesHoldLines
    <2> QED BY <1>3, <2>3, <2>4 DEF LinesTo
  <1> QED BY <1>6, <1>7

-----------------------------------------------------------------------------
(* Theorems *)

\* What _processMessage is given is never empty and holds no NUL and no line
\* end, no buffer of the server holds a NUL, and no more is taken than was
\* written: _handleClientInput with any size of buffer and any pieces of recv.
THEOREM FramingTypes == Spec => []FrTypeOK
  <1>1. FrInv => FrTypeOK
    BY DEF FrInv
  <1> QED BY FrInvariant, <1>1, PTL

\* Wherever the reads of _handleClientInput end, what it gives _processMessage
\* is the client's text in order, each symbol once, in pieces that never join
\* two lines; only a NUL loses any of it.
THEOREM TextIsHandledInOrder == Spec => TextInOrder
  <1>1. Init => Order!LineInit
    BY FrInit
  <1>2. FrInv /\ [Next]_vars => [Order!LineNext]_<<Todo, handled, Intact>>
    BY FrNext
  <1>3. FrInv /\ [Next]_vars =>
          [Order!LineNext]_<<rest \o SubSeq(stream, got + 1, Len(stream)), handled,
                             ~NulIn(SubSeq(stream, 1, got))>>
    BY <1>2 DEF Todo, Unread, Intact
  <1> QED BY FrInvariant, <1>1, <1>3, PTL DEF Spec, TextInOrder, Order!LineSpec

\* As long as no read of _handleClientInput ended inside a line and the client
\* sent no NUL, _processMessage is given the client's lines and nothing else,
\* and between two reads it has been given all that have arrived.
THEOREM LinesStayWhole == Spec => []WholeLines
  <1>1. FrInv /\ WholeInv => WholeLines
    BY WholeIs
  <1> QED BY WholeInvariant, <1>1, PTL
=============================================================================
