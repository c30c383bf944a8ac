--------------------------- MODULE Commands_proofs ---------------------------
(* Theorems about Commands, for every width of int and long, every line and  *)
(* all modes the channel may have: the port, the limit, that a line is taken *)
(* apart as the grammar has it and loses no text, and that a MODE is         *)
(* announced as it was done.                                                 *)
EXTENDS Commands, FiniteSetTheorems, SequenceTheorems, WellFoundedInduction, TLAPS

-----------------------------------------------------------------------------
(* Numbers and induction over a set of them *)

LEMMA LeastIs ==
  ASSUME NEW T \in SUBSET Nat, T # {}
  PROVE  Min(T) \in T /\ \A y \in T : Min(T) <= y
  <1>1. PICK x \in T : \A y \in T : ~(<<y, x>> \in OpToRel(<, Nat))
    BY NatLessThanWellFounded, WFMin
  <1>2. \A y \in T : x <= y
    <2> SUFFICES ASSUME NEW y \in T, ~(x <= y) PROVE FALSE
      OBVIOUS
    <2>1. y \in Nat /\ x \in Nat /\ y < x
      OBVIOUS
    <2>2. <<y, x>> \in OpToRel(<, Nat)
      BY <2>1 DEF OpToRel
    <2> QED BY <1>1, <2>2
  <1>3. \E z \in T : \A y \in T : z <= y
    BY <1>2
  <1> QED BY <1>3 DEF Min

\* What holds of 0, and of n + 1 if it holds of n, as a set.
LEMMA Induction ==
  ASSUME NEW T, 0 \in T, \A n \in Nat : n \in T => n + 1 \in T
  PROVE  Nat \subseteq T
  <1> DEFINE Rest == Nat \ T
  <1>1. CASE Rest # {}
    <2>1. Rest \in SUBSET Nat
      OBVIOUS
    <2>2. Min(Rest) \in Rest /\ \A y \in Rest : Min(Rest) <= y
      BY <1>1, <2>1, LeastIs
    <2> DEFINE n == Min(Rest)
    <2> HIDE DEF n
    <2>3. n \in Nat /\ n \notin T /\ \A y \in Rest : n <= y
      BY <2>2 DEF n
    <2>4. n - 1 \in Nat /\ (n - 1) + 1 = n
      BY <2>3
    <2>5. n - 1 \notin Rest
      BY <2>3, <2>4
    <2> QED BY <2>3, <2>4, <2>5
  <1> QED BY <1>1

\* Powers of two, from the sizes of the sets of subsets.
LEMMA Powers ==
  ASSUME NEW m \in Nat, NEW n \in Nat, m <= n
  PROVE  2^m \in Nat /\ 2^n \in Nat /\ 2^m <= 2^n
  <1>1. ASSUME NEW k \in Nat
        PROVE  /\ IsFiniteSet(SUBSET (1..k)) /\ Cardinality(SUBSET (1..k)) = 2^k
               /\ 2^k \in Nat
    <2>1. IsFiniteSet(1..k) /\ Cardinality(1..k) = k
      BY FS_Interval
    <2>2. /\ IsFiniteSet(SUBSET (1..k))
          /\ Cardinality(SUBSET (1..k)) = 2^Cardinality(1..k)
      BY <2>1, FS_SUBSET
    <2>3. Cardinality(SUBSET (1..k)) \in Nat
      BY <2>2, FS_CardinalityType
    <2> QED BY <2>1, <2>2, <2>3
  <1>2. SUBSET (1..m) \subseteq SUBSET (1..n)
    BY 1..m \subseteq 1..n
  <1>3. Cardinality(SUBSET (1..m)) <= Cardinality(SUBSET (1..n))
    BY <1>1, <1>2, FS_Subset
  <1> QED BY <1>1, <1>3

\* The widths: 2^IntWidth is more than twice 65536, and long holds int.
LEMMA Widths ==
  /\ 2^(IntWidth - 1) \in Nat /\ 2^IntWidth \in Nat /\ 2^(LongWidth - 1) \in Nat
  /\ 2^(IntWidth - 1) > 65536
  /\ 2^(IntWidth - 1) <= 2^IntWidth /\ 2^(IntWidth - 1) <= 2^(LongWidth - 1)
  <1>1. /\ IntWidth - 1 \in Nat /\ IntWidth \in Nat /\ LongWidth - 1 \in Nat
        /\ IntWidth - 1 <= IntWidth /\ IntWidth - 1 <= LongWidth - 1
    BY WidthAssumption
  <1> QED BY <1>1, Powers, WidthAssumption

LEMMA AtoiIs ==
  ASSUME NEW n \in Nat
  PROVE  /\ Atoi(n) \in Int /\ LimitOf(n) \in Nat
         /\ n <= MaxInt => Atoi(n) = n /\ LimitOf(n) = n
         /\ MaxInt > 65535
  <1> DEFINE a == 2^(IntWidth - 1)
             b == 2^IntWidth
             c == 2^(LongWidth - 1)
  <1>1. /\ a \in Nat /\ b \in Nat /\ c \in Nat /\ a > 65536 /\ a <= b /\ a <= c
    BY Widths
  <1>2. MaxInt = a - 1 /\ MaxLong = c - 1
    BY DEF MaxInt, MaxLong
  <1>3. Atoi(n) = LET low == (IF n > MaxLong THEN MaxLong ELSE n) % b IN
                  IF low > MaxInt THEN low - b ELSE low
    BY DEF Atoi
  <1>4. LimitOf(n) = Atoi(n) % b
    BY DEF LimitOf
  <1> HIDE DEF a, b, c
  <1> DEFINE low == (IF n > MaxLong THEN MaxLong ELSE n) % b
  <1>5. low \in 0..(b - 1) /\ (n <= MaxInt => low = n)
    BY <1>1, <1>2
  <1>6. Atoi(n) = IF low > MaxInt THEN low - b ELSE low
    BY <1>3
  <1> HIDE DEF low
  <1>7. Atoi(n) \in Int /\ (n <= MaxInt => Atoi(n) = n)
    BY <1>1, <1>2, <1>5, <1>6
  <1>8. n <= MaxInt => n % b = n
    BY <1>1, <1>2
  <1>9. Atoi(n) % b \in Nat
    BY <1>1, <1>7
  <1> QED BY <1>1, <1>2, <1>4, <1>7, <1>8, <1>9

-----------------------------------------------------------------------------
(* What parse returns *)

\* Any part of a sequence.
LEMMA Part ==
  ASSUME NEW S, NEW s \in Seq(S), NEW m \in 1..(Len(s) + 1), NEW n \in 0..Len(s),
         m <= n + 1
  PROVE  SubSeq(s, m, n) \in Seq(S) /\ Len(SubSeq(s, m, n)) = n - m + 1
  <1>1. Len(s) \in Nat
    BY LenProperties
  <1>2. \A j \in m..n : s[j] \in S
    BY <1>1, ElementOfSeq
  <1>3. m \in Int /\ n \in Int
    BY <1>1
  <1>4. /\ SubSeq(s, m, n) \in Seq(S)
        /\ Len(SubSeq(s, m, n)) = IF m <= n THEN n - m + 1 ELSE 0
    BY <1>2, <1>3, SubSeqProperties
  <1> QED BY <1>1, <1>4

LEMMA FindIs ==
  ASSUME NEW S, NEW s \in Seq(S), NEW sep, NEW from \in 1..(Len(s) + 1)
  PROVE  /\ Find(s, sep, from) \in from..(Len(s) + 1)
         /\ from <= Len(s) /\ s[from] \notin sep => Find(s, sep, from) > from
  <1> DEFINE T == {k \in from..Len(s) : s[k] \in sep} \cup {Len(s) + 1}
  <1>1. Len(s) \in Nat
    BY LenProperties
  <1>2. T \in SUBSET Nat /\ T # {}
    BY <1>1
  <1>3. Min(T) \in T
    BY <1>2, LeastIs
  <1>4. Find(s, sep, from) \in T
    BY <1>3 DEF Find
  <1> QED BY <1>1, <1>4

LEMMA SkipBlanksIs ==
  ASSUME NEW S, NEW s \in Seq(S), NEW from \in 1..(Len(s) + 1)
  PROVE  SkipBlanks(s, from) \in from..(Len(s) + 1)
  <1> DEFINE T == {k \in from..Len(s) : s[k] # Blank} \cup {Len(s) + 1}
  <1>1. Len(s) \in Nat
    BY LenProperties
  <1>2. T \in SUBSET Nat /\ T # {}
    BY <1>1
  <1>3. Min(T) \in T
    BY <1>2, LeastIs
  <1>4. SkipBlanks(s, from) \in T
    BY <1>3 DEF SkipBlanks
  <1> QED BY <1>1, <1>4

\* The places where words start, and the function that collects them.
Heads(s, sep) == {k \in 1..Len(s) : s[k] \notin sep /\ (k = 1 \/ s[k - 1] \in sep)}

Collects(s, sep, n, g) ==
  g = [k \in 0..n |->
         IF k = 0 THEN <<>>
         ELSE IF s[k] \notin sep /\ (k = 1 \/ s[k - 1] \in sep)
              THEN Append(g[k - 1], k) ELSE g[k - 1]]

LEMMA CollectorExists ==
  ASSUME NEW s, NEW sep, NEW n \in Nat
  PROVE  \E g : Collects(s, sep, n, g)
  <1> DEFINE T == {k \in Nat : \E g : Collects(s, sep, k, g)}
  <1>1. 0 \in T
    <2> DEFINE g == [k \in 0..0 |-> <<>>]
    <2>1. Collects(s, sep, 0, g)
      BY DEF Collects
    <2> QED BY <2>1
  <1>2. ASSUME NEW k \in Nat, k \in T PROVE k + 1 \in T
    <2>1. PICK g : Collects(s, sep, k, g)
      BY <1>2
    <2> DEFINE h == [j \in 0..(k + 1) |->
                       IF j = 0 THEN <<>>
                       ELSE IF s[j] \notin sep /\ (j = 1 \/ s[j - 1] \in sep)
                            THEN Append(g[j - 1], j) ELSE g[j - 1]]
    <2>2. ASSUME NEW j \in 0..k PROVE h[j] = g[j]
      <3>1. j \in 0..(k + 1)
        OBVIOUS
      <3>2. g[j] = IF j = 0 THEN <<>>
                   ELSE IF s[j] \notin sep /\ (j = 1 \/ s[j - 1] \in sep)
                        THEN Append(g[j - 1], j) ELSE g[j - 1]
        BY <2>1 DEF Collects
      <3> QED BY <3>1, <3>2
    <2>3. ASSUME NEW j \in 0..(k + 1), j # 0 PROVE h[j - 1] = g[j - 1]
      <3>1. j - 1 \in 0..k
        BY <2>3
      <3> QED BY <2>2, <3>1
    <2> DEFINE hh == [j \in 0..(k + 1) |->
                        IF j = 0 THEN <<>>
                        ELSE IF s[j] \notin sep /\ (j = 1 \/ s[j - 1] \in sep)
                             THEN Append(h[j - 1], j) ELSE h[j - 1]]
    <2>4. ASSUME NEW j \in 0..(k + 1) PROVE h[j] = hh[j]
      <3>1. CASE j = 0
        BY <3>1
      <3>2. CASE j # 0
        <4>1. h[j - 1] = g[j - 1]
          BY <2>3, <3>2
        <4> QED BY <3>2, <4>1
      <3> QED BY <3>1, <3>2
    <2>5. h = hh
      BY <2>4
    <2>6. Collects(s, sep, k + 1, h)
      BY <2>5 DEF Collects
    <2> QED BY <2>6
  <1> HIDE DEF T
  <1>3. Nat \subseteq T
    BY <1>1, <1>2, Induction
  <1> QED BY <1>3 DEF T

LEMMA CollectedAre ==
  ASSUME NEW s, NEW sep, Len(s) \in Nat, NEW g, Collects(s, sep, Len(s), g)
  PROVE  \A n \in 0..Len(s) : g[n] \in Seq(Heads(s, sep))
  <1> DEFINE T == {n \in Nat : n <= Len(s) => g[n] \in Seq(Heads(s, sep))}
  <1>1. 0 \in T
    <2>1. g[0] = <<>>
      BY DEF Collects
    <2>2. <<>> \in Seq(Heads(s, sep))
      OBVIOUS
    <2> QED BY <2>1, <2>2
  <1>2. ASSUME NEW n \in Nat, n \in T PROVE n + 1 \in T
    <2>1. ASSUME n + 1 <= Len(s) PROVE g[n + 1] \in Seq(Heads(s, sep))
      <3>1. g[n] \in Seq(Heads(s, sep))
        BY <1>2, <2>1
      <3>2. n + 1 \in 0..Len(s) /\ n + 1 # 0 /\ (n + 1) - 1 = n /\ n + 1 \in 1..Len(s)
        BY <2>1
      <3>3. g[n + 1] = IF s[n + 1] \notin sep /\ (n + 1 = 1 \/ s[n] \in sep)
                       THEN Append(g[n], n + 1) ELSE g[n]
        BY <3>2 DEF Collects
      <3>4. CASE s[n + 1] \notin sep /\ (n + 1 = 1 \/ s[n] \in sep)
        <4>1. n + 1 \in Heads(s, sep)
          BY <3>2, <3>4 DEF Heads
        <4>2. Append(g[n], n + 1) \in Seq(Heads(s, sep))
          BY <3>1, <4>1, AppendProperties
        <4>3. g[n + 1] \in {Append(g[n], n + 1), g[n]}
          BY <3>3
        <4> QED BY <3>1, <4>2, <4>3
      <3>5. CASE ~(s[n + 1] \notin sep /\ (n + 1 = 1 \/ s[n] \in sep))
        BY <3>1, <3>3, <3>5
      <3> QED BY <3>4, <3>5
    <2>2. n + 1 <= Len(s) => g[n + 1] \in Seq(Heads(s, sep))
      BY <2>1
    <2> QED BY <2>2
  <1> HIDE DEF T
  <1>3. Nat \subseteq T
    BY <1>1, <1>2, Induction
  <1> QED BY <1>3 DEF T

LEMMA StartsCollected ==
  ASSUME NEW s, NEW sep, Len(s) \in Nat
  PROVE  \E g : Collects(s, sep, Len(s), g) /\ Starts(s, sep) = g[Len(s)]
  <1> DEFINE g == CHOOSE g : g = [k \in 0..Len(s) |->
         IF k = 0 THEN <<>>
         ELSE IF s[k] \notin sep /\ (k = 1 \/ s[k - 1] \in sep)
              THEN Append(g[k - 1], k) ELSE g[k - 1]]
  <1>1. Collects(s, sep, Len(s), g)
    <2>1. \E h : Collects(s, sep, Len(s), h)
      BY CollectorExists
    <2>2. \E h : h = [k \in 0..Len(s) |->
            IF k = 0 THEN <<>>
            ELSE IF s[k] \notin sep /\ (k = 1 \/ s[k - 1] \in sep)
                 THEN Append(h[k - 1], k) ELSE h[k - 1]]
      BY <2>1 DEF Collects
    <2> QED BY <2>2 DEF Collects
  <1>2. Starts(s, sep) = g[Len(s)]
    BY DEF Starts
  <1> HIDE DEF g
  <1> QED BY <1>1, <1>2

LEMMA StartsAre ==
  ASSUME NEW S, NEW sep, NEW s \in Seq(S)
  PROVE  Starts(s, sep) \in Seq(Heads(s, sep))
  <1>1. Len(s) \in Nat /\ Len(s) \in 0..Len(s)
    BY LenProperties
  <1>2. PICK g : Collects(s, sep, Len(s), g) /\ Starts(s, sep) = g[Len(s)]
    BY <1>1, StartsCollected
  <1> QED BY <1>1, <1>2, CollectedAre

\* Words are not empty.
LEMMA WordsAre ==
  ASSUME NEW S, NEW sep, NEW s \in Seq(S)
  PROVE  /\ Words(s, sep) \in Seq(Seq(S))
         /\ \A k \in 1..Len(Words(s, sep)) : Words(s, sep)[k] # <<>>
  <1> DEFINE st == Starts(s, sep)
             word(start) == SubSeq(s, start, Find(s, sep, start) - 1)
  <1>1. st \in Seq(Heads(s, sep)) /\ Len(st) \in Nat /\ Len(s) \in Nat
    BY StartsAre, LenProperties
  <1>2. ASSUME NEW k \in 1..Len(st) PROVE word(st[k]) \in Seq(S) /\ word(st[k]) # <<>>
    <2>1. st[k] \in Heads(s, sep)
      BY <1>1, ElementOfSeq
    <2> DEFINE a == st[k]
    <2> HIDE DEF a
    <2>2. a \in 1..Len(s) /\ s[a] \notin sep
      BY <2>1 DEF Heads, a
    <2>3. a \in 1..(Len(s) + 1)
      BY <1>1, <2>2
    <2>4. /\ Find(s, sep, a) \in a..(Len(s) + 1)
          /\ a <= Len(s) /\ s[a] \notin sep => Find(s, sep, a) > a
      BY <2>3, FindIs
    <2> DEFINE e == Find(s, sep, a) - 1
    <2>5. e \in 0..Len(s) /\ a <= e + 1 /\ e - a + 1 > 0
      BY <1>1, <2>2, <2>4
    <2> HIDE DEF e
    <2>6. SubSeq(s, a, e) \in Seq(S) /\ Len(SubSeq(s, a, e)) = e - a + 1
      BY <2>3, <2>5, Part
    <2>7. SubSeq(s, a, e) # <<>>
      <3> DEFINE w == SubSeq(s, a, e)
      <3>1. Len(w) = e - a + 1
        BY <2>6
      <3> HIDE DEF w
      <3>2. Len(w) > 0
        BY <2>5, <3>1
      <3>3. w # <<>>
        BY <3>2
      <3> QED BY <3>3 DEF w
    <2> QED BY <2>6, <2>7 DEF a, e
  <1>3. Words(s, sep) = [k \in 1..Len(st) |-> word(st[k])]
    BY DEF Words
  <1> HIDE DEF st, word
  <1>4. Words(s, sep) \in Seq(Seq(S)) /\ Len(Words(s, sep)) = Len(st)
    <2>1. Words(s, sep) \in [1..Len(st) -> Seq(S)]
      BY <1>2, <1>3
    <2> QED BY <1>1, <2>1
  <1> QED BY <1>2, <1>3, <1>4

\* Only the last parameter can be empty.
Filled(params) ==
  /\ params \in Seq(Seq(STRING))
  /\ \A k \in 1..(Len(params) - 1) : params[k] # <<>>

LEMMA WordsAreFilled ==
  ASSUME NEW s \in Seq(STRING), NEW sep
  PROVE  Filled(Words(s, sep))
  <1>1. /\ Words(s, sep) \in Seq(Seq(STRING))
        /\ \A k \in 1..Len(Words(s, sep)) : Words(s, sep)[k] # <<>>
    BY WordsAre
  <1>2. Len(Words(s, sep)) \in Nat
    BY <1>1, LenProperties
  <1> QED BY <1>1, <1>2 DEF Filled

(* The text of several sequences *)

LEMMA Associates ==
  ASSUME NEW S
  PROVE  \A x, y, z \in Seq(S) : (x \o y) \o z = x \o (y \o z)
  BY ConcatAssociative

\* g has the text of the first sequences of w, as far as n.
Flattens(w, n, g) ==
  g = [k \in 1..n |-> IF k = 1 THEN w[k] ELSE g[k - 1] \o w[k]]

LEMMA FlattenerExists ==
  ASSUME NEW w, NEW n \in Nat
  PROVE  \E g : Flattens(w, n, g)
  <1> DEFINE T == {k \in Nat : \E g : Flattens(w, k, g)}
  <1>1. 0 \in T
    <2> DEFINE g == [k \in 1..0 |-> <<>>]
    <2>1. Flattens(w, 0, g)
      BY DEF Flattens
    <2> QED BY <2>1
  <1>2. ASSUME NEW k \in Nat, k \in T PROVE k + 1 \in T
    <2>1. PICK g : Flattens(w, k, g)
      BY <1>2
    <2> DEFINE h == [j \in 1..(k + 1) |-> IF j = 1 THEN w[j] ELSE g[j - 1] \o w[j]]
    <2>2. ASSUME NEW j \in 1..k PROVE h[j] = g[j]
      <3>1. j \in 1..(k + 1)
        OBVIOUS
      <3>2. g[j] = IF j = 1 THEN w[j] ELSE g[j - 1] \o w[j]
        BY <2>1 DEF Flattens
      <3> QED BY <3>1, <3>2
    <2>3. ASSUME NEW j \in 1..(k + 1), j # 1 PROVE h[j - 1] = g[j - 1]
      <3>1. j - 1 \in 1..k
        BY <2>3
      <3> QED BY <2>2, <3>1
    <2> DEFINE hh == [j \in 1..(k + 1) |-> IF j = 1 THEN w[j] ELSE h[j - 1] \o w[j]]
    <2>4. ASSUME NEW j \in 1..(k + 1) PROVE h[j] = hh[j]
      <3>1. CASE j = 1
        BY <3>1
      <3>2. CASE j # 1
        <4>1. h[j - 1] = g[j - 1]
          BY <2>3, <3>2
        <4> QED BY <3>2, <4>1
      <3> QED BY <3>1, <3>2
    <2>5. h = hh
      BY <2>4
    <2>6. Flattens(w, k + 1, h)
      BY <2>5 DEF Flattens
    <2> QED BY <2>6
  <1> HIDE DEF T
  <1>3. Nat \subseteq T
    BY <1>1, <1>2, Induction
  <1> QED BY <1>3 DEF T

LEMMA FlattenIs ==
  ASSUME NEW w, Len(w) \in Nat \ {0}
  PROVE  \E g : Flattens(w, Len(w), g) /\ FlattenSeq(w) = g[Len(w)]
  <1> DEFINE N == Len(w)
             g == CHOOSE g : g = [k \in 1..N |->
                                    IF k = 1 THEN w[k] ELSE g[k - 1] \o w[k]]
  <1>1. Flattens(w, N, g)
    <2>1. \E h : Flattens(w, N, h)
      BY FlattenerExists
    <2>2. \E h : h = [k \in 1..N |-> IF k = 1 THEN w[k] ELSE h[k - 1] \o w[k]]
      BY <2>1 DEF Flattens
    <2> QED BY <2>2 DEF Flattens
  <1>2. FlattenSeq(w) = g[N]
    BY DEF FlattenSeq
  <1> HIDE DEF g
  <1> QED BY <1>1, <1>2

\* The text of the first sequences depends on them alone.
LEMMA FlattensSame ==
  ASSUME NEW S, NEW w \in Seq(Seq(S)), NEW u, NEW n \in 0..Len(w),
         NEW m \in Nat, NEW g, Flattens(w, Len(w), g), NEW h, Flattens(u, m, h),
         n <= m, \A k \in 1..n : w[k] = u[k]
  PROVE  \A k \in 1..n : g[k] = h[k] /\ g[k] \in Seq(S)
  <1> DEFINE T == {k \in Nat : k + 1 <= n => g[k + 1] = h[k + 1] /\ g[k + 1] \in Seq(S)}
  <1>0. Len(w) \in Nat /\ n \in Nat /\ 1..n \subseteq 1..Len(w) /\ 1..n \subseteq 1..m
    BY LenProperties
  <1>1. ASSUME NEW k \in 1..n
        PROVE  /\ g[k] = IF k = 1 THEN w[k] ELSE g[k - 1] \o w[k]
               /\ h[k] = IF k = 1 THEN w[k] ELSE h[k - 1] \o w[k]
               /\ w[k] \in Seq(S)
    <2>1. k \in 1..Len(w) /\ k \in 1..m
      BY <1>0
    <2>2. g[k] = IF k = 1 THEN w[k] ELSE g[k - 1] \o w[k]
      BY <2>1 DEF Flattens
    <2>3. h[k] = IF k = 1 THEN u[k] ELSE h[k - 1] \o u[k]
      BY <2>1 DEF Flattens
    <2>4. w[k] \in Seq(S)
      BY <2>1, ElementOfSeq
    <2> QED BY <2>2, <2>3, <2>4
  <1>2. 0 \in T
    <2>1. 0 + 1 = 1 /\ (1 <= n => 1 \in 1..n)
      BY <1>0
    <2> QED BY <1>1, <2>1
  <1>3. ASSUME NEW k \in Nat, k \in T PROVE k + 1 \in T
    <2>1. ASSUME (k + 1) + 1 <= n
          PROVE  g[(k + 1) + 1] = h[(k + 1) + 1] /\ g[(k + 1) + 1] \in Seq(S)
      <3> DEFINE j == (k + 1) + 1
      <3>1. j \in 1..n /\ j # 1 /\ j - 1 = k + 1 /\ k + 1 <= n
        BY <1>0, <2>1
      <3>2. g[k + 1] = h[k + 1] /\ g[k + 1] \in Seq(S)
        BY <1>3, <3>1
      <3> HIDE DEF j
      <3>3. g[j] = g[j - 1] \o w[j] /\ h[j] = h[j - 1] \o w[j] /\ w[j] \in Seq(S)
        BY <1>1, <3>1
      <3>4. g[j] = g[k + 1] \o w[j] /\ h[j] = g[j]
        BY <3>1, <3>2, <3>3
      <3>5. g[k + 1] \o w[j] \in Seq(S)
        BY <3>2, <3>3, ConcatProperties
      <3>6. g[j] = h[j] /\ g[j] \in Seq(S)
        BY <3>4, <3>5
      <3> QED BY <3>6 DEF j
    <2> QED BY <2>1
  <1> HIDE DEF T
  <1>4. Nat \subseteq T
    BY <1>2, <1>3, Induction
  <1>5. ASSUME NEW k \in 1..n PROVE g[k] = h[k] /\ g[k] \in Seq(S)
    <2>1. k - 1 \in Nat /\ (k - 1) + 1 = k /\ k <= n
      BY <1>0
    <2>2. k - 1 \in T
      BY <1>4, <2>1
    <2> QED BY <2>1, <2>2 DEF T
  <1> QED BY <1>5

LEMMA FlattenAppend ==
  ASSUME NEW S, NEW w \in Seq(Seq(S)), NEW t \in Seq(S)
  PROVE  /\ FlattenSeq(w) \in Seq(S)
         /\ FlattenSeq(Append(w, t)) = FlattenSeq(w) \o t
  <1> DEFINE a == Append(w, t)
  <1>1. /\ a \in Seq(Seq(S)) /\ Len(w) \in Nat /\ Len(a) = Len(w) + 1
        /\ \A k \in 1..Len(w) : a[k] = w[k]
        /\ a[Len(w) + 1] = t
    BY LenProperties, AppendProperties
  <1> HIDE DEF a
  <1>2. Len(a) \in Nat \ {0}
    BY <1>1
  <1>3. PICK h : Flattens(a, Len(a), h) /\ FlattenSeq(a) = h[Len(a)]
    BY <1>2, FlattenIs
  <1>4. h[Len(a)] = IF Len(a) = 1 THEN t ELSE h[Len(w)] \o t
    <2>1. Len(a) \in 1..Len(a) /\ Len(a) - 1 = Len(w)
      BY <1>1
    <2>2. h[Len(a)] = IF Len(a) = 1 THEN a[Len(a)] ELSE h[Len(a) - 1] \o a[Len(a)]
      BY <1>3, <2>1 DEF Flattens
    <2> QED BY <1>1, <2>1, <2>2
  <1>5. CASE Len(w) = 0
    <2>1. w = <<>>
      BY <1>5, EmptySeq
    <2>2. FlattenSeq(w) = <<>>
      BY <1>5, <2>1 DEF FlattenSeq
    <2>3. FlattenSeq(a) = t
      BY <1>1, <1>3, <1>4, <1>5
    <2>4. <<>> \o t = t /\ <<>> \in Seq(S)
      BY ConcatEmptySeq
    <2> QED BY <2>2, <2>3, <2>4 DEF a
  <1>6. CASE Len(w) # 0
    <2>1. Len(w) \in Nat \ {0} /\ Len(w) \in 1..Len(w) /\ Len(w) \in 0..Len(w)
          /\ Len(a) \in Nat /\ Len(w) <= Len(a) /\ Len(a) # 1
      BY <1>1, <1>6
    <2>2. PICK g : Flattens(w, Len(w), g) /\ FlattenSeq(w) = g[Len(w)]
      BY <2>1, FlattenIs
    <2>3. \A k \in 1..Len(w) : g[k] = h[k] /\ g[k] \in Seq(S)
      <3>1. /\ a \in Seq(Seq(S)) /\ Flattens(w, Len(w), g) /\ Flattens(a, Len(a), h)
            /\ Len(w) \in 0..Len(w) /\ Len(a) \in Nat /\ Len(w) <= Len(a)
        BY <1>1, <1>3, <2>1, <2>2
      <3>2. \A k \in 1..Len(w) : w[k] = a[k]
        BY <1>1
      <3> QED BY <3>1, <3>2, FlattensSame
    <2>4. g[Len(w)] = h[Len(w)] /\ g[Len(w)] \in Seq(S)
      BY <2>1, <2>3
    <2>5. FlattenSeq(a) = FlattenSeq(w) \o t
      BY <1>3, <1>4, <2>1, <2>2, <2>4
    <2> QED BY <2>2, <2>4, <2>5 DEF a
  <1> QED BY <1>5, <1>6

LEMMA FlattenFew ==
  ASSUME NEW S
  PROVE  /\ FlattenSeq(<<>>) = <<>>
         /\ \A t \in Seq(S) : FlattenSeq(<<t>>) = t
  <1>1. <<>> \in Seq(Seq(S)) /\ <<>> \in Seq(S) /\ Len(<<>>) = 0
    OBVIOUS
  <1>2. FlattenSeq(<<>>) = <<>>
    BY <1>1 DEF FlattenSeq
  <1>3. ASSUME NEW t \in Seq(S) PROVE FlattenSeq(<<t>>) = t
    <2>1. Append(<<>>, t) = <<t>>
      BY <1>1
    <2>2. FlattenSeq(Append(<<>>, t)) = FlattenSeq(<<>>) \o t
      BY <1>1, FlattenAppend
    <2>3. <<>> \o t = t
      BY ConcatEmptySeq
    <2> QED BY <1>2, <2>1, <2>2, <2>3
  <1> QED BY <1>2, <1>3

LEMMA FlattenConcat ==
  ASSUME NEW S, NEW v \in Seq(Seq(S)), NEW w \in Seq(Seq(S))
  PROVE  FlattenSeq(v \o w) = FlattenSeq(v) \o FlattenSeq(w)
  <1> DEFINE T == {n \in Nat : \A u \in Seq(Seq(S)) : Len(u) = n =>
                     FlattenSeq(v \o u) = FlattenSeq(v) \o FlattenSeq(u)}
  <1>0. \A x, y, z \in Seq(S) : (x \o y) \o z = x \o (y \o z)
    BY Associates, SMTT(20)
  <1>1. 0 \in T
    <2> SUFFICES ASSUME NEW u \in Seq(Seq(S)), Len(u) = 0
                 PROVE  FlattenSeq(v \o u) = FlattenSeq(v) \o FlattenSeq(u)
      OBVIOUS
    <2>1. u = <<>>
      BY EmptySeq
    <2>2. FlattenSeq(<<>>) = <<>> /\ FlattenSeq(v) \in Seq(S)
      <3>1. <<>> \in Seq(S)
        OBVIOUS
      <3> QED BY <3>1, FlattenFew, FlattenAppend
    <2>3. v \o <<>> = v /\ FlattenSeq(v) \o <<>> = FlattenSeq(v)
      BY <2>2, ConcatEmptySeq
    <2> QED BY <2>1, <2>2, <2>3
  <1>2. ASSUME NEW n \in Nat, n \in T PROVE n + 1 \in T
    <2> SUFFICES ASSUME NEW u \in Seq(Seq(S)), Len(u) = n + 1
                 PROVE  FlattenSeq(v \o u) = FlattenSeq(v) \o FlattenSeq(u)
      OBVIOUS
    <2>1. u # <<>>
      BY EmptySeq
    <2>2. PICK c \in Seq(Seq(S)), t \in Seq(S) : u = Append(c, t)
      BY <2>1, SequenceEmptyOrAppend
    <2>3. Len(c) \in Nat /\ Len(Append(c, t)) = Len(c) + 1
      BY LenProperties, AppendProperties
    <2>4. Len(c) = n
      BY <2>2, <2>3
    <2>5. FlattenSeq(v \o c) = FlattenSeq(v) \o FlattenSeq(c)
      BY <1>2, <2>4
    <2>6. v \o c \in Seq(Seq(S)) /\ <<t>> \in Seq(Seq(S))
      BY ConcatProperties
    <2>7. v \o u = Append(v \o c, t)
      <3>1. u = c \o <<t>> /\ Append(v \o c, t) = (v \o c) \o <<t>>
        BY <2>2, <2>6, AppendIsConcat
      <3>2. (v \o c) \o <<t>> = v \o (c \o <<t>>)
        <4>1. v \in Seq(Seq(S)) /\ c \in Seq(Seq(S)) /\ <<t>> \in Seq(Seq(S))
          BY <2>6
        <4> QED BY <4>1, Associates, SMTT(20)
      <3> QED BY <3>1, <3>2
    <2>8. /\ FlattenSeq(v) \in Seq(S) /\ FlattenSeq(c) \in Seq(S)
          /\ FlattenSeq(u) = FlattenSeq(c) \o t
          /\ FlattenSeq(Append(v \o c, t)) = FlattenSeq(v \o c) \o t
      BY <2>2, <2>6, FlattenAppend
    <2>9. (FlattenSeq(v) \o FlattenSeq(c)) \o t = FlattenSeq(v) \o (FlattenSeq(c) \o t)
      BY <1>0, <2>8
    <2> QED BY <2>5, <2>7, <2>8, <2>9
  <1> HIDE DEF T
  <1>3. Len(w) \in T
    <2>1. Len(w) \in Nat
      BY LenProperties
    <2>2. Nat \subseteq T
      BY <1>1, <1>2, Induction
    <2> QED BY <2>1, <2>2
  <1> QED BY <1>3 DEF T

\* What Letters keeps of each symbol.
Kept(s) == [k \in 1..Len(s) |-> IF s[k] \in Dropped THEN <<>> ELSE <<s[k]>>]

LEMMA KeptIs ==
  ASSUME NEW S, NEW s \in Seq(S)
  PROVE  /\ Kept(s) \in Seq(Seq(S)) /\ Len(Kept(s)) = Len(s) /\ Len(s) \in Nat
         /\ \A k \in 1..Len(s) :
              Kept(s)[k] = IF s[k] \in Dropped THEN <<>> ELSE <<s[k]>>
         /\ Letters(s) = FlattenSeq(Kept(s)) /\ Letters(s) \in Seq(S)
  <1>1. Len(s) \in Nat
    BY LenProperties
  <1>2. ASSUME NEW k \in 1..Len(s)
        PROVE  (IF s[k] \in Dropped THEN <<>> ELSE <<s[k]>>) \in Seq(S)
    <2>1. s[k] \in S
      BY ElementOfSeq
    <2> QED BY <2>1
  <1>3. Kept(s) \in Seq(Seq(S)) /\ Len(Kept(s)) = Len(s)
    <2>1. Kept(s) \in [1..Len(s) -> Seq(S)]
      BY <1>2 DEF Kept
    <2> QED BY <1>1, <2>1
  <1>4. Letters(s) = FlattenSeq(Kept(s))
    BY DEF Letters, Kept
  <1>5. Letters(s) \in Seq(S)
    <2>1. <<>> \in Seq(S)
      OBVIOUS
    <2> QED BY <1>3, <1>4, <2>1, FlattenAppend
  <1> QED BY <1>1, <1>3, <1>4, <1>5 DEF Kept

LEMMA LettersConcat ==
  ASSUME NEW S, NEW s \in Seq(S), NEW t \in Seq(S)
  PROVE  Letters(s \o t) = Letters(s) \o Letters(t)
  <1> DEFINE c == s \o t
  <1>1. /\ c \in Seq(S) /\ Len(c) = Len(s) + Len(t) /\ Len(s) \in Nat /\ Len(t) \in Nat
        /\ \A k \in 1..Len(s) + Len(t) : c[k] = IF k <= Len(s) THEN s[k] ELSE t[k - Len(s)]
    BY ConcatProperties, LenProperties
  <1> HIDE DEF c
  <1>2. /\ Kept(s) \in Seq(Seq(S)) /\ Len(Kept(s)) = Len(s)
        /\ Kept(t) \in Seq(Seq(S)) /\ Len(Kept(t)) = Len(t)
        /\ Kept(c) \in Seq(Seq(S)) /\ Len(Kept(c)) = Len(c)
        /\ Letters(s) = FlattenSeq(Kept(s)) /\ Letters(t) = FlattenSeq(Kept(t))
        /\ Letters(c) = FlattenSeq(Kept(c))
    BY <1>1, KeptIs
  <1> DEFINE d == Kept(s) \o Kept(t)
  <1>3. /\ d \in Seq(Seq(S)) /\ Len(d) = Len(s) + Len(t)
        /\ \A k \in 1..Len(s) + Len(t) :
             d[k] = IF k <= Len(s) THEN Kept(s)[k] ELSE Kept(t)[k - Len(s)]
    <2> DEFINE p == Kept(s)
               q == Kept(t)
    <2>1. p \in Seq(Seq(S)) /\ q \in Seq(Seq(S)) /\ Len(p) = Len(s) /\ Len(q) = Len(t)
      BY <1>2
    <2> HIDE DEF p, q
    <2>2. /\ p \o q \in Seq(Seq(S)) /\ Len(p \o q) = Len(p) + Len(q)
          /\ \A k \in 1..Len(p) + Len(q) :
               (p \o q)[k] = IF k <= Len(p) THEN p[k] ELSE q[k - Len(p)]
      BY <2>1, ConcatProperties
    <2> QED BY <2>1, <2>2 DEF p, q
  <1> HIDE DEF d
  <1>4. ASSUME NEW k \in 1..Len(c) PROVE Kept(c)[k] = d[k]
    <2>1. k \in 1..Len(s) + Len(t)
      BY <1>1
    <2>2. CASE k <= Len(s)
      <3>1. k \in 1..Len(s)
        BY <2>2
      <3>2. c[k] = s[k] /\ d[k] = Kept(s)[k]
        BY <1>1, <1>3, <2>1, <2>2
      <3> QED BY <3>1, <3>2 DEF Kept
    <2>3. CASE ~(k <= Len(s))
      <3>1. k - Len(s) \in 1..Len(t)
        BY <1>1, <2>1, <2>3
      <3>2. c[k] = t[k - Len(s)] /\ d[k] = Kept(t)[k - Len(s)]
        BY <1>1, <1>3, <2>1, <2>3
      <3> QED BY <3>1, <3>2 DEF Kept
    <2> QED BY <2>2, <2>3
  <1>5. Kept(c) = d
    BY <1>1, <1>2, <1>3, <1>4, SeqEqual
  <1>6. FlattenSeq(d) = FlattenSeq(Kept(s)) \o FlattenSeq(Kept(t))
    BY <1>2, FlattenConcat DEF d
  <1>7. Letters(c) = Letters(s) \o Letters(t)
    BY <1>2, <1>5, <1>6
  <1> QED BY <1>7 DEF c

\* Blanks and colons alone have no letters.
LEMMA NoLetters ==
  ASSUME NEW S, NEW s \in Seq(S), \A k \in 1..Len(s) : s[k] \in Dropped
  PROVE  Letters(s) = <<>>
  <1> DEFINE All(u) == \A k \in 1..Len(u) : u[k] \in Dropped
             T == {n \in Nat : \A u \in Seq(S) : Len(u) = n /\ All(u) => Letters(u) = <<>>}
  <1>1. 0 \in T
    <2> SUFFICES ASSUME NEW u \in Seq(S), Len(u) = 0 PROVE Letters(u) = <<>>
      OBVIOUS
    <2>1. Kept(u) \in Seq(Seq(S)) /\ Len(Kept(u)) = 0 /\ Letters(u) = FlattenSeq(Kept(u))
      BY KeptIs
    <2>2. Kept(u) = <<>>
      BY <2>1, EmptySeq
    <2> QED BY <2>1, <2>2, FlattenFew
  <1>2. ASSUME NEW n \in Nat, n \in T PROVE n + 1 \in T
    <2> SUFFICES ASSUME NEW u \in Seq(S), Len(u) = n + 1, All(u) PROVE Letters(u) = <<>>
      OBVIOUS
    <2>1. PICK c \in Seq(S), x \in S : u = Append(c, x)
      <3>1. u # <<>>
        BY EmptySeq
      <3> QED BY <3>1, SequenceEmptyOrAppend
    <2>2. /\ Len(c) \in Nat /\ Len(u) = Len(c) + 1
          /\ \A k \in 1..Len(c) : u[k] = c[k]
          /\ u[Len(c) + 1] = x
      BY <2>1, LenProperties, AppendProperties
    <2>3. Len(c) = n /\ n + 1 \in 1..Len(u) /\ 1..n \subseteq 1..Len(u)
      BY <2>2
    <2>4. x \in Dropped /\ All(c)
      BY <2>2, <2>3
    <2>5. Letters(c) = <<>>
      BY <1>2, <2>3, <2>4
    <2>6. Letters(<<x>>) = <<>>
      <3>1. <<x>> \in Seq(S) /\ Len(<<x>>) = 1 /\ <<x>>[1] = x
        OBVIOUS
      <3> DEFINE o == <<x>>
      <3>2. o \in Seq(S) /\ Len(o) = 1 /\ o[1] = x
        BY <3>1
      <3> HIDE DEF o
      <3>3. /\ Kept(o) \in Seq(Seq(S)) /\ Len(Kept(o)) = 1 /\ Kept(o)[1] = <<>>
            /\ Letters(o) = FlattenSeq(Kept(o))
        <4>1. /\ Kept(o) \in Seq(Seq(S)) /\ Len(Kept(o)) = Len(o)
              /\ \A k \in 1..Len(o) :
                   Kept(o)[k] = IF o[k] \in Dropped THEN <<>> ELSE <<o[k]>>
              /\ Letters(o) = FlattenSeq(Kept(o))
          BY <3>2, KeptIs
        <4>2. 1 \in 1..Len(o) /\ o[1] \in Dropped
          BY <2>4, <3>2
        <4> QED BY <3>2, <4>1, <4>2
      <3>4. Kept(o) = << <<>> >>
        BY <3>3
      <3>5. FlattenSeq(<< <<>> >>) = <<>>
        <4>1. <<>> \in Seq(S)
          OBVIOUS
        <4> QED BY <4>1, FlattenFew
      <3>6. Letters(o) = <<>>
        BY <3>3, <3>4, <3>5
      <3> QED BY <3>6 DEF o
    <2>7. u = c \o <<x>> /\ <<x>> \in Seq(S)
      BY <2>1, AppendIsConcat
    <2>8. Letters(u) = <<>> \o <<>>
      BY <2>5, <2>6, <2>7, LettersConcat
    <2>9. <<>> \o <<>> = <<>>
      OBVIOUS
    <2> QED BY <2>8, <2>9
  <1> HIDE DEF T
  <1>3. Len(s) \in T
    <2>1. Len(s) \in Nat
      BY LenProperties
    <2>2. Nat \subseteq T
      BY <1>1, <1>2, Induction
    <2> QED BY <2>1, <2>2
  <1> QED BY <1>3 DEF T

-----------------------------------------------------------------------------
(* Words of a text that is put together *)

LEMMA FindAt ==
  ASSUME NEW S, NEW s \in Seq(S), NEW sep, NEW from \in 1..(Len(s) + 1)
  PROVE  /\ Find(s, sep, from) \in from..(Len(s) + 1)
         /\ \A k \in from..(Find(s, sep, from) - 1) : s[k] \notin sep
         /\ Find(s, sep, from) <= Len(s) => s[Find(s, sep, from)] \in sep
  <1> DEFINE T == {k \in from..Len(s) : s[k] \in sep} \cup {Len(s) + 1}
             e == Find(s, sep, from)
  <1>1. Len(s) \in Nat
    BY LenProperties
  <1>2. T \in SUBSET Nat /\ T # {}
    BY <1>1
  <1>3. e \in T /\ \A y \in T : e <= y
    BY <1>2, LeastIs DEF Find
  <1> HIDE DEF e
  <1>4. e \in from..(Len(s) + 1) /\ (e <= Len(s) => s[e] \in sep)
    BY <1>1, <1>3
  <1>5. ASSUME NEW k \in from..(e - 1) PROVE s[k] \notin sep
    <2>1. k \in from..Len(s) /\ ~(e <= k)
      BY <1>1, <1>4
    <2> QED BY <1>3, <2>1
  <1> QED BY <1>4, <1>5 DEF e

FirstAt(s, sep, from, e) ==
  /\ e \in from..(Len(s) + 1)
  /\ \A k \in from..(e - 1) : s[k] \notin sep
  /\ e <= Len(s) => s[e] \in sep

LEMMA FindOnly ==
  ASSUME NEW S, NEW s \in Seq(S), NEW sep, NEW from \in 1..(Len(s) + 1),
         NEW e, FirstAt(s, sep, from, e)
  PROVE  Find(s, sep, from) = e
  <1> DEFINE f == Find(s, sep, from)
  <1>0. Len(s) \in Nat
    BY LenProperties
  <1>1. /\ Len(s) \in Nat /\ e \in from..(Len(s) + 1)
        /\ \A k \in from..(e - 1) : s[k] \notin sep
        /\ e <= Len(s) => s[e] \in sep
    BY <1>0 DEF FirstAt
  <1>2. /\ f \in from..(Len(s) + 1)
        /\ \A k \in from..(f - 1) : s[k] \notin sep
        /\ f <= Len(s) => s[f] \in sep
    BY FindAt
  <1> HIDE DEF f
  <1>3. CASE f < e
    <2>1. f \in from..(e - 1) /\ f <= Len(s)
      BY <1>0, <1>1, <1>2, <1>3
    <2> QED BY <1>1, <1>2, <2>1
  <1>4. CASE e < f
    <2>1. e \in from..(f - 1) /\ e <= Len(s)
      BY <1>1, <1>2, <1>4
    <2> QED BY <1>1, <1>2, <2>1
  <1>5. f = e
    BY <1>1, <1>2, <1>3, <1>4
  <1> QED BY <1>5 DEF f

LEMMA SkipBlanksAt ==
  ASSUME NEW S, NEW s \in Seq(S), NEW from \in 1..(Len(s) + 1)
  PROVE  /\ SkipBlanks(s, from) \in from..(Len(s) + 1)
         /\ \A k \in from..(SkipBlanks(s, from) - 1) : s[k] = Blank
         /\ SkipBlanks(s, from) <= Len(s) => s[SkipBlanks(s, from)] # Blank
  <1> DEFINE T == {k \in from..Len(s) : s[k] # Blank} \cup {Len(s) + 1}
             e == SkipBlanks(s, from)
  <1>1. Len(s) \in Nat
    BY LenProperties
  <1>2. T \in SUBSET Nat /\ T # {}
    BY <1>1
  <1>3. e \in T /\ \A y \in T : e <= y
    BY <1>2, LeastIs DEF SkipBlanks
  <1> HIDE DEF e
  <1>4. e \in from..(Len(s) + 1) /\ (e <= Len(s) => s[e] # Blank)
    BY <1>1, <1>3
  <1>5. ASSUME NEW k \in from..(e - 1) PROVE s[k] = Blank
    <2>1. k \in from..Len(s) /\ ~(e <= k)
      BY <1>1, <1>4
    <2> QED BY <1>3, <2>1
  <1> QED BY <1>4, <1>5 DEF e

SkippedTo(s, from, e) ==
  /\ e \in from..(Len(s) + 1)
  /\ \A k \in from..(e - 1) : s[k] = Blank
  /\ e <= Len(s) => s[e] # Blank

LEMMA SkipBlanksOnly ==
  ASSUME NEW S, NEW s \in Seq(S), NEW from \in 1..(Len(s) + 1),
         NEW e, SkippedTo(s, from, e)
  PROVE  SkipBlanks(s, from) = e
  <1> DEFINE f == SkipBlanks(s, from)
  <1>0. Len(s) \in Nat
    BY LenProperties
  <1>1. /\ Len(s) \in Nat /\ e \in from..(Len(s) + 1)
        /\ \A k \in from..(e - 1) : s[k] = Blank
        /\ e <= Len(s) => s[e] # Blank
    BY <1>0 DEF SkippedTo
  <1>2. /\ f \in from..(Len(s) + 1)
        /\ \A k \in from..(f - 1) : s[k] = Blank
        /\ f <= Len(s) => s[f] # Blank
    BY SkipBlanksAt
  <1> HIDE DEF f
  <1>3. CASE f < e
    <2>1. f \in from..(e - 1) /\ f <= Len(s)
      BY <1>0, <1>1, <1>2, <1>3
    <2> QED BY <1>1, <1>2, <2>1
  <1>4. CASE e < f
    <2>1. e \in from..(f - 1) /\ e <= Len(s)
      BY <1>1, <1>2, <1>4
    <2> QED BY <1>1, <1>2, <2>1
  <1>5. f = e
    BY <1>1, <1>2, <1>3, <1>4
  <1> QED BY <1>5 DEF f

\* No word reaches from u into v.
Seam(u, v, sep) ==
  Len(u) = 0 \/ Len(v) = 0 \/ u[Len(u)] \in sep \/ v[1] \in sep

LEMMA Joined ==
  ASSUME NEW S, NEW u \in Seq(S), NEW v \in Seq(S)
  PROVE  /\ u \o v \in Seq(S) /\ Len(u) \in Nat /\ Len(v) \in Nat
         /\ Len(u \o v) = Len(u) + Len(v)
         /\ \A k \in 1..Len(u) : (u \o v)[k] = u[k]
         /\ \A k \in 1..Len(v) : (u \o v)[Len(u) + k] = v[k]
  <1>1. Len(u) \in Nat /\ Len(v) \in Nat
    BY LenProperties
  <1>2. /\ u \o v \in Seq(S) /\ Len(u \o v) = Len(u) + Len(v)
        /\ \A k \in 1..Len(u) + Len(v) :
             (u \o v)[k] = IF k <= Len(u) THEN u[k] ELSE v[k - Len(u)]
    BY ConcatProperties
  <1>3. ASSUME NEW k \in 1..Len(u) PROVE (u \o v)[k] = u[k]
    <2>1. k \in 1..Len(u) + Len(v) /\ k <= Len(u)
      BY <1>1
    <2> QED BY <1>2, <2>1
  <1>4. ASSUME NEW k \in 1..Len(v) PROVE (u \o v)[Len(u) + k] = v[k]
    <2>1. Len(u) + k \in 1..Len(u) + Len(v) /\ ~(Len(u) + k <= Len(u))
          /\ (Len(u) + k) - Len(u) = k
      BY <1>1
    <2> QED BY <1>2, <2>1
  <1> QED BY <1>1, <1>2, <1>3, <1>4

FoundBefore(u, v, sep) ==
  Seam(u, v, sep) => \A a \in 1..Len(u) : Find(u \o v, sep, a) = Find(u, sep, a)

FoundBehind(u, v, sep) ==
  \A b \in 1..(Len(v) + 1) : Find(u \o v, sep, Len(u) + b) = Len(u) + Find(v, sep, b)

LEMMA FindJoined ==
  ASSUME NEW S, NEW sep, NEW u \in Seq(S), NEW v \in Seq(S)
  PROVE  FoundBefore(u, v, sep) /\ FoundBehind(u, v, sep)
  <1> DEFINE s == u \o v
  <1>1. /\ s \in Seq(S) /\ Len(u) \in Nat /\ Len(v) \in Nat /\ Len(s) = Len(u) + Len(v)
        /\ \A k \in 1..Len(u) : s[k] = u[k]
        /\ \A k \in 1..Len(v) : s[Len(u) + k] = v[k]
    BY Joined
  <1> HIDE DEF s
  <1>2. ASSUME Seam(u, v, sep), NEW a \in 1..Len(u) PROVE Find(s, sep, a) = Find(u, sep, a)
    <2> DEFINE e == Find(u, sep, a)
    <2>1. /\ e \in a..(Len(u) + 1) /\ \A k \in a..(e - 1) : u[k] \notin sep
          /\ e <= Len(u) => u[e] \in sep
      <3>1. a \in 1..(Len(u) + 1)
        BY <1>1
      <3> QED BY <3>1, FindAt
    <2> HIDE DEF e
    <2>2. a \in 1..(Len(s) + 1) /\ e \in a..(Len(s) + 1)
      BY <1>1, <2>1
    <2>3. ASSUME NEW k \in a..(e - 1) PROVE s[k] \notin sep
      <3>1. k \in 1..Len(u)
        BY <1>1, <2>1
      <3> QED BY <1>1, <2>1, <3>1
    <2>4. ASSUME e <= Len(s) PROVE s[e] \in sep
      <3>1. CASE e <= Len(u)
        <4>1. e \in 1..Len(u)
          BY <1>1, <2>1, <3>1
        <4> QED BY <1>1, <2>1, <3>1, <4>1
      <3>2. CASE ~(e <= Len(u))
        <4>1. e = Len(u) + 1 /\ Len(v) # 0 /\ Len(u) # 0 /\ 1 \in 1..Len(v)
          BY <1>1, <2>1, <2>4, <3>2
        <4>2. Len(u) \in a..(e - 1)
          BY <1>1, <4>1
        <4>3. v[1] \in sep
          BY <1>2, <2>1, <4>1, <4>2 DEF Seam
        <4>4. s[Len(u) + 1] = v[1]
          BY <1>1, <4>1
        <4> QED BY <4>1, <4>3, <4>4
      <3> QED BY <3>1, <3>2
    <2>5. FirstAt(s, sep, a, e)
      BY <2>2, <2>3, <2>4 DEF FirstAt
    <2>6. Find(s, sep, a) = e
      BY <1>1, <2>2, <2>5, FindOnly
    <2> QED BY <2>6 DEF e
  <1>3. ASSUME NEW b \in 1..(Len(v) + 1)
        PROVE  Find(s, sep, Len(u) + b) = Len(u) + Find(v, sep, b)
    <2> DEFINE e == Find(v, sep, b)
    <2>1. /\ e \in b..(Len(v) + 1) /\ \A k \in b..(e - 1) : v[k] \notin sep
          /\ e <= Len(v) => v[e] \in sep
      BY FindAt
    <2> HIDE DEF e
    <2> DEFINE a == Len(u) + b
               f == Len(u) + e
    <2>2. a \in 1..(Len(s) + 1) /\ f \in a..(Len(s) + 1)
      BY <1>1, <2>1
    <2>3. ASSUME NEW k \in a..(f - 1) PROVE s[k] \notin sep
      <3>1. k - Len(u) \in b..(e - 1) /\ k - Len(u) \in 1..Len(v)
            /\ Len(u) + (k - Len(u)) = k
        BY <1>1, <2>1
      <3>2. s[Len(u) + (k - Len(u))] = v[k - Len(u)]
        BY <1>1, <3>1
      <3> QED BY <2>1, <3>1, <3>2
    <2>4. ASSUME f <= Len(s) PROVE s[f] \in sep
      <3>1. e <= Len(v) /\ e \in 1..Len(v)
        BY <1>1, <2>1, <2>4
      <3> QED BY <1>1, <2>1, <3>1
    <2> HIDE DEF a, f
    <2>5. FirstAt(s, sep, a, f)
      BY <2>2, <2>3, <2>4 DEF FirstAt
    <2>6. Find(s, sep, a) = f
      BY <1>1, <2>2, <2>5, FindOnly
    <2> QED BY <2>6 DEF a, f, e
  <1> QED BY <1>2, <1>3 DEF s, FoundBefore, FoundBehind

\* The places t, further back.
Shift(t, d) == [k \in 1..Len(t) |-> t[k] + d]

LEMMA ShiftIs ==
  ASSUME NEW t \in Seq(Nat), NEW d \in Nat
  PROVE  /\ Shift(t, d) \in Seq(Nat) /\ Len(Shift(t, d)) = Len(t) /\ Len(t) \in Nat
         /\ \A k \in 1..Len(t) : Shift(t, d)[k] = t[k] + d
  <1>1. Len(t) \in Nat
    BY LenProperties
  <1>2. ASSUME NEW k \in 1..Len(t) PROVE t[k] + d \in Nat
    <2>1. t[k] \in Nat
      BY ElementOfSeq
    <2> QED BY <2>1
  <1>3. Shift(t, d) \in [1..Len(t) -> Nat]
    BY <1>2 DEF Shift
  <1> QED BY <1>1, <1>3 DEF Shift

LEMMA ShiftAppend ==
  ASSUME NEW t \in Seq(Nat), NEW k \in Nat, NEW d \in Nat
  PROVE  Shift(Append(t, k), d) = Append(Shift(t, d), k + d)
  <1> DEFINE a == Append(t, k)
             b == Append(Shift(t, d), k + d)
  <1>1. /\ a \in Seq(Nat) /\ Len(a) = Len(t) + 1
        /\ \A j \in 1..Len(t) : a[j] = t[j]
        /\ a[Len(t) + 1] = k
    BY AppendProperties
  <1>2. /\ Shift(t, d) \in Seq(Nat) /\ Len(Shift(t, d)) = Len(t) /\ Len(t) \in Nat
        /\ \A j \in 1..Len(t) : Shift(t, d)[j] = t[j] + d
    BY ShiftIs
  <1>3. /\ b \in Seq(Nat) /\ Len(b) = Len(t) + 1
        /\ \A j \in 1..Len(t) : b[j] = t[j] + d
        /\ b[Len(t) + 1] = k + d
    <2> DEFINE c == Shift(t, d)
               x == k + d
    <2>1. c \in Seq(Nat) /\ Len(c) = Len(t) /\ x \in Nat
      BY <1>2
    <2> HIDE DEF c, x
    <2>2. /\ Append(c, x) \in Seq(Nat) /\ Len(Append(c, x)) = Len(c) + 1
          /\ \A j \in 1..Len(c) : Append(c, x)[j] = c[j]
          /\ Append(c, x)[Len(c) + 1] = x
      BY <2>1, AppendProperties
    <2> QED BY <1>2, <2>1, <2>2 DEF c, x
  <1> HIDE DEF a, b
  <1>4. /\ Shift(a, d) \in Seq(Nat) /\ Len(Shift(a, d)) = Len(a)
        /\ \A j \in 1..Len(a) : Shift(a, d)[j] = a[j] + d
    BY <1>1, ShiftIs
  <1>5. ASSUME NEW j \in 1..Len(a) PROVE Shift(a, d)[j] = b[j]
    <2>1. j \in 1..Len(t) \/ j = Len(t) + 1
      BY <1>1, <1>2
    <2>2. Shift(a, d)[j] = a[j] + d
      BY <1>4
    <2>3. CASE j \in 1..Len(t)
      BY <1>1, <1>3, <2>2, <2>3
    <2>4. CASE j = Len(t) + 1
      BY <1>1, <1>3, <2>2, <2>4
    <2> QED BY <2>1, <2>3, <2>4
  <1>6. Shift(a, d) = b
    BY <1>1, <1>3, <1>4, <1>5, SeqEqual
  <1> QED BY <1>6 DEF a, b

NextCollects(s, sep, n, g) ==
  /\ g[0] = <<>>
  /\ \A k \in 1..n :
       g[k] = IF s[k] \notin sep /\ (k = 1 \/ s[k - 1] \in sep)
              THEN Append(g[k - 1], k) ELSE g[k - 1]

LEMMA CollectsNext ==
  ASSUME NEW s, NEW sep, NEW n \in Nat, NEW g, Collects(s, sep, n, g)
  PROVE  NextCollects(s, sep, n, g)
  <1>1. 0 \in 0..n /\ \A k \in 1..n : k \in 0..n /\ k # 0
    OBVIOUS
  <1> QED BY <1>1 DEF Collects, NextCollects

LEMMA StartsJoined ==
  ASSUME NEW S, NEW sep, NEW u \in Seq(S), NEW v \in Seq(S), Seam(u, v, sep)
  PROVE  Starts(u \o v, sep) = Starts(u, sep) \o Shift(Starts(v, sep), Len(u))
  <1> DEFINE s == u \o v
             d == Len(u)
  <1>1. /\ s \in Seq(S) /\ d \in Nat /\ Len(v) \in Nat /\ Len(s) = d + Len(v)
        /\ \A k \in 1..d : s[k] = u[k]
        /\ \A k \in 1..Len(v) : s[d + k] = v[k]
    BY Joined
  <1> HIDE DEF s
  <1>2. Len(s) \in Nat
    BY <1>1
  <1>3. PICK g : Collects(s, sep, Len(s), g) /\ Starts(s, sep) = g[Len(s)]
    BY <1>2, StartsCollected
  <1>4. PICK p : Collects(u, sep, d, p) /\ Starts(u, sep) = p[d]
    BY <1>1, StartsCollected
  <1>5. PICK q : Collects(v, sep, Len(v), q) /\ Starts(v, sep) = q[Len(v)]
    BY <1>1, StartsCollected
  <1>6. /\ g[0] = <<>>
        /\ \A k \in 1..Len(s) :
             g[k] = IF s[k] \notin sep /\ (k = 1 \/ s[k - 1] \in sep)
                    THEN Append(g[k - 1], k) ELSE g[k - 1]
    <2>1. NextCollects(s, sep, Len(s), g)
      BY <1>2, <1>3, CollectsNext
    <2> QED BY <2>1 DEF NextCollects
  <1>7. /\ p[0] = <<>>
        /\ \A k \in 1..d :
             p[k] = IF u[k] \notin sep /\ (k = 1 \/ u[k - 1] \in sep)
                    THEN Append(p[k - 1], k) ELSE p[k - 1]
    <2>1. NextCollects(u, sep, d, p)
      BY <1>1, <1>4, CollectsNext
    <2> QED BY <2>1 DEF NextCollects
  <1>8. /\ q[0] = <<>>
        /\ \A k \in 1..Len(v) :
             q[k] = IF v[k] \notin sep /\ (k = 1 \/ v[k - 1] \in sep)
                    THEN Append(q[k - 1], k) ELSE q[k - 1]
    <2>1. NextCollects(v, sep, Len(v), q)
      BY <1>1, <1>5, CollectsNext
    <2> QED BY <2>1 DEF NextCollects
  <1>9. p[d] \in Seq(Nat) /\ \A k \in 0..Len(v) : q[k] \in Seq(Nat)
    <2>1. Heads(u, sep) \subseteq Nat /\ Heads(v, sep) \subseteq Nat
      BY DEF Heads
    <2>2. d \in 0..d
      BY <1>1
    <2>3. p[d] \in Seq(Heads(u, sep)) /\ \A k \in 0..Len(v) : q[k] \in Seq(Heads(v, sep))
      BY <1>1, <1>4, <1>5, <2>2, CollectedAre
    <2>4. p[d] \in Seq(Nat)
      BY <2>1, <2>3, SeqMonotonic
    <2>5. ASSUME NEW k \in 0..Len(v) PROVE q[k] \in Seq(Nat)
      <3>1. q[k] \in Seq(Heads(v, sep))
        BY <2>3
      <3> QED BY <2>1, <3>1, SeqMonotonic
    <2> QED BY <2>4, <2>5
  <1>10. \A x, y, z \in Seq(Nat) : (x \o y) \o z = x \o (y \o z)
    BY Associates, SMTT(20)
  <1>11. g[d] = p[d]
    <2> DEFINE T == {k \in Nat : k <= d => g[k] = p[k]}
    <2>1. 0 \in T
      BY <1>6, <1>7
    <2>2. ASSUME NEW k \in Nat, k \in T PROVE k + 1 \in T
      <3>1. ASSUME k + 1 <= d PROVE g[k + 1] = p[k + 1]
        <4> DEFINE j == k + 1
        <4>1. /\ j \in 1..d /\ j \in 1..Len(s) /\ j - 1 = k /\ g[k] = p[k]
              /\ j = 1 \/ j - 1 \in 1..d
          BY <1>1, <2>2, <3>1
        <4> HIDE DEF j
        <4>2. s[j] = u[j] /\ (j = 1 \/ s[j - 1] = u[j - 1])
          BY <1>1, <4>1
        <4>3. g[j] = IF s[j] \notin sep /\ (j = 1 \/ s[j - 1] \in sep)
                     THEN Append(g[j - 1], j) ELSE g[j - 1]
          BY <1>6, <4>1
        <4>4. p[j] = IF u[j] \notin sep /\ (j = 1 \/ u[j - 1] \in sep)
                     THEN Append(p[j - 1], j) ELSE p[j - 1]
          BY <1>7, <4>1
        <4>5. g[j] = p[j]
          BY <4>1, <4>2, <4>3, <4>4
        <4> QED BY <4>5 DEF j
      <3> QED BY <3>1
    <2> HIDE DEF T
    <2>3. d \in T
      <3>1. Nat \subseteq T
        BY <2>1, <2>2, Induction
      <3> QED BY <1>1, <3>1
    <2> QED BY <1>1, <2>3 DEF T
  <1>12. g[d + Len(v)] = p[d] \o Shift(q[Len(v)], d)
    <2> DEFINE Glued(k) == g[d + k] = p[d] \o Shift(q[k], d)
               T == {k \in Nat : k <= Len(v) => Glued(k)}
    <2>1. Glued(0)
      <3>1. Shift(<<>>, d) = <<>>
        <4>1. <<>> \in Seq(Nat) /\ Len(<<>>) = 0
          OBVIOUS
        <4>2. Shift(<<>>, d) \in Seq(Nat) /\ Len(Shift(<<>>, d)) = 0
          BY <1>1, <4>1, ShiftIs
        <4> QED BY <4>2, EmptySeq
      <3>2. p[d] \o <<>> = p[d]
        BY <1>9, ConcatEmptySeq
      <3>3. d + 0 = d
        BY <1>1
      <3> QED BY <1>8, <1>11, <3>1, <3>2, <3>3
    <2>2. ASSUME NEW k \in Nat, Glued(k), k + 1 <= Len(v) PROVE Glued(k + 1)
      <3> DEFINE j == k + 1
                 n == d + j
      <3>1. /\ j \in 1..Len(v) /\ j - 1 = k /\ k \in 0..Len(v)
            /\ n \in 1..Len(s) /\ n - 1 = d + k /\ n = j + d /\ n \in Nat /\ j \in Nat
        BY <1>1, <2>2
      <3>2. g[d + k] = p[d] \o Shift(q[k], d) /\ q[k] \in Seq(Nat)
        BY <1>9, <2>2, <3>1
      <3>3. s[n] = v[j]
        BY <1>1, <3>1
      <3>4. v[j] \notin sep => ((n = 1 \/ s[n - 1] \in sep) <=> (j = 1 \/ v[j - 1] \in sep))
        <4>1. CASE j = 1
          <5>1. n = d + 1 /\ Len(v) # 0
            BY <1>1, <3>1, <4>1
          <5>2. v[1] \notin sep => d = 0 \/ u[d] \in sep
            BY <5>1 DEF Seam
          <5>3. d = 0 \/ (n - 1 = d /\ s[d] = u[d])
            <6>1. d = 0 \/ d \in 1..d
              BY <1>1
            <6> QED BY <1>1, <5>1, <6>1
          <5>4. d = 0 => n = 1
            BY <5>1
          <5> QED BY <4>1, <5>2, <5>3, <5>4
        <4>2. CASE j # 1
          <5>1. k \in 1..Len(v) /\ n # 1
            BY <1>1, <3>1, <4>2
          <5>2. s[n - 1] = v[j - 1]
            BY <1>1, <3>1, <5>1
          <5> QED BY <4>2, <5>1, <5>2
        <4> QED BY <4>1, <4>2
      <3>5. g[n] = IF s[n] \notin sep /\ (n = 1 \/ s[n - 1] \in sep)
                   THEN Append(g[n - 1], n) ELSE g[n - 1]
        BY <1>6, <3>1
      <3>6. q[j] = IF v[j] \notin sep /\ (j = 1 \/ v[j - 1] \in sep)
                   THEN Append(q[j - 1], j) ELSE q[j - 1]
        BY <1>8, <3>1
      <3> HIDE DEF j, n
      <3> DEFINE x == Shift(q[k], d)
      <3>7. x \in Seq(Nat)
        BY <1>1, <3>2, ShiftIs
      <3>8. CASE v[j] \notin sep /\ (j = 1 \/ v[j - 1] \in sep)
        <4>1. q[j] = Append(q[k], j) /\ g[n] = Append(g[d + k], n)
          BY <3>1, <3>3, <3>4, <3>5, <3>6, <3>8
        <4>2. Shift(q[j], d) = Append(x, n)
          <5>1. Shift(Append(q[k], j), d) = Append(Shift(q[k], d), j + d)
            BY <1>1, <3>1, <3>2, ShiftAppend
          <5> QED BY <3>1, <4>1, <5>1
        <4> HIDE DEF x
        <4>3. p[d] \o Append(x, n) = Append(p[d] \o x, n)
          <5> DEFINE y == p[d]
          <5>1. y \in Seq(Nat) /\ <<n>> \in Seq(Nat)
            BY <1>9, <3>1
          <5> HIDE DEF y
          <5>2. y \o x \in Seq(Nat)
            BY <3>7, <5>1, ConcatProperties
          <5>3. Append(x, n) = x \o <<n>> /\ Append(y \o x, n) = (y \o x) \o <<n>>
            BY <3>1, <3>7, <5>2, AppendIsConcat
          <5>4. (y \o x) \o <<n>> = y \o (x \o <<n>>)
            BY <1>10, <3>7, <5>1
          <5>5. y \o Append(x, n) = Append(y \o x, n)
            BY <5>3, <5>4
          <5> QED BY <5>5 DEF y
        <4>4. g[n] = p[d] \o Shift(q[j], d)
          BY <3>2, <4>1, <4>2, <4>3 DEF x
        <4> QED BY <4>4 DEF j, n
      <3>9. CASE ~(v[j] \notin sep /\ (j = 1 \/ v[j - 1] \in sep))
        <4>1. q[j] = q[k] /\ g[n] = g[d + k]
          BY <3>1, <3>3, <3>4, <3>5, <3>6, <3>9
        <4>2. g[n] = p[d] \o Shift(q[j], d)
          BY <3>2, <4>1
        <4> QED BY <4>2 DEF j, n
      <3> QED BY <3>8, <3>9
    <2> HIDE DEF Glued
    <2>3. 0 \in T /\ \A k \in Nat : k \in T => k + 1 \in T
      <3>1. \A k \in Nat : k + 1 <= Len(v) => k <= Len(v)
        BY <1>1
      <3> QED BY <2>1, <2>2, <3>1
    <2> HIDE DEF T
    <2>4. Len(v) \in T
      <3>1. Nat \subseteq T
        BY <2>3, Induction
      <3> QED BY <1>1, <3>1
    <2>5. Glued(Len(v))
      BY <1>1, <2>4 DEF T
    <2> QED BY <2>5 DEF Glued
  <1> QED BY <1>1, <1>3, <1>4, <1>5, <1>12 DEF s

LEMMA WordIs ==
  ASSUME NEW S, NEW sep, NEW s \in Seq(S)
  PROVE  /\ Words(s, sep) \in Seq(Seq(S)) /\ Starts(s, sep) \in Seq(Nat)
         /\ Len(Words(s, sep)) = Len(Starts(s, sep)) /\ Len(Starts(s, sep)) \in Nat
         /\ \A k \in 1..Len(Starts(s, sep)) :
              /\ Starts(s, sep)[k] \in 1..Len(s) /\ s[Starts(s, sep)[k]] \notin sep
              /\ Starts(s, sep)[k] = 1 \/ s[Starts(s, sep)[k] - 1] \in sep
              /\ Words(s, sep)[k] = SubSeq(s, Starts(s, sep)[k], Find(s, sep, Starts(s, sep)[k]) - 1)
  <1>1. Starts(s, sep) \in Seq(Heads(s, sep))
    BY StartsAre
  <1>2. Starts(s, sep) \in Seq(Nat)
    <2>1. Heads(s, sep) \subseteq Nat
      BY DEF Heads
    <2> QED BY <1>1, <2>1, SeqMonotonic
  <1>3. Words(s, sep) \in Seq(Seq(S))
    BY WordsAre
  <1>4. Len(Starts(s, sep)) \in Nat
    BY <1>2, LenProperties
  <1>5. ASSUME NEW k \in 1..Len(Starts(s, sep))
        PROVE  /\ Starts(s, sep)[k] \in 1..Len(s) /\ s[Starts(s, sep)[k]] \notin sep
               /\ Starts(s, sep)[k] = 1 \/ s[Starts(s, sep)[k] - 1] \in sep
    <2>1. Starts(s, sep)[k] \in Heads(s, sep)
      BY <1>1, ElementOfSeq
    <2> QED BY <2>1 DEF Heads
  <1>6. Words(s, sep) = [k \in 1..Len(Starts(s, sep)) |->
                      SubSeq(s, Starts(s, sep)[k], Find(s, sep, Starts(s, sep)[k]) - 1)]
    BY DEF Words
  <1>7. Len(Words(s, sep)) = Len(Starts(s, sep))
    <2>1. /\ DOMAIN Words(s, sep) = 1..Len(Starts(s, sep))
          /\ DOMAIN Words(s, sep) = 1..Len(Words(s, sep))
      BY <1>3, <1>6, LenProperties
    <2>2. Len(Words(s, sep)) \in Nat
      BY <1>3, LenProperties
    <2> QED BY <1>4, <2>1, <2>2
  <1> QED BY <1>2, <1>3, <1>4, <1>5, <1>6, <1>7

LEMMA WordsJoined ==
  ASSUME NEW S, NEW sep, NEW u \in Seq(S), NEW v \in Seq(S), Seam(u, v, sep)
  PROVE  Words(u \o v, sep) = Words(u, sep) \o Words(v, sep)
  <1> DEFINE s == u \o v
             d == Len(u)
             m == Len(Starts(u, sep))
             n == Len(Starts(v, sep))
  <1> DEFINE Glue(V) ==
               \A p \in Seq(V) : \A q \in Seq(V) :
                 /\ p \o q \in Seq(V) /\ Len(p \o q) = Len(p) + Len(q)
                 /\ \A k \in 1..Len(p) : (p \o q)[k] = p[k]
                 /\ \A k \in 1..Len(q) : (p \o q)[Len(p) + k] = q[k]
  <1>0. Glue(Nat) /\ Glue(Seq(S))
    BY Joined
  <1>1. s \in Seq(S) /\ d \in Nat /\ Len(v) \in Nat /\ Len(s) = d + Len(v)
    BY Joined
  <1>2. /\ Words(u, sep) \in Seq(Seq(S)) /\ Starts(u, sep) \in Seq(Nat) /\ Len(Words(u, sep)) = m
        /\ m \in Nat
        /\ \A k \in 1..m :
             /\ Starts(u, sep)[k] \in 1..d /\ u[Starts(u, sep)[k]] \notin sep
             /\ Words(u, sep)[k] = SubSeq(u, Starts(u, sep)[k], Find(u, sep, Starts(u, sep)[k]) - 1)
    BY WordIs
  <1>3. /\ Words(v, sep) \in Seq(Seq(S)) /\ Starts(v, sep) \in Seq(Nat) /\ Len(Words(v, sep)) = n
        /\ n \in Nat
        /\ \A k \in 1..n :
             /\ Starts(v, sep)[k] \in 1..Len(v) /\ v[Starts(v, sep)[k]] \notin sep
             /\ Words(v, sep)[k] = SubSeq(v, Starts(v, sep)[k], Find(v, sep, Starts(v, sep)[k]) - 1)
    BY WordIs
  <1>4. /\ Words(s, sep) \in Seq(Seq(S)) /\ Len(Words(s, sep)) = Len(Starts(s, sep))
        /\ \A k \in 1..Len(Starts(s, sep)) :
             Words(s, sep)[k] = SubSeq(s, Starts(s, sep)[k], Find(s, sep, Starts(s, sep)[k]) - 1)
    <2> HIDE DEF s
    <2> QED BY <1>1, WordIs, SMTT(20)
  <1> DEFINE sh == Shift(Starts(v, sep), d)
  <1>5. sh \in Seq(Nat) /\ Len(sh) = n /\ \A k \in 1..n : sh[k] = Starts(v, sep)[k] + d
    BY <1>1, <1>3, ShiftIs
  <1>6. Starts(s, sep) = Starts(u, sep) \o sh
    BY StartsJoined
  <1> DEFINE w == Words(u, sep) \o Words(v, sep)
  <1>7. /\ w \in Seq(Seq(S)) /\ Len(w) = m + n
        /\ \A k \in 1..m : w[k] = Words(u, sep)[k]
        /\ \A k \in 1..n : w[m + k] = Words(v, sep)[k]
    <2> DEFINE p == Words(u, sep)
               q == Words(v, sep)
    <2>1. p \in Seq(Seq(S)) /\ q \in Seq(Seq(S)) /\ Len(p) = m /\ Len(q) = n
      BY <1>2, <1>3
    <2> HIDE DEF p, q
    <2>2. /\ p \o q \in Seq(Seq(S)) /\ Len(p \o q) = Len(p) + Len(q)
          /\ \A k \in 1..Len(p) : (p \o q)[k] = p[k]
          /\ \A k \in 1..Len(q) : (p \o q)[Len(p) + k] = q[k]
      BY <1>0, <2>1
    <2> QED BY <2>1, <2>2 DEF p, q
  <1> HIDE DEF sh, w
  <1>8. /\ Len(Starts(s, sep)) = m + n
        /\ \A k \in 1..m : Starts(s, sep)[k] = Starts(u, sep)[k]
        /\ \A k \in 1..n : Starts(s, sep)[m + k] = sh[k]
    <2> DEFINE p == Starts(u, sep)
    <2>1. p \in Seq(Nat) /\ Len(p) = m
      BY <1>2
    <2> HIDE DEF p
    <2>2. /\ Len(p \o sh) = Len(p) + Len(sh)
          /\ \A k \in 1..Len(p) : (p \o sh)[k] = p[k]
          /\ \A k \in 1..Len(sh) : (p \o sh)[Len(p) + k] = sh[k]
      BY <1>0, <1>5, <2>1
    <2> QED BY <1>5, <1>6, <2>1, <2>2 DEF p
  <1>9. ASSUME NEW k \in 1..m PROVE Words(s, sep)[k] = w[k]
    <2> DEFINE a == Starts(u, sep)[k]
    <2>1. /\ a \in 1..d /\ u[a] \notin sep
          /\ Words(u, sep)[k] = SubSeq(u, a, Find(u, sep, a) - 1)
      BY <1>2
    <2>2. Words(s, sep)[k] = SubSeq(s, a, Find(s, sep, a) - 1)
      <3>1. k \in 1..Len(Starts(s, sep)) /\ Starts(s, sep)[k] = a
        BY <1>2, <1>3, <1>8
      <3> QED BY <1>4, <3>1
    <2> HIDE DEF a
    <2>3. Find(s, sep, a) = Find(u, sep, a)
      <3>1. FoundBefore(u, v, sep)
        BY FindJoined
      <3> QED BY <2>1, <3>1 DEF FoundBefore
    <2> DEFINE e == Find(u, sep, a) - 1
    <2>4. e \in 1..d
      <3>1. a \in 1..(d + 1)
        BY <1>1, <2>1
      <3>2. Find(u, sep, a) \in a..(d + 1) /\ Find(u, sep, a) > a
        BY <2>1, <3>1, FindIs
      <3> QED BY <1>1, <2>1, <3>2
    <2>5. Words(s, sep)[k] = SubSeq(s, a, e) /\ Words(u, sep)[k] = SubSeq(u, a, e)
      BY <2>1, <2>2, <2>3
    <2> HIDE DEF e
    <2>6. SubSeq(s, a, e) = SubSeq(u, a, e)
      BY <2>1, <2>4, SubSeqOfConcat1
    <2> QED BY <1>7, <2>5, <2>6
  <1>10. ASSUME NEW k \in 1..n PROVE Words(s, sep)[m + k] = w[m + k]
    <2> DEFINE b == Starts(v, sep)[k]
    <2>1. /\ b \in 1..Len(v) /\ v[b] \notin sep
          /\ Words(v, sep)[k] = SubSeq(v, b, Find(v, sep, b) - 1)
      BY <1>3
    <2>2. Words(s, sep)[m + k] = SubSeq(s, d + b, Find(s, sep, d + b) - 1)
      <3>1. m + k \in 1..Len(Starts(s, sep))
        BY <1>2, <1>3, <1>8
      <3>2. Starts(s, sep)[m + k] = b + d
        BY <1>5, <1>8
      <3>3. b + d = d + b
        BY <1>1, <2>1
      <3> QED BY <1>4, <3>1, <3>2, <3>3
    <2> HIDE DEF b
    <2>3. b \in 1..(Len(v) + 1)
      BY <1>1, <2>1
    <2>4. Find(s, sep, d + b) = d + Find(v, sep, b)
      <3>1. FoundBehind(u, v, sep)
        BY FindJoined
      <3> QED BY <2>3, <3>1 DEF FoundBehind
    <2> DEFINE e == Find(v, sep, b) - 1
               x == d + b
               y == d + e
    <2>5. e \in 1..Len(v) /\ Find(s, sep, d + b) - 1 = y
      <3>1. Find(v, sep, b) \in b..(Len(v) + 1) /\ Find(v, sep, b) > b
        BY <1>1, <2>1, <2>3, FindIs
      <3> QED BY <1>1, <2>1, <2>4, <3>1
    <2>6. Words(s, sep)[m + k] = SubSeq(s, x, y) /\ Words(v, sep)[k] = SubSeq(v, b, e)
      BY <2>1, <2>2, <2>5
    <2> HIDE DEF e
    <2>7. /\ x \in (d + 1)..(d + Len(v)) /\ y \in (d + 1)..(d + Len(v))
          /\ x - d = b /\ y - d = e
      BY <1>1, <2>1, <2>5
    <2> HIDE DEF x, y
    <2>8. SubSeq(s, x, y) = SubSeq(v, x - d, y - d)
      BY <2>7, SubSeqOfConcat2
    <2> QED BY <1>7, <2>6, <2>7, <2>8
  <1>11. ASSUME NEW k \in 1..Len(w) PROVE Words(s, sep)[k] = w[k]
    <2>1. k \in 1..m \/ (k - m \in 1..n /\ m + (k - m) = k)
      BY <1>2, <1>3, <1>7
    <2> QED BY <1>9, <1>10, <2>1
  <1>12. Words(s, sep) = w
    <2>1. Len(Words(s, sep)) = Len(w)
      BY <1>4, <1>7, <1>8
    <2> QED BY <1>4, <1>7, <1>11, <2>1, SeqEqual
  <1> QED BY <1>12 DEF s, w

LEMMA BlankWords ==
  ASSUME NEW S, NEW sep, NEW s \in Seq(S), \A k \in 1..Len(s) : s[k] \in sep
  PROVE  Starts(s, sep) = <<>> /\ Words(s, sep) = <<>>
  <1>1. Starts(s, sep) \in Seq(Heads(s, sep)) /\ Heads(s, sep) = {}
    BY StartsAre DEF Heads
  <1>2. Starts(s, sep) = <<>>
    <2>1. ASSUME Starts(s, sep) # <<>> PROVE FALSE
      <3>1. Len(Starts(s, sep)) \in Nat \ {0}
        BY <1>1, <2>1, EmptySeq
      <3>2. 1 \in 1..Len(Starts(s, sep))
        BY <3>1
      <3>3. Starts(s, sep)[1] \in Heads(s, sep)
        BY <1>1, <3>2, ElementOfSeq
      <3> QED BY <1>1, <3>3
    <2> QED BY <2>1
  <1>3. Words(s, sep) \in Seq(Seq(S)) /\ Len(Words(s, sep)) = Len(Starts(s, sep))
    BY WordIs
  <1>4. Len(Words(s, sep)) = 0
    BY <1>2, <1>3
  <1> QED BY <1>2, <1>3, <1>4, EmptySeq

LEMMA LoneWord ==
  ASSUME NEW S, NEW sep, NEW s \in Seq(S), Len(s) # 0, \A k \in 1..Len(s) : s[k] \notin sep
  PROVE  Starts(s, sep) = <<1>> /\ Words(s, sep) = <<s>>
  <1>1. Len(s) \in Nat /\ Len(s) >= 1
    BY LenProperties
  <1>2. PICK g : Collects(s, sep, Len(s), g) /\ Starts(s, sep) = g[Len(s)]
    BY <1>1, StartsCollected
  <1>3. /\ g[0] = <<>>
        /\ \A k \in 1..Len(s) :
             g[k] = IF s[k] \notin sep /\ (k = 1 \/ s[k - 1] \in sep)
                    THEN Append(g[k - 1], k) ELSE g[k - 1]
    <2>1. NextCollects(s, sep, Len(s), g)
      BY <1>1, <1>2, CollectsNext
    <2> QED BY <2>1 DEF NextCollects
  <1> DEFINE T == {k \in Nat : k + 1 <= Len(s) => g[k + 1] = <<1>>}
  <1>4. 0 \in T
    <2>1. 0 + 1 = 1 /\ 1 \in 1..Len(s) /\ 1 - 1 = 0
      BY <1>1
    <2>2. g[1] = Append(g[0], 1)
      BY <1>3, <2>1
    <2>3. Append(<<>>, 1) = <<1>>
      OBVIOUS
    <2> QED BY <1>3, <2>1, <2>2, <2>3
  <1>5. ASSUME NEW k \in Nat, k \in T PROVE k + 1 \in T
    <2>1. ASSUME (k + 1) + 1 <= Len(s) PROVE g[(k + 1) + 1] = <<1>>
      <3>1. /\ (k + 1) + 1 \in 1..Len(s) /\ k + 1 \in 1..Len(s) /\ (k + 1) + 1 # 1
            /\ ((k + 1) + 1) - 1 = k + 1 /\ k + 1 <= Len(s)
        BY <1>1, <2>1
      <3>2. s[((k + 1) + 1) - 1] \notin sep
        BY <3>1
      <3>3. g[(k + 1) + 1] = g[k + 1]
        BY <1>3, <3>1, <3>2
      <3> QED BY <1>5, <3>1, <3>3
    <2> QED BY <2>1
  <1> HIDE DEF T
  <1>6. Starts(s, sep) = <<1>>
    <2>1. Nat \subseteq T
      BY <1>4, <1>5, Induction
    <2>2. Len(s) - 1 \in T /\ (Len(s) - 1) + 1 = Len(s)
      BY <1>1, <2>1
    <2> QED BY <1>1, <1>2, <2>2 DEF T
  <1>7. Find(s, sep, 1) = Len(s) + 1
    <2>1. 1 \in 1..(Len(s) + 1)
      BY <1>1
    <2>2. FirstAt(s, sep, 1, Len(s) + 1)
      BY <1>1 DEF FirstAt
    <2> QED BY <2>1, <2>2, FindOnly
  <1>8. /\ Words(s, sep) \in Seq(Seq(S)) /\ Len(Words(s, sep)) = Len(Starts(s, sep))
        /\ \A k \in 1..Len(Starts(s, sep)) :
             Words(s, sep)[k] = SubSeq(s, Starts(s, sep)[k], Find(s, sep, Starts(s, sep)[k]) - 1)
    BY WordIs
  <1>9. Len(<<1>>) = 1 /\ <<1>>[1] = 1
    OBVIOUS
  <1>10. Len(Words(s, sep)) = 1 /\ Words(s, sep)[1] = SubSeq(s, 1, Find(s, sep, 1) - 1)
    <2>1. Len(Starts(s, sep)) = 1 /\ Starts(s, sep)[1] = 1
      BY <1>6, <1>9
    <2> QED BY <1>8, <2>1
  <1>11. Words(s, sep)[1] = s
    <2>1. (Len(s) + 1) - 1 = Len(s)
      BY <1>1
    <2> QED BY <1>7, <1>10, <2>1, SubSeqFull
  <1>12. Words(s, sep) = <<s>>
    <2> DEFINE w == Words(s, sep)
    <2>1. w \in Seq(Seq(S)) /\ Len(w) = 1 /\ w[1] = s
      BY <1>8, <1>10, <1>11
    <2> HIDE DEF w
    <2>2. w = <<s>>
      BY <2>1
    <2> QED BY <2>2 DEF w
  <1> QED BY <1>6, <1>12

\* A text, cut behind n.
LEMMA Cut ==
  ASSUME NEW S, NEW s \in Seq(S), NEW n \in 0..Len(s)
  PROVE  /\ SubSeq(s, 1, n) \in Seq(S) /\ SubSeq(s, n + 1, Len(s)) \in Seq(S)
         /\ Len(SubSeq(s, 1, n)) = n /\ Len(SubSeq(s, n + 1, Len(s))) = Len(s) - n
         /\ \A k \in 1..n : SubSeq(s, 1, n)[k] = s[k]
         /\ \A k \in 1..(Len(s) - n) : SubSeq(s, n + 1, Len(s))[k] = s[n + k]
         /\ s = SubSeq(s, 1, n) \o SubSeq(s, n + 1, Len(s))
  <1>1. Len(s) \in Nat /\ n \in Nat /\ n <= Len(s)
    BY LenProperties
  <1>2. /\ 1 \in Int /\ n \in Int /\ \A k \in 1..n : s[k] \in S
    BY <1>1, ElementOfSeq
  <1>3. /\ n + 1 \in Int /\ Len(s) \in Int /\ \A k \in (n + 1)..Len(s) : s[k] \in S
    BY <1>1, ElementOfSeq
  <1>4. /\ SubSeq(s, 1, n) \in Seq(S)
        /\ Len(SubSeq(s, 1, n)) = IF 1 <= n THEN n - 1 + 1 ELSE 0
        /\ \A k \in 1..(n - 1 + 1) : SubSeq(s, 1, n)[k] = s[1 + k - 1]
    BY <1>2, SubSeqProperties
  <1>5. /\ SubSeq(s, n + 1, Len(s)) \in Seq(S)
        /\ Len(SubSeq(s, n + 1, Len(s)))
             = IF n + 1 <= Len(s) THEN Len(s) - (n + 1) + 1 ELSE 0
        /\ \A k \in 1..(Len(s) - (n + 1) + 1) :
             SubSeq(s, n + 1, Len(s))[k] = s[(n + 1) + k - 1]
    BY <1>3, SubSeqProperties
  <1>6. /\ (IF 1 <= n THEN n - 1 + 1 ELSE 0) = n
        /\ (IF n + 1 <= Len(s) THEN Len(s) - (n + 1) + 1 ELSE 0) = Len(s) - n
        /\ n - 1 + 1 = n /\ Len(s) - (n + 1) + 1 = Len(s) - n
        /\ \A k \in Nat : 1 + k - 1 = k /\ (n + 1) + k - 1 = n + k
    BY <1>1
  <1>7. s = SubSeq(s, 1, n) \o SubSeq(s, n + 1, Len(s))
    <2>1. /\ 1 \in 1..(Len(s) + 1) /\ n \in (1 - 1)..Len(s) /\ Len(s) \in n..Len(s)
      BY <1>1
    <2>2. SubSeq(s, 1, n) \o SubSeq(s, n + 1, Len(s)) = SubSeq(s, 1, Len(s))
      BY <2>1, ConcatAdjacentSubSeq
    <2> QED BY <2>2, SubSeqFull
  <1> DEFINE u == SubSeq(s, 1, n)
             v == SubSeq(s, n + 1, Len(s))
  <1>8. /\ u \in Seq(S) /\ v \in Seq(S) /\ Len(u) = n /\ Len(v) = Len(s) - n
        /\ \A k \in 1..n : u[k] = s[1 + k - 1]
        /\ \A k \in 1..(Len(s) - n) : v[k] = s[(n + 1) + k - 1]
    BY <1>4, <1>5, <1>6
  <1> HIDE DEF u, v
  <1>9. /\ \A k \in 1..n : u[k] = s[k]
        /\ \A k \in 1..(Len(s) - n) : v[k] = s[n + k]
    <2>1. \A k \in 1..n : k \in Nat
      OBVIOUS
    <2>2. \A k \in 1..(Len(s) - n) : k \in Nat
      OBVIOUS
    <2> QED BY <1>6, <1>8, <2>1, <2>2
  <1> QED BY <1>7, <1>8, <1>9 DEF u, v

CutInto(S, s, n, u, v) ==
  /\ u \in Seq(S) /\ v \in Seq(S) /\ Len(u) = n /\ Len(v) = Len(s) - n
  /\ \A k \in 1..n : u[k] = s[k]
  /\ \A k \in 1..(Len(s) - n) : v[k] = s[n + k]
  /\ s = u \o v

LEMMA CutParts ==
  ASSUME NEW S, NEW s \in Seq(S), NEW n \in 0..Len(s)
  PROVE  CutInto(S, s, n, SubSeq(s, 1, n), SubSeq(s, n + 1, Len(s)))
  <1> DEFINE u == SubSeq(s, 1, n)
             v == SubSeq(s, n + 1, Len(s))
  <1>1. /\ u \in Seq(S) /\ v \in Seq(S) /\ Len(u) = n /\ Len(v) = Len(s) - n
        /\ \A k \in 1..n : u[k] = s[k]
        /\ \A k \in 1..(Len(s) - n) : v[k] = s[n + k]
        /\ s = u \o v
    BY Cut, ZenonT(20)
  <1> HIDE DEF u, v
  <1>2. CutInto(S, s, n, u, v)
    BY <1>1 DEF CutInto
  <1> QED BY <1>2 DEF u, v

\* All that is not in sep is in a word.
LEMMA FlattenWords ==
  ASSUME NEW S, NEW sep, sep \subseteq Dropped, NEW s \in Seq(S)
  PROVE  /\ FlattenSeq(Words(s, sep)) \in Seq(S)
         /\ Letters(FlattenSeq(Words(s, sep))) = Letters(s)
  <1> DEFINE AllTold(t) == Letters(FlattenSeq(Words(t, sep))) = Letters(t)
             T == {n \in Nat : \A t \in Seq(S) : Len(t) <= n => AllTold(t)}
  <1>1. ASSUME NEW t \in Seq(S), Len(t) = 0 PROVE AllTold(t)
    <2>1. t = <<>>
      BY <1>1, EmptySeq
    <2>2. \A k \in 1..Len(t) : t[k] \in sep /\ t[k] \in Dropped
      BY <1>1
    <2>3. Words(t, sep) = <<>> /\ Letters(t) = <<>>
      BY <2>2, BlankWords, NoLetters
    <2>4. FlattenSeq(<<>>) = <<>>
      BY FlattenFew
    <2> QED BY <2>1, <2>3, <2>4
  <1>2. 0 \in T
    <2>1. ASSUME NEW t \in Seq(S), Len(t) <= 0 PROVE AllTold(t)
      <3>1. Len(t) = 0
        BY <2>1, LenProperties
      <3> QED BY <1>1, <3>1
    <2> HIDE DEF AllTold
    <2> QED BY <2>1
  <1>3. ASSUME NEW n \in Nat, \A t \in Seq(S) : Len(t) <= n => AllTold(t),
               NEW t \in Seq(S), Len(t) <= n + 1, Len(t) # 0
        PROVE  AllTold(t)
    <2>1. Len(t) \in Nat
      BY LenProperties
    <2> DEFINE e == IF t[1] \in sep THEN 1 ELSE Find(t, sep, 1) - 1
               u == SubSeq(t, 1, e)
               v == SubSeq(t, e + 1, Len(t))
    <2>2. /\ e \in 1..Len(t)
          /\ t[1] \notin sep => \A k \in 1..e : t[k] \notin sep
          /\ t[1] \notin sep /\ e < Len(t) => t[e + 1] \in sep
      <3> DEFINE f == Find(t, sep, 1)
      <3>1. 1 \in 1..(Len(t) + 1) /\ 1 \in 1..Len(t)
        BY <1>3, <2>1
      <3>2. /\ f \in 1..(Len(t) + 1) /\ \A k \in 1..(f - 1) : t[k] \notin sep
            /\ f <= Len(t) => t[f] \in sep
        BY <3>1, FindAt
      <3> HIDE DEF f
      <3>3. t[1] \notin sep => f # 1
        BY <3>1, <3>2
      <3>4. e = IF t[1] \in sep THEN 1 ELSE f - 1
        BY DEF f
      <3> HIDE DEF e
      <3>5. CASE t[1] \in sep
        BY <3>1, <3>4, <3>5
      <3>6. CASE t[1] \notin sep
        <4>1. e = f - 1 /\ e + 1 = f /\ e \in 1..Len(t)
          BY <2>1, <3>2, <3>3, <3>4, <3>6
        <4>2. e < Len(t) => f <= Len(t)
          BY <2>1, <4>1
        <4> QED BY <3>2, <4>1, <4>2
      <3> QED BY <3>5, <3>6
    <2>3. (t[1] \in sep => e = 1) /\ e \in 0..Len(t)
      BY <2>1, <2>2
    <2> HIDE DEF e
    <2>4. CutInto(S, t, e, u, v)
      BY <2>3, CutParts
    <2> HIDE DEF u, v
    <2>5. /\ u \in Seq(S) /\ v \in Seq(S) /\ Len(u) = e /\ Len(v) = Len(t) - e
          /\ \A k \in 1..e : u[k] = t[k]
          /\ \A k \in 1..(Len(t) - e) : v[k] = t[e + k]
          /\ t = u \o v
      BY <2>4 DEF CutInto
    <2>6. Seam(u, v, sep) /\ FlattenSeq(Words(u, sep)) \in Seq(S) /\ AllTold(u)
      <3>1. CASE t[1] \in sep
        <4>1. 1 \in 1..e /\ u[1] = t[1] /\ u[Len(u)] \in sep
          BY <2>2, <2>3, <2>5, <3>1
        <4>2. \A k \in 1..Len(u) : u[k] \in sep /\ u[k] \in Dropped
          BY <2>3, <2>5, <3>1, <4>1
        <4>3. Words(u, sep) = <<>> /\ Letters(u) = <<>>
          BY <2>5, <4>2, BlankWords, NoLetters
        <4>4. FlattenSeq(<<>>) = <<>> /\ <<>> \in Seq(S) /\ Letters(<<>>) = <<>>
          <5>1. <<>> \in Seq(S) /\ \A k \in 1..Len(<<>>) : <<>>[k] \in Dropped
            OBVIOUS
          <5> QED BY <5>1, FlattenFew, NoLetters
        <4> QED BY <4>1, <4>3, <4>4 DEF Seam
      <3>2. CASE t[1] \notin sep
        <4>1. \A k \in 1..Len(u) : u[k] \notin sep
          BY <2>2, <2>5, <3>2
        <4>2. Len(u) # 0
          BY <2>2, <2>5
        <4>3. Words(u, sep) = <<u>>
          BY <2>5, <4>1, <4>2, LoneWord
        <4>4. FlattenSeq(<<u>>) = u
          BY <2>5, FlattenFew
        <4>5. Len(v) = 0 \/ v[1] \in sep
          <5>1. CASE e < Len(t)
            <6>1. 1 \in 1..(Len(t) - e)
              BY <2>1, <2>2, <5>1
            <6> QED BY <2>2, <2>5, <3>2, <5>1, <6>1
          <5>2. CASE ~(e < Len(t))
            BY <2>1, <2>2, <2>5, <5>2
          <5> QED BY <5>1, <5>2
        <4> QED BY <2>5, <4>3, <4>4, <4>5 DEF Seam
      <3> QED BY <3>1, <3>2
    <2>7. Words(u, sep) \in Seq(Seq(S)) /\ Words(v, sep) \in Seq(Seq(S))
      BY <2>5, WordIs
    <2>8. AllTold(v) /\ FlattenSeq(Words(v, sep)) \in Seq(S)
      <3>1. Len(v) <= n
        BY <1>3, <2>1, <2>2, <2>5
      <3>2. <<>> \in Seq(S)
        OBVIOUS
      <3> QED BY <1>3, <2>5, <2>7, <3>1, <3>2, FlattenAppend
    <2>9. /\ Words(t, sep) = Words(u, sep) \o Words(v, sep)
          /\ Letters(t) = Letters(u) \o Letters(v)
      <3>1. u \in Seq(S) /\ v \in Seq(S)
        BY <2>5
      <3>2. Words(u \o v, sep) = Words(u, sep) \o Words(v, sep)
        BY <2>6, <3>1, WordsJoined
      <3>3. Letters(u \o v) = Letters(u) \o Letters(v)
        BY <3>1, LettersConcat
      <3> QED BY <2>5, <3>2, <3>3
    <2>10. FlattenSeq(Words(t, sep)) = FlattenSeq(Words(u, sep)) \o FlattenSeq(Words(v, sep))
      <3> DEFINE p == Words(u, sep)
                 q == Words(v, sep)
      <3>1. p \in Seq(Seq(S)) /\ q \in Seq(Seq(S)) /\ Words(t, sep) = p \o q
        BY <2>7, <2>9
      <3> HIDE DEF p, q
      <3>2. FlattenSeq(p \o q) = FlattenSeq(p) \o FlattenSeq(q)
        BY <3>1, FlattenConcat
      <3> QED BY <3>1, <3>2 DEF p, q
    <2>11. Letters(FlattenSeq(Words(u, sep)) \o FlattenSeq(Words(v, sep)))
             = Letters(FlattenSeq(Words(u, sep))) \o Letters(FlattenSeq(Words(v, sep)))
      <3> DEFINE p == FlattenSeq(Words(u, sep))
                 q == FlattenSeq(Words(v, sep))
      <3>1. p \in Seq(S) /\ q \in Seq(S)
        BY <2>6, <2>8
      <3> HIDE DEF p, q
      <3>2. Letters(p \o q) = Letters(p) \o Letters(q)
        BY <3>1, LettersConcat
      <3> QED BY <3>2 DEF p, q
    <2> QED BY <2>6, <2>8, <2>9, <2>10, <2>11
  <1> HIDE DEF AllTold
  <1>4. ASSUME NEW n \in Nat, n \in T PROVE n + 1 \in T
    <2>1. \A t \in Seq(S) : Len(t) <= n => AllTold(t)
      BY <1>4
    <2>2. ASSUME NEW t \in Seq(S), Len(t) <= n + 1 PROVE AllTold(t)
      BY <1>1, <1>3, <2>1, <2>2
    <2> QED BY <2>2
  <1> HIDE DEF T
  <1>5. AllTold(s)
    <2>1. Len(s) \in Nat /\ Len(s) <= Len(s)
      BY LenProperties
    <2>2. Len(s) \in T
      BY <1>2, <1>4, <2>1, Induction
    <2> QED BY <2>1, <2>2 DEF T
  <1>6. FlattenSeq(Words(s, sep)) \in Seq(S)
    <2>1. Words(s, sep) \in Seq(Seq(S)) /\ <<>> \in Seq(S)
      BY WordIs
    <2> QED BY <2>1, FlattenAppend
  <1> QED BY <1>5, <1>6 DEF AllTold

LEMMA PartOfJoined ==
  ASSUME NEW S, NEW u \in Seq(S), NEW v \in Seq(S), NEW m \in 1..(Len(v) + 1),
         NEW n \in 0..Len(v), m <= n + 1
  PROVE  SubSeq(u \o v, Len(u) + m, Len(u) + n) = SubSeq(v, m, n)
  <1>1. Len(u) \in Nat /\ Len(v) \in Nat
    BY LenProperties
  <1> DEFINE x == Len(u) + m
             y == Len(u) + n
  <1>2. CASE n < m
    <2>1. x \in Int /\ y \in Int /\ y < x /\ m \in Int /\ n \in Int
      BY <1>1, <1>2
    <2> HIDE DEF x, y
    <2>2. SubSeq(u \o v, x, y) = <<>> /\ SubSeq(v, m, n) = <<>>
      BY <1>2, <2>1, SubSeqEmpty
    <2> QED BY <2>2 DEF x, y
  <1>3. CASE ~(n < m)
    <2>1. /\ x \in (Len(u) + 1)..(Len(u) + Len(v)) /\ y \in (Len(u) + 1)..(Len(u) + Len(v))
          /\ x - Len(u) = m /\ y - Len(u) = n
      BY <1>1, <1>3
    <2> HIDE DEF x, y
    <2>2. SubSeq(u \o v, x, y) = SubSeq(v, x - Len(u), y - Len(u))
      BY <2>1, SubSeqOfConcat2
    <2> QED BY <2>1, <2>2 DEF x, y
  <1> QED BY <1>2, <1>3

LEMMA SkipJoined ==
  ASSUME NEW S, NEW u \in Seq(S), NEW v \in Seq(S), NEW b \in 1..(Len(v) + 1)
  PROVE  SkipBlanks(u \o v, Len(u) + b) = Len(u) + SkipBlanks(v, b)
  <1> DEFINE s == u \o v
             e == SkipBlanks(v, b)
             a == Len(u) + b
             f == Len(u) + e
  <1>1. /\ s \in Seq(S) /\ Len(u) \in Nat /\ Len(v) \in Nat /\ Len(s) = Len(u) + Len(v)
        /\ \A k \in 1..Len(v) : s[Len(u) + k] = v[k]
    BY Joined
  <1>2. /\ e \in b..(Len(v) + 1) /\ \A k \in b..(e - 1) : v[k] = Blank
        /\ e <= Len(v) => v[e] # Blank
    BY SkipBlanksAt
  <1> HIDE DEF s, e
  <1>3. a \in 1..(Len(s) + 1) /\ f \in a..(Len(s) + 1)
    BY <1>1, <1>2
  <1>4. ASSUME NEW k \in a..(f - 1) PROVE s[k] = Blank
    <2>1. k - Len(u) \in b..(e - 1) /\ k - Len(u) \in 1..Len(v)
          /\ Len(u) + (k - Len(u)) = k
      BY <1>1, <1>2
    <2>2. s[Len(u) + (k - Len(u))] = v[k - Len(u)]
      BY <1>1, <2>1
    <2> QED BY <1>2, <2>1, <2>2
  <1>5. ASSUME f <= Len(s) PROVE s[f] # Blank
    <2>1. e <= Len(v) /\ e \in 1..Len(v)
      BY <1>1, <1>2, <1>5
    <2> QED BY <1>1, <1>2, <2>1
  <1> HIDE DEF a, f
  <1>6. SkippedTo(s, a, f)
    BY <1>3, <1>4, <1>5 DEF SkippedTo
  <1>7. SkipBlanks(s, a) = f
    BY <1>1, <1>3, <1>6, SkipBlanksOnly
  <1> QED BY <1>7 DEF s, e, a, f

-----------------------------------------------------------------------------

-----------------------------------------------------------------------------
(* Parameters up to a colon *)

LEMMA Symbols ==
  /\ Blank \in Space /\ Space \subseteq Dropped /\ Colon \in Dropped
  /\ Colon \notin Space /\ Colon # Blank /\ Colon \notin {Blank}
  /\ {Blank} \subseteq Space /\ {Blank} \subseteq Dropped
  /\ CR \in Space /\ CR # Blank
  BY DEF Space, Dropped, Blank, Tab, CR, Colon

LEMMA NoText ==
  ASSUME NEW sep
  PROVE  /\ Words(<<>>, sep) = <<>> /\ Starts(<<>>, sep) = <<>>
         /\ Find(<<>>, sep, 1) = 1
  <1>1. <<>> \in Seq(STRING) /\ Len(<<>>) = 0 /\ 1 \in 1..(Len(<<>>) + 1)
    OBVIOUS
  <1>2. \A k \in 1..Len(<<>>) : <<>>[k] \in sep
    BY <1>1
  <1>3. Words(<<>>, sep) = <<>> /\ Starts(<<>>, sep) = <<>>
    BY <1>1, <1>2, BlankWords
  <1>4. Find(<<>>, sep, 1) \in 1..(Len(<<>>) + 1)
    BY <1>1, FindIs
  <1> QED BY <1>1, <1>3, <1>4

LEMMA FirstStart ==
  ASSUME NEW sep, NEW s \in Seq(STRING), Len(s) # 0, s[1] \notin sep
  PROVE  1 \in 1..Len(Starts(s, sep)) /\ Starts(s, sep)[1] = 1
  <1>1. Len(s) \in Nat /\ 1 \in 1..Len(s) /\ 1 \in 0..Len(s)
    BY LenProperties
  <1> DEFINE u == SubSeq(s, 1, 1)
             v == SubSeq(s, 1 + 1, Len(s))
  <1>2. CutInto(STRING, s, 1, u, v)
    BY <1>1, CutParts
  <1>3. u = <<s[1]>>
    <2>1. u \in Seq(STRING) /\ Len(u) = 1 /\ u[1] = s[1]
      <3> HIDE DEF u, v
      <3> QED BY <1>2 DEF CutInto
    <2> HIDE DEF u
    <2> QED BY <2>1
  <1>4. Starts(s, sep) \in Seq(Nat) /\ Len(Starts(s, sep)) \in Nat
    BY WordIs
  <1>5. PICK g : Collects(s, sep, Len(s), g) /\ Starts(s, sep) = g[Len(s)]
    BY <1>1, StartsCollected
  <1>6. NextCollects(s, sep, Len(s), g)
    BY <1>1, <1>5, CollectsNext
  <1> DEFINE T == {k \in Nat : k + 1 <= Len(s) => 1 \in 1..Len(g[k + 1]) /\ g[k + 1][1] = 1}
  <1>7. \A k \in 0..Len(s) : g[k] \in Seq(Nat)
    <2>1. \A k \in 0..Len(s) : g[k] \in Seq(Heads(s, sep))
      BY <1>1, <1>5, CollectedAre
    <2>2. Heads(s, sep) \subseteq Nat
      BY DEF Heads
    <2>3. ASSUME NEW k \in 0..Len(s) PROVE g[k] \in Seq(Nat)
      <3>1. g[k] \in Seq(Heads(s, sep))
        BY <2>1
      <3> QED BY <2>2, <3>1, SeqMonotonic
    <2> QED BY <2>3
  <1>8. 0 \in T
    <2>1. g[0] = <<>> /\ g[1] = Append(g[1 - 1], 1)
      BY <1>1, <1>6 DEF NextCollects
    <2>2. Append(<<>>, 1) = <<1>> /\ 1 - 1 = 0 /\ 0 + 1 = 1
      OBVIOUS
    <2>3. g[0 + 1] = <<1>>
      BY <2>1, <2>2
    <2> QED BY <2>3
  <1>9. ASSUME NEW k \in Nat, k \in T PROVE k + 1 \in T
    <2>1. ASSUME (k + 1) + 1 <= Len(s)
          PROVE  1 \in 1..Len(g[(k + 1) + 1]) /\ g[(k + 1) + 1][1] = 1
      <3> DEFINE j == (k + 1) + 1
      <3>1. /\ j \in 1..Len(s) /\ j - 1 = k + 1 /\ k + 1 \in 0..Len(s)
            /\ k + 1 <= Len(s) /\ j \in Nat
        BY <1>1, <2>1
      <3> HIDE DEF j
      <3>2. g[j] = Append(g[j - 1], j) \/ g[j] = g[j - 1]
        BY <1>6, <3>1 DEF NextCollects
      <3> DEFINE q == g[k + 1]
      <3>3. q \in Seq(Nat) /\ 1 \in 1..Len(q) /\ q[1] = 1 /\ Len(q) \in Nat
        BY <1>7, <1>9, <3>1, LenProperties
      <3>4. g[j] = Append(q, j) \/ g[j] = q
        BY <3>1, <3>2
      <3> HIDE DEF q
      <3>5. Len(Append(q, j)) = Len(q) + 1 /\ \A h \in 1..Len(q) : Append(q, j)[h] = q[h]
        BY <3>1, <3>3, AppendProperties
      <3>6. 1 \in 1..Len(Append(q, j)) /\ Append(q, j)[1] = 1
        BY <3>3, <3>5
      <3>7. 1 \in 1..Len(g[j]) /\ g[j][1] = 1
        BY <3>3, <3>4, <3>6
      <3> QED BY <3>7 DEF j
    <2> QED BY <2>1
  <1> HIDE DEF T
  <1>10. Nat \subseteq T
    BY <1>8, <1>9, Induction
  <1>11. Len(s) - 1 \in T /\ (Len(s) - 1) + 1 = Len(s)
    BY <1>1, <1>10
  <1> QED BY <1>1, <1>5, <1>11 DEF T

\* A word starts behind d: u is what is in front of it, with m words.
OpensAt(s, sep, d, u, m) ==
  /\ u \in Seq(STRING) /\ Len(u) = d /\ u = SubSeq(s, 1, d)
  /\ \A j \in 1..d : u[j] = s[j]
  /\ m = Len(Starts(u, sep)) /\ m \in Nat
  /\ Words(u, sep) \in Seq(Seq(STRING)) /\ Len(Words(u, sep)) = m
  /\ m + 1 \in 1..Len(Starts(s, sep)) /\ Starts(s, sep)[m + 1] = d + 1
  /\ \A j \in 1..m : Starts(s, sep)[j] \in 1..d
  /\ SubSeq(Words(s, sep), 1, m) = Words(u, sep)

LEMMA StartAt ==
  ASSUME NEW sep, NEW s \in Seq(STRING), NEW d \in Nat, d < Len(s),
         s[d + 1] \notin sep, d = 0 \/ s[d] \in sep
  PROVE  \E u, m : OpensAt(s, sep, d, u, m)
  <1> DEFINE u == SubSeq(s, 1, d)
             v == SubSeq(s, d + 1, Len(s))
             m == Len(Starts(u, sep))
  <1>1. Len(s) \in Nat /\ d \in 0..Len(s) /\ 1 \in 1..(Len(s) - d)
    <2>1. Len(s) \in Nat
      BY LenProperties
    <2> QED BY <2>1
  <1>2. CutInto(STRING, s, d, u, v)
    BY <1>1, CutParts
  <1>3. u = SubSeq(s, 1, d)
    OBVIOUS
  <1> HIDE DEF u, v
  <1>4. /\ u \in Seq(STRING) /\ v \in Seq(STRING) /\ Len(u) = d /\ Len(v) = Len(s) - d
        /\ \A j \in 1..d : u[j] = s[j]
        /\ \A j \in 1..(Len(s) - d) : v[j] = s[d + j]
        /\ s = u \o v
    BY <1>2 DEF CutInto
  <1>5. v[1] \notin sep /\ Len(v) # 0
    BY <1>1, <1>4
  <1>6. Seam(u, v, sep)
    <2>1. d = 0 \/ u[d] = s[d]
      BY <1>1, <1>4
    <2> QED BY <1>4, <2>1 DEF Seam
  <1>7. /\ Starts(s, sep) = Starts(u, sep) \o Shift(Starts(v, sep), d)
        /\ Words(s, sep) = Words(u, sep) \o Words(v, sep)
    <2>1. u \in Seq(STRING) /\ v \in Seq(STRING)
      BY <1>4
    <2>2. Starts(u \o v, sep) = Starts(u, sep) \o Shift(Starts(v, sep), Len(u))
      BY <1>6, <2>1, StartsJoined
    <2>3. Words(u \o v, sep) = Words(u, sep) \o Words(v, sep)
      BY <1>6, <2>1, WordsJoined
    <2> QED BY <1>4, <2>2, <2>3
  <1>8. /\ Words(u, sep) \in Seq(Seq(STRING)) /\ Starts(u, sep) \in Seq(Nat)
        /\ Len(Words(u, sep)) = m /\ m \in Nat
        /\ \A j \in 1..m : Starts(u, sep)[j] \in 1..Len(u)
    <2>1. u \in Seq(STRING)
      BY <1>4
    <2> QED BY <2>1, WordIs
  <1>9. /\ Words(v, sep) \in Seq(Seq(STRING)) /\ Starts(v, sep) \in Seq(Nat)
    BY <1>4, WordIs
  <1>10. 1 \in 1..Len(Starts(v, sep)) /\ Starts(v, sep)[1] = 1
    BY <1>4, <1>5, FirstStart
  <1>11. m = Len(Starts(u, sep))
    OBVIOUS
  <1> HIDE DEF m
  <1>12. /\ m + 1 \in 1..Len(Starts(s, sep)) /\ Starts(s, sep)[m + 1] = d + 1
         /\ \A j \in 1..m : Starts(s, sep)[j] = Starts(u, sep)[j]
    <2> DEFINE a == Starts(u, sep)
               q == Shift(Starts(v, sep), d)
    <2>1. /\ q \in Seq(Nat) /\ Len(q) = Len(Starts(v, sep)) /\ Len(q) \in Nat
          /\ q[1] = 1 + d /\ 1 \in 1..Len(q)
      BY <1>9, <1>10, ShiftIs
    <2>2. a \in Seq(Nat) /\ Len(a) = m /\ Starts(s, sep) = a \o q
      BY <1>7, <1>8, <1>11
    <2> HIDE DEF a, q
    <2>3. /\ a \o q \in Seq(Nat) /\ Len(a) \in Nat /\ Len(q) \in Nat
          /\ Len(a \o q) = Len(a) + Len(q)
          /\ \A j \in 1..Len(a) : (a \o q)[j] = a[j]
          /\ \A j \in 1..Len(q) : (a \o q)[Len(a) + j] = q[j]
      <3>1. a \in Seq(Nat) /\ q \in Seq(Nat)
        BY <2>1, <2>2
      <3> QED BY <3>1, Joined
    <2>4. Starts(s, sep)[m + 1] = d + 1
      <3>1. (a \o q)[Len(a) + 1] = q[1]
        BY <2>1, <2>3
      <3> QED BY <2>1, <2>2, <3>1
    <2>5. m + 1 \in 1..Len(Starts(s, sep))
      BY <2>1, <2>2, <2>3
    <2>6. \A j \in 1..m : Starts(s, sep)[j] = Starts(u, sep)[j]
      BY <2>2, <2>3 DEF a
    <2> QED BY <2>4, <2>5, <2>6
  <1>13. SubSeq(Words(s, sep), 1, m) = Words(u, sep)
    <2> DEFINE a == Words(u, sep)
               q == Words(v, sep)
    <2>1. /\ a \in Seq(Seq(STRING)) /\ q \in Seq(Seq(STRING))
          /\ Words(s, sep) = a \o q /\ Len(a) = m
      BY <1>7, <1>8, <1>9
    <2> HIDE DEF a, q
    <2>2. SubSeq(a \o q, 1, Len(a)) = a
      <3>1. CASE m = 0
        <4>1. a = <<>> /\ SubSeq(a \o q, 1, 0) = <<>>
          BY <2>1, <3>1, EmptySeq, SubSeqEmpty
        <4> QED BY <2>1, <3>1, <4>1
      <3>2. CASE m # 0
        <4>1. 1 \in 1..Len(a) /\ Len(a) \in 1..Len(a)
          BY <1>8, <2>1, <3>2
        <4>2. SubSeq(a \o q, 1, Len(a)) = SubSeq(a, 1, Len(a))
          BY <2>1, <4>1, SubSeqOfConcat1
        <4> QED BY <2>1, <4>2, SubSeqFull
      <3> QED BY <3>1, <3>2
    <2> QED BY <2>1, <2>2 DEF a
  <1>14. \A j \in 1..m : Starts(s, sep)[j] \in 1..d
    BY <1>4, <1>8, <1>12
  <1>15. OpensAt(s, sep, d, u, m)
    BY <1>3, <1>4, <1>8, <1>11, <1>12, <1>13, <1>14 DEF OpensAt
  <1> QED BY <1>15

\* A word behind d starts with a colon, and is the first one that does.
ColonAt(s, sep, d) ==
  /\ d \in Nat /\ d < Len(s) /\ s[d + 1] = Colon
  /\ d = 0 \/ s[d] \in sep

FirstColonAt(s, sep, d) == ColonAt(s, sep, d) /\ \A e \in Nat : e < d => ~ColonAt(s, sep, e)

LEMMA FirstColonExists ==
  ASSUME NEW s, NEW sep, NEW d, ColonAt(s, sep, d)
  PROVE  \E e : FirstColonAt(s, sep, e)
  <1> DEFINE T == {e \in Nat : ColonAt(s, sep, e)}
  <1>1. T \in SUBSET Nat /\ d \in T
    BY DEF ColonAt
  <1>2. Min(T) \in T /\ \A y \in T : Min(T) <= y
    BY <1>1, LeastIs
  <1> DEFINE e == Min(T)
  <1>3. e \in T /\ \A y \in T : e <= y
    BY <1>2
  <1> HIDE DEF e
  <1>4. FirstColonAt(s, sep, e)
    BY <1>3 DEF FirstColonAt
  <1> QED BY <1>4

Colons(s, sep) == {k \in 1..Len(Starts(s, sep)) : s[Starts(s, sep)[k]] = Colon}

LEMMA UpToColonIs ==
  ASSUME NEW s, NEW sep
  PROVE  UpToColon(s, sep) =
           IF Colons(s, sep) = {} THEN Words(s, sep)
           ELSE Append(SubSeq(Words(s, sep), 1, Min(Colons(s, sep)) - 1),
                       From(s, Starts(s, sep)[Min(Colons(s, sep))] + 1))
  BY DEF UpToColon, Colons

LEMMA ColonStarts ==
  ASSUME NEW sep, NEW s \in Seq(STRING), NEW j \in Colons(s, sep)
  PROVE  ColonAt(s, sep, Starts(s, sep)[j] - 1)
  <1> DEFINE a == Starts(s, sep)[j]
  <1>1. j \in 1..Len(Starts(s, sep)) /\ s[a] = Colon /\ Len(s) \in Nat
    BY LenProperties DEF Colons
  <1>2. a \in 1..Len(s) /\ (a = 1 \/ s[a - 1] \in sep)
    BY <1>1, WordIs
  <1> HIDE DEF a
  <1>3. a - 1 \in Nat /\ a - 1 < Len(s) /\ (a - 1) + 1 = a /\ (a = 1 => a - 1 = 0)
    BY <1>1, <1>2
  <1>4. ColonAt(s, sep, a - 1)
    BY <1>1, <1>2, <1>3 DEF ColonAt
  <1> QED BY <1>4 DEF a

LEMMA UpToNoColon ==
  ASSUME NEW sep, NEW s \in Seq(STRING), \A d \in Nat : ~ColonAt(s, sep, d)
  PROVE  UpToColon(s, sep) = Words(s, sep)
  <1>1. ASSUME NEW j \in Colons(s, sep) PROVE FALSE
    <2>1. ColonAt(s, sep, Starts(s, sep)[j] - 1)
      BY ColonStarts
    <2>2. Starts(s, sep)[j] - 1 \in Nat
      BY <2>1 DEF ColonAt
    <2> QED BY <2>1, <2>2
  <1>2. Colons(s, sep) = {}
    BY <1>1
  <1> QED BY <1>2, UpToColonIs

LEMMA UpToColonAt ==
  ASSUME NEW sep, Colon \notin sep, NEW s \in Seq(STRING), NEW d, FirstColonAt(s, sep, d)
  PROVE  UpToColon(s, sep) = Append(Words(SubSeq(s, 1, d), sep), From(s, d + 2))
  <1>1. /\ d \in Nat /\ d < Len(s) /\ s[d + 1] = Colon
        /\ d = 0 \/ s[d] \in sep
        /\ \A e \in Nat : e < d => ~ColonAt(s, sep, e)
    BY DEF FirstColonAt, ColonAt
  <1>2. PICK u, m : OpensAt(s, sep, d, u, m)
    BY <1>1, StartAt
  <1>3. /\ u = SubSeq(s, 1, d) /\ m \in Nat
        /\ m + 1 \in 1..Len(Starts(s, sep)) /\ Starts(s, sep)[m + 1] = d + 1
        /\ \A j \in 1..m : Starts(s, sep)[j] \in 1..d
        /\ SubSeq(Words(s, sep), 1, m) = Words(u, sep)
    BY <1>2 DEF OpensAt
  <1>4. m + 1 \in Colons(s, sep)
    BY <1>1, <1>3 DEF Colons
  <1>5. ASSUME NEW j \in Colons(s, sep), j <= m PROVE FALSE
    <2>1. j \in 1..m
      BY <1>3, <1>5 DEF Colons
    <2>2. Starts(s, sep)[j] \in 1..d
      BY <1>3, <2>1
    <2>3. ColonAt(s, sep, Starts(s, sep)[j] - 1)
      BY ColonStarts
    <2> DEFINE a == Starts(s, sep)[j]
    <2>4. a \in 1..d /\ ColonAt(s, sep, a - 1)
      BY <2>2, <2>3
    <2> HIDE DEF a
    <2>5. a - 1 \in Nat /\ a - 1 < d
      BY <1>1, <2>4
    <2> QED BY <1>1, <2>4, <2>5
  <1>6. Min(Colons(s, sep)) = m + 1
    <2>1. Colons(s, sep) \in SUBSET Nat
      BY DEF Colons
    <2>2. /\ Min(Colons(s, sep)) \in Colons(s, sep)
          /\ \A y \in Colons(s, sep) : Min(Colons(s, sep)) <= y
      BY <1>4, <2>1, LeastIs
    <2>3. Min(Colons(s, sep)) \in Nat /\ Min(Colons(s, sep)) <= m + 1
          /\ ~(Min(Colons(s, sep)) <= m)
      BY <1>4, <1>5, <2>1, <2>2
    <2> QED BY <1>3, <2>3
  <1>7. (m + 1) - 1 = m /\ (d + 1) + 1 = d + 2
    BY <1>1, <1>3
  <1>8. UpToColon(s, sep) = Append(SubSeq(Words(s, sep), 1, (m + 1) - 1),
                                   From(s, Starts(s, sep)[m + 1] + 1))
    BY <1>4, <1>6, UpToColonIs
  <1> QED BY <1>3, <1>7, <1>8

\* p is the words of the first d symbols of s, and what is behind the e that
\* follow, which separate: nothing of the text is lost.
RestBehind(s, sep, d, e, p) ==
  /\ d + e <= Len(s)
  /\ \A k \in (d + 1)..(d + e) : s[k] \in Dropped
  /\ p = Append(Words(SubSeq(s, 1, d), sep), From(s, (d + e) + 1))

LEMMA RestKept ==
  ASSUME NEW sep, sep \subseteq Dropped, NEW s \in Seq(STRING), NEW d \in Nat,
         NEW e \in Nat, NEW p, RestBehind(s, sep, d, e, p)
  PROVE  /\ Filled(p) /\ FlattenSeq(p) \in Seq(STRING)
         /\ Letters(FlattenSeq(p)) = Letters(s)
  <1> DEFINE u == SubSeq(s, 1, d)
             v == SubSeq(s, d + 1, Len(s))
             c == SubSeq(v, 1, e)
             t == SubSeq(v, e + 1, Len(v))
             w == Words(u, sep)
  <1>1. Len(s) \in Nat /\ d \in 0..Len(s) /\ e \in 0..(Len(s) - d)
    <2>1. Len(s) \in Nat /\ d + e <= Len(s)
      BY LenProperties DEF RestBehind
    <2> QED BY <2>1
  <1>2. CutInto(STRING, s, d, u, v)
    BY <1>1, CutParts
  <1>3. p = Append(w, From(s, (d + e) + 1))
    BY DEF RestBehind
  <1> HIDE DEF u, v
  <1>4. /\ u \in Seq(STRING) /\ v \in Seq(STRING) /\ Len(u) = d /\ Len(v) = Len(s) - d
        /\ \A j \in 1..(Len(s) - d) : v[j] = s[d + j]
        /\ s = u \o v
    BY <1>2 DEF CutInto
  <1>5. CutInto(STRING, v, e, c, t)
    BY <1>1, <1>4, CutParts
  <1>6. From(s, (d + e) + 1) = t
    <2> DEFINE n == e + 1
    <2>1. /\ n \in 1..(Len(v) + 1) /\ Len(v) \in 0..Len(v) /\ n <= Len(v) + 1
          /\ d + Len(v) = Len(s) /\ (d + e) + 1 = d + n
      BY <1>1, <1>4
    <2>2. t = SubSeq(v, n, Len(v))
      OBVIOUS
    <2> HIDE DEF n, t
    <2>3. SubSeq(u \o v, Len(u) + n, Len(u) + Len(v)) = SubSeq(v, n, Len(v))
      <3>1. u \in Seq(STRING) /\ v \in Seq(STRING)
        BY <1>4
      <3> QED BY <2>1, <3>1, PartOfJoined
    <2> QED BY <1>4, <2>1, <2>2, <2>3 DEF From
  <1> HIDE DEF c, t
  <1>7. /\ c \in Seq(STRING) /\ t \in Seq(STRING) /\ Len(c) = e
        /\ \A j \in 1..e : c[j] = v[j]
        /\ v = c \o t
    BY <1>5 DEF CutInto
  <1>8. Letters(c) = <<>>
    <2>1. ASSUME NEW j \in 1..Len(c) PROVE c[j] \in Dropped
      <3>1. j \in 1..e /\ j \in 1..(Len(s) - d) /\ d + j \in (d + 1)..(d + e)
        BY <1>1, <1>7
      <3>2. s[d + j] \in Dropped
        BY <3>1 DEF RestBehind
      <3> QED BY <1>4, <1>7, <3>1, <3>2
    <2> QED BY <1>7, <2>1, NoLetters
  <1>9. Letters(v) = Letters(t)
    <2>1. Letters(c \o t) = Letters(c) \o Letters(t)
      BY <1>7, LettersConcat
    <2>2. <<>> \o Letters(t) = Letters(t)
      <3> DEFINE l == Letters(t)
      <3>1. l \in Seq(STRING)
        BY <1>7, KeptIs
      <3> HIDE DEF l
      <3>2. <<>> \o l = l
        BY <3>1, ConcatEmptySeq
      <3> QED BY <3>2 DEF l
    <2> QED BY <1>7, <1>8, <2>1, <2>2
  <1>10. w \in Seq(Seq(STRING)) /\ \A j \in 1..Len(w) : w[j] # <<>>
    BY <1>4, WordsAre
  <1>11. FlattenSeq(w) \in Seq(STRING) /\ Letters(FlattenSeq(w)) = Letters(u)
    BY <1>4, FlattenWords
  <1> HIDE DEF w
  <1>12. FlattenSeq(p) = FlattenSeq(w) \o t
    BY <1>3, <1>6, <1>7, <1>10, FlattenAppend
  <1>13. /\ FlattenSeq(w) \o t \in Seq(STRING)
         /\ Letters(FlattenSeq(w) \o t) = Letters(FlattenSeq(w)) \o Letters(t)
    BY <1>7, <1>11, LettersConcat, ConcatProperties
  <1>14. Letters(u \o v) = Letters(u) \o Letters(v)
    BY <1>4, LettersConcat
  <1>15. Filled(p)
    <2>1. /\ Append(w, t) \in Seq(Seq(STRING))
          /\ Len(Append(w, t)) = Len(w) + 1
          /\ \A j \in 1..Len(w) : Append(w, t)[j] = w[j]
      BY <1>7, <1>10, AppendProperties
    <2>2. Len(w) \in Nat
      BY <1>10, LenProperties
    <2>3. p = Append(w, t)
      BY <1>3, <1>6
    <2>4. p \in Seq(Seq(STRING)) /\ Len(p) = Len(w) + 1 /\ \A j \in 1..Len(w) : p[j] = w[j]
      BY <2>1, <2>3
    <2>5. ASSUME NEW j \in 1..(Len(p) - 1) PROVE p[j] # <<>>
      <3>1. j \in 1..Len(w)
        BY <2>2, <2>4
      <3> QED BY <1>10, <2>4, <3>1
    <2> QED BY <2>4, <2>5 DEF Filled
  <1> QED BY <1>4, <1>9, <1>11, <1>12, <1>13, <1>14, <1>15

\* What parse makes of the text of the parameters has all of it.
LEMMA ParamsAre ==
  ASSUME NEW s \in Seq(STRING)
  PROVE  /\ Filled(Params(s)) /\ FlattenSeq(Params(s)) \in Seq(STRING)
         /\ Letters(FlattenSeq(Params(s))) = Letters(s)
  <1>1. Len(s) \in Nat
    BY LenProperties
  <1>2. CASE BlankColons(s) # {}
    <2> DEFINE k == Min(BlankColons(s))
               d == k - 1
               e == 2
    <2>1. k \in BlankColons(s)
      <3>1. BlankColons(s) \in SUBSET Nat
        BY <1>1 DEF BlankColons
      <3> QED BY <1>2, <3>1, LeastIs
    <2>2. Params(s) = Append(Words(SubSeq(s, 1, k - 1), Space), From(s, k + 2))
      BY <1>2 DEF Params
    <2> HIDE DEF k
    <2>3. k \in 1..(Len(s) - 1) /\ s[k] = Blank /\ s[k + 1] = Colon
      BY <2>1 DEF BlankColons
    <2>4. d \in Nat /\ e \in Nat /\ d + e <= Len(s) /\ k + 2 = (d + e) + 1
      BY <1>1, <2>3
    <2>5. ASSUME NEW j \in (d + 1)..(d + e) PROVE s[j] \in Dropped
      <3>1. j = k \/ j = k + 1
        BY <2>3
      <3>2. Blank \in Dropped /\ Colon \in Dropped
        BY Symbols
      <3> QED BY <2>3, <3>1, <3>2
    <2>6. Params(s) = Append(Words(SubSeq(s, 1, d), Space), From(s, (d + e) + 1))
      BY <2>2, <2>4
    <2> HIDE DEF d, e
    <2>7. RestBehind(s, Space, d, e, Params(s))
      BY <2>4, <2>5, <2>6 DEF RestBehind
    <2> QED BY <2>4, <2>7, Symbols, RestKept
  <1>3. CASE BlankColons(s) = {}
    <2>1. Params(s) = UpToColon(s, Space)
      BY <1>3 DEF Params
    <2>2. CASE \A d \in Nat : ~ColonAt(s, Space, d)
      <3>1. Params(s) = Words(s, Space)
        BY <2>1, <2>2, UpToNoColon
      <3> QED BY <3>1, Symbols, FlattenWords, WordsAreFilled
    <2>3. CASE \E d \in Nat : ColonAt(s, Space, d)
      <3>1. PICK d : FirstColonAt(s, Space, d)
        BY <2>3, FirstColonExists
      <3> DEFINE e == 1
      <3>2. d \in Nat /\ d + e <= Len(s) /\ s[d + 1] = Colon /\ e \in Nat
        BY <1>1, <3>1 DEF FirstColonAt, ColonAt
      <3>3. UpToColon(s, Space) = Append(Words(SubSeq(s, 1, d), Space), From(s, d + 2))
        BY <3>1, Symbols, UpToColonAt
      <3>4. Params(s) = Append(Words(SubSeq(s, 1, d), Space), From(s, (d + e) + 1))
        <4>1. (d + e) + 1 = d + 2
          BY <3>2
        <4> QED BY <2>1, <3>3, <4>1
      <3>5. \A j \in (d + 1)..(d + e) : s[j] \in Dropped
        <4>1. \A j \in (d + 1)..(d + e) : j = d + 1
          BY <3>2
        <4> QED BY <3>2, <4>1, Symbols
      <3> HIDE DEF e
      <3>6. RestBehind(s, Space, d, e, Params(s))
        BY <3>2, <3>4, <3>5 DEF RestBehind
      <3> QED BY <3>2, <3>6, Symbols, RestKept
    <2> QED BY <2>2, <2>3
  <1> QED BY <1>2, <1>3

-----------------------------------------------------------------------------
(* Where no white space but the blank occurs *)

BlanksOnly(s) == \A k \in 1..Len(s) : s[k] \in Space => s[k] = Blank

LEMMA SameStarts ==
  ASSUME NEW s \in Seq(STRING), BlanksOnly(s)
  PROVE  Starts(s, Space) = Starts(s, {Blank})
  <1> DEFINE o == {Blank}
  <1>1. Len(s) \in Nat /\ \A k \in 1..Len(s) : s[k] \in Space <=> s[k] \in o
    BY Symbols, LenProperties DEF BlanksOnly
  <1> HIDE DEF o
  <1>2. PICK g : Collects(s, Space, Len(s), g) /\ Starts(s, Space) = g[Len(s)]
    BY <1>1, StartsCollected
  <1>3. PICK h : Collects(s, o, Len(s), h) /\ Starts(s, o) = h[Len(s)]
    BY <1>1, StartsCollected
  <1>4. NextCollects(s, Space, Len(s), g) /\ NextCollects(s, o, Len(s), h)
    BY <1>1, <1>2, <1>3, CollectsNext
  <1> DEFINE T == {k \in Nat : k <= Len(s) => g[k] = h[k]}
  <1>5. 0 \in T
    BY <1>4 DEF NextCollects
  <1>6. ASSUME NEW k \in Nat, k \in T PROVE k + 1 \in T
    <2> DEFINE j == k + 1
    <2>1. ASSUME j <= Len(s) PROVE g[j] = h[j]
      <3>1. j \in 1..Len(s) /\ j - 1 = k /\ g[k] = h[k] /\ (j = 1 \/ j - 1 \in 1..Len(s))
        BY <1>1, <1>6, <2>1
      <3> HIDE DEF j
      <3>2. g[j] = IF s[j] \notin Space /\ (j = 1 \/ s[j - 1] \in Space)
                   THEN Append(g[j - 1], j) ELSE g[j - 1]
        BY <1>4, <3>1 DEF NextCollects
      <3>3. h[j] = IF s[j] \notin o /\ (j = 1 \/ s[j - 1] \in o)
                   THEN Append(h[j - 1], j) ELSE h[j - 1]
        BY <1>4, <3>1 DEF NextCollects
      <3>4. (s[j] \in Space <=> s[j] \in o) /\ (j = 1 \/ (s[j - 1] \in Space <=> s[j - 1] \in o))
        BY <1>1, <3>1
      <3> QED BY <3>1, <3>2, <3>3, <3>4
    <2> QED BY <2>1
  <1> HIDE DEF T
  <1>7. Len(s) \in T
    <2>1. Nat \subseteq T
      BY <1>5, <1>6, Induction
    <2> QED BY <1>1, <2>1
  <1> QED BY <1>1, <1>2, <1>3, <1>7 DEF T, o

LEMMA SameWords ==
  ASSUME NEW s \in Seq(STRING), BlanksOnly(s)
  PROVE  Words(s, Space) = Words(s, {Blank})
  <1> DEFINE o == {Blank}
             st == Starts(s, o)
  <1>1. Len(s) \in Nat /\ \A k \in 1..Len(s) : s[k] \in Space <=> s[k] \in o
    BY Symbols, LenProperties DEF BlanksOnly
  <1>2. Starts(s, Space) = st
    BY SameStarts
  <1> HIDE DEF o
  <1>3. /\ Words(s, Space) \in Seq(Seq(STRING)) /\ Len(Words(s, Space)) = Len(st)
        /\ \A k \in 1..Len(st) :
             Words(s, Space)[k] = SubSeq(s, st[k], Find(s, Space, st[k]) - 1)
    <2> HIDE DEF st
    <2>1. /\ Words(s, Space) \in Seq(Seq(STRING))
          /\ Len(Words(s, Space)) = Len(Starts(s, Space))
          /\ \A k \in 1..Len(Starts(s, Space)) :
               Words(s, Space)[k] = SubSeq(s, Starts(s, Space)[k],
                                           Find(s, Space, Starts(s, Space)[k]) - 1)
      BY WordIs
    <2> QED BY <1>2, <2>1
  <1>4. /\ Words(s, o) \in Seq(Seq(STRING)) /\ Len(Words(s, o)) = Len(st)
        /\ \A k \in 1..Len(st) :
             /\ st[k] \in 1..Len(s)
             /\ Words(s, o)[k] = SubSeq(s, st[k], Find(s, o, st[k]) - 1)
    BY WordIs
  <1>5. ASSUME NEW a \in 1..Len(s) PROVE Find(s, Space, a) = Find(s, o, a)
    <2>1. {k \in a..Len(s) : s[k] \in Space} = {k \in a..Len(s) : s[k] \in o}
      BY <1>1
    <2> QED BY <2>1 DEF Find
  <1> HIDE DEF st
  <1>6. ASSUME NEW k \in 1..Len(st) PROVE Words(s, Space)[k] = Words(s, o)[k]
    <2>1. Find(s, Space, st[k]) = Find(s, o, st[k])
      BY <1>4, <1>5
    <2> QED BY <1>3, <1>4, <2>1
  <1>7. Words(s, Space) = Words(s, o)
    <2> DEFINE p == Words(s, Space)
               q == Words(s, o)
    <2>1. p \in Seq(Seq(STRING)) /\ q \in Seq(Seq(STRING)) /\ Len(p) = Len(q)
      BY <1>3, <1>4
    <2>2. \A k \in 1..Len(p) : p[k] = q[k]
      BY <1>3, <1>6
    <2> HIDE DEF p, q
    <2>3. p = q
      BY <2>1, <2>2, SeqEqual
    <2> QED BY <2>3 DEF p, q
  <1> QED BY <1>7 DEF o

\* Parameters are read by the grammar, unless the first one and a later word
\* start with a colon or there is other white space in front of the trailing one.
LEMMA ParamsAgree ==
  ASSUME NEW s \in Seq(STRING), Len(s) # 0 => s[1] # Blank,
         ~ColonTwice(s), ~Stray(s)
  PROVE  Params(s) = UpToColon(s, {Blank})
  <1> DEFINE o == {Blank}
  <1>1. /\ Len(s) \in Nat /\ Blank \in o /\ Colon \notin o /\ o \subseteq Space
        /\ Colon \notin Space /\ \A x : x \in o <=> x = Blank
    BY Symbols, LenProperties
  <1> HIDE DEF o
  <1>2. ASSUME NEW k \in 1..Len(s), s[k] \in Space, s[k] # Blank
        PROVE  \E d \in Nat : d < k /\ ColonAt(s, o, d)
    <2>1. PICK j \in 1..k : s[j] = Colon /\ ~(j > 1 /\ s[j - 1] # Blank)
      BY <1>2 DEF Stray
    <2>2. j - 1 \in Nat /\ j - 1 < k /\ j - 1 < Len(s) /\ (j - 1) + 1 = j
      BY <1>1, <2>1
    <2>3. j - 1 = 0 \/ s[j - 1] \in o
      BY <1>1, <2>1
    <2>4. ColonAt(s, o, j - 1)
      BY <2>1, <2>2, <2>3 DEF ColonAt
    <2> QED BY <2>2, <2>4
  <1>3. ASSUME NEW d \in Nat, ColonAt(s, o, d), d # 0 PROVE d \in BlankColons(s)
    <2>1. d \in 1..(Len(s) - 1) /\ s[d] = Blank /\ s[d + 1] = Colon
      BY <1>1, <1>3 DEF ColonAt
    <2> QED BY <2>1 DEF BlankColons
  <1>4. CASE BlankColons(s) = {} /\ ~(Len(s) # 0 /\ s[1] = Colon)
    <2>1. Params(s) = UpToColon(s, Space)
      BY <1>4 DEF Params
    <2>2. ASSUME NEW d \in Nat, ColonAt(s, o, d) PROVE FALSE
      <3>1. d = 0
        BY <1>3, <1>4, <2>2
      <3>2. Len(s) # 0 /\ s[1] = Colon
        BY <1>1, <2>2, <3>1 DEF ColonAt
      <3> QED BY <1>4, <3>2
    <2>3. BlanksOnly(s)
      BY <1>2, <2>2 DEF BlanksOnly
    <2>4. ASSUME NEW d \in Nat, ColonAt(s, Space, d) PROVE FALSE
      <3>1. d \in Nat /\ d < Len(s) /\ s[d + 1] = Colon /\ (d = 0 \/ s[d] \in Space)
        BY <2>4 DEF ColonAt
      <3>2. d = 0 \/ (d \in 1..Len(s) /\ s[d] = Blank)
        BY <1>1, <2>3, <3>1 DEF BlanksOnly
      <3>3. ColonAt(s, o, d)
        BY <1>1, <3>1, <3>2 DEF ColonAt
      <3> QED BY <2>2, <3>3
    <2>5. UpToColon(s, Space) = Words(s, Space) /\ UpToColon(s, o) = Words(s, o)
      BY <2>2, <2>4, UpToNoColon
    <2>6. Words(s, Space) = Words(s, o)
      BY <2>3, SameWords DEF o
    <2> QED BY <2>1, <2>5, <2>6 DEF o
  <1>5. CASE BlankColons(s) = {} /\ Len(s) # 0 /\ s[1] = Colon
    <2>1. Params(s) = UpToColon(s, Space)
      BY <1>5 DEF Params
    <2> DEFINE d == 0
    <2>2. d \in Nat /\ d < Len(s) /\ d + 1 = 1 /\ \A e \in Nat : ~(e < d)
      BY <1>1, <1>5
    <2>3. SubSeq(s, 1, d) = <<>>
      BY SubSeqEmpty
    <2>4. d = 0
      OBVIOUS
    <2> HIDE DEF d
    <2>5. FirstColonAt(s, Space, d) /\ FirstColonAt(s, o, d)
      BY <1>5, <2>2, <2>4 DEF FirstColonAt, ColonAt
    <2>6. /\ UpToColon(s, Space) = Append(Words(SubSeq(s, 1, d), Space), From(s, d + 2))
          /\ UpToColon(s, o) = Append(Words(SubSeq(s, 1, d), o), From(s, d + 2))
      BY <1>1, <2>5, UpToColonAt
    <2>7. Words(<<>>, Space) = <<>> /\ Words(<<>>, o) = <<>>
      BY NoText
    <2> QED BY <2>1, <2>3, <2>6, <2>7 DEF o
  <1>6. CASE BlankColons(s) # {}
    <2> DEFINE k == Min(BlankColons(s))
               d == k - 1
               u == SubSeq(s, 1, k)
               x == SubSeq(u, 1, d)
               y == SubSeq(u, d + 1, Len(u))
    <2>1. k \in BlankColons(s) /\ \A j \in BlankColons(s) : k <= j
      <3>1. BlankColons(s) \in SUBSET Nat
        BY <1>1 DEF BlankColons
      <3> QED BY <1>6, <3>1, LeastIs
    <2>2. Params(s) = Append(Words(SubSeq(s, 1, d), Space), From(s, k + 2))
      BY <1>6 DEF Params
    <2> HIDE DEF k
    <2>3. k \in 1..(Len(s) - 1) /\ s[k] = Blank /\ s[k + 1] = Colon
      BY <2>1 DEF BlankColons
    <2>4. /\ k \in 0..Len(s) /\ k \in Nat /\ k < Len(s) /\ d \in 0..k /\ d + 1 = k /\ d \in 0..Len(s)
      BY <1>1, <2>3
    <2>5. s # <<>> /\ s[1] # Colon
      <3>1. s # <<>>
        <4>1. Len(<<>>) = 0
          OBVIOUS
        <4> QED BY <2>4, <4>1
      <3> QED BY <1>6, <3>1 DEF ColonTwice
    <2>6. ASSUME NEW e \in Nat, e < k PROVE ~ColonAt(s, o, e)
      <3>1. ASSUME ColonAt(s, o, e) PROVE FALSE
        <4>1. CASE e = 0
          BY <2>5, <3>1, <4>1 DEF ColonAt
        <4>2. CASE e # 0
          <5>1. k <= e
            BY <1>3, <2>1, <3>1, <4>2
          <5> QED BY <2>4, <2>6, <5>1
        <4> QED BY <4>1, <4>2
      <3> QED BY <3>1
    <2>7. FirstColonAt(s, o, k)
      <3>1. ColonAt(s, o, k)
        BY <1>1, <2>3, <2>4 DEF ColonAt
      <3> QED BY <2>6, <3>1 DEF FirstColonAt
    <2>8. UpToColon(s, o) = Append(Words(u, o), From(s, k + 2))
      BY <1>1, <2>7, UpToColonAt
    <2>9. /\ u \in Seq(STRING) /\ Len(u) = k /\ \A j \in 1..k : u[j] = s[j]
      <3>1. CutInto(STRING, s, k, u, SubSeq(s, k + 1, Len(s)))
        BY <2>4, CutParts
      <3> HIDE DEF u
      <3> QED BY <3>1 DEF CutInto
    <2>10. x = SubSeq(s, 1, d)
      <3> DEFINE z == SubSeq(s, 1, d)
      <3>1. CutInto(STRING, s, d, z, SubSeq(s, d + 1, Len(s)))
        BY <2>4, CutParts
      <3>2. CutInto(STRING, u, d, x, y)
        <4>1. u \in Seq(STRING) /\ d \in 0..Len(u)
          BY <2>4, <2>9
        <4> HIDE DEF u
        <4> QED BY <4>1, CutParts
      <3> HIDE DEF x, y, z, u, d
      <3>3. /\ z \in Seq(STRING) /\ Len(z) = d /\ \A j \in 1..d : z[j] = s[j]
            /\ x \in Seq(STRING) /\ Len(x) = d /\ \A j \in 1..d : x[j] = u[j]
        BY <3>1, <3>2 DEF CutInto
      <3>4. \A j \in 1..d : j \in 1..k
        BY <2>4
      <3>5. \A j \in 1..Len(x) : x[j] = z[j]
        BY <2>9, <3>3, <3>4
      <3>6. x = z
        BY <3>3, <3>5, SeqEqual
      <3> QED BY <3>6 DEF z
    <2>11. /\ x \in Seq(STRING) /\ Len(x) = d /\ \A j \in 1..d : x[j] = u[j]
           /\ y \in Seq(STRING) /\ Len(y) = 1 /\ y[1] = Blank /\ u = x \o y
      <3>1. u \in Seq(STRING) /\ d \in 0..Len(u)
        BY <2>4, <2>9
      <3> HIDE DEF u
      <3>2. CutInto(STRING, u, d, x, y)
        BY <3>1, CutParts
      <3> HIDE DEF x, y, d
      <3>3. /\ x \in Seq(STRING) /\ Len(x) = d /\ \A j \in 1..d : x[j] = u[j]
            /\ y \in Seq(STRING) /\ Len(y) = Len(u) - d
            /\ \A j \in 1..(Len(u) - d) : y[j] = u[d + j]
            /\ u = x \o y
        BY <3>2 DEF CutInto
      <3>4. Len(u) - d = 1 /\ 1 \in 1..1 /\ k \in 1..k
        BY <2>3, <2>4, <2>9
      <3>5. y[1] = u[d + 1]
        BY <3>3, <3>4
      <3>6. y[1] = Blank
        BY <2>3, <2>4, <2>9, <3>4, <3>5
      <3> QED BY <3>3, <3>4, <3>6
    <2> HIDE DEF u, x, y
    <2>12. BlanksOnly(x)
      <3>1. ASSUME NEW j \in 1..Len(x), x[j] \in Space, x[j] # Blank PROVE FALSE
        <4>1. j \in 1..d /\ j \in 1..k /\ j \in 1..Len(s) /\ j < k
          BY <1>1, <2>4, <2>11
        <4>2. x[j] = s[j]
          BY <2>9, <2>11, <4>1
        <4>3. PICK e \in Nat : e < j /\ ColonAt(s, o, e)
          BY <1>2, <3>1, <4>1, <4>2
        <4>4. e < k
          BY <2>4, <4>1, <4>3
        <4> QED BY <2>6, <4>3, <4>4
      <3> QED BY <3>1 DEF BlanksOnly
    <2>13. Words(u, o) = Words(x, o)
      <3>1. Words(y, o) = <<>>
        <4>1. \A j \in 1..Len(y) : y[j] \in o
          BY <1>1, <2>11
        <4> QED BY <2>11, <4>1, BlankWords
      <3>2. Words(x \o y, o) = Words(x, o) \o Words(y, o)
        <4>1. Seam(x, y, o)
          BY <1>1, <2>11 DEF Seam
        <4> QED BY <2>11, <4>1, WordsJoined
      <3>3. Words(x, o) \o <<>> = Words(x, o)
        <4> DEFINE w == Words(x, o)
        <4>1. w \in Seq(Seq(STRING))
          BY <2>11, WordIs
        <4> HIDE DEF w
        <4>2. w \o <<>> = w
          BY <4>1, ConcatEmptySeq
        <4> QED BY <4>2 DEF w
      <3> QED BY <2>11, <3>1, <3>2, <3>3
    <2>14. Words(x, Space) = Words(x, o)
      BY <2>11, <2>12, SameWords DEF o
    <2> QED BY <2>2, <2>8, <2>10, <2>13, <2>14 DEF o
  <1> QED BY <1>4, <1>5, <1>6

-----------------------------------------------------------------------------
(* The first word of a line, and the rest of it *)

\* The first word of a text, and what is behind the blanks that follow it.
FirstWord(s) == SubSeq(s, 1, Find(s, {Blank}, 1) - 1)

Behind(s) == From(s, SkipBlanks(s, Find(s, {Blank}, 1)))

\* A text that starts with a word: b is the rest, behind d symbols.
Leads(s, w, b, d) ==
  /\ d \in 1..Len(s) /\ b = SubSeq(s, d + 1, Len(s)) /\ Len(b) = Len(s) - d
  /\ \A k \in 1..Len(b) : b[k] = s[d + k]
  /\ Len(b) # 0 => b[1] # Blank
  /\ Len(w) # 0 /\ w[1] = s[1]
  /\ Starts(s, {Blank}) = <<1>> \o Shift(Starts(b, {Blank}), d)
  /\ Words(s, {Blank}) = <<w>> \o Words(b, {Blank})
  /\ Letters(s) = Letters(w) \o Letters(b)

LEMMA FirstIs ==
  ASSUME NEW S, NEW s \in Seq(S), Len(s) # 0, s[1] # Blank
  PROVE  /\ FirstWord(s) \in Seq(S) /\ Behind(s) \in Seq(S)
         /\ \E d \in Nat : Leads(s, FirstWord(s), Behind(s), d)
  <1> DEFINE e == Find(s, {Blank}, 1)
             f == SkipBlanks(s, e)
             x == e - 1
             d == f - 1
             u == SubSeq(s, 1, d)
             b == SubSeq(s, d + 1, Len(s))
             w == SubSeq(u, 1, x)
             z == SubSeq(u, x + 1, Len(u))
  <1>1. Len(s) \in Nat /\ Len(s) >= 1 /\ 1 \in 1..(Len(s) + 1)
    BY LenProperties
  <1>2. /\ e \in 1..(Len(s) + 1) /\ \A k \in 1..(e - 1) : s[k] # Blank
        /\ e <= Len(s) => s[e] = Blank
    BY <1>1, FindAt
  <1>3. /\ f \in e..(Len(s) + 1) /\ \A k \in e..(f - 1) : s[k] = Blank
        /\ f <= Len(s) => s[f] # Blank
    BY <1>2, SkipBlanksAt
  <1>4. e # 1
    BY <1>1, <1>2
  <1>5. FirstWord(s) = SubSeq(s, 1, x) /\ Behind(s) = SubSeq(s, f, Len(s))
    BY DEF FirstWord, Behind, From
  <1> HIDE DEF e, f
  <1>6. /\ x \in 1..Len(s) /\ d \in x..Len(s) /\ d \in 0..Len(s) /\ d \in 1..Len(s)
        /\ x + 1 = e /\ d + 1 = f /\ x \in Nat /\ d \in Nat
    BY <1>1, <1>2, <1>3, <1>4
  <1>7. /\ \A k \in 1..x : s[k] # Blank
        /\ \A k \in (x + 1)..d : s[k] = Blank
        /\ d + 1 <= Len(s) => s[d + 1] # Blank /\ x # d
    <2>1. d + 1 <= Len(s) => x # d
      <3>1. ASSUME d + 1 <= Len(s), x = d PROVE FALSE
        <4>1. e = f /\ e <= Len(s)
          BY <1>6, <3>1
        <4> QED BY <1>2, <1>3, <4>1
      <3> QED BY <3>1
    <2> QED BY <1>2, <1>3, <1>6, <2>1
  <1>8. Behind(s) = b
    BY <1>5, <1>6
  <1> HIDE DEF x, d
  <1>9. /\ u \in Seq(S) /\ b \in Seq(S) /\ Len(u) = d /\ Len(b) = Len(s) - d
        /\ \A k \in 1..d : u[k] = s[k]
        /\ \A k \in 1..(Len(s) - d) : b[k] = s[d + k]
        /\ s = u \o b
    BY <1>6, Cut
  <1>10. w = SubSeq(s, 1, x)
    <2>1. x \in 1..d /\ d \in 1..Len(s) /\ 1 \in 1..d /\ 1 <= d
      BY <1>1, <1>6
    <2>2. /\ 1 \in 1..Len(s) /\ 1 \in 1..(d - 1 + 1) /\ x \in 1..(d - 1 + 1)
          /\ 1 + 1 - 1 = 1 /\ 1 + x - 1 = x
      BY <1>1, <1>6, <2>1
    <2>3. SubSeq(SubSeq(s, 1, d), 1, x) = SubSeq(s, 1 + 1 - 1, 1 + x - 1)
      BY <1>6, <2>2, SubSeqOfSubSeq
    <2> QED BY <2>2, <2>3
  <1> HIDE DEF u, b
  <1>11. /\ w \in Seq(S) /\ z \in Seq(S) /\ Len(w) = x /\ Len(z) = d - x
         /\ \A k \in 1..x : w[k] = u[k]
         /\ \A k \in 1..(d - x) : z[k] = u[x + k]
         /\ u = w \o z
    <2>1. u \in Seq(S) /\ x \in 0..Len(u)
      BY <1>6, <1>9
    <2>2. /\ w \in Seq(S) /\ z \in Seq(S) /\ Len(w) = x /\ Len(z) = Len(u) - x
          /\ \A k \in 1..x : w[k] = u[k]
          /\ \A k \in 1..(Len(u) - x) : z[k] = u[x + k]
          /\ u = w \o z
      <3>1. CutInto(S, u, x, w, z)
        BY <2>1, CutParts
      <3> HIDE DEF w, z
      <3> QED BY <3>1 DEF CutInto
    <2> QED BY <1>9, <2>2
  <1> HIDE DEF w, z
  <1>12. \A k \in 1..Len(w) : w[k] # Blank
    <2> SUFFICES ASSUME NEW k \in 1..x PROVE w[k] # Blank
      BY <1>11
    <2>1. k \in 1..d
      BY <1>6
    <2>2. w[k] = u[k]
      BY <1>11
    <2> QED BY <1>7, <1>9, <2>1, <2>2
  <1>13. \A k \in 1..Len(z) : z[k] = Blank
    <2> SUFFICES ASSUME NEW k \in 1..(d - x) PROVE z[k] = Blank
      BY <1>11
    <2>1. x + k \in (x + 1)..d /\ x + k \in 1..d
      BY <1>6
    <2>2. z[k] = u[x + k]
      BY <1>11
    <2> QED BY <1>7, <1>9, <2>1, <2>2
  <1>14. Seam(w, z, {Blank})
    <2>1. Len(z) = 0 \/ 1 \in 1..Len(z)
      BY <1>6, <1>11
    <2> QED BY <1>13, <2>1 DEF Seam
  <1>15. Seam(u, b, {Blank})
    <2>1. CASE Len(b) = 0
      BY <2>1 DEF Seam
    <2>2. CASE Len(b) # 0
      <3>0. Len(b) \in Nat /\ Len(b) = Len(s) - d
        BY <1>9, LenProperties
      <3>1. d + 1 <= Len(s) /\ d \in (x + 1)..d /\ d \in 1..d
        <4>1. d + 1 <= Len(s)
          BY <1>1, <1>6, <2>2, <3>0
        <4>2. x # d /\ x \in 1..d /\ x \in Nat /\ d \in Nat
          BY <1>6, <1>7, <4>1
        <4> QED BY <4>1, <4>2
      <3>2. u[d] = Blank
        BY <1>7, <1>9, <3>1
      <3> QED BY <1>9, <3>2 DEF Seam
    <2> QED BY <2>1, <2>2
  <1>16. /\ Starts(z, {Blank}) = <<>> /\ Words(z, {Blank}) = <<>>
         /\ Starts(w, {Blank}) = <<1>> /\ Words(w, {Blank}) = <<w>>
    <2>1. Len(w) # 0
      BY <1>6, <1>11
    <2>2. \A k \in 1..Len(z) : z[k] \in {Blank}
      BY <1>13
    <2>3. \A k \in 1..Len(w) : w[k] \notin {Blank}
      BY <1>12
    <2>4. w \in Seq(S) /\ z \in Seq(S)
      BY <1>11
    <2>5. Starts(z, {Blank}) = <<>> /\ Words(z, {Blank}) = <<>>
      BY <2>2, <2>4, BlankWords
    <2>6. Starts(w, {Blank}) = <<1>> /\ Words(w, {Blank}) = <<w>>
      BY <2>1, <2>3, <2>4, LoneWord
    <2> QED BY <2>5, <2>6
  <1>17. Starts(u, {Blank}) = <<1>> /\ Words(u, {Blank}) = <<w>>
    <2>1. Starts(u, {Blank}) = <<1>> \o Shift(<<>>, x) /\ Words(u, {Blank}) = <<w>> \o <<>>
      <3>1. w \in Seq(S) /\ z \in Seq(S)
        BY <1>11
      <3>2. Starts(w \o z, {Blank}) = Starts(w, {Blank}) \o Shift(Starts(z, {Blank}), Len(w))
        BY <1>14, <3>1, StartsJoined
      <3>3. Words(w \o z, {Blank}) = Words(w, {Blank}) \o Words(z, {Blank})
        BY <1>14, <3>1, WordsJoined
      <3> QED BY <1>11, <1>16, <3>2, <3>3
    <2>2. Shift(<<>>, x) = <<>>
      <3>1. <<>> \in Seq(Nat) /\ Len(<<>>) = 0
        OBVIOUS
      <3>2. Shift(<<>>, x) \in Seq(Nat) /\ Len(Shift(<<>>, x)) = 0
        BY <1>6, <3>1, ShiftIs
      <3> QED BY <3>2, EmptySeq
    <2>3. <<1>> \in Seq(Nat) /\ <<w>> \in Seq(Seq(S))
      BY <1>11
    <2>4. <<1>> \o <<>> = <<1>> /\ <<w>> \o <<>> = <<w>>
      BY <2>3, ConcatEmptySeq
    <2> QED BY <2>1, <2>2, <2>4
  <1>18. /\ Starts(s, {Blank}) = <<1>> \o Shift(Starts(b, {Blank}), d)
         /\ Words(s, {Blank}) = <<w>> \o Words(b, {Blank})
    <2>1. u \in Seq(S) /\ b \in Seq(S)
      BY <1>9
    <2>2. Starts(u \o b, {Blank}) = Starts(u, {Blank}) \o Shift(Starts(b, {Blank}), Len(u))
      BY <1>15, <2>1, StartsJoined
    <2>3. Words(u \o b, {Blank}) = Words(u, {Blank}) \o Words(b, {Blank})
      BY <1>15, <2>1, WordsJoined
    <2> QED BY <1>9, <1>17, <2>2, <2>3
  <1>19. Letters(s) = Letters(w) \o Letters(b)
    <2>1. Letters(z) = <<>>
      BY <1>11, <1>13, Symbols, NoLetters
    <2>2. Letters(u) = Letters(w) \o <<>>
      <3>1. w \in Seq(S) /\ z \in Seq(S)
        BY <1>11
      <3>2. Letters(w \o z) = Letters(w) \o Letters(z)
        BY <3>1, LettersConcat
      <3> QED BY <1>11, <2>1, <3>2
    <2>3. Letters(w) \in Seq(S)
      BY <1>11, KeptIs
    <2>4. Letters(u) = Letters(w)
      <3> DEFINE l == Letters(w)
      <3>1. l \in Seq(S)
        BY <2>3
      <3> HIDE DEF l
      <3>2. l \o <<>> = l
        BY <3>1, ConcatEmptySeq
      <3> QED BY <2>2, <3>2 DEF l
    <2>5. Letters(u \o b) = Letters(u) \o Letters(b)
      <3>1. u \in Seq(S) /\ b \in Seq(S)
        BY <1>9
      <3> QED BY <3>1, LettersConcat
    <2> QED BY <1>9, <2>4, <2>5
  <1>20. Len(w) # 0 /\ w[1] = s[1]
    <2>1. 1 \in 1..x /\ 1 \in 1..d
      BY <1>6
    <2> QED BY <1>6, <1>9, <1>11, <2>1
  <1>21. Len(b) # 0 => b[1] # Blank
    <2>1. Len(b) # 0 => d + 1 <= Len(s) /\ 1 \in 1..(Len(s) - d)
      BY <1>1, <1>6, <1>9
    <2> QED BY <1>7, <1>9, <2>1
  <1>22. Leads(s, w, b, d)
    <2>1. /\ b = SubSeq(s, d + 1, Len(s)) /\ d \in 1..Len(s)
          /\ Len(b) = Len(s) - d /\ \A k \in 1..Len(b) : b[k] = s[d + k]
      BY <1>6, <1>9 DEF b
    <2> QED BY <1>18, <1>19, <1>20, <1>21, <2>1 DEF Leads
  <1>23. FirstWord(s) = w
    BY <1>5, <1>10
  <1> QED BY <1>6, <1>8, <1>9, <1>11, <1>22, <1>23


(* A line by the grammar *)

\* What follows the prefix, the whole line if it has none.
AfterPrefix(s) == IF s # <<>> /\ s[1] = Colon THEN Behind(s) ELSE s

\* Split takes the first word behind the prefix, and then the parameters.
LEMMA SplitParts ==
  ASSUME NEW s \in Seq(STRING)
  PROVE  /\ AfterPrefix(s) \in Seq(STRING)
         /\ Split(s).command = FirstWord(AfterPrefix(s))
         /\ Split(s).params = Params(Behind(AfterPrefix(s)))
         /\ Split(s).prefix = IF (s # <<>> /\ s[1] = Colon) /\ Find(s, {Blank}, 1) <= Len(s)
                              THEN SubSeq(s, 2, Find(s, {Blank}, 1) - 1) ELSE <<>>
  <1> DEFINE prefixed == s # <<>> /\ s[1] = Colon
             e == Find(s, {Blank}, 1)
             from == IF prefixed THEN SkipBlanks(s, e) ELSE 1
             commandEnd == Find(s, {Blank}, from)
  <1>1. Split(s) = [prefix  |-> IF prefixed /\ e <= Len(s) THEN SubSeq(s, 2, e - 1) ELSE <<>>,
                    command |-> SubSeq(s, from, commandEnd - 1),
                    params  |-> Params(From(s, SkipBlanks(s, commandEnd)))]
    BY DEF Split
  <1>2. /\ Split(s).command = SubSeq(s, from, commandEnd - 1)
        /\ Split(s).params = Params(From(s, SkipBlanks(s, commandEnd)))
        /\ Split(s).prefix = IF prefixed /\ e <= Len(s) THEN SubSeq(s, 2, e - 1) ELSE <<>>
    <2> DEFINE a == IF prefixed /\ e <= Len(s) THEN SubSeq(s, 2, e - 1) ELSE <<>>
               b == SubSeq(s, from, commandEnd - 1)
               c == Params(From(s, SkipBlanks(s, commandEnd)))
    <2>1. Split(s) = [prefix |-> a, command |-> b, params |-> c]
      BY <1>1
    <2> HIDE DEF a, b, c
    <2>2. Split(s).command = b /\ Split(s).params = c /\ Split(s).prefix = a
      BY <2>1
    <2> QED BY <2>2 DEF a, b, c
  <1>3. CASE ~prefixed
    <2>1. from = 1 /\ AfterPrefix(s) = s
      BY <1>3 DEF AfterPrefix
    <2> QED BY <1>2, <2>1 DEF FirstWord, Behind
  <1>4. CASE prefixed
    <2>1. Len(s) \in Nat /\ 1 \in 1..(Len(s) + 1)
      BY LenProperties
    <2>2. e \in 1..(Len(s) + 1)
      BY <2>1, FindIs
    <2> HIDE DEF e
    <2>3. SkipBlanks(s, e) \in e..(Len(s) + 1)
      BY <2>2, SkipBlanksIs
    <2> DEFINE d == from - 1
               u == SubSeq(s, 1, d)
               b == SubSeq(s, d + 1, Len(s))
    <2>4. from = SkipBlanks(s, e)
      BY <1>4
    <2>5. from \in 1..(Len(s) + 1) /\ d \in 0..Len(s) /\ d + 1 = from /\ d \in Nat
      BY <2>1, <2>2, <2>3, <2>4
    <2>6. AfterPrefix(s) = b
      <3>1. AfterPrefix(s) = SubSeq(s, from, Len(s))
        BY <1>4, <2>4 DEF AfterPrefix, Behind, From, e
      <3> QED BY <2>5, <3>1
    <2> HIDE DEF from
    <2> HIDE DEF d
    <2>7. /\ u \in Seq(STRING) /\ b \in Seq(STRING) /\ Len(u) = d /\ Len(b) = Len(s) - d
          /\ s = u \o b
      <3>1. d \in 0..Len(s)
        BY <2>5
      <3>2. CutInto(STRING, s, d, u, b)
        BY <3>1, CutParts
      <3> HIDE DEF u, b
      <3> QED BY <3>2 DEF CutInto
    <2> HIDE DEF u, b
    <2> DEFINE n == Find(b, {Blank}, 1)
               m == SkipBlanks(b, n)
    <2>8. 1 \in 1..(Len(b) + 1) /\ Len(b) \in Nat
      BY <2>7, LenProperties
    <2>9. n \in 1..(Len(b) + 1) /\ commandEnd = d + n
      <3>1. Find(u \o b, {Blank}, Len(u) + 1) = Len(u) + Find(b, {Blank}, 1)
        <4>1. FoundBehind(u, b, {Blank})
          BY <2>7, FindJoined
        <4> QED BY <2>8, <4>1 DEF FoundBehind
      <3> QED BY <2>5, <2>7, <2>8, <3>1, FindIs
    <2> HIDE DEF n
    <2>10. m \in n..(Len(b) + 1)
      BY <2>7, <2>9, SkipBlanksIs
    <2>11. SkipBlanks(s, commandEnd) = d + m
      <3>1. SkipBlanks(u \o b, Len(u) + n) = Len(u) + SkipBlanks(b, n)
        BY <2>7, <2>9, SkipJoined
      <3> QED BY <2>7, <2>9, <3>1
    <2> HIDE DEF m
    <2>12. SubSeq(s, from, commandEnd - 1) = FirstWord(b)
      <3>1. /\ n - 1 \in 0..Len(b) /\ 1 <= (n - 1) + 1
            /\ d + 1 = from /\ commandEnd - 1 = d + (n - 1)
        BY <2>5, <2>8, <2>9
      <3>2. SubSeq(u \o b, Len(u) + 1, Len(u) + (n - 1)) = SubSeq(b, 1, n - 1)
        <4>1. u \in Seq(STRING) /\ b \in Seq(STRING) /\ 1 \in 1..(Len(b) + 1)
          BY <2>7, <2>8
        <4> QED BY <3>1, <4>1, PartOfJoined
      <3> QED BY <2>7, <3>1, <3>2 DEF FirstWord, n
    <2>13. From(s, SkipBlanks(s, commandEnd)) = Behind(b)
      <3>1. /\ m \in 1..(Len(b) + 1) /\ Len(b) \in 0..Len(b) /\ m <= Len(b) + 1
            /\ d + Len(b) = Len(s)
        BY <2>1, <2>5, <2>7, <2>8, <2>9, <2>10
      <3>2. SubSeq(u \o b, Len(u) + m, Len(u) + Len(b)) = SubSeq(b, m, Len(b))
        <4>1. u \in Seq(STRING) /\ b \in Seq(STRING)
          BY <2>7
        <4> QED BY <3>1, <4>1, PartOfJoined
      <3> QED BY <2>7, <2>11, <3>1, <3>2 DEF From, Behind, m, n
    <2>14. Split(s).command = FirstWord(b) /\ Split(s).params = Params(Behind(b))
      BY <1>2, <2>12, <2>13
    <2> QED BY <1>2, <2>6, <2>7, <2>14 DEF e
  <1> QED BY <1>3, <1>4

LEMMA EmptyLine ==
  /\ Find(<<>>, {Blank}, 1) = 1 /\ FirstWord(<<>>) = <<>> /\ Behind(<<>>) = <<>>
  /\ Words(<<>>, {Blank}) = <<>> /\ Starts(<<>>, {Blank}) = <<>> /\ Letters(<<>>) = <<>>
  <1>1. <<>> \in Seq(STRING) /\ Len(<<>>) = 0
    OBVIOUS
  <1>2. 1 \in 1..(Len(<<>>) + 1) /\ \A e \in 1..(Len(<<>>) + 1) : e = 1
    BY <1>1
  <1>3. Find(<<>>, {Blank}, 1) = 1
    BY <1>1, <1>2, FindIs
  <1>4. SkipBlanks(<<>>, 1) = 1
    BY <1>1, <1>2, SkipBlanksIs
  <1>5. SubSeq(<<>>, 1, 1 - 1) = <<>> /\ SubSeq(<<>>, 1, 0) = <<>>
    BY SubSeqEmpty
  <1>6. \A k \in 1..Len(<<>>) : <<>>[k] \in {Blank} /\ <<>>[k] \in Dropped
    BY <1>1
  <1>7. Words(<<>>, {Blank}) = <<>> /\ Starts(<<>>, {Blank}) = <<>> /\ Letters(<<>>) = <<>>
    BY <1>1, <1>6, BlankWords, NoLetters
  <1>8. FirstWord(<<>>) = <<>>
    BY <1>3, <1>5 DEF FirstWord
  <1>9. Behind(<<>>) = <<>>
    BY <1>1, <1>3, <1>4, <1>5 DEF Behind, From
  <1> QED BY <1>3, <1>7, <1>8, <1>9

\* A text that has a first word starts with it.
LEMMA Headed ==
  ASSUME NEW s \in Seq(STRING)
  PROVE  FirstWord(s) # <<>> <=> Len(s) # 0 /\ s[1] # Blank
  <1>1. ASSUME Len(s) # 0, s[1] # Blank PROVE FirstWord(s) # <<>>
    <2>1. PICK d \in Nat : Leads(s, FirstWord(s), Behind(s), d)
      BY <1>1, FirstIs
    <2>2. Len(FirstWord(s)) # 0
      BY <2>1 DEF Leads
    <2>3. Len(<<>>) = 0
      OBVIOUS
    <2> QED BY <2>2, <2>3
  <1>2. ASSUME Len(s) = 0 PROVE FirstWord(s) = <<>>
    <2>1. s = <<>>
      BY <1>2, EmptySeq
    <2> QED BY <2>1, EmptyLine
  <1>3. ASSUME Len(s) # 0, s[1] = Blank PROVE FirstWord(s) = <<>>
    <2>1. Len(s) \in Nat /\ 1 \in 1..(Len(s) + 1) /\ 1 \in 1..Len(s)
      BY <1>3, LenProperties
    <2>2. FirstAt(s, {Blank}, 1, 1)
      BY <1>3, <2>1 DEF FirstAt
    <2>3. Find(s, {Blank}, 1) = 1
      BY <2>1, <2>2, FindOnly
    <2>4. SubSeq(s, 1, 1 - 1) = <<>>
      BY SubSeqEmpty
    <2> QED BY <2>3, <2>4 DEF FirstWord
  <1> QED BY <1>1, <1>2, <1>3

LEMMA SplitIs ==
  ASSUME NEW text \in Seq(STRING)
  PROVE  Filled(Split(text).params)
  <1> DEFINE prefixed == text # <<>> /\ text[1] = Colon
             prefixEnd == Find(text, {Blank}, 1)
             start == IF prefixed THEN SkipBlanks(text, prefixEnd) ELSE 1
             commandEnd == Find(text, {Blank}, start)
             from == SkipBlanks(text, commandEnd)
  <1>1. Len(text) \in Nat /\ 1 \in 1..(Len(text) + 1)
    BY LenProperties
  <1>2. prefixEnd \in 1..(Len(text) + 1)
    BY <1>1, FindIs
  <1>3. SkipBlanks(text, prefixEnd) \in prefixEnd..(Len(text) + 1)
    BY <1>2, SkipBlanksIs
  <1>4. start \in 1..(Len(text) + 1)
    BY <1>1, <1>2, <1>3
  <1> HIDE DEF start, prefixEnd
  <1>5. commandEnd \in start..(Len(text) + 1)
    BY <1>4, FindIs
  <1>6. commandEnd \in 1..(Len(text) + 1)
    BY <1>1, <1>4, <1>5
  <1>7. from \in commandEnd..(Len(text) + 1)
    BY <1>6, SkipBlanksIs
  <1> HIDE DEF commandEnd
  <1>8. /\ from \in 1..(Len(text) + 1) /\ Len(text) \in 0..Len(text)
        /\ from <= Len(text) + 1
    BY <1>1, <1>6, <1>7
  <1> HIDE DEF from
  <1>9. From(text, from) \in Seq(STRING)
    BY <1>8, Part DEF From
  <1>10. Split(text).params = Params(From(text, from))
    BY DEF Split, from, commandEnd, start, prefixEnd
  <1> QED BY <1>9, <1>10, ParamsAre

LEMMA PrefixIs ==
  ASSUME NEW s \in Seq(STRING), Len(s) # 0, s[1] = Colon, Behind(s) # <<>>
  PROVE  /\ Split(s).prefix \in Seq(STRING) /\ Split(s).prefix = Tail(FirstWord(s))
         /\ Letters(Split(s).prefix) = Letters(FirstWord(s))
  <1> DEFINE e == Find(s, {Blank}, 1)
             n == e - 1
             p == SubSeq(s, 2, n)
  <1>1. Len(s) \in Nat /\ 1 \in 1..(Len(s) + 1) /\ 1 <= Len(s) /\ s # <<>>
    <2>1. Len(s) \in Nat
      BY LenProperties
    <2>2. Len(<<>>) = 0
      OBVIOUS
    <2> QED BY <2>1, <2>2
  <1>2. e \in 1..(Len(s) + 1) /\ e > 1
    <2>1. Colon # Blank
      BY DEF Colon, Blank
    <2>2. s[1] # Blank
      BY <2>1
    <2> QED BY <1>1, <2>2, FindIs
  <1>3. Split(s).prefix = IF e <= Len(s) THEN p ELSE <<>>
    BY <1>1, SplitParts
  <1>4. FirstWord(s) = SubSeq(s, 1, n) /\ Behind(s) = From(s, SkipBlanks(s, e))
    BY DEF FirstWord, Behind
  <1> HIDE DEF e
  <1>5. e <= Len(s)
    <2>1. ASSUME e = Len(s) + 1 PROVE FALSE
      <3>1. SkipBlanks(s, e) = Len(s) + 1
        <4>1. SkipBlanks(s, e) \in e..(Len(s) + 1)
          BY <1>2, SkipBlanksIs
        <4> QED BY <1>1, <2>1, <4>1
      <3>2. SubSeq(s, Len(s) + 1, Len(s)) = <<>>
        <4>1. Len(s) + 1 \in Int /\ Len(s) \in Int /\ Len(s) < Len(s) + 1
          BY <1>1
        <4> QED BY <4>1, SubSeqEmpty
      <3> QED BY <1>4, <3>1, <3>2 DEF From
    <2> QED BY <1>1, <1>2, <2>1
  <1>6. 1 \in 1..Len(s) /\ n \in 1..Len(s) /\ 1 + 1 = 2
    BY <1>1, <1>2, <1>5
  <1> HIDE DEF n
  <1>7. Split(s).prefix = p
    BY <1>3, <1>5
  <1>8. Tail(SubSeq(s, 1, n)) = p /\ SubSeq(s, 1, n) = <<s[1]>> \o p
    <2>1. Tail(SubSeq(s, 1, n)) = SubSeq(s, 1 + 1, n)
      BY <1>6, HeadTailOfSubSeq
    <2>2. SubSeq(s, 1, n) = <<s[1]>> \o SubSeq(s, 1 + 1, n)
      BY <1>6, SubSeqRecursiveFirst
    <2> QED BY <1>6, <2>1, <2>2
  <1>9. p \in Seq(STRING)
    <2>1. 2 \in 1..(Len(s) + 1) /\ n \in 0..Len(s) /\ 2 <= n + 1
      BY <1>1, <1>6
    <2> QED BY <2>1, Part
  <1> HIDE DEF p
  <1>10. Letters(<<s[1]>> \o p) = Letters(p)
    <2> DEFINE c == <<s[1]>>
    <2>1. c \in Seq(STRING) /\ Len(c) = 1 /\ \A k \in 1..Len(c) : c[k] \in Dropped
      <3>1. s[1] \in STRING
        BY <1>6, ElementOfSeq
      <3> QED BY <3>1, Symbols
    <2> HIDE DEF c
    <2>2. Letters(c) = <<>>
      BY <2>1, NoLetters
    <2>3. Letters(c \o p) = Letters(c) \o Letters(p)
      BY <1>9, <2>1, LettersConcat
    <2>4. <<>> \o Letters(p) = Letters(p)
      <3> DEFINE l == Letters(p)
      <3>1. l \in Seq(STRING)
        BY <1>9, KeptIs
      <3> HIDE DEF l
      <3>2. <<>> \o l = l
        BY <3>1, ConcatEmptySeq
      <3> QED BY <3>2 DEF l
    <2> QED BY <2>2, <2>3, <2>4 DEF c
  <1> QED BY <1>4, <1>7, <1>8, <1>9, <1>10

\* What is behind the first word, if it is anything, starts with a word too.
LEMMA BehindIs ==
  ASSUME NEW s \in Seq(STRING), Len(s) # 0, s[1] # Blank
  PROVE  /\ FirstWord(s) \in Seq(STRING) /\ Behind(s) \in Seq(STRING)
         /\ Len(Behind(s)) # 0 => Behind(s)[1] # Blank
         /\ Letters(s) = Letters(FirstWord(s)) \o Letters(Behind(s))
  <1>1. /\ FirstWord(s) \in Seq(STRING) /\ Behind(s) \in Seq(STRING)
        /\ \E d \in Nat : Leads(s, FirstWord(s), Behind(s), d)
    BY FirstIs
  <1>2. PICK d \in Nat : Leads(s, FirstWord(s), Behind(s), d)
    BY <1>1
  <1>3. /\ Len(Behind(s)) # 0 => Behind(s)[1] # Blank
        /\ Letters(s) = Letters(FirstWord(s)) \o Letters(Behind(s))
    BY <1>2 DEF Leads
  <1> QED BY <1>1, <1>3

TextOf(m) == m.prefix \o m.command \o FlattenSeq(m.params)

LEMMA TextKept ==
  ASSUME NEW s \in Seq(STRING), IsValid(Split(s))
  PROVE  Letters(TextOf(Split(s))) = Letters(s)
  <1> DEFINE r == AfterPrefix(s)
             pre == Split(s).prefix
             c == FirstWord(r)
             b == Behind(r)
             f == FlattenSeq(Params(b))
  <1>1. r \in Seq(STRING) /\ Split(s).command = c /\ Split(s).params = Params(b)
    BY SplitParts
  <1>2. TextOf(Split(s)) = pre \o c \o f
    BY <1>1 DEF TextOf
  <1>3. c # <<>>
    BY <1>1 DEF IsValid
  <1> HIDE DEF r
  <1>4. Len(r) # 0 /\ r[1] # Blank
    BY <1>1, <1>3, Headed
  <1>5. c \in Seq(STRING) /\ b \in Seq(STRING) /\ Letters(r) = Letters(c) \o Letters(b)
    BY <1>1, <1>4, BehindIs
  <1> HIDE DEF b
  <1>6. f \in Seq(STRING) /\ Letters(f) = Letters(b)
    BY <1>5, ParamsAre
  <1>7. pre \in Seq(STRING) /\ Letters(s) = Letters(pre) \o Letters(r)
    <2>1. CASE ~(s # <<>> /\ s[1] = Colon)
      <3>1. pre = <<>> /\ r = s
        BY <2>1, SplitParts DEF AfterPrefix, r
      <3>2. Letters(<<>>) = <<>> /\ <<>> \in Seq(STRING)
        BY EmptyLine
      <3>3. <<>> \o Letters(r) = Letters(r)
        <4> DEFINE l == Letters(r)
        <4>1. l \in Seq(STRING)
          BY <1>1, KeptIs
        <4> HIDE DEF l
        <4>2. <<>> \o l = l
          BY <4>1, ConcatEmptySeq
        <4> QED BY <4>2 DEF l
      <3> QED BY <3>1, <3>2, <3>3
    <2>2. CASE s # <<>> /\ s[1] = Colon
      <3>1. r = Behind(s) /\ Len(s) # 0 /\ s[1] # Blank
        <4>1. Colon # Blank
          BY DEF Colon, Blank
        <4> QED BY <2>2, <4>1, EmptySeq DEF AfterPrefix, r
      <3>2. Behind(s) # <<>>
        <4>1. Len(<<>>) = 0
          OBVIOUS
        <4> QED BY <1>4, <3>1, <4>1
      <3>3. pre \in Seq(STRING) /\ Letters(pre) = Letters(FirstWord(s))
        BY <2>2, <3>1, <3>2, PrefixIs
      <3>4. Letters(s) = Letters(FirstWord(s)) \o Letters(Behind(s))
        BY <3>1, BehindIs
      <3> QED BY <3>1, <3>3, <3>4
    <2> QED BY <2>1, <2>2
  <1> HIDE DEF pre, c, f
  <1>8. Letters((pre \o c) \o f) = (Letters(pre) \o Letters(c)) \o Letters(f)
    <2>1. pre \o c \in Seq(STRING) /\ Letters(pre \o c) = Letters(pre) \o Letters(c)
      BY <1>5, <1>7, LettersConcat, ConcatProperties
    <2>2. Letters((pre \o c) \o f) = Letters(pre \o c) \o Letters(f)
      BY <1>6, <2>1, LettersConcat
    <2> QED BY <2>1, <2>2
  <1>9. (Letters(pre) \o Letters(c)) \o Letters(f) = Letters(pre) \o (Letters(c) \o Letters(f))
    <2> DEFINE x == Letters(pre)
               y == Letters(c)
               z == Letters(f)
    <2>1. x \in Seq(STRING) /\ y \in Seq(STRING) /\ z \in Seq(STRING)
      BY <1>5, <1>6, <1>7, KeptIs
    <2> HIDE DEF x, y, z
    <2>2. (x \o y) \o z = x \o (y \o z)
      BY <2>1, ConcatAssociative
    <2> QED BY <2>2 DEF x, y, z
  <1> QED BY <1>2, <1>5, <1>6, <1>7, <1>8, <1>9

\* p is what the first n words of s, which end before d, leave of it.
Leaves(s, n, p, d) ==
  /\ p \in Seq(STRING) /\ d \in Nat /\ d <= Len(s)
  /\ p = SubSeq(s, d + 1, Len(s)) /\ Len(p) = Len(s) - d
  /\ \A k \in 1..Len(p) : p[k] = s[d + k]
  /\ Len(p) # 0 => p[1] # Blank
  /\ Len(Starts(s, {Blank})) = n + Len(Starts(p, {Blank}))
  /\ \A k \in 1..Len(Starts(p, {Blank})) :
       Starts(s, {Blank})[n + k] = Starts(p, {Blank})[k] + d /\ Words(s, {Blank})[n + k] = Words(p, {Blank})[k]

LEMMA LeavesAll ==
  ASSUME NEW s \in Seq(STRING), Len(s) # 0 => s[1] # Blank
  PROVE  Leaves(s, 0, s, 0)
  <1>1. /\ Len(s) \in Nat /\ Len(Starts(s, {Blank})) \in Nat
        /\ \A k \in 1..Len(Starts(s, {Blank})) : Starts(s, {Blank})[k] \in 1..Len(s)
    BY LenProperties, WordIs
  <1>2. s = SubSeq(s, 0 + 1, Len(s))
    <2>1. 0 + 1 = 1
      OBVIOUS
    <2> QED BY <2>1, SubSeqFull
  <1>3. /\ \A k \in 1..Len(s) : 0 + k = k
        /\ \A k \in 1..Len(Starts(s, {Blank})) : 0 + k = k
        /\ \A k \in 1..Len(s) : k + 0 = k
        /\ 0 \in Nat /\ 0 <= Len(s) /\ Len(s) = Len(s) - 0
        /\ Len(Starts(s, {Blank})) = 0 + Len(Starts(s, {Blank}))
    BY <1>1
  <1>4. ASSUME NEW k \in 1..Len(Starts(s, {Blank}))
        PROVE  Starts(s, {Blank})[0 + k] = Starts(s, {Blank})[k] + 0 /\ Words(s, {Blank})[0 + k] = Words(s, {Blank})[k]
    BY <1>1, <1>3
  <1>5. ASSUME NEW k \in 1..Len(s) PROVE s[k] = s[0 + k]
    BY <1>3
  <1> QED BY <1>2, <1>3, <1>4, <1>5 DEF Leaves

LEMMA LeavesNext ==
  ASSUME NEW s \in Seq(STRING), NEW n \in Nat, NEW p, NEW d,
         Leaves(s, n, p, d), Len(p) # 0
  PROVE  /\ n + 1 <= Len(Words(s, {Blank})) /\ Words(s, {Blank})[n + 1] = FirstWord(p)
         /\ \E e : Leaves(s, n + 1, Behind(p), e)
  <1> DEFINE b == Behind(p)
             w == FirstWord(p)
  <1>1. /\ p \in Seq(STRING) /\ d \in Nat /\ d <= Len(s) /\ Len(p) = Len(s) - d
        /\ p = SubSeq(s, d + 1, Len(s))
        /\ \A k \in 1..Len(p) : p[k] = s[d + k]
        /\ p[1] # Blank
        /\ Len(Starts(s, {Blank})) = n + Len(Starts(p, {Blank}))
        /\ \A k \in 1..Len(Starts(p, {Blank})) :
             Starts(s, {Blank})[n + k] = Starts(p, {Blank})[k] + d /\ Words(s, {Blank})[n + k] = Words(p, {Blank})[k]
    BY DEF Leaves
  <1>2. /\ w \in Seq(STRING) /\ b \in Seq(STRING)
        /\ \E c \in Nat : Leads(p, w, b, c)
    BY <1>1, FirstIs
  <1>3. PICK c \in Nat : Leads(p, w, b, c)
    BY <1>2
  <1> HIDE DEF b, w
  <1>4. /\ c \in 1..Len(p) /\ b = SubSeq(p, c + 1, Len(p)) /\ Len(b) = Len(p) - c
        /\ \A k \in 1..Len(b) : b[k] = p[c + k]
        /\ Len(b) # 0 => b[1] # Blank
        /\ Starts(p, {Blank}) = <<1>> \o Shift(Starts(b, {Blank}), c)
        /\ Words(p, {Blank}) = <<w>> \o Words(b, {Blank})
    BY <1>3 DEF Leads
  <1> DEFINE e == d + c
  <1>5. Len(s) \in Nat /\ Len(p) \in Nat /\ Len(b) \in Nat
    BY <1>1, <1>2, LenProperties
  <1>6. /\ e \in Nat /\ e <= Len(s) /\ Len(b) = Len(s) - e
    BY <1>1, <1>4, <1>5
  <1>7. ASSUME NEW k \in 1..Len(b) PROVE b[k] = s[e + k]
    <2>1. c \in 1..Len(p) /\ d \in Nat /\ Len(b) = Len(p) - c
      BY <1>1, <1>4
    <2>2. c + k \in 1..Len(p) /\ d + (c + k) = e + k
      BY <1>5, <2>1
    <2> HIDE DEF e
    <2>3. p[c + k] = s[d + (c + k)]
      BY <1>1, <2>2
    <2> QED BY <1>4, <2>2, <2>3
  <1>8. b = SubSeq(s, e + 1, Len(s))
    <2> DEFINE x == SubSeq(s, e + 1, Len(s))
    <2>1. e \in 0..Len(s)
      BY <1>5, <1>6
    <2>2. /\ x \in Seq(STRING) /\ Len(x) = Len(s) - e
          /\ \A k \in 1..(Len(s) - e) : x[k] = s[e + k]
      BY <2>1, Cut
    <2> HIDE DEF x, e
    <2>3. Len(b) = Len(x) /\ \A k \in 1..Len(b) : b[k] = x[k]
      BY <1>6, <1>7, <2>2
    <2>4. b = x
      BY <1>2, <2>2, <2>3, SeqEqual
    <2> QED BY <2>4 DEF x
  <1> HIDE DEF e
  <1>9. /\ Words(b, {Blank}) \in Seq(Seq(STRING)) /\ Starts(b, {Blank}) \in Seq(Nat)
        /\ Len(Words(b, {Blank})) = Len(Starts(b, {Blank}))
        /\ Len(Starts(b, {Blank})) \in Nat
        /\ Len(Words(s, {Blank})) = Len(Starts(s, {Blank}))
    BY <1>2, WordIs
  <1>10. /\ Len(Starts(p, {Blank})) = 1 + Len(Starts(b, {Blank}))
         /\ \A k \in 1..Len(Starts(b, {Blank})) : Starts(p, {Blank})[1 + k] = Starts(b, {Blank})[k] + c
    <2> DEFINE q == Shift(Starts(b, {Blank}), c)
               o == <<1>>
    <2>1. /\ q \in Seq(Nat) /\ Len(q) = Len(Starts(b, {Blank}))
          /\ \A k \in 1..Len(Starts(b, {Blank})) : q[k] = Starts(b, {Blank})[k] + c
      BY <1>9, ShiftIs
    <2>2. o \in Seq(Nat) /\ Len(o) = 1
      OBVIOUS
    <2>3. Starts(p, {Blank}) = o \o q
      BY <1>4
    <2> HIDE DEF o, q
    <2>4. /\ o \o q \in Seq(Nat) /\ Len(o) \in Nat /\ Len(q) \in Nat
          /\ Len(o \o q) = Len(o) + Len(q)
          /\ \A k \in 1..Len(o) : (o \o q)[k] = o[k]
          /\ \A k \in 1..Len(q) : (o \o q)[Len(o) + k] = q[k]
      <3>1. o \in Seq(Nat) /\ q \in Seq(Nat)
        BY <2>1, <2>2
      <3> QED BY <3>1, Joined
    <2> QED BY <2>1, <2>2, <2>3, <2>4
  <1>11. /\ Words(p, {Blank})[1] = w
         /\ \A k \in 1..Len(Starts(b, {Blank})) : Words(p, {Blank})[1 + k] = Words(b, {Blank})[k]
    <2> DEFINE q == Words(b, {Blank})
               o == <<w>>
    <2>1. q \in Seq(Seq(STRING)) /\ Len(q) = Len(Starts(b, {Blank}))
      BY <1>9
    <2>2. o \in Seq(Seq(STRING)) /\ Len(o) = 1 /\ o[1] = w
      BY <1>2
    <2>3. Words(p, {Blank}) = o \o q
      BY <1>4
    <2> HIDE DEF o, q
    <2>4. /\ o \o q \in Seq(Seq(STRING)) /\ Len(o) \in Nat /\ Len(q) \in Nat
          /\ Len(o \o q) = Len(o) + Len(q)
          /\ \A k \in 1..Len(o) : (o \o q)[k] = o[k]
          /\ \A k \in 1..Len(q) : (o \o q)[Len(o) + k] = q[k]
      <3>1. o \in Seq(Seq(STRING)) /\ q \in Seq(Seq(STRING))
        BY <2>1, <2>2
      <3> QED BY <3>1, Joined
    <2>5. 1 \in 1..Len(o)
      BY <2>2
    <2>6. ASSUME NEW k \in 1..Len(Starts(b, {Blank})) PROVE Words(p, {Blank})[1 + k] = Words(b, {Blank})[k]
      <3>1. (o \o q)[Len(o) + k] = q[k]
        BY <2>1, <2>4
      <3> QED BY <2>2, <2>3, <3>1 DEF q
    <2>7. Words(p, {Blank})[1] = w
      <3>1. (o \o q)[1] = o[1]
        BY <2>4, <2>5
      <3> QED BY <2>2, <2>3, <3>1
    <2> QED BY <2>6, <2>7
  <1>12. n + 1 <= Len(Words(s, {Blank})) /\ Words(s, {Blank})[n + 1] = w
    <2>1. /\ 1 \in 1..Len(Starts(p, {Blank})) /\ n + 1 <= Len(Starts(s, {Blank}))
      BY <1>1, <1>9, <1>10
    <2>2. Words(s, {Blank})[n + 1] = Words(p, {Blank})[1]
      BY <1>1, <2>1
    <2> QED BY <1>9, <1>11, <2>1, <2>2
  <1>13. Len(Starts(s, {Blank})) = (n + 1) + Len(Starts(b, {Blank}))
    <2>1. /\ Len(Starts(s, {Blank})) = n + Len(Starts(p, {Blank}))
          /\ Len(Starts(p, {Blank})) = 1 + Len(Starts(b, {Blank}))
      BY <1>1, <1>10
    <2> QED BY <1>9, <2>1
  <1>14. ASSUME NEW k \in 1..Len(Starts(b, {Blank}))
         PROVE  /\ Starts(s, {Blank})[(n + 1) + k] = Starts(b, {Blank})[k] + e
                /\ Words(s, {Blank})[(n + 1) + k] = Words(b, {Blank})[k]
    <2>1. 1 + k \in 1..Len(Starts(p, {Blank})) /\ n + (1 + k) = (n + 1) + k
      BY <1>9, <1>10
    <2>2. Starts(b, {Blank})[k] \in Nat
      BY <1>9, ElementOfSeq
    <2>3. (Starts(b, {Blank})[k] + c) + d = Starts(b, {Blank})[k] + e
      BY <1>1, <2>2 DEF e
    <2>4. /\ Starts(s, {Blank})[n + (1 + k)] = Starts(p, {Blank})[1 + k] + d
          /\ Words(s, {Blank})[n + (1 + k)] = Words(p, {Blank})[1 + k]
      BY <1>1, <2>1
    <2>5. /\ Starts(p, {Blank})[1 + k] = Starts(b, {Blank})[k] + c
          /\ Words(p, {Blank})[1 + k] = Words(b, {Blank})[k]
      BY <1>10, <1>11
    <2> HIDE DEF b, e
    <2> QED BY <2>1, <2>3, <2>4, <2>5
  <1>15. Leaves(s, n + 1, b, e)
    BY <1>2, <1>4, <1>6, <1>7, <1>8, <1>13, <1>14 DEF Leaves
  <1> QED BY <1>12, <1>15 DEF b, w


LEMMA RestOfLine ==
  ASSUME NEW s \in Seq(STRING), Len(s) # 0, s[1] # Blank
  PROVE  \E q \in {0, 1} :
           /\ CommandWord(s) = q + 1
           /\ \E d : Leaves(s, q, AfterPrefix(s), d)
           /\ Len(AfterPrefix(s)) # 0 =>
                Split(s).prefix = IF q + 1 = 2 THEN Tail(Words(s, {Blank})[1]) ELSE <<>>
  <1>1. Leaves(s, 0, s, 0) /\ s # <<>>
    <2>1. Len(<<>>) = 0
      OBVIOUS
    <2> QED BY <2>1, LeavesAll
  <1>2. CASE s[1] = Colon
    <2>1. CommandWord(s) = 1 + 1 /\ AfterPrefix(s) = Behind(s) /\ 1 + 1 = 2 /\ 0 + 1 = 1
      BY <1>1, <1>2 DEF CommandWord, AfterPrefix
    <2>2. /\ Words(s, {Blank})[0 + 1] = FirstWord(s)
          /\ \E d : Leaves(s, 0 + 1, Behind(s), d)
      BY <1>1, LeavesNext
    <2>3. Len(Behind(s)) # 0 => Split(s).prefix = Tail(Words(s, {Blank})[1])
      <3>1. Len(<<>>) = 0
        OBVIOUS
      <3>2. ASSUME Behind(s) # <<>> PROVE Split(s).prefix = Tail(FirstWord(s))
        BY <1>2, <3>2, PrefixIs
      <3> QED BY <2>1, <2>2, <3>1, <3>2
    <2> QED BY <2>1, <2>2, <2>3
  <1>3. CASE s[1] # Colon
    <2>1. CommandWord(s) = 0 + 1 /\ AfterPrefix(s) = s /\ 0 + 1 # 2
      BY <1>3 DEF CommandWord, AfterPrefix
    <2>2. Split(s).prefix = <<>>
      BY <1>3, SplitParts
    <2> QED BY <1>1, <2>1, <2>2
  <1> QED BY <1>2, <1>3

LEMMA ByTheGrammar ==
  ASSUME NEW s \in Seq(STRING), Len(s) # 0, s[1] # Blank
  PROVE  /\ IsValid(Split(s)) <=> Len(Words(s, {Blank})) >= CommandWord(s)
         /\ IsValid(Split(s)) /\ ~ColonTwice(ParamText(s)) /\ ~Stray(ParamText(s)) =>
             Split(s) = ByGrammar(s)
  <1> DEFINE r == AfterPrefix(s)
  <1>0. /\ r \in Seq(STRING) /\ Split(s).command = FirstWord(r)
        /\ Split(s).params = Params(Behind(r))
        /\ IsValid(Split(s)) <=> FirstWord(r) # <<>>
    BY SplitParts DEF IsValid
  <1>1. PICK q \in {0, 1} :
           /\ CommandWord(s) = q + 1
           /\ \E d : Leaves(s, q, r, d)
           /\ Len(r) # 0 =>
                Split(s).prefix = IF q + 1 = 2 THEN Tail(Words(s, {Blank})[1]) ELSE <<>>
    BY RestOfLine
  <1>2. PICK d : Leaves(s, q, r, d)
    BY <1>1
  <1> HIDE DEF r
  <1>3. /\ Len(r) # 0 => r[1] # Blank
        /\ Len(Starts(s, {Blank})) = q + Len(Starts(r, {Blank}))
        /\ Len(Words(s, {Blank})) = Len(Starts(s, {Blank}))
    BY <1>2, WordIs DEF Leaves
  <1>4. CASE Len(r) = 0
    <2>1. r = <<>>
      BY <1>0, <1>4, EmptySeq
    <2>2. FirstWord(r) = <<>> /\ Len(Starts(r, {Blank})) = 0
      BY <2>1, EmptyLine
    <2>3. ~(Len(Words(s, {Blank})) >= CommandWord(s))
      <3>1. Len(Words(s, {Blank})) = q + 0 /\ CommandWord(s) = q + 1
        BY <1>1, <1>3, <2>2
      <3> QED BY <3>1
    <2> QED BY <1>0, <2>2, <2>3
  <1>5. CASE Len(r) # 0
    <2> DEFINE n == q + 1
               p == Behind(r)
    <2>1. FirstWord(r) # <<>> /\ p \in Seq(STRING)
      BY <1>0, <1>3, <1>5, Headed, BehindIs
    <2>2. /\ n <= Len(Words(s, {Blank})) /\ Words(s, {Blank})[n] = FirstWord(r)
          /\ \E e : Leaves(s, n, p, e)
      <3>1. q \in Nat
        OBVIOUS
      <3> QED BY <1>2, <1>5, <3>1, LeavesNext
    <2>3. PICK e : Leaves(s, n, p, e)
      BY <2>2
    <2>4. /\ CommandWord(s) = n
          /\ Split(s).prefix = IF n = 2 THEN Tail(Words(s, {Blank})[1]) ELSE <<>>
          /\ Split(s).command = Words(s, {Blank})[n] /\ Split(s).params = Params(p)
          /\ n \in Nat
      BY <1>0, <1>1, <1>5, <2>2
    <2> HIDE DEF p, n
    <2>5. /\ e \in Nat /\ p = SubSeq(s, e + 1, Len(s))
          /\ \A k \in 1..Len(p) : p[k] = s[e + k]
          /\ Len(p) # 0 => p[1] # Blank
          /\ Len(Starts(s, {Blank})) = n + Len(Starts(p, {Blank}))
          /\ \A k \in 1..Len(Starts(p, {Blank})) : Starts(s, {Blank})[n + k] = Starts(p, {Blank})[k] + e
      BY <2>3 DEF Leaves
    <2>6. /\ Len(Starts(p, {Blank})) \in Nat
          /\ \A k \in 1..Len(Starts(p, {Blank})) : Starts(p, {Blank})[k] \in 1..Len(p)
      BY <2>1, WordIs
    <2>7. ParamText(s) = p
      <3> DEFINE st == Starts(s, {Blank})
                 sp == Starts(p, {Blank})
      <3>1. /\ Len(st) = n + Len(sp) /\ n \in Nat /\ Len(sp) \in Nat
            /\ ParamStart(s) = IF n < Len(st) THEN st[n + 1] ELSE Len(s) + 1
        BY <2>4, <2>5, <2>6 DEF ParamStart
      <3>2. CASE Len(p) = 0
        <4>1. p = <<>>
          BY <2>1, <3>2, EmptySeq
        <4>2. Len(sp) = 0
          BY <4>1, EmptyLine
        <4> HIDE DEF sp, st
        <4>3. ParamStart(s) = Len(s) + 1
          BY <3>1, <4>2
        <4>4. SubSeq(s, Len(s) + 1, Len(s)) = <<>>
          <5>1. Len(s) \in Nat
            BY LenProperties
          <5>2. Len(s) + 1 \in Int /\ Len(s) \in Int /\ Len(s) < Len(s) + 1
            BY <5>1
          <5> QED BY <5>2, SubSeqEmpty
        <4> QED BY <4>1, <4>3, <4>4 DEF ParamText, From
      <3>3. CASE Len(p) # 0
        <4>1. 1 \in 1..Len(sp) /\ sp[1] = 1
          <5>1. p[1] \notin {Blank}
            BY <2>5, <3>3
          <5> QED BY <2>1, <3>3, <5>1, FirstStart
        <4>2. st[n + 1] = sp[1] + e
          BY <2>5, <4>1
        <4> HIDE DEF sp, st
        <4>3. ParamStart(s) = e + 1
          BY <2>5, <3>1, <4>1, <4>2
        <4> QED BY <2>5, <4>3 DEF ParamText, From
      <3> QED BY <3>2, <3>3
    <2>8. ByGrammar(s) = [prefix |-> IF n = 2 THEN Tail(Words(s, {Blank})[1]) ELSE <<>>,
                          command |-> Words(s, {Blank})[n],
                          params |-> UpToColon(p, {Blank})]
      BY <2>4, <2>7 DEF ByGrammar, ParamText
    <2>9. ASSUME ~ColonTwice(ParamText(s)), ~Stray(ParamText(s)) PROVE Split(s) = ByGrammar(s)
      <3>1. \E a, b, c : Split(s) = [prefix |-> a, command |-> b, params |-> c]
        BY DEF Split
      <3>2. PICK a, b, c : Split(s) = [prefix |-> a, command |-> b, params |-> c]
        BY <3>1
      <3>3. a = Split(s).prefix /\ b = Split(s).command /\ c = Split(s).params
        BY <3>2
      <3>4. Params(p) = UpToColon(p, {Blank})
        BY <2>1, <2>5, <2>7, <2>9, ParamsAgree
      <3> QED BY <2>4, <2>8, <3>2, <3>3, <3>4
    <2>10. Len(Words(s, {Blank})) >= CommandWord(s)
      <3>1. Len(Words(s, {Blank})) \in Nat
        BY <1>3, WordIs
      <3> QED BY <2>2, <2>4, <3>1 DEF n
    <2> QED BY <1>0, <2>1, <2>9, <2>10
  <1> QED BY <1>4, <1>5

-----------------------------------------------------------------------------
(* The announcement as a text *)

LEMMA OneSymbol ==
  ASSUME NEW S, NEW x \in S
  PROVE  <<x>> \in Seq(S) /\ Len(<<x>>) = 1 /\ <<x>>[1] = x
  OBVIOUS

LEMMA BlankText ==
  Blank \in STRING /\ <<Blank>> \in Seq(STRING) /\ Len(<<Blank>>) = 1 /\ <<Blank>>[1] = Blank
  <1>1. Blank \in STRING
    BY CommandsAssumption
  <1> QED BY <1>1, OneSymbol

\* p has the words w, with blanks between, none of which starts with a colon.
Spelled(p, w) ==
  /\ BlanksOnly(p) /\ Words(p, {Blank}) = w
  /\ \A d \in Nat : ~ColonAt(p, {Blank}, d)

LEMMA SpelledAlone ==
  ASSUME NEW p \in Seq(STRING), Len(p) # 0, p[1] # Colon,
         \A k \in 1..Len(p) : p[k] \notin Space
  PROVE  Spelled(p, <<p>>)
  <1>1. \A k \in 1..Len(p) : p[k] \notin {Blank}
    BY Symbols
  <1>2. Words(p, {Blank}) = <<p>>
    BY <1>1, LoneWord
  <1>3. ASSUME NEW d \in Nat, ColonAt(p, {Blank}, d) PROVE FALSE
    <2>1. d < Len(p) /\ p[d + 1] = Colon /\ (d = 0 \/ p[d] \in {Blank})
      BY <1>3 DEF ColonAt
    <2>2. d # 0 => d \in 1..Len(p)
      BY <2>1, LenProperties
    <2> QED BY <1>1, <2>1, <2>2
  <1> QED BY <1>2, <1>3 DEF Spelled, BlanksOnly

LEMMA NothingSpelled == Spelled(<<>>, <<>>)
  <1>1. Words(<<>>, {Blank}) = <<>>
    BY NoText
  <1>2. Len(<<>>) = 0
    OBVIOUS
  <1> QED BY <1>1, <1>2 DEF Spelled, BlanksOnly, ColonAt

\* Two texts with a blank between.
LEMMA SpelledJoined ==
  ASSUME NEW u \in Seq(STRING), NEW v \in Seq(STRING),
         NEW w, Spelled(u, w), NEW x, Spelled(v, x)
  PROVE  Spelled((u \o <<Blank>>) \o v, w \o x)
  <1> DEFINE b == <<Blank>>
             h == u \o b
             s == h \o v
             o == {Blank}
  <1>1. b \in Seq(STRING) /\ Len(b) = 1 /\ b[1] = Blank
    BY BlankText
  <1>2. Blank \in o /\ Colon \notin o /\ Colon # Blank /\ \A y : y \in o <=> y = Blank
    BY Symbols
  <1> HIDE DEF b, o
  <1>3. /\ h \in Seq(STRING) /\ Len(u) \in Nat /\ Len(h) = Len(u) + 1
        /\ \A k \in 1..Len(u) : h[k] = u[k]
        /\ h[Len(u) + 1] = Blank
    <2>1. /\ u \o b \in Seq(STRING) /\ Len(u) \in Nat /\ Len(u \o b) = Len(u) + Len(b)
          /\ \A k \in 1..Len(u) : (u \o b)[k] = u[k]
          /\ \A k \in 1..Len(b) : (u \o b)[Len(u) + k] = b[k]
      BY <1>1, Joined
    <2>2. 1 \in 1..Len(b)
      BY <1>1
    <2> QED BY <1>1, <2>1, <2>2
  <1>4. Words(h, o) = w
    <2>1. Words(b, o) = <<>>
      <3>1. \A k \in 1..Len(b) : b[k] \in o
        BY <1>1, <1>2
      <3> QED BY <1>1, <3>1, BlankWords
    <2>2. Words(u \o b, o) = Words(u, o) \o Words(b, o)
      <3>1. Seam(u, b, o)
        BY <1>1, <1>2 DEF Seam
      <3> QED BY <1>1, <3>1, WordsJoined
    <2>3. Words(u, o) \in Seq(Seq(STRING))
      BY WordIs
    <2>4. Words(u, o) \o <<>> = Words(u, o)
      <3> DEFINE q == Words(u, o)
      <3>1. q \in Seq(Seq(STRING))
        BY <2>3
      <3> HIDE DEF q
      <3>2. q \o <<>> = q
        BY <3>1, ConcatEmptySeq
      <3> QED BY <3>2 DEF q
    <2>5. Words(u, o) = w
      BY DEF Spelled, o
    <2> QED BY <2>1, <2>2, <2>4, <2>5
  <1> HIDE DEF h
  <1>5. /\ s \in Seq(STRING) /\ Len(h) \in Nat /\ Len(v) \in Nat
        /\ Len(s) = Len(h) + Len(v)
        /\ \A k \in 1..Len(h) : s[k] = h[k]
        /\ \A k \in 1..Len(v) : s[Len(h) + k] = v[k]
    <2>1. h \in Seq(STRING) /\ v \in Seq(STRING)
      BY <1>3
    <2> QED BY <2>1, Joined
  <1>6. Words(s, o) = w \o x
    <2>1. Len(h) # 0 /\ h[Len(h)] \in o
      BY <1>2, <1>3
    <2>2. Seam(h, v, o)
      BY <2>1 DEF Seam
    <2>3. Words(h \o v, o) = Words(h, o) \o Words(v, o)
      BY <1>3, <2>2, WordsJoined
    <2>4. Words(v, o) = x
      BY DEF Spelled, o
    <2> QED BY <1>4, <2>3, <2>4
  <1> HIDE DEF s
  <1>7. ASSUME NEW k \in 1..Len(s)
        PROVE  \/ k \in 1..Len(u) /\ s[k] = u[k]
               \/ k = Len(u) + 1 /\ s[k] = Blank
               \/ k - Len(h) \in 1..Len(v) /\ s[k] = v[k - Len(h)]
    <2>1. CASE k \in 1..Len(u)
      BY <1>3, <1>5, <2>1
    <2>2. CASE k = Len(u) + 1
      BY <1>3, <1>5, <2>2
    <2>3. CASE k - Len(h) \in 1..Len(v)
      <3>1. Len(h) + (k - Len(h)) = k
        BY <1>5
      <3> QED BY <1>5, <2>3, <3>1
    <2> QED BY <1>3, <1>5, <2>1, <2>2, <2>3
  <1>8. BlanksOnly(s)
    <2>1. BlanksOnly(u) /\ BlanksOnly(v)
      BY DEF Spelled
    <2> QED BY <1>7, <2>1 DEF BlanksOnly
  <1>9. ASSUME NEW d \in Nat, ColonAt(s, o, d) PROVE FALSE
    <2>1. d + 1 \in 1..Len(s) /\ s[d + 1] = Colon /\ (d = 0 \/ s[d] \in o)
      BY <1>5, <1>9 DEF ColonAt
    <2>2. /\ \A e \in Nat : ~ColonAt(u, o, e)
          /\ \A e \in Nat : ~ColonAt(v, o, e)
      BY DEF Spelled, o
    <2>3. CASE d + 1 \in 1..Len(u)
      <3>1. s[d + 1] = u[d + 1] /\ d < Len(u)
        BY <1>3, <1>5, <2>3
      <3>2. d = 0 \/ s[d] = u[d]
        BY <1>3, <1>5, <2>3
      <3>3. ColonAt(u, o, d)
        BY <2>1, <3>1, <3>2 DEF ColonAt
      <3> QED BY <2>2, <3>3
    <2>4. CASE d + 1 = Len(u) + 1
      BY <1>2, <1>3, <1>5, <2>1, <2>4
    <2>5. CASE (d + 1) - Len(h) \in 1..Len(v)
      <3> DEFINE e == d - Len(h)
      <3>1. /\ e \in Nat /\ e < Len(v) /\ e + 1 \in 1..Len(v)
            /\ Len(h) + (e + 1) = d + 1 /\ Len(h) + e = d
        BY <1>3, <1>5, <2>5
      <3> HIDE DEF e
      <3>2. v[e + 1] = Colon
        BY <1>5, <2>1, <3>1
      <3>3. e # 0 => v[e] \in o
        <4>1. ASSUME e # 0 PROVE v[e] \in o
          <5>1. e \in 1..Len(v) /\ d # 0
            BY <1>3, <3>1, <4>1
          <5>2. s[Len(h) + e] = v[e]
            BY <1>5, <5>1
          <5> QED BY <2>1, <3>1, <5>1, <5>2
        <4> QED BY <4>1
      <3>4. ColonAt(v, o, e)
        BY <3>1, <3>2, <3>3 DEF ColonAt
      <3> QED BY <2>2, <3>1, <3>4
    <2> QED BY <1>3, <1>5, <2>1, <2>3, <2>4, <2>5
  <1> QED BY <1>6, <1>8, <1>9 DEF Spelled, o, s, h, b

LEMMA SpelledJoining ==
  ASSUME NEW u \in Seq(STRING), NEW v \in Seq(STRING),
         NEW w, Spelled(u, w), NEW x, Spelled(v, x)
  PROVE  Joining(u, v) \in Seq(STRING) /\ Spelled(Joining(u, v), w \o x)
  <1>1. w \in Seq(Seq(STRING)) /\ x \in Seq(Seq(STRING))
    BY WordIs DEF Spelled
  <1>2. w \o <<>> = w /\ <<>> \o x = x
    BY <1>1, ConcatEmptySeq
  <1>3. Words(<<>>, {Blank}) = <<>>
    BY NoText
  <1>4. CASE v = <<>>
    <2>1. x = <<>> /\ Joining(u, v) = u
      BY <1>3, <1>4 DEF Spelled, Joining
    <2> QED BY <1>2, <2>1
  <1>5. CASE v # <<>> /\ u = <<>>
    <2>1. w = <<>> /\ Joining(u, v) = v
      BY <1>3, <1>5 DEF Spelled, Joining
    <2> QED BY <1>2, <2>1
  <1>6. CASE v # <<>> /\ u # <<>>
    <2>1. Joining(u, v) = (u \o <<Blank>>) \o v
      BY <1>6 DEF Joining
    <2>2. Spelled((u \o <<Blank>>) \o v, w \o x)
      BY SpelledJoined
    <2>3. (u \o <<Blank>>) \o v \in Seq(STRING)
      <3>1. <<Blank>> \in Seq(STRING)
        BY BlankText
      <3>2. u \o <<Blank>> \in Seq(STRING)
        BY <3>1, ConcatProperties
      <3> QED BY <3>2, ConcatProperties
    <2> QED BY <2>1, <2>2, <2>3
  <1> QED BY <1>4, <1>5, <1>6

\* Behind the first n words of x come those of y.
Behinds(x, n, y) ==
  /\ Len(x) = n + Len(y) /\ Len(y) \in Nat
  /\ \A k \in 1..Len(y) : y[k] = x[n + k]

\* A line that is spelled in words gives them back, to the server and to those
\* who follow the grammar.
LEMMA ReadBack ==
  ASSUME NEW text \in Seq(STRING), Len(text) # 0, text[1] # Blank, text[1] # Colon,
         NEW x, Spelled(text, x)
  PROVE  Parse(text) = ByGrammar(text) /\ Behinds(x, 1, Parse(text).params)
  <1> DEFINE b == Behind(text)
             o == {Blank}
  <1>1. /\ Len(text) \in Nat /\ BlanksOnly(text) /\ Words(text, o) = x
        /\ \A d \in Nat : ~ColonAt(text, o, d)
    BY LenProperties DEF Spelled
  <1>2. \A y : y \in o <=> y = Blank
    OBVIOUS
  <1>3. Chomped(text) = text
    <2>1. Len(text) \in 1..Len(text) /\ CR \in Space /\ CR # Blank
      BY <1>1, Symbols
    <2>2. text[Len(text)] # CR
      BY <1>1, <2>1 DEF BlanksOnly
    <2> QED BY <2>2 DEF Chomped
  <1>4. Parse(text) = Split(text)
    BY <1>3 DEF Parse
  <1>5. ~ColonTwice(ParamText(text)) /\ ~Stray(ParamText(text))
    <2> DEFINE m == ParamStart(text)
               t == From(text, m)
               st == Starts(text, o)
    <2>1. m \in 1..(Len(text) + 1)
      <3>1. \A k \in 1..Len(st) : st[k] \in 1..Len(text)
        BY WordIs
      <3>2. CommandWord(text) = 1 /\ Len(st) \in Nat
        BY WordIs DEF CommandWord
      <3>3. m = IF 1 < Len(st) THEN st[1 + 1] ELSE Len(text) + 1
        BY <3>2 DEF ParamStart
      <3> HIDE DEF st, m
      <3>4. 1 < Len(st) => 1 + 1 \in 1..Len(st)
        BY <3>2
      <3>5. 1 < Len(st) => m \in 1..Len(text)
        BY <3>1, <3>3, <3>4
      <3> QED BY <1>1, <3>3, <3>5
    <2> HIDE DEF m
    <2> DEFINE d == m - 1
    <2>2. d \in 0..Len(text) /\ d + 1 = m
      BY <1>1, <2>1
    <2> HIDE DEF d
    <2>3. /\ t \in Seq(STRING) /\ Len(t) = Len(text) - d
          /\ \A k \in 1..(Len(text) - d) : t[k] = text[d + k]
      <3>1. CutInto(STRING, text, d, SubSeq(text, 1, d), SubSeq(text, d + 1, Len(text)))
        BY <2>2, CutParts
      <3>2. t = SubSeq(text, d + 1, Len(text))
        BY <2>2 DEF From
      <3> HIDE DEF t
      <3> QED BY <3>1, <3>2 DEF CutInto
    <2> HIDE DEF t
    <2>4. BlankColons(t) = {}
      <3>1. ASSUME NEW k \in 1..(Len(t) - 1), t[k] = Blank, t[k + 1] = Colon PROVE FALSE
        <4>1. /\ d + k \in Nat /\ d + k < Len(text)
              /\ k \in 1..(Len(text) - d) /\ k + 1 \in 1..(Len(text) - d)
              /\ d + (k + 1) = (d + k) + 1
          BY <1>1, <2>2, <2>3
        <4>2. text[d + k] = Blank /\ text[(d + k) + 1] = Colon
          BY <2>3, <3>1, <4>1
        <4>3. ColonAt(text, o, d + k)
          BY <1>2, <4>1, <4>2 DEF ColonAt
        <4> QED BY <1>1, <4>1, <4>3
      <3> QED BY <3>1 DEF BlankColons
    <2>5. \A k \in 1..Len(t) : t[k] \notin Space \ {Blank}
      <3>1. ASSUME NEW k \in 1..Len(t), t[k] \in Space PROVE t[k] = Blank
        <4>1. d + k \in 1..Len(text) /\ k \in 1..(Len(text) - d)
          BY <1>1, <2>2, <2>3
        <4>2. t[k] = text[d + k]
          BY <2>3, <4>1
        <4> QED BY <1>1, <3>1, <4>1, <4>2 DEF BlanksOnly
      <3> QED BY <3>1
    <2>6. ParamText(text) = t
      BY DEF ParamText, t, m
    <2> QED BY <2>4, <2>5, <2>6 DEF ColonTwice, Stray
  <1>6. AfterPrefix(text) = text
    BY DEF AfterPrefix
  <1>7. /\ Split(text).command = FirstWord(text) /\ Split(text).params = Params(b)
    BY <1>6, SplitParts
  <1>8. IsValid(Split(text))
    <2>1. FirstWord(text) # <<>>
      BY Headed
    <2> QED BY <1>7, <2>1 DEF IsValid
  <1>9. Split(text) = ByGrammar(text)
    BY <1>5, <1>8, ByTheGrammar
  <1>10. PICK d : Leaves(text, 1, b, d)
    <2>1. Leaves(text, 0, text, 0)
      BY LeavesAll
    <2>2. \E d : Leaves(text, 0 + 1, b, d)
      BY <2>1, LeavesNext
    <2>3. 0 + 1 = 1
      OBVIOUS
    <2> QED BY <2>2, <2>3
  <1> HIDE DEF b
  <1>11. /\ b \in Seq(STRING) /\ d \in Nat /\ d <= Len(text) /\ Len(b) = Len(text) - d
         /\ \A k \in 1..Len(b) : b[k] = text[d + k]
         /\ Len(b) # 0 => b[1] # Blank
         /\ Len(Starts(text, o)) = 1 + Len(Starts(b, o))
         /\ \A k \in 1..Len(Starts(b, o)) :
              /\ Starts(text, o)[1 + k] = Starts(b, o)[k] + d
              /\ Words(text, o)[1 + k] = Words(b, o)[k]
    BY <1>10 DEF Leaves
  <1> HIDE DEF o
  <1>12. ASSUME NEW k \in 1..Len(b) PROVE d + k \in 1..Len(text) /\ b[k] = text[d + k]
    BY <1>1, <1>11
  <1>13. BlanksOnly(b)
    BY <1>1, <1>12 DEF BlanksOnly
  <1>14. ASSUME NEW e \in Nat, ColonAt(b, o, e) PROVE FALSE
    <2>1. e < Len(b) /\ b[e + 1] = Colon /\ (e = 0 \/ b[e] \in o)
      BY <1>14 DEF ColonAt
    <2>2. /\ e + 1 \in 1..Len(b) /\ d + (e + 1) = (d + e) + 1 /\ d + e \in Nat
          /\ d + e < Len(text)
      BY <1>1, <1>11, <2>1
    <2>3. text[(d + e) + 1] = Colon
      BY <1>12, <2>1, <2>2
    <2>4. CASE e # 0
      <3>1. e \in 1..Len(b)
        BY <1>1, <1>11, <2>1, <2>4
      <3>2. text[d + e] \in o
        BY <1>12, <2>1, <2>4, <3>1
      <3>3. ColonAt(text, o, d + e)
        BY <2>2, <2>3, <3>2 DEF ColonAt
      <3> QED BY <1>1, <2>2, <3>3 DEF o
    <2>5. CASE e = 0
      <3>1. 1 \in 1..Len(Starts(b, o)) /\ Starts(b, o)[1] = 1
        <4>1. Len(b) # 0 /\ b[1] \notin o
          <5>1. Colon # Blank
            BY Symbols
          <5> QED BY <1>1, <1>2, <1>11, <2>1, <2>5, <5>1 DEF o
        <4> QED BY <1>11, <4>1, FirstStart
      <3>2. Starts(text, o)[1 + 1] = 1 + d /\ 1 + 1 \in 1..Len(Starts(text, o))
        <4>1. Len(Starts(b, o)) \in Nat
          BY <1>11, WordIs
        <4>2. Len(Starts(text, o)) = 1 + Len(Starts(b, o))
          BY <1>11
        <4> QED BY <1>11, <3>1, <4>1, <4>2
      <3>3. /\ Starts(text, o)[1 + 1] = 1 \/ text[Starts(text, o)[1 + 1] - 1] \in o
        BY <3>2, WordIs
      <3>4. d = 0 \/ text[d] \in o
        <4>1. (1 + d) - 1 = d /\ (1 + d = 1 => d = 0)
          BY <1>11
        <4> QED BY <3>2, <3>3, <4>1
      <3>5. d + e = d
        BY <1>11, <2>5
      <3>6. ColonAt(text, o, d + e)
        BY <2>2, <2>3, <3>4, <3>5 DEF ColonAt
      <3> QED BY <1>1, <2>2, <3>6 DEF o
    <2> QED BY <2>4, <2>5
  <1>15. Params(b) = Words(b, o)
    <2>1. BlankColons(b) = {}
      <3>1. ASSUME NEW k \in BlankColons(b) PROVE FALSE
        <4>1. k \in Nat /\ k < Len(b) /\ b[k] = Blank /\ b[k + 1] = Colon
          <5>1. Len(b) \in Nat
            BY <1>11, LenProperties
          <5> QED BY <5>1 DEF BlankColons
        <4>2. ColonAt(b, o, k)
          BY <1>2, <4>1 DEF ColonAt, o
        <4> QED BY <1>14, <4>1, <4>2
      <3> QED BY <3>1
    <2>2. \A e \in Nat : ~ColonAt(b, Space, e)
      <3>1. ASSUME NEW e \in Nat, ColonAt(b, Space, e) PROVE FALSE
        <4>1. e < Len(b) /\ b[e + 1] = Colon /\ (e = 0 \/ b[e] \in Space)
          BY <3>1 DEF ColonAt
        <4>2. e # 0 => e \in 1..Len(b)
          <5>1. Len(b) \in Nat
            BY <1>11, LenProperties
          <5> QED BY <4>1, <5>1
        <4>3. e # 0 => b[e] = Blank
          BY <1>13, <4>1, <4>2 DEF BlanksOnly
        <4>4. ColonAt(b, o, e)
          BY <4>1, <4>3 DEF ColonAt, o
        <4> QED BY <1>14, <4>4
      <3> QED BY <3>1
    <2>3. UpToColon(b, Space) = Words(b, Space)
      BY <1>11, <2>2, UpToNoColon
    <2>4. Words(b, Space) = Words(b, o)
      BY <1>11, <1>13, SameWords DEF o
    <2> QED BY <2>1, <2>3, <2>4 DEF Params
  <1>16. /\ Len(Words(b, o)) = Len(Starts(b, o)) /\ Len(Starts(b, o)) \in Nat
         /\ Len(Words(text, o)) = Len(Starts(text, o))
    BY <1>11, WordIs
  <1>17. Behinds(x, 1, Words(b, o))
    <2>1. Len(x) = 1 + Len(Words(b, o)) /\ Len(Words(b, o)) \in Nat
      BY <1>1, <1>11, <1>16 DEF o
    <2>2. ASSUME NEW k \in 1..Len(Words(b, o)) PROVE Words(b, o)[k] = x[1 + k]
      <3>1. Words(text, o)[1 + k] = Words(b, o)[k]
        BY <1>11, <1>16
      <3> QED BY <1>1, <3>1 DEF o
    <2> QED BY <2>1, <2>2 DEF Behinds
  <1> QED BY <1>4, <1>7, <1>9, <1>15, <1>17

-----------------------------------------------------------------------------
(* A reader of the announcement *)

ModeLetters == FlagLetter \cup {"k", "l"} \cup ListLetter

Change == [add : BOOLEAN, letter : ModeLetters, param : Seq(STRING)]

\* One change to the modes, with the number as the server reads it or as it is.
Read(m, c, limit) ==
  IF Accepts(m, c.letter, c.add, c.param)
  THEN Changed(m, c.letter, c.add, c.param, limit[Value(c.param)]) ELSE m

AsConverted == [n \in Nat |-> LimitOf(n)]
AsWritten == [n \in Nat |-> n]

\* What he has before he reads, and what a letter or a sign does to it.
Start == [modes |-> before, adding |-> TRUE, next |-> 3]

WalkStep(r, c, read, takes, limit) ==
  IF c \in {"+", "-"} THEN [r EXCEPT !.adding = (c = "+")]
  ELSE ReadLetter(r, c, read, takes, limit)

Walks(read, takes, limit, n, at) ==
  at = [k \in 0..n |->
          IF k = 0 THEN Start
          ELSE WalkStep(at[k - 1], read.params[2][k], read, takes, limit)]

LEMMA WalkExists ==
  ASSUME NEW read, NEW takes, NEW limit, NEW n \in Nat
  PROVE  \E at : Walks(read, takes, limit, n, at)
  <1> DEFINE T == {k \in Nat : \E at : Walks(read, takes, limit, k, at)}
             step(a, k) == WalkStep(a[k - 1], read.params[2][k], read, takes, limit)
  <1>1. 0 \in T
    <2> DEFINE g == [k \in 0..0 |-> Start]
    <2>1. Walks(read, takes, limit, 0, g)
      BY DEF Walks
    <2> QED BY <2>1
  <1>2. ASSUME NEW k \in Nat, k \in T PROVE k + 1 \in T
    <2>1. PICK g : Walks(read, takes, limit, k, g)
      BY <1>2
    <2> DEFINE h == [j \in 0..(k + 1) |-> IF j = 0 THEN Start ELSE step(g, j)]
    <2>2. ASSUME NEW j \in 0..k PROVE h[j] = g[j]
      <3>1. j \in 0..(k + 1)
        OBVIOUS
      <3>2. g[j] = IF j = 0 THEN Start ELSE step(g, j)
        BY <2>1 DEF Walks
      <3> QED BY <3>1, <3>2
    <2>3. ASSUME NEW j \in 0..(k + 1), j # 0 PROVE h[j - 1] = g[j - 1]
      <3>1. j - 1 \in 0..k
        BY <2>3
      <3> QED BY <2>2, <3>1
    <2> DEFINE hh == [j \in 0..(k + 1) |-> IF j = 0 THEN Start ELSE step(h, j)]
    <2>4. ASSUME NEW j \in 0..(k + 1) PROVE h[j] = hh[j]
      <3>1. CASE j = 0
        BY <3>1
      <3>2. CASE j # 0
        <4>1. h[j - 1] = g[j - 1]
          BY <2>3, <3>2
        <4> QED BY <3>2, <4>1
      <3> QED BY <3>1, <3>2
    <2>5. h = hh
      BY <2>4
    <2>6. Walks(read, takes, limit, k + 1, h)
      BY <2>5 DEF Walks
    <2> QED BY <2>6
  <1> HIDE DEF T
  <1>3. Nat \subseteq T
    BY <1>1, <1>2, Induction
  <1> QED BY <1>3 DEF T

LEMMA ReplayedIs ==
  ASSUME NEW read, NEW takes, NEW limit, Len(read.params[2]) \in Nat
  PROVE  \E at : /\ Walks(read, takes, limit, Len(read.params[2]), at)
                 /\ Replayed(read, takes, limit) = at[Len(read.params[2])].modes
  <1> DEFINE n == Len(read.params[2])
             at == CHOOSE at : Walks(read, takes, limit, n, at)
  <1>1. Walks(read, takes, limit, n, at)
    BY WalkExists
  <1>2. Replayed(read, takes, limit) = at[n].modes
    BY DEF Replayed, Walks, WalkStep, Start
  <1> HIDE DEF at
  <1> QED BY <1>1, <1>2

LEMMA SignRead ==
  ASSUME NEW m, NEW a, NEW n, NEW add \in BOOLEAN, NEW read, NEW takes, NEW limit
  PROVE  WalkStep([modes |-> m, adding |-> a, next |-> n], Sign(add), read, takes, limit)
           = [modes |-> m, adding |-> add, next |-> n]
  <1>1. CASE add
    <2>1. Sign(add) = "+" /\ add = TRUE
      BY <1>1 DEF Sign
    <2> QED BY <2>1 DEF WalkStep
  <1>2. CASE ~add
    <2>1. Sign(add) = "-" /\ add = FALSE
      BY <1>2 DEF Sign
    <2> QED BY <2>1 DEF WalkStep
  <1> QED BY <1>1, <1>2

\* Whether a letter gets the n-th parameter.
Gets(c, n, read, takes) ==
  <<c.letter, c.add>> \in takes /\ n <= Len(read.params)

\* A letter that gets the parameter it had does what it did.
LEMMA LetterRead ==
  ASSUME NEW m, NEW n, NEW c \in Change, NEW read, NEW takes, NEW limit,
         Gets(c, n, read, takes) => read.params[n] = c.param,
         ~Gets(c, n, read, takes) => c.param = <<>>
  PROVE  WalkStep([modes |-> m, adding |-> c.add, next |-> n], c.letter, read, takes, limit)
           = [modes |-> Read(m, c, limit), adding |-> c.add,
              next |-> IF Gets(c, n, read, takes) THEN n + 1 ELSE n]
  <1> DEFINE r == [modes |-> m, adding |-> c.add, next |-> n]
             taken == <<c.letter, r.adding>> \in takes /\ r.next <= Len(read.params)
             param == IF taken THEN read.params[r.next] ELSE <<>>
             done == IF Accepts(m, c.letter, c.add, param)
                     THEN Changed(m, c.letter, c.add, param, limit[Value(param)]) ELSE m
  <1>1. r.adding = c.add /\ r.next = n /\ r.modes = m
    OBVIOUS
  <1>2. (taken <=> Gets(c, n, read, takes)) /\ param = c.param
    BY <1>1 DEF Gets
  <1>3. c.letter \notin {"+", "-"}
    BY DEF Change, ModeLetters, FlagLetter, ListLetter
  <1>4. WalkStep(r, c.letter, read, takes, limit) = ReadLetter(r, c.letter, read, takes, limit)
    BY <1>3 DEF WalkStep
  <1> DEFINE place == IF taken THEN n + 1 ELSE n
  <1>5. ReadLetter(r, c.letter, read, takes, limit) =
          [r EXCEPT !.next = place, !.modes = done]
    BY <1>1 DEF ReadLetter
  <1>6. done = Read(m, c, limit) /\ place = IF Gets(c, n, read, takes) THEN n + 1 ELSE n
    BY <1>2 DEF Read
  <1> HIDE DEF done, taken, param, place
  <1>7. [r EXCEPT !.next = place, !.modes = done] =
          [modes |-> done, adding |-> c.add, next |-> place]
    <2> DEFINE q == [r EXCEPT !.next = place]
    <2>1. q = [modes |-> m, adding |-> c.add, next |-> place]
      OBVIOUS
    <2> HIDE DEF q
    <2>2. [q EXCEPT !.modes = done] = [modes |-> done, adding |-> c.add, next |-> place]
      BY <2>1
    <2>3. [r EXCEPT !.next = place, !.modes = done] = [q EXCEPT !.modes = done]
      BY DEF q
    <2> QED BY <2>2, <2>3
  <1> QED BY <1>4, <1>5, <1>6, <1>7

\* f has the modes after each of the changes.
IsRun(m, ch, limit, f) ==
  f = [k \in 0..Len(ch) |-> IF k = 0 THEN m ELSE Read(f[k - 1], ch[k], limit)]

\* One more change makes the run one longer.
LEMMA LongerRun ==
  ASSUME NEW m, NEW ch \in Seq(Change), NEW limit, NEW f, IsRun(m, ch, limit, f),
         NEW c \in Change
  PROVE  \E g : /\ IsRun(m, Append(ch, c), limit, g)
                /\ g[Len(Append(ch, c))] = Read(f[Len(ch)], c, limit)
  <1> DEFINE longer == Append(ch, c)
             n == Len(ch)
             g == [k \in 0..(n + 1) |->
                     IF k = 0 THEN m ELSE Read(f[k - 1], longer[k], limit)]
  <1>1. /\ n \in Nat /\ Len(longer) = n + 1 /\ longer[n + 1] = c
        /\ \A k \in 1..n : longer[k] = ch[k]
    BY AppendProperties, LenProperties
  <1> HIDE DEF longer, n
  <1>2. ASSUME NEW k \in 0..n PROVE g[k] = f[k]
    <2>1. k \in 0..(n + 1)
      BY <1>1
    <2>2. f[k] = IF k = 0 THEN m ELSE Read(f[k - 1], ch[k], limit)
      BY <1>1 DEF IsRun, n
    <2>3. k # 0 => longer[k] = ch[k]
      BY <1>1
    <2> QED BY <2>1, <2>2, <2>3
  <1> DEFINE h == [k \in 0..(n + 1) |->
                     IF k = 0 THEN m ELSE Read(g[k - 1], longer[k], limit)]
  <1>3. ASSUME NEW k \in 0..(n + 1) PROVE g[k] = h[k]
    <2>1. CASE k = 0
      BY <2>1
    <2>2. CASE k # 0
      <3>1. k - 1 \in 0..n
        BY <1>1, <2>2
      <3>2. g[k - 1] = f[k - 1]
        BY <1>2, <3>1
      <3> QED BY <2>2, <3>2
    <2> QED BY <2>1, <2>2
  <1>4. g = h
    BY <1>3
  <1>5. IsRun(m, longer, limit, g)
    BY <1>1, <1>4 DEF IsRun
  <1>6. g[n + 1] = Read(f[n], c, limit)
    <2>1. n + 1 \in 0..(n + 1) /\ n + 1 # 0 /\ (n + 1) - 1 = n
      BY <1>1
    <2> QED BY <1>1, <2>1
  <1> QED BY <1>1, <1>5, <1>6 DEF longer, n

\* By the server's rule a letter takes a parameter if there is one.
Hungry(c) == Consumes(c.letter, c.add)

\* A rule under which a reader can give out the parameters of ch.
Suits(ch, takes) ==
  \A k \in 1..Len(ch) :
    LET taking == <<ch[k].letter, ch[k].add>> \in takes IN
    /\ taking => Hungry(ch[k])
    /\ ch[k].param # <<>> => taking

\* The signs and letters of ch are s.
Lettered(s, ch) ==
  /\ s \in Seq(STRING) /\ Len(s) = 2 * Len(ch)
  /\ \A k \in 1..Len(ch) : s[2 * k - 1] = Sign(ch[k].add) /\ s[2 * k] = ch[k].letter

\* The parameters of ch are w: pl[k] of them have been told with the first k
\* letters, and a letter goes without one only when none is left.
Placed(ch, w, pl) ==
  /\ pl \in [0..Len(ch) -> Nat] /\ pl[0] = 0 /\ pl[Len(ch)] = Len(w)
  /\ \A k \in 1..Len(ch) :
       /\ pl[k] <= Len(w)
       /\ ch[k].param # <<>> =>
            Hungry(ch[k]) /\ pl[k] = pl[k - 1] + 1 /\ w[pl[k]] = ch[k].param
       /\ ch[k].param = <<>> => pl[k] = pl[k - 1] /\ (Hungry(ch[k]) => pl[k] = Len(w))

\* A reader whose rule suits the changes gives each letter its parameter, and
\* follows the run.
LEMMA WalkFollows ==
  ASSUME NEW ch \in Seq(Change), NEW takes, Suits(ch, takes), NEW limit,
         NEW read, Lettered(read.params[2], ch),
         NEW w, Len(w) \in Nat, Behinds(read.params, 2, w),
         NEW pl, Placed(ch, w, pl), NEW f, IsRun(before, ch, limit, f),
         NEW at, Walks(read, takes, limit, Len(read.params[2]), at)
  PROVE  at[Len(read.params[2])].modes = f[Len(ch)]
  <1> DEFINE s == read.params[2]
             n == Len(ch)
             here(k, a) == [modes |-> f[k], adding |-> a, next |-> 3 + pl[k]]
             T == {k \in Nat : k <= n => \E a : at[2 * k] = here(k, a)}
  <1>1. /\ n \in Nat /\ Len(s) = 2 * n /\ 2 * n \in Nat
        /\ \A k \in 1..n : s[2 * k - 1] = Sign(ch[k].add) /\ s[2 * k] = ch[k].letter
        /\ \A k \in 1..n : ch[k] \in Change
    BY LenProperties, ElementOfSeq DEF Lettered
  <1>2. /\ at[0] = Start
        /\ \A k \in 1..(2 * n) : at[k] = WalkStep(at[k - 1], s[k], read, takes, limit)
    <2> DEFINE z == 2 * n
    <2>1. at = [k \in 0..z |-> IF k = 0 THEN Start
                  ELSE WalkStep(at[k - 1], s[k], read, takes, limit)]
      BY <1>1 DEF Walks
    <2>2. z \in Nat
      BY <1>1
    <2> HIDE DEF z
    <2>3. at[0] = Start
      BY <2>1, <2>2
    <2>4. ASSUME NEW k \in 1..z
          PROVE  at[k] = WalkStep(at[k - 1], s[k], read, takes, limit)
      <3>1. k \in 0..z /\ k # 0
        BY <2>2
      <3> HIDE DEF s
      <3> QED BY <2>1, <3>1
    <2> QED BY <2>3, <2>4 DEF z
  <1> HIDE DEF s
  <1>3. /\ f[0] = before
        /\ \A k \in 1..n : f[k] = Read(f[k - 1], ch[k], limit)
    <2>1. f = [k \in 0..n |-> IF k = 0 THEN before ELSE Read(f[k - 1], ch[k], limit)]
      BY DEF IsRun
    <2> QED BY <1>1, <2>1
  <1>4. /\ \A k \in 0..n : pl[k] \in Nat
        /\ pl[0] = 0
        /\ \A k \in 1..n :
             /\ pl[k] <= Len(w)
             /\ ch[k].param # <<>> => pl[k] = pl[k - 1] + 1 /\ w[pl[k]] = ch[k].param
             /\ ch[k].param = <<>> => pl[k] = pl[k - 1] /\ (Hungry(ch[k]) => pl[k] = Len(w))
    BY DEF Placed
  <1>5. /\ Len(read.params) = 2 + Len(w)
        /\ \A k \in 1..Len(w) : w[k] = read.params[2 + k]
    BY DEF Behinds
  <1>6. 0 \in T
    <2>1. at[2 * 0] = here(0, TRUE)
      BY <1>1, <1>2, <1>3, <1>4 DEF Start
    <2> QED BY <2>1
  <1>7. ASSUME NEW k \in Nat, k \in T PROVE k + 1 \in T
    <2> DEFINE j == k + 1
    <2>1. ASSUME j <= n PROVE \E a : at[2 * j] = here(j, a)
      <3> DEFINE c == ch[j]
                 p == 3 + pl[k]
      <3>1. /\ k \in 0..n /\ j \in 1..n /\ j - 1 = k /\ j \in Nat
            /\ 2 * j - 1 \in 1..(2 * n) /\ 2 * j \in 1..(2 * n)
            /\ (2 * j - 1) - 1 = 2 * k /\ k <= n
        BY <1>1, <2>1
      <3>2. PICK a : at[2 * k] = here(k, a)
        BY <1>7, <3>1
      <3>3. c \in Change /\ c.add \in BOOLEAN
        BY <1>1, <3>1 DEF Change
      <3>4. /\ s[2 * j - 1] = Sign(c.add) /\ s[2 * j] = c.letter
        BY <1>1, <3>1
      <3>5. /\ pl[k] \in Nat /\ pl[j] <= Len(w)
            /\ c.param # <<>> => pl[j] = pl[k] + 1 /\ w[pl[j]] = c.param
            /\ c.param = <<>> => pl[j] = pl[k] /\ (Hungry(c) => pl[j] = Len(w))
        BY <1>4, <3>1
      <3>6. /\ <<c.letter, c.add>> \in takes => Hungry(c)
            /\ c.param # <<>> => <<c.letter, c.add>> \in takes
        BY <3>1 DEF Suits
      <3>7. f[j] = Read(f[k], c, limit)
        BY <1>3, <3>1
      <3> HIDE DEF j, c
      <3>8. /\ at[2 * j - 1] = WalkStep(here(k, a), Sign(c.add), read, takes, limit)
            /\ at[2 * j] = WalkStep(at[2 * j - 1], c.letter, read, takes, limit)
        <4>1. at[2 * j - 1] = WalkStep(at[2 * k], s[2 * j - 1], read, takes, limit)
          BY <1>2, <3>1
        <4>2. at[2 * j] = WalkStep(at[2 * j - 1], s[2 * j], read, takes, limit)
          BY <1>2, <3>1
        <4> QED BY <3>2, <3>4, <4>1, <4>2
      <3>9. at[2 * j - 1] = [modes |-> f[k], adding |-> c.add, next |-> p]
        <4>1. WalkStep([modes |-> f[k], adding |-> a, next |-> p], Sign(c.add), read, takes, limit)
                = [modes |-> f[k], adding |-> c.add, next |-> p]
          BY <3>3, SignRead
        <4> QED BY <3>8, <4>1
      <3>10. CASE c.param # <<>>
        <4>1. /\ pl[j] \in 1..Len(w) /\ p = 2 + pl[j] /\ p <= Len(read.params)
              /\ 3 + pl[j] = p + 1
          BY <1>5, <3>5, <3>10, SMTT(20)
        <4>2. Gets(c, p, read, takes) /\ read.params[p] = c.param
          BY <1>5, <3>5, <3>6, <3>10, <4>1 DEF Gets
        <4> HIDE DEF p
        <4>3. WalkStep([modes |-> f[k], adding |-> c.add, next |-> p], c.letter, read, takes, limit)
                = [modes |-> Read(f[k], c, limit), adding |-> c.add,
                   next |-> IF Gets(c, p, read, takes) THEN p + 1 ELSE p]
          BY <3>3, <4>2, LetterRead
        <4>4. at[2 * j] = here(j, c.add)
          BY <3>7, <3>8, <3>9, <4>1, <4>2, <4>3
        <4> QED BY <4>4 DEF j
      <3>11. CASE c.param = <<>>
        <4>1. ~Gets(c, p, read, takes)
          <5>1. ASSUME <<c.letter, c.add>> \in takes PROVE ~(p <= Len(read.params))
            <6>1. pl[k] = Len(w)
              BY <3>5, <3>6, <3>11, <5>1
            <6> QED BY <1>5, <6>1
          <5> QED BY <5>1 DEF Gets
        <4>2. p = 3 + pl[j]
          BY <3>5, <3>11
        <4> HIDE DEF p
        <4>3. WalkStep([modes |-> f[k], adding |-> c.add, next |-> p], c.letter, read, takes, limit)
                = [modes |-> Read(f[k], c, limit), adding |-> c.add,
                   next |-> IF Gets(c, p, read, takes) THEN p + 1 ELSE p]
          BY <3>3, <3>11, <4>1, LetterRead
        <4>4. at[2 * j] = here(j, c.add)
          BY <3>7, <3>8, <3>9, <4>1, <4>2, <4>3
        <4> QED BY <4>4 DEF j
      <3> QED BY <3>10, <3>11
    <2>2. j \in Nat
      OBVIOUS
    <2> HIDE DEF here
    <2> QED BY <2>1, <2>2
  <1> HIDE DEF T
  <1>8. n \in T
    <2>1. Nat \subseteq T
      BY <1>6, <1>7, Induction
    <2> QED BY <1>1, <2>1
  <1>9. \E a : at[2 * n] = here(n, a)
    <2>1. n <= n
      BY <1>1
    <2> HIDE DEF here, n
    <2> QED BY <1>8, <2>1 DEF T
  <1>10. PICK a : at[2 * n] = here(n, a)
    BY <1>9
  <1>11. at[Len(s)].modes = f[n]
    BY <1>1, <1>10
  <1> QED BY <1>11 DEF s

\* The parameters with that of one more change.
Grown(w, c) == IF c.param = <<>> THEN w ELSE Append(w, c.param)

LEMMA LongerPlaced ==
  ASSUME NEW ch \in Seq(Change), NEW w \in Seq(Seq(STRING)), NEW pl, Placed(ch, w, pl),
         NEW c \in Change, c.param # <<>> => Hungry(c),
         \A k \in 1..Len(ch) : Hungry(ch[k]) /\ ch[k].param = <<>> => c.param = <<>>
  PROVE  \E g : Placed(Append(ch, c), Grown(w, c), g)
  <1> DEFINE n == Len(ch)
             longer == Append(ch, c)
             v == Grown(w, c)
             g == [k \in 0..(n + 1) |-> IF k = n + 1 THEN Len(v) ELSE pl[k]]
  <1>1. /\ n \in Nat /\ Len(longer) = n + 1 /\ longer[n + 1] = c
        /\ \A k \in 1..n : longer[k] = ch[k]
    BY AppendProperties, LenProperties
  <1>2. /\ Len(w) \in Nat /\ c.param \in Seq(STRING)
    BY LenProperties DEF Change
  <1>3. /\ c.param = <<>> => v = w
        /\ c.param # <<>> => Len(v) = Len(w) + 1 /\ v[Len(w) + 1] = c.param
        /\ \A k \in 1..Len(w) : v[k] = w[k]
    <2>1. CASE c.param = <<>>
      BY <2>1 DEF Grown
    <2>2. CASE c.param # <<>>
      <3>1. v = Append(w, c.param)
        BY <2>2 DEF Grown
      <3> HIDE DEF v
      <3> QED BY <1>2, <2>2, <3>1, AppendProperties
    <2> QED BY <2>1, <2>2
  <1> HIDE DEF v, longer, n
  <1>4. Len(v) \in Nat /\ Len(w) <= Len(v)
    BY <1>2, <1>3
  <1>5. /\ pl \in [0..n -> Nat] /\ pl[0] = 0 /\ pl[n] = Len(w)
        /\ \A k \in 1..n :
             /\ pl[k] <= Len(w)
             /\ ch[k].param # <<>> =>
                  Hungry(ch[k]) /\ pl[k] = pl[k - 1] + 1 /\ w[pl[k]] = ch[k].param
             /\ ch[k].param = <<>> => pl[k] = pl[k - 1] /\ (Hungry(ch[k]) => pl[k] = Len(w))
    BY DEF Placed, n
  <1>6. /\ g \in [0..(n + 1) -> Nat] /\ g[n + 1] = Len(v)
        /\ \A k \in 0..n : g[k] = pl[k]
    <2>1. \A k \in 0..(n + 1) : (k = n + 1 \/ k \in 0..n)
      BY <1>1
    <2>2. \A k \in 0..n : pl[k] \in Nat
      BY <1>5
    <2>3. \A k \in 0..n : k # n + 1 /\ k \in 0..(n + 1)
      BY <1>1
    <2>4. n + 1 \in 0..(n + 1)
      BY <1>1
    <2> QED BY <1>4, <2>1, <2>2, <2>3, <2>4
  <1> HIDE DEF g
  <1>7. g[0] = 0
    BY <1>1, <1>5, <1>6
  <1>8. ASSUME NEW k \in 1..(n + 1)
        PROVE  /\ g[k] <= Len(v)
               /\ longer[k].param # <<>> =>
                    Hungry(longer[k]) /\ g[k] = g[k - 1] + 1 /\ v[g[k]] = longer[k].param
               /\ longer[k].param = <<>> =>
                    g[k] = g[k - 1] /\ (Hungry(longer[k]) => g[k] = Len(v))
    <2>1. CASE k \in 1..n
      <3>1. /\ longer[k] = ch[k] /\ g[k] = pl[k] /\ g[k - 1] = pl[k - 1]
            /\ pl[k - 1] \in Nat /\ pl[k] \in Nat
        BY <1>1, <1>5, <1>6, <2>1
      <3>2. /\ pl[k] <= Len(w)
            /\ ch[k].param # <<>> =>
                 Hungry(ch[k]) /\ pl[k] = pl[k - 1] + 1 /\ w[pl[k]] = ch[k].param
            /\ ch[k].param = <<>> => pl[k] = pl[k - 1] /\ (Hungry(ch[k]) => pl[k] = Len(w))
        BY <1>5, <2>1
      <3>3. ch[k].param # <<>> => v[pl[k]] = w[pl[k]]
        <4>1. ch[k].param # <<>> => pl[k] \in 1..Len(w)
          BY <1>2, <3>1, <3>2
        <4> QED BY <1>3, <4>1
      <3>4. Hungry(ch[k]) /\ ch[k].param = <<>> => v = w
        BY <1>3, <2>1 DEF n
      <3>5. pl[k] <= Len(v)
        BY <1>2, <1>4, <3>1, <3>2
      <3> QED BY <3>1, <3>2, <3>3, <3>4, <3>5
    <2>2. CASE k = n + 1
      <3>1. longer[k] = c /\ g[k] = Len(v) /\ g[k - 1] = Len(w)
        BY <1>1, <1>5, <1>6, <2>2
      <3> QED BY <1>3, <1>4, <3>1
    <2> QED BY <1>1, <2>1, <2>2
  <1>9. Placed(longer, v, g)
    BY <1>1, <1>6, <1>7, <1>8 DEF Placed
  <1> QED BY <1>9 DEF longer, v

\* A parameter without white space or a leading colon.
Tidy(p) == p # <<>> => p[1] # Colon /\ \A j \in 1..Len(p) : p[j] \notin Space

LEMMA SpelledGrown ==
  ASSUME NEW told \in Seq(STRING), NEW w \in Seq(Seq(STRING)), Spelled(told, w),
         NEW c \in Change, Tidy(c.param)
  PROVE  Spelled(Joining(told, c.param), Grown(w, c))
  <1> DEFINE p == c.param
  <1>1. p \in Seq(STRING) /\ Len(p) \in Nat
    BY LenProperties DEF Change
  <1>2. CASE p = <<>>
    BY <1>2 DEF Joining, Grown
  <1>3. CASE p # <<>>
    <2>1. Grown(w, c) = Append(w, p) /\ p[1] # Colon /\ \A j \in 1..Len(p) : p[j] \notin Space
      BY <1>3 DEF Grown, Tidy
    <2> HIDE DEF p
    <2>2. Len(p) # 0
      BY <1>1, <1>3, EmptySeq
    <2>3. Spelled(p, <<p>>)
      BY <1>1, <2>1, <2>2, SpelledAlone
    <2>4. Spelled(Joining(told, p), w \o <<p>>)
      BY <1>1, <2>3, SpelledJoining
    <2>5. w \o <<p>> = Append(w, p)
      BY <1>1, AppendIsConcat
    <2> QED BY <2>1, <2>4, <2>5 DEF p
  <1> QED BY <1>2, <1>3

LEMMA LongerLettered ==
  ASSUME NEW ch \in Seq(Change), NEW s, Lettered(s, ch), NEW c \in Change
  PROVE  Lettered(s \o <<Sign(c.add), c.letter>>, Append(ch, c))
  <1> DEFINE n == Len(ch)
             longer == Append(ch, c)
             x == <<Sign(c.add), c.letter>>
             t == s \o x
  <1>1. /\ n \in Nat /\ Len(longer) = n + 1 /\ longer[n + 1] = c
        /\ \A k \in 1..n : longer[k] = ch[k]
    BY AppendProperties, LenProperties
  <1>2. Sign(c.add) \in STRING /\ c.letter \in STRING
    BY CommandsAssumption DEF Sign, Change, ModeLetters, FlagLetter, ListLetter
  <1>3. /\ x \in Seq(STRING) /\ Len(x) = 2 /\ x[1] = Sign(c.add) /\ x[2] = c.letter
    BY <1>2
  <1>4. /\ s \in Seq(STRING) /\ Len(s) = 2 * n
        /\ \A k \in 1..n : s[2 * k - 1] = Sign(ch[k].add) /\ s[2 * k] = ch[k].letter
    BY DEF Lettered
  <1> HIDE DEF longer, n, x
  <1>5. /\ t \in Seq(STRING) /\ Len(t) = 2 * n + 2
        /\ \A k \in 1..Len(s) : t[k] = s[k]
        /\ \A k \in 1..Len(x) : t[Len(s) + k] = x[k]
    <2>1. /\ s \o x \in Seq(STRING) /\ Len(s \o x) = Len(s) + Len(x)
          /\ \A k \in 1..Len(s) : (s \o x)[k] = s[k]
          /\ \A k \in 1..Len(x) : (s \o x)[Len(s) + k] = x[k]
      <3>1. s \in Seq(STRING) /\ x \in Seq(STRING)
        BY <1>3, <1>4
      <3> QED BY <3>1, Joined
    <2> QED BY <1>3, <1>4, <2>1
  <1> HIDE DEF t
  <1>6. ASSUME NEW k \in 1..(n + 1)
        PROVE  t[2 * k - 1] = Sign(longer[k].add) /\ t[2 * k] = longer[k].letter
    <2>1. CASE k \in 1..n
      <3>1. 2 * k - 1 \in 1..Len(s) /\ 2 * k \in 1..Len(s)
        BY <1>1, <1>4, <2>1
      <3>2. s[2 * k - 1] = Sign(ch[k].add) /\ s[2 * k] = ch[k].letter
        BY <1>4, <2>1
      <3>3. longer[k] = ch[k]
        BY <1>1, <2>1
      <3>4. t[2 * k - 1] = s[2 * k - 1] /\ t[2 * k] = s[2 * k]
        BY <1>5, <3>1
      <3> QED BY <3>2, <3>3, <3>4
    <2>2. CASE k = n + 1
      <3>1. /\ 2 * k - 1 = Len(s) + 1 /\ 2 * k = Len(s) + 2
            /\ 1 \in 1..Len(x) /\ 2 \in 1..Len(x)
        BY <1>1, <1>3, <1>4, <2>2
      <3>2. t[Len(s) + 1] = x[1] /\ t[Len(s) + 2] = x[2]
        BY <1>5, <3>1
      <3> QED BY <1>1, <1>3, <2>2, <3>1, <3>2
    <2> QED BY <1>1, <2>1, <2>2
  <1>7. 2 * (n + 1) = 2 * n + 2
    BY <1>1
  <1>8. Lettered(t, longer)
    BY <1>1, <1>5, <1>6, <1>7 DEF Lettered
  <1> QED BY <1>8 DEF t, x, longer

\* The signs and letters are one word.
LEMMA LettersSpelled ==
  ASSUME NEW ch \in Seq(Change), NEW s, Lettered(s, ch), Len(ch) # 0
  PROVE  Spelled(s, <<s>>) /\ s # <<>>
  <1> DEFINE n == Len(ch)
  <1>1. /\ n \in Nat /\ n # 0 /\ s \in Seq(STRING) /\ Len(s) = 2 * n
        /\ \A k \in 1..n : s[2 * k - 1] = Sign(ch[k].add) /\ s[2 * k] = ch[k].letter
        /\ \A k \in 1..n : ch[k] \in Change
    BY LenProperties, ElementOfSeq DEF Lettered
  <1>2. /\ \A add \in BOOLEAN : Sign(add) \notin Space /\ Sign(add) # Colon
        /\ \A c \in ModeLetters : c \notin Space /\ c # Colon
    BY DEF Sign, Space, Blank, Tab, CR, Colon, ModeLetters, FlagLetter, ListLetter
  <1> HIDE DEF n
  <1>3. ASSUME NEW k \in 1..Len(s) PROVE s[k] \notin Space /\ s[k] # Colon
    <2>1. PICK j \in 1..n : k = 2 * j - 1 \/ k = 2 * j
      <3> DEFINE h == k \div 2
      <3>1. k = 2 * h \/ k = 2 * h + 1
        BY <1>1
      <3>2. h \in Int
        BY <1>1
      <3> HIDE DEF h
      <3>3. CASE k = 2 * h
        <4>1. h \in 1..n
          BY <1>1, <3>2, <3>3
        <4> QED BY <3>3, <4>1
      <3>4. CASE k = 2 * h + 1
        <4>1. h + 1 \in 1..n /\ k = 2 * (h + 1) - 1
          BY <1>1, <3>2, <3>4
        <4> QED BY <4>1
      <3> QED BY <3>1, <3>3, <3>4
    <2>2. ch[j].add \in BOOLEAN /\ ch[j].letter \in ModeLetters
      BY <1>1, <2>1 DEF Change
    <2>3. s[k] = Sign(ch[j].add) \/ s[k] = ch[j].letter
      BY <1>1, <2>1
    <2> QED BY <1>2, <2>2, <2>3
  <1>4. Len(s) # 0 /\ 1 \in 1..Len(s)
    BY <1>1
  <1>5. s[1] # Colon /\ \A k \in 1..Len(s) : s[k] \notin Space
    BY <1>3, <1>4
  <1>6. Spelled(s, <<s>>)
    BY <1>1, <1>4, <1>5, SpelledAlone
  <1>7. s # <<>>
    BY <1>4
  <1> QED BY <1>6, <1>7

LEMMA InFront ==
  ASSUME NEW S, NEW v \in S, NEW w \in Seq(S)
  PROVE  /\ <<v>> \o w \in Seq(S) /\ Len(w) \in Nat /\ Len(<<v>> \o w) = 1 + Len(w)
         /\ (<<v>> \o w)[1] = v
         /\ \A k \in 1..Len(w) : (<<v>> \o w)[1 + k] = w[k]
  <1> DEFINE o == <<v>>
  <1>1. o \in Seq(S) /\ Len(o) = 1 /\ o[1] = v
    BY OneSymbol
  <1> HIDE DEF o
  <1>2. /\ o \o w \in Seq(S) /\ Len(w) \in Nat /\ Len(o \o w) = Len(o) + Len(w)
        /\ \A k \in 1..Len(o) : (o \o w)[k] = o[k]
        /\ \A k \in 1..Len(w) : (o \o w)[Len(o) + k] = w[k]
    BY <1>1, Joined
  <1>3. 1 \in 1..Len(o)
    BY <1>1
  <1>4. /\ o \o w \in Seq(S) /\ Len(w) \in Nat /\ Len(o \o w) = 1 + Len(w)
        /\ (o \o w)[1] = v
        /\ \A k \in 1..Len(w) : (o \o w)[1 + k] = w[k]
    BY <1>1, <1>2, <1>3
  <1> QED BY <1>4 DEF o

\* What is put behind a text does not change how it starts.
LEMMA JoiningStarts ==
  ASSUME NEW u \in Seq(STRING), NEW v \in Seq(STRING), Len(u) # 0
  PROVE  Len(Joining(u, v)) # 0 /\ Joining(u, v)[1] = u[1]
  <1>1. Len(u) \in Nat /\ 1 \in 1..Len(u) /\ u # <<>>
    BY LenProperties
  <1>2. CASE v = <<>>
    BY <1>2 DEF Joining
  <1>3. CASE v # <<>>
    <2> DEFINE b == <<Blank>>
               h == u \o b
    <2>1. b \in Seq(STRING) /\ Len(b) = 1
      BY BlankText
    <2>2. Joining(u, v) = h \o v
      BY <1>1, <1>3 DEF Joining
    <2> HIDE DEF b
    <2>3. h \in Seq(STRING) /\ Len(h) = Len(u) + 1 /\ h[1] = u[1]
      <3>1. /\ u \o b \in Seq(STRING) /\ Len(u \o b) = Len(u) + Len(b)
            /\ \A k \in 1..Len(u) : (u \o b)[k] = u[k]
        BY <2>1, Joined
      <3> QED BY <1>1, <2>1, <3>1
    <2> HIDE DEF h
    <2>4. /\ Len(h \o v) = Len(h) + Len(v) /\ Len(v) \in Nat
          /\ \A k \in 1..Len(h) : (h \o v)[k] = h[k]
      <3>1. h \in Seq(STRING) /\ v \in Seq(STRING)
        BY <2>3
      <3> QED BY <3>1, Joined
    <2>5. 1 \in 1..Len(h)
      BY <1>1, <2>3
    <2> QED BY <1>1, <2>2, <2>3, <2>4, <2>5
  <1> QED BY <1>2, <1>3

\* A text of one symbol.
LEMMA SymbolSpelled ==
  ASSUME NEW y \in STRING, y \notin Space \cup {Colon}
  PROVE  /\ <<y>> \in Seq(STRING) /\ Len(<<y>>) # 0 /\ <<y>>[1] = y
         /\ Spelled(<<y>>, <<<<y>>>>)
  <1> DEFINE a == <<y>>
  <1>1. a \in Seq(STRING) /\ Len(a) = 1 /\ a[1] = y
    BY OneSymbol
  <1> HIDE DEF a
  <1>2. Len(a) # 0 /\ a[1] # Colon /\ \A k \in 1..Len(a) : a[k] \notin Space
    <2>1. y # Colon /\ y \notin Space
      OBVIOUS
    <2>2. \A k \in 1..Len(a) : k = 1
      BY <1>1
    <2>3. \A k \in 1..Len(a) : a[k] = y
      BY <1>1, <2>2
    <2>4. Len(a) # 0 /\ a[1] # Colon
      <3>1. Len(a) = 1 /\ a[1] = y
        BY <1>1
      <3>2. a[1] # Colon
        BY <2>1, <3>1, Zenon
      <3>3. Len(a) # 0
        BY <1>1
      <3> QED BY <3>2, <3>3, Zenon
    <2>5. \A k \in 1..Len(a) : a[k] \notin Space
      BY <2>1, <2>3, Zenon
    <2> QED BY <2>4, <2>5
  <1>3. Spelled(a, <<a>>)
    BY <1>1, <1>2, SpelledAlone
  <1>4. a \in Seq(STRING) /\ Len(a) # 0 /\ a[1] = y /\ Spelled(a, <<a>>)
    BY <1>1, <1>2, <1>3
  <1> QED BY <1>4 DEF a

\* The line that is sent, read back.
LEMMA AnnouncementRead ==
  ASSUME changes \in Seq(Change), Lettered(modeChanges, changes), Len(changes) # 0,
         paramChanges \in Seq(STRING), NEW w, Spelled(paramChanges, w)
  PROVE  /\ Announcement # NoLine
         /\ Parse(Announcement) = ByGrammar(Announcement)
         /\ Parse(Announcement).params[2] = modeChanges
         /\ Behinds(Parse(Announcement).params, 2, w)
  <1> DEFINE a == <<Mode>>
             c == <<Channel>>
             head == Joining(a, c)
             told == Joining(modeChanges, paramChanges)
             text == Joining(head, told)
             told2 == <<modeChanges>> \o w
             x == <<a>> \o (<<c>> \o told2)
  <1>1. /\ Mode \in STRING /\ Channel \in STRING
        /\ Mode \notin Space \cup {Colon} /\ Channel \notin Space \cup {Colon}
    BY CommandsAssumption
  <1>2. /\ a \in Seq(STRING) /\ Len(a) # 0 /\ a[1] = Mode /\ Spelled(a, <<a>>)
        /\ c \in Seq(STRING) /\ Spelled(c, <<c>>)
    BY <1>1, SymbolSpelled
  <1> HIDE DEF a, c
  <1>3. w \in Seq(Seq(STRING))
    BY WordIs DEF Spelled
  <1>4. Spelled(modeChanges, <<modeChanges>>) /\ modeChanges \in Seq(STRING)
    BY LettersSpelled DEF Lettered
  <1>5. told \in Seq(STRING) /\ Spelled(told, told2)
    BY <1>4, SpelledJoining
  <1>6. head \in Seq(STRING) /\ Spelled(head, <<a>> \o <<c>>)
    BY <1>2, SpelledJoining
  <1>7. Len(head) # 0 /\ head[1] = Mode
    BY <1>2, JoiningStarts
  <1>8. Announcement = text
    BY DEF Announcement, a, c
  <1> HIDE DEF head, told, told2
  <1>9. text \in Seq(STRING) /\ Spelled(text, (<<a>> \o <<c>>) \o told2)
    BY <1>5, <1>6, SpelledJoining
  <1>10. Len(text) # 0 /\ text[1] = Mode
    BY <1>5, <1>6, <1>7, JoiningStarts
  <1>11. (<<a>> \o <<c>>) \o told2 = x
    <2> DEFINE aa == <<a>>
               cc == <<c>>
    <2>1. aa \in Seq(Seq(STRING)) /\ cc \in Seq(Seq(STRING)) /\ told2 \in Seq(Seq(STRING))
      <3>1. aa \in Seq(Seq(STRING)) /\ cc \in Seq(Seq(STRING))
        BY <1>2
      <3>2. told2 \in Seq(Seq(STRING))
        BY <1>3, <1>4, InFront DEF told2
      <3> QED BY <3>1, <3>2
    <2> HIDE DEF aa, cc
    <2>2. (aa \o cc) \o told2 = aa \o (cc \o told2)
      BY <2>1, Associates, SMTT(20)
    <2> QED BY <2>2 DEF aa, cc
  <1> DEFINE read == Parse(text).params
  <1>12. Parse(text) = ByGrammar(text) /\ Behinds(x, 1, read)
    <2>1. Spelled(text, x)
      BY <1>9, <1>11
    <2> HIDE DEF text, x
    <2>2. text[1] # Blank /\ text[1] # Colon
      BY <1>1, <1>10, Symbols
    <2> QED BY <1>9, <1>10, <2>1, <2>2, ReadBack
  <1>13. /\ Len(x) = 3 + Len(w) /\ Len(w) \in Nat /\ x[3] = modeChanges
         /\ \A k \in 1..Len(w) : x[3 + k] = w[k]
    <2> DEFINE u == told2
    <2>1. /\ u \in Seq(Seq(STRING)) /\ Len(w) \in Nat /\ Len(u) = 1 + Len(w)
          /\ u[1] = modeChanges /\ \A k \in 1..Len(w) : u[1 + k] = w[k]
      BY <1>3, <1>4, InFront DEF told2
    <2> HIDE DEF u
    <2> DEFINE v == <<c>> \o u
    <2>2. /\ v \in Seq(Seq(STRING)) /\ Len(v) = 1 + Len(u)
          /\ \A k \in 1..Len(u) : v[1 + k] = u[k]
      BY <1>2, <2>1, InFront
    <2> HIDE DEF v
    <2> DEFINE q == <<a>> \o v
    <2>3. /\ Len(q) = 1 + Len(v) /\ \A k \in 1..Len(v) : q[1 + k] = v[k]
      BY <1>2, <2>2, InFront
    <2> HIDE DEF q
    <2>4. Len(q) = 3 + Len(w)
      BY <2>1, <2>2, <2>3
    <2>5. q[3] = modeChanges
      <3>1. 1 \in 1..Len(u) /\ 2 \in 1..Len(v) /\ 1 + 1 = 2 /\ 1 + 2 = 3
        BY <2>1, <2>2
      <3>2. q[1 + 2] = v[2] /\ v[1 + 1] = u[1]
        BY <2>2, <2>3, <3>1
      <3> QED BY <2>1, <3>1, <3>2
    <2>6. ASSUME NEW k \in 1..Len(w) PROVE q[3 + k] = w[k]
      <3>1. /\ 1 + k \in 1..Len(u) /\ 1 + (1 + k) \in 1..Len(v)
            /\ 1 + (1 + (1 + k)) = 3 + k
        BY <2>1, <2>2
      <3>2. q[1 + (1 + (1 + k))] = v[1 + (1 + k)] /\ v[1 + (1 + k)] = u[1 + k]
        BY <2>2, <2>3, <3>1
      <3>3. u[1 + k] = w[k]
        BY <2>1
      <3> QED BY <3>1, <3>2, <3>3
    <2>7. q = x
      BY DEF q, v, u
    <2> QED BY <2>1, <2>4, <2>5, <2>6, <2>7
  <1> HIDE DEF x, read
  <1>14. Len(x) = 1 + Len(read) /\ Len(read) \in Nat /\ \A k \in 1..Len(read) : read[k] = x[1 + k]
    BY <1>12 DEF Behinds
  <1>15. read[2] = modeChanges
    <2>1. 2 \in 1..Len(read) /\ 1 + 2 = 3
      BY <1>13, <1>14
    <2>2. read[2] = x[1 + 2]
      BY <1>14, <2>1
    <2> QED BY <1>13, <2>1, <2>2
  <1>16. Behinds(read, 2, w)
    <2>1. Len(read) = 2 + Len(w)
      BY <1>13, <1>14
    <2>2. ASSUME NEW k \in 1..Len(w) PROVE w[k] = read[2 + k]
      <3>1. 2 + k \in 1..Len(read) /\ 1 + (2 + k) = 3 + k
        BY <1>13, <2>1
      <3>2. read[2 + k] = x[1 + (2 + k)]
        BY <1>14, <3>1
      <3> QED BY <1>13, <3>1, <3>2
    <2> QED BY <1>13, <2>1, <2>2 DEF Behinds
  <1>17. Announcement # NoLine
    <2>1. Len(text) # 0
      BY <1>10
    <2> HIDE DEF text
    <2>2. text # <<>>
      BY <2>1
    <2> QED BY <1>8, <2>2 DEF NoLine
  <1> HIDE DEF text
  <1> QED BY <1>8, <1>12, <1>15, <1>16, <1>17 DEF read

\* What is removed from the end of a line is no text.
LEMMA ChompedIs ==
  ASSUME NEW s \in Seq(STRING)
  PROVE  Chomped(s) \in Seq(STRING) /\ Letters(Chomped(s)) = Letters(s)
  <1>1. CASE ~(s # <<>> /\ s[Len(s)] = CR)
    BY <1>1 DEF Chomped
  <1>2. CASE s # <<>> /\ s[Len(s)] = CR
    <2> DEFINE n == Len(s) - 1
               u == SubSeq(s, 1, n)
               v == SubSeq(s, n + 1, Len(s))
    <2>1. Chomped(s) = u
      BY <1>2 DEF Chomped
    <2>2. Len(s) \in Nat /\ Len(s) # 0
      BY <1>2, LenProperties, EmptySeq
    <2>3. n \in 0..Len(s) /\ n \in Nat /\ n + 1 = Len(s)
      BY <2>2
    <2> HIDE DEF n
    <2>4. /\ u \in Seq(STRING) /\ v \in Seq(STRING) /\ u \o v = s
          /\ Len(v) = 1 /\ v[1] = CR
      <3>1. /\ u \in Seq(STRING) /\ v \in Seq(STRING) /\ s = u \o v
            /\ Len(v) = Len(s) - n
            /\ \A k \in 1..(Len(s) - n) : v[k] = s[n + k]
        BY <2>3, Cut
      <3>2. Len(s) - n = 1 /\ 1 \in 1..(Len(s) - n)
        BY <2>3
      <3> HIDE DEF u, v
      <3>3. v[1] = s[n + 1]
        BY <3>1, <3>2
      <3> QED BY <1>2, <2>3, <3>1, <3>2, <3>3
    <2> HIDE DEF u, v
    <2>5. Letters(u \o v) = Letters(u) \o Letters(v)
      BY <2>4, LettersConcat
    <2>6. Letters(v) = <<>>
      <3>1. CR \in Dropped
        BY Symbols
      <3>2. \A k \in 1..Len(v) : v[k] \in Dropped
        BY <2>4, <3>1
      <3> QED BY <2>4, <3>2, NoLetters
    <2>7. Letters(u) \in Seq(STRING)
      BY <2>4, KeptIs
    <2>8. Letters(u) \o <<>> = Letters(u)
      BY <2>7, ConcatEmptySeq
    <2> QED BY <2>1, <2>4, <2>5, <2>6, <2>8
  <1> QED BY <1>1, <1>2

LEMMA ParseIs ==
  ASSUME NEW s \in Seq(STRING)
  PROVE  Filled(Parse(s).params)
  BY ChompedIs, SplitIs DEF Parse

-----------------------------------------------------------------------------
(* The inductive invariant *)

IsModes(m) ==
  /\ m = [flags |-> m.flags, key |-> m.key, limit |-> m.limit, lists |-> m.lists]
  /\ m.limit \in 0..1000

Typed ==
  /\ phase \in {"main", "ready", "mode", "done", "exited"}
  /\ port \in Nat
  /\ line \in Seq(STRING)
  /\ Filled(msg.params)
  /\ next \in 3..(3 + Len(msg.params))
  /\ adding \in BOOLEAN
  /\ IsModes(modes)

\* Before and after the loop.
Around ==
  /\ phase \in {"main", "ready"} =>
       /\ next = 3 /\ sent = NoLine
       /\ modeChanges = <<>> /\ paramChanges = <<>> /\ changes = <<>>
  /\ phase = "done" =>
       sent = IF modeChanges = <<>> THEN NoLine ELSE Announcement

\* A letter goes without its parameter only when the line has no more.
NoneLeft ==
  \A k \in 1..Len(changes) :
    Hungry(changes[k]) /\ changes[k].param = <<>> => next > Len(msg.params)

\* The modes are what the changes made of those before.
Followed ==
  \E f : IsRun(before, changes, AsConverted, f) /\ modes = f[Len(changes)]

\* What will be sent has the changes, and their parameters in words.
Told ==
  \E w, pl :
    /\ w \in Seq(Seq(STRING)) /\ Placed(changes, w, pl)
    /\ Legible => Spelled(paramChanges, w)

Telling ==
  /\ changes \in Seq(Change)
  /\ Lettered(modeChanges, changes)
  /\ paramChanges \in Seq(STRING)
  /\ Told

CmdInv == Typed /\ Around /\ NoneLeft /\ Followed /\ Telling

LEMMA NothingChanged ==
  ASSUME NEW m
  PROVE  /\ <<>> \in Seq(Change) /\ Len(<<>>) = 0 /\ Lettered(<<>>, <<>>)
         /\ \E f : IsRun(m, <<>>, AsConverted, f) /\ m = f[Len(<<>>)]
         /\ \E w, pl : w \in Seq(Seq(STRING)) /\ Placed(<<>>, w, pl) /\ Spelled(<<>>, w)
  <1>1. Len(<<>>) = 0 /\ <<>> \in Seq(Change) /\ <<>> \in Seq(STRING)
    OBVIOUS
  <1>2. Lettered(<<>>, <<>>)
    BY <1>1 DEF Lettered
  <1> DEFINE f == [k \in 0..0 |-> m]
  <1>3. IsRun(m, <<>>, AsConverted, f) /\ f[Len(<<>>)] = m
    BY <1>1 DEF IsRun
  <1> DEFINE pl == [k \in 0..0 |-> 0]
  <1>4. Placed(<<>>, <<>>, pl)
    BY <1>1 DEF Placed
  <1>5. <<>> \in Seq(Seq(STRING))
    OBVIOUS
  <1>6. \E w, g : w \in Seq(Seq(STRING)) /\ Placed(<<>>, w, g) /\ Spelled(<<>>, w)
    BY <1>4, <1>5, NothingSpelled
  <1> QED BY <1>1, <1>2, <1>3, <1>6

LEMMA CmdInit == Init => CmdInv
  <1> SUFFICES ASSUME Init PROVE CmdInv
    OBVIOUS
  <1>1. /\ phase = "main" /\ port \in PortArg /\ line = <<>> /\ msg = Parse(<<>>)
        /\ modes \in Modes0 /\ before = modes /\ adding = TRUE /\ next = 3
        /\ modeChanges = <<>> /\ paramChanges = <<>> /\ changes = <<>> /\ sent = NoLine
    BY DEF Init, NoLine
  <1>2. <<>> \in Seq(STRING)
    OBVIOUS
  <1>3. Filled(msg.params)
    BY <1>1, <1>2, ParseIs
  <1>4. Len(msg.params) \in Nat
    BY <1>3, LenProperties DEF Filled
  <1>5. IsModes(modes)
    <2>1. /\ modes = [flags |-> modes.flags, key |-> modes.key,
                      limit |-> modes.limit, lists |-> modes.lists]
          /\ modes.limit \in 0..1000
      BY <1>1, CommandsAssumption
    <2> QED BY <2>1 DEF IsModes
  <1>6. port \in Nat
    BY <1>1, CommandsAssumption
  <1>7. Typed
    BY <1>1, <1>2, <1>3, <1>4, <1>5, <1>6 DEF Typed
  <1>8. Around
    BY <1>1 DEF Around
  <1>9. NoneLeft
    <2>1. Len(changes) = 0
      BY <1>1, NothingChanged
    <2> QED BY <2>1 DEF NoneLeft
  <1>10. Followed
    <2>1. \E f : IsRun(modes, <<>>, AsConverted, f) /\ modes = f[Len(<<>>)]
      BY NothingChanged
    <2> QED BY <1>1, <2>1 DEF Followed
  <1>11. Telling
    <2>1. \E w, pl : w \in Seq(Seq(STRING)) /\ Placed(<<>>, w, pl) /\ Spelled(<<>>, w)
      BY NothingChanged
    <2>2. Told
      BY <1>1, <2>1 DEF Told
    <2>3. <<>> \in Seq(Change) /\ Lettered(<<>>, <<>>)
      BY NothingChanged
    <2> QED BY <1>1, <1>2, <2>2, <2>3 DEF Telling
  <1> QED BY <1>7, <1>8, <1>9, <1>10, <1>11 DEF CmdInv

\* Steps that leave the loop's work alone.
LEMMA Untouched ==
  ASSUME CmdInv, UNCHANGED <<modes, before, toldVars>>
  PROVE  Followed' /\ Telling'
  <1>1. UNCHANGED <<modes, before, modeChanges, paramChanges, changes>>
    BY DEF toldVars
  <1>2. Followed'
    BY <1>1 DEF CmdInv, Followed, IsRun
  <1>3. Told'
    BY <1>1 DEF CmdInv, Telling, Told, Legible, Placed, Spelled
  <1>4. Telling'
    BY <1>1, <1>3 DEF CmdInv, Telling, Lettered
  <1> QED BY <1>2, <1>4

LEMMA MainStep ==
  ASSUME CmdInv, Main
  PROVE  CmdInv'
  <1>1. /\ phase = "main" /\ phase' \in {"ready", "exited"}
        /\ (port' = Atoi(port) /\ ValidPort(port)) \/ port' = port
        /\ UNCHANGED <<line, msg, modes, before, adding, next, toldVars, sent>>
    BY DEF Main, loopVars
  <1>2. port' \in Nat
    <2>1. CASE port' = Atoi(port) /\ ValidPort(port)
      <3>1. Atoi(port) \in Int
        BY AtoiIs DEF CmdInv, Typed
      <3> QED BY <2>1, <3>1 DEF ValidPort
    <2>2. CASE port' = port
      BY <2>2 DEF CmdInv, Typed
    <2> QED BY <1>1, <2>1, <2>2
  <1>3. Typed'
    BY <1>1, <1>2 DEF CmdInv, Typed, IsModes, Filled
  <1>4. Around' /\ NoneLeft'
    BY <1>1 DEF CmdInv, Around, NoneLeft, toldVars
  <1> QED BY <1>1, <1>3, <1>4, Untouched DEF CmdInv

LEMMA ProcessStep ==
  ASSUME CmdInv, NEW text \in Line, ProcessMessage(text)
  PROVE  CmdInv'
  <1>1. /\ phase = "ready" /\ line' = text /\ msg' = Parse(text)
        /\ phase' \in {"mode", "done"}
        /\ UNCHANGED <<port, modes, before, adding, next, toldVars, sent>>
    BY DEF ProcessMessage, loopVars
  <1>2. text \in Seq(STRING)
    BY CommandsAssumption
  <1>3. Filled(Parse(text).params)
    BY <1>2, ParseIs
  <1>4. Len(Parse(text).params) \in Nat
    BY <1>3, LenProperties DEF Filled
  <1>5. /\ next = 3 /\ changes = <<>> /\ modeChanges = <<>> /\ paramChanges = <<>>
        /\ sent = NoLine
    BY <1>1 DEF CmdInv, Around
  <1> DEFINE params == Parse(text).params
  <1> HIDE DEF params
  <1>6. msg'.params = params /\ Filled(params) /\ Len(params) \in Nat
    BY <1>1, <1>3, <1>4 DEF params
  <1>7. Typed'
    <2>1. Filled(msg.params)'
      BY <1>6 DEF Filled
    <2>2. next' \in 3..(3 + Len(msg.params)')
      BY <1>1, <1>5, <1>6
    <2>3. IsModes(modes)'
      BY <1>1 DEF CmdInv, Typed, IsModes
    <2>4. port' \in Nat /\ adding' \in BOOLEAN /\ line' \in Seq(STRING)
      BY <1>1, <1>2 DEF CmdInv, Typed
    <2> QED BY <1>1, <2>1, <2>2, <2>3, <2>4 DEF Typed
  <1>8. UNCHANGED <<modeChanges, paramChanges, changes>>
    BY <1>1 DEF toldVars
  <1>9. Around'
    BY <1>1, <1>5, <1>8 DEF Around
  <1>10. NoneLeft'
    <2>1. Len(<<>>) = 0
      BY NothingChanged
    <2>2. changes' = <<>>
      BY <1>5, <1>8
    <2> QED BY <2>1, <2>2 DEF NoneLeft
  <1> QED BY <1>1, <1>7, <1>9, <1>10, Untouched DEF CmdInv

LEMMA SignStep ==
  ASSUME CmdInv, ModeSign
  PROVE  CmdInv'
  <1>1. /\ phase = "mode" /\ adding' \in BOOLEAN
        /\ UNCHANGED <<phase, port, line, msg, modes, before, next, toldVars, sent>>
    BY DEF ModeSign
  <1>2. Typed'
    BY <1>1 DEF CmdInv, Typed, IsModes, Filled
  <1>3. Around' /\ NoneLeft'
    BY <1>1 DEF CmdInv, Around, NoneLeft, toldVars
  <1> QED BY <1>1, <1>2, <1>3, Untouched DEF CmdInv

LEMMA AnnounceStep ==
  ASSUME CmdInv, ModeAnnounce
  PROVE  CmdInv'
  <1>1. /\ phase' = "done" /\ sent' = IF modeChanges = <<>> THEN NoLine ELSE Announcement
        /\ UNCHANGED <<port, line, msg, modes, before, adding, next, toldVars>>
    BY DEF ModeAnnounce, loopVars
  <1>2. Typed'
    BY <1>1 DEF CmdInv, Typed, IsModes, Filled
  <1>3. Around'
    BY <1>1 DEF Around, toldVars, Announcement, Joining
  <1>4. NoneLeft'
    BY <1>1 DEF CmdInv, NoneLeft, toldVars
  <1> QED BY <1>1, <1>2, <1>3, <1>4, Untouched DEF CmdInv

LEMMA StillStep ==
  ASSUME CmdInv, UNCHANGED vars
  PROVE  CmdInv'
  <1>1. UNCHANGED <<phase, port, line, msg, modes, before, adding, next, toldVars, sent>>
    BY DEF vars, loopVars
  <1>2. Typed'
    BY <1>1 DEF CmdInv, Typed, IsModes, Filled
  <1>3. Around'
    BY <1>1 DEF CmdInv, Around, toldVars, Announcement, Joining
  <1>4. NoneLeft'
    BY <1>1 DEF CmdInv, NoneLeft, toldVars
  <1> QED BY <1>1, <1>2, <1>3, <1>4, Untouched DEF CmdInv

\* What setMode accepts, it knows; the limit it sets is in its range.
LEMMA AcceptedIs ==
  ASSUME NEW m, IsModes(m), NEW c, NEW add \in BOOLEAN, NEW param,
         Accepts(m, c, add, param)
  PROVE  /\ c \in ModeLetters
         /\ IsModes(Changed(m, c, add, param, LimitOf(Value(param))))
  <1>1. c \in ModeLetters
    BY DEF Accepts, ModeLetters, FlagLetter, ListLetter
  <1> DEFINE v == Value(param)
             limit == LimitOf(v)
             n == Changed(m, c, add, param, limit)
  <1>2. v \in Nat
    BY CommandsAssumption DEF Value
  <1>3. limit \in Nat
    BY <1>2, AtoiIs
  <1>4. c = "l" /\ add => limit # 0 /\ limit <= 1000
    BY DEF Accepts, FlagLetter, ListLetter, ValidLimit
  <1> HIDE DEF limit
  <1>5. m = [flags |-> m.flags, key |-> m.key, limit |-> m.limit, lists |-> m.lists]
        /\ m.limit \in 0..1000
    BY DEF IsModes
  <1>6. CASE c \in FlagLetter
    <2>1. n = [m EXCEPT !.flags = IF add THEN @ \cup {c} ELSE @ \ {c}]
      BY <1>6 DEF Changed, FlagLetter, ListLetter
    <2> QED BY <1>1, <1>5, <2>1 DEF IsModes, limit
  <1>7. CASE c = "k"
    <2>1. n = [m EXCEPT !.key = IF add THEN param ELSE <<>>]
      BY <1>7 DEF Changed, FlagLetter, ListLetter
    <2> QED BY <1>1, <1>5, <2>1 DEF IsModes, limit
  <1>8. CASE c = "l"
    <2>1. n = [m EXCEPT !.limit = IF add THEN limit ELSE 0]
      BY <1>8 DEF Changed, FlagLetter, ListLetter
    <2>2. (IF add THEN limit ELSE 0) \in 0..1000
      BY <1>3, <1>4, <1>8
    <2>3. IsModes(n)
      BY <1>5, <2>1, <2>2 DEF IsModes
    <2> QED BY <1>1, <2>3 DEF limit
  <1>9. CASE c \in ListLetter
    <2>1. n = [m EXCEPT !.lists[c] = IF add THEN @ \cup {param} ELSE @ \ {param}]
      BY <1>9 DEF Changed, FlagLetter, ListLetter
    <2>2. IsModes(n)
      BY <1>5, <2>1 DEF IsModes
    <2> QED BY <1>1, <2>2 DEF limit
  <1> QED BY <1>1, <1>6, <1>7, <1>8, <1>9 DEF ModeLetters

LEMMA LetterStep ==
  ASSUME CmdInv, ModeLetter
  PROVE  CmdInv'
  <1> DEFINE c == msg.params[2][i]
             takes == Consumes(c, adding) /\ next <= Len(msg.params)
             param == IF takes THEN msg.params[next] ELSE <<>>
             change == [add |-> adding, letter |-> c, param |-> param]
             ok == Accepts(modes, c, adding, param)
  <1>1. /\ phase = "mode" /\ next' = IF takes THEN next + 1 ELSE next
        /\ IF ok
           THEN /\ modes' = Changed(modes, c, adding, param, LimitOf(Value(param)))
                /\ modeChanges' = modeChanges \o <<Sign(adding), c>>
                /\ paramChanges' = Joining(paramChanges, param)
                /\ changes' = Append(changes, change)
           ELSE UNCHANGED <<modes, toldVars>>
        /\ UNCHANGED <<phase, port, line, msg, before, adding, sent>>
    BY DEF ModeLetter
  <1>2. /\ msg.params \in Seq(Seq(STRING)) /\ Len(msg.params) \in Nat
        /\ \A k \in 1..(Len(msg.params) - 1) : msg.params[k] # <<>>
        /\ next \in 3..(3 + Len(msg.params)) /\ adding \in BOOLEAN
    BY LenProperties DEF CmdInv, Typed, Filled
  <1>3. /\ takes => Consumes(c, adding) /\ next <= Len(msg.params)
        /\ Consumes(c, adding) /\ next <= Len(msg.params) => takes
        /\ takes => param = msg.params[next]
        /\ ~takes => param = <<>>
    OBVIOUS
  <1> HIDE DEF takes, c
  <1>4. param \in Seq(STRING)
    <2>1. takes => msg.params[next] \in Seq(STRING)
      <3>1. takes => next \in 1..Len(msg.params)
        BY <1>2, <1>3
      <3> QED BY <1>2, <3>1, ElementOfSeq
    <2>2. <<>> \in Seq(STRING)
      OBVIOUS
    <2> QED BY <2>1, <2>2
  <1> HIDE DEF param
  <1>5. next' \in 3..(3 + Len(msg.params)) /\ next' >= next
    BY <1>1, <1>2, <1>3
  <1>6. Consumes(c, adding) /\ param = <<>> => next' > Len(msg.params)
    BY <1>1, <1>2, <1>3
  <1>7. Around'
    BY <1>1 DEF Around
  <1>8. CASE ~ok
    <2>1. UNCHANGED <<modes, toldVars>>
      BY <1>1, <1>8
    <2>2. Typed'
      <3>1. IsModes(modes)' /\ Filled(msg.params)'
        BY <1>1, <2>1 DEF CmdInv, Typed, IsModes, Filled
      <3> QED BY <1>1, <1>2, <1>5, <3>1 DEF CmdInv, Typed
    <2>3. Followed' /\ Telling'
      BY <1>1, <2>1, Untouched
    <2>4. NoneLeft'
      <3>1. changes' = changes
        BY <2>1 DEF toldVars
      <3>2. ASSUME NEW k \in 1..Len(changes), Hungry(changes[k]), changes[k].param = <<>>
            PROVE  next' > Len(msg.params)
        <4>1. next > Len(msg.params)
          BY <3>2 DEF CmdInv, NoneLeft
        <4> QED BY <1>2, <1>5, <4>1
      <3>3. msg' = msg
        BY <1>1
      <3> QED BY <3>1, <3>2, <3>3 DEF NoneLeft, Hungry
    <2> QED BY <1>7, <2>2, <2>3, <2>4 DEF CmdInv
  <1>9. CASE ok
    <2>1. /\ modes' = Changed(modes, c, adding, param, LimitOf(Value(param)))
          /\ modeChanges' = modeChanges \o <<Sign(adding), c>>
          /\ paramChanges' = Joining(paramChanges, param)
          /\ changes' = Append(changes, change)
      BY <1>1, <1>9
    <2>2. IsModes(modes)
      BY DEF CmdInv, Typed
    <2>3. /\ c \in ModeLetters
          /\ IsModes(Changed(modes, c, adding, param, LimitOf(Value(param))))
      BY <1>2, <1>9, <2>2, AcceptedIs
    <2>4. change \in Change
      BY <1>2, <1>4, <2>3 DEF Change
    <2>5. /\ change.param = param /\ change.letter = c /\ change.add = adding
          /\ (Hungry(change) <=> Consumes(c, adding))
      BY DEF Hungry
    <2>6. Typed'
      <3>1. IsModes(modes)'
        BY <2>1, <2>3 DEF IsModes
      <3>2. Filled(msg.params)'
        BY <1>1 DEF CmdInv, Typed, Filled
      <3> QED BY <1>1, <1>2, <1>5, <3>1, <3>2 DEF CmdInv, Typed
    <2>7. changes \in Seq(Change) /\ Len(changes) \in Nat
      BY LenProperties DEF CmdInv, Telling
    <2> DEFINE n == Len(changes)
    <2> HIDE DEF change
    <2>8. /\ changes' \in Seq(Change) /\ Len(changes') = n + 1
          /\ changes'[n + 1] = change /\ \A k \in 1..n : changes'[k] = changes[k]
      BY <2>1, <2>4, <2>7, AppendProperties
    <2>9. ASSUME NEW j \in 1..n, Hungry(changes[j]), changes[j].param = <<>>
          PROVE  next > Len(msg.params) /\ param = <<>>
      <3>1. next > Len(msg.params)
        BY <2>9 DEF CmdInv, NoneLeft
      <3>2. ~takes
        BY <1>2, <1>3, <3>1
      <3> QED BY <1>3, <3>1, <3>2
    <2>10. NoneLeft'
      <3>1. ASSUME NEW k \in 1..Len(changes'), Hungry(changes'[k]),
                   changes'[k].param = <<>>
            PROVE  next' > Len(msg.params)
        <4>1. CASE k \in 1..n
          <5>1. changes'[k] = changes[k]
            BY <2>8, <4>1
          <5>2. next > Len(msg.params)
            BY <2>9, <3>1, <4>1, <5>1
          <5> QED BY <1>2, <1>5, <5>2
        <4>2. CASE k = n + 1
          BY <1>6, <2>5, <2>8, <3>1, <4>2
        <4> QED BY <2>7, <2>8, <4>1, <4>2
      <3> QED BY <1>1, <3>1 DEF NoneLeft, Hungry
    <2>11. Followed'
      <3>1. PICK f : IsRun(before, changes, AsConverted, f) /\ modes = f[Len(changes)]
        BY DEF CmdInv, Followed
      <3>2. \E g : /\ IsRun(before, Append(changes, change), AsConverted, g)
                   /\ g[Len(Append(changes, change))] =
                        Read(f[Len(changes)], change, AsConverted)
        BY <2>4, <2>7, <3>1, LongerRun
      <3>3. Read(modes, change, AsConverted) = modes'
        <4>1. Value(param) \in Nat
          BY CommandsAssumption DEF Value
        <4>2. AsConverted[Value(param)] = LimitOf(Value(param))
          BY <4>1 DEF AsConverted
        <4> QED BY <1>9, <2>1, <2>5, <4>2 DEF Read
      <3>4. \E g : IsRun(before, changes', AsConverted, g) /\ g[Len(changes')] = modes'
        BY <2>1, <3>1, <3>2, <3>3
      <3>5. before' = before
        BY <1>1
      <3> QED BY <3>4, <3>5 DEF Followed, IsRun, AsConverted
    <2>12. Lettered(modeChanges', changes')
      <3>1. Lettered(modeChanges, changes)
        BY DEF CmdInv, Telling
      <3>2. Lettered(modeChanges \o <<Sign(change.add), change.letter>>,
                     Append(changes, change))
        BY <2>4, <2>7, <3>1, LongerLettered
      <3> QED BY <2>1, <2>5, <3>2
    <2>13. PICK w, pl :
           /\ w \in Seq(Seq(STRING)) /\ Placed(changes, w, pl)
           /\ Legible => Spelled(paramChanges, w)
      BY DEF CmdInv, Telling, Told
    <2>14. PICK g : Placed(changes', Grown(w, change), g)
      <3>1. change.param # <<>> => Hungry(change)
        BY <1>3, <2>5
      <3>2. \A k \in 1..Len(changes) :
              Hungry(changes[k]) /\ changes[k].param = <<>> => change.param = <<>>
        BY <2>5, <2>9
      <3>3. \E g : Placed(Append(changes, change), Grown(w, change), g)
        BY <2>4, <2>7, <2>13, <3>1, <3>2, LongerPlaced
      <3> QED BY <2>1, <3>3
    <2>15. paramChanges \in Seq(STRING) /\ change.param \in Seq(STRING)
      BY <1>4, <2>5 DEF CmdInv, Telling
    <2>16. ASSUME Legible' PROVE Spelled(paramChanges', Grown(w, change))
      <3>1. Tidy(change.param) /\ Legible
        <4>1. \A k \in 1..(n + 1) : Tidy(changes'[k].param)
          BY <2>8, <2>16 DEF Legible, Tidy
        <4>2. Tidy(change.param)
          BY <2>7, <2>8, <4>1
        <4>3. \A k \in 1..n : Tidy(changes[k].param)
          <5>1. \A k \in 1..n : k \in 1..(n + 1) /\ changes'[k] = changes[k]
            BY <2>7, <2>8
          <5> QED BY <4>1, <5>1
        <4> QED BY <4>2, <4>3 DEF Legible, Tidy
      <3>2. Spelled(Joining(paramChanges, change.param), Grown(w, change))
        BY <2>4, <2>13, <2>15, <3>1, SpelledGrown
      <3> QED BY <2>1, <2>5, <3>2
    <2>17. Grown(w, change) \in Seq(Seq(STRING))
      BY <2>13, <2>15, AppendProperties DEF Grown
    <2>18. paramChanges' \in Seq(STRING)
      <3>1. Joining(paramChanges, change.param) \in Seq(STRING)
        <4>1. <<Blank>> \in Seq(STRING)
          BY BlankText
        <4>2. paramChanges \o <<Blank>> \in Seq(STRING)
          BY <2>15, <4>1, ConcatProperties
        <4>3. (paramChanges \o <<Blank>>) \o change.param \in Seq(STRING)
          BY <2>15, <4>2, ConcatProperties
        <4> QED BY <2>15, <4>3 DEF Joining
      <3> QED BY <2>1, <2>5, <3>1
    <2>19. Told'
      BY <2>14, <2>16, <2>17 DEF Told, Placed, Spelled
    <2>20. Telling'
      BY <2>8, <2>12, <2>18, <2>19 DEF Telling, Lettered
    <2> QED BY <1>7, <2>6, <2>10, <2>11, <2>20 DEF CmdInv
  <1> QED BY <1>8, <1>9

LEMMA CmdNext == CmdInv /\ [Next]_vars => CmdInv'
  <1> SUFFICES ASSUME CmdInv, [Next]_vars PROVE CmdInv'
    OBVIOUS
  <1>1. CASE Main
    BY <1>1, MainStep
  <1>2. ASSUME NEW text \in Line, ProcessMessage(text) PROVE CmdInv'
    BY <1>2, ProcessStep
  <1>3. CASE ModeSign
    BY <1>3, SignStep
  <1>4. CASE ModeLetter
    BY <1>4, LetterStep
  <1>5. CASE ModeAnnounce
    BY <1>5, AnnounceStep
  <1>6. CASE UNCHANGED vars
    BY <1>6, StillStep
  <1> QED BY <1>1, <1>2, <1>3, <1>4, <1>5, <1>6 DEF Next

LEMMA CmdInvariant == Spec => []CmdInv
  BY CmdInit, CmdNext, PTL DEF Spec

\* What the command works on is the line as it was parsed.
Parsed == Received => msg = Parse(line)

LEMMA ParsedInvariant == Spec => []Parsed
  <1>1. Init => Parsed
    BY DEF Init, Parsed, Received
  <1>2. ASSUME Parsed, [Next]_vars PROVE Parsed'
    <2>1. CASE Main
      <3>1. phase' \in {"ready", "exited"}
        BY <2>1 DEF Main
      <3> QED BY <3>1 DEF Parsed, Received
    <2>2. ASSUME NEW text \in Line, ProcessMessage(text) PROVE Parsed'
      BY <2>2 DEF ProcessMessage, Parsed
    <2>3. CASE ModeSign \/ ModeLetter \/ ModeAnnounce
      <3>1. phase = "mode" /\ msg' = msg /\ line' = line
        BY <2>3 DEF ModeSign, ModeLetter, ModeAnnounce
      <3>2. msg = Parse(line)
        BY <1>2, <3>1 DEF Parsed, Received
      <3> QED BY <3>1, <3>2 DEF Parsed
    <2>4. CASE UNCHANGED vars
      BY <1>2, <2>4 DEF vars, Parsed, Received
    <2> QED BY <1>2, <2>1, <2>2, <2>3, <2>4 DEF Next
  <1> QED BY <1>1, <1>2, PTL DEF Spec

-----------------------------------------------------------------------------
(* Theorems *)

\* Whatever number +l is given and however int wraps it, the limit of a channel
\* stays in 0..1000; and the loop over a MODE string never takes more
\* parameters than the line has.
THEOREM CommandTypes == Spec => []CmdTypeOK
  <1>1. CmdInv => CmdTypeOK
    BY DEF CmdInv, Typed, IsModes, CmdTypeOK
  <1> QED BY CmdInvariant, <1>1, PTL

\* parse takes every line that does not start with a blank apart as the grammar
\* has it, and refuses it if the grammar finds no command, unless the first
\* parameter and a later word both start with a colon, or white space other
\* than the blank comes before the trailing parameter.
THEOREM GrammarIsFollowed == Spec => []ParsedByGrammar
  <1>1. ASSUME CmdInv, Parsed, Received, Chomped(line) # <<>>, Chomped(line)[1] # Blank
        PROVE  LET text == Chomped(line) IN
               /\ IsValid(msg) <=> Len(Words(text, {Blank})) >= CommandWord(text)
               /\ IsValid(msg) /\ ~ColonTwice(ParamText(text)) /\ ~Stray(ParamText(text)) =>
                    msg = ByGrammar(text)
    <2> DEFINE text == Chomped(line)
    <2>1. line \in Seq(STRING) /\ msg = Split(text)
      BY <1>1 DEF Parsed, CmdInv, Typed, Parse
    <2>2. text \in Seq(STRING) /\ text # <<>> /\ text[1] # Blank
      BY <1>1, <2>1, ChompedIs
    <2> HIDE DEF text
    <2>3. Len(text) # 0
      BY <2>2, EmptySeq
    <2>4. /\ IsValid(Split(text)) <=> Len(Words(text, {Blank})) >= CommandWord(text)
          /\ IsValid(Split(text)) /\ ~ColonTwice(ParamText(text)) /\ ~Stray(ParamText(text)) =>
               Split(text) = ByGrammar(text)
      BY <2>2, <2>3, ByTheGrammar
    <2> QED BY <2>1, <2>4 DEF text
  <1>2. CmdInv /\ Parsed => ParsedByGrammar
    BY <1>1 DEF ParsedByGrammar
  <1> QED BY CmdInvariant, ParsedInvariant, <1>2, PTL

\* However a line is cut up and whatever parts of it are missing, an accepted
\* message has all of its text, in its order; only white space and colons go.
THEOREM NothingIsLost == Spec => []NoTextLost
  <1>1. ASSUME CmdInv, Parsed, Received, IsValid(msg)
        PROVE  Letters(msg.prefix \o msg.command \o FlattenSeq(msg.params)) = Letters(line)
    <2> DEFINE text == Chomped(line)
    <2>1. line \in Seq(STRING) /\ msg = Split(text)
      BY <1>1 DEF Parsed, CmdInv, Typed, Parse
    <2>2. text \in Seq(STRING) /\ Letters(text) = Letters(line)
      BY <2>1, ChompedIs
    <2> HIDE DEF text
    <2>3. Letters(TextOf(msg)) = Letters(line)
      BY <1>1, <2>1, <2>2, TextKept
    <2> QED BY <2>3 DEF TextOf
  <1>2. CmdInv /\ Parsed => NoTextLost
    BY <1>1 DEF NoTextLost
  <1> QED BY CmdInvariant, ParsedInvariant, <1>2, PTL

\* main listens on a port in 1024..65535 only, and on the one it was given as
\* long as that fits an int: atoi in any width.
THEOREM PortIsTheOneGiven == Spec => PortAsGiven
  <1>1. ASSUME CmdInv, [Next]_vars, phase = "main", phase' # phase
        PROVE  /\ phase' = "ready" => Unprivileged(port')
               /\ port <= MaxInt =>
                    /\ phase' = "ready" <=> Unprivileged(port)
                    /\ port' = port
    <2>1. Main
      BY <1>1 DEF Next, vars, ProcessMessage, ModeSign, ModeLetter, ModeAnnounce
    <2>2. port \in Nat
      BY <1>1 DEF CmdInv, Typed
    <2>3. /\ Atoi(port) \in Int /\ MaxInt > 65535
          /\ port <= MaxInt => Atoi(port) = port
      BY <2>2, AtoiIs
    <2>4. CASE ValidPort(port)
      <3>1. /\ port' = Atoi(port) /\ phase' = "ready"
            /\ Atoi(port) > 1023 /\ Atoi(port) < 65536
        BY <2>1, <2>4 DEF Main, ValidPort
      <3>2. Unprivileged(port')
        BY <2>3, <3>1 DEF Unprivileged
      <3> QED BY <2>3, <3>1, <3>2
    <2>5. CASE ~ValidPort(port)
      <3>1. port' = port /\ phase' = "exited"
        BY <2>1, <2>5 DEF Main
      <3>2. ~Unprivileged(port) \/ ~(port <= MaxInt)
        <4>1. ~(Atoi(port) > 1023 /\ Atoi(port) < 65536)
          BY <2>5 DEF ValidPort
        <4> QED BY <2>2, <2>3, <4>1 DEF Unprivileged
      <3> QED BY <3>1, <3>2
    <2> QED BY <2>4, <2>5
  <1>2. CmdInv /\ [Next]_vars =>
          [phase = "main" /\ phase' # phase =>
             /\ phase' = "ready" => Unprivileged(port')
             /\ port <= MaxInt =>
                  /\ phase' = "ready" <=> Unprivileged(port)
                  /\ port' = port]_vars
    BY <1>1
  <1> QED BY CmdInvariant, <1>2, PTL DEF Spec, PortAsGiven

\* Who reads what was sent and gives out its parameters by a rule that suits the
\* changes arrives where they lead.
LEMMA SentFollows ==
  ASSUME CmdInv, phase = "done", Legible, NEW takes, Suits(changes, takes),
         NEW limit, NEW f, IsRun(before, changes, limit, f)
  PROVE  /\ sent = NoLine => f[Len(changes)] = before
         /\ sent # NoLine =>
              /\ Parse(sent) = ByGrammar(sent)
              /\ f[Len(changes)] = Replayed(Parse(sent), takes, limit)
  <1>1. /\ changes \in Seq(Change) /\ Lettered(modeChanges, changes)
        /\ paramChanges \in Seq(STRING) /\ Len(changes) \in Nat
        /\ Len(modeChanges) = 2 * Len(changes)
        /\ sent = IF modeChanges = <<>> THEN NoLine ELSE Announcement
    BY LenProperties DEF CmdInv, Around, Telling, Lettered
  <1>2. PICK w, pl :
         /\ w \in Seq(Seq(STRING)) /\ Placed(changes, w, pl)
         /\ Legible => Spelled(paramChanges, w)
    BY DEF CmdInv, Telling, Told
  <1>3. CASE Len(changes) = 0
    <2>1. modeChanges = <<>>
      BY <1>1, <1>3, EmptySeq DEF Lettered
    <2>2. f[0] = before
      BY <1>3 DEF IsRun
    <2> QED BY <1>1, <1>3, <2>1, <2>2
  <1>4. CASE Len(changes) # 0
    <2> DEFINE read == Parse(Announcement)
    <2>1. /\ Announcement # NoLine /\ read = ByGrammar(Announcement)
          /\ read.params[2] = modeChanges /\ Behinds(read.params, 2, w)
      BY <1>1, <1>2, <1>4, AnnouncementRead
    <2>2. modeChanges # <<>>
      BY <1>1, <1>4
    <2>3. sent = Announcement
      BY <1>1, <2>2
    <2> HIDE DEF read
    <2>4. Lettered(read.params[2], changes) /\ Len(read.params[2]) \in Nat
      BY <1>1, <2>1
    <2>5. PICK at : /\ Walks(read, takes, limit, Len(read.params[2]), at)
                    /\ Replayed(read, takes, limit) = at[Len(read.params[2])].modes
      BY <2>4, ReplayedIs
    <2>6. Len(w) \in Nat
      BY <1>2, LenProperties
    <2>7. at[Len(read.params[2])].modes = f[Len(changes)]
      <3> DEFINE s == read.params[2]
      <3>1. /\ changes \in Seq(Change) /\ Suits(changes, takes) /\ Lettered(s, changes)
            /\ Len(w) \in Nat /\ Behinds(read.params, 2, w) /\ Placed(changes, w, pl)
            /\ IsRun(before, changes, limit, f) /\ Walks(read, takes, limit, Len(s), at)
        BY <1>1, <1>2, <2>1, <2>4, <2>5, <2>6
      <3> QED BY <3>1, WalkFollows
    <2> QED BY <2>1, <2>3, <2>5, <2>7 DEF read
  <1> QED BY <1>3, <1>4

\* Every parameter went to a letter that takes one by the server's rule.
LEMMA Fed ==
  ASSUME CmdInv, NEW k \in 1..Len(changes)
  PROVE  changes[k] \in Change /\ (changes[k].param # <<>> => Hungry(changes[k]))
  <1>1. changes[k] \in Change
    BY ElementOfSeq DEF CmdInv, Telling
  <1>2. PICK w, pl : w \in Seq(Seq(STRING)) /\ Placed(changes, w, pl)
    BY DEF CmdInv, Telling, Told
  <1>3. changes[k].param # <<>> => Hungry(changes[k])
    BY <1>2 DEF Placed
  <1> QED BY <1>1, <1>3

\* _handleChannelMode announces what it did: whichever letters it refused and
\* however the parameters ran out, who takes the line it sends apart as the
\* server does and reads it by the server's rule gives every letter the
\* parameter it had and arrives at the channel's modes, if no accepted parameter
\* has white space in it or starts with a colon.
THEOREM AnnouncementsReplay == Spec => []AnnouncementReplays
  <1>1. ASSUME CmdInv, phase = "done", Legible
        PROVE  modes = IF sent = NoLine THEN before
                       ELSE Replayed(Parse(sent), TakenHere, AsConverted)
    <2>1. Suits(changes, TakenHere)
      <3>1. ASSUME NEW k \in 1..Len(changes)
            PROVE  /\ <<changes[k].letter, changes[k].add>> \in TakenHere =>
                        Hungry(changes[k])
                   /\ changes[k].param # <<>> =>
                        <<changes[k].letter, changes[k].add>> \in TakenHere
        <4>1. changes[k] \in Change /\ (changes[k].param # <<>> => Hungry(changes[k]))
          BY <1>1, Fed
        <4>2. <<changes[k].letter, changes[k].add>> \in TakenHere <=>
                Hungry(changes[k])
          BY <4>1 DEF TakenHere, Hungry, Consumes, Change
        <4> QED BY <4>1, <4>2
      <3> QED BY <3>1 DEF Suits
    <2>2. PICK f : IsRun(before, changes, AsConverted, f) /\ modes = f[Len(changes)]
      BY <1>1 DEF CmdInv, Followed
    <2>3. /\ sent = NoLine => f[Len(changes)] = before
          /\ sent # NoLine =>
               f[Len(changes)] = Replayed(Parse(sent), TakenHere, AsConverted)
      BY <1>1, <2>1, <2>2, SentFollows
    <2> QED BY <2>2, <2>3
  <1>2. CmdInv => AnnouncementReplays
    BY <1>1 DEF AnnouncementReplays, AsConverted
  <1> QED BY CmdInvariant, <1>2, PTL

\* The same for who reads it by the protocol, its grammar and its rule, and
\* takes numbers for what they are, if besides no -l was given a parameter and
\* no +l a number beyond int.
THEOREM MembersKnowTheModes == Spec => []MembersAgree
  <1>1. ASSUME CmdInv, phase = "done", Legible, Plain
        PROVE  modes = IF sent = NoLine THEN before
                       ELSE Replayed(ByGrammar(sent), TakenByProtocol, AsWritten)
    <2>1. changes \in Seq(Change)
      BY <1>1 DEF CmdInv, Telling
    <2>2. Suits(changes, TakenByProtocol)
      <3>1. ASSUME NEW k \in 1..Len(changes)
            PROVE  /\ <<changes[k].letter, changes[k].add>> \in TakenByProtocol =>
                        Hungry(changes[k])
                   /\ changes[k].param # <<>> =>
                        <<changes[k].letter, changes[k].add>> \in TakenByProtocol
        <4>1. changes[k] \in Change /\ (changes[k].param # <<>> => Hungry(changes[k]))
          BY <1>1, Fed
        <4>2. changes[k].letter = "l" /\ ~changes[k].add => changes[k].param = <<>>
          BY <1>1 DEF Plain
        <4>3. <<changes[k].letter, changes[k].add>> \in TakenByProtocol <=>
                /\ Hungry(changes[k])
                /\ ~(changes[k].letter = "l" /\ ~changes[k].add)
          BY <4>1 DEF TakenByProtocol, Hungry, Consumes, Change
        <4> QED BY <4>1, <4>2, <4>3
      <3> QED BY <3>1 DEF Suits
    <2>3. PICK f : IsRun(before, changes, AsConverted, f) /\ modes = f[Len(changes)]
      BY <1>1 DEF CmdInv, Followed
    <2>4. ASSUME NEW m, NEW k \in 1..Len(changes)
          PROVE  Read(m, changes[k], AsConverted) = Read(m, changes[k], AsWritten)
      <3> DEFINE c == changes[k]
                 v == Value(c.param)
      <3>1. v \in Nat
        BY CommandsAssumption DEF Value
      <3>2. AsConverted[v] = LimitOf(v) /\ AsWritten[v] = v
        BY <3>1 DEF AsConverted, AsWritten
      <3>3. CASE c.letter = "l" /\ c.add
        <4>1. v <= MaxInt
          BY <1>1, <3>3 DEF Plain
        <4>2. LimitOf(v) = v
          BY <3>1, <4>1, AtoiIs
        <4> QED BY <3>2, <4>2 DEF Read
      <3>4. CASE ~(c.letter = "l" /\ c.add)
        <4> HIDE DEF c, v
        <4>1. ASSUME NEW x, NEW y
              PROVE  Changed(m, c.letter, c.add, c.param, x) =
                     Changed(m, c.letter, c.add, c.param, y)
          BY <3>4 DEF Changed, FlagLetter, ListLetter
        <4>2. Changed(m, c.letter, c.add, c.param, AsConverted[v]) =
              Changed(m, c.letter, c.add, c.param, AsWritten[v])
          BY <4>1
        <4> QED BY <4>2 DEF Read, c, v
      <3> QED BY <3>3, <3>4
    <2>5. IsRun(before, changes, AsWritten, f)
      <3>1. Len(changes) \in Nat
        BY <2>1, LenProperties
      <3>2. ASSUME NEW k \in 0..Len(changes), k # 0
            PROVE  Read(f[k - 1], changes[k], AsConverted) =
                   Read(f[k - 1], changes[k], AsWritten)
        <4>1. k \in 1..Len(changes)
          BY <3>1, <3>2
        <4> QED BY <2>4, <4>1
      <3>3. f = [k \in 0..Len(changes) |->
                   IF k = 0 THEN before ELSE Read(f[k - 1], changes[k], AsConverted)]
        BY <2>3 DEF IsRun
      <3>4. f = [k \in 0..Len(changes) |->
                   IF k = 0 THEN before ELSE Read(f[k - 1], changes[k], AsWritten)]
        BY <3>2, <3>3
      <3> QED BY <3>4 DEF IsRun
    <2>6. /\ sent = NoLine => f[Len(changes)] = before
          /\ sent # NoLine =>
               /\ Parse(sent) = ByGrammar(sent)
               /\ f[Len(changes)] = Replayed(Parse(sent), TakenByProtocol, AsWritten)
      BY <1>1, <2>2, <2>5, SentFollows
    <2> QED BY <2>3, <2>6
  <1>2. CmdInv => MembersAgree
    BY <1>1 DEF MembersAgree, AsWritten
  <1> QED BY CmdInvariant, <1>2, PTL
=============================================================================
