----------------------------- MODULE DeskProofs -----------------------------
(***************************************************************************)
(* Theorems about Desk, for any clients, texts, mods and requests, and any *)
(* cut of the streams: that what the mods ask for is carried out in order, *)
(* what becomes of the AI settings when requests to the panel overlap, and *)
(* that on every connection what is read is what was sent, in order.       *)
(***************************************************************************)
EXTENDS Desk, SequenceTheorems, NaturalsInduction, WellFoundedInduction, TLAPS

(***************************************************************************)
(* Numbers and sequences.                                                  *)
(***************************************************************************)
\* A set of numbers has a least one: induction.
LEMMA LeastNumber ==
  ASSUME NEW T, T \subseteq Nat, T # {}
  PROVE  \E n \in T : \A m \in T : n <= m
<1> DEFINE R == {ss \in Nat \X Nat : ss[1] < ss[2]}
<1>1. IsWellFoundedOn(R, Nat)
  BY NatLessThanWellFounded DEF OpToRel
<1> HIDE DEF R
<1>2. PICK n \in T : \A m \in T : ~(<<m, n>> \in R)
  BY <1>1, WFMin
<1>3. ASSUME NEW m \in T PROVE n <= m
  <2>1. m \in Nat /\ n \in Nat
    OBVIOUS
  <2>2. m < n => <<m, n>> \in R
    BY <2>1 DEF R
  <2>3. ~(m < n)
    BY <1>2, <2>2
  <2> QED
    BY <2>1, <2>3
<1> QED
  BY <1>3

\* A set that has 0, and with every number below N the next, has all up to N.
LEMMA Reached ==
  ASSUME NEW N \in Nat, NEW T, 0 \in T, \A n \in 0 .. N : n < N /\ n \in T => n + 1 \in T
  PROVE  0 .. N \subseteq T
<1> DEFINE B == (0 .. N) \ T
<1> SUFFICES ASSUME B # {} PROVE FALSE
  OBVIOUS
<1>1. B \subseteq Nat
  OBVIOUS
<1>2. PICK n \in B : \A m \in B : n <= m
  <2> HIDE DEF B
  <2> QED
    BY <1>1, LeastNumber
<1>3. n \in 0 .. N /\ n # 0 /\ n \notin T
  OBVIOUS
<1>4. n - 1 \in 0 .. N /\ n - 1 < N /\ ~(n <= n - 1) /\ (n - 1) + 1 = n
  BY <1>3
<1>5. n - 1 \in T
  BY <1>2, <1>4
<1> QED
  BY <1>3, <1>4, <1>5

(***************************************************************************)
(* Sequences and what FlattenSeq makes of a sequence of them.              *)
(***************************************************************************)
\* j[i] are the first i of the sequences in t, joined.
Joins(j, t) ==
  j = [i \in 1 .. Len(t) |-> IF i = 1 THEN t[i] ELSE j[i - 1] \o t[i]]

\* The same for the first n; and where all of it are sequences over U.
JoinsFirst(j, t, n) == \A i \in 1 .. n : j[i] = IF i = 1 THEN t[i] ELSE j[i - 1] \o t[i]
Agree(j, k, n) == \A i \in 1 .. n : k[i] = j[i]
JoinsUpTo(j, t, n, U) == j \in [1 .. n -> Seq(U)] /\ JoinsFirst(j, t, n)

\* What FlattenSeq computes exists.
LEMMA JoinExists ==
  ASSUME NEW U, NEW t \in Seq(Seq(U))
  PROVE  \E j : JoinsUpTo(j, t, Len(t), U)
<1> DEFINE N == Len(t)
           T == {n \in 0 .. N : \E j : JoinsUpTo(j, t, n, U)}
<1>1. N \in Nat /\ \A i \in 1 .. N : t[i] \in Seq(U)
  OBVIOUS
<1>2. 0 \in T
  <2>1. JoinsUpTo([i \in 1 .. 0 |-> <<>>], t, 0, U)
    BY DEF JoinsUpTo, JoinsFirst
  <2> QED
    BY <2>1, <1>1
<1>3. ASSUME NEW n \in 0 .. N, n < N, n \in T PROVE n + 1 \in T
  <2>1. PICK j : JoinsUpTo(j, t, n, U)
    BY <1>3
  <2>2. /\ j \in [1 .. n -> Seq(U)]
        /\ \A i \in 1 .. n : j[i] = IF i = 1 THEN t[i] ELSE j[i - 1] \o t[i]
    BY <2>1 DEF JoinsUpTo, JoinsFirst
  <2> DEFINE last == IF n = 0 THEN t[n + 1] ELSE j[n] \o t[n + 1]
             k == [i \in 1 .. n + 1 |-> IF i = n + 1 THEN last ELSE j[i]]
  <2>3. n \in Nat /\ t[n + 1] \in Seq(U)
    BY <1>1, <1>3
  <2>4. last \in Seq(U)
    <3>1. CASE n = 0
      BY <3>1, <2>3
    <3>2. CASE n # 0
      <4>1. j[n] \in Seq(U)
        BY <2>2, <2>3, <3>2
      <4> QED
        BY <4>1, <2>3, <3>2, ConcatProperties
    <3> QED
      BY <3>1, <3>2
  <2>5. \A i \in 1 .. n + 1 : i # n + 1 => i \in 1 .. n
    BY <2>3
  <2>6. k \in [1 .. n + 1 -> Seq(U)]
    <3> HIDE DEF last
    <3> QED
      BY <2>2, <2>4, <2>5
  <2>7. ASSUME NEW i \in 1 .. n + 1
        PROVE  k[i] = IF i = 1 THEN t[i] ELSE k[i - 1] \o t[i]
    <3>1. CASE i = n + 1 /\ n = 0
      BY <3>1
    <3>2. CASE i = n + 1 /\ n # 0
      <4>1. i # 1 /\ i - 1 = n /\ i - 1 \in 1 .. n + 1 /\ i - 1 # n + 1
        BY <2>3, <3>2
      <4>2. k[i] = j[n] \o t[i]
        BY <3>2
      <4>3. k[i - 1] = j[n]
        BY <4>1
      <4> QED
        BY <4>1, <4>2, <4>3
    <3>3. CASE i # n + 1
      <4>1. i \in 1 .. n /\ (i # 1 => i - 1 \in 1 .. n /\ i - 1 \in 1 .. n + 1 /\ i - 1 # n + 1)
        BY <2>3, <2>5, <3>3
      <4>2. k[i] = j[i] /\ (i # 1 => k[i - 1] = j[i - 1])
        BY <3>3, <4>1
      <4> QED
        BY <2>2, <4>1, <4>2
    <3> QED
      BY <3>1, <3>2, <3>3
  <2>8. JoinsUpTo(k, t, n + 1, U)
    <3> HIDE DEF k
    <3> QED
      BY <2>6, <2>7 DEF JoinsUpTo, JoinsFirst
  <2>9. n + 1 \in 0 .. N
    BY <1>1, <1>3
  <2> QED
    BY <2>8, <2>9
<1>4. N \in T
  <2> HIDE DEF T
  <2>1. 0 .. N \subseteq T
    BY <1>1, <1>2, <1>3, Reached
  <2> QED
    BY <2>1, <1>1
<1> QED
  BY <1>4

\* There is only one of them.
LEMMA JoinUnique ==
  ASSUME NEW U, NEW t, NEW n \in Nat, NEW j, JoinsUpTo(j, t, n, U),
         NEW k, JoinsFirst(k, t, n)
  PROVE  Agree(j, k, n)
<1> DEFINE T == {m \in 0 .. n : m > 0 => k[m] = j[m]}
<1>0. /\ \A i \in 1 .. n : j[i] = IF i = 1 THEN t[i] ELSE j[i - 1] \o t[i]
      /\ \A i \in 1 .. n : k[i] = IF i = 1 THEN t[i] ELSE k[i - 1] \o t[i]
  BY DEF JoinsUpTo, JoinsFirst
<1>1. 0 \in T
  OBVIOUS
<1>2. ASSUME NEW m \in 0 .. n, m < n, m \in T PROVE m + 1 \in T
  <2>1. m + 1 \in 1 .. n /\ m + 1 \in 0 .. n /\ (m + 1) - 1 = m /\ (m + 1 = 1 <=> m = 0)
    BY <1>2
  <2>2. k[m + 1] = IF m + 1 = 1 THEN t[m + 1] ELSE k[m] \o t[m + 1]
    BY <2>1, <1>0
  <2>3. j[m + 1] = IF m + 1 = 1 THEN t[m + 1] ELSE j[m] \o t[m + 1]
    BY <2>1, <1>0
  <2>4. m > 0 => k[m] = j[m]
    BY <1>2
  <2>5. k[m + 1] = j[m + 1]
    BY <2>1, <2>2, <2>3, <2>4, <1>2
  <2> QED
    BY <2>1, <2>5
<1>3. 0 .. n \subseteq T
  <2> HIDE DEF T
  <2> QED
    BY <1>1, <1>2, Reached
<1>4. \A i \in 1 .. n : k[i] = j[i]
  BY <1>3
<1> QED
  BY <1>4 DEF Agree

\* What FlattenSeq computes.
LEMMA FlattenIs ==
  ASSUME NEW U, NEW t \in Seq(Seq(U)), Len(t) # 0, NEW j, JoinsUpTo(j, t, Len(t), U)
  PROVE  FlattenSeq(t) = j[Len(t)]
<1>1. FlattenSeq(t) = (CHOOSE k : Joins(k, t))[Len(t)]
  BY DEF FlattenSeq, Joins
<1>2. Joins(j, t)
  BY DEF JoinsUpTo, JoinsFirst, Joins
<1>3. PICK k : k = (CHOOSE g : Joins(g, t)) /\ Joins(k, t)
  BY <1>2
<1>4. JoinsFirst(k, t, Len(t))
  BY <1>3 DEF Joins, JoinsFirst
<1>5. Len(t) \in Nat /\ Len(t) \in 1 .. Len(t)
  OBVIOUS
<1>6. \A i \in 1 .. Len(t) : k[i] = j[i]
  <2>1. PICK n \in Nat : n = Len(t)
    BY <1>5
  <2>2. JoinsUpTo(j, t, n, U) /\ JoinsFirst(k, t, n)
    BY <1>4, <2>1
  <2>3. Agree(j, k, n)
    BY <2>1, <2>2, JoinUnique
  <2> QED
    BY <2>1, <2>3 DEF Agree
<1> QED
  BY <1>1, <1>3, <1>5, <1>6

\* It makes sequences over U of sequences of them, one piece after the other.
LEMMA FlattenEmpty == FlattenSeq(<<>>) = <<>>
  BY DEF FlattenSeq

LEMMA FlattenType ==
  ASSUME NEW U, NEW t \in Seq(Seq(U))
  PROVE  FlattenSeq(t) \in Seq(U)
<1>1. CASE Len(t) = 0
  <2>1. t = <<>>
    BY <1>1
  <2>2. FlattenSeq(t) = <<>>
    BY <2>1, FlattenEmpty
  <2> QED
    BY <2>2
<1>2. CASE Len(t) # 0
  <2>1. PICK j : JoinsUpTo(j, t, Len(t), U)
    BY JoinExists
  <2>2. FlattenSeq(t) = j[Len(t)]
    BY <1>2, <2>1, FlattenIs
  <2>3. Len(t) \in 1 .. Len(t)
    BY <1>2
  <2> QED
    BY <2>1, <2>2, <2>3 DEF JoinsUpTo, JoinsFirst
<1> QED
  BY <1>1, <1>2

LEMMA FlattenAppend ==
  ASSUME NEW U, NEW t \in Seq(Seq(U)), NEW x \in Seq(U)
  PROVE  FlattenSeq(Append(t, x)) = FlattenSeq(t) \o x
<1> DEFINE a == Append(t, x)
           n == Len(t)
<1>1. /\ a \in Seq(Seq(U)) /\ Len(a) = n + 1 /\ n \in Nat /\ a[n + 1] = x
      /\ \A i \in 1 .. n : a[i] = t[i]
  BY AppendProperties
<1> HIDE DEF a
<1>2. PICK j : JoinsUpTo(j, a, Len(a), U)
  BY <1>1, JoinExists
<1>3. FlattenSeq(a) = j[n + 1]
  <2>1. Len(a) # 0
    BY <1>1
  <2> QED
    BY <1>1, <1>2, <2>1, FlattenIs
<1>4. /\ j \in [1 .. n + 1 -> Seq(U)]
      /\ \A i \in 1 .. n + 1 : j[i] = IF i = 1 THEN a[i] ELSE j[i - 1] \o a[i]
  BY <1>1, <1>2 DEF JoinsUpTo, JoinsFirst
<1>5. CASE n = 0
  <2>1. j[1] = x
    BY <1>1, <1>4, <1>5
  <2>2. t = <<>>
    BY <1>5
  <2> QED
    BY <1>3, <1>5, <2>1, <2>2, FlattenEmpty, ConcatEmptySeq DEF a
<1>6. CASE n # 0
  <2>0. n + 1 \in 1 .. n + 1 /\ n + 1 # 1 /\ (n + 1) - 1 = n
    BY <1>1, <1>6
  <2>1. j[n + 1] = j[n] \o x
    BY <1>1, <1>4, <2>0
  <2> DEFINE k == [i \in 1 .. n |-> j[i]]
  <2>2. k \in [1 .. n -> Seq(U)]
    BY <1>1, <1>4
  <2>3. ASSUME NEW i \in 1 .. n
        PROVE  k[i] = IF i = 1 THEN t[i] ELSE k[i - 1] \o t[i]
    <3>1. i \in 1 .. n + 1 /\ (i # 1 => i - 1 \in 1 .. n)
      BY <1>1
    <3>2. j[i] = IF i = 1 THEN t[i] ELSE j[i - 1] \o t[i]
      BY <1>1, <1>4, <3>1
    <3> QED
      BY <3>1, <3>2
  <2>4. JoinsUpTo(k, t, n, U)
    <3> HIDE DEF k
    <3> QED
      BY <2>2, <2>3 DEF JoinsUpTo, JoinsFirst
  <2>5. FlattenSeq(t) = k[n]
    <3> HIDE DEF k
    <3> QED
      BY <1>6, <2>4, FlattenIs
  <2>6. k[n] = j[n]
    BY <1>1, <1>6
  <2> QED
    BY <1>3, <2>1, <2>5, <2>6 DEF a
<1> QED
  BY <1>5, <1>6

\* What joining two sequences gives.
LEMMA ConcatIs ==
  ASSUME NEW S, NEW s \in Seq(S), NEW t \in Seq(S)
  PROVE  /\ s \o t \in Seq(S) /\ Len(s \o t) = Len(s) + Len(t)
         /\ Len(s) \in Nat /\ Len(t) \in Nat
         /\ \A i \in 1 .. Len(s) : (s \o t)[i] = s[i]
         /\ \A i \in 1 .. Len(t) : (s \o t)[Len(s) + i] = t[i]
  OBVIOUS

LEMMA ConcatAppend ==
  ASSUME NEW S, NEW s \in Seq(S), NEW t \in Seq(S), NEW x \in S
  PROVE  s \o Append(t, x) = Append(s \o t, x) /\ s \o t \in Seq(S)
  OBVIOUS

LEMMA FlattenOne ==
  ASSUME NEW U, NEW x \in Seq(U)
  PROVE  FlattenSeq(<<x>>) = x
<1>1. <<>> \in Seq(Seq(U)) /\ Append(<<>>, x) = <<x>>
  OBVIOUS
<1>2. FlattenSeq(Append(<<>>, x)) = FlattenSeq(<<>>) \o x
  BY <1>1, FlattenAppend
<1> QED
  BY <1>1, <1>2, FlattenEmpty, ConcatEmptySeq

LEMMA FlattenConcat ==
  ASSUME NEW U, NEW s \in Seq(Seq(U)), NEW t \in Seq(Seq(U))
  PROVE  FlattenSeq(s \o t) = FlattenSeq(s) \o FlattenSeq(t)
<1> DEFINE f(n) == SubSeq(t, 1, n)
           T == {n \in 0 .. Len(t) : FlattenSeq(s \o f(n)) = FlattenSeq(s) \o FlattenSeq(f(n))}
<1>0. Len(t) \in Nat
  OBVIOUS
<1>1. \A n \in 0 .. Len(t) : f(n) \in Seq(Seq(U))
  OBVIOUS
<1>2. 0 \in T
  <2>1. f(0) = <<>> /\ 0 \in 0 .. Len(t)
    BY <1>0
  <2>2. s \o <<>> = s /\ FlattenSeq(s) \o <<>> = FlattenSeq(s)
    BY FlattenType, ConcatEmptySeq
  <2> HIDE DEF f
  <2> QED
    BY <2>1, <2>2, FlattenEmpty
<1>3. ASSUME NEW n \in 0 .. Len(t), n < Len(t), n \in T PROVE n + 1 \in T
  <2> DEFINE x == t[n + 1]
  <2>1. n + 1 \in 1 .. Len(t) /\ n + 1 \in 0 .. Len(t) /\ x \in Seq(U)
    BY <1>0, <1>3
  <2>2. f(n + 1) = Append(f(n), x)
    BY <1>0, <2>1
  <2>3. f(n) \in Seq(Seq(U))
    BY <1>1
  <2> HIDE DEF f, x
  <2>4. s \o f(n + 1) = Append(s \o f(n), x) /\ s \o f(n) \in Seq(Seq(U))
    <3> DEFINE S == Seq(U)
               g == f(n)
    <3>1. s \in Seq(S) /\ g \in Seq(S) /\ x \in S
      BY <2>1, <2>3
    <3> HIDE DEF S, g
    <3>2. s \o Append(g, x) = Append(s \o g, x) /\ s \o g \in Seq(S)
      BY <3>1, ConcatAppend
    <3> QED
      BY <2>2, <3>2 DEF S, g
  <2>5. /\ FlattenSeq(Append(s \o f(n), x)) = FlattenSeq(s \o f(n)) \o x
        /\ FlattenSeq(Append(f(n), x)) = FlattenSeq(f(n)) \o x
    BY <2>1, <2>3, <2>4, FlattenAppend
  <2>6. (FlattenSeq(s) \o FlattenSeq(f(n))) \o x = FlattenSeq(s) \o (FlattenSeq(f(n)) \o x)
    <3>1. FlattenSeq(s) \in Seq(U) /\ FlattenSeq(f(n)) \in Seq(U)
      BY <2>3, FlattenType
    <3> DEFINE a == FlattenSeq(s)
               b == FlattenSeq(f(n))
    <3> HIDE DEF a, b
    <3>2. a \in Seq(U) /\ b \in Seq(U) /\ x \in Seq(U)
      BY <2>1, <3>1 DEF a, b
    <3>3. (a \o b) \o x = a \o (b \o x)
      BY <3>2, ConcatAssociative, SMTT(30)
    <3> QED
      BY <3>3 DEF a, b
  <2>7. FlattenSeq(s \o f(n)) = FlattenSeq(s) \o FlattenSeq(f(n))
    BY <1>3
  <2>8. FlattenSeq(s \o f(n + 1)) = FlattenSeq(s) \o FlattenSeq(f(n + 1))
    BY <2>2, <2>4, <2>5, <2>6, <2>7
  <2> QED
    BY <2>1, <2>8
<1>4. Len(t) \in T
  <2> HIDE DEF T
  <2>1. 0 .. Len(t) \subseteq T
    BY <1>0, <1>2, <1>3, Reached
  <2> QED
    BY <2>1, <1>0
<1>5. f(Len(t)) = t
  BY SubSeqFull
<1> HIDE DEF f
<1> QED
  BY <1>4, <1>5

(***************************************************************************)
(* What the mods ask for is carried out.                                   *)
(***************************************************************************)
\* Whatever is a sequence is one of its own elements.
LEMMA ListedIs ==
  ASSUME NEW T, NEW s \in Seq(T)
  PROVE  Listed(s)
  BY SeqOfRange DEF Listed

LEMMA ListedConcat ==
  ASSUME NEW s, Listed(s), NEW t, Listed(t)
  PROVE  Listed(s \o t)
<1> DEFINE T == Range(s) \cup Range(t)
<1>1. s \in Seq(T) /\ t \in Seq(T)
  BY SeqMonotonic DEF Listed
<1> HIDE DEF T
<1> QED
  BY <1>1, ListedIs, ConcatProperties

\* Rows that are sequences each are a sequence of sequences.
LEMMA ListedPieces ==
  ASSUME NEW n \in Nat, NEW f, f = [i \in 1 .. n |-> f[i]], \A i \in 1 .. n : Listed(f[i])
  PROVE  \E U : f \in Seq(Seq(U))
<1> DEFINE U == UNION {Range(f[i]) : i \in 1 .. n}
<1>1. ASSUME NEW i \in 1 .. n PROVE f[i] \in Seq(U)
  <2>1. f[i] \in Seq(Range(f[i])) /\ Range(f[i]) \subseteq U
    BY DEF Listed
  <2> HIDE DEF U
  <2> QED
    BY <2>1, SeqMonotonic
<1> HIDE DEF U
<1>2. f \in Seq(Seq(U))
  BY <1>1
<1> QED
  BY <1>2

\* What a handler asks for before it throws comes in an order.
LEMMA CaughtListed ==
  ASSUME NEW h, Listed(h.does), NEW n
  PROVE  Listed(Caught(h, n))
<1> DEFINE d == h.does
           f == [i \in DOMAIN d |-> [d[i] EXCEPT !.n = IF @ = 0 THEN n ELSE @]]
           l == IF h.ends = "thrown" THEN <<Log>> ELSE <<>>
<1>1. Listed(f)
  <2>1. DOMAIN d = 1 .. Len(d) /\ Len(d) \in Nat
    BY LenProperties DEF Listed
  <2>2. \E V : \A i \in DOMAIN d : f[i] \in V
    <3> DEFINE V == {f[i] : i \in DOMAIN d}
    <3>1. \A i \in DOMAIN d : f[i] \in V
      OBVIOUS
    <3> QED
      BY <3>1
  <2>3. PICK V : \A i \in DOMAIN d : f[i] \in V
    BY <2>2
  <2>4. DOMAIN f = DOMAIN d /\ f = [i \in 1 .. Len(d) |-> f[i]]
    BY <2>1
  <2> HIDE DEF f
  <2>5. f \in [1 .. Len(d) -> V]
    BY <2>1, <2>3, <2>4
  <2>6. f \in Seq(V)
    BY <2>1, <2>5
  <2> QED
    BY <2>6, ListedIs
<1>2. Listed(l)
  <2>1. l \in Seq({Log})
    <3>1. CASE h.ends = "thrown"
      BY <3>1
    <3>2. CASE h.ends # "thrown"
      BY <3>2
    <3> QED
      BY <3>1, <3>2
  <2> HIDE DEF l
  <2> QED
    BY <2>1, ListedIs
<1>3. Caught(h, n) = f \o l
  BY DEF Caught
<1> HIDE DEF f, l
<1> QED
  BY <1>1, <1>2, <1>3, ListedConcat

LEMMA FlattenListed ==
  ASSUME NEW n \in Nat, NEW f, f = [i \in 1 .. n |-> f[i]], \A i \in 1 .. n : Listed(f[i])
  PROVE  Listed(FlattenSeq(f))
<1>1. PICK U : f \in Seq(Seq(U))
  BY ListedPieces
<1> QED
  BY <1>1, FlattenType, ListedIs

LEMMA NoneListed == Listed(<<>>)
<1>1. <<>> \in Seq({})
  OBVIOUS
<1> QED
  BY <1>1, ListedIs

\* Rows that are sequences each, joined.
Rows(f, n) == n \in Nat /\ f = [i \in 1 .. n |-> f[i]] /\ \A i \in 1 .. n : Listed(f[i])

LEMMA PiecesListed ==
  ASSUME NEW f, NEW n, Rows(f, n)
  PROVE  Listed(FlattenSeq(f))
  BY FlattenListed DEF Rows

\* h is f and then g.
Joined(h, f, n, g, m) ==
  /\ Rows(f, n) /\ Rows(g, m)
  /\ h = [i \in 1 .. n + m |-> h[i]]
  /\ \A i \in 1 .. n : h[i] = f[i]
  /\ \A i \in 1 .. m : h[n + i] = g[i]

LEMMA FlattenTwo ==
  ASSUME NEW h, NEW f, NEW n, NEW g, NEW m, Joined(h, f, n, g, m)
  PROVE  FlattenSeq(h) = FlattenSeq(f) \o FlattenSeq(g)
<1>1. /\ n \in Nat /\ m \in Nat /\ h = [i \in 1 .. n + m |-> h[i]]
      /\ f = [i \in 1 .. n |-> f[i]] /\ g = [i \in 1 .. m |-> g[i]]
      /\ \A i \in 1 .. n : h[i] = f[i] /\ Listed(f[i])
      /\ \A i \in 1 .. m : h[n + i] = g[i] /\ Listed(g[i])
  BY DEF Joined, Rows
<1>2. \A i \in 1 .. n + m : Listed(h[i])
  <2>1. ASSUME NEW i \in 1 .. n + m PROVE Listed(h[i])
    <3>1. i \in 1 .. n \/ (i - n \in 1 .. m /\ n + (i - n) = i)
      BY <1>1
    <3> QED
      BY <1>1, <3>1
  <2> QED
    BY <2>1
<1>3. n + m \in Nat
  BY <1>1
<1>4. PICK U : h \in Seq(Seq(U))
  BY <1>1, <1>2, <1>3, ListedPieces
<1> DEFINE S == Seq(U)
<1>5. h \in Seq(S) /\ Len(h) = n + m /\ \A i \in 1 .. n + m : h[i] \in S
  <2>1. h \in Seq(S)
    BY <1>4
  <2> HIDE DEF S
  <2>2. DOMAIN h = 1 .. n + m
    BY <1>1
  <2>3. Len(h) = n + m
    BY <1>3, <2>1, <2>2, LenProperties
  <2> QED
    BY <2>1, <2>3, ElementOfSeq
<1> HIDE DEF S
<1>6. f \in Seq(S) /\ Len(f) = n
  <2>1. \A i \in 1 .. n : f[i] \in S
    <3>1. \A i \in 1 .. n : i \in 1 .. n + m
      BY <1>1
    <3> QED
      BY <1>1, <1>5, <3>1
  <2>2. f \in [1 .. n -> S] /\ n \in Nat
    BY <1>1, <2>1
  <2>3. f \in Seq(S) /\ DOMAIN f = 1 .. n
    BY <2>2
  <2> QED
    BY <2>2, <2>3, LenProperties
<1>7. g \in Seq(S) /\ Len(g) = m
  <2>1. \A i \in 1 .. m : g[i] \in S
    <3>1. \A i \in 1 .. m : n + i \in 1 .. n + m
      BY <1>1
    <3> QED
      BY <1>1, <1>5, <3>1
  <2>2. g \in [1 .. m -> S] /\ m \in Nat
    BY <1>1, <2>1
  <2>3. g \in Seq(S) /\ DOMAIN g = 1 .. m
    BY <2>2
  <2> QED
    BY <2>2, <2>3, LenProperties
<1>8. h = f \o g
  <2>1. PICK fg : fg = f \o g
    OBVIOUS
  <2>2. /\ fg \in Seq(S) /\ Len(fg) = Len(f) + Len(g)
        /\ \A i \in 1 .. Len(f) : fg[i] = f[i]
        /\ \A i \in 1 .. Len(g) : fg[Len(f) + i] = g[i]
    <3>1. /\ f \o g \in Seq(S) /\ Len(f \o g) = Len(f) + Len(g)
          /\ \A i \in 1 .. Len(f) : (f \o g)[i] = f[i]
          /\ \A i \in 1 .. Len(g) : (f \o g)[Len(f) + i] = g[i]
      <4>1. f \in Seq(S) /\ g \in Seq(S)
        BY <1>6, <1>7
      <4> QED
        BY <4>1, ConcatIs
    <3> QED
      BY <2>1, <3>1
  <2>3. /\ Len(fg) = n + m
        /\ \A i \in 1 .. n : fg[i] = f[i]
        /\ \A i \in 1 .. m : fg[n + i] = g[i]
    BY <1>6, <1>7, <2>2
  <2>4. /\ \A i \in 1 .. n : h[i] = f[i]
        /\ \A i \in 1 .. m : h[n + i] = g[i]
    BY <1>1
  <2>5. ASSUME NEW i \in 1 .. n + m PROVE h[i] = fg[i]
    <3>1. CASE i \in 1 .. n
      BY <2>3, <2>4, <3>1
    <3>2. CASE i \notin 1 .. n
      <4>1. PICK j \in 1 .. m : i = n + j
        <5>1. i - n \in 1 .. m /\ i = n + (i - n)
          BY <1>1, <3>2
        <5> QED
          BY <5>1
      <4> QED
        BY <2>3, <2>4, <4>1
    <3> QED
      BY <3>1, <3>2
  <2> QED
    BY <1>5, <2>1, <2>2, <2>3, <2>5, SeqEqual
<1> QED
  BY <1>6, <1>7, <1>8, FlattenConcat DEF S

\* Nothing, however often, is nothing.
LEMMA FlattenNothing ==
  ASSUME NEW n \in Nat
  PROVE  Rows(All(n, <<>>), n) /\ FlattenSeq(All(n, <<>>)) = <<>>
<1> DEFINE f(k) == All(k, <<>>)
           T == {k \in 0 .. n : FlattenSeq(f(k)) = <<>>}
<1>1. \A k \in Nat : Rows(f(k), k)
  BY NoneListed DEF Rows, All
<1>2. 0 \in T
  <2>1. f(0) = <<>>
    BY DEF All
  <2> HIDE DEF f
  <2> QED
    BY <2>1, FlattenEmpty
<1>3. ASSUME NEW k \in 0 .. n, k < n, k \in T PROVE k + 1 \in T
  <2> DEFINE g == <<<<>>>>
  <2>1. Rows(g, 1)
    BY NoneListed DEF Rows
  <2>2. FlattenSeq(g) = <<>>
    <3>1. <<>> \in Seq({})
      OBVIOUS
    <3> QED
      BY <3>1, FlattenOne
  <2>3. /\ f(k + 1) = [i \in 1 .. k + 1 |-> f(k + 1)[i]]
        /\ \A i \in 1 .. k : f(k + 1)[i] = f(k)[i]
        /\ \A i \in 1 .. 1 : f(k + 1)[k + i] = g[i]
    BY DEF All
  <2>4. k \in Nat /\ k + 1 \in 0 .. n /\ FlattenSeq(f(k)) = <<>>
    BY <1>3
  <2>5. Rows(f(k), k)
    BY <1>1, <2>4
  <2> DEFINE a == f(k)
             b == f(k + 1)
  <2> HIDE DEF f, g, a, b
  <2>6. Joined(b, a, k, g, 1)
    BY <2>1, <2>3, <2>5 DEF Joined, a, b
  <2>7. FlattenSeq(b) = FlattenSeq(a) \o FlattenSeq(g)
    BY <2>6, FlattenTwo
  <2>8. <<>> \o <<>> = <<>>
    OBVIOUS
  <2> QED
    BY <2>2, <2>4, <2>7, <2>8 DEF a, b
<1>4. n \in T
  <2> HIDE DEF T
  <2>1. 0 .. n \subseteq T
    BY <1>2, <1>3, Reached
  <2> QED
    BY <2>1
<1> HIDE DEF f
<1> QED
  BY <1>1, <1>4 DEF f

LEMMA DispatchListed ==
  ASSUME NEW name, NEW n
  PROVE  Listed(dispatch(name, n))
<1> DEFINE hs == HandlersOf(name)
           f == [i \in DOMAIN hs |-> IF Runs(hs, i) THEN Caught(hs[i], n) ELSE <<>>]
<1>1. Listed(hs) /\ \A i \in DOMAIN hs : Listed(hs[i].does)
  <2>1. CASE name \in DOMAIN Handlers
    BY <2>1, DeskAssumption DEF HandlersOf
  <2>2. CASE name \notin DOMAIN Handlers
    <3>1. hs = <<>>
      BY <2>2 DEF HandlersOf
    <3>2. <<>> \in Seq({}) /\ DOMAIN <<>> = {}
      OBVIOUS
    <3> QED
      BY <3>1, <3>2, ListedIs
  <2> QED
    BY <2>1, <2>2
<1>2. DOMAIN hs = 1 .. Len(hs) /\ Len(hs) \in Nat
  BY <1>1, LenProperties DEF Listed
<1>3. \A i \in 1 .. Len(hs) : Listed(f[i])
  <2>1. ASSUME NEW i \in 1 .. Len(hs) PROVE Listed(f[i])
    <3>1. f[i] = Caught(hs[i], n) \/ f[i] = <<>>
      BY <1>2
    <3>2. Listed(Caught(hs[i], n)) /\ Listed(<<>>)
      BY <1>1, <1>2, CaughtListed, NoneListed
    <3> HIDE DEF f
    <3> QED
      BY <3>1, <3>2
  <2> QED
    BY <2>1
<1>4. f = [i \in 1 .. Len(hs) |-> f[i]]
  BY <1>2
<1>5. dispatch(name, n) = FlattenSeq(f)
  BY DEF dispatch
<1> HIDE DEF f, hs
<1> QED
  BY <1>2, <1>3, <1>4, <1>5, FlattenListed

LEMMA CallsListed ==
  ASSUME NEW event
  PROVE  Listed(Calls(event))
<1>1. CASE event.name # "command"
  BY <1>1, DispatchListed DEF Calls
<1>2. CASE event.name = "command" /\ Texts[event.n].name \in DOMAIN Orders
  BY <1>2, DeskAssumption, CaughtListed DEF Calls, runCommand
<1>3. CASE event.name = "command" /\ Texts[event.n].name \notin DOMAIN Orders
  BY <1>3, DispatchListed DEF Calls, runCommand
<1> QED
  BY <1>1, <1>2, <1>3

\* What the thread passes on of them does too.
KnownPieces(calls) ==
  [i \in DOMAIN calls |-> IF calls[i].type = "unknown" THEN <<>> ELSE <<calls[i]>>]

LEMMA KnownIs ==
  ASSUME NEW calls, Listed(calls)
  PROVE  Rows(KnownPieces(calls), Len(calls)) /\ Known(calls) = FlattenSeq(KnownPieces(calls))
<1> DEFINE f == KnownPieces(calls)
<1>1. DOMAIN calls = 1 .. Len(calls) /\ Len(calls) \in Nat
  BY LenProperties DEF Listed
<1>2. ASSUME NEW i \in 1 .. Len(calls) PROVE Listed(f[i])
  <2>1. f[i] = <<>> \/ f[i] = <<calls[i]>>
    BY <1>1 DEF KnownPieces
  <2>2. <<>> \in Seq({calls[i]}) /\ <<calls[i]>> \in Seq({calls[i]})
    OBVIOUS
  <2> QED
    BY <2>1, <2>2, ListedIs
<1>3. f = [i \in 1 .. Len(calls) |-> f[i]]
  BY <1>1 DEF KnownPieces
<1>4. Known(calls) = FlattenSeq(f)
  BY DEF Known, KnownPieces
<1> HIDE DEF f
<1> QED
  BY <1>1, <1>2, <1>3, <1>4 DEF f, Rows

LEMMA KnownListed ==
  ASSUME NEW calls, Listed(calls)
  PROVE  Listed(Known(calls))
  BY KnownIs, PiecesListed

LEMMA KnownConcat ==
  ASSUME NEW a, Listed(a), NEW b, Listed(b)
  PROVE  Known(a \o b) = Known(a) \o Known(b)
<1> DEFINE T == Range(a) \cup Range(b)
           f == KnownPieces(a)
           g == KnownPieces(b)
           h == KnownPieces(a \o b)
<1>1. a \in Seq(T) /\ b \in Seq(T)
  BY SeqMonotonic DEF Listed
<1> HIDE DEF T
<1>2. /\ Len(a) \in Nat /\ Len(b) \in Nat /\ Len(a \o b) = Len(a) + Len(b)
      /\ DOMAIN a = 1 .. Len(a) /\ DOMAIN b = 1 .. Len(b) /\ DOMAIN (a \o b) = 1 .. Len(a) + Len(b)
      /\ \A i \in 1 .. Len(a) : (a \o b)[i] = a[i]
      /\ \A i \in 1 .. Len(b) : (a \o b)[Len(a) + i] = b[i]
  BY <1>1, ConcatIs, LenProperties
<1>3. PICK ab : ab = a \o b
  OBVIOUS
<1>4. h = [i \in 1 .. Len(a) + Len(b) |-> h[i]]
  BY <1>2 DEF KnownPieces
<1>5. \A i \in 1 .. Len(a) : h[i] = f[i]
  <2>1. \A i \in 1 .. Len(a) : i \in 1 .. Len(a) + Len(b)
    BY <1>2
  <2> QED
    BY <1>2, <2>1 DEF KnownPieces
<1>6. \A i \in 1 .. Len(b) : h[Len(a) + i] = g[i]
  <2>1. \A i \in 1 .. Len(b) : Len(a) + i \in 1 .. Len(a) + Len(b)
    BY <1>2
  <2> QED
    BY <1>2, <2>1 DEF KnownPieces
<1>7. /\ Rows(f, Len(a)) /\ Known(a) = FlattenSeq(f)
      /\ Rows(g, Len(b)) /\ Known(b) = FlattenSeq(g)
  BY KnownIs
<1>8. Known(a \o b) = FlattenSeq(h)
  <2>1. Listed(a \o b)
    BY ListedConcat
  <2> QED
    BY <2>1, KnownIs
<1> HIDE DEF f, g, h
<1>9. Joined(h, f, Len(a), g, Len(b))
  BY <1>4, <1>5, <1>6, <1>7 DEF Joined
<1> QED
  BY <1>7, <1>8, <1>9, FlattenTwo

(***************************************************************************)
(* The reactions to events.                                                *)
(***************************************************************************)
ReactionsTo(events, heed) ==
  [i \in DOMAIN heed |-> IF heed[i] THEN Known(Calls(events[i])) ELSE <<>>]

\* What n events from the one after d on ask for.
Wanted(events, d, n) == [i \in 1 .. n |-> Known(Calls(events[d + i]))]

LEMMA WantedPieces ==
  ASSUME NEW events, NEW d, NEW n \in Nat
  PROVE  Rows(Wanted(events, d, n), n)
<1> DEFINE f == Wanted(events, d, n)
<1>1. \A i \in 1 .. n : f[i] = Known(Calls(events[d + i]))
  BY DEF Wanted
<1>2. \A i \in 1 .. n : Listed(f[i])
  BY <1>1, CallsListed, KnownListed
<1>3. f = [i \in 1 .. n |-> f[i]]
  BY DEF Wanted
<1> HIDE DEF f
<1> QED
  BY <1>2, <1>3 DEF Rows, f

LEMMA ReactionsPieces ==
  ASSUME NEW events, NEW heed \in Seq(BOOLEAN)
  PROVE  /\ Rows(ReactionsTo(events, heed), Len(heed))
         /\ Reactions(events, heed) = FlattenSeq(ReactionsTo(events, heed))
<1> DEFINE f == ReactionsTo(events, heed)
<1>1. DOMAIN heed = 1 .. Len(heed) /\ Len(heed) \in Nat
  OBVIOUS
<1>2. ASSUME NEW i \in 1 .. Len(heed) PROVE Listed(f[i])
  <2>1. f[i] = Known(Calls(events[i])) \/ f[i] = <<>>
    BY <1>1 DEF ReactionsTo
  <2>2. Listed(Known(Calls(events[i]))) /\ Listed(<<>>)
    BY CallsListed, KnownListed, NoneListed
  <2> HIDE DEF f
  <2> QED
    BY <2>1, <2>2
<1>3. f = [i \in 1 .. Len(heed) |-> f[i]]
  BY <1>1 DEF ReactionsTo
<1>4. Reactions(events, heed) = FlattenSeq(f)
  BY DEF Reactions, ReactionsTo
<1> HIDE DEF f
<1> QED
  BY <1>1, <1>2, <1>3, <1>4 DEF Rows, f

\* One more event asks for its own after the others.
LEMMA WantedGrows ==
  ASSUME NEW events, NEW d \in Nat, NEW n \in Nat
  PROVE  FlattenSeq(Wanted(events, d, n + 1))
           = FlattenSeq(Wanted(events, d, n)) \o Known(Calls(events[d + (n + 1)]))
<1> DEFINE r == Known(Calls(events[d + (n + 1)]))
           f == Wanted(events, d, n)
           g == <<r>>
           h == Wanted(events, d, n + 1)
<1>1. Listed(r)
  BY CallsListed, KnownListed
<1>2. Rows(f, n)
  BY WantedPieces
<1>3. h = [i \in 1 .. n + 1 |-> h[i]] /\ h[n + 1] = r /\ \A i \in 1 .. n : h[i] = f[i]
  BY DEF Wanted
<1> HIDE DEF f, h, r
<1>4. Rows(g, 1)
  BY <1>1 DEF Rows
<1>5. \A i \in 1 .. 1 : h[n + i] = g[i]
  BY <1>3
<1>6. FlattenSeq(g) = r
  <2>1. r \in Seq(Range(r))
    BY <1>1 DEF Listed
  <2> QED
    BY <2>1, FlattenOne
<1> HIDE DEF g
<1>7. Joined(h, f, n, g, 1)
  BY <1>2, <1>3, <1>4, <1>5 DEF Joined
<1>8. FlattenSeq(h) = FlattenSeq(f) \o FlattenSeq(g)
  BY <1>7, FlattenTwo
<1> QED
  BY <1>6, <1>8 DEF f, h, r

\* more accounts for n events after heed, all drained or all in vain.
Heeded(heed, n, ok, more) ==
  heed \in Seq(BOOLEAN) /\ n \in Nat /\ ok \in BOOLEAN /\ more = heed \o All(n, ok)

\* What is drained adds what was asked for, or nothing when it is thrown away.
Sums(events, heed, n, ok, more) ==
  /\ more \in Seq(BOOLEAN) /\ Len(more) = Len(heed) + n /\ Len(heed) \in Nat
  /\ \A i \in 1 .. Len(heed) : more[i] = heed[i]
  /\ \A i \in 1 .. n : more[Len(heed) + i] = ok
  /\ Reactions(events, more)
       = Reactions(events, heed)
           \o (IF ok THEN FlattenSeq(Wanted(events, Len(heed), n)) ELSE <<>>)

LEMMA ReactionsGrow ==
  ASSUME NEW events, NEW heed, NEW n, NEW ok, NEW more, Heeded(heed, n, ok, more)
  PROVE  Sums(events, heed, n, ok, more)
<1> DEFINE l == Len(heed)
           t == All(n, ok)
<1>0. heed \in Seq(BOOLEAN) /\ n \in Nat /\ ok \in BOOLEAN /\ more = heed \o t
  BY DEF Heeded
<1>1. t \in Seq(BOOLEAN) /\ Len(t) = n /\ \A i \in 1 .. n : t[i] = ok
  BY <1>0 DEF All
<1> HIDE DEF t
<1>2. /\ more \in Seq(BOOLEAN) /\ Len(more) = l + n /\ l \in Nat
      /\ \A i \in 1 .. l : more[i] = heed[i]
      /\ \A i \in 1 .. n : more[l + i] = ok
  <2>1. more = heed \o t
    BY <1>0
  <2>2. /\ heed \o t \in Seq(BOOLEAN) /\ Len(heed \o t) = Len(heed) + Len(t)
        /\ Len(heed) \in Nat
        /\ \A i \in 1 .. Len(heed) : (heed \o t)[i] = heed[i]
        /\ \A i \in 1 .. Len(t) : (heed \o t)[Len(heed) + i] = t[i]
    <3>1. heed \in Seq(BOOLEAN) /\ t \in Seq(BOOLEAN)
      BY <1>0, <1>1
    <3> QED
      BY <3>1, ConcatIs
  <2> QED
    BY <1>1, <2>1, <2>2
<1> DEFINE f == ReactionsTo(events, heed)
           g == IF ok THEN Wanted(events, l, n) ELSE All(n, <<>>)
           h == ReactionsTo(events, more)
<1>3. DOMAIN heed = 1 .. l /\ DOMAIN more = 1 .. l + n
  BY <1>2
<1>4. h = [i \in 1 .. l + n |-> h[i]]
  BY <1>3 DEF ReactionsTo
<1>5. \A i \in 1 .. l : h[i] = f[i]
  <2>1. \A i \in 1 .. l : i \in 1 .. l + n
    BY <1>0, <1>2
  <2> QED
    BY <1>2, <1>3, <2>1 DEF ReactionsTo
<1>6. \A i \in 1 .. n : h[l + i] = g[i]
  <2>1. \A i \in 1 .. n : l + i \in 1 .. l + n
    BY <1>0, <1>2
  <2>2. \A i \in 1 .. n : h[l + i] = IF ok THEN Known(Calls(events[l + i])) ELSE <<>>
    BY <1>2, <1>3, <2>1 DEF ReactionsTo
  <2> QED
    BY <2>2 DEF Wanted, All
<1>7. Rows(f, l) /\ Reactions(events, heed) = FlattenSeq(f) /\ Reactions(events, more) = FlattenSeq(h)
  BY <1>0, <1>2, ReactionsPieces
<1>8. Rows(g, n) /\ FlattenSeq(g) = IF ok THEN FlattenSeq(Wanted(events, l, n)) ELSE <<>>
  BY <1>0, <1>2, WantedPieces, FlattenNothing
<1> HIDE DEF f, g, h, l
<1>9. Joined(h, f, l, g, n)
  BY <1>4, <1>5, <1>6, <1>7, <1>8 DEF Joined
<1>10. FlattenSeq(h) = FlattenSeq(f) \o FlattenSeq(g)
  BY <1>9, FlattenTwo
<1> QED
  BY <1>2, <1>7, <1>8, <1>10 DEF l, Sums

\* Beginnings.
LEMMA PrefixIs ==
  ASSUME NEW a, Listed(a), NEW b, Listed(b)
  PROVE  IsPrefix(a, b) <=> Len(a) <= Len(b) /\ \A i \in 1 .. Len(a) : a[i] = b[i]
<1> DEFINE T == Range(a) \cup Range(b)
<1>1. a \in Seq(T) /\ b \in Seq(T)
  BY SeqMonotonic DEF Listed
<1> HIDE DEF T
<1>2. SubSeq(a, 1, Len(a)) = a
  BY <1>1, SubSeqFull
<1>3. Len(a) \in Nat /\ Len(b) \in Nat
  BY <1>1
<1>4. ASSUME Len(a) <= Len(b)
      PROVE  (a = SubSeq(b, 1, Len(a))) <=> \A i \in 1 .. Len(a) : a[i] = b[i]
  <2> DEFINE s == SubSeq(b, 1, Len(a))
  <2>1. \A i \in 1 .. Len(a) : b[i] \in T
    BY <1>1, <1>3, <1>4
  <2>2. s \in Seq(T) /\ Len(s) = Len(a) /\ \A i \in 1 .. Len(a) : s[i] = b[i]
    BY <2>1, <1>3, SubSeqProperties
  <2> HIDE DEF s
  <2>3. (\A i \in 1 .. Len(a) : a[i] = b[i]) => a = s
    BY <1>1, <2>2, SeqEqual
  <2>4. a = s => \A i \in 1 .. Len(a) : a[i] = b[i]
    BY <2>2
  <2> QED
    BY <2>3, <2>4 DEF s
<1>5. IsPrefix(a, b) <=> Len(a) <= Len(b) /\ a = SubSeq(b, 1, Len(a))
  BY <1>2 DEF IsPrefix
<1> QED
  BY <1>4, <1>5

LEMMA PrefixOfConcat ==
  ASSUME NEW a, Listed(a), NEW b, Listed(b)
  PROVE  IsPrefix(a, a \o b)
<1> DEFINE T == Range(a) \cup Range(b)
<1>1. a \in Seq(T) /\ b \in Seq(T)
  BY SeqMonotonic DEF Listed
<1> HIDE DEF T
<1>2. /\ Len(a) \in Nat /\ Len(b) \in Nat
      /\ Len(a \o b) = Len(a) + Len(b)
      /\ \A i \in 1 .. Len(a) : (a \o b)[i] = a[i]
  BY <1>1, ConcatProperties
<1>3. Listed(a \o b)
  BY ListedConcat
<1>4. PICK c : c = a \o b
  OBVIOUS
<1>5. Len(a) <= Len(c) /\ \A i \in 1 .. Len(a) : a[i] = c[i]
  BY <1>2, <1>4
<1>6. IsPrefix(a, c)
  BY <1>3, <1>4, <1>5, PrefixIs
<1> QED
  BY <1>4, <1>6

\* The rest of the events fired waits for the thread, before the Shutdown.
Waiting(k) ==
  LET m == Len(fired) - k
  IN /\ m <= Len(msgs) /\ (m < Len(msgs) => msgs[m + 1] = NoEvent)
     /\ \A i \in 1 .. m : msgs[i] = fired[k + i] /\ msgs[i] # NoEvent

\* The first k events have run.  Those drained are accounted for, what the others
\* asked for is still in the array, and an array is kept, or a batch lost that
\* parses, only when memory is short.
Tallied(k) ==
  /\ heeded \in Seq(BOOLEAN) /\ held \in Nat /\ Len(heeded) + held = k
  /\ applied \o chan = Reactions(fired, heeded)
  /\ Known(actions) = FlattenSeq(Wanted(fired, Len(heeded), held))
  /\ held = 0 => actions = <<>>
  /\ \/ setup.starves
     \/ /\ held = 0
        /\ \A i \in 1 .. Len(heeded) : heeded[i] \/ Garbled(Calls(fired[i]))

Handled(k) ==
  /\ Tallied(k)
  /\ thread = "up" => Waiting(k)

ReactionsInv ==
  /\ Listed(fired) /\ Listed(msgs) /\ Listed(applied) /\ Listed(chan) /\ Listed(actions)
  /\ \E k \in 0 .. Len(fired) : Handled(k)

\* It says what it is for.
LEMMA InOrder ==
  ASSUME ReactionsInv
  PROVE  ReactionsKept
<1>1. PICK k \in 0 .. Len(fired) : Handled(k)
  BY DEF ReactionsInv
<1>2. Listed(applied) /\ Listed(chan)
  BY DEF ReactionsInv
<1>3. /\ heeded \in Seq(BOOLEAN) /\ applied \o chan = Reactions(fired, heeded)
      /\ \/ setup.starves
         \/ \A i \in 1 .. Len(heeded) : heeded[i] \/ Garbled(Calls(fired[i]))
  BY <1>1 DEF Handled, Tallied
<1>4. IsPrefix(applied, Reactions(fired, heeded))
  BY <1>2, <1>3, PrefixOfConcat
<1>5. DOMAIN heeded = 1 .. Len(heeded)
  BY <1>3
<1> QED
  BY <1>3, <1>4, <1>5 DEF ReactionsKept

\* A sequence keeps what it has when another follows.
LEMMA FirstStays ==
  ASSUME NEW events, Listed(events), NEW e
  PROVE  /\ Listed(Append(events, e)) /\ Len(Append(events, e)) = Len(events) + 1
         /\ Append(events, e)[Len(events) + 1] = e
         /\ \A i \in 1 .. Len(events) : Append(events, e)[i] = events[i]
<1> DEFINE T == Range(events) \cup {e}
           a == Append(events, e)
<1>1. events \in Seq(T) /\ e \in T
  BY SeqMonotonic DEF Listed
<1> HIDE DEF T
<1>2. /\ a \in Seq(T) /\ Len(a) = Len(events) + 1 /\ a[Len(events) + 1] = e
      /\ \A i \in 1 .. Len(events) : a[i] = events[i]
  BY <1>1, AppendProperties
<1> QED
  BY <1>2, ListedIs

\* More events fired, and actions moved on, leave what was asked for as it is.
Undrained ==
  /\ UNCHANGED <<heeded, held, actions>> /\ setup' = setup
  /\ applied' \o chan' = applied \o chan
  /\ \A i \in 1 .. Len(fired) : fired'[i] = fired[i]

LEMMA TalliedStays ==
  ASSUME NEW k \in Nat, Len(fired) \in Nat, k <= Len(fired), Tallied(k), Undrained
  PROVE  Tallied(k)'
<1>1. /\ heeded \in Seq(BOOLEAN) /\ held \in Nat /\ Len(heeded) + held = k
      /\ applied \o chan = Reactions(fired, heeded)
      /\ Known(actions) = FlattenSeq(Wanted(fired, Len(heeded), held))
      /\ held = 0 => actions = <<>>
      /\ \/ setup.starves
         \/ held = 0 /\ \A i \in 1 .. Len(heeded) : heeded[i] \/ Garbled(Calls(fired[i]))
  BY DEF Tallied
<1>2. DOMAIN heeded = 1 .. Len(heeded) /\ Len(heeded) \in Nat
  BY <1>1
<1>3. /\ \A i \in 1 .. Len(heeded) : i \in 1 .. Len(fired)
      /\ \A i \in 1 .. held : Len(heeded) + i \in 1 .. Len(fired)
  BY <1>1, <1>2
<1>4. /\ heeded' = heeded /\ held' = held /\ actions' = actions /\ setup' = setup
      /\ applied' \o chan' = applied \o chan
      /\ \A i \in 1 .. Len(fired) : fired'[i] = fired[i]
  BY DEF Undrained
<1>5. PICK events : events = fired'
  OBVIOUS
<1>6. Reactions(events, heeded) = Reactions(fired, heeded)
  <2>1. ReactionsTo(events, heeded) = ReactionsTo(fired, heeded)
    BY <1>2, <1>3, <1>4, <1>5 DEF ReactionsTo
  <2> QED
    BY <1>1, <2>1, ReactionsPieces
<1>7. Wanted(events, Len(heeded), held) = Wanted(fired, Len(heeded), held)
  BY <1>3, <1>4, <1>5 DEF Wanted
<1>8. \A i \in 1 .. Len(heeded) : Calls(events[i]) = Calls(fired[i])
  BY <1>3, <1>4, <1>5
<1>9. /\ Reactions(fired, heeded)' = Reactions(events, heeded)
      /\ Wanted(fired, Len(heeded), held)' = Wanted(events, Len(heeded), held)
      /\ Known(actions)' = Known(actions)
  BY <1>4, <1>5 DEF Reactions, Wanted, Known
<1> QED
  BY <1>1, <1>4, <1>5, <1>6, <1>7, <1>8, <1>9 DEF Tallied

\* An event that is fired waits in the channel, behind the others.
LEMMA FiringKeeps ==
  ASSUME ReactionsInv, NEW event, fire_mod(event), setup' = setup,
         UNCHANGED <<thread, actions, heeded, held, chan, applied>>
  PROVE  ReactionsInv'
<1>0. /\ Listed(fired) /\ Listed(msgs) /\ Listed(applied) /\ Listed(chan) /\ Listed(actions)
      /\ Len(fired) \in Nat /\ Len(msgs) \in Nat
  BY LenProperties DEF ReactionsInv, Listed
<1>1. PICK k \in 0 .. Len(fired) : Handled(k)
  BY DEF ReactionsInv
<1>2. CASE UNCHANGED <<msgs, fired>>
  <2>1. Undrained
    BY <1>2 DEF Undrained
  <2>2. Tallied(k)'
    BY <1>0, <1>1, <2>1, TalliedStays DEF Handled
  <2>3. Handled(k)'
    BY <1>1, <1>2, <2>2 DEF Handled, Waiting
  <2> QED
    BY <1>0, <1>1, <1>2, <2>3 DEF ReactionsInv, Listed
<1>3. CASE event # NoEvent
  <2> DEFINE m == Len(fired) - k
             fires == thread = "up" /\ ~\E i \in DOMAIN msgs : msgs[i] = NoEvent
  <2>1. msgs' = Append(msgs, event) /\ fired' = IF fires THEN Append(fired, event) ELSE fired
    BY <1>3 DEF fire_mod
  <2>2. /\ Listed(msgs') /\ Len(msgs') = Len(msgs) + 1 /\ msgs'[Len(msgs) + 1] = event
        /\ \A i \in 1 .. Len(msgs) : msgs'[i] = msgs[i]
    BY <1>0, <2>1, FirstStays
  <2>3. DOMAIN msgs = 1 .. Len(msgs)
    BY <1>0, LenProperties DEF Listed
  <2>4. m \in Nat /\ k + m = Len(fired)
    BY <1>0
  <2>5. ASSUME thread = "up"
        PROVE  /\ m <= Len(msgs) /\ (m < Len(msgs) => msgs[m + 1] = NoEvent)
               /\ \A i \in 1 .. m : msgs[i] = fired[k + i] /\ msgs[i] # NoEvent
    BY <1>1, <2>5 DEF Handled, Waiting
  <2>6. CASE fires
    <3>1. /\ Listed(fired') /\ Len(fired') = Len(fired) + 1 /\ fired'[Len(fired) + 1] = event
          /\ \A i \in 1 .. Len(fired) : fired'[i] = fired[i]
      BY <1>0, <2>1, <2>6, FirstStays
    <3>2. m = Len(msgs)
      <4>1. m < Len(msgs) => m + 1 \in DOMAIN msgs
        BY <1>0, <2>3, <2>4
      <4>2. thread = "up" /\ \A i \in DOMAIN msgs : msgs[i] # NoEvent
        BY <2>6
      <4>3. m <= Len(msgs) /\ (m < Len(msgs) => msgs[m + 1] = NoEvent)
        BY <2>5, <4>2
      <4> HIDE DEF m
      <4>4. ~(m < Len(msgs))
        BY <4>1, <4>2, <4>3
      <4> QED
        BY <1>0, <2>4, <4>3, <4>4
    <3>3. ASSUME NEW i \in 1 .. m + 1
          PROVE  msgs'[i] = fired'[k + i] /\ msgs'[i] # NoEvent
      <4>1. CASE i = m + 1
        BY <1>3, <2>2, <2>4, <3>1, <3>2, <4>1
      <4>2. CASE i # m + 1
        <5>1. i \in 1 .. m /\ k + i \in 1 .. Len(fired)
          BY <1>0, <2>4, <4>2
        <5> QED
          BY <2>2, <2>5, <2>6, <3>1, <3>2, <5>1
      <4> QED
        BY <4>1, <4>2
    <3>4. Len(fired') - k = m + 1 /\ m + 1 = Len(msgs') /\ k \in 0 .. Len(fired')
      BY <1>0, <2>2, <3>1, <3>2
    <3>5. Waiting(k)'
      BY <1>0, <2>2, <3>3, <3>4 DEF Waiting
    <3>6. Undrained
      BY <3>1 DEF Undrained
    <3>7. Handled(k)'
      BY <1>0, <1>1, <3>5, <3>6, TalliedStays DEF Handled
    <3> QED
      BY <1>0, <2>2, <3>1, <3>4, <3>7 DEF ReactionsInv, Listed
  <2>7. CASE ~fires
    <3>1. fired' = fired
      BY <2>1, <2>7
    <3>2. ASSUME thread = "up" PROVE Waiting(k)'
      <4>1. m < Len(msgs)
        <5>1. PICK i \in DOMAIN msgs : msgs[i] = NoEvent
          BY <2>7, <3>2
        <5>2. i \in 1 .. Len(msgs) /\ ~(i \in 1 .. m)
          BY <2>3, <2>5, <3>2, <5>1
        <5> QED
          BY <1>0, <2>4, <5>2
      <4>2. msgs'[m + 1] = NoEvent /\ \A i \in 1 .. m : msgs'[i] = fired[k + i] /\ msgs'[i] # NoEvent
        <5>1. m \in Nat /\ m + 1 \in 1 .. Len(msgs) /\ \A i \in 1 .. m : i \in 1 .. Len(msgs)
          BY <1>0, <2>4, <4>1
        <5>2. msgs[m + 1] = NoEvent /\ \A i \in 1 .. m : msgs[i] = fired[k + i] /\ msgs[i] # NoEvent
          BY <2>5, <3>2, <4>1
        <5> HIDE DEF m
        <5> QED
          BY <2>2, <5>1, <5>2
      <4>3. m <= Len(msgs')
        BY <1>0, <2>2, <2>4, <4>1
      <4> QED
        BY <3>1, <4>2, <4>3 DEF Waiting
    <3>3. Undrained
      BY <3>1 DEF Undrained
    <3>4. Tallied(k)'
      BY <1>0, <1>1, <3>3, TalliedStays DEF Handled
    <3>5. Handled(k)'
      BY <3>2, <3>4 DEF Handled
    <3> QED
      BY <1>0, <1>1, <2>2, <3>1, <3>5 DEF ReactionsInv, Listed
  <2> QED
    BY <2>6, <2>7
<1> QED
  BY <1>2, <1>3 DEF fire_mod

\* Leaving what the mods' thread works on alone.
LEMMA AsideKeeps ==
  ASSUME ReactionsInv, UNCHANGED modVars, setup' = setup
  PROVE  ReactionsInv'
<1>0. Listed(fired) /\ Len(fired) \in Nat
  BY LenProperties DEF ReactionsInv, Listed
<1>1. PICK k \in 0 .. Len(fired) : Handled(k)
  BY DEF ReactionsInv
<1>2. UNCHANGED <<msgs, thread, actions, heeded, held, chan, fired, applied>>
  BY DEF modVars
<1>3. Undrained
  BY <1>2 DEF Undrained
<1>4. Tallied(k)'
  BY <1>0, <1>1, <1>3, TalliedStays DEF Handled
<1>5. Handled(k)'
  BY <1>1, <1>2, <1>4 DEF Handled, Waiting
<1> QED
  BY <1>1, <1>2, <1>5 DEF ReactionsInv, Listed

LEMMA ConcatThree ==
  ASSUME NEW a, Listed(a), NEW b, Listed(b), NEW c, Listed(c)
  PROVE  (a \o b) \o c = a \o (b \o c)
<1> DEFINE T == (Range(a) \cup Range(b)) \cup Range(c)
<1>1. /\ a \in Seq(Range(a)) /\ b \in Seq(Range(b)) /\ c \in Seq(Range(c))
      /\ Range(a) \subseteq T /\ Range(b) \subseteq T /\ Range(c) \subseteq T
  BY DEF Listed
<1> HIDE DEF T
<1>2. a \in Seq(T) /\ b \in Seq(T) /\ c \in Seq(T)
  BY <1>1, SeqMonotonic
<1> QED
  BY <1>2, ConcatAssociative

\* What is drained goes to the end of the channel of actions, or is thrown away.
LEMMA DrainTallies ==
  ASSUME NEW k \in Nat, Tallied(k), Listed(applied), Listed(chan), Listed(actions),
         NEW calls, calls = Calls(fired[k + 1]), NEW all, all = actions \o calls,
         Drains(all) \/ DrainFails(all), UNCHANGED <<fired, applied>>, setup' = setup
  PROVE  Tallied(k + 1)' /\ Listed(chan') /\ Listed(actions')
<1> DEFINE l == Len(heeded)
           n == held + 1
           w == FlattenSeq(Wanted(fired, l, n))
           r == Reactions(fired, heeded)
<1>1. /\ heeded \in Seq(BOOLEAN) /\ held \in Nat /\ l + held = k /\ l \in Nat
      /\ applied \o chan = r
      /\ Known(actions) = FlattenSeq(Wanted(fired, l, held))
      /\ held = 0 => actions = <<>>
      /\ \/ setup.starves
         \/ held = 0 /\ \A i \in 1 .. l : heeded[i] \/ Garbled(Calls(fired[i]))
  BY DEF Tallied
<1>2. n \in Nat /\ l + n = k + 1 /\ l + (held + 1) = k + 1 /\ n # 0
  <2>1. held \in Nat /\ l \in Nat /\ l + held = k
    BY <1>1
  <2> HIDE DEF l
  <2> QED
    BY <2>1
<1>3. Listed(calls) /\ Listed(all)
  BY CallsListed, ListedConcat
<1>4. Known(all) = w
  <2>1. Known(all) = Known(actions) \o Known(calls)
    BY <1>3, KnownConcat
  <2>2. w = FlattenSeq(Wanted(fired, l, held)) \o Known(Calls(fired[l + (held + 1)]))
    BY <1>1, WantedGrows
  <2> HIDE DEF w, l
  <2> QED
    BY <1>1, <1>2, <2>1, <2>2
<1>5. /\ Wanted(fired, l + n, 0) = <<>> /\ Known(<<>>) = <<>> /\ FlattenSeq(<<>>) = <<>>
      /\ Listed(<<>>)
  <2>1. Known(<<>>) = FlattenSeq(<<>>)
    BY DEF Known
  <2>2. Wanted(fired, l + n, 0) = <<>>
    BY DEF Wanted
  <2> QED
    BY <2>1, <2>2, FlattenEmpty, NoneListed
<1>6. ASSUME NEW ok \in BOOLEAN, NEW sent, Listed(sent),
             sent = IF ok THEN w ELSE <<>>, chan' = chan \o sent,
             heeded' = heeded \o All(n, ok), held' = 0, actions' = <<>>,
             setup.starves \/ ok \/ Garbled(all)
      PROVE  Tallied(k + 1)' /\ Listed(chan') /\ Listed(actions')
  <2> DEFINE more == heeded \o All(n, ok)
  <2>0. PICK h, q : h = heeded /\ q = n
    OBVIOUS
  <2>1. /\ more \in Seq(BOOLEAN) /\ Len(more) = l + n
        /\ \A i \in 1 .. l : more[i] = heeded[i]
        /\ \A i \in 1 .. n : more[l + i] = ok
        /\ Reactions(fired, more) = r \o sent
    <3>1. Heeded(h, q, ok, more)
      BY <1>1, <1>2, <1>6, <2>0 DEF Heeded
    <3> HIDE DEF more, n, l, w, r
    <3>2. /\ more \in Seq(BOOLEAN) /\ Len(more) = Len(h) + q /\ Len(h) \in Nat
          /\ \A i \in 1 .. Len(h) : more[i] = h[i]
          /\ \A i \in 1 .. q : more[Len(h) + i] = ok
          /\ Reactions(fired, more) = Reactions(fired, h)
               \o (IF ok THEN FlattenSeq(Wanted(fired, Len(h), q)) ELSE <<>>)
      <4>1. Sums(fired, h, q, ok, more)
        BY <3>1, ReactionsGrow
      <4> QED
        BY <4>1 DEF Sums
    <3>3. sent = IF ok THEN FlattenSeq(Wanted(fired, Len(h), q)) ELSE <<>>
      BY <1>6, <2>0 DEF w, l
    <3> QED
      BY <2>0, <3>2, <3>3 DEF l, r
  <2>2. applied' \o chan' = r \o sent
    <3>0. Listed(applied) /\ Listed(chan) /\ Listed(sent)
      BY <1>6
    <3>1. (applied \o chan) \o sent = applied \o (chan \o sent)
      BY <3>0, ConcatThree
    <3> HIDE DEF r
    <3> QED
      BY <1>1, <1>6, <3>1
  <2>3. setup.starves \/ \A i \in 1 .. l + n : more[i] \/ Garbled(Calls(fired[i]))
    <3> SUFFICES ASSUME ~setup.starves, NEW i \in 1 .. l + n
                 PROVE  more[i] \/ Garbled(Calls(fired[i]))
      OBVIOUS
    <3>1. held = 0 /\ \A j \in 1 .. l : heeded[j] \/ Garbled(Calls(fired[j]))
      BY <1>1
    <3>2. CASE i \in 1 .. l
      BY <2>1, <3>1, <3>2
    <3>3. CASE i \notin 1 .. l
      <4>1. n = 1 /\ i = l + 1 /\ i = k + 1 /\ 1 \in 1 .. n
        BY <1>1, <1>2, <3>1, <3>3
      <4>2. more[i] = ok
        BY <2>1, <4>1
      <4>3. all = Calls(fired[i])
        <5>1. calls \in Seq(Range(calls))
          BY <1>3 DEF Listed
        <5> QED
          BY <1>1, <3>1, <4>1, <5>1, ConcatEmptySeq
      <4> QED
        BY <1>6, <4>2, <4>3
    <3> QED
      BY <3>2, <3>3
  <2>4. PICK m : m = more
    OBVIOUS
  <2>5. heeded' = m /\ fired' = fired /\ setup' = setup /\ held' = 0 /\ actions' = <<>>
    BY <1>6, <2>4
  <2>6. /\ Reactions(fired, heeded)' = Reactions(fired, m)
        /\ Wanted(fired, Len(heeded), held)' = Wanted(fired, l + n, 0)
        /\ Known(actions)' = Known(<<>>)
    BY <2>1, <2>4, <2>5 DEF Reactions, Wanted, Known
  <2>7. Listed(chan') /\ Listed(actions')
    BY <1>5, <1>6, ListedConcat
  <2>8. /\ m \in Seq(BOOLEAN) /\ Len(m) + 0 = k + 1
        /\ applied' \o chan' = Reactions(fired, m)
        /\ Known(<<>>) = FlattenSeq(Wanted(fired, l + n, 0))
        /\ setup.starves \/ \A i \in 1 .. Len(m) : m[i] \/ Garbled(Calls(fired[i]))
    BY <1>2, <1>5, <2>1, <2>2, <2>3, <2>4
  <2> HIDE DEF l, n, w, r, more
  <2> QED
    BY <2>5, <2>6, <2>7, <2>8 DEF Tallied
<1>7. CASE Drains(all)
  <2>1. /\ chan' = chan \o Parsed(all) /\ actions' = <<>> /\ held' = 0
        /\ heeded' = heeded \o All(n, ~Garbled(all))
    BY <1>7 DEF Drains, Drained
  <2>2. Parsed(all) = IF ~Garbled(all) THEN w ELSE <<>>
    BY <1>4 DEF Parsed
  <2>3. Listed(Parsed(all))
    BY <1>3, KnownListed, NoneListed DEF Parsed
  <2>4. (~Garbled(all)) = TRUE \/ (~Garbled(all)) = FALSE
    BY DEF Garbled
  <2>5. PICK ok : ok = ~Garbled(all)
    OBVIOUS
  <2>6. ok \in BOOLEAN
    BY <2>4, <2>5
  <2> HIDE DEF w, n
  <2> QED
    BY <1>6, <2>1, <2>2, <2>3, <2>5, <2>6
<1>8. CASE setup.starves /\ actions' = <<>> /\ held' = 0 /\ heeded' = heeded \o All(n, FALSE)
             /\ chan' = chan
  <2>1. chan' = chan \o <<>>
    <3>1. chan \in Seq(Range(chan))
      BY DEF Listed
    <3> QED
      BY <1>8, <3>1, ConcatEmptySeq
  <2> HIDE DEF w, n
  <2> QED
    BY <1>5, <1>6, <1>8, <2>1
<1>9. CASE setup.starves /\ actions' = all /\ held' = n /\ heeded' = heeded /\ chan' = chan
  <2>1. /\ Reactions(fired, heeded)' = r
        /\ Wanted(fired, Len(heeded), held)' = Wanted(fired, l, n)
        /\ Known(actions)' = Known(all)
    BY <1>9 DEF Reactions, Wanted, Known
  <2>2. /\ setup' = setup /\ applied' \o chan' = r /\ Known(all) = w
        /\ heeded \in Seq(BOOLEAN) /\ l + n = k + 1 /\ n \in Nat /\ n # 0
    BY <1>1, <1>2, <1>4, <1>9
  <2> HIDE DEF r, n
  <2>3. Tallied(k + 1)'
    BY <1>9, <2>1, <2>2 DEF Tallied
  <2> QED
    BY <1>3, <1>9, <2>3
<1> QED
  BY <1>7, <1>8, <1>9 DEF DrainFails

\* The thread takes the next event it was told of.
LEMMA RunningKeeps ==
  ASSUME ReactionsInv, RunThread, setup' = setup
  PROVE  ReactionsInv'
<1>0. /\ Listed(fired) /\ Listed(msgs) /\ Listed(applied) /\ Listed(chan) /\ Listed(actions)
      /\ Len(fired) \in Nat /\ Len(msgs) \in Nat
  BY LenProperties DEF ReactionsInv, Listed
<1>1. PICK k \in 0 .. Len(fired) : Handled(k)
  BY DEF ReactionsInv
<1>2. /\ thread = "up" /\ msgs # <<>> /\ msgs' = Tail(msgs)
      /\ fired' = fired /\ applied' = applied
  BY DEF RunThread
<1> DEFINE m == Len(fired) - k
<1>3. /\ m \in Nat /\ k + m = Len(fired)
      /\ m <= Len(msgs) /\ (m < Len(msgs) => msgs[m + 1] = NoEvent)
      /\ \A i \in 1 .. m : msgs[i] = fired[k + i] /\ msgs[i] # NoEvent
  BY <1>0, <1>1, <1>2 DEF Handled, Waiting
<1>4. /\ Listed(msgs') /\ Len(msgs') = Len(msgs) - 1 /\ Len(msgs) > 0
      /\ \A i \in 1 .. Len(msgs') : msgs'[i] = msgs[i + 1]
      /\ Head(msgs) = msgs[1]
  <2>1. msgs \in Seq(Range(msgs))
    BY <1>0 DEF Listed
  <2>2. Len(msgs) > 0 /\ Head(msgs) = msgs[1]
    BY <1>2, <2>1
  <2> QED
    BY <1>2, <2>1, <2>2, HeadTailProperties, ListedIs
<1>5. CASE Head(msgs) = NoEvent
  <2>1. thread' = "down" /\ UNCHANGED <<actions, heeded, held, chan>>
    BY <1>5 DEF RunThread
  <2>2. Undrained
    BY <1>2, <2>1 DEF Undrained
  <2>3. Handled(k)'
    BY <1>0, <1>1, <2>1, <2>2, TalliedStays DEF Handled
  <2> QED
    BY <1>0, <1>1, <1>2, <1>4, <2>1, <2>3 DEF ReactionsInv, Listed
<1>6. CASE Head(msgs) # NoEvent
  <2> DEFINE calls == Calls(Head(msgs))
             all == actions \o calls
  <2>1. (Drains(all) \/ DrainFails(all)) /\ thread' = thread
    BY <1>6 DEF RunThread
  <2>2. m > 0
    <3>1. m = 0 => msgs[1] = NoEvent
      BY <1>0, <1>3, <1>4
    <3>2. m # 0
      BY <1>4, <1>6, <3>1
    <3>3. m \in Nat
      BY <1>3
    <3> HIDE DEF m
    <3> QED
      BY <3>2, <3>3
  <2>3. Head(msgs) = fired[k + 1]
    <3>1. 1 \in 1 .. m
      BY <1>3, <2>2
    <3> QED
      BY <1>3, <1>4, <3>1
  <2>4. k + 1 \in 0 .. Len(fired) /\ k < Len(fired) /\ k \in Nat
    BY <1>0, <1>3, <2>2
  <2>5. Tallied(k + 1)' /\ Listed(chan') /\ Listed(actions')
    <3>1. Tallied(k) /\ calls = Calls(fired[k + 1])
      BY <1>1, <2>3 DEF Handled
    <3> HIDE DEF calls
    <3> QED
      BY <1>0, <1>2, <2>1, <2>4, <3>1, DrainTallies
  <2>6. Waiting(k + 1)'
    <3>1. Len(fired') - (k + 1) = m - 1 /\ m - 1 <= Len(msgs')
      BY <1>0, <1>2, <1>3, <1>4
    <3>2. ASSUME m - 1 < Len(msgs') PROVE msgs'[(m - 1) + 1] = NoEvent
      <4>1. m < Len(msgs) /\ m \in 1 .. Len(msgs') /\ (m - 1) + 1 = m
        BY <1>0, <1>3, <1>4, <2>2, <3>2
      <4> QED
        BY <1>3, <1>4, <4>1
    <3>3. ASSUME NEW i \in 1 .. m - 1
          PROVE  msgs'[i] = fired'[(k + 1) + i] /\ msgs'[i] # NoEvent
      <4>1. i + 1 \in 1 .. m /\ i \in 1 .. Len(msgs') /\ (k + 1) + i = k + (i + 1)
        BY <1>0, <1>3, <1>4
      <4>2. msgs'[i] = msgs[i + 1]
        BY <1>4, <4>1
      <4>3. msgs[i + 1] = fired[k + (i + 1)] /\ msgs[i + 1] # NoEvent
        BY <1>3, <4>1
      <4> QED
        BY <1>2, <4>1, <4>2, <4>3
    <3> HIDE DEF m
    <3> QED
      BY <3>1, <3>2, <3>3 DEF Waiting
  <2>7. Handled(k + 1)'
    BY <2>5, <2>6 DEF Handled
  <2> HIDE DEF all, calls
  <2> QED
    BY <1>0, <1>2, <1>4, <2>4, <2>5, <2>7 DEF ReactionsInv, Listed
<1> QED
  BY <1>5, <1>6

\* The first of the channel is applied.
LEMMA ApplyingKeeps ==
  ASSUME ReactionsInv, Apply, setup' = setup
  PROVE  ReactionsInv'
<1>0. Listed(fired) /\ Listed(applied) /\ Listed(chan) /\ Len(fired) \in Nat
  BY LenProperties DEF ReactionsInv, Listed
<1>1. PICK k \in 0 .. Len(fired) : Handled(k)
  BY DEF ReactionsInv
<1>2. /\ chan # <<>> /\ chan' = Tail(chan) /\ applied' = Append(applied, Head(chan))
      /\ UNCHANGED <<msgs, thread, actions, heeded, held, fired>>
  BY DEF Apply
<1> DEFINE T == Range(applied) \cup Range(chan)
<1>3. applied \in Seq(T) /\ chan \in Seq(T)
  BY <1>0, SeqMonotonic DEF Listed
<1> HIDE DEF T
<1>4. /\ applied' \in Seq(T) /\ chan' \in Seq(T)
      /\ applied' \o chan' = applied \o chan
  <2>1. Head(chan) \in T /\ Tail(chan) \in Seq(T)
    BY <1>2, <1>3, HeadTailProperties
  <2>2. applied' \in Seq(T) /\ applied' = applied \o <<Head(chan)>>
    BY <1>2, <1>3, <2>1, AppendProperties, AppendIsConcat
  <2>3. <<Head(chan)>> \in Seq(T) /\ chan = <<Head(chan)>> \o Tail(chan)
    <3>1. <<Head(chan)>> \in Seq(T)
      BY <2>1
    <3>2. chan = <<Head(chan)>> \o Tail(chan)
      BY <1>2, <1>3
    <3> QED
      BY <3>1, <3>2
  <2>4. (applied \o <<Head(chan)>>) \o Tail(chan) = applied \o (<<Head(chan)>> \o Tail(chan))
    BY <1>3, <2>1, <2>3, ConcatAssociative
  <2> QED
    BY <1>2, <2>1, <2>2, <2>3, <2>4
<1>5. Handled(k)'
  <2>1. Undrained
    BY <1>2, <1>4 DEF Undrained
  <2>2. Tallied(k)'
    BY <1>0, <1>1, <2>1, TalliedStays DEF Handled
  <2> QED
    BY <1>1, <1>2, <2>2 DEF Handled, Waiting
<1>6. Listed(applied') /\ Listed(chan')
  BY <1>4, ListedIs
<1> QED
  BY <1>1, <1>2, <1>5, <1>6 DEF ReactionsInv, Listed

\* The last event is fired, and the Shutdown follows.
LEMMA StoppingKeeps ==
  ASSUME ReactionsInv, ServerStop, setup' = setup
  PROVE  ReactionsInv'
<1>0. /\ Listed(fired) /\ Listed(msgs) /\ Listed(applied) /\ Listed(chan) /\ Listed(actions)
      /\ Len(fired) \in Nat /\ Len(msgs) \in Nat
  BY LenProperties DEF ReactionsInv, Listed
<1>1. PICK k \in 0 .. Len(fired) : Handled(k)
  BY DEF ReactionsInv
<1> DEFINE stop == Event("server_stop", 0)
           m == Len(fired) - k
<1>2. /\ thread = "up" /\ \A i \in DOMAIN msgs : msgs[i] # NoEvent
      /\ msgs' = msgs \o <<stop, NoEvent>> /\ fired' = Append(fired, stop)
      /\ UNCHANGED <<thread, actions, heeded, held, chan, applied>>
  BY DEF ServerStop
<1>3. stop # NoEvent
  BY DeskAssumption
<1> HIDE DEF stop
<1>4. /\ Listed(msgs') /\ Len(msgs') = Len(msgs) + 2
      /\ msgs'[Len(msgs) + 1] = stop /\ msgs'[Len(msgs) + 2] = NoEvent
      /\ \A i \in 1 .. Len(msgs) : msgs'[i] = msgs[i]
  <2> DEFINE T == Range(msgs) \cup {stop, NoEvent}
             end == <<stop, NoEvent>>
  <2>1. msgs \in Seq(T) /\ end \in Seq(T) /\ Len(end) = 2 /\ end[1] = stop /\ end[2] = NoEvent
    <3>1. msgs \in Seq(T)
      BY <1>0, SeqMonotonic DEF Listed
    <3>2. end \in Seq(T) /\ Len(end) = 2 /\ end[1] = stop /\ end[2] = NoEvent
      OBVIOUS
    <3> QED
      BY <3>1, <3>2
  <2> HIDE DEF T, end
  <2>2. /\ msgs \o end \in Seq(T) /\ Len(msgs \o end) = Len(msgs) + 2
        /\ \A i \in 1 .. Len(msgs) + 2 :
             (msgs \o end)[i] = IF i <= Len(msgs) THEN msgs[i] ELSE end[i - Len(msgs)]
    <3>1. /\ msgs \o end \in Seq(T) /\ Len(msgs \o end) = Len(msgs) + Len(end)
          /\ \A i \in 1 .. Len(msgs) + Len(end) :
               (msgs \o end)[i] = IF i <= Len(msgs) THEN msgs[i] ELSE end[i - Len(msgs)]
      BY <2>1, ConcatProperties
    <3> QED
      BY <2>1, <3>1
  <2>3. msgs' = msgs \o end
    BY <1>2 DEF end
  <2>4. /\ msgs'[Len(msgs) + 1] = end[1] /\ msgs'[Len(msgs) + 2] = end[2]
        /\ \A i \in 1 .. Len(msgs) : msgs'[i] = msgs[i]
    BY <1>0, <2>2, <2>3
  <2> QED
    BY <2>1, <2>2, <2>3, <2>4, ListedIs
<1>5. /\ Listed(fired') /\ Len(fired') = Len(fired) + 1 /\ fired'[Len(fired) + 1] = stop
      /\ \A i \in 1 .. Len(fired) : fired'[i] = fired[i]
  BY <1>0, <1>2, FirstStays
<1>6. /\ m \in Nat /\ k + m = Len(fired) /\ m = Len(msgs)
      /\ \A i \in 1 .. m : msgs[i] = fired[k + i] /\ msgs[i] # NoEvent
  <2>1. /\ m <= Len(msgs) /\ (m < Len(msgs) => msgs[m + 1] = NoEvent)
        /\ \A i \in 1 .. m : msgs[i] = fired[k + i] /\ msgs[i] # NoEvent
    BY <1>1, <1>2 DEF Handled, Waiting
  <2>2. m \in Nat /\ k + m = Len(fired)
    BY <1>0
  <2>3. DOMAIN msgs = 1 .. Len(msgs)
    BY <1>0, LenProperties DEF Listed
  <2> HIDE DEF m
  <2>4. ~(m < Len(msgs))
    <3>1. m < Len(msgs) => m + 1 \in DOMAIN msgs
      BY <1>0, <2>2, <2>3
    <3> QED
      BY <1>2, <2>1, <3>1
  <2> QED
    BY <1>0, <2>1, <2>2, <2>4
<1>7. ASSUME NEW i \in 1 .. m + 1
      PROVE  msgs'[i] = fired'[k + i] /\ msgs'[i] # NoEvent
  <2>1. CASE i = m + 1
    <3>1. k + i = Len(fired) + 1 /\ i = Len(msgs) + 1
      BY <1>6, <2>1
    <3> QED
      BY <1>3, <1>4, <1>5, <3>1
  <2>2. CASE i # m + 1
    <3>1. i \in 1 .. m /\ i \in 1 .. Len(msgs) /\ k + i \in 1 .. Len(fired)
      <4>0. k \in Nat
        BY <1>0, <1>1
      <4>1. m \in Nat /\ m = Len(msgs) /\ k + m = Len(fired)
        BY <1>6
      <4> HIDE DEF m
      <4>2. i \in 1 .. m
        BY <2>2, <4>1
      <4> QED
        BY <4>0, <4>1, <4>2
    <3> QED
      BY <1>4, <1>5, <1>6, <3>1
  <2> QED
    BY <2>1, <2>2
<1>8. Waiting(k)'
  <2>1. Len(fired') - k = m + 1 /\ m + 1 <= Len(msgs') /\ (m + 1) + 1 = Len(msgs) + 2
    BY <1>0, <1>4, <1>5, <1>6
  <2> HIDE DEF m
  <2> QED
    BY <1>4, <1>7, <2>1 DEF Waiting
<1>9. Handled(k)'
  <2>1. Undrained
    BY <1>2, <1>5 DEF Undrained
  <2> QED
    BY <1>0, <1>1, <1>8, <2>1, TalliedStays DEF Handled
<1>10. k \in 0 .. Len(fired')
  BY <1>0, <1>5
<1> QED
  BY <1>0, <1>2, <1>4, <1>5, <1>9, <1>10 DEF ReactionsInv, Listed

\* Nobody changes how the server is set up.
LEMMA SetupStays ==
  ASSUME Next
  PROVE  setup' = setup
<1>1. ASSUME NEW c \in Clients, Connection(c) PROVE setup' = setup
  <2>1. CASE Writes(c)
    BY <2>1 DEF Writes, WritesOwn, WriterTakes, WriteFails, PollWritePlain, PollWriteEncrypted,
       Drain, srvVars
  <2>2. CASE Client(c)
    BY <2>2 DEF Client, ClientReads, ClientHandles, srvVars
  <2>3. CASE ClientActs(c)
    BY <2>3 DEF ClientActs, ClientStarts, ClientSays, ClientStrays, ClientLeaves, srvVars
  <2>4. CASE Tell(c)
    BY <2>4 DEF Tell, srvVars
  <2>5. CASE Reads(c)
    <3>1. ASSUME NEW phase, NEW frames, Turns(c, phase, frames) PROVE setup' = setup
      BY <3>1 DEF Turns
    <3>2. CASE ReadMore(c) \/ BadFrame(c) \/ Handshake(c)
      BY <3>1, <3>2 DEF ReadMore, BadFrame, Handshake
    <3>3. CASE Status(c)
      BY <3>1, <3>3 DEF Status
    <3>4. CASE Login(c)
      BY <3>1, <3>4 DEF Login
    <3>5. CASE EncryptionHandshake(c) \/ Succeed(c) \/ LoginAcknowledged(c)
      BY <3>1, <3>5 DEF EncryptionHandshake, Succeed, LoginAcknowledged
    <3>6. CASE Configuration(c) \/ TakeFrame(c) \/ Passes(c) \/ EndOfStream(c)
      BY <3>1, <3>6 DEF Configuration, TakeFrame, Passes, EndOfStream
    <3> QED
      BY <2>5, <3>2, <3>3, <3>4, <3>5, <3>6 DEF Reads
  <2> QED
    BY <1>1, <2>1, <2>2, <2>3, <2>4, <2>5 DEF Connection
<1>2. ASSUME NEW c \in Clients, Session(c) PROVE setup' = setup
  <2>1. CASE Finish(c)
    BY <2>1 DEF Finish
  <2>2. CASE Comes(c) \/ Goes(c)
    BY <2>2 DEF Comes, Goes, Join, Leave
  <2>3. CASE handle_chat(c) \/ handle_command(c)
    BY <2>3 DEF handle_chat, handle_command, wireVars, srvVars
  <2> QED
    BY <1>2, <2>1, <2>2, <2>3 DEF Session
<1>3. ASSUME NEW a \in Task, SendOne(a) PROVE setup' = setup
  BY <1>3 DEF SendOne, srvVars
<1>4. CASE RunThread \/ Apply \/ ServerStop
  BY <1>4 DEF RunThread, Apply, ServerStop, wireVars, srvVars
<1>5. ASSUME NEW r \in Request, Panel(r) PROVE setup' = setup
  BY <1>5 DEF Panel, Unauthorized, say, kick, setblock, ReadAi, WriteAi, PanelStays, wireVars,
     srvVars
<1> QED
  BY <1>1, <1>2, <1>3, <1>4, <1>5 DEF Next

\* Nothing but these touches the mods' channels.
LEMMA StepsKeepReactions ==
  ASSUME ReactionsInv, Next
  PROVE  ReactionsInv'
<1>0. setup' = setup
  BY SetupStays
<1>1. ASSUME NEW c \in Clients, Connection(c) PROVE ReactionsInv'
  BY <1>0, <1>1, AsideKeeps DEF Connection, deskVars
<1>2. ASSUME NEW c \in Clients, Session(c) PROVE ReactionsInv'
  <2>1. CASE Finish(c)
    BY <1>0, <2>1, FiringKeeps DEF Finish
  <2>2. CASE Comes(c) \/ Goes(c)
    BY <1>0, <2>2, AsideKeeps DEF Comes, Goes
  <2>3. CASE handle_chat(c) \/ handle_command(c)
    BY <1>0, <2>3, AsideKeeps DEF handle_chat, handle_command
  <2> QED
    BY <1>2, <2>1, <2>2, <2>3 DEF Session
<1>3. ASSUME NEW a \in Task, SendOne(a) PROVE ReactionsInv'
  BY <1>0, <1>3, AsideKeeps DEF SendOne
<1>4. CASE RunThread \/ Apply \/ ServerStop
  BY <1>0, <1>4, RunningKeeps, ApplyingKeeps, StoppingKeeps
<1>5. ASSUME NEW r \in Request, Panel(r) PROVE ReactionsInv'
  <2>1. UNCHANGED modVars
    BY <1>5 DEF Panel, Unauthorized, say, kick, setblock, ReadAi, WriteAi, PanelStays
  <2> QED
    BY <1>0, <2>1, AsideKeeps
<1> QED
  BY <1>1, <1>2, <1>3, <1>4, <1>5 DEF Next

\* What the mods' handlers ask for is carried out once each, in the order of the
\* events and of the handlers, whatever of them throws, and nothing after the
\* Shutdown.  A batch with a string that does not parse is lost whole; while memory
\* lasts nothing else is. (host.rs:163-180, prelude.js:52-81, mod_actions.rs)
THEOREM ReactionsInOrder == Spec => []ReactionsKept
<1>1. Init => ReactionsInv
  <2> SUFFICES ASSUME Init PROVE ReactionsInv
    OBVIOUS
  <2>1. /\ fired = <<>> /\ msgs = <<>> /\ applied = <<>> /\ chan = <<>> /\ actions = <<>>
        /\ heeded = <<>> /\ held = 0
    BY DEF Init, DeskInit
  <2>2. <<>> \in Seq(BOOLEAN) /\ Len(<<>>) = 0 /\ DOMAIN <<>> = {}
    OBVIOUS
  <2>3. Listed(<<>>)
    BY NoneListed
  <2>4. Reactions(<<>>, <<>>) = <<>> /\ Known(<<>>) = <<>>
    BY <2>2, FlattenEmpty DEF Reactions, Known
  <2>5. Wanted(<<>>, 0, 0) = <<>>
    BY DEF Wanted
  <2>6. <<>> \o <<>> = <<>>
    BY <2>2, ConcatEmptySeq
  <2>7. Tallied(0)
    BY <2>1, <2>2, <2>4, <2>5, <2>6, FlattenEmpty DEF Tallied
  <2>8. Handled(0)
    BY <2>1, <2>2, <2>7 DEF Handled, Waiting
  <2> QED
    BY <2>1, <2>2, <2>3, <2>8 DEF ReactionsInv
<1>2. ReactionsInv /\ [Next]_vars => ReactionsInv'
  <2>1. ReactionsInv /\ UNCHANGED vars => ReactionsInv'
    BY AsideKeeps DEF vars, deskVars, wireVars, srvVars
  <2> QED
    BY <2>1, StepsKeepReactions
<1>3. ReactionsInv => ReactionsKept
  BY InOrder
<1> QED
  BY <1>1, <1>2, <1>3, PTL DEF Spec

(***************************************************************************)
(* What becomes of the settings.                                           *)
(***************************************************************************)
settings == <<ai, given, crossed>>

\* Whatever a connection does, and whatever a session does with what it reads,
\* leaves the settings alone.
LEMMA PlayersTouchNone ==
  ASSUME NEW c \in Clients, Connection(c) \/ Session(c)
  PROVE  UNCHANGED settings
<1>1. Connection(c) => UNCHANGED settings
  BY DEF Connection, deskVars, panelVars, settings
<1>2. Finish(c) => UNCHANGED settings
  BY DEF Finish, panelVars, settings
<1>3. Comes(c) \/ Goes(c) => UNCHANGED settings
  BY DEF Comes, Goes, panelVars, settings
<1>4. handle_chat(c) \/ handle_command(c) => UNCHANGED settings
  BY DEF handle_chat, handle_command, panelVars, settings
<1> QED
  BY <1>1, <1>2, <1>3, <1>4 DEF Session

\* Of the panel's requests only the second half of set_ai writes them.
LEMMA OtherRequests ==
  ASSUME NEW r \in Request, Panel(r)
  PROVE  WriteAi(r) \/ UNCHANGED settings
<1>1. PanelStays => UNCHANGED settings
  BY DEF PanelStays, settings
<1>2. Unauthorized(r) \/ say(r) \/ kick(r) \/ setblock(r) \/ ReadAi(r) => PanelStays
  BY DEF Unauthorized, say, kick, setblock, ReadAi
<1> QED
  BY <1>1, <1>2 DEF Panel

\* A request that supplies a field gives it and writes it.  One that does not writes
\* what it read: either the field is still that, or it is noted as crossed.
LEMMA WritingKeeps ==
  ASSUME NEW r \in Request, SettingsKept, WriteAi(r)
  PROVE  SettingsKept'
<1> SUFFICES ASSUME NEW f \in Field PROVE ai'[f] = given'[f] \/ f \in crossed'
  BY DEF SettingsKept
<1> DEFINE cfg == panel[r].cfg
<1>0. ai' = Merged(r, cfg)
  BY DEF WriteAi
<1>1. CASE f \in Supplied(r)
  <2>1. ai'[f] = Requests[r].sets[f]
    BY <1>0, <1>1 DEF Merged
  <2>2. given'[f] = Requests[r].sets[f]
    BY <1>1 DEF WriteAi
  <2> QED
    BY <2>1, <2>2
<1>2. CASE f \notin Supplied(r)
  <2>1. ai'[f] = cfg[f]
    BY <1>0, <1>2 DEF Merged
  <2>2. given'[f] = given[f]
    BY <1>2 DEF WriteAi
  <2>3. crossed' = (crossed \ Supplied(r)) \cup {g \in Field \ Supplied(r) : cfg[g] # ai[g]}
    BY DEF WriteAi
  <2>4. CASE cfg[f] = ai[f]
    BY <2>1, <2>2, <2>3, <2>4, <1>2 DEF SettingsKept
  <2>5. CASE cfg[f] # ai[f]
    BY <2>3, <2>5, <1>2
  <2> QED
    BY <2>4, <2>5
<1> QED
  BY <1>1, <1>2

\* A setting stays what a request last supplied for it, however many requests
\* overlap, unless one that had read it earlier wrote it back. (control.rs, set_ai)
THEOREM SettingsSurvive == Spec => []SettingsKept
<1>1. Init => SettingsKept
  BY DEF Init, DeskInit, SettingsKept
<1>2. SettingsKept /\ [Next]_vars => SettingsKept'
  <2> SUFFICES ASSUME SettingsKept, [Next]_vars PROVE SettingsKept'
    OBVIOUS
  <2>1. UNCHANGED settings => SettingsKept'
    BY DEF settings, SettingsKept
  <2>2. ASSUME NEW c \in Clients, Connection(c) \/ Session(c) PROVE SettingsKept'
    BY <2>1, <2>2, PlayersTouchNone
  <2>3. ASSUME NEW a \in Task, SendOne(a) PROVE SettingsKept'
    BY <2>1, <2>3 DEF SendOne, panelVars, settings
  <2>4. CASE RunThread \/ Apply \/ ServerStop
    BY <2>1, <2>4 DEF RunThread, Apply, ServerStop, panelVars, settings
  <2>5. ASSUME NEW r \in Request, Panel(r) PROVE SettingsKept'
    BY <2>1, <2>5, OtherRequests, WritingKeeps
  <2>6. CASE UNCHANGED vars
    BY <2>1, <2>6 DEF vars, deskVars, panelVars, settings
  <2> QED
    BY <2>2, <2>3, <2>4, <2>5, <2>6 DEF Next
<1> QED
  BY <1>1, <1>2, PTL DEF Spec

(***************************************************************************)
(* Bytes on the way, and what they stand for.                              *)
(***************************************************************************)
ByteOf(Q) == [b : Q, k : Nat]
Letters(bytes) == [i \in DOMAIN bytes |-> bytes[i].b]

LEMMA LettersType ==
  ASSUME NEW Q, NEW bytes \in Seq(ByteOf(Q))
  PROVE  /\ Letters(bytes) \in Seq(Q) /\ Len(Letters(bytes)) = Len(bytes)
         /\ \A i \in 1 .. Len(bytes) : Letters(bytes)[i] = bytes[i].b
<1>1. DOMAIN bytes = 1 .. Len(bytes) /\ Len(bytes) \in Nat
  OBVIOUS
<1>2. Letters(bytes) = [i \in 1 .. Len(bytes) |-> bytes[i].b]
  BY <1>1 DEF Letters
<1>3. \A i \in 1 .. Len(bytes) : bytes[i].b \in Q
  <2>1. \A i \in 1 .. Len(bytes) : bytes[i] \in ByteOf(Q)
    OBVIOUS
  <2> QED
    BY <2>1 DEF ByteOf
<1> QED
  BY <1>1, <1>2, <1>3

LEMMA LettersConcat ==
  ASSUME NEW Q, NEW a \in Seq(ByteOf(Q)), NEW b \in Seq(ByteOf(Q))
  PROVE  Letters(a \o b) = Letters(a) \o Letters(b)
<1>1. a \o b \in Seq(ByteOf(Q)) /\ Len(a \o b) = Len(a) + Len(b)
  BY ConcatProperties
<1>2. Letters(a \o b) \in Seq(Q) /\ Len(Letters(a \o b)) = Len(a) + Len(b)
  BY <1>1, LettersType
<1>3. /\ Letters(a) \in Seq(Q) /\ Letters(b) \in Seq(Q)
      /\ Len(Letters(a)) = Len(a) /\ Len(Letters(b)) = Len(b)
  BY LettersType
<1>4. Letters(a) \o Letters(b) \in Seq(Q) /\ Len(Letters(a) \o Letters(b)) = Len(a) + Len(b)
  <2>1. \A s, t \in Seq(Q) : s \o t \in Seq(Q) /\ Len(s \o t) = Len(s) + Len(t)
    BY ConcatProperties
  <2> QED
    BY <1>3, <2>1
<1>5. ASSUME NEW i \in 1 .. Len(a) + Len(b)
      PROVE  Letters(a \o b)[i] = (Letters(a) \o Letters(b))[i]
  <2>1. Letters(a \o b)[i] = (a \o b)[i].b
    BY <1>1, LettersType
  <2>2. CASE i <= Len(a)
    <3>1. (a \o b)[i] = a[i] /\ i \in 1 .. Len(a)
      BY <2>2
    <3>2. (Letters(a) \o Letters(b))[i] = Letters(a)[i]
      BY <1>3, <2>2
    <3>3. Letters(a)[i] = a[i].b
      BY <3>1, LettersType
    <3> QED
      BY <2>1, <3>1, <3>2, <3>3
  <2>3. CASE ~(i <= Len(a))
    <3>1. (a \o b)[i] = b[i - Len(a)] /\ i - Len(a) \in 1 .. Len(b)
      BY <2>3
    <3>2. (Letters(a) \o Letters(b))[i] = Letters(b)[i - Len(a)]
      BY <1>3, <2>3
    <3>3. Letters(b)[i - Len(a)] = b[i - Len(a)].b
      BY <3>1, LettersType
    <3> QED
      BY <2>1, <3>1, <3>2, <3>3
  <2> QED
    BY <2>2, <2>3
<1> QED
  BY <1>2, <1>4, <1>5, SeqEqual

LEMMA SplitAt ==
  ASSUME NEW S, NEW s \in Seq(S), NEW n \in 0 .. Len(s)
  PROVE  /\ SubSeq(s, 1, n) \in Seq(S) /\ Len(SubSeq(s, 1, n)) = n
         /\ SubSeq(s, n + 1, Len(s)) \in Seq(S) /\ Len(SubSeq(s, n + 1, Len(s))) = Len(s) - n
         /\ SubSeq(s, 1, n) \o SubSeq(s, n + 1, Len(s)) = s
         /\ \A i \in 1 .. n : SubSeq(s, 1, n)[i] = s[i]
         /\ \A i \in 1 .. Len(s) - n : SubSeq(s, n + 1, Len(s))[i] = s[n + i]
<1> DEFINE a == SubSeq(s, 1, n)
           b == SubSeq(s, n + 1, Len(s))
<1>0. Len(s) \in Nat /\ n \in Nat /\ n <= Len(s)
  OBVIOUS
<1>1. a \in Seq(S) /\ Len(a) = n /\ \A i \in 1 .. n : a[i] = s[i]
  BY <1>0
<1>2. b \in Seq(S) /\ Len(b) = Len(s) - n /\ \A i \in 1 .. Len(s) - n : b[i] = s[n + i]
  BY <1>0
<1> HIDE DEF a, b
<1>3. a \o b \in Seq(S) /\ Len(a \o b) = Len(s)
  BY <1>0, <1>1, <1>2
<1>4. ASSUME NEW i \in 1 .. Len(s) PROVE (a \o b)[i] = s[i]
  <2>1. CASE i <= n
    BY <1>0, <1>1, <1>2, <2>1
  <2>2. CASE ~(i <= n)
    <3>1. i - n \in 1 .. Len(s) - n /\ n + (i - n) = i
      BY <1>0, <2>2
    <3>2. (a \o b)[i] = b[i - n]
      BY <1>0, <1>1, <1>2, <2>2
    <3> QED
      BY <1>2, <3>1, <3>2
  <2> QED
    BY <2>1, <2>2
<1>5. a \o b = s
  BY <1>3, <1>4, SeqEqual
<1> QED
  BY <1>1, <1>2, <1>5 DEF a, b

(***************************************************************************)
(* Frames, and lines of them.                                              *)
(***************************************************************************)
PieceOf(O) == [t : {"len", "size", "part", "zip", "junk"}, n : Nat, of : O]
Entry(O) == [packet : O, zip : Int]

\* A frame as a client or the server writes it, or one that does not parse.
FrameOf(e) ==
  IF e.packet = NoPacket THEN <<Piece("len", 1, NoPacket), Junk>> ELSE encode_frame(e.packet, e.zip)
Frames(A) == [i \in DOMAIN A |-> FrameOf(A[i])]
Line(A) == FlattenSeq(Frames(A))

\* The parts of a packet are as many as they say.
LEMMA PartsAre ==
  ASSUME NEW O, NEW p \in O
  PROVE  /\ Parts(p) \in Seq(PieceOf(O)) /\ Len(Parts(p)) \in {1, 3}
         /\ Parts(p)[1] = Piece("part", 1, p)
<1>1. Size(p) \in {1, 3}
  BY DEF Size
<1> HIDE DEF Size
<1>2. \A i \in 1 .. Size(p) : Piece("part", i, p) \in PieceOf(O)
  BY <1>1 DEF Piece, PieceOf
<1> QED
  BY <1>1, <1>2 DEF Parts

\* A frame is its length and so much data.
IsFrame(f, data, O) ==
  /\ data \in Seq(PieceOf(O)) /\ Len(data) > 0
  /\ f = <<Piece("len", Len(data), NoPacket)>> \o data

LEMMA FrameShape ==
  ASSUME NEW O, NoPacket \in O, NEW f, NEW data, IsFrame(f, data, O)
  PROVE  /\ f \in Seq(PieceOf(O)) /\ Len(f) = Len(data) + 1 /\ Tail(f) = data
         /\ f[1].t = "len" /\ f[1].n = Len(data)
<1> DEFINE h == Piece("len", Len(data), NoPacket)
<1>1. data \in Seq(PieceOf(O)) /\ Len(data) \in Nat /\ f = <<h>> \o data
  BY DEF IsFrame
<1>2. h \in PieceOf(O) /\ h.t = "len" /\ h.n = Len(data)
  BY <1>1 DEF Piece, PieceOf
<1> HIDE DEF h
<1>3. f \in Seq(PieceOf(O)) /\ Len(f) = Len(data) + 1 /\ Tail(f) = data /\ f[1] = h
  BY <1>1, <1>2
<1> QED
  BY <1>2, <1>3

LEMMA FrameIs ==
  ASSUME NEW O, NoPacket \in O, NEW e \in Entry(O)
  PROVE  \E data : IsFrame(FrameOf(e), data, O)
<1> DEFINE p == e.packet
           z == e.zip
<1>1. p \in O /\ z \in Int
  BY DEF Entry
<1>2. CASE p = NoPacket
  <2>1. Junk \in PieceOf(O)
    BY DEF Junk, Piece, PieceOf
  <2> DEFINE d == <<Junk>>
  <2>2. d \in Seq(PieceOf(O)) /\ Len(d) = 1
    BY <2>1
  <2>3. FrameOf(e) = <<Piece("len", 1, NoPacket)>> \o d
    BY <1>2, <2>1 DEF FrameOf
  <2>4. IsFrame(FrameOf(e), d, O)
    <3> HIDE DEF d
    <3> QED
      BY <2>2, <2>3 DEF IsFrame
  <2> QED
    BY <2>4
<1>3. CASE p # NoPacket
  <2> DEFINE parts == Parts(p)
             s(n) == <<Piece("size", n, NoPacket)>>
             data == IF z < 0 THEN parts
                     ELSE IF z > Size(p) THEN s(0) \o parts ELSE s(Size(p)) \o Squeezed(p)
  <2>0. Size(p) \in {1, 3}
    BY DEF Size
  <2>1. parts \in Seq(PieceOf(O)) /\ Len(parts) \in {1, 3}
    BY <1>1, PartsAre
  <2>2. \A n \in Nat : s(n) \in Seq(PieceOf(O)) /\ Len(s(n)) = 1
    BY DEF Piece, PieceOf
  <2>3. Squeezed(p) \in Seq(PieceOf(O)) /\ Len(Squeezed(p)) = 1
    BY <1>1 DEF Squeezed, Piece, PieceOf
  <2>4. encode_frame(p, z) = <<Piece("len", Len(data), NoPacket)>> \o data
    BY <1>1, <2>0 DEF encode_frame
  <2> HIDE DEF parts, s
  <2>5. data \in Seq(PieceOf(O)) /\ Len(data) > 0
    <3>0. \A a, b \in Seq(PieceOf(O)) : Len(a) = 1 => a \o b \in Seq(PieceOf(O)) /\ Len(a \o b) > 0
      OBVIOUS
    <3>1. s(0) \o parts \in Seq(PieceOf(O)) /\ Len(s(0) \o parts) > 0
      BY <2>1, <2>2, <3>0
    <3>2. s(Size(p)) \o Squeezed(p) \in Seq(PieceOf(O)) /\ Len(s(Size(p)) \o Squeezed(p)) > 0
      BY <2>0, <2>2, <2>3, <3>0
    <3>3. parts \in Seq(PieceOf(O)) /\ Len(parts) > 0
      BY <2>1
    <3> QED
      BY <3>1, <3>2, <3>3
  <2> HIDE DEF data
  <2> QED
    BY <1>3, <2>4, <2>5 DEF FrameOf, IsFrame
<1> QED
  BY <1>2, <1>3

(***************************************************************************)
(* Lines of frames.                                                        *)
(***************************************************************************)
LEMMA FramesType ==
  ASSUME NEW O, NoPacket \in O, NEW A \in Seq(Entry(O))
  PROVE  Frames(A) \in Seq(Seq(PieceOf(O))) /\ Len(Frames(A)) = Len(A)
<1>1. \A i \in 1 .. Len(A) : FrameOf(A[i]) \in Seq(PieceOf(O))
  <2> TAKE i \in 1 .. Len(A)
  <2>1. A[i] \in Entry(O)
    OBVIOUS
  <2>2. PICK data : IsFrame(FrameOf(A[i]), data, O)
    BY <2>1, FrameIs
  <2> QED
    BY <2>2, FrameShape
<1>2. DOMAIN A = 1 .. Len(A) /\ Len(A) \in Nat
  OBVIOUS
<1> QED
  BY <1>1, <1>2 DEF Frames

LEMMA LineType ==
  ASSUME NEW O, NoPacket \in O, NEW A \in Seq(Entry(O))
  PROVE  Line(A) \in Seq(PieceOf(O))
  BY FramesType, FlattenType DEF Line

LEMMA LineNone == Line(<<>>) = <<>>
  BY FlattenEmpty DEF Line, Frames

LEMMA LineConcat ==
  ASSUME NEW O, NoPacket \in O, NEW A \in Seq(Entry(O)), NEW B \in Seq(Entry(O))
  PROVE  Line(A \o B) = Line(A) \o Line(B)
<1>1. /\ Frames(A) \in Seq(Seq(PieceOf(O))) /\ Len(Frames(A)) = Len(A)
      /\ Frames(B) \in Seq(Seq(PieceOf(O))) /\ Len(Frames(B)) = Len(B)
  BY FramesType
<1>2. A \o B \in Seq(Entry(O)) /\ Len(A \o B) = Len(A) + Len(B)
  BY ConcatProperties
<1>3. Frames(A \o B) \in Seq(Seq(PieceOf(O))) /\ Len(Frames(A \o B)) = Len(A) + Len(B)
  BY <1>2, FramesType
<1>4. Frames(A) \o Frames(B) \in Seq(Seq(PieceOf(O))) /\ Len(Frames(A) \o Frames(B)) = Len(A) + Len(B)
  <2> DEFINE S == Seq(PieceOf(O))
             a == Frames(A)
             b == Frames(B)
  <2>1. a \in Seq(S) /\ b \in Seq(S)
    BY <1>1
  <2> HIDE DEF S, a, b
  <2>2. a \o b \in Seq(S) /\ Len(a \o b) = Len(a) + Len(b)
    BY <2>1, ConcatProperties
  <2> QED
    BY <1>1, <2>2 DEF S, a, b
<1>5. ASSUME NEW i \in 1 .. Len(A) + Len(B)
      PROVE  Frames(A \o B)[i] = (Frames(A) \o Frames(B))[i]
  <2>0. /\ DOMAIN A = 1 .. Len(A) /\ DOMAIN B = 1 .. Len(B) /\ DOMAIN (A \o B) = 1 .. Len(A) + Len(B)
        /\ Len(A) \in Nat /\ Len(B) \in Nat
    BY <1>2
  <2>1. Frames(A \o B)[i] = FrameOf((A \o B)[i])
    BY <2>0 DEF Frames
  <2>2. (Frames(A) \o Frames(B))[i] = IF i <= Len(A) THEN Frames(A)[i] ELSE Frames(B)[i - Len(A)]
    BY <1>1, ConcatProperties
  <2>3. (A \o B)[i] = IF i <= Len(A) THEN A[i] ELSE B[i - Len(A)]
    BY ConcatProperties
  <2>4. CASE i <= Len(A)
    <3>1. i \in DOMAIN A
      BY <2>0, <2>4
    <3>2. Frames(A)[i] = FrameOf(A[i])
      BY <3>1 DEF Frames
    <3> QED
      BY <2>1, <2>2, <2>3, <2>4, <3>2
  <2>5. CASE ~(i <= Len(A))
    <3>1. i - Len(A) \in DOMAIN B
      BY <2>0, <2>5
    <3>2. Frames(B)[i - Len(A)] = FrameOf(B[i - Len(A)])
      BY <3>1 DEF Frames
    <3> QED
      BY <2>1, <2>2, <2>3, <2>5, <3>2
  <2> QED
    BY <2>4, <2>5
<1>6. Frames(A \o B) = Frames(A) \o Frames(B)
  BY <1>3, <1>4, <1>5, SeqEqual
<1> QED
  BY <1>1, <1>6, FlattenConcat DEF Line

LEMMA LineOne ==
  ASSUME NEW O, NoPacket \in O, NEW e \in Entry(O)
  PROVE  Line(<<e>>) = FrameOf(e) /\ FrameOf(e) \in Seq(PieceOf(O)) /\ FrameOf(e) # <<>>
<1>1. PICK data : IsFrame(FrameOf(e), data, O)
  BY FrameIs
<1>2. /\ FrameOf(e) \in Seq(PieceOf(O)) /\ Len(FrameOf(e)) = Len(data) + 1
      /\ Len(data) \in Nat
  BY <1>1, FrameShape DEF IsFrame
<1>3. FrameOf(e) # <<>>
  BY <1>2
<1>4. Frames(<<e>>) = <<FrameOf(e)>>
  BY DEF Frames
<1> QED
  BY <1>2, <1>3, <1>4, FlattenOne DEF Line

LEMMA LineFirst ==
  ASSUME NEW O, NoPacket \in O, NEW A \in Seq(Entry(O)), A # <<>>
  PROVE  /\ A[1] \in Entry(O) /\ Tail(A) \in Seq(Entry(O))
         /\ Line(A) = FrameOf(A[1]) \o Line(Tail(A))
<1>1. A[1] \in Entry(O) /\ Tail(A) \in Seq(Entry(O)) /\ A = <<A[1]>> \o Tail(A) /\ <<A[1]>> \in Seq(Entry(O))
  OBVIOUS
<1>2. Line(<<A[1]>> \o Tail(A)) = Line(<<A[1]>>) \o Line(Tail(A))
  BY <1>1, LineConcat
<1> QED
  BY <1>1, <1>2, LineOne

\* All of a frame is about its packet, and its first byte says how long it is.
LEMMA FramePieces ==
  ASSUME NEW O, NoPacket \in O, NEW e \in Entry(O)
  PROVE  /\ FrameOf(e) \in Seq(PieceOf(O)) /\ Len(FrameOf(e)) > 1
         /\ FrameOf(e)[1].t = "len" /\ FrameOf(e)[1].n = Len(FrameOf(e)) - 1
         /\ \A i \in 1 .. Len(FrameOf(e)) : FrameOf(e)[i].of \in {NoPacket, e.packet}
<1> DEFINE P == {NoPacket, e.packet}
           f == FrameOf(e)
<1>1. NoPacket \in P /\ e \in Entry(P)
  BY DEF Entry
<1> HIDE DEF P
<1>2. PICK data : IsFrame(f, data, P)
  BY <1>1, FrameIs
<1>3. data \in Seq(PieceOf(P)) /\ Len(data) > 0 /\ Len(data) \in Nat
  BY <1>2 DEF IsFrame
<1>4. /\ f \in Seq(PieceOf(P)) /\ Len(f) = Len(data) + 1
      /\ f[1].t = "len" /\ f[1].n = Len(data)
  <2> HIDE DEF f
  <2> QED
    BY <1>1, <1>2, <1>3, FrameShape
<1>5. f \in Seq(PieceOf(O))
  BY LineOne
<1>6. \A i \in 1 .. Len(f) : f[i].of \in P
  <2>1. \A i \in 1 .. Len(f) : f[i] \in PieceOf(P)
    BY <1>4
  <2> QED
    BY <2>1 DEF PieceOf
<1> QED
  BY <1>3, <1>4, <1>5, <1>6 DEF P

LEMMA WholeFirst ==
  ASSUME NEW s, Whole(s) # NoPacket
  PROVE  s # <<>> /\ Whole(s) = s[1].of
  BY DEF Whole

\* Decoding finds a packet one of the bytes is about, or none.
LEMMA DecodesPiece ==
  ASSUME NEW S, NEW f \in Seq(S), Len(f) > 1, NEW zip \in Int, decode_frame(f, zip) # NoPacket
  PROVE  /\ f[1].t = "len"
         /\ \E i \in 1 .. Len(f) : decode_frame(f, zip) = f[i].of
<1> DEFINE d == Tail(f)
<1>0. Len(f) \in Nat
  OBVIOUS
<1>1. d \in Seq(S) /\ Len(d) = Len(f) - 1 /\ \A i \in 1 .. Len(d) : d[i] = f[i + 1]
  OBVIOUS
<1> HIDE DEF d
<1>2. Len(d) > 1 => d[2] = f[3] /\ 3 \in 1 .. Len(f)
  BY <1>0, <1>1
<1>3. d # <<>> /\ d[1] = f[2] /\ 2 \in 1 .. Len(f)
  BY <1>0, <1>1
<1>4. Tail(d) # <<>> => Tail(d)[1] = f[3] /\ 3 \in 1 .. Len(f)
  <2>1. d \in Seq(S) /\ d # <<>>
    BY <1>1, <1>3
  <2>2. ASSUME Tail(d) # <<>> PROVE Len(d) > 1 /\ Tail(d)[1] = d[2]
    BY <2>1, <2>2
  <2> QED
    BY <1>2, <2>2
<1>5. /\ Whole(d) = NoPacket \/ Whole(d) = f[2].of
      /\ Whole(Tail(d)) = NoPacket \/ (Whole(Tail(d)) = f[3].of /\ 3 \in 1 .. Len(f))
  BY <1>3, <1>4, WholeFirst
<1>6. \/ decode_frame(f, zip) = Whole(d)
      \/ decode_frame(f, zip) = Whole(Tail(d))
      \/ decode_frame(f, zip) = d[2].of /\ Len(d) > 1
  <2>1. CASE f[1].t = "len" /\ zip < 0
    BY <2>1 DEF decode_frame, d
  <2>2. CASE f[1].t = "len" /\ ~(zip < 0) /\ d[1].t = "size" /\ d[1].n = 0
    BY <1>3, <2>2 DEF decode_frame, d
  <2>3. CASE f[1].t = "len" /\ ~(zip < 0) /\ d[1].t = "size" /\ d[1].n # 0 /\ Len(d) > 1 /\ d[2].t = "zip"
    BY <1>3, <2>3 DEF decode_frame, d
  <2>4. CASE \/ f[1].t # "len"
             \/ ~(zip < 0) /\ d[1].t # "size"
             \/ ~(zip < 0) /\ d[1].n # 0 /\ ~(Len(d) > 1 /\ d[2].t = "zip")
    BY <2>4 DEF decode_frame, d
  <2> QED
    BY <2>1, <2>2, <2>3, <2>4
<1>7. f[1].t = "len"
  BY DEF decode_frame
<1> QED
  BY <1>2, <1>3, <1>5, <1>6, <1>7

(***************************************************************************)
(* What is read.  Whatever has become of the ciphers, a byte is read as it *)
(* was written or cannot be made out, and a frame as its packet or not at  *)
(* all.                                                                    *)
(***************************************************************************)
Near(s, t, n) == \A i \in 1 .. n : s[i] = t[i] \/ s[i] = Junk
Blurs(s, t) == Len(s) = Len(t) /\ Near(s, t, Len(t))

LEMMA JunkIs == ASSUME NEW O, NoPacket \in O PROVE Junk \in PieceOf(O)
  BY DEF Junk, Piece, PieceOf

\* A stretch of the line is read.
LEMMA BlursMore ==
  ASSUME NEW Q, NEW x \in Seq(Q), NEW y \in Seq(Q), NEW z \in Seq(Q), NEW d \in Seq(Q),
         Blurs(d, y), NEW t, Blurs(x \o (y \o z), t)
  PROVE  Blurs((x \o d) \o z, t) /\ x \o d \in Seq(Q)
<1> DEFINE s == x \o (y \o z)
           r == (x \o d) \o z
           a == Len(x)
           b == Len(y)
           m == Len(z)
<1>0. a \in Nat /\ b \in Nat /\ m \in Nat /\ Len(d) = b
  BY DEF Blurs, Near
<1>1. y \o z \in Seq(Q) /\ x \o d \in Seq(Q) /\ Len(y \o z) = b + m /\ Len(x \o d) = a + b
  <2> HIDE DEF s, r
  <2>1. y \o z \in Seq(Q) /\ Len(y \o z) = b + m
    BY ConcatProperties
  <2>2. x \o d \in Seq(Q) /\ Len(x \o d) = a + Len(d)
    BY ConcatProperties
  <2> QED
    BY <1>0, <2>1, <2>2
<1>2. Len(s) = a + (b + m) /\ Len(r) = (a + b) + m
  <2>1. Len(s) = a + Len(y \o z)
    BY <1>1, ConcatProperties
  <2>2. Len(r) = Len(x \o d) + m
    BY <1>1, ConcatProperties
  <2> QED
    BY <1>1, <2>1, <2>2
<1>3. ASSUME NEW i \in 1 .. a + b + m PROVE r[i] = s[i] \/ r[i] = Junk
  <2>1. CASE i <= a
    <3>1. i \in 1 .. a /\ i <= a + b /\ i \in 1 .. (a + b) /\ i \in 1 .. (a + b) + m /\ i \in 1 .. a + (b + m)
      BY <1>0, <2>1
    <3>2. s[i] = x[i]
      BY <1>1, <3>1, ConcatProperties
    <3>3. r[i] = (x \o d)[i]
      BY <1>1, <3>1, ConcatProperties
    <3>4. (x \o d)[i] = x[i]
      BY <1>0, <3>1, ConcatProperties
    <3> QED
      BY <3>2, <3>3, <3>4
  <2>2. CASE ~(i <= a) /\ i <= a + b
    <3>1. /\ ~(i <= a) /\ i - a \in 1 .. b /\ i - a <= b /\ i - a \in 1 .. b + m /\ i <= a + b
          /\ i \in 1 .. a + b /\ i \in 1 .. (a + b) + m /\ i \in 1 .. a + (b + m)
      BY <1>0, <2>2
    <3>2. s[i] = (y \o z)[i - a]
      BY <1>1, <3>1, ConcatProperties
    <3>3. (y \o z)[i - a] = y[i - a]
      BY <1>0, <3>1, ConcatProperties
    <3>4. r[i] = (x \o d)[i]
      BY <1>1, <3>1, ConcatProperties
    <3>5. (x \o d)[i] = d[i - a]
      BY <1>0, <3>1, ConcatProperties
    <3>6. d[i - a] = y[i - a] \/ d[i - a] = Junk
      BY <3>1 DEF Blurs, Near
    <3> QED
      BY <3>2, <3>3, <3>4, <3>5, <3>6
  <2>3. CASE ~(i <= a + b)
    <3>1. /\ ~(i <= a) /\ i - a \in 1 .. b + m /\ ~(i - a <= b) /\ ~(i <= a + b)
          /\ i \in 1 .. (a + b) + m /\ i \in 1 .. a + (b + m) /\ (i - a) - b = i - (a + b)
      BY <1>0, <2>3
    <3>2. s[i] = (y \o z)[i - a]
      BY <1>1, <3>1, ConcatProperties
    <3>3. (y \o z)[i - a] = z[(i - a) - b]
      BY <1>0, <3>1, ConcatProperties
    <3>4. r[i] = z[i - (a + b)]
      BY <1>1, <3>1, ConcatProperties
    <3> QED
      BY <3>1, <3>2, <3>3, <3>4
  <2> QED
    BY <2>1, <2>2, <2>3
<1>4. Len(t) = a + b + m /\ a + (b + m) = a + b + m /\ (a + b) + m = a + b + m
  BY <1>0, <1>2 DEF Blurs, Near
<1>5. \A i \in 1 .. Len(t) : s[i] = t[i] \/ s[i] = Junk
  BY DEF Blurs, Near
<1> HIDE DEF s, r
<1>6. Len(r) = Len(t) /\ \A i \in 1 .. Len(t) : r[i] = t[i] \/ r[i] = Junk
  BY <1>2, <1>3, <1>4, <1>5
<1> QED
  BY <1>1, <1>6 DEF Blurs, Near, r

LEMMA DecipherBlurs ==
  ASSUME NEW O, NoPacket \in O, NEW bytes \in Seq(ByteOf(PieceOf(O))), NEW secret, NEW iv
  PROVE  /\ Decipher(secret, iv, bytes) \in Seq(PieceOf(O))
         /\ Blurs(Decipher(secret, iv, bytes), Letters(bytes))
<1> DEFINE d == Decipher(secret, iv, bytes)
           Q == PieceOf(O)
           ok(i) == IF secret THEN bytes[i].k > 0 /\ Fed(iv, SubSeq(bytes, 1, i - 1)) = RegisterAt(bytes[i].k)
                    ELSE bytes[i].k = 0
<1>0. Len(bytes) \in Nat /\ DOMAIN bytes = 1 .. Len(bytes)
  OBVIOUS
<1>1. d = [i \in 1 .. Len(bytes) |-> IF ok(i) THEN bytes[i].b ELSE Junk]
  BY <1>0 DEF Decipher, Cfb8Decrypt
<1>2. Letters(bytes) \in Seq(Q) /\ Len(Letters(bytes)) = Len(bytes) /\ \A i \in 1 .. Len(bytes) : Letters(bytes)[i] = bytes[i].b
  BY LettersType
<1>3. Junk \in Q
  BY JunkIs
<1> HIDE DEF ok, Q
<1>4. \A i \in 1 .. Len(bytes) : bytes[i].b \in Q
  BY <1>0, <1>2
<1>5. d \in Seq(Q) /\ Len(d) = Len(bytes) /\ \A i \in 1 .. Len(bytes) : d[i] = Letters(bytes)[i] \/ d[i] = Junk
  BY <1>0, <1>1, <1>2, <1>3, <1>4
<1> QED
  BY <1>2, <1>5 DEF Blurs, Near, Q

\* z is x, p long, and then y, q long.
Follows(x, p, y, q, z) ==
  /\ p \in Nat /\ q \in Nat
  /\ \A i \in 1 .. p : z[i] = x[i]
  /\ \A i \in 1 .. q : z[p + i] = y[i]

LEMMA ConcatFollows ==
  ASSUME NEW S, NEW s \in Seq(S), NEW t \in Seq(S)
  PROVE  /\ s \o t \in Seq(S) /\ Len(s \o t) = Len(s) + Len(t)
         /\ Follows(s, Len(s), t, Len(t), s \o t)
  BY ConcatIs DEF Follows

LEMMA SplitFollows ==
  ASSUME NEW S, NEW s \in Seq(S), NEW n \in 0 .. Len(s)
  PROVE  /\ SubSeq(s, 1, n) \in Seq(S) /\ Len(SubSeq(s, 1, n)) = n
         /\ SubSeq(s, n + 1, Len(s)) \in Seq(S) /\ Len(SubSeq(s, n + 1, Len(s))) = Len(s) - n
         /\ Follows(SubSeq(s, 1, n), n, SubSeq(s, n + 1, Len(s)), Len(s) - n, s)
<1>1. n \in Nat /\ Len(s) - n \in Nat
  OBVIOUS
<1> QED
  BY <1>1, SplitAt DEF Follows

\* Place by place: what is read of got and r, read of f and l, is read of each apart.
AllPlaced(g, n, m, k, got, r, s, f, l, t, a, b, w) ==
  /\ g \in Nat /\ n \in Nat /\ n <= g /\ m \in Nat /\ k \in Nat /\ g + m = n + k
  /\ Follows(got, g, r, m, s) /\ Follows(f, n, l, k, t)
  /\ Follows(a, n, b, g - n, got) /\ Follows(b, g - n, r, m, w)
  /\ Near(s, t, n + k)

LEMMA PlacesApart ==
  ASSUME NEW g, NEW n, NEW m, NEW k, NEW got, NEW r, NEW s, NEW f, NEW l, NEW t,
         NEW a, NEW b, NEW w, AllPlaced(g, n, m, k, got, r, s, f, l, t, a, b, w)
  PROVE  Near(a, f, n) /\ Near(w, l, k) /\ (g - n) + m = k
<1>0. /\ g \in Nat /\ n \in Nat /\ n <= g /\ m \in Nat /\ k \in Nat /\ g + m = n + k
      /\ Follows(got, g, r, m, s) /\ Follows(f, n, l, k, t)
      /\ Follows(a, n, b, g - n, got) /\ Follows(b, g - n, r, m, w)
      /\ Near(s, t, n + k)
  BY DEF AllPlaced
<1>1. (g - n) + m = k /\ g - n \in Nat
  BY <1>0
<1>2. ASSUME NEW i \in 1 .. n PROVE a[i] = f[i] \/ a[i] = Junk
  <2>1. i \in 1 .. g /\ i \in 1 .. n + k
    BY <1>0
  <2>2. s[i] = got[i] /\ t[i] = f[i] /\ got[i] = a[i]
    BY <1>0, <2>1 DEF Follows
  <2> QED
    BY <1>0, <2>1, <2>2 DEF Near
<1>3. ASSUME NEW i \in 1 .. k PROVE w[i] = l[i] \/ w[i] = Junk
  <2>1. n + i \in 1 .. n + k /\ t[n + i] = l[i]
    BY <1>0 DEF Follows
  <2>2. CASE i <= g - n
    <3>1. i \in 1 .. g - n /\ n + i \in 1 .. g
      BY <1>0, <1>1, <2>2
    <3>2. w[i] = b[i] /\ got[n + i] = b[i] /\ s[n + i] = got[n + i]
      BY <1>0, <3>1 DEF Follows
    <3> QED
      BY <1>0, <2>1, <3>2 DEF Near
  <2>3. CASE ~(i <= g - n)
    <3> DEFINE j == i - (g - n)
    <3>1. j \in 1 .. m /\ (g - n) + j = i /\ g + j = n + i
      BY <1>0, <1>1, <2>3
    <3> HIDE DEF j
    <3>2. w[(g - n) + j] = r[j] /\ s[g + j] = r[j]
      BY <1>0, <3>1 DEF Follows
    <3> QED
      BY <1>0, <2>1, <3>1, <3>2 DEF Near
  <2> QED
    BY <2>2, <2>3
<1> QED
  BY <1>1, <1>2, <1>3 DEF Near

\* A front that is as long as a front of the line is read of it, the rest of the rest.
ReadsOf(x, y, u, v) == Blurs(x \o y, u \o v)

LEMMA BlursFront ==
  ASSUME NEW Q, NEW got \in Seq(Q), NEW r \in Seq(Q), NEW f \in Seq(Q), NEW l \in Seq(Q),
         ReadsOf(got, r, f, l), Len(f) <= Len(got)
  PROVE  /\ Blurs(SubSeq(got, 1, Len(f)), f) /\ SubSeq(got, 1, Len(f)) \in Seq(Q)
         /\ Blurs(SubSeq(got, Len(f) + 1, Len(got)) \o r, l)
         /\ SubSeq(got, Len(f) + 1, Len(got)) \in Seq(Q)
<1> DEFINE n == Len(f)
           g == Len(got)
           m == Len(r)
           k == Len(l)
           s == got \o r
           t == f \o l
           a == SubSeq(got, 1, n)
           b == SubSeq(got, n + 1, g)
           w == b \o r
<1>1. /\ n \in Nat /\ g \in Nat /\ m \in Nat /\ k \in Nat /\ n <= g
      /\ got \in Seq(Q) /\ r \in Seq(Q) /\ f \in Seq(Q) /\ l \in Seq(Q)
  OBVIOUS
<1>2. Len(s) = g + m /\ Follows(got, g, r, m, s)
  BY ConcatFollows
<1>3. Len(t) = n + k /\ Follows(f, n, l, k, t)
  BY ConcatFollows
<1>4. Len(s) = Len(t) /\ Near(s, t, Len(t))
  BY DEF ReadsOf, Blurs
<1>5. /\ a \in Seq(Q) /\ Len(a) = n /\ b \in Seq(Q) /\ Len(b) = g - n
      /\ Follows(a, n, b, g - n, got)
  <2>1. n \in 0 .. g
    BY <1>1
  <2> QED
    BY <2>1, SplitFollows
<1> HIDE DEF a, b
<1>6. Len(w) = Len(b) + m /\ Follows(b, Len(b), r, m, w)
  BY <1>5, ConcatFollows
<1> HIDE DEF n, g, m, k, s, t, w
<1>7. g + m = n + k /\ Near(s, t, n + k)
  BY <1>2, <1>3, <1>4
<1>8. Follows(b, g - n, r, m, w)
  BY <1>5, <1>6
<1>9. Near(a, f, n) /\ Near(w, l, k) /\ (g - n) + m = k
  <2>1. AllPlaced(g, n, m, k, got, r, s, f, l, t, a, b, w)
    BY <1>1, <1>2, <1>3, <1>5, <1>7, <1>8 DEF AllPlaced
  <2> QED
    BY <2>1, PlacesApart
<1>10. Len(w) = k
  BY <1>5, <1>6, <1>9
<1>11. Blurs(a, f)
  BY <1>5, <1>9 DEF Blurs, Near, n
<1>12. Blurs(w, l)
  BY <1>9, <1>10 DEF Blurs, Near, k
<1> QED
  BY <1>5, <1>11, <1>12 DEF a, b, w, n, g

\* The whole frame at the front is the first of the line, or cannot be made out.
LEMMA FrontIs ==
  ASSUME NEW O, NoPacket \in O, NEW A \in Seq(Entry(O)), NEW got \in Seq(PieceOf(O)),
         NEW r \in Seq(PieceOf(O)), Blurs(got \o r, Line(A)), got # <<>>, got[1].t = "len",
         NEW n, n = got[1].n + 1, n <= Len(got), NEW zip \in Int
  PROVE  /\ A # <<>> /\ A[1] \in Entry(O) /\ Tail(A) \in Seq(Entry(O))
         /\ decode_frame(SubSeq(got, 1, n), zip) \in {NoPacket, A[1].packet}
         /\ SubSeq(got, n + 1, Len(got)) \in Seq(PieceOf(O))
         /\ Blurs(SubSeq(got, n + 1, Len(got)) \o r, Line(Tail(A)))
<1> DEFINE s == got \o r
           Q == PieceOf(O)
           f == FrameOf(A[1])
           l == Line(Tail(A))
           t == Line(A)
           a == SubSeq(got, 1, n)
           b == SubSeq(got, n + 1, Len(got))
           w == b \o r
<1>1. got \in Seq(Q) /\ r \in Seq(Q) /\ s = got \o r /\ Blurs(s, t)
  OBVIOUS
<1>2. Len(s) = Len(got) + Len(r) /\ Len(got) \in Nat /\ Len(got) > 0 /\ Len(r) \in Nat /\ s[1] = got[1]
  OBVIOUS
<1>3. A # <<>>
  <2>1. Len(t) > 0
    BY <1>2 DEF Blurs, Near
  <2> QED
    BY <2>1, LineNone
<1>4. A[1] \in Entry(O) /\ Tail(A) \in Seq(Entry(O)) /\ t = f \o l
  BY <1>3, LineFirst
<1>5. /\ f \in Seq(Q) /\ Len(f) > 1 /\ f[1].t = "len" /\ f[1].n = Len(f) - 1
      /\ \A i \in 1 .. Len(f) : f[i].of \in {NoPacket, A[1].packet}
  BY <1>4, FramePieces
<1>6. l \in Seq(Q)
  BY <1>4, LineType
<1> HIDE DEF Q, f, l, t, s
<1>7. Len(f) \in Nat /\ t[1] = f[1] /\ 1 \in 1 .. Len(t)
  <2>1. /\ Len(t) = Len(f) + Len(l) /\ Len(f) \in Nat /\ Len(l) \in Nat
        /\ \A i \in 1 .. Len(f) : t[i] = f[i]
    BY <1>4, <1>5, <1>6, ConcatIs
  <2> QED
    BY <1>5, <2>1
<1>8. n = Len(f)
  <2>1. s[1] = t[1] \/ s[1] = Junk
    BY <1>1, <1>7 DEF Blurs, Near
  <2>2. got[1] # Junk
    BY DEF Junk, Piece
  <2>3. got[1] = f[1]
    BY <1>2, <1>7, <2>1, <2>2
  <2> QED
    BY <1>5, <1>7, <2>3
<1> HIDE DEF a, b, w
<1>9. Blurs(a, f) /\ Blurs(w, l) /\ a \in Seq(Q) /\ b \in Seq(Q)
  <2>1. /\ got \in Seq(Q) /\ r \in Seq(Q) /\ f \in Seq(Q) /\ l \in Seq(Q)
        /\ ReadsOf(got, r, f, l) /\ Len(f) <= Len(got)
    BY <1>1, <1>4, <1>5, <1>6, <1>8 DEF ReadsOf
  <2> QED
    BY <1>8, <2>1, BlursFront DEF a, b, w
<1>10. decode_frame(a, zip) \in {NoPacket, A[1].packet}
  <2> SUFFICES ASSUME decode_frame(a, zip) # NoPacket PROVE decode_frame(a, zip) = A[1].packet
    OBVIOUS
  <2>1. Len(a) = Len(f) /\ \A i \in 1 .. Len(f) : a[i] = f[i] \/ a[i] = Junk
    BY <1>9 DEF Blurs, Near
  <2>2. Len(a) > 1
    BY <1>5, <2>1
  <2>3. PICK i \in 1 .. Len(a) : decode_frame(a, zip) = a[i].of
    BY <1>9, <2>2, DecodesPiece
  <2>4. Junk.of = NoPacket
    BY DEF Junk, Piece
  <2>5. a[i] = f[i] /\ i \in 1 .. Len(f)
    BY <2>1, <2>3, <2>4
  <2> QED
    BY <1>5, <2>3, <2>5
<1> QED
  BY <1>3, <1>4, <1>9, <1>10 DEF a, b, w, l, Q

(***************************************************************************)
(* Written bytes.                                                          *)
(***************************************************************************)
Register(iv) == iv \in Seq(Nat) /\ Len(iv) = FeedbackWidth

LEMMA FreshRegister == Register(Fresh)
  BY SetupsAssumption DEF Register, Fresh

LEMMA FedRegister ==
  ASSUME NEW iv, Register(iv), NEW Q, NEW bytes \in Seq(ByteOf(Q))
  PROVE  Register(Fed(iv, bytes))
<1> DEFINE F == FeedbackWidth
           pl == Places(bytes)
           s == iv \o pl
<1>1. F \in Nat /\ iv \in Seq(Nat) /\ Len(iv) = F
  BY SetupsAssumption DEF Register
<1>2. pl \in Seq(Nat) /\ Len(pl) \in Nat
  <2>1. DOMAIN bytes = 1 .. Len(bytes) /\ Len(bytes) \in Nat
    OBVIOUS
  <2>2. \A i \in 1 .. Len(bytes) : bytes[i].k \in Nat
    <3>1. \A i \in 1 .. Len(bytes) : bytes[i] \in ByteOf(Q)
      OBVIOUS
    <3> QED
      BY <3>1 DEF ByteOf
  <2>3. pl = [i \in 1 .. Len(bytes) |-> bytes[i].k]
    BY <2>1 DEF Places
  <2> QED
    BY <2>1, <2>2, <2>3
<1> HIDE DEF pl
<1>3. s \in Seq(Nat) /\ Len(s) = F + Len(pl)
  BY <1>1, <1>2, ConcatProperties
<1> HIDE DEF s
<1> DEFINE n == Len(pl)
<1>4. Len(s) - F + 1 = n + 1 /\ n \in 0 .. Len(s) /\ Len(s) - n = F
  BY <1>1, <1>2, <1>3
<1>5. SubSeq(s, n + 1, Len(s)) \in Seq(Nat) /\ Len(SubSeq(s, n + 1, Len(s))) = F
  <2> HIDE DEF n
  <2> QED
    BY <1>3, <1>4, SplitAt
<1> QED
  BY <1>4, <1>5 DEF Fed, Latest, Register, s, pl

LEMMA ClearBytes ==
  ASSUME NEW Q, NEW p \in Seq(Q)
  PROVE  Clear(p) \in Seq(ByteOf(Q)) /\ Len(Clear(p)) = Len(p) /\ Letters(Clear(p)) = p
<1>1. DOMAIN p = 1 .. Len(p) /\ Len(p) \in Nat
  OBVIOUS
<1>2. \A i \in 1 .. Len(p) : [b |-> p[i], k |-> 0] \in ByteOf(Q)
  BY DEF ByteOf
<1>3. Clear(p) = [i \in 1 .. Len(p) |-> [b |-> p[i], k |-> 0]]
  BY <1>1 DEF Clear
<1>4. Clear(p) \in Seq(ByteOf(Q)) /\ Len(Clear(p)) = Len(p) /\ \A i \in 1 .. Len(p) : Clear(p)[i].b = p[i]
  BY <1>1, <1>2, <1>3
<1>5. /\ Letters(Clear(p)) \in Seq(Q) /\ Len(Letters(Clear(p))) = Len(p)
      /\ \A i \in 1 .. Len(p) : Letters(Clear(p))[i] = p[i]
  BY <1>4, LettersType
<1> QED
  BY <1>4, <1>5, SeqEqual

LEMMA CipherBytes ==
  ASSUME NEW Q, NEW p \in Seq(Q), NEW iv, Register(iv)
  PROVE  /\ Cfb8Encrypt(iv, p) \in Seq(ByteOf(Q)) /\ Len(Cfb8Encrypt(iv, p)) = Len(p)
         /\ Letters(Cfb8Encrypt(iv, p)) = p
<1> DEFINE l == Last(iv)
           e == Cfb8Encrypt(iv, p)
<1>1. DOMAIN p = 1 .. Len(p) /\ Len(p) \in Nat
  OBVIOUS
<1>2. l \in Nat
  BY SetupsAssumption DEF Register, Last
<1> HIDE DEF l
<1>3. \A i \in 1 .. Len(p) : [b |-> p[i], k |-> l + i] \in ByteOf(Q)
  BY <1>2 DEF ByteOf
<1>4. e = [i \in 1 .. Len(p) |-> [b |-> p[i], k |-> l + i]]
  BY <1>1 DEF Cfb8Encrypt, l
<1>5. e \in Seq(ByteOf(Q)) /\ Len(e) = Len(p) /\ \A i \in 1 .. Len(p) : e[i].b = p[i]
  BY <1>1, <1>3, <1>4
<1> HIDE DEF e
<1>6. /\ Letters(e) \in Seq(Q) /\ Len(Letters(e)) = Len(p)
      /\ \A i \in 1 .. Len(p) : Letters(e)[i] = p[i]
  BY <1>5, LettersType
<1>7. Letters(e) = p
  BY <1>6, SeqEqual
<1> QED
  BY <1>5, <1>7 DEF e

(***************************************************************************)
(* The same with more packets about.                                       *)
(***************************************************************************)
LEMMA MoreOf ==
  ASSUME NEW S, NEW T, S \subseteq T, NEW s \in Seq(S)
  PROVE  s \in Seq(T)
  OBVIOUS

LEMMA MorePackets ==
  ASSUME NEW O, NEW R, O \subseteq R
  PROVE  /\ Entry(O) \subseteq Entry(R) /\ PieceOf(O) \subseteq PieceOf(R)
         /\ ByteOf(PieceOf(O)) \subseteq ByteOf(PieceOf(R))
<1>1. Entry(O) \subseteq Entry(R)
  BY DEF Entry
<1>2. PieceOf(O) \subseteq PieceOf(R)
  BY DEF PieceOf
<1> QED
  BY <1>1, <1>2 DEF ByteOf

\* What is read and what it is read of, both with more behind.
LEMMA BlursGrow ==
  ASSUME NEW Q, NEW s \in Seq(Q), NEW t \in Seq(Q), NEW x \in Seq(Q), Blurs(s, t)
  PROVE  Blurs(s \o x, t \o x)
<1>1. /\ Len(s \o x) = Len(s) + Len(x) /\ Len(t \o x) = Len(t) + Len(x)
      /\ Len(s) \in Nat /\ Len(t) \in Nat /\ Len(x) \in Nat
      /\ \A i \in 1 .. Len(s) : (s \o x)[i] = s[i]
      /\ \A i \in 1 .. Len(x) : (s \o x)[Len(s) + i] = x[i]
      /\ \A i \in 1 .. Len(t) : (t \o x)[i] = t[i]
      /\ \A i \in 1 .. Len(x) : (t \o x)[Len(t) + i] = x[i]
  BY ConcatIs
<1>2. Len(s) = Len(t) /\ \A i \in 1 .. Len(t) : s[i] = t[i] \/ s[i] = Junk
  BY DEF Blurs, Near
<1> DEFINE a == s \o x
           b == t \o x
<1> HIDE DEF a, b
<1>3. ASSUME NEW i \in 1 .. Len(t) + Len(x) PROVE a[i] = b[i] \/ a[i] = Junk
  <2>1. CASE i <= Len(t)
    <3>1. i \in 1 .. Len(t) /\ i \in 1 .. Len(s)
      BY <1>1, <1>2, <2>1
    <3> QED
      BY <1>1, <1>2, <3>1 DEF a, b
  <2>2. CASE ~(i <= Len(t))
    <3>1. PICK j \in 1 .. Len(x) : i = Len(t) + j
      <4>1. i - Len(t) \in 1 .. Len(x) /\ i = Len(t) + (i - Len(t))
        BY <1>1, <2>2
      <4> QED
        BY <4>1
    <3>2. a[i] = x[j] /\ b[i] = x[j]
      BY <1>1, <1>2, <3>1 DEF a, b
    <3> QED
      BY <3>2
  <2> QED
    BY <2>1, <2>2
<1>4. Len(a) = Len(b) /\ Len(b) = Len(t) + Len(x)
  BY <1>1, <1>2 DEF a, b
<1>5. Blurs(a, b)
  BY <1>3, <1>4 DEF Blurs, Near
<1> QED
  BY <1>5 DEF a, b

(***************************************************************************)
(* From a client to the server: U are the packets not read yet, got what   *)
(* the server has of the first frame, up what is on the way.               *)
(***************************************************************************)
UpFlowIn(O, got, upc, U) ==
  /\ NoPacket \in O /\ U \in Seq(Entry(O))
  /\ got \in Seq(PieceOf(O)) /\ upc \in Seq(ByteOf(PieceOf(O)))
  /\ Blurs(got \o Letters(upc), Line(U))
UpFlow(got, upc, U) == \E O : UpFlowIn(O, got, upc, U)

LEMMA UpFlowNone == UpFlow(<<>>, <<>>, <<>>)
<1>1. Letters(<<>>) = <<>>
  BY DEF Letters
<1>2. Line(<<>>) = <<>>
  BY LineNone
<1>3. UpFlowIn({NoPacket}, <<>>, <<>>, <<>>)
  BY <1>1, <1>2 DEF UpFlowIn, Blurs, Near
<1> QED
  BY <1>3 DEF UpFlow

\* Bytes arrive.
LEMMA UpReads ==
  ASSUME NEW got, NEW upc, NEW U, UpFlow(got, upc, U), NEW k \in 1 .. Len(upc),
         NEW secret, NEW iv
  PROVE  UpFlow(got \o Decipher(secret, iv, SubSeq(upc, 1, k)), SubSeq(upc, k + 1, Len(upc)), U)
<1>1. PICK O : UpFlowIn(O, got, upc, U)
  BY DEF UpFlow
<1> DEFINE Q == PieceOf(O)
           B == ByteOf(Q)
           a == SubSeq(upc, 1, k)
           b == SubSeq(upc, k + 1, Len(upc))
           d == Decipher(secret, iv, a)
<1>2. /\ NoPacket \in O /\ U \in Seq(Entry(O)) /\ got \in Seq(Q) /\ upc \in Seq(B)
      /\ Blurs(got \o Letters(upc), Line(U))
  BY <1>1 DEF UpFlowIn
<1> HIDE DEF B
<1>3. a \in Seq(B) /\ b \in Seq(B) /\ a \o b = upc
  <2>1. k \in 0 .. Len(upc)
    BY <1>2
  <2> QED
    BY <1>2, <2>1, SplitAt
<1> HIDE DEF a, b
<1>4. /\ Letters(a) \in Seq(Q) /\ Letters(b) \in Seq(Q)
      /\ Letters(upc) = Letters(a) \o Letters(b)
  BY <1>3, LettersType, LettersConcat DEF B
<1>5. d \in Seq(Q) /\ Blurs(d, Letters(a))
  BY <1>2, <1>3, DecipherBlurs DEF B
<1> HIDE DEF d, Q
<1>6. Blurs((got \o d) \o Letters(b), Line(U)) /\ got \o d \in Seq(Q)
  <2>1. Blurs(got \o (Letters(a) \o Letters(b)), Line(U))
    BY <1>2, <1>4
  <2> QED
    BY <1>2, <1>4, <1>5, <2>1, BlursMore
<1>7. UpFlowIn(O, got \o d, b, U)
  BY <1>2, <1>3, <1>6 DEF UpFlowIn, B, Q
<1> QED
  BY <1>7 DEF UpFlow, d, a, b

\* A whole frame is the next packet, or does not parse.
LEMMA UpTakes ==
  ASSUME NEW got, NEW upc, NEW U, UpFlow(got, upc, U), Missing(got) = 0, NEW zip \in Int,
         decode_frame(got, zip) # NoPacket
  PROVE  /\ U # <<>> /\ decode_frame(got, zip) = U[1].packet
         /\ UpFlow(<<>>, upc, Tail(U))
<1>1. PICK O : UpFlowIn(O, got, upc, U)
  BY DEF UpFlow
<1> DEFINE Q == PieceOf(O)
           r == Letters(upc)
<1>2. /\ NoPacket \in O /\ U \in Seq(Entry(O)) /\ got \in Seq(Q) /\ upc \in Seq(ByteOf(Q))
      /\ Blurs(got \o r, Line(U))
  BY <1>1 DEF UpFlowIn
<1>3. r \in Seq(Q)
  BY <1>2, LettersType
<1> HIDE DEF r
<1>4. got # <<>> /\ got[1].t = "len"
  <2>1. got # <<>>
    BY DEF Missing
  <2>2. got[1].t = "len"
    BY DEF decode_frame
  <2> QED
    BY <2>1, <2>2
<1>5. got[1].n \in Nat
  <2>1. got[1] \in Q
    BY <1>2, <1>4
  <2> QED
    BY <2>1 DEF PieceOf
<1>6. got[1].n + 1 = Len(got) /\ Len(got) \in Nat
  <2>1. Missing(got) = got[1].n + 1 - Len(got)
    BY <1>4 DEF Missing
  <2>2. Len(got) \in Nat
    BY <1>2
  <2> QED
    BY <1>5, <2>1, <2>2
<1> DEFINE n == got[1].n + 1
<1>7. SubSeq(got, 1, n) = got /\ SubSeq(got, n + 1, Len(got)) = <<>>
  BY <1>2, <1>6
<1>8. /\ U # <<>> /\ Tail(U) \in Seq(Entry(O))
      /\ decode_frame(SubSeq(got, 1, n), zip) \in {NoPacket, U[1].packet}
      /\ Blurs(SubSeq(got, n + 1, Len(got)) \o r, Line(Tail(U)))
  BY <1>2, <1>3, <1>4, <1>6, FrontIs
<1>9. UpFlowIn(O, <<>>, upc, Tail(U))
  <2>1. Blurs(<<>> \o r, Line(Tail(U)))
    BY <1>7, <1>8
  <2>2. <<>> \in Seq(Q)
    OBVIOUS
  <2> QED
    BY <1>2, <1>8, <2>1, <2>2 DEF UpFlowIn, r
<1> QED
  BY <1>7, <1>8, <1>9 DEF UpFlow

\* More is sent.
LEMMA UpGrows ==
  ASSUME NEW got, NEW upc, NEW U, UpFlow(got, upc, U), NEW R, NoPacket \in R,
         NEW E \in Seq(Entry(R)), NEW bytes \in Seq(ByteOf(PieceOf(R))), Letters(bytes) = Line(E)
  PROVE  UpFlow(got, upc \o bytes, U \o E)
<1>1. PICK O : UpFlowIn(O, got, upc, U)
  BY DEF UpFlow
<1> DEFINE P == O \cup R
           Q == PieceOf(P)
           B == ByteOf(Q)
           N == Entry(P)
<1>2. /\ NoPacket \in O /\ U \in Seq(Entry(O)) /\ got \in Seq(PieceOf(O))
      /\ upc \in Seq(ByteOf(PieceOf(O))) /\ Blurs(got \o Letters(upc), Line(U))
  BY <1>1 DEF UpFlowIn
<1>3. /\ Entry(O) \subseteq N /\ PieceOf(O) \subseteq Q /\ ByteOf(PieceOf(O)) \subseteq B
      /\ Entry(R) \subseteq N /\ ByteOf(PieceOf(R)) \subseteq B
  <2>1. O \subseteq P /\ R \subseteq P
    OBVIOUS
  <2> HIDE DEF P
  <2> QED
    BY <2>1, MorePackets
<1>4. NoPacket \in P
  BY <1>2
<1> HIDE DEF P, Q, B, N
<1>5. U \in Seq(N) /\ got \in Seq(Q) /\ upc \in Seq(B) /\ E \in Seq(N) /\ bytes \in Seq(B)
  BY <1>2, <1>3, MoreOf
<1>6. U \o E \in Seq(N) /\ upc \o bytes \in Seq(B)
  BY <1>5, ConcatIs
<1>7. Line(U) \in Seq(Q) /\ Line(E) \in Seq(Q) /\ Line(U \o E) = Line(U) \o Line(E)
  BY <1>4, <1>5, LineType, LineConcat DEF N, Q
<1>8. Letters(upc) \in Seq(Q) /\ Letters(upc \o bytes) = Letters(upc) \o Line(E)
  BY <1>5, LettersType, LettersConcat DEF B
<1>9. got \o Letters(upc) \in Seq(Q)
  BY <1>5, <1>8, ConcatIs
<1>10. Blurs((got \o Letters(upc)) \o Line(E), Line(U) \o Line(E))
  BY <1>2, <1>7, <1>9, BlursGrow
<1>11. (got \o Letters(upc)) \o Line(E) = got \o (Letters(upc) \o Line(E))
  <2> DEFINE x == Letters(upc)
             y == Line(E)
  <2>1. x \in Seq(Q) /\ y \in Seq(Q) /\ got \in Seq(Q)
    BY <1>5, <1>7, <1>8
  <2> HIDE DEF x, y
  <2>2. (got \o x) \o y = got \o (x \o y)
    BY <2>1, SMTT(60)
  <2> QED
    BY <2>2 DEF x, y
<1>12. UpFlowIn(P, got, upc \o bytes, U \o E)
  BY <1>4, <1>5, <1>6, <1>7, <1>8, <1>10, <1>11 DEF UpFlowIn, B, Q, N
<1> QED
  BY <1>12 DEF UpFlow

\* What a client writes for packets.
Framed(packets, zip) == [i \in DOMAIN packets |-> [packet |-> packets[i], zip |-> zip]]

LEMMA ClientBytesAre ==
  ASSUME NEW c, Register(cli[c].outIv), cli[c].zip \in Int, NEW R, NoPacket \in R,
         NEW packets \in Seq(R)
  PROVE  /\ ClientBytes(c, packets) \in Seq(ByteOf(PieceOf(R)))
         /\ Framed(packets, cli[c].zip) \in Seq(Entry(R))
         /\ Letters(ClientBytes(c, packets)) = Line(Framed(packets, cli[c].zip))
         /\ Register(IF cli[c].secret THEN Fed(cli[c].outIv, ClientBytes(c, packets))
                     ELSE cli[c].outIv)
<1> DEFINE E == Framed(packets, cli[c].zip)
           pieces == Line(E)
           Q == PieceOf(R)
<1>1. DOMAIN packets = 1 .. Len(packets) /\ Len(packets) \in Nat
  OBVIOUS
<1>2. E = [i \in 1 .. Len(packets) |-> [packet |-> packets[i], zip |-> cli[c].zip]]
  BY <1>1 DEF Framed
<1>3. \A i \in 1 .. Len(packets) : [packet |-> packets[i], zip |-> cli[c].zip] \in Entry(R)
  BY DEF Entry
<1>4. E \in Seq(Entry(R)) /\ DOMAIN E = DOMAIN packets
  BY <1>1, <1>2, <1>3
<1>5. pieces \in Seq(Q)
  <2> HIDE DEF E
  <2> QED
    BY <1>4, LineType
<1>6. ClientBytes(c, packets) =
        IF cli[c].secret THEN Cfb8Encrypt(cli[c].outIv, pieces) ELSE Clear(pieces)
  <2> DEFINE frame(p) == IF p = NoPacket THEN <<Piece("len", 1, NoPacket), Junk>>
                         ELSE encode_frame(p, cli[c].zip)
  <2>1. ASSUME NEW i \in DOMAIN packets PROVE FrameOf(E[i]) = frame(packets[i])
    <3>1. E[i].packet = packets[i] /\ E[i].zip = cli[c].zip
      BY <1>1, <1>2
    <3> QED
      BY <3>1 DEF FrameOf
  <2>2. Frames(E) = [i \in DOMAIN packets |-> FrameOf(E[i])]
    BY <1>4 DEF Frames
  <2>3. Frames(E) = [i \in DOMAIN packets |-> frame(packets[i])]
    BY <2>1, <2>2
  <2> QED
    BY <2>3 DEF ClientBytes, Line
<1> HIDE DEF pieces, E, Q
<1>7. /\ ClientBytes(c, packets) \in Seq(ByteOf(Q)) /\ Letters(ClientBytes(c, packets)) = pieces
  BY <1>5, <1>6, ClearBytes, CipherBytes
<1>8. Register(Fed(cli[c].outIv, ClientBytes(c, packets)))
  BY <1>7, FedRegister
<1> QED
  BY <1>4, <1>7, <1>8 DEF E, Q, pieces

(***************************************************************************)
(* From the server to a client: D are the packets not handled yet, the     *)
(* last of them still to be written (todo), got what the client has read,  *)
(* down, the rest of pending and left what is on the way.  A session that  *)
(* ended may have thrown the end of it (t) away.                           *)
(***************************************************************************)
Rest0(pendingc, posc) == SubSeq(pendingc, posc + 1, Len(pendingc))
Way(downc, pendingc, posc, t) == Letters(downc) \o (Letters(Rest0(pendingc, posc)) \o t)

DownIn(O, A, t, got, downc, pendingc, posc) ==
  /\ NoPacket \in O /\ A \in Seq(Entry(O))
  /\ got \in Seq(PieceOf(O)) /\ t \in Seq(PieceOf(O))
  /\ downc \in Seq(ByteOf(PieceOf(O))) /\ pendingc \in Seq(ByteOf(PieceOf(O)))
  /\ posc \in 0 .. Len(pendingc)
  /\ Blurs(got \o Way(downc, pendingc, posc, t), Line(A))

\* What is left is to be written, unless the session is over.
Remains(phase, pendingc, leftc, todoc, t) ==
  t = leftc \/ (phase = "gone" /\ todoc = <<>> /\ leftc = <<>> /\ pendingc = <<>>)

DownBy(O, A, t, phase, secret, iv, got, downc, pendingc, posc, leftc, todoc, D) ==
  /\ DownIn(O, A, t, got, downc, pendingc, posc)
  /\ todoc \in Seq(Entry(O \ {NoPacket})) /\ D = A \o todoc
  /\ leftc \in Seq(PieceOf(O)) /\ Remains(phase, pendingc, leftc, todoc, t)
  /\ secret \/ pendingc = <<>>
  /\ Register(iv)

DownFlow(phase, secret, iv, got, downc, pendingc, posc, leftc, todoc, D) ==
  \E O, A, t : DownBy(O, A, t, phase, secret, iv, got, downc, pendingc, posc, leftc, todoc, D)

\* What is on the way, in pieces.
LEMMA WayType ==
  ASSUME NEW Q, NEW downc \in Seq(ByteOf(Q)), NEW pendingc \in Seq(ByteOf(Q)),
         NEW posc \in 0 .. Len(pendingc), NEW t \in Seq(Q)
  PROVE  /\ Rest0(pendingc, posc) \in Seq(ByteOf(Q))
         /\ Letters(downc) \in Seq(Q) /\ Letters(Rest0(pendingc, posc)) \in Seq(Q)
         /\ Letters(Rest0(pendingc, posc)) \o t \in Seq(Q)
         /\ Way(downc, pendingc, posc, t) \in Seq(Q)
<1> DEFINE B == ByteOf(Q)
           x == Rest0(pendingc, posc)
<1>0. pendingc \in Seq(B) /\ downc \in Seq(B)
  OBVIOUS
<1> HIDE DEF B
<1>1. x \in Seq(B)
  BY <1>0, SplitAt DEF Rest0
<1> HIDE DEF x
<1>2. Letters(downc) \in Seq(Q) /\ Letters(x) \in Seq(Q)
  BY <1>0, <1>1, LettersType DEF B
<1>3. Letters(x) \o t \in Seq(Q)
  BY <1>2, ConcatIs
<1>4. Letters(downc) \o (Letters(x) \o t) \in Seq(Q)
  BY <1>2, <1>3, ConcatIs
<1> QED
  BY <1>1, <1>2, <1>3, <1>4 DEF Way, x, B

LEMMA NothingOnTheWay ==
  /\ Letters(<<>>) = <<>> /\ Rest0(<<>>, 0) = <<>>
<1>1. Letters(<<>>) = <<>>
  BY DEF Letters
<1> QED
  BY <1>1 DEF Rest0

\* Nothing buffered.
LEMMA WayPlain ==
  ASSUME NEW Q, NEW t \in Seq(Q), NEW downc
  PROVE  Way(downc, <<>>, 0, t) = Letters(downc) \o t
<1>1. <<>> \o t = t
  OBVIOUS
<1> QED
  BY <1>1, NothingOnTheWay DEF Way

\* Bytes that go out are on the way as before.
Bytes(Q, downc, m, u) == downc \in Seq(ByteOf(Q)) /\ m \in Seq(ByteOf(Q)) /\ u \in Seq(Q)
MovesOn(Q, downc, m, u) ==
  /\ downc \o m \in Seq(ByteOf(Q))
  /\ Letters(downc \o m) \o u = Letters(downc) \o (Letters(m) \o u)

LEMMA WayMoves ==
  ASSUME NEW Q, NEW downc, NEW m, NEW u, Bytes(Q, downc, m, u)
  PROVE  MovesOn(Q, downc, m, u)
<1>0. downc \in Seq(ByteOf(Q)) /\ m \in Seq(ByteOf(Q)) /\ u \in Seq(Q)
  BY DEF Bytes
<1> DEFINE x == Letters(downc)
           y == Letters(m)
<1>1. x \in Seq(Q) /\ y \in Seq(Q) /\ Letters(downc \o m) = x \o y
  BY <1>0, LettersType, LettersConcat
<1>2. downc \o m \in Seq(ByteOf(Q))
  <2> DEFINE B == ByteOf(Q)
  <2>1. downc \in Seq(B) /\ m \in Seq(B)
    BY <1>0
  <2> HIDE DEF B
  <2>2. downc \o m \in Seq(B)
    BY <2>1, ConcatIs
  <2> QED
    BY <2>2 DEF B
<1> HIDE DEF x, y
<1>3. (x \o y) \o u = x \o (y \o u)
  BY <1>0, <1>1, SMTT(60)
<1> QED
  BY <1>1, <1>2, <1>3 DEF x, y, MovesOn

\* A piece of the frame in hand goes out in the clear.
LEMMA DownPlain ==
  ASSUME NEW phase, NEW secret, ~secret, NEW iv, NEW got, NEW downc, NEW pendingc, NEW posc, NEW leftc, NEW todoc, NEW D,
         DownFlow(phase, secret, iv, got, downc, pendingc, posc, leftc, todoc, D),
         NEW k \in 1 .. Len(leftc)
  PROVE  DownFlow(phase, secret, iv, got, downc \o Clear(SubSeq(leftc, 1, k)), pendingc, posc,
                  SubSeq(leftc, k + 1, Len(leftc)), todoc, D)
<1>1. PICK O, A, t : DownBy(O, A, t, phase, secret, iv, got, downc, pendingc, posc, leftc, todoc, D)
  BY DEF DownFlow
<1> DEFINE Q == PieceOf(O)
           a == SubSeq(leftc, 1, k)
           b == SubSeq(leftc, k + 1, Len(leftc))
           down2 == downc \o Clear(a)
<1>2. /\ DownIn(O, A, t, got, downc, pendingc, posc) /\ leftc \in Seq(Q)
      /\ Remains(phase, pendingc, leftc, todoc, t) /\ pendingc = <<>>
  BY <1>1 DEF DownBy
<1>3. /\ got \in Seq(Q) /\ t \in Seq(Q) /\ downc \in Seq(ByteOf(Q)) /\ posc = 0
      /\ Blurs(got \o Way(downc, pendingc, posc, t), Line(A))
  BY <1>2 DEF DownIn
<1>4. t = leftc
  <2>1. leftc # <<>>
    BY <1>2
  <2> QED
    BY <1>2, <2>1 DEF Remains
<1> HIDE DEF Q
<1>5. a \in Seq(Q) /\ b \in Seq(Q) /\ a \o b = leftc
  <2>1. k \in 0 .. Len(leftc)
    BY <1>2
  <2> QED
    BY <1>2, <2>1, SplitAt
<1> HIDE DEF a, b
<1>6. Clear(a) \in Seq(ByteOf(Q)) /\ Letters(Clear(a)) = a
  BY <1>5, ClearBytes
<1>7. down2 \in Seq(ByteOf(Q)) /\ Letters(down2) \o b = Letters(downc) \o (a \o b)
  <2> DEFINE m == Clear(a)
  <2>1. m \in Seq(ByteOf(Q)) /\ Letters(m) = a
    BY <1>6
  <2> HIDE DEF m
  <2>2. /\ downc \o m \in Seq(ByteOf(Q))
        /\ Letters(downc \o m) \o b = Letters(downc) \o (Letters(m) \o b)
    <3>1. Bytes(Q, downc, m, b)
      BY <1>3, <1>5, <2>1 DEF Bytes
    <3>2. MovesOn(Q, downc, m, b)
      BY <3>1, WayMoves
    <3> QED
      BY <3>2 DEF MovesOn
  <2> QED
    BY <2>1, <2>2 DEF m
<1> HIDE DEF down2
<1>8. Way(down2, pendingc, posc, b) = Way(downc, pendingc, posc, t)
  BY <1>2, <1>3, <1>4, <1>5, <1>7, WayPlain
<1>9. DownIn(O, A, b, got, down2, pendingc, posc)
  BY <1>2, <1>3, <1>5, <1>7, <1>8 DEF DownIn, Q
<1>10. DownBy(O, A, b, phase, secret, iv, got, down2, pendingc, posc, b, todoc, D)
  BY <1>1, <1>5, <1>9 DEF DownBy, Remains, Q
<1> QED
  BY <1>10 DEF DownFlow, down2, a, b

\* Buffered bytes go out.
LEMMA DownDrains ==
  ASSUME NEW phase, NEW secret, NEW iv, NEW got, NEW downc, NEW pendingc, NEW posc, NEW leftc,
         NEW todoc, NEW D,
         DownFlow(phase, secret, iv, got, downc, pendingc, posc, leftc, todoc, D),
         NEW k \in 1 .. Len(pendingc) - posc
  PROVE  LET all == posc + k = Len(pendingc)
         IN DownFlow(phase, secret, iv, got, downc \o SubSeq(pendingc, posc + 1, posc + k),
                     IF all THEN <<>> ELSE pendingc, IF all THEN 0 ELSE posc + k, leftc, todoc, D)
<1>1. PICK O, A, t : DownBy(O, A, t, phase, secret, iv, got, downc, pendingc, posc, leftc, todoc, D)
  BY DEF DownFlow
<1> DEFINE Q == PieceOf(O)
           B == ByteOf(Q)
           m == SubSeq(pendingc, posc + 1, posc + k)
           down2 == downc \o m
           all == posc + k = Len(pendingc)
           pending2 == IF all THEN <<>> ELSE pendingc
           pos2 == IF all THEN 0 ELSE posc + k
<1>2. /\ DownIn(O, A, t, got, downc, pendingc, posc)
      /\ Remains(phase, pendingc, leftc, todoc, t)
  BY <1>1 DEF DownBy
<1>3. /\ got \in Seq(Q) /\ t \in Seq(Q) /\ downc \in Seq(B) /\ pendingc \in Seq(B)
      /\ posc \in 0 .. Len(pendingc)
      /\ Blurs(got \o Way(downc, pendingc, posc, t), Line(A))
  BY <1>2 DEF DownIn
<1>4. pendingc # <<>> /\ t = leftc /\ Len(pendingc) \in Nat /\ posc + k <= Len(pendingc) /\ posc \in Nat /\ k \in Nat
  <2>1. Len(pendingc) \in Nat /\ posc \in Nat /\ Len(pendingc) > 0
    BY <1>3
  <2>2. pendingc # <<>>
    BY <2>1
  <2> QED
    BY <1>2, <1>3, <2>1, <2>2 DEF Remains
<1> HIDE DEF B
<1>5. /\ m \in Seq(B) /\ pos2 \in 0 .. Len(pending2) /\ pending2 \in Seq(B)
      /\ Rest0(pendingc, posc) = m \o Rest0(pending2, pos2)
      /\ Rest0(pending2, pos2) \in Seq(B)
  <2> DEFINE x == SubSeq(pendingc, posc + 1, Len(pendingc))
             y == SubSeq(pendingc, (posc + k) + 1, Len(pendingc))
             n == Len(pendingc)
  <2>0. pendingc \in Seq(B) /\ posc \in 0 .. n /\ posc + k \in 0 .. n /\ n \in Nat
    BY <1>3, <1>4
  <2>1. x \in Seq(B) /\ y \in Seq(B) /\ Len(y) = n - (posc + k)
    BY <2>0, SplitAt
  <2>2. m \in Seq(B)
    <3>1. posc + 1 \in Int /\ posc + k \in Int /\ \A i \in posc + 1 .. posc + k : pendingc[i] \in B
      BY <1>4, <2>0
    <3> QED
      BY <3>1, SubSeqProperties
  <2>3. x = m \o y
    <3>1. /\ posc + 1 \in 1 .. n + 1 /\ posc + k \in (posc + 1) - 1 .. n /\ n \in posc + k .. n
      BY <1>4, <2>0
    <3> QED
      BY <2>0, <3>1, ConcatAdjacentSubSeq
  <2> HIDE DEF x, y, m
  <2>4. Rest0(pending2, pos2) = y
    <3>1. CASE all
      <4>1. Rest0(pending2, pos2) = <<>>
        BY <3>1, NothingOnTheWay
      <4>2. Len(y) = 0
        BY <1>4, <2>1, <3>1
      <4> QED
        BY <2>1, <4>1, <4>2
    <3>2. CASE ~all
      BY <3>2 DEF Rest0, y
    <3> QED
      BY <3>1, <3>2
  <2>5. pos2 \in 0 .. Len(pending2) /\ pending2 \in Seq(B)
    BY <1>3, <1>4
  <2> QED
    BY <2>1, <2>2, <2>3, <2>4, <2>5 DEF Rest0, x
<1> HIDE DEF m, pending2, pos2, Q
<1>6. down2 \in Seq(B) /\ Way(down2, pending2, pos2, t) = Way(downc, pendingc, posc, t)
  <2> DEFINE x == Rest0(pendingc, posc)
             y == Rest0(pending2, pos2)
             u == Letters(y) \o t
  <2>1. Letters(y) \in Seq(Q) /\ u \in Seq(Q)
    BY <1>3, <1>5, WayType DEF B
  <2>2. down2 \in Seq(B) /\ Letters(down2) \o u = Letters(downc) \o (Letters(m) \o u)
    <3>1. downc \in Seq(ByteOf(Q)) /\ m \in Seq(ByteOf(Q)) /\ u \in Seq(Q)
      BY <1>3, <1>5, <2>1 DEF B
    <3> HIDE DEF u
    <3>2. /\ downc \o m \in Seq(ByteOf(Q))
          /\ Letters(downc \o m) \o u = Letters(downc) \o (Letters(m) \o u)
      <4>1. Bytes(Q, downc, m, u)
        BY <3>1 DEF Bytes
      <4>2. MovesOn(Q, downc, m, u)
        BY <4>1, WayMoves
      <4> QED
        BY <4>2 DEF MovesOn
    <3> QED
      BY <3>2 DEF B
  <2>3. Letters(x) \o t = Letters(m) \o u
    <3>1. Letters(m \o y) \o t = Letters(m) \o (Letters(y) \o t)
      <4>1. m \in Seq(ByteOf(Q)) /\ y \in Seq(ByteOf(Q)) /\ t \in Seq(Q)
        BY <1>3, <1>5 DEF B
      <4> HIDE DEF y
      <4>2. Bytes(Q, m, y, t)
        BY <4>1 DEF Bytes
      <4>3. MovesOn(Q, m, y, t)
        BY <4>2, WayMoves
      <4> QED
        BY <4>3 DEF MovesOn
    <3> QED
      BY <1>5, <3>1
  <2> QED
    BY <2>2, <2>3 DEF Way
<1> HIDE DEF down2
<1>7. DownIn(O, A, t, got, down2, pending2, pos2)
  BY <1>2, <1>3, <1>5, <1>6 DEF DownIn, Q, B
<1>8. secret \/ pending2 = <<>>
  BY <1>1 DEF DownBy, pending2
<1>9. DownBy(O, A, t, phase, secret, iv, got, down2, pending2, pos2, leftc, todoc, D)
  BY <1>1, <1>4, <1>7, <1>8 DEF DownBy, Remains
<1> QED
  BY <1>9 DEF DownFlow, down2, pending2, pos2, m

LEMMA WayMove ==
  ASSUME NEW Q, NEW downc \in Seq(ByteOf(Q)), NEW m \in Seq(ByteOf(Q)), NEW u \in Seq(Q)
  PROVE  MovesOn(Q, downc, m, u)
<1>1. Bytes(Q, downc, m, u)
  BY DEF Bytes
<1> QED
  BY <1>1, WayMoves

LEMMA DownFlowNone ==
  ASSUME NEW phase, NEW secret
  PROVE  DownFlow(phase, secret, Fresh, <<>>, <<>>, <<>>, 0, <<>>, <<>>, <<>>)
<1>1. Way(<<>>, <<>>, 0, <<>>) = <<>>
  BY NothingOnTheWay DEF Way
<1>2. DownIn({NoPacket}, <<>>, <<>>, <<>>, <<>>, <<>>, 0)
  BY <1>1, LineNone DEF DownIn, Blurs, Near
<1>3. DownBy({NoPacket}, <<>>, <<>>, phase, secret, Fresh, <<>>, <<>>, <<>>, 0, <<>>, <<>>, <<>>)
  BY <1>2, FreshRegister DEF DownBy, Remains
<1> QED
  BY <1>3 DEF DownFlow

\* All of the frame in hand is encrypted; some of it goes out at once.
LEMMA DownEncrypts ==
  ASSUME NEW phase, NEW secret, secret, NEW iv, NEW got, NEW downc, NEW posc, NEW leftc, NEW todoc, NEW D,
         DownFlow(phase, secret, iv, got, downc, <<>>, posc, leftc, todoc, D), leftc # <<>>,
         NEW enc, enc = Cfb8Encrypt(iv, leftc), NEW k \in 0 .. Len(enc)
  PROVE  /\ Len(enc) = Len(leftc)
         /\ DownFlow(phase, secret, Fed(iv, enc), got, downc \o SubSeq(enc, 1, k),
                     IF k < Len(leftc) THEN enc ELSE <<>>, IF k < Len(leftc) THEN k ELSE 0,
                     <<>>, todoc, D)
<1>1. PICK O, A, t : DownBy(O, A, t, phase, secret, iv, got, downc, <<>>, posc, leftc, todoc, D)
  BY DEF DownFlow
<1> DEFINE Q == PieceOf(O)
           B == ByteOf(Q)
           a == SubSeq(enc, 1, k)
           b == SubSeq(enc, k + 1, Len(enc))
           down2 == downc \o a
           pending2 == IF k < Len(leftc) THEN enc ELSE <<>>
           pos2 == IF k < Len(leftc) THEN k ELSE 0
<1>2. /\ DownIn(O, A, t, got, downc, <<>>, posc) /\ leftc \in Seq(Q)
      /\ t = leftc /\ Register(iv)
  BY <1>1 DEF DownBy, Remains
<1>3. /\ got \in Seq(Q) /\ downc \in Seq(B) /\ posc = 0
      /\ Blurs(got \o Way(downc, <<>>, posc, t), Line(A))
  BY <1>2 DEF DownIn
<1> HIDE DEF Q
<1>4. enc \in Seq(B) /\ Len(enc) = Len(leftc) /\ Letters(enc) = leftc
  BY <1>2, CipherBytes
<1> HIDE DEF B
<1>5. a \in Seq(B) /\ b \in Seq(B) /\ Len(b) = Len(enc) - k /\ a \o b = enc
  BY <1>4, SplitAt
<1>6. Rest0(pending2, pos2) = b /\ pending2 \in Seq(B) /\ pos2 \in 0 .. Len(pending2)
  <2>1. CASE k < Len(leftc)
    BY <1>4, <2>1 DEF Rest0
  <2>2. CASE ~(k < Len(leftc))
    <3>1. Len(b) = 0
      BY <1>4, <1>5, <2>2
    <3>2. b = <<>> /\ pending2 = <<>> /\ pos2 = 0
      BY <1>5, <2>2, <3>1
    <3>3. Rest0(<<>>, 0) = <<>> /\ <<>> \in Seq(B) /\ 0 \in 0 .. Len(<<>>)
      BY NothingOnTheWay
    <3> HIDE DEF b, pending2, pos2
    <3> QED
      BY <3>2, <3>3
  <2> QED
    BY <2>1, <2>2
<1> HIDE DEF a, b, pending2, pos2
<1>7. down2 \in Seq(B) /\ Letters(down2) \o Letters(b) = Letters(downc) \o (Letters(a) \o Letters(b))
  <2>1. Letters(b) \in Seq(Q)
    BY <1>5, LettersType DEF B
  <2>2. MovesOn(Q, downc, a, Letters(b))
    BY <1>3, <1>5, <2>1, WayMove DEF B
  <2> QED
    BY <2>2 DEF MovesOn, B
<1>8. Letters(a) \o Letters(b) = leftc
  BY <1>4, <1>5, LettersConcat DEF B
<1> HIDE DEF down2
<1>9. Way(down2, pending2, pos2, <<>>) = Way(downc, <<>>, posc, t)
  <2>1. Letters(b) \in Seq(Q)
    BY <1>5, LettersType DEF B
  <2>2. Letters(b) \o <<>> = Letters(b)
    BY <2>1
  <2>3. Way(down2, pending2, pos2, <<>>) = Letters(down2) \o Letters(b)
    BY <1>6, <2>2 DEF Way
  <2>4. Way(downc, <<>>, posc, t) = Letters(downc) \o leftc
    BY <1>2, <1>3, WayPlain
  <2> QED
    BY <1>7, <1>8, <2>3, <2>4
<1>10. DownIn(O, A, <<>>, got, down2, pending2, pos2)
  <2>1. <<>> \in Seq(Q)
    OBVIOUS
  <2> QED
    BY <1>2, <1>3, <1>6, <1>7, <1>9, <2>1 DEF DownIn, Q, B
<1>11. Register(Fed(iv, enc))
  BY <1>2, <1>4, FedRegister DEF B
<1>12. DownBy(O, A, <<>>, phase, secret, Fed(iv, enc), got, down2, pending2, pos2, <<>>, todoc, D)
  BY <1>1, <1>10, <1>11 DEF DownBy, Remains
<1> QED
  BY <1>4, <1>12 DEF DownFlow, down2, pending2, pos2, a

\* The next frame to write is taken in hand.
LEMMA DownFrames ==
  ASSUME NEW phase, NEW secret, NEW iv, NEW got, NEW downc, NEW posc, NEW todoc, NEW D,
         DownFlow(phase, secret, iv, got, downc, <<>>, posc, <<>>, todoc, D), todoc # <<>>
  PROVE  DownFlow(phase, secret, iv, got, downc, <<>>, posc,
                  encode_frame(Head(todoc).packet, Head(todoc).zip), Tail(todoc), D)
<1>1. PICK O, A, t : DownBy(O, A, t, phase, secret, iv, got, downc, <<>>, posc, <<>>, todoc, D)
  BY DEF DownFlow
<1> DEFINE Q == PieceOf(O)
           N == Entry(O)
           M == Entry(O \ {NoPacket})
           e == Head(todoc)
           f == FrameOf(e)
           A2 == A \o <<e>>
<1>2. /\ DownIn(O, A, t, got, downc, <<>>, posc) /\ todoc \in Seq(M) /\ D = A \o todoc
      /\ t = <<>>
  BY <1>1 DEF DownBy, Remains
<1>3. /\ NoPacket \in O /\ A \in Seq(N) /\ got \in Seq(Q) /\ downc \in Seq(ByteOf(Q)) /\ posc = 0
      /\ Blurs(got \o Way(downc, <<>>, posc, t), Line(A))
  BY <1>2 DEF DownIn
<1>4. M \subseteq N /\ e \in M /\ Tail(todoc) \in Seq(M) /\ e.packet # NoPacket
  <2>1. e \in M
    BY <1>2
  <2>2. M \subseteq N
    BY DEF Entry
  <2>3. e.packet # NoPacket
    BY <2>1 DEF Entry
  <2> HIDE DEF M
  <2>4. Tail(todoc) \in Seq(M)
    BY <1>2
  <2> QED
    BY <2>1, <2>2, <2>3, <2>4
<1> HIDE DEF N, M
<1>5. D = A2 \o Tail(todoc) /\ A2 \in Seq(N)
  <2>1. todoc \in Seq(N) /\ e \in N /\ Tail(todoc) \in Seq(N) /\ todoc = <<e>> \o Tail(todoc)
    <3>1. todoc \in Seq(N) /\ Tail(todoc) \in Seq(N) /\ e \in N
      BY <1>2, <1>4, MoreOf
    <3>2. todoc = <<Head(todoc)>> \o Tail(todoc)
      BY <1>2, <3>1
    <3> QED
      BY <3>1, <3>2
  <2> DEFINE x == <<e>>
             y == Tail(todoc)
  <2>2. x \in Seq(N) /\ y \in Seq(N) /\ todoc = x \o y
    BY <2>1
  <2> HIDE DEF e, x, y
  <2>3. A \o (x \o y) = (A \o x) \o y /\ A \o x \in Seq(N)
    BY <1>3, <2>2, SMTT(60)
  <2> QED
    BY <1>2, <2>2, <2>3 DEF x, y
<1>6. f \in Seq(Q) /\ f = encode_frame(e.packet, e.zip) /\ Line(A2) = Line(A) \o f /\ Line(A) \in Seq(Q)
  <2>1. e \in N /\ <<e>> \in Seq(N)
    BY <1>4
  <2> HIDE DEF e
  <2>2. Line(<<e>>) = f /\ f \in Seq(Q)
    BY <1>3, <2>1, LineOne DEF N
  <2>3. Line(A2) = Line(A) \o Line(<<e>>) /\ Line(A) \in Seq(Q)
    BY <1>3, <2>1, LineConcat, LineType DEF N
  <2>4. f = encode_frame(e.packet, e.zip)
    BY <1>4 DEF FrameOf
  <2> QED
    BY <2>2, <2>3, <2>4
<1> HIDE DEF Q, f, A2
<1>7. Blurs(got \o Way(downc, <<>>, posc, f), Line(A2))
  <2> DEFINE x == Letters(downc)
  <2>1. x \in Seq(Q)
    BY <1>3, LettersType
  <2>2. Way(downc, <<>>, posc, t) = x /\ Way(downc, <<>>, posc, f) = x \o f
    <3>1. <<>> \in Seq(Q)
      OBVIOUS
    <3>2. Way(downc, <<>>, 0, <<>>) = x \o <<>> /\ Way(downc, <<>>, 0, f) = x \o f
      BY <1>6, <3>1, WayPlain
    <3>3. x \o <<>> = x
      BY <2>1
    <3> QED
      BY <1>2, <1>3, <3>2, <3>3
  <2> HIDE DEF x
  <2>3. (got \o x) \o f = got \o (x \o f) /\ got \o x \in Seq(Q)
    BY <1>3, <1>6, <2>1, SMTT(60)
  <2>4. Blurs(got \o x, Line(A))
    BY <1>3, <2>2
  <2>5. Blurs((got \o x) \o f, Line(A) \o f)
    BY <1>6, <2>3, <2>4, BlursGrow
  <2> QED
    BY <1>6, <2>2, <2>3, <2>5
<1>8. DownIn(O, A2, f, got, downc, <<>>, posc)
  BY <1>2, <1>3, <1>5, <1>6, <1>7 DEF DownIn, Q, N
<1>9. DownBy(O, A2, f, phase, secret, iv, got, downc, <<>>, posc, f, Tail(todoc), D)
  BY <1>1, <1>4, <1>5, <1>6, <1>8 DEF DownBy, Remains, Q, M
<1> QED
  BY <1>6, <1>9 DEF DownFlow

\* The session has more to write.
LEMMA DownTodo ==
  ASSUME NEW phase, NEW secret, NEW iv, NEW got, NEW downc, NEW pendingc, NEW posc, NEW leftc, NEW D,
         DownFlow(phase, secret, iv, got, downc, pendingc, posc, leftc, <<>>, D), phase # "gone",
         NEW phase2, NEW secret2, NEW iv2, Register(iv2), secret2 \/ pendingc = <<>>,
         NEW R, NoPacket \notin R, NEW F \in Seq(Entry(R))
  PROVE  DownFlow(phase2, secret2, iv2, got, downc, pendingc, posc, leftc, F, D \o F)
<1>1. PICK O, A, t : DownBy(O, A, t, phase, secret, iv, got, downc, pendingc, posc, leftc, <<>>, D)
  BY DEF DownFlow
<1> DEFINE P == O \cup R
           Q == PieceOf(P)
           B == ByteOf(Q)
           N == Entry(P)
<1>2. DownIn(O, A, t, got, downc, pendingc, posc) /\ t = leftc /\ D = A \o <<>>
  BY <1>1 DEF DownBy, Remains
<1>3. /\ NoPacket \in O /\ A \in Seq(Entry(O)) /\ got \in Seq(PieceOf(O)) /\ t \in Seq(PieceOf(O))
      /\ downc \in Seq(ByteOf(PieceOf(O))) /\ pendingc \in Seq(ByteOf(PieceOf(O)))
      /\ posc \in 0 .. Len(pendingc)
      /\ Blurs(got \o Way(downc, pendingc, posc, t), Line(A))
  BY <1>2 DEF DownIn
<1>4. Entry(O) \subseteq N /\ PieceOf(O) \subseteq Q /\ ByteOf(PieceOf(O)) \subseteq B
  <2>1. O \subseteq P
    OBVIOUS
  <2> HIDE DEF P
  <2> QED
    BY <2>1, MorePackets
<1>5. NoPacket \in P
  BY <1>3
<1>6. F \in Seq(Entry(P \ {NoPacket}))
  <2>1. R \subseteq P \ {NoPacket}
    OBVIOUS
  <2>2. Entry(R) \subseteq Entry(P \ {NoPacket})
    BY <2>1 DEF Entry
  <2> QED
    BY <2>2, MoreOf
<1> HIDE DEF P, Q, B, N
<1>7. /\ A \in Seq(N) /\ got \in Seq(Q) /\ t \in Seq(Q) /\ downc \in Seq(B) /\ pendingc \in Seq(B)
  BY <1>3, <1>4, MoreOf
<1>8. DownIn(P, A, t, got, downc, pendingc, posc)
  BY <1>3, <1>5, <1>7 DEF DownIn, Q, B, N
<1>9. D \o F = A \o F
  <2>1. A \o <<>> = A
    BY <1>7
  <2> QED
    BY <1>2, <2>1
<1>10. DownBy(P, A, t, phase2, secret2, iv2, got, downc, pendingc, posc, leftc, F, D \o F)
  BY <1>2, <1>6, <1>7, <1>8, <1>9 DEF DownBy, Remains, Q
<1> QED
  BY <1>10 DEF DownFlow

\* The client reads what has come.
LEMMA DownReads ==
  ASSUME NEW phase, NEW secret, NEW iv, NEW got, NEW downc, NEW pendingc, NEW posc, NEW leftc,
         NEW todoc, NEW D,
         DownFlow(phase, secret, iv, got, downc, pendingc, posc, leftc, todoc, D),
         NEW secret2, NEW iv2
  PROVE  DownFlow(phase, secret, iv, got \o Decipher(secret2, iv2, downc), <<>>, pendingc, posc,
                  leftc, todoc, D)
<1>1. PICK O, A, t : DownBy(O, A, t, phase, secret, iv, got, downc, pendingc, posc, leftc, todoc, D)
  BY DEF DownFlow
<1> DEFINE Q == PieceOf(O)
           B == ByteOf(Q)
           d == Decipher(secret2, iv2, downc)
           x == Letters(downc)
           z == Letters(Rest0(pendingc, posc)) \o t
<1>2. DownIn(O, A, t, got, downc, pendingc, posc)
  BY <1>1 DEF DownBy
<1>3. /\ NoPacket \in O /\ got \in Seq(Q) /\ t \in Seq(Q) /\ downc \in Seq(B) /\ pendingc \in Seq(B)
      /\ posc \in 0 .. Len(pendingc)
      /\ Blurs(got \o Way(downc, pendingc, posc, t), Line(A))
  BY <1>2 DEF DownIn
<1>4. x \in Seq(Q) /\ z \in Seq(Q)
  BY <1>3, WayType
<1>5. d \in Seq(Q) /\ Blurs(d, x)
  BY <1>3, DecipherBlurs
<1>6. Way(downc, pendingc, posc, t) = x \o z /\ Way(<<>>, pendingc, posc, t) = z
  <2>1. <<>> \o z = z
    <3> HIDE DEF z, Q
    <3> QED
      BY <1>4
  <2> QED
    BY <2>1, NothingOnTheWay DEF Way
<1> HIDE DEF d, x, z, Q, B
<1>7. Blurs((got \o d) \o z, Line(A)) /\ got \o d \in Seq(Q)
  <2>1. Blurs(got \o (x \o z), Line(A))
    BY <1>3, <1>6
  <2> QED
    BY <1>3, <1>4, <1>5, <2>1, BlursMore
<1>8. <<>> \in Seq(B)
  OBVIOUS
<1>9. DownIn(O, A, t, got \o d, <<>>, pendingc, posc)
  BY <1>2, <1>3, <1>6, <1>7, <1>8 DEF DownIn, Q, B
<1>10. DownBy(O, A, t, phase, secret, iv, got \o d, <<>>, pendingc, posc, leftc, todoc, D)
  BY <1>1, <1>9 DEF DownBy
<1> QED
  BY <1>10 DEF DownFlow, d

\* The first whole frame is the next packet, or does not parse.
LEMMA DownHandles ==
  ASSUME NEW phase, NEW secret, NEW iv, NEW got, NEW downc, NEW pendingc, NEW posc, NEW leftc,
         NEW todoc, NEW D,
         DownFlow(phase, secret, iv, got, downc, pendingc, posc, leftc, todoc, D),
         got # <<>>, got[1].t = "len", Len(got) > got[1].n, NEW zip \in Int,
         decode_frame(SubSeq(got, 1, got[1].n + 1), zip) # NoPacket
  PROVE  /\ Len(D) > 0
         /\ decode_frame(SubSeq(got, 1, got[1].n + 1), zip) = D[1].packet
         /\ DownFlow(phase, secret, iv, SubSeq(got, got[1].n + 2, Len(got)), downc, pendingc, posc,
                     leftc, todoc, Tail(D))
<1>1. PICK O, A, t : DownBy(O, A, t, phase, secret, iv, got, downc, pendingc, posc, leftc, todoc, D)
  BY DEF DownFlow
<1> DEFINE Q == PieceOf(O)
           N == Entry(O)
           r == Way(downc, pendingc, posc, t)
           n == got[1].n + 1
           rest == SubSeq(got, n + 1, Len(got))
           p == decode_frame(SubSeq(got, 1, n), zip)
<1>2. /\ DownIn(O, A, t, got, downc, pendingc, posc) /\ D = A \o todoc
      /\ todoc \in Seq(Entry(O \ {NoPacket}))
  BY <1>1 DEF DownBy
<1>3. /\ NoPacket \in O /\ A \in Seq(N) /\ got \in Seq(Q) /\ t \in Seq(Q)
      /\ downc \in Seq(ByteOf(Q)) /\ pendingc \in Seq(ByteOf(Q))
      /\ posc \in 0 .. Len(pendingc)
      /\ Blurs(got \o r, Line(A))
  BY <1>2 DEF DownIn
<1>4. r \in Seq(Q)
  <2> HIDE DEF Q
  <2> QED
    BY <1>3, WayType
<1>5. got[1].n \in Nat /\ n <= Len(got) /\ n + 1 = got[1].n + 2
  <2>1. got[1] \in Q /\ Len(got) \in Nat
    BY <1>3
  <2>2. got[1].n \in Nat
    BY <2>1 DEF PieceOf
  <2> QED
    BY <2>1, <2>2
<1>6. /\ A # <<>> /\ A[1] \in N /\ Tail(A) \in Seq(N) /\ p \in {NoPacket, A[1].packet}
      /\ rest \in Seq(Q) /\ Blurs(rest \o r, Line(Tail(A)))
  <2> HIDE DEF r
  <2> QED
    BY <1>3, <1>4, <1>5, FrontIs, SMTT(30)
<1> HIDE DEF N
<1>7. Len(D) > 0 /\ D[1] = A[1] /\ Tail(D) = Tail(A) \o todoc
  <2>1. todoc \in Seq(N)
    <3>1. Entry(O \ {NoPacket}) \subseteq N
      BY DEF Entry, N
    <3> QED
      BY <1>2, <3>1, MoreOf
  <2>2. A = <<A[1]>> \o Tail(A)
    BY <1>3, <1>6
  <2> DEFINE x == <<A[1]>>
             y == Tail(A)
  <2>3. x \in Seq(N) /\ y \in Seq(N) /\ A = x \o y
    BY <1>6, <2>2
  <2> HIDE DEF x, y
  <2>4. (x \o y) \o todoc = x \o (y \o todoc) /\ y \o todoc \in Seq(N)
    BY <2>1, <2>3, SMTT(60)
  <2> DEFINE w == y \o todoc
  <2>5. D = x \o w
    BY <1>2, <2>3, <2>4
  <2>6. w \in Seq(N)
    BY <2>4
  <2> HIDE DEF w
  <2>7. D = <<A[1]>> \o w /\ A[1] \in N
    BY <1>6, <2>5 DEF x
  <2>8. Len(D) > 0 /\ D[1] = A[1] /\ Tail(D) = w
    BY <2>6, <2>7
  <2> QED
    BY <2>8 DEF w, y
<1> HIDE DEF rest, r, p
<1>8. p = A[1].packet
  BY <1>6 DEF p
<1>9. DownIn(O, Tail(A), t, rest, downc, pendingc, posc)
  BY <1>2, <1>3, <1>6 DEF DownIn, N, r
<1>10. DownBy(O, Tail(A), t, phase, secret, iv, rest, downc, pendingc, posc, leftc, todoc, Tail(D))
  BY <1>1, <1>7, <1>9 DEF DownBy
<1>11. DownFlow(phase, secret, iv, rest, downc, pendingc, posc, leftc, todoc, Tail(D))
  BY <1>10 DEF DownFlow
<1>12. rest = SubSeq(got, got[1].n + 2, Len(got))
  BY <1>5 DEF rest
<1> QED
  BY <1>7, <1>8, <1>11, <1>12 DEF p

\* The session ends and what it held is thrown away.
LEMMA DownStops ==
  ASSUME NEW phase, NEW secret, NEW iv, NEW got, NEW downc, NEW pendingc, NEW posc, NEW leftc, NEW D,
         DownFlow(phase, secret, iv, got, downc, pendingc, posc, leftc, <<>>, D)
  PROVE  DownFlow("gone", secret, iv, got, downc, <<>>, 0, <<>>, <<>>, D)
<1>1. PICK O, A, t : DownBy(O, A, t, phase, secret, iv, got, downc, pendingc, posc, leftc, <<>>, D)
  BY DEF DownFlow
<1> DEFINE Q == PieceOf(O)
           B == ByteOf(Q)
           z == Letters(Rest0(pendingc, posc)) \o t
<1>2. DownIn(O, A, t, got, downc, pendingc, posc)
  BY <1>1 DEF DownBy
<1>3. /\ NoPacket \in O /\ got \in Seq(Q) /\ t \in Seq(Q) /\ downc \in Seq(B) /\ pendingc \in Seq(B)
      /\ posc \in 0 .. Len(pendingc)
      /\ Blurs(got \o Way(downc, pendingc, posc, t), Line(A))
  BY <1>2 DEF DownIn
<1>4. z \in Seq(Q)
  <2> HIDE DEF Q
  <2> QED
    BY <1>3, WayType
<1>5. Way(downc, pendingc, posc, t) = Letters(downc) \o z
  BY DEF Way
<1> HIDE DEF z, Q, B
<1>6. Way(downc, <<>>, 0, z) = Letters(downc) \o z
  BY <1>4, WayPlain
<1>7. <<>> \in Seq(B) /\ 0 \in 0 .. Len(<<>>)
  OBVIOUS
<1>8. DownIn(O, A, z, got, downc, <<>>, 0)
  BY <1>2, <1>3, <1>4, <1>5, <1>6, <1>7 DEF DownIn, Q, B
<1>9. <<>> \in Seq(Q)
  OBVIOUS
<1>10. DownBy(O, A, z, "gone", secret, iv, got, downc, <<>>, 0, <<>>, <<>>, D)
  BY <1>1, <1>8, <1>9 DEF DownBy, Remains, Q
<1> QED
  BY <1>10 DEF DownFlow

\* They are a sequence.
LEMMA DownListed ==
  ASSUME NEW phase, NEW secret, NEW iv, NEW got, NEW downc, NEW pendingc, NEW posc, NEW leftc,
         NEW todoc, NEW D,
         DownFlow(phase, secret, iv, got, downc, pendingc, posc, leftc, todoc, D)
  PROVE  /\ \E N : D \in Seq(N)
         /\ D = <<>> => todoc = <<>>
         /\ Register(iv)
         /\ secret \/ pendingc = <<>>
<1>1. PICK O, A, t : DownBy(O, A, t, phase, secret, iv, got, downc, pendingc, posc, leftc, todoc, D)
  BY DEF DownFlow
<1> DEFINE N == Entry(O)
<1>2. /\ DownIn(O, A, t, got, downc, pendingc, posc) /\ D = A \o todoc
      /\ todoc \in Seq(Entry(O \ {NoPacket})) /\ Register(iv) /\ (secret \/ pendingc = <<>>)
  BY <1>1 DEF DownBy
<1>3. A \in Seq(N)
  BY <1>2 DEF DownIn
<1>4. todoc \in Seq(N)
  <2>1. Entry(O \ {NoPacket}) \subseteq N
    BY DEF Entry
  <2> HIDE DEF N
  <2> QED
    BY <1>2, <2>1, MoreOf
<1> HIDE DEF N
<1>5. D \in Seq(N) /\ Len(D) = Len(A) + Len(todoc) /\ Len(A) \in Nat /\ Len(todoc) \in Nat
  BY <1>2, <1>3, <1>4, ConcatIs
<1>6. D = <<>> => todoc = <<>>
  <2> SUFFICES ASSUME D = <<>> PROVE Len(todoc) = 0
    BY <1>4
  <2>1. Len(D) = 0
    OBVIOUS
  <2> QED
    BY <1>5, <2>1
<1> QED
  BY <1>2, <1>5, <1>6

(***************************************************************************)
(* A connection.  at is where the session is, or was when it ended; Pre    *)
(* and Upre are the packets of the login that are on the way down and up,  *)
(* before any of play.                                                     *)
(***************************************************************************)
Entered(at, cp, Pre, Upre, p) ==
  \/ /\ at = "encrypt" /\ cp = "login"
     /\ \/ Pre = <<Small(ENCRYPTION_REQUEST, 0)>> /\ Upre = <<>>
        \/ Pre = <<>> /\ Upre = <<Small(ENCRYPTION_RESPONSE, 1)>>
  \/ at = "success" /\ cp = "login" /\ Pre = <<>> /\ Upre = <<>>
  \/ /\ IF p >= 764 THEN at = "acknowledge" ELSE at \in {"joining", "play"}
     /\ cp = "login" /\ Upre = <<>>
     /\ \/ Pre = <<Small(LOGIN_SUCCESS, 0)>>
        \/ \E n \in Int : Pre = <<Small(SET_COMPRESSION, n), Small(LOGIN_SUCCESS, 0)>>
  \/ /\ at = "acknowledge" /\ cp = "configuration"
     /\ Pre = <<>> /\ Upre = <<Small(LOGIN_ACKNOWLEDGED, 0)>>
  \/ /\ at = "configuration" /\ cp = "configuration"
     /\ \/ /\ Pre = <<Small(REGISTRY_DATA, 0), Small(FINISH_CONFIGURATION, 0)>>
           /\ Upre = <<>>
        \/ /\ Pre = <<Small(FINISH_CONFIGURATION, 0)>>
           /\ Upre \in {<<>>, <<Small(CLIENT_INFORMATION, 0)>>}
  \/ /\ at = "configuration" /\ cp = "play" /\ Pre = <<>>
     /\ Upre \in {<<Small(FINISH_CONFIGURATION, 0)>>,
                  <<Small(CLIENT_INFORMATION, 0), Small(FINISH_CONFIGURATION, 0)>>}
  \/ at \in {"joining", "play"} /\ cp = "play" /\ Pre = <<>> /\ Upre = <<>>

Stage(at, cp, Pre, Upre, p) ==
  \/ at = "handshake" /\ cp = "start" /\ Pre = <<>> /\ Upre = <<>>
  \/ /\ at = "handshake" /\ cp = "login" /\ Pre = <<>>
     /\ \E w, i : w # 1 /\ Upre = <<Small(0, w), Small(i, 0)>>
  \/ /\ at = "login" /\ cp = "login"
     /\ \/ Pre = <<>> /\ \E i : Upre = <<Small(i, 0)>>
        \/ Pre = <<Small(LOGIN_DISCONNECT, 0)>> /\ Upre = <<>>
  \/ p \in SUPPORTED_PROTOCOLS /\ Entered(at, cp, Pre, Upre, p)

\* What is on the way to the client: the login's packets, then what was told.
Owed(D, Pre, toldc, heardc, p) ==
  /\ Len(Pre) <= Len(D) /\ Len(heardc) + (Len(D) - Len(Pre)) <= Len(toldc)
  /\ \A i \in 1 .. Len(D) :
       D[i].packet = IF i <= Len(Pre) THEN Pre[i]
                     ELSE translate_clientbound(toldc[Len(heardc) + (i - Len(Pre))], p)

\* The channel holds the rest of it.
Queued(queuec, toldc, n) == queuec = SubSeq(toldc, n + 1, Len(toldc))

\* What is on the way to the server: the login's packets, then what was said; last
\* the broken frame of a client that was lost.
Sent(U, Upre, saidc, takenc, p, lost) ==
  /\ \A i \in 1 .. Len(Upre) : i <= Len(U) => U[i].packet = Upre[i]
  /\ \A i \in 1 .. Len(saidc) - Len(takenc) :
       translate_serverbound(U[Len(Upre) + i].packet, p) = saidc[Len(takenc) + i]
  /\ \/ Len(U) = Len(Upre) + (Len(saidc) - Len(takenc))
     \/ /\ lost /\ Len(U) = Len(Upre) + (Len(saidc) - Len(takenc)) + 1
        /\ U[Len(U)].packet = NoPacket

\* A packet as the server builds it for a client of version p.
IsTold(packet, p) ==
  /\ packet.id \in play_cb /\ Sendable(packet.id, p)
  /\ packet = Packet(packet.id, Built(packet.id, p), packet.arg)

\* One that is built alike for all.
Others == play_cb \ {UPDATE_ADVANCEMENTS}
Alike(packet) ==
  packet.id \in Others /\ packet = Packet(packet.id, Body(packet.id), packet.arg)

HeardOk(p, phase, toldc, heardc) ==
  /\ Listed(toldc) /\ \A i \in 1 .. Len(toldc) : IsTold(toldc[i], p)
  /\ Listed(heardc) /\ Len(heardc) <= Len(toldc)
  /\ \A i \in 1 .. Len(heardc) : heardc[i] = translate_clientbound(toldc[i], p)
  /\ heardc # <<>> => phase \in {"play", "gone"} /\ p \in SUPPORTED_PROTOCOLS

Alive(phase) == phase \notin {"lost", "confused", "left"}

SaidOk(phase, saidc, takenc) ==
  /\ Listed(saidc) /\ Listed(takenc)
  /\ Alive(phase) /\ phase # "play" => saidc = <<>>
  /\ Alive(phase) \/ saidc # <<>> =>
       Len(takenc) <= Len(saidc) /\ \A i \in 1 .. Len(takenc) : takenc[i] = saidc[i]

Downward(c, D) ==
  DownFlow(srv[c].phase, srv[c].secret, srv[c].outIv, cli[c].got, down[c], pending[c], pos[c],
           left[c], todo[c], D)

Below(c, at, Pre, D) ==
  /\ Downward(c, D) /\ Owed(D, Pre, told[c], heard[c], Protocol(c))
  /\ at # "play" => Len(D) = Len(Pre) /\ heard[c] = <<>>
  /\ srv[c].phase = "play" =>
       todo[c] = <<>> /\ Queued(queue[c], told[c], Len(heard[c]) + (Len(D) - Len(Pre)))

Upward(c, Upre, lost) ==
  srv[c].phase # "gone" =>
    \E U : /\ UpFlow(srv[c].got, up[c], U)
           /\ Sent(U, Upre, said[c], taken[c], Protocol(c), lost)

CanWrite(c) == Register(cli[c].outIv) /\ cli[c].zip \in Int

Talking(c, at, Pre, Upre, D) ==
  /\ Stage(at, cli[c].phase, Pre, Upre, Protocol(c)) /\ srv[c].phase \in {at, "gone"}
  /\ Below(c, at, Pre, D) /\ Upward(c, Upre, FALSE) /\ CanWrite(c)

\* A client that asks for the status only.
Asking(c) ==
  /\ CanWrite(c)
  /\ \/ srv[c].phase \in {"status", "gone"}
     \/ /\ srv[c].phase = "handshake"
        /\ \E U : UpFlow(srv[c].got, up[c], U) /\ U # <<>> /\ U[1].packet = Small(0, 1)

\* A client that is gone, and what it said is still to be read.
Late(c) ==
  \E Upre : Stage(srv[c].phase, "play", <<>>, Upre, Protocol(c)) /\ Upward(c, Upre, TRUE)

Histories(c) ==
  /\ srv[c].zip \in Int
  /\ task[c] = "on" => srv[c].phase = "play"
  /\ HeardOk(Protocol(c), srv[c].phase, told[c], heard[c])
  /\ SaidOk(cli[c].phase, said[c], taken[c])

Wired(c) ==
  /\ Histories(c)
  /\ Alive(cli[c].phase) /\ cli[c].phase # "status" =>
       \E at, Pre, Upre, D : Talking(c, at, Pre, Upre, D)
  /\ cli[c].phase = "status" => Asking(c)
  /\ ~Alive(cli[c].phase) /\ said[c] # <<>> /\ srv[c].phase # "gone" => Late(c)

PeerFields == {"phase", "secret", "inIv", "outIv", "zip", "got"}
Shapes ==
  /\ DOMAIN srv = Clients /\ \A c \in Clients : DOMAIN srv[c] = PeerFields
  /\ DOMAIN cli = Clients /\ \A c \in Clients : DOMAIN cli[c] = PeerFields
  /\ DOMAIN todo = Clients /\ DOMAIN queue = Clients /\ DOMAIN task = Clients
  /\ DOMAIN left = Clients /\ DOMAIN pending = Clients /\ DOMAIN pos = Clients
  /\ DOMAIN down = Clients /\ DOMAIN up = Clients /\ DOMAIN told = Clients
  /\ DOMAIN heard = Clients /\ DOMAIN said = Clients /\ DOMAIN taken = Clients

Same(c) ==
  /\ srv'[c] = srv[c] /\ cli'[c] = cli[c] /\ todo'[c] = todo[c] /\ queue'[c] = queue[c]
  /\ task'[c] = task[c] /\ left'[c] = left[c] /\ pending'[c] = pending[c] /\ pos'[c] = pos[c]
  /\ down'[c] = down[c] /\ up'[c] = up[c] /\ told'[c] = told[c] /\ heard'[c] = heard[c]
  /\ said'[c] = said[c] /\ taken'[c] = taken[c]

\* A connection nothing happens to.
LEMMA SameWired ==
  ASSUME NEW c, Same(c), setup' = setup, Wired(c)
  PROVE  Wired(c)'
<1>1. Protocol(c)' = Protocol(c)
  BY DEF Protocol
<1>2. Histories(c)'
  BY <1>1 DEF Same, Wired, Histories
<1>3. ASSUME NEW at, NEW Pre, NEW Upre, NEW D, Talking(c, at, Pre, Upre, D)
      PROVE  Talking(c, at, Pre, Upre, D)'
  BY <1>1, <1>3 DEF Same, Talking, Below, Downward, Upward, CanWrite
<1>4. Asking(c) => Asking(c)'
  BY DEF Same, Asking, CanWrite
<1>5. Late(c) => Late(c)'
  BY <1>1 DEF Same, Late, Upward
<1> QED
  BY <1>1, <1>2, <1>3, <1>4, <1>5 DEF Same, Wired

\* Who else is there, when one connection steps.
Only(c) == \A d \in Clients \ {c} : Same(d)

\* Only what is on the way down is somewhere else.
Moved(c) ==
  /\ srv'[c].phase = srv[c].phase /\ srv'[c].zip = srv[c].zip /\ srv'[c].got = srv[c].got
  /\ cli'[c].phase = cli[c].phase /\ cli'[c].zip = cli[c].zip /\ cli'[c].outIv = cli[c].outIv
  /\ queue'[c] = queue[c] /\ task'[c] = task[c] /\ up'[c] = up[c]
  /\ told'[c] = told[c] /\ heard'[c] = heard[c] /\ said'[c] = said[c] /\ taken'[c] = taken[c]
  /\ todo[c] = <<>> => todo'[c] = <<>>

LEMMA MovedWired ==
  ASSUME NEW c, Moved(c), setup' = setup, Wired(c), \A D : Downward(c, D) => Downward(c, D)'
  PROVE  Wired(c)'
<1>1. Protocol(c)' = Protocol(c)
  BY DEF Protocol
<1>2. Histories(c)'
  BY <1>1 DEF Moved, Wired, Histories
<1>3. ASSUME NEW at, NEW Pre, NEW Upre, NEW D, Talking(c, at, Pre, Upre, D)
      PROVE  Talking(c, at, Pre, Upre, D)'
  <2>1. Below(c, at, Pre, D)'
    BY <1>1, <1>3 DEF Moved, Talking, Below
  <2>2. Upward(c, Upre, FALSE)' /\ CanWrite(c)'
    BY <1>1, <1>3 DEF Moved, Talking, Upward, CanWrite
  <2> QED
    BY <1>1, <1>3, <2>1, <2>2 DEF Moved, Talking
<1>4. Asking(c) => Asking(c)'
  BY DEF Moved, Asking, CanWrite
<1>5. Late(c) => Late(c)'
  BY <1>1 DEF Moved, Late, Upward
<1> QED
  BY <1>1, <1>2, <1>3, <1>4, <1>5 DEF Moved, Wired

(***************************************************************************)
(* The steps of the writing half.                                          *)
(***************************************************************************)
Steps(c) == Shapes' /\ Only(c) /\ setup' = setup /\ Wired(c)'

LEMMA WritesPlain ==
  ASSUME Shapes, NEW c \in Clients, Wired(c), PollWritePlain(c)
  PROVE  Steps(c)
<1>1. PICK k \in 1 .. Len(left[c]) :
        /\ down' = [down EXCEPT ![c] = @ \o Clear(SubSeq(left[c], 1, k))]
        /\ left' = [left EXCEPT ![c] = SubSeq(@, k + 1, Len(@))]
  BY DEF PollWritePlain, Accepts
<1>2. /\ ~srv[c].secret
      /\ UNCHANGED <<setup, srv, todo, hand, taken, cli, heard, said, task, pending, pos, queue, up, told>>
  BY DEF PollWritePlain, srvVars, cliVars
<1>3. /\ down'[c] = down[c] \o Clear(SubSeq(left[c], 1, k))
      /\ left'[c] = SubSeq(left[c], k + 1, Len(left[c]))
  BY <1>1 DEF Shapes
<1>4. \A D : Downward(c, D) => Downward(c, D)'
  BY <1>2, <1>3, DownPlain DEF Downward
<1>5. Shapes' /\ Only(c)
  BY <1>1, <1>2 DEF Shapes, Only, Same
<1>6. Wired(c)'
  BY <1>2, <1>4, MovedWired DEF Moved
<1> QED
  BY <1>2, <1>5, <1>6 DEF Steps

LEMMA WritesBuffered ==
  ASSUME Shapes, NEW c \in Clients, Wired(c), Drain(c)
  PROVE  Steps(c)
<1>1. PICK k \in 1 .. Len(pending[c]) - pos[c] :
        /\ down' = [down EXCEPT ![c] = @ \o SubSeq(pending[c], pos[c] + 1, pos[c] + k)]
        /\ IF pos[c] + k = Len(pending[c])
           THEN pending' = [pending EXCEPT ![c] = <<>>] /\ pos' = [pos EXCEPT ![c] = 0]
           ELSE pending' = pending /\ pos' = [pos EXCEPT ![c] = @ + k]
  BY DEF Drain, Accepts
<1>2. UNCHANGED <<setup, srv, todo, hand, taken, cli, heard, said, task, left, queue, up, told>>
  BY DEF Drain, srvVars, cliVars
<1>3. /\ down'[c] = down[c] \o SubSeq(pending[c], pos[c] + 1, pos[c] + k)
      /\ pending'[c] = IF pos[c] + k = Len(pending[c]) THEN <<>> ELSE pending[c]
      /\ pos'[c] = IF pos[c] + k = Len(pending[c]) THEN 0 ELSE pos[c] + k
  BY <1>1 DEF Shapes
<1>4. \A D : Downward(c, D) => Downward(c, D)'
  BY <1>2, <1>3, DownDrains DEF Downward
<1>5. Shapes' /\ Only(c)
  BY <1>1, <1>2 DEF Shapes, Only, Same
<1>6. Wired(c)'
  BY <1>2, <1>4, MovedWired DEF Moved
<1> QED
  BY <1>2, <1>5, <1>6 DEF Steps

LEMMA WritesEncrypted ==
  ASSUME Shapes, NEW c \in Clients, Wired(c), PollWriteEncrypted(c)
  PROVE  Steps(c)
<1> DEFINE enc == Cfb8Encrypt(srv[c].outIv, left[c])
<1>1. PICK k \in {0} \cup Accepts(c, Len(enc)) :
        /\ down' = [down EXCEPT ![c] = @ \o SubSeq(enc, 1, k)]
        /\ pending' = [pending EXCEPT ![c] = IF k < Len(left[c]) THEN enc ELSE <<>>]
        /\ pos' = [pos EXCEPT ![c] = IF k < Len(left[c]) THEN k ELSE 0]
        /\ srv' = [srv EXCEPT ![c].outIv = Fed(@, enc)]
        /\ left' = [left EXCEPT ![c] = <<>>]
  BY DEF PollWriteEncrypted, Unwritten, Retained
<1>2. /\ srv[c].secret /\ left[c] # <<>> /\ pending[c] = <<>>
      /\ UNCHANGED <<setup, todo, hand, taken, cli, heard, said, task, queue, up, told>>
  BY DEF PollWriteEncrypted, cliVars
<1> HIDE DEF enc
<1>3. /\ down'[c] = down[c] \o SubSeq(enc, 1, k)
      /\ pending'[c] = IF k < Len(left[c]) THEN enc ELSE <<>>
      /\ pos'[c] = IF k < Len(left[c]) THEN k ELSE 0
      /\ left'[c] = <<>>
  BY <1>1 DEF Shapes
<1>4. /\ srv'[c].phase = srv[c].phase /\ srv'[c].secret = srv[c].secret
      /\ srv'[c].outIv = Fed(srv[c].outIv, enc) /\ srv'[c].zip = srv[c].zip
      /\ srv'[c].got = srv[c].got /\ DOMAIN srv'[c] = PeerFields
  BY <1>1 DEF Shapes, PeerFields
<1>5. ASSUME NEW D, Downward(c, D) PROVE Downward(c, D)'
  <2>1. DownFlow(srv[c].phase, srv[c].secret, srv[c].outIv, cli[c].got, down[c], <<>>, pos[c],
                 left[c], todo[c], D)
    BY <1>2, <1>5 DEF Downward
  <2>2. Len(enc) \in Nat
    <3>1. PICK O, A, t : DownBy(O, A, t, srv[c].phase, srv[c].secret, srv[c].outIv, cli[c].got, down[c],
                          <<>>, pos[c], left[c], todo[c], D)
      BY <2>1 DEF DownFlow
    <3>2. left[c] \in Seq(PieceOf(O)) /\ Register(srv[c].outIv)
      BY <3>1 DEF DownBy
    <3> QED
      BY <3>2, CipherBytes DEF enc
  <2>3. k \in 0 .. Len(enc)
    BY <2>2 DEF Accepts
  <2>4. DownFlow(srv[c].phase, srv[c].secret, Fed(srv[c].outIv, enc), cli[c].got,
                 down[c] \o SubSeq(enc, 1, k), IF k < Len(left[c]) THEN enc ELSE <<>>,
                 IF k < Len(left[c]) THEN k ELSE 0, <<>>, todo[c], D)
    BY <1>2, <2>1, <2>3, DownEncrypts DEF enc
  <2> QED
    BY <1>2, <1>3, <1>4, <2>4 DEF Downward
<1>6. Shapes' /\ Only(c)
  BY <1>1, <1>2, <1>4 DEF Shapes, Only, Same
<1>7. Wired(c)'
  BY <1>2, <1>4, <1>5, MovedWired DEF Moved
<1> QED
  BY <1>2, <1>6, <1>7 DEF Steps

LEMMA WritesFrames ==
  ASSUME Shapes, NEW c \in Clients, Wired(c), WritesOwn(c)
  PROVE  Steps(c)
<1>1. /\ todo[c] # <<>> /\ left[c] = <<>> /\ pending[c] = <<>>
      /\ left' = [left EXCEPT ![c] = encode_frame(Head(todo[c]).packet, Head(todo[c]).zip)]
      /\ todo' = [todo EXCEPT ![c] = Tail(@)]
      /\ UNCHANGED <<setup, srv, hand, taken, cli, heard, said, task, pending, pos, queue, down, up, told>>
  BY DEF WritesOwn, Settled, cliVars
<1>2. /\ left'[c] = encode_frame(Head(todo[c]).packet, Head(todo[c]).zip)
      /\ todo'[c] = Tail(todo[c])
  BY <1>1 DEF Shapes
<1>3. \A D : Downward(c, D) => Downward(c, D)'
  BY <1>1, <1>2, DownFrames DEF Downward
<1>4. Shapes' /\ Only(c)
  BY <1>1 DEF Shapes, Only, Same
<1>5. Wired(c)'
  BY <1>1, <1>3, MovedWired DEF Moved
<1> QED
  BY <1>1, <1>4, <1>5 DEF Steps

LEMMA ReadsBytes ==
  ASSUME Shapes, NEW c \in Clients, Wired(c), ClientReads(c)
  PROVE  Steps(c)
<1>1. /\ cli' = [cli EXCEPT
           ![c].got = @ \o Decipher(cli[c].secret, cli[c].inIv, down[c]),
           ![c].inIv = IF cli[c].secret THEN Fed(@, down[c]) ELSE @]
      /\ down' = [down EXCEPT ![c] = <<>>]
      /\ UNCHANGED <<setup, srv, todo, hand, taken, heard, said, task, left, pending, pos, queue, up, told>>
  BY DEF ClientReads, srvVars, outVars
<1>2. /\ cli'[c].phase = cli[c].phase /\ cli'[c].zip = cli[c].zip /\ cli'[c].outIv = cli[c].outIv
      /\ cli'[c].got = cli[c].got \o Decipher(cli[c].secret, cli[c].inIv, down[c])
      /\ down'[c] = <<>> /\ DOMAIN cli'[c] = PeerFields
  BY <1>1 DEF Shapes, PeerFields
<1>3. ASSUME NEW D, Downward(c, D) PROVE Downward(c, D)'
  <2>1. DownFlow(srv[c].phase, srv[c].secret, srv[c].outIv,
                 cli[c].got \o Decipher(cli[c].secret, cli[c].inIv, down[c]), <<>>, pending[c],
                 pos[c], left[c], todo[c], D)
    BY <1>3, DownReads DEF Downward
  <2> QED
    BY <1>1, <1>2, <2>1 DEF Downward
<1>4. Shapes' /\ Only(c)
  BY <1>1, <1>2 DEF Shapes, Only, Same
<1>5. Wired(c)'
  BY <1>1, <1>2, <1>3, MovedWired DEF Moved
<1> QED
  BY <1>1, <1>4, <1>5 DEF Steps

(***************************************************************************)
(* What is owed and sent, as it goes.                                      *)
(***************************************************************************)
LEMMA StageIs ==
  ASSUME NEW at, NEW cp, NEW Pre, NEW Upre, NEW p, Stage(at, cp, Pre, Upre, p)
  PROVE  /\ Len(Pre) \in Nat /\ Len(Upre) \in Nat
         /\ \E S : Pre \in Seq(S) /\ Upre \in Seq(S)
         /\ Alive(cp) /\ cp # "status"
         /\ cp = "play" => Pre = <<>>
         /\ at \in {"joining", "play"} => Upre = <<>> /\ p \in SUPPORTED_PROTOCOLS
         /\ at \in {"handshake", "login", "encrypt", "success", "acknowledge", "configuration",
                    "joining", "play"}
         /\ cp # "play" => cp \in {"start", "login", "configuration"}
<1>1. /\ Len(Pre) \in Nat /\ Len(Upre) \in Nat
      /\ \E S : Pre \in Seq(S) /\ Upre \in Seq(S)
  <2> DEFINE S == {Pre[1], Pre[2], Upre[1], Upre[2]}
  <2>1. /\ \/ Pre = <<>>
           \/ Pre = <<Pre[1]>>
           \/ Pre = <<Pre[1], Pre[2]>>
        /\ \/ Upre = <<>>
           \/ Upre = <<Upre[1]>>
           \/ Upre = <<Upre[1], Upre[2]>>
    BY DEF Stage, Entered
  <2>2. Pre[1] \in S /\ Pre[2] \in S /\ Upre[1] \in S /\ Upre[2] \in S
    OBVIOUS
  <2> HIDE DEF S
  <2>3. <<>> \in Seq(S) /\ \A x, y \in S : <<x>> \in Seq(S) /\ <<x, y>> \in Seq(S)
    OBVIOUS
  <2>4. Pre \in Seq(S)
    BY <2>1, <2>2, <2>3
  <2>5. Upre \in Seq(S)
    BY <2>1, <2>2, <2>3
  <2> QED
    BY <2>4, <2>5
<1>2. /\ cp \in {"start", "login", "configuration", "play"}
      /\ cp = "play" => Pre = <<>>
      /\ at \in {"handshake", "login", "encrypt", "success", "acknowledge", "configuration",
                 "joining", "play"}
  BY DEF Stage, Entered
<1>3. at \in {"joining", "play"} => Upre = <<>> /\ p \in SUPPORTED_PROTOCOLS
  BY DEF Stage, Entered
<1> QED
  BY <1>1, <1>2, <1>3 DEF Alive

LEMMA OwedGrows ==
  ASSUME NEW N, NEW D \in Seq(N), NEW e \in N, NEW Pre, Len(Pre) \in Nat, NEW toldc, NEW heardc,
         NEW p, Len(toldc) \in Nat, Len(heardc) \in Nat, Owed(D, Pre, toldc, heardc, p),
         NEW n, n = Len(heardc) + (Len(D) - Len(Pre)), n + 1 <= Len(toldc),
         e.packet = translate_clientbound(toldc[n + 1], p)
  PROVE  /\ Owed(D \o <<e>>, Pre, toldc, heardc, p) /\ Len(D \o <<e>>) = Len(D) + 1
<1> DEFINE E == D \o <<e>>
<1>1. Len(E) = Len(D) + 1 /\ Len(D) \in Nat /\ E[Len(D) + 1] = e /\ \A i \in 1 .. Len(D) : E[i] = D[i]
  OBVIOUS
<1> HIDE DEF E
<1>2. /\ Len(Pre) <= Len(D)
      /\ \A i \in 1 .. Len(D) :
           D[i].packet = IF i <= Len(Pre) THEN Pre[i]
                         ELSE translate_clientbound(toldc[Len(heardc) + (i - Len(Pre))], p)
  BY DEF Owed
<1>3. ASSUME NEW i \in 1 .. Len(D) + 1
      PROVE  E[i].packet = IF i <= Len(Pre) THEN Pre[i]
                           ELSE translate_clientbound(toldc[Len(heardc) + (i - Len(Pre))], p)
  <2>1. CASE i \in 1 .. Len(D)
    BY <1>1, <1>2, <2>1
  <2>2. CASE i = Len(D) + 1
    <3>1. ~(i <= Len(Pre)) /\ Len(heardc) + (i - Len(Pre)) = n + 1
      BY <1>1, <1>2, <2>2
    <3> QED
      BY <1>1, <2>2, <3>1
  <2> QED
    BY <1>1, <2>1, <2>2
<1>4. Len(Pre) <= Len(E) /\ Len(heardc) + (Len(E) - Len(Pre)) <= Len(toldc)
  BY <1>1, <1>2
<1> QED
  BY <1>1, <1>3, <1>4 DEF Owed, E

\* The client handles the first of them.
LEMMA OwedNext ==
  ASSUME NEW N, NEW D \in Seq(N), Len(D) > 0, NEW S, NEW Pre \in Seq(S), NEW toldc, NEW heardc,
         NEW p, Len(toldc) \in Nat, Len(heardc) \in Nat, Owed(D, Pre, toldc, heardc, p),
         Pre # <<>>
  PROVE  /\ D[1].packet = Pre[1] /\ Owed(Tail(D), Tail(Pre), toldc, heardc, p)
         /\ Len(Tail(D)) - Len(Tail(Pre)) = Len(D) - Len(Pre)
<1> DEFINE E == Tail(D)
           due(i) == IF i <= Len(Pre) THEN Pre[i]
                     ELSE translate_clientbound(toldc[Len(heardc) + (i - Len(Pre))], p)
<1>1. Len(E) = Len(D) - 1 /\ Len(D) \in Nat /\ 1 \in 1 .. Len(D) /\ \A i \in 1 .. Len(E) : E[i] = D[i + 1] /\ i + 1 \in 1 .. Len(D)
  OBVIOUS
<1> HIDE DEF E
<1>2. /\ Len(Pre) <= Len(D) /\ Len(heardc) + (Len(D) - Len(Pre)) <= Len(toldc)
      /\ \A i \in 1 .. Len(D) : D[i].packet = due(i)
  BY DEF Owed
<1>3. Len(Pre) \in Nat
  OBVIOUS
<1>4. /\ D[1].packet = Pre[1] /\ Owed(E, Tail(Pre), toldc, heardc, p)
      /\ Len(E) - Len(Tail(Pre)) = Len(D) - Len(Pre)
  <2> DEFINE R == Tail(Pre)
  <2>1. Len(R) = Len(Pre) - 1 /\ 1 <= Len(Pre) /\ \A i \in 1 .. Len(R) : R[i] = Pre[i + 1]
    OBVIOUS
  <2> HIDE DEF R
  <2>2. D[1].packet = Pre[1]
    BY <1>1, <1>2, <2>1
  <2>3. ASSUME NEW i \in 1 .. Len(E)
        PROVE  E[i].packet = IF i <= Len(R) THEN R[i]
                             ELSE translate_clientbound(toldc[Len(heardc) + (i - Len(R))], p)
    <3>1. E[i].packet = due(i + 1)
      BY <1>1, <1>2
    <3>2. CASE i <= Len(R)
      <4>1. i \in 1 .. Len(R) /\ i + 1 <= Len(Pre)
        BY <1>1, <1>3, <2>1, <3>2
      <4> QED
        BY <2>1, <3>1, <4>1, <3>2
    <3>3. CASE ~(i <= Len(R))
      <4>1. ~(i + 1 <= Len(Pre)) /\ (i + 1) - Len(Pre) = i - Len(R)
        BY <1>1, <1>3, <2>1, <3>3
      <4> QED
        BY <3>1, <3>3, <4>1
    <3> QED
      BY <3>2, <3>3
  <2>4. /\ Len(R) <= Len(E) /\ Len(heardc) + (Len(E) - Len(R)) <= Len(toldc)
        /\ Len(E) - Len(R) = Len(D) - Len(Pre)
    BY <1>1, <1>2, <1>3, <2>1
  <2> QED
    BY <2>2, <2>3, <2>4 DEF Owed, R
<1> QED
  BY <1>4 DEF E

\* The first of what is on the way is the next of what was told; h is one longer.
OneHeard(D, Pre, toldc, heardc, p, h) ==
  /\ \E N : D \in Seq(N)
  /\ Len(D) > 0 /\ Len(Pre) = 0 /\ Len(toldc) \in Nat /\ Len(heardc) \in Nat
  /\ Owed(D, Pre, toldc, heardc, p) /\ Len(h) = Len(heardc) + 1

LEMMA OwedHeard ==
  ASSUME NEW D, NEW Pre, NEW toldc, NEW heardc, NEW p, NEW h,
         OneHeard(D, Pre, toldc, heardc, p, h)
  PROVE  /\ D[1].packet = translate_clientbound(toldc[Len(heardc) + 1], p)
         /\ Len(heardc) + 1 <= Len(toldc)
         /\ Owed(Tail(D), Pre, toldc, h, p)
         /\ Len(h) + (Len(Tail(D)) - Len(Pre)) = Len(heardc) + (Len(D) - Len(Pre))
<1> DEFINE E == Tail(D)
<1>0. /\ Len(D) > 0 /\ Len(Pre) = 0 /\ Len(toldc) \in Nat /\ Len(heardc) \in Nat
      /\ Owed(D, Pre, toldc, heardc, p) /\ Len(h) = Len(heardc) + 1
  BY DEF OneHeard
<1>7. PICK N : D \in Seq(N)
  BY DEF OneHeard
<1>1. Len(E) = Len(D) - 1 /\ Len(D) \in Nat /\ 1 \in 1 .. Len(D) /\ \A i \in 1 .. Len(E) : E[i] = D[i + 1] /\ i + 1 \in 1 .. Len(D)
  BY <1>0, <1>7
<1> HIDE DEF E
<1>2. /\ Len(heardc) + Len(D) <= Len(toldc)
      /\ \A i \in 1 .. Len(D) : D[i].packet = translate_clientbound(toldc[Len(heardc) + i], p)
  <2>1. /\ Len(heardc) + (Len(D) - Len(Pre)) <= Len(toldc)
        /\ \A i \in 1 .. Len(D) :
             D[i].packet = IF i <= Len(Pre) THEN Pre[i]
                           ELSE translate_clientbound(toldc[Len(heardc) + (i - Len(Pre))], p)
    BY <1>0 DEF Owed
  <2>2. \A i \in 1 .. Len(D) : ~(i <= Len(Pre)) /\ i - Len(Pre) = i
    BY <1>0, <1>1
  <2> QED
    BY <1>0, <1>1, <2>1, <2>2
<1>3. D[1].packet = translate_clientbound(toldc[Len(heardc) + 1], p) /\ Len(heardc) + 1 <= Len(toldc)
  BY <1>0, <1>1, <1>2
<1>4. ASSUME NEW i \in 1 .. Len(E)
      PROVE  E[i].packet = IF i <= Len(Pre) THEN Pre[i]
                           ELSE translate_clientbound(toldc[Len(h) + (i - Len(Pre))], p)
  <2>1. E[i].packet = translate_clientbound(toldc[Len(heardc) + (i + 1)], p)
    BY <1>0, <1>1, <1>2
  <2>2. ~(i <= Len(Pre)) /\ Len(heardc) + (i + 1) = Len(h) + (i - Len(Pre))
    BY <1>0, <1>1
  <2> QED
    BY <2>1, <2>2
<1>5. Len(Pre) <= Len(E) /\ Len(h) + (Len(E) - Len(Pre)) <= Len(toldc)
      /\ Len(h) + (Len(E) - Len(Pre)) = Len(heardc) + (Len(D) - Len(Pre))
  BY <1>0, <1>1, <1>2
<1>6. Owed(E, Pre, toldc, h, p)
  BY <1>4, <1>5 DEF Owed
<1> QED
  BY <1>3, <1>5, <1>6 DEF E

\* More is told.
LEMMA OwedTold ==
  ASSUME NEW N, NEW D \in Seq(N), NEW Pre, Len(Pre) \in Nat, NEW T, NEW toldc \in Seq(T),
         NEW x \in T, NEW heardc, NEW p, Len(heardc) \in Nat, Owed(D, Pre, toldc, heardc, p)
  PROVE  Owed(D, Pre, Append(toldc, x), heardc, p)
<1>1. /\ Len(Append(toldc, x)) = Len(toldc) + 1 /\ Len(toldc) \in Nat /\ Len(D) \in Nat
      /\ \A i \in 1 .. Len(toldc) : Append(toldc, x)[i] = toldc[i]
  OBVIOUS
<1> DEFINE u == Append(toldc, x)
<1> HIDE DEF u
<1>2. /\ Len(Pre) <= Len(D) /\ Len(heardc) + (Len(D) - Len(Pre)) <= Len(toldc)
      /\ \A i \in 1 .. Len(D) :
           D[i].packet = IF i <= Len(Pre) THEN Pre[i]
                         ELSE translate_clientbound(toldc[Len(heardc) + (i - Len(Pre))], p)
  BY DEF Owed
<1>3. ASSUME NEW i \in 1 .. Len(D), ~(i <= Len(Pre))
      PROVE  u[Len(heardc) + (i - Len(Pre))] = toldc[Len(heardc) + (i - Len(Pre))]
  <2>1. Len(heardc) + (i - Len(Pre)) \in 1 .. Len(toldc)
    BY <1>1, <1>2, <1>3
  <2> QED
    BY <1>1, <2>1 DEF u
<1>4. Len(heardc) + (Len(D) - Len(Pre)) <= Len(u)
  BY <1>1, <1>2 DEF u
<1>5. Owed(D, Pre, u, heardc, p)
  BY <1>2, <1>3, <1>4 DEF Owed
<1> QED
  BY <1>5 DEF u

LEMMA QueuedTold ==
  ASSUME NEW T, NEW toldc \in Seq(T), NEW x \in T, NEW n \in Nat, n <= Len(toldc),
         NEW queuec, Queued(queuec, toldc, n)
  PROVE  Queued(Append(queuec, x), Append(toldc, x), n)
<1> DEFINE u == Append(toldc, x)
           m == Len(toldc)
<1>1. u \in Seq(T) /\ Len(u) = m + 1 /\ m \in Nat /\ u[m + 1] = x /\ \A i \in 1 .. m : u[i] = toldc[i]
  OBVIOUS
<1> HIDE DEF u
<1>2. queuec \in Seq(T) /\ Len(queuec) = m - n /\ \A i \in 1 .. m - n : queuec[i] = toldc[n + i]
  <2>1. n \in 0 .. m
    OBVIOUS
  <2> QED
    BY <2>1, SplitAt DEF Queued
<1>3. /\ SubSeq(u, n + 1, Len(u)) \in Seq(T) /\ Len(SubSeq(u, n + 1, Len(u))) = m + 1 - n
      /\ \A i \in 1 .. m + 1 - n : SubSeq(u, n + 1, Len(u))[i] = u[n + i]
  <2>1. n \in 0 .. Len(u)
    BY <1>1
  <2> QED
    BY <1>1, <2>1, SplitAt
<1> DEFINE a == Append(queuec, x)
           b == SubSeq(u, n + 1, Len(u))
<1>4. a \in Seq(T) /\ Len(a) = m - n + 1 /\ a[m - n + 1] = x /\ \A i \in 1 .. m - n : a[i] = queuec[i]
  BY <1>2
<1> HIDE DEF a, b
<1>5. ASSUME NEW i \in 1 .. m - n + 1 PROVE a[i] = b[i]
  <2>1. CASE i \in 1 .. m - n
    <3>1. n + i \in 1 .. m /\ i \in 1 .. m + 1 - n
      BY <1>1, <2>1
    <3> QED
      BY <1>1, <1>2, <1>3, <1>4, <2>1, <3>1 DEF b
  <2>2. CASE i = m - n + 1
    <3>1. n + i = m + 1 /\ i \in 1 .. m + 1 - n
      BY <1>1, <2>2
    <3> QED
      BY <1>1, <1>3, <1>4, <2>2, <3>1 DEF b
  <2> QED
    BY <1>1, <2>1, <2>2
<1>6. b \in Seq(T) /\ Len(b) = m - n + 1
  BY <1>1, <1>3 DEF b
<1>7. a = b
  BY <1>4, <1>5, <1>6, SeqEqual
<1> QED
  BY <1>7 DEF Queued, a, b, u

LEMMA QueuedNext ==
  ASSUME NEW T, NEW toldc \in Seq(T), NEW n \in Nat, n <= Len(toldc),
         NEW queuec, Queued(queuec, toldc, n), queuec # <<>>
  PROVE  /\ n + 1 <= Len(toldc) /\ Head(queuec) = toldc[n + 1]
         /\ Queued(Tail(queuec), toldc, n + 1)
<1>1. Len(toldc) \in Nat
  OBVIOUS
<1>2. queuec \in Seq(T) /\ Len(queuec) = Len(toldc) - n
  <2>1. n \in 0 .. Len(toldc)
    BY <1>1
  <2> QED
    BY <2>1, SplitAt DEF Queued
<1>3. n + 1 <= Len(toldc)
  <2>1. Len(queuec) # 0
    BY <1>2
  <2> QED
    BY <1>1, <1>2, <2>1
<1>4. n + 1 \in 1 .. Len(toldc) /\ Len(toldc) \in n + 1 .. Len(toldc)
  BY <1>1, <1>3
<1>5. /\ Head(SubSeq(toldc, n + 1, Len(toldc))) = toldc[n + 1]
      /\ Tail(SubSeq(toldc, n + 1, Len(toldc))) = SubSeq(toldc, (n + 1) + 1, Len(toldc))
  BY <1>4, HeadTailOfSubSeq
<1> QED
  BY <1>3, <1>5 DEF Queued

\* The server takes the first packet.
LEMMA SentNext ==
  ASSUME NEW N, NEW U \in Seq(N), U # <<>>, NEW S, NEW Upre \in Seq(S), NEW saidc, NEW takenc, NEW p,
         NEW lost, Len(saidc) \in Nat, Len(takenc) \in Nat, Len(takenc) <= Len(saidc),
         Sent(U, Upre, saidc, takenc, p, lost), U[1].packet # NoPacket
  PROVE  /\ Upre # <<>> => U[1].packet = Upre[1] /\ Sent(Tail(U), Tail(Upre), saidc, takenc, p, lost)
         /\ Upre = <<>> =>
              /\ Len(takenc) + 1 <= Len(saidc)
              /\ translate_serverbound(U[1].packet, p) = saidc[Len(takenc) + 1]
              /\ \A t : Len(t) = Len(takenc) + 1 => Sent(Tail(U), <<>>, saidc, t, p, lost)
<1> DEFINE E == Tail(U)
           k == Len(saidc) - Len(takenc)
<1>1. /\ Len(E) = Len(U) - 1 /\ Len(U) \in Nat /\ 1 \in 1 .. Len(U)
      /\ \A i \in Nat : i >= 1 /\ i <= Len(E) => E[i] = U[i + 1]
  OBVIOUS
<1> HIDE DEF E
<1>2. /\ \A i \in 1 .. Len(Upre) : i <= Len(U) => U[i].packet = Upre[i]
      /\ \A i \in 1 .. k : translate_serverbound(U[Len(Upre) + i].packet, p) = saidc[Len(takenc) + i]
      /\ \/ Len(U) = Len(Upre) + k
         \/ lost /\ Len(U) = Len(Upre) + k + 1 /\ U[Len(U)].packet = NoPacket
  BY DEF Sent
<1>3. Len(Upre) \in Nat /\ k \in Nat
  OBVIOUS
<1> HIDE DEF k
<1>4. ASSUME Upre # <<>>
      PROVE  U[1].packet = Upre[1] /\ Sent(E, Tail(Upre), saidc, takenc, p, lost)
  <2> DEFINE R == Tail(Upre)
  <2>1. Len(R) = Len(Upre) - 1 /\ 1 <= Len(Upre) /\ \A i \in 1 .. Len(R) : R[i] = Upre[i + 1]
    BY <1>4
  <2> HIDE DEF R
  <2>2. U[1].packet = Upre[1]
    BY <1>1, <1>2, <1>3, <2>1
  <2>3. ASSUME NEW i \in 1 .. Len(R), i <= Len(E) PROVE E[i].packet = R[i]
    <3>1. i + 1 \in 1 .. Len(Upre) /\ i + 1 <= Len(U) /\ i \in Nat /\ i >= 1
      BY <1>1, <1>3, <2>1, <2>3
    <3> QED
      BY <1>1, <1>2, <2>1, <2>3, <3>1
  <2>4. ASSUME NEW i \in 1 .. k
        PROVE  translate_serverbound(E[Len(R) + i].packet, p) = saidc[Len(takenc) + i]
    <3>1. /\ Len(R) + i \in Nat /\ Len(R) + i >= 1 /\ Len(R) + i <= Len(E)
          /\ (Len(R) + i) + 1 = Len(Upre) + i
      BY <1>1, <1>2, <1>3, <2>1
    <3>2. E[Len(R) + i] = U[Len(Upre) + i]
      BY <1>1, <3>1
    <3> QED
      BY <1>2, <3>2
  <2>5. \/ Len(E) = Len(R) + k
        \/ lost /\ Len(E) = Len(R) + k + 1 /\ E[Len(E)].packet = NoPacket
    <3>1. CASE Len(U) = Len(Upre) + k
      BY <1>1, <1>3, <2>1, <3>1
    <3>2. CASE lost /\ Len(U) = Len(Upre) + k + 1 /\ U[Len(U)].packet = NoPacket
      <4>1. Len(E) = Len(R) + k + 1 /\ Len(E) \in Nat /\ Len(E) >= 1 /\ Len(E) + 1 = Len(U)
        BY <1>1, <1>3, <2>1, <3>2
      <4>2. E[Len(E)] = U[Len(U)]
        BY <1>1, <4>1
      <4> QED
        BY <3>2, <4>1, <4>2
    <3> QED
      BY <1>2, <3>1, <3>2
  <2> QED
    BY <2>2, <2>3, <2>4, <2>5 DEF Sent, R, k
<1>5. ASSUME Upre = <<>>
      PROVE  /\ Len(takenc) + 1 <= Len(saidc)
             /\ translate_serverbound(U[1].packet, p) = saidc[Len(takenc) + 1]
             /\ \A t : Len(t) = Len(takenc) + 1 => Sent(E, <<>>, saidc, t, p, lost)
  <2>0. Len(Upre) = 0
    BY <1>5
  <2>1. k >= 1
    <3>1. CASE Len(U) = Len(Upre) + k
      BY <1>1, <1>3, <2>0, <3>1
    <3>2. CASE lost /\ Len(U) = Len(Upre) + k + 1 /\ U[Len(U)].packet = NoPacket
      <4>1. k # 0
        BY <2>0, <3>2
      <4> QED
        BY <1>3, <4>1
    <3> QED
      BY <1>2, <3>1, <3>2
  <2>2. Len(takenc) + 1 <= Len(saidc) /\ translate_serverbound(U[1].packet, p) = saidc[Len(takenc) + 1]
    <3>1. 1 \in 1 .. k /\ Len(Upre) + 1 = 1
      BY <1>3, <2>0, <2>1
    <3>2. translate_serverbound(U[1].packet, p) = saidc[Len(takenc) + 1]
      BY <1>2, <3>1
    <3> QED
      BY <2>1, <3>2 DEF k
  <2>3. ASSUME NEW t, Len(t) = Len(takenc) + 1 PROVE Sent(E, <<>>, saidc, t, p, lost)
    <3> DEFINE h == Len(saidc) - Len(t)
    <3>1. h = k - 1 /\ Len(<<>>) = 0
      BY <2>3 DEF k
    <3> HIDE DEF h
    <3>2. ASSUME NEW i \in 1 .. h
          PROVE  translate_serverbound(E[Len(<<>>) + i].packet, p) = saidc[Len(t) + i]
      <4>1. i \in Nat /\ i >= 1 /\ i <= Len(E) /\ i + 1 \in 1 .. k /\ Len(Upre) + (i + 1) = i + 1
            /\ Len(takenc) + (i + 1) = Len(t) + i /\ Len(<<>>) + i = i
        BY <1>1, <1>2, <1>3, <2>0, <2>3, <3>1
      <4>2. E[i] = U[i + 1]
        BY <1>1, <4>1
      <4>3. translate_serverbound(U[Len(Upre) + (i + 1)].packet, p) = saidc[Len(takenc) + (i + 1)]
        BY <1>2, <4>1
      <4> QED
        BY <4>1, <4>2, <4>3
    <3>3. \/ Len(E) = Len(<<>>) + h
          \/ lost /\ Len(E) = Len(<<>>) + h + 1 /\ E[Len(E)].packet = NoPacket
      <4>1. CASE Len(U) = Len(Upre) + k
        BY <1>1, <1>3, <2>0, <3>1, <4>1
      <4>2. CASE lost /\ Len(U) = Len(Upre) + k + 1 /\ U[Len(U)].packet = NoPacket
        <5>1. Len(E) = Len(<<>>) + h + 1 /\ Len(E) \in Nat /\ Len(E) >= 1 /\ Len(E) + 1 = Len(U)
          BY <1>1, <1>3, <2>0, <2>1, <3>1, <4>2
        <5>2. E[Len(E)] = U[Len(U)]
          BY <1>1, <5>1
        <5> QED
          BY <4>2, <5>1, <5>2
      <4> QED
        BY <1>2, <4>1, <4>2
    <3>4. \A i \in 1 .. Len(<<>>) : i <= Len(E) => E[i].packet = <<>>[i]
      OBVIOUS
    <3> QED
      BY <3>2, <3>3, <3>4 DEF Sent, h
  <2> QED
    BY <2>2, <2>3
<1> QED
  BY <1>4, <1>5 DEF E

LEMMA UpListed ==
  ASSUME NEW got, NEW upc, NEW U, UpFlow(got, upc, U)
  PROVE  \E N : U \in Seq(N)
  BY DEF UpFlow, UpFlowIn

(***************************************************************************)
(* What the tables come to.                                                *)
(***************************************************************************)
LEMMA WireOf ==
  ASSUME NEW p \in SUPPORTED_PROTOCOLS, NEW x, IsTold(x, p)
  PROVE  /\ translate_clientbound(x, p) # NoPacket
         /\ translate_clientbound(x, p).arg = x.arg
         /\ Foreign(x.id, p) \/ Arrives(x.id, translate_clientbound(x, p), p)
<1> DEFINE id == x.id
           z == Packet(id, Built(id, p), 0)
           w == translate_clientbound(x, p)
           v == translate_clientbound(z, p)
<1>1. id \in play_cb /\ Sendable(id, p) /\ x = Packet(id, Built(id, p), x.arg)
  BY DEF IsTold
<1>2. Reaches(id, p)
  <2> HIDE DEF id
  <2> QED
    BY <1>1, TablesAssumption
<1>3. v.id >= 0 /\ (Foreign(id, p) \/ Arrives(id, v, p))
  BY <1>1, <1>2 DEF Reaches
<1>4. x.id = id /\ x.body = Built(id, p) /\ z.id = id /\ z.body = Built(id, p)
      /\ x = [id |-> id, body |-> Built(id, p), arg |-> x.arg]
      /\ z = [id |-> id, body |-> Built(id, p), arg |-> 0]
  <2> DEFINE B == Built(id, p)
             a == x.arg
  <2>1. x = [id |-> id, body |-> B, arg |-> a]
    BY <1>1 DEF Packet
  <2> HIDE DEF B, a
  <2>2. x.body = B
    BY <2>1
  <2> QED
    BY <2>1, <2>2 DEF Packet, B, a
<1> HIDE DEF id, z
<1>5. w.id = v.id /\ w.body = v.body /\ w.arg = x.arg
  <2>1. CASE p = PROTOCOL_VERSION
    BY <1>4, <2>1 DEF translate_clientbound
  <2>2. CASE p # PROTOCOL_VERSION
    <3> DEFINE i == remap_play_clientbound(id, p)
               b == rewrite_clientbound_body(id, p, Built(id, p))
    <3>1. /\ w = [x EXCEPT !.id = i, !.body = b] /\ v = [z EXCEPT !.id = i, !.body = b]
      BY <1>4, <2>2 DEF translate_clientbound
    <3> DEFINE a == x.arg
               B == Built(id, p)
    <3>2. /\ x = [id |-> id, body |-> B, arg |-> a] /\ z = [id |-> id, body |-> B, arg |-> 0]
      BY <1>4
    <3> HIDE DEF i, b, w, v, a, B
    <3>3. w.id = i /\ w.body = b /\ w.arg = a /\ v.id = i /\ v.body = b
      BY <3>1, <3>2
    <3> QED
      BY <3>3 DEF a
  <2> QED
    BY <2>1, <2>2
<1> HIDE DEF w, v
<1>6. Arrives(id, v, p) => Arrives(id, w, p)
  <2>1. ReadAs(w, p) = ReadAs(v, p)
    BY <1>5 DEF ReadAs
  <2> QED
    BY <1>5, <2>1 DEF Arrives
<1>7. w # NoPacket
  <2>1. NoPacket.id = -1
    BY DEF NoPacket, Packet
  <2> QED
    BY <1>3, <1>5, <2>1
<1> QED
  BY <1>3, <1>5, <1>6, <1>7 DEF id, w

LEMMA SaidPacket ==
  ASSUME NEW s \in Setups, NEW c \in Clients, NEW x \in s.speech[c]
  PROVE  x.id \in {CHAT_COMMAND, CHAT_MESSAGE, KEEP_ALIVE_REPLY} /\ x = Small(x.id, x.arg)
  BY SetupsAssumption

LEMMA Hears ==
  ASSUME NEW p \in SUPPORTED_PROTOCOLS, NEW id \in {CHAT_COMMAND, CHAT_MESSAGE, KEEP_ALIVE_REPLY},
         NEW arg, p <= 758 => id = KEEP_ALIVE_REPLY, NEW x, x = Small(id, arg),
         NEW y, y = [x EXCEPT !.id = ClientId(id, p)]
  PROVE  y # NoPacket /\ translate_serverbound(y, p) = x
<1> DEFINE n == ClientId(id, p)
<1>1. Understood(id, p)
  <2>1. p \in Nat
    BY DEF SUPPORTED_PROTOCOLS
  <2>2. id = KEEP_ALIVE_REPLY \/ p > 758
    BY <2>1
  <2> QED
    BY <2>2, TablesAssumption
<1>2. n >= 0 /\ remap_play_serverbound(n, p) = id
  BY <1>1 DEF Understood
<1> HIDE DEF n
<1>3. y = [id |-> n, body |-> <<>>, arg |-> arg] /\ x = [id |-> id, body |-> <<>>, arg |-> arg]
  BY DEF n, Small, Packet
<1>4. y # NoPacket
  <2>1. NoPacket.id = -1 /\ y.id = n
    BY <1>3 DEF NoPacket, Packet
  <2>2. n # -1
    BY <1>2
  <2> QED
    BY <2>1, <2>2, Zenon
<1>5. translate_serverbound(y, p) = x
  <2>1. CASE p = PROTOCOL_VERSION
    <3>1. remap_play_serverbound(n, p) = n
      BY <2>1 DEF remap_play_serverbound, PROTOCOL_VERSION
    <3> QED
      BY <1>2, <1>3, <2>1, <3>1 DEF translate_serverbound
  <2>2. CASE p # PROTOCOL_VERSION
    <3>1. translate_serverbound(y, p) = [y EXCEPT !.id = remap_play_serverbound(y.id, p)]
      BY <2>2 DEF translate_serverbound
    <3>2. y.id = n
      BY <1>3
    <3>3. translate_serverbound(y, p) = [y EXCEPT !.id = id]
      BY <1>2, <3>1, <3>2
    <3>4. [y EXCEPT !.id = id] = [id |-> id, body |-> <<>>, arg |-> arg]
      <4>1. \A m : [[id |-> m, body |-> <<>>, arg |-> arg] EXCEPT !.id = id]
                  = [id |-> id, body |-> <<>>, arg |-> arg]
        OBVIOUS
      <4> QED
        BY <1>3, <4>1, Zenon
    <3> QED
      BY <1>3, <3>3, <3>4, Zenon
  <2> QED
    BY <2>1, <2>2
<1> QED
  BY <1>4, <1>5

(***************************************************************************)
(* The steps of the session in play.                                       *)
(***************************************************************************)
\* What holds of whoever has not been lost.
LEMMA TalkIs ==
  ASSUME NEW c, Histories(c), NEW at, NEW Pre, NEW Upre, NEW D, Talking(c, at, Pre, Upre, D)
  PROVE  /\ \E N : D \in Seq(N)
         /\ Len(D) \in Nat /\ Len(Pre) \in Nat /\ Len(heard[c]) \in Nat /\ Len(told[c]) \in Nat
         /\ told[c] \in Seq(Range(told[c]))
         /\ Len(heard[c]) + (Len(D) - Len(Pre)) \in Nat
         /\ Len(heard[c]) + (Len(D) - Len(Pre)) <= Len(told[c])
         /\ Register(srv[c].outIv) /\ (srv[c].secret \/ pending[c] = <<>>)
         /\ D = <<>> => todo[c] = <<>>
<1>1. /\ \E N : D \in Seq(N)
      /\ Register(srv[c].outIv) /\ (srv[c].secret \/ pending[c] = <<>>)
      /\ D = <<>> => todo[c] = <<>>
  BY DownListed DEF Talking, Below, Downward
<1>2. Len(D) \in Nat
  BY <1>1
<1>3. Len(Pre) \in Nat
  BY StageIs DEF Talking
<1>4. told[c] \in Seq(Range(told[c])) /\ Len(heard[c]) \in Nat
  BY DEF Histories, HeardOk, Listed
<1>5. /\ Len(Pre) <= Len(D) /\ Len(heard[c]) + (Len(D) - Len(Pre)) <= Len(told[c])
  BY DEF Talking, Below, Owed
<1>6. Len(told[c]) \in Nat
  BY <1>4
<1>7. Len(heard[c]) + (Len(D) - Len(Pre)) \in Nat
  BY <1>2, <1>3, <1>4, <1>5
<1> QED
  BY <1>1, <1>2, <1>3, <1>4, <1>5, <1>6, <1>7

LEMMA OneMore ==
  ASSUME NEW a \in Nat, NEW b \in Nat, NEW k \in Nat
  PROVE  a + ((b + 1) - k) = (a + (b - k)) + 1
  OBVIOUS

LEMMA WritesPayload ==
  ASSUME Shapes, NEW c \in Clients, Wired(c), WriterTakes(c)
  PROVE  Steps(c)
<1> DEFINE x == Head(queue[c])
           p == Protocol(c)
           w == translate_clientbound(x, p)
           e == [packet |-> w, zip |-> srv[c].zip]
<1>1. /\ task[c] = "on" /\ left[c] = <<>> /\ pending[c] = <<>> /\ queue[c] # <<>>
      /\ left' = [left EXCEPT ![c] = encode_frame(w, srv[c].zip)]
      /\ queue' = [queue EXCEPT ![c] = Tail(queue[c])]
      /\ UNCHANGED <<setup, srv, todo, hand, taken, cli, heard, said, task, pending, pos, down, up, told>>
  BY DEF WriterTakes, Settled, srvVars, cliVars
<1>2. left'[c] = encode_frame(w, srv[c].zip) /\ queue'[c] = Tail(queue[c])
  BY <1>1 DEF Shapes
<1>3. Shapes' /\ Only(c)
  BY <1>1 DEF Shapes, Only, Same
<1>4. Histories(c) /\ srv[c].phase = "play" /\ srv[c].zip \in Int
  <2>1. Histories(c)
    BY DEF Wired
  <2>2. srv[c].zip \in Int /\ (task[c] = "on" => srv[c].phase = "play")
    BY <2>1 DEF Histories
  <2> QED
    BY <1>1, <2>1, <2>2
<1>5. Protocol(c)' = Protocol(c)
  BY <1>1 DEF Protocol
<1> HIDE DEF x, p, w, e
<1>6. ASSUME NEW at, NEW Pre, NEW Upre, NEW D, Talking(c, at, Pre, Upre, D)
      PROVE  \E E : Talking(c, at, Pre, Upre, E)'
  <2> DEFINE n == Len(heard[c]) + (Len(D) - Len(Pre))
             T == Range(told[c])
  <2>0. PICK E : E = D \o <<e>>
    OBVIOUS
  <2>1. /\ Len(heard[c]) \in Nat /\ Len(Pre) \in Nat /\ n \in Nat /\ n <= Len(told[c])
        /\ told[c] \in Seq(T) /\ Len(told[c]) \in Nat /\ Register(srv[c].outIv)
    BY <1>4, <1>6, TalkIs
  <2>2. PICK N : D \in Seq(N)
    BY <1>4, <1>6, TalkIs
  <2>3. /\ at = "play" /\ p \in SUPPORTED_PROTOCOLS
        /\ Downward(c, D) /\ Owed(D, Pre, told[c], heard[c], p)
        /\ todo[c] = <<>> /\ Queued(queue[c], told[c], n)
    <3>1. at = "play"
      BY <1>4, <1>6 DEF Talking
    <3>2. p \in SUPPORTED_PROTOCOLS
      BY <1>6, <3>1, StageIs DEF Talking, p
    <3> QED
      BY <1>4, <1>6, <3>1, <3>2 DEF Talking, Below, p
  <2> HIDE DEF T, n
  <2>4. n + 1 <= Len(told[c]) /\ x = told[c][n + 1] /\ Queued(Tail(queue[c]), told[c], n + 1)
    BY <1>1, <2>1, <2>3, QueuedNext DEF x
  <2>5. w # NoPacket
    <3>1. n + 1 \in 1 .. Len(told[c])
      BY <2>1, <2>4
    <3>2. IsTold(x, p)
      BY <1>4, <2>4, <3>1 DEF Histories, HeardOk, p
    <3> QED
      BY <2>3, <3>2, WireOf DEF w
  <2>6. DownFlow(srv[c].phase, srv[c].secret, srv[c].outIv, cli[c].got, down[c], pending[c], pos[c],
                 left[c], <<e>>, E)
    <3> DEFINE R == {w}
    <3>1. NoPacket \notin R /\ <<e>> \in Seq(Entry(R))
      <4>1. e \in Entry(R)
        BY <1>4 DEF Entry, e
      <4> QED
        BY <2>5, <4>1
    <3> HIDE DEF R
    <3>2. DownFlow(srv[c].phase, srv[c].secret, srv[c].outIv, cli[c].got, down[c], pending[c], pos[c],
                   left[c], <<>>, D)
      BY <2>3 DEF Downward
    <3>3. srv[c].phase # "gone"
      BY <1>4
    <3> QED
      BY <1>1, <2>0, <2>1, <3>1, <3>2, <3>3, DownTodo
  <2>7. DownFlow(srv[c].phase, srv[c].secret, srv[c].outIv, cli[c].got, down[c], pending[c], pos[c],
                 encode_frame(w, srv[c].zip), <<>>, E)
    <3>1. Head(<<e>>).packet = w /\ Head(<<e>>).zip = srv[c].zip /\ Tail(<<e>>) = <<>> /\ <<e>> # <<>>
      BY DEF e
    <3> DEFINE t == <<e>>
    <3>2. DownFlow(srv[c].phase, srv[c].secret, srv[c].outIv, cli[c].got, down[c], <<>>, pos[c],
                   <<>>, t, E)
      BY <1>1, <2>6
    <3>3. Head(t).packet = w /\ Head(t).zip = srv[c].zip /\ Tail(t) = <<>> /\ t # <<>>
      BY <3>1
    <3> HIDE DEF t
    <3>4. DownFlow(srv[c].phase, srv[c].secret, srv[c].outIv, cli[c].got, down[c], <<>>, pos[c],
                   encode_frame(Head(t).packet, Head(t).zip), Tail(t), E)
      BY <3>2, <3>3, DownFrames
    <3> QED
      BY <1>1, <3>3, <3>4
  <2>8. Owed(E, Pre, told[c], heard[c], p) /\ Len(E) = Len(D) + 1
    <3> DEFINE M == N \cup {e}
    <3>1. D \in Seq(M) /\ e \in M /\ e.packet = translate_clientbound(told[c][n + 1], p)
      <4>1. N \subseteq M
        OBVIOUS
      <4>2. e.packet = w
        BY DEF e
      <4> HIDE DEF M
      <4>3. D \in Seq(M)
        BY <2>2, <4>1, MoreOf
      <4> QED
        BY <2>4, <4>2, <4>3 DEF w, M
    <3> HIDE DEF M
    <3> QED
      BY <2>0, <2>1, <2>3, <2>4, <3>1, OwedGrows DEF n
  <2>9. Len(heard[c]) + (Len(E) - Len(Pre)) = n + 1 /\ Len(D) \in Nat
    <3>1. Len(D) \in Nat
      BY <2>2
    <3>2. Len(E) = Len(D) + 1
      BY <2>8
    <3>3. Len(heard[c]) \in Nat /\ Len(Pre) \in Nat
      BY <2>1
    <3>4. Len(heard[c]) + ((Len(D) + 1) - Len(Pre)) = n + 1
      BY <3>1, <3>3, OneMore DEF n
    <3> QED
      BY <3>1, <3>2, <3>4
  <2>10. Below(c, at, Pre, E)'
    <3>1. Downward(c, E)'
      <4>1. /\ srv'[c] = srv[c] /\ cli'[c] = cli[c] /\ down'[c] = down[c] /\ pending'[c] = pending[c]
            /\ pos'[c] = pos[c] /\ todo'[c] = <<>> /\ left'[c] = encode_frame(w, srv[c].zip)
        BY <1>1, <1>2, <2>3
      <4> QED
        BY <4>1, <2>7 DEF Downward
    <3> QED
      BY <1>1, <1>2, <1>5, <2>3, <2>4, <2>8, <2>9, <3>1 DEF Below, p
  <2>11. Upward(c, Upre, FALSE)' /\ CanWrite(c)'
    BY <1>1, <1>5, <1>6 DEF Talking, Upward, CanWrite
  <2> QED
    BY <1>1, <1>5, <1>6, <2>10, <2>11 DEF Talking
<1>7. Histories(c)'
  BY <1>1, <1>4, <1>5 DEF Histories
<1>8. cli[c].phase = "status" => Asking(c)'
  BY <1>1 DEF Asking, CanWrite, Wired
<1>9. ~Alive(cli[c].phase) /\ said[c] # <<>> /\ srv[c].phase # "gone" => Late(c)'
  BY <1>1, <1>5 DEF Wired, Late, Upward
<1>10. Wired(c)'
  BY <1>1, <1>6, <1>7, <1>8, <1>9 DEF Wired
<1> QED
  BY <1>1, <1>3, <1>10 DEF Steps

(***************************************************************************)
(* A write that fails, and bytes read.                                     *)
(***************************************************************************)
LEMMA WritingFails ==
  ASSUME Shapes, NEW c \in Clients, Wired(c), WriteFails(c)
  PROVE  Steps(c)
<1>1. /\ cli[c].phase = "left"
      /\ left' = [left EXCEPT ![c] = <<>>] /\ pending' = [pending EXCEPT ![c] = <<>>]
      /\ pos' = [pos EXCEPT ![c] = 0] /\ todo' = [todo EXCEPT ![c] = <<>>]
      /\ task' = [task EXCEPT ![c] = IF InPlay(c) THEN "off" ELSE @]
      /\ srv' = [srv EXCEPT ![c].phase = IF InPlay(c) THEN @ ELSE "gone"]
      /\ UNCHANGED <<setup, hand, taken, cli, heard, said, queue, down, up, told>>
  BY DEF WriteFails, Left, cliVars
<1>2. /\ srv'[c].phase = IF srv[c].phase = "play" THEN "play" ELSE "gone"
      /\ srv'[c].zip = srv[c].zip /\ srv'[c].got = srv[c].got /\ DOMAIN srv'[c] = PeerFields
      /\ task'[c] = IF srv[c].phase = "play" THEN "off" ELSE task[c]
  BY <1>1 DEF Shapes, PeerFields, InPlay
<1>3. Shapes' /\ Only(c)
  BY <1>1, <1>2 DEF Shapes, Only, Same
<1>4. Protocol(c)' = Protocol(c)
  BY <1>1 DEF Protocol
<1>5. Histories(c)
  BY DEF Wired
<1>6. Histories(c)'
  <2>1. HeardOk(Protocol(c), srv'[c].phase, told[c], heard[c])
    BY <1>2, <1>5 DEF Histories, HeardOk
  <2>2. srv'[c].zip \in Int /\ (task'[c] = "on" => srv'[c].phase = "play")
    BY <1>2, <1>5 DEF Histories
  <2>3. SaidOk(cli[c].phase, said[c], taken[c])
    BY <1>5 DEF Histories
  <2> QED
    BY <1>1, <1>4, <2>1, <2>2, <2>3 DEF Histories
<1>7. ~Alive(cli[c].phase) /\ cli[c].phase # "status"
  BY <1>1 DEF Alive
<1>8. said[c] # <<>> /\ srv'[c].phase # "gone" => Late(c)'
  <2>1. said[c] # <<>> /\ srv'[c].phase # "gone" => Late(c) /\ srv'[c].phase = srv[c].phase
    BY <1>2, <1>7 DEF Wired
  <2>2. Late(c) /\ srv'[c].phase = srv[c].phase => Late(c)'
    BY <1>1, <1>2, <1>4 DEF Late, Upward
  <2> QED
    BY <2>1, <2>2
<1>9. Wired(c)'
  BY <1>1, <1>6, <1>7, <1>8 DEF Wired
<1> QED
  BY <1>1, <1>3, <1>9 DEF Steps

LEMMA ReadsOn ==
  ASSUME Shapes, NEW c \in Clients, Wired(c), ReadMore(c)
  PROVE  Steps(c)
<1>1. PICK k \in 1 .. Len(up[c]) :
        /\ srv' = [srv EXCEPT
             ![c].got = @ \o Decipher(srv[c].secret, srv[c].inIv, SubSeq(up[c], 1, k)),
             ![c].inIv = IF srv[c].secret THEN Fed(@, SubSeq(up[c], 1, k)) ELSE @]
        /\ up' = [up EXCEPT ![c] = SubSeq(@, k + 1, Len(@))]
  BY DEF ReadMore
<1>2. UNCHANGED <<setup, todo, hand, taken, task, left, pending, pos, cli, heard, said, queue, down, told>>
  BY DEF ReadMore, outVars, cliVars
<1>3. /\ srv'[c].phase = srv[c].phase /\ srv'[c].zip = srv[c].zip
      /\ srv'[c].secret = srv[c].secret /\ srv'[c].outIv = srv[c].outIv
      /\ srv'[c].got = srv[c].got \o Decipher(srv[c].secret, srv[c].inIv, SubSeq(up[c], 1, k))
      /\ DOMAIN srv'[c] = PeerFields /\ up'[c] = SubSeq(up[c], k + 1, Len(up[c]))
  <2> DEFINE d == Decipher(srv[c].secret, srv[c].inIv, SubSeq(up[c], 1, k))
             iv == IF srv[c].secret THEN Fed(srv[c].inIv, SubSeq(up[c], 1, k)) ELSE srv[c].inIv
  <2>1. /\ srv' = [srv EXCEPT ![c].got = @ \o d, ![c].inIv = iv]
        /\ up' = [up EXCEPT ![c] = SubSeq(@, k + 1, Len(@))]
    BY <1>1
  <2> HIDE DEF d, iv
  <2>2. /\ srv'[c].phase = srv[c].phase /\ srv'[c].zip = srv[c].zip
        /\ srv'[c].secret = srv[c].secret /\ srv'[c].outIv = srv[c].outIv
        /\ srv'[c].got = srv[c].got \o d /\ DOMAIN srv'[c] = PeerFields
    BY <2>1 DEF Shapes, PeerFields
  <2>3. up'[c] = SubSeq(up[c], k + 1, Len(up[c]))
    BY <2>1 DEF Shapes
  <2> QED
    BY <2>2, <2>3 DEF d
<1>4. Shapes' /\ Only(c)
  BY <1>1, <1>2, <1>3 DEF Shapes, Only, Same
<1>5. Protocol(c)' = Protocol(c)
  BY <1>2 DEF Protocol
<1>6. Histories(c)'
  BY <1>2, <1>3, <1>5 DEF Wired, Histories
<1>7. ASSUME NEW U, UpFlow(srv[c].got, up[c], U) PROVE UpFlow(srv'[c].got, up'[c], U)
  BY <1>3, <1>7, UpReads
<1>8. ASSUME NEW Upre, NEW lost, Upward(c, Upre, lost) PROVE Upward(c, Upre, lost)'
  BY <1>2, <1>3, <1>5, <1>7, <1>8 DEF Upward
<1>9. ASSUME NEW at, NEW Pre, NEW Upre, NEW D, Talking(c, at, Pre, Upre, D)
      PROVE  Talking(c, at, Pre, Upre, D)'
  <2>1. Below(c, at, Pre, D)'
    BY <1>2, <1>3, <1>5, <1>9 DEF Talking, Below, Downward
  <2>2. Upward(c, Upre, FALSE)' /\ CanWrite(c)'
    BY <1>2, <1>8, <1>9 DEF Talking, CanWrite
  <2> QED
    BY <1>2, <1>3, <1>5, <1>9, <2>1, <2>2 DEF Talking
<1>10. Asking(c) => Asking(c)'
  BY <1>2, <1>3, <1>7 DEF Asking, CanWrite
<1>11. Late(c) => Late(c)'
  BY <1>2, <1>3, <1>5, <1>8 DEF Late
<1>12. Wired(c)'
  BY <1>2, <1>3, <1>6, <1>9, <1>10, <1>11 DEF Wired
<1> QED
  BY <1>2, <1>4, <1>12 DEF Steps

\* A packet dealt with, and whatever happens elsewhere.
LEMMA Untouched ==
  ASSUME Shapes, NEW c \in Clients, Wired(c),
         UNCHANGED <<setup, srv, todo, taken, task, left, pending, pos, cli, heard, said, queue,
                     down, up, told>>
  PROVE  Steps(c)
<1>1. Shapes' /\ Only(c)
  BY DEF Shapes, Only, Same
<1>2. Wired(c)'
  BY SameWired DEF Same
<1> QED
  BY <1>1, <1>2 DEF Steps

(***************************************************************************)
(* The session takes a frame before play, and turns to another phase.      *)
(***************************************************************************)
LEMMA UpTurn ==
  ASSUME NEW c, Histories(c), FrameIn(c), Frame(c) # NoPacket,
         Alive(cli[c].phase) \/ said[c] # <<>>,
         NEW S, NEW Upre \in Seq(S), NEW lost, Upward(c, Upre, lost)
  PROVE  /\ Upre # <<>> =>
              /\ Frame(c) = Upre[1]
              /\ \E U : /\ UpFlow(<<>>, up[c], U)
                        /\ Sent(U, Tail(Upre), said[c], taken[c], Protocol(c), lost)
         /\ Upre = <<>> =>
              /\ Len(taken[c]) + 1 <= Len(said[c])
              /\ translate_serverbound(Frame(c), Protocol(c)) = said[c][Len(taken[c]) + 1]
              /\ \A t : Len(t) = Len(taken[c]) + 1 =>
                   \E U : /\ UpFlow(<<>>, up[c], U)
                          /\ Sent(U, <<>>, said[c], t, Protocol(c), lost)
<1>1. Missing(srv[c].got) = 0 /\ srv[c].phase # "gone" /\ srv[c].zip \in Int
  BY DEF FrameIn, Reading, Gone, Histories
<1>2. PICK U : /\ UpFlow(srv[c].got, up[c], U)
               /\ Sent(U, Upre, said[c], taken[c], Protocol(c), lost)
  BY <1>1 DEF Upward
<1>3. decode_frame(srv[c].got, srv[c].zip) # NoPacket /\ Frame(c) = decode_frame(srv[c].got, srv[c].zip)
  BY DEF Frame
<1>4. U # <<>> /\ Frame(c) = U[1].packet /\ UpFlow(<<>>, up[c], Tail(U))
  BY <1>1, <1>2, <1>3, UpTakes
<1>5. PICK N : U \in Seq(N)
  BY <1>2, UpListed
<1>6. Len(said[c]) \in Nat /\ Len(taken[c]) \in Nat /\ Len(taken[c]) <= Len(said[c])
  BY DEF Histories, SaidOk, Listed
<1>7. U[1].packet # NoPacket
  BY <1>4
<1>8. /\ Upre # <<>> => /\ U[1].packet = Upre[1]
                       /\ Sent(Tail(U), Tail(Upre), said[c], taken[c], Protocol(c), lost)
      /\ Upre = <<>> =>
           /\ Len(taken[c]) + 1 <= Len(said[c])
           /\ translate_serverbound(U[1].packet, Protocol(c)) = said[c][Len(taken[c]) + 1]
           /\ \A t : Len(t) = Len(taken[c]) + 1
                => Sent(Tail(U), <<>>, said[c], t, Protocol(c), lost)
  BY <1>2, <1>4, <1>5, <1>6, <1>7, SentNext
<1> QED
  BY <1>4, <1>8

LEMMA TalkTurn ==
  ASSUME NEW c, Histories(c), FrameIn(c), Frame(c) # NoPacket, ~InPlay(c), srv[c].phase # "joining",
         NEW at, NEW Pre, NEW Upre, NEW D, Talking(c, at, Pre, Upre, D)
  PROVE  /\ Upre # <<>> /\ Frame(c) = Upre[1] /\ srv[c].phase = at
         /\ \E U : /\ UpFlow(<<>>, up[c], U)
                   /\ Sent(U, Tail(Upre), said[c], taken[c], Protocol(c), FALSE)
<1>1. Stage(at, cli[c].phase, Pre, Upre, Protocol(c)) /\ Upward(c, Upre, FALSE)
      /\ srv[c].phase \in {at, "gone"}
  BY DEF Talking
<1>2. srv[c].phase = at /\ at \notin {"joining", "play"}
  BY <1>1 DEF FrameIn, Reading, Gone, InPlay
<1>3. Alive(cli[c].phase) /\ \E S : Upre \in Seq(S)
  BY <1>1, StageIs
<1>4. Upre # <<>>
  <2> SUFFICES ASSUME Upre = <<>> PROVE FALSE
    OBVIOUS
  <2>1. Len(taken[c]) + 1 <= Len(said[c])
    BY <1>1, <1>3, UpTurn
  <2>2. cli[c].phase # "play"
    BY <1>1, <1>2 DEF Stage, Entered
  <2>3. said[c] = <<>> /\ Len(taken[c]) \in Nat
    BY <1>3, <2>2 DEF Histories, SaidOk, Listed
  <2> QED
    BY <2>1, <2>3
<1> QED
  BY <1>1, <1>2, <1>3, <1>4, UpTurn

LEMMA LateTurn ==
  ASSUME NEW c, Histories(c), FrameIn(c), Frame(c) # NoPacket, ~InPlay(c), srv[c].phase # "joining",
         said[c] # <<>>, Late(c)
  PROVE  /\ srv[c].phase = "configuration" /\ Protocol(c) \in SUPPORTED_PROTOCOLS
         /\ \E Upre :
              /\ Upre \in {<<Small(FINISH_CONFIGURATION, 0)>>,
                           <<Small(CLIENT_INFORMATION, 0), Small(FINISH_CONFIGURATION, 0)>>}
              /\ Frame(c) = Upre[1]
              /\ \E U : /\ UpFlow(<<>>, up[c], U)
                        /\ Sent(U, Tail(Upre), said[c], taken[c], Protocol(c), TRUE)
<1>1. PICK Upre : Stage(srv[c].phase, "play", <<>>, Upre, Protocol(c)) /\ Upward(c, Upre, TRUE)
  BY DEF Late
<1>2. /\ srv[c].phase = "configuration" /\ Protocol(c) \in SUPPORTED_PROTOCOLS
      /\ Upre \in {<<Small(FINISH_CONFIGURATION, 0)>>,
                   <<Small(CLIENT_INFORMATION, 0), Small(FINISH_CONFIGURATION, 0)>>}
  BY <1>1 DEF Stage, Entered, InPlay
<1>3. Upre # <<>> /\ \E S : Upre \in Seq(S)
  <2>1. Upre # <<>>
    <3>1. /\ <<Small(FINISH_CONFIGURATION, 0)>> # <<>>
          /\ <<Small(CLIENT_INFORMATION, 0), Small(FINISH_CONFIGURATION, 0)>> # <<>>
      OBVIOUS
    <3> QED
      BY <1>2, <3>1
  <2>2. \E S : Upre \in Seq(S)
    BY <1>1, StageIs
  <2> QED
    BY <2>1, <2>2
<1> QED
  BY <1>1, <1>2, <1>3, UpTurn

\* Only the session's side of a connection that is not in play has turned.
Turned(c, F) ==
  /\ UNCHANGED <<setup, taken, task, left, pending, pos, cli, heard, said, queue, down, up, told>>
  /\ srv[c].phase \notin {"play", "gone"} /\ srv'[c].phase # "play"
  /\ srv'[c].secret = srv[c].secret \/ pending[c] = <<>>
  /\ DOMAIN srv' = Clients /\ DOMAIN srv'[c] = PeerFields
  /\ \A d \in Clients \ {c} : srv'[d] = srv[d]
  /\ DOMAIN todo' = Clients /\ todo'[c] = F /\ \A d \in Clients \ {c} : todo'[d] = todo[d]
  /\ srv'[c].zip \in Int
  /\ srv'[c].outIv = srv[c].outIv \/ Register(srv'[c].outIv)

\* What is owed has grown by the frames of F.
Lengthened(Pre, Pre2, F) ==
  /\ Len(Pre2) = Len(Pre) + Len(F)
  /\ \A i \in 1 .. Len(Pre) : Pre2[i] = Pre[i]
  /\ \A i \in 1 .. Len(F) : Pre2[Len(Pre) + i] = F[i].packet

Onward(c, Pre, F) ==
  todo[c] = <<>> /\ \E at2, Pre2, Upre2 :
    /\ Stage(at2, cli[c].phase, Pre2, Upre2, Protocol(c)) /\ Lengthened(Pre, Pre2, F)
    /\ srv'[c].phase \in {at2, "gone"} /\ at2 # "play"
    /\ srv'[c].phase # "gone" =>
         \E U : /\ UpFlow(srv'[c].got, up[c], U)
                /\ Sent(U, Upre2, said[c], taken[c], Protocol(c), FALSE)

LEMMA TalkTurned ==
  ASSUME Shapes, NEW c \in Clients, Histories(c), NEW R, NoPacket \notin R, NEW F \in Seq(Entry(R)),
         Turned(c, F), NEW at, NEW Pre, NEW Upre, NEW D, Talking(c, at, Pre, Upre, D),
         Onward(c, Pre, F)
  PROVE  \E at2, Pre2, Upre2, E : Talking(c, at2, Pre2, Upre2, E)'
<1>1. PICK at2, Pre2, Upre2 :
        /\ Stage(at2, cli[c].phase, Pre2, Upre2, Protocol(c)) /\ Lengthened(Pre, Pre2, F)
        /\ srv'[c].phase \in {at2, "gone"} /\ at2 # "play"
        /\ srv'[c].phase # "gone" =>
             \E U : /\ UpFlow(srv'[c].got, up[c], U)
                    /\ Sent(U, Upre2, said[c], taken[c], Protocol(c), FALSE)
  BY DEF Onward
<1>2. /\ UNCHANGED <<setup, taken, task, left, pending, pos, cli, heard, said, queue, down, up, told>>
      /\ todo'[c] = F /\ srv'[c].phase # "play"
      /\ srv[c].phase \notin {"play", "gone"} /\ todo[c] = <<>>
      /\ srv'[c].secret = srv[c].secret \/ pending[c] = <<>>
  BY DEF Turned, Shapes, Onward
<1>3. Protocol(c)' = Protocol(c)
  BY <1>2 DEF Protocol
<1>4. PICK E : E = D \o F
  OBVIOUS
<1>5. Below(c, at, Pre, D) /\ srv[c].phase = at
  BY <1>2 DEF Talking
<1>6. /\ Len(D) \in Nat /\ Len(Pre) \in Nat /\ Len(told[c]) \in Nat /\ Register(srv[c].outIv)
      /\ srv[c].secret \/ pending[c] = <<>>
  BY TalkIs
<1>7. PICK N : D \in Seq(N)
  BY TalkIs
<1>8. Register(srv'[c].outIv)
  BY <1>6 DEF Turned
<1>9. Downward(c, E)'
  <2>1. DownFlow(srv[c].phase, srv[c].secret, srv[c].outIv, cli[c].got, down[c], pending[c], pos[c],
                 left[c], <<>>, D)
    BY <1>2, <1>5 DEF Below, Downward
  <2>2. DownFlow(srv'[c].phase, srv'[c].secret, srv'[c].outIv, cli[c].got, down[c], pending[c], pos[c],
                 left[c], F, E)
    BY <1>2, <1>4, <1>6, <1>8, <2>1, DownTodo
  <2> QED
    BY <1>2, <2>2 DEF Downward
<1>10. Owed(E, Pre2, told[c], heard[c], Protocol(c)) /\ Len(E) = Len(Pre2) /\ heard[c] = <<>>
  <2>1. /\ Len(D) = Len(Pre) /\ heard[c] = <<>>
        /\ \A i \in 1 .. Len(D) :
             D[i].packet = IF i <= Len(Pre) THEN Pre[i]
                           ELSE translate_clientbound(told[c][Len(heard[c]) + (i - Len(Pre))], Protocol(c))
    BY <1>2, <1>5 DEF Below, Owed
  <2> DEFINE M == N \cup Entry(R)
  <2>2. N \subseteq M /\ Entry(R) \subseteq M
    OBVIOUS
  <2> HIDE DEF M
  <2>3. D \in Seq(M) /\ F \in Seq(M)
    BY <1>7, <2>2, MoreOf
  <2>4. /\ Len(E) = Len(D) + Len(F) /\ Len(F) \in Nat
        /\ \A i \in 1 .. Len(D) : E[i] = D[i]
        /\ \A i \in 1 .. Len(F) : E[Len(D) + i] = F[i]
    BY <1>4, <2>3, ConcatIs
  <2>5. /\ Len(Pre2) = Len(Pre) + Len(F)
        /\ \A i \in 1 .. Len(Pre) : Pre2[i] = Pre[i]
        /\ \A i \in 1 .. Len(F) : Pre2[Len(Pre) + i] = F[i].packet
    BY <1>1 DEF Lengthened
  <2>6. ASSUME NEW i \in 1 .. Len(E) PROVE i <= Len(Pre2) /\ E[i].packet = Pre2[i]
    <3>1. CASE i <= Len(Pre)
      <4>1. i \in 1 .. Len(Pre) /\ i \in 1 .. Len(D)
        BY <1>6, <2>1, <3>1
      <4> QED
        BY <1>6, <2>1, <2>4, <2>5, <4>1
    <3>2. CASE ~(i <= Len(Pre))
      <4>1. /\ i - Len(Pre) \in 1 .. Len(F) /\ Len(D) + (i - Len(Pre)) = i
            /\ Len(Pre) + (i - Len(Pre)) = i
        BY <1>6, <2>1, <2>4, <3>2
      <4>2. E[i] = F[i - Len(Pre)] /\ Pre2[i] = F[i - Len(Pre)].packet
        BY <2>4, <2>5, <4>1
      <4> QED
        BY <1>6, <2>1, <2>4, <2>5, <4>2
    <3> QED
      BY <3>1, <3>2
  <2>7. Len(E) = Len(Pre2) /\ Len(Pre2) \in Nat
    BY <1>6, <2>1, <2>4, <2>5
  <2>8. Len(Pre2) <= Len(E) /\ Len(heard[c]) + (Len(E) - Len(Pre2)) <= Len(told[c])
    <3>1. Len(heard[c]) = 0
      BY <2>1
    <3> QED
      BY <1>6, <2>7, <3>1
  <2> QED
    BY <2>1, <2>6, <2>7, <2>8 DEF Owed
<1>11. Below(c, at2, Pre2, E)'
  BY <1>1, <1>2, <1>3, <1>9, <1>10 DEF Below
<1>12. Upward(c, Upre2, FALSE)' /\ CanWrite(c)'
  BY <1>1, <1>2, <1>3 DEF Upward, Talking, CanWrite
<1>13. Talking(c, at2, Pre2, Upre2, E)'
  BY <1>1, <1>2, <1>3, <1>11, <1>12 DEF Talking
<1> QED
  BY <1>13

LEMMA TurnedSteps ==
  ASSUME Shapes, NEW c \in Clients, Wired(c), NEW R, NoPacket \notin R, NEW F \in Seq(Entry(R)),
         Turned(c, F),
         \A at, Pre, Upre, D : Talking(c, at, Pre, Upre, D) => Onward(c, Pre, F),
         Asking(c) => Asking(c)',
         said[c] # <<>> /\ srv'[c].phase # "gone" /\ Late(c) => Late(c)'
  PROVE  Steps(c)
<1>1. /\ UNCHANGED <<setup, taken, task, left, pending, pos, cli, heard, said, queue, down, up, told>>
      /\ srv'[c].phase # "play"
      /\ DOMAIN todo' = Clients /\ todo'[c] = F /\ \A d \in Clients \ {c} : todo'[d] = todo[d]
      /\ srv[c].phase \notin {"play", "gone"} /\ srv'[c].zip \in Int
      /\ DOMAIN srv' = Clients /\ DOMAIN srv'[c] = PeerFields
      /\ \A d \in Clients \ {c} : srv'[d] = srv[d]
  BY DEF Turned
<1>2. Shapes' /\ Only(c)
  BY <1>1 DEF Shapes, Only, Same
<1>3. Protocol(c)' = Protocol(c)
  BY <1>1 DEF Protocol
<1>4. Histories(c)
  BY DEF Wired
<1>5. Histories(c)'
  <2>1. HeardOk(Protocol(c), srv'[c].phase, told[c], heard[c])
    BY <1>1, <1>4 DEF Histories, HeardOk
  <2>2. srv'[c].zip \in Int /\ (task[c] = "on" => srv'[c].phase = "play")
    BY <1>1, <1>4 DEF Histories
  <2>3. SaidOk(cli[c].phase, said[c], taken[c])
    BY <1>4 DEF Histories
  <2> QED
    BY <1>1, <1>3, <2>1, <2>2, <2>3 DEF Histories
<1>6. Alive(cli[c].phase) /\ cli[c].phase # "status"
        => \E at2, Pre2, Upre2, E : Talking(c, at2, Pre2, Upre2, E)'
  <2> SUFFICES ASSUME Alive(cli[c].phase) /\ cli[c].phase # "status"
               PROVE  \E at2, Pre2, Upre2, E : Talking(c, at2, Pre2, Upre2, E)'
    OBVIOUS
  <2>1. PICK at, Pre, Upre, D : Talking(c, at, Pre, Upre, D)
    BY DEF Wired
  <2>2. Onward(c, Pre, F)
    BY <2>1
  <2> QED
    BY <1>4, <2>1, <2>2, TalkTurned
<1>7. cli[c].phase = "status" => Asking(c)'
  BY DEF Wired
<1>8. ~Alive(cli[c].phase) /\ said[c] # <<>> /\ srv'[c].phase # "gone" => Late(c)'
  BY <1>1 DEF Wired
<1>9. Wired(c)'
  BY <1>1, <1>5, <1>6, <1>7, <1>8 DEF Wired
<1> QED
  BY <1>1, <1>2, <1>9 DEF Steps

(***************************************************************************)
(* The handshake, status and login.                                        *)
(***************************************************************************)
LEMMA TurnsIs ==
  ASSUME Shapes, NEW c \in Clients, Wired(c), Reading(c), ~InPlay(c),
         NEW phase, phase # "play", NEW F, Turns(c, phase, F)
  PROVE  /\ Turned(c, F) /\ srv'[c].phase = phase /\ srv'[c].got = <<>> /\ todo[c] = <<>>
         /\ up' = up /\ cli' = cli /\ setup' = setup /\ said' = said /\ taken' = taken
<1>1. /\ srv' = [srv EXCEPT ![c].phase = phase, ![c].got = <<>>]
      /\ todo' = [todo EXCEPT ![c] = F]
      /\ UNCHANGED <<setup, hand, taken, task, left, pending, pos, cli, heard, said, queue, down, up, told>>
  BY DEF Turns, outVars, cliVars
<1>2. /\ DOMAIN srv' = Clients /\ DOMAIN srv'[c] = PeerFields
      /\ \A d \in Clients \ {c} : srv'[d] = srv[d]
      /\ srv'[c].phase = phase /\ srv'[c].got = <<>> /\ srv'[c].zip = srv[c].zip
      /\ srv'[c].secret = srv[c].secret /\ srv'[c].outIv = srv[c].outIv
  BY <1>1 DEF Shapes, PeerFields
<1>3. /\ srv[c].phase \notin {"play", "gone"} /\ todo[c] = <<>>
  BY DEF Reading, InPlay, Gone
<1>4. srv[c].zip \in Int
  BY DEF Wired, Histories
<1>5. DOMAIN todo' = Clients /\ todo'[c] = F /\ \A d \in Clients \ {c} : todo'[d] = todo[d]
  BY <1>1 DEF Shapes
<1> QED
  BY <1>1, <1>2, <1>3, <1>4, <1>5 DEF Turned

LEMMA NoFrames == \A R : <<>> \in Seq(Entry(R))
  OBVIOUS

LEMMA GoneTurn ==
  ASSUME Shapes, NEW c \in Clients, Wired(c), Reading(c), ~InPlay(c), Turns(c, "gone", <<>>)
  PROVE  Steps(c)
<1>1. /\ Turned(c, <<>>) /\ srv'[c].phase = "gone" /\ todo[c] = <<>> /\ cli' = cli
      /\ srv[c].phase \notin {"play", "gone"}
  <2>1. "gone" # "play"
    OBVIOUS
  <2> QED
    BY <2>1, TurnsIs DEF Reading, InPlay, Gone
<1>2. ASSUME NEW at, NEW Pre, NEW Upre, NEW D, Talking(c, at, Pre, Upre, D)
      PROVE  Onward(c, Pre, <<>>)
  <2>1. Stage(at, cli[c].phase, Pre, Upre, Protocol(c)) /\ at # "play"
    BY <1>1, <1>2 DEF Talking
  <2>2. Len(Pre) \in Nat
    BY <2>1, StageIs
  <2>3. Lengthened(Pre, Pre, <<>>)
    BY <2>2 DEF Lengthened
  <2> QED
    BY <1>1, <2>1, <2>3 DEF Onward
<1>3. Asking(c) => Asking(c)'
  BY <1>1 DEF Asking, CanWrite
<1>4. NoPacket \notin {} /\ <<>> \in Seq(Entry({}))
  BY NoFrames
<1> QED
  BY <1>1, <1>2, <1>3, <1>4, TurnedSteps

LEMMA BreakingOff ==
  ASSUME Shapes, NEW c \in Clients, Wired(c), BadFrame(c) \/ EndOfStream(c)
  PROVE  Steps(c)
  BY GoneTurn DEF BadFrame, EndOfStream, FrameIn

\* What the session writes is a packet.
LEMMA OutIs ==
  ASSUME NEW id \in Nat, NEW arg
  PROVE  NoPacket \notin {Small(id, arg)} /\ Out(Small(id, arg)) \in Entry({Small(id, arg)})
         /\ Out(Small(id, arg)).packet = Small(id, arg)
<1>1. Small(id, arg).id = id /\ NoPacket.id = -1 /\ id # -1
  BY DEF Small, Packet, NoPacket
<1>2. Small(id, arg) # NoPacket
  BY <1>1
<1> QED
  BY <1>2 DEF Out, Entry

LEMMA Handshakes ==
  ASSUME Shapes, NEW c \in Clients, Wired(c), Handshake(c)
  PROVE  Steps(c)
<1> DEFINE phase == CASE Frame(c).arg = 1 -> "status"
                      [] Frame(c).arg = 2 -> "login"
                      [] OTHER            -> "gone"
<1>0. Turns(c, phase, <<>>)
  BY DEF Handshake
<1> HIDE DEF phase
<1>1. srv[c].phase = "handshake" /\ FrameIn(c) /\ Frame(c) # NoPacket
  BY DEF Handshake
<1>2. Reading(c) /\ ~InPlay(c) /\ srv[c].phase # "joining" /\ Missing(srv[c].got) = 0
  BY <1>1 DEF FrameIn, InPlay
<1>3. Histories(c)
  BY DEF Wired
<1>4. ASSUME NEW at, NEW Pre, NEW Upre, NEW D, Talking(c, at, Pre, Upre, D)
      PROVE  \E w, i : /\ w # 1 /\ Frame(c) = Small(0, w) /\ cli[c].phase = "login" /\ Pre = <<>>
                       /\ \E U : /\ UpFlow(<<>>, up[c], U)
                                 /\ Sent(U, <<Small(i, 0)>>, said[c], taken[c], Protocol(c), FALSE)
  <2>1. /\ Upre # <<>> /\ Frame(c) = Upre[1] /\ srv[c].phase = at
        /\ \E U : /\ UpFlow(<<>>, up[c], U)
                  /\ Sent(U, Tail(Upre), said[c], taken[c], Protocol(c), FALSE)
    BY <1>1, <1>2, <1>3, <1>4, TalkTurn
  <2>2. Stage(at, cli[c].phase, Pre, Upre, Protocol(c))
    BY <1>4 DEF Talking
  <2>3. PICK w, i : /\ w # 1 /\ Upre = <<Small(0, w), Small(i, 0)>> /\ cli[c].phase = "login"
                    /\ Pre = <<>>
    BY <1>1, <2>1, <2>2 DEF Stage, Entered
  <2>4. Upre[1] = Small(0, w) /\ Tail(Upre) = <<Small(i, 0)>>
    BY <2>3
  <2> QED
    BY <2>1, <2>3, <2>4
<1>5. ~(said[c] # <<>> /\ Late(c))
  BY <1>1, <1>2, <1>3, LateTurn
<1>6. Asking(c) => Frame(c).arg = 1
  <2> SUFFICES ASSUME Asking(c) PROVE Frame(c).arg = 1
    OBVIOUS
  <2>1. PICK U : UpFlow(srv[c].got, up[c], U) /\ U # <<>> /\ U[1].packet = Small(0, 1)
    BY <1>1 DEF Asking
  <2>2. srv[c].zip \in Int
    BY <1>3 DEF Histories
  <2>3. Frame(c) = Small(0, 1)
    BY <1>1, <1>2, <2>1, <2>2, UpTakes DEF Frame
  <2> QED
    BY <2>3 DEF Small, Packet
<1>7. phase # "play"
  BY DEF phase
<1>8. /\ Turned(c, <<>>) /\ srv'[c].phase = phase /\ srv'[c].got = <<>> /\ todo[c] = <<>>
      /\ up' = up /\ cli' = cli /\ setup' = setup
  BY <1>0, <1>2, <1>7, TurnsIs
<1>9. CASE phase = "gone"
  BY <1>0, <1>2, <1>9, GoneTurn
<1>10. CASE phase # "gone"
  <2>1. phase = IF Frame(c).arg = 1 THEN "status" ELSE "login"
    BY <1>10 DEF phase
  <2>2. ASSUME NEW at, NEW Pre, NEW Upre, NEW D, Talking(c, at, Pre, Upre, D)
        PROVE  Onward(c, Pre, <<>>)
    <3>1. PICK w, i : /\ w # 1 /\ Frame(c) = Small(0, w) /\ cli[c].phase = "login" /\ Pre = <<>>
                      /\ \E U : /\ UpFlow(<<>>, up[c], U)
                                /\ Sent(U, <<Small(i, 0)>>, said[c], taken[c], Protocol(c), FALSE)
      BY <1>4, <2>2
    <3>2. phase = "login"
      BY <2>1, <3>1 DEF Small, Packet
    <3>3. Stage("login", "login", <<>>, <<Small(i, 0)>>, Protocol(c))
      BY DEF Stage
    <3>4. Lengthened(Pre, <<>>, <<>>)
      BY <3>1 DEF Lengthened
    <3> QED
      BY <1>8, <3>1, <3>2, <3>3, <3>4 DEF Onward
  <2>3. Asking(c) => Asking(c)'
    BY <1>6, <1>8, <2>1 DEF Asking, CanWrite
  <2>4. NoPacket \notin {} /\ <<>> \in Seq(Entry({}))
    BY NoFrames
  <2> QED
    BY <1>5, <1>8, <2>2, <2>3, <2>4, TurnedSteps
<1> QED
  BY <1>9, <1>10

LEMMA Statuses ==
  ASSUME Shapes, NEW c \in Clients, Wired(c), Status(c)
  PROVE  Steps(c)
<1>1. /\ srv[c].phase = "status" /\ FrameIn(c) /\ Frame(c) # NoPacket
      /\ \/ Turns(c, "status", <<Out(Small(SERVER_INFO, 0))>>)
         \/ Turns(c, "gone", <<Out(Small(PONG, Frame(c).arg))>>)
         \/ Turns(c, "gone", <<>>)
  BY DEF Status
<1>2. Reading(c) /\ ~InPlay(c) /\ srv[c].phase # "joining"
  BY <1>1 DEF FrameIn, InPlay
<1>3. ASSUME NEW phase \in {"status", "gone"}, NEW id \in Nat, NEW arg,
             Turns(c, phase, <<Out(Small(id, arg))>>)
      PROVE  Steps(c)
  <2> DEFINE e == Out(Small(id, arg))
             R == {Small(id, arg)}
  <2>1. NoPacket \notin R /\ e \in Entry(R)
    BY OutIs
  <2> HIDE DEF e, R
  <2>2. <<e>> \in Seq(Entry(R))
    BY <2>1
  <2>3. /\ Turned(c, <<e>>) /\ srv'[c].phase = phase /\ cli' = cli
    <3>1. phase # "play" /\ Turns(c, phase, <<e>>)
      BY <1>3 DEF e
    <3> QED
      BY <1>2, <3>1, TurnsIs
  <2>4. ASSUME NEW at, NEW Pre, NEW Upre, NEW D, Talking(c, at, Pre, Upre, D) PROVE FALSE
    <3>1. srv[c].phase = at
      BY <1>1, <2>4 DEF Talking
    <3> QED
      BY <1>1, <2>4, <3>1, StageIs DEF Talking
  <2>5. Asking(c) => Asking(c)'
    BY <2>3 DEF Asking, CanWrite
  <2>6. Histories(c)
    BY DEF Wired
  <2>7. ~(said[c] # <<>> /\ Late(c))
    BY <1>1, <1>2, <2>6, LateTurn
  <2> QED
    BY <2>1, <2>2, <2>3, <2>4, <2>5, <2>7, TurnedSteps
<1>4. SERVER_INFO \in Nat /\ PONG \in Nat
  BY DEF SERVER_INFO, PONG
<1> QED
  BY <1>1, <1>2, <1>3, <1>4, GoneTurn

(***************************************************************************)
(* The login, the key exchange and the configuration.                      *)
(***************************************************************************)
\* A packet taken in a phase of the login that only a talking client gets past.
LEMMA Turning ==
  ASSUME Shapes, NEW c \in Clients, Wired(c), FrameIn(c), Frame(c) # NoPacket,
         srv[c].phase \in {"login", "encrypt", "acknowledge", "configuration"}
  PROVE  /\ Reading(c) /\ ~InPlay(c) /\ srv[c].phase # "joining" /\ Histories(c) /\ ~Asking(c)
         /\ srv[c].phase # "configuration" => ~(said[c] # <<>> /\ Late(c))
<1>1. Reading(c) /\ ~InPlay(c) /\ srv[c].phase # "joining" /\ Histories(c) /\ ~Asking(c)
  BY DEF FrameIn, InPlay, Wired, Asking
<1> QED
  BY <1>1, LateTurn

LEMMA LoggingIn ==
  ASSUME Shapes, NEW c \in Clients, Wired(c), Login(c)
  PROVE  Steps(c)
<1>1. srv[c].phase = "login" /\ FrameIn(c) /\ Frame(c) # NoPacket
  BY DEF Login
<1>2. /\ Reading(c) /\ ~InPlay(c) /\ srv[c].phase # "joining" /\ Histories(c) /\ ~Asking(c)
      /\ ~(said[c] # <<>> /\ Late(c))
  BY <1>1, Turning
<1>3. ASSUME NEW at, NEW Pre, NEW Upre, NEW D, Talking(c, at, Pre, Upre, D)
      PROVE  /\ cli[c].phase = "login" /\ Pre = <<>>
             /\ \E U : /\ UpFlow(<<>>, up[c], U)
                       /\ Sent(U, <<>>, said[c], taken[c], Protocol(c), FALSE)
  <2>1. /\ Upre # <<>> /\ Frame(c) = Upre[1] /\ srv[c].phase = at
        /\ \E U : /\ UpFlow(<<>>, up[c], U)
                  /\ Sent(U, Tail(Upre), said[c], taken[c], Protocol(c), FALSE)
    BY <1>1, <1>2, <1>3, TalkTurn
  <2>2. Stage(at, cli[c].phase, Pre, Upre, Protocol(c))
    BY <1>3 DEF Talking
  <2>3. PICK i : Upre = <<Small(i, 0)>> /\ cli[c].phase = "login" /\ Pre = <<>>
    BY <1>1, <2>1, <2>2 DEF Stage, Entered
  <2>4. Tail(Upre) = <<>>
    BY <2>3
  <2> QED
    BY <2>1, <2>3, <2>4
<1>4. CASE Turns(c, "gone", <<>>)
  BY <1>2, <1>4, GoneTurn
<1>5. ASSUME NEW phase, phase # "play", NEW id \in Nat, Turns(c, phase, <<Out(Small(id, 0))>>),
             \/ phase = "gone" /\ id = LOGIN_DISCONNECT
             \/ phase = "encrypt" /\ id = ENCRYPTION_REQUEST /\ Protocol(c) \in SUPPORTED_PROTOCOLS
      PROVE  Steps(c)
  <2> DEFINE e == Out(Small(id, 0))
             R == {Small(id, 0)}
  <2>1. NoPacket \notin R /\ e \in Entry(R) /\ e.packet = Small(id, 0)
    BY OutIs
  <2>2. Turns(c, phase, <<e>>)
    BY <1>5
  <2> HIDE DEF e, R
  <2>3. <<e>> \in Seq(Entry(R))
    BY <2>1
  <2>4. /\ Turned(c, <<e>>) /\ srv'[c].phase = phase /\ srv'[c].got = <<>> /\ todo[c] = <<>>
        /\ cli' = cli
    BY <1>2, <1>5, <2>2, TurnsIs
  <2>5. ASSUME NEW at, NEW Pre, NEW Upre, NEW D, Talking(c, at, Pre, Upre, D)
        PROVE  Onward(c, Pre, <<e>>)
    <3>1. /\ cli[c].phase = "login" /\ Pre = <<>>
          /\ \E U : /\ UpFlow(<<>>, up[c], U)
                    /\ Sent(U, <<>>, said[c], taken[c], Protocol(c), FALSE)
      BY <1>3, <2>5
    <3>2. Lengthened(<<>>, <<Small(id, 0)>>, <<e>>)
      BY <2>1 DEF Lengthened
    <3>3. PICK at2 : /\ Stage(at2, "login", <<Small(id, 0)>>, <<>>, Protocol(c)) /\ at2 # "play"
                     /\ phase \in {at2, "gone"}
      <4>1. CASE phase = "gone" /\ id = LOGIN_DISCONNECT
        <5>1. Stage("login", "login", <<Small(id, 0)>>, <<>>, Protocol(c))
          BY <4>1 DEF Stage
        <5> QED
          BY <4>1, <5>1
      <4>2. CASE phase = "encrypt" /\ id = ENCRYPTION_REQUEST /\ Protocol(c) \in SUPPORTED_PROTOCOLS
        <5>1. Stage("encrypt", "login", <<Small(id, 0)>>, <<>>, Protocol(c))
          BY <4>2 DEF Stage, Entered
        <5> QED
          BY <4>2, <5>1
      <4> QED
        BY <1>5, <4>1, <4>2
    <3> QED
      BY <2>4, <3>1, <3>2, <3>3 DEF Onward
  <2> QED
    BY <1>2, <2>1, <2>3, <2>4, <2>5, TurnedSteps
<1>6. ASSUME Turns(c, "success", <<>>), Protocol(c) \in SUPPORTED_PROTOCOLS
      PROVE  Steps(c)
  <2>1. /\ Turned(c, <<>>) /\ srv'[c].phase = "success" /\ srv'[c].got = <<>> /\ todo[c] = <<>>
        /\ cli' = cli
    <3>1. "success" # "play"
      OBVIOUS
    <3> QED
      BY <1>2, <1>6, <3>1, TurnsIs
  <2>2. ASSUME NEW at, NEW Pre, NEW Upre, NEW D, Talking(c, at, Pre, Upre, D)
        PROVE  Onward(c, Pre, <<>>)
    <3>1. /\ cli[c].phase = "login" /\ Pre = <<>>
          /\ \E U : /\ UpFlow(<<>>, up[c], U)
                    /\ Sent(U, <<>>, said[c], taken[c], Protocol(c), FALSE)
      BY <1>3, <2>2
    <3>2. Stage("success", "login", <<>>, <<>>, Protocol(c)) /\ Lengthened(<<>>, <<>>, <<>>)
      BY <1>6 DEF Stage, Entered, Lengthened
    <3> QED
      BY <2>1, <3>1, <3>2 DEF Onward
  <2>3. NoPacket \notin {} /\ <<>> \in Seq(Entry({}))
    BY NoFrames
  <2> QED
    BY <1>2, <2>1, <2>2, <2>3, TurnedSteps
<1>7. \/ Turns(c, "gone", <<>>)
      \/ Turns(c, "gone", <<Out(Small(LOGIN_DISCONNECT, 0))>>)
      \/ Turns(c, "encrypt", <<Out(Small(ENCRYPTION_REQUEST, 0))>>) /\ Protocol(c) \in SUPPORTED_PROTOCOLS
      \/ Turns(c, "success", <<>>) /\ Protocol(c) \in SUPPORTED_PROTOCOLS
  BY DEF Login
<1>8. LOGIN_DISCONNECT \in Nat /\ ENCRYPTION_REQUEST \in Nat /\ "gone" # "play" /\ "encrypt" # "play"
  BY DEF LOGIN_DISCONNECT, ENCRYPTION_REQUEST
<1> QED
  BY <1>4, <1>5, <1>6, <1>7, <1>8

LEMMA KeyExchange ==
  ASSUME Shapes, NEW c \in Clients, Wired(c), EncryptionHandshake(c)
  PROVE  Steps(c)
<1>1. srv[c].phase = "encrypt" /\ FrameIn(c) /\ Frame(c) # NoPacket
  BY DEF EncryptionHandshake
<1>2. /\ Reading(c) /\ ~InPlay(c) /\ srv[c].phase # "joining" /\ Histories(c) /\ ~Asking(c)
      /\ ~(said[c] # <<>> /\ Late(c))
  BY <1>1, Turning
<1>3. CASE Turns(c, "gone", <<>>)
  BY <1>2, <1>3, GoneTurn
<1>4. CASE /\ srv' = [srv EXCEPT ![c].phase = "success", ![c].got = <<>>,
                                 ![c].secret = TRUE, ![c].inIv = Fresh, ![c].outIv = Fresh]
           /\ UNCHANGED <<setup, todo, hand, taken, outVars, cliVars, queue, down, up, told>>
  <2>1. /\ UNCHANGED <<setup, todo, taken, task, left, pending, pos, cli, heard, said, queue, down, up, told>>
    BY <1>4 DEF outVars, cliVars
  <2>2. /\ DOMAIN srv' = Clients /\ DOMAIN srv'[c] = PeerFields
        /\ \A d \in Clients \ {c} : srv'[d] = srv[d]
        /\ srv'[c].phase = "success" /\ srv'[c].got = <<>> /\ srv'[c].zip = srv[c].zip
        /\ srv'[c].outIv = Fresh
    BY <1>4 DEF Shapes, PeerFields
  <2>3. todo[c] = <<>> /\ pending[c] = <<>>
    BY <1>2 DEF Reading, Settled
  <2>4. DOMAIN todo' = Clients /\ todo'[c] = <<>> /\ \A d \in Clients \ {c} : todo'[d] = todo[d]
    BY <2>1, <2>3 DEF Shapes
  <2>5. srv'[c].zip \in Int /\ Register(srv'[c].outIv)
    BY <1>2, <2>2, FreshRegister DEF Histories
  <2>6. Turned(c, <<>>)
    BY <1>1, <2>1, <2>2, <2>3, <2>4, <2>5 DEF Turned
  <2>7. ASSUME NEW at, NEW Pre, NEW Upre, NEW D, Talking(c, at, Pre, Upre, D)
        PROVE  Onward(c, Pre, <<>>)
    <3>1. /\ Upre # <<>> /\ Frame(c) = Upre[1] /\ srv[c].phase = at
          /\ \E U : /\ UpFlow(<<>>, up[c], U)
                    /\ Sent(U, Tail(Upre), said[c], taken[c], Protocol(c), FALSE)
      BY <1>1, <1>2, <2>7, TalkTurn
    <3>2. Stage(at, cli[c].phase, Pre, Upre, Protocol(c))
      BY <2>7 DEF Talking
    <3>3. /\ Upre = <<Small(ENCRYPTION_RESPONSE, 1)>> /\ cli[c].phase = "login" /\ Pre = <<>>
          /\ Protocol(c) \in SUPPORTED_PROTOCOLS
      BY <1>1, <3>1, <3>2 DEF Stage, Entered
    <3>4. Tail(Upre) = <<>>
      BY <3>3
    <3>5. Stage("success", "login", <<>>, <<>>, Protocol(c)) /\ Lengthened(<<>>, <<>>, <<>>)
      BY <3>3 DEF Stage, Entered, Lengthened
    <3> QED
      BY <2>2, <2>3, <3>1, <3>3, <3>4, <3>5 DEF Onward
  <2>8. NoPacket \notin {} /\ <<>> \in Seq(Entry({}))
    BY NoFrames
  <2> QED
    BY <1>2, <2>6, <2>7, <2>8, TurnedSteps
<1> QED
  BY <1>3, <1>4 DEF EncryptionHandshake

LEMMA TwoOf ==
  ASSUME NEW S, NEW x \in S, NEW y \in S
  PROVE  <<x>> \o <<y>> = <<x, y>> /\ <<>> \o <<y>> = <<y>>
<1> DEFINE s == <<x>> \o <<y>>
<1>1. s \in Seq(S) /\ Len(s) = 2 /\ s[1] = x /\ s[2] = y
  OBVIOUS
<1>2. <<>> \o <<y>> = <<y>>
  OBVIOUS
<1> HIDE DEF s
<1>3. s = <<x, y>>
  BY <1>1
<1> QED
  BY <1>2, <1>3 DEF s

LEMMA Succeeding ==
  ASSUME setup \in Setups, Shapes, NEW c \in Clients, Wired(c), Succeed(c)
  PROVE  Steps(c)
<1> DEFINE phase == AfterLogin(c)
           h == Threshold
           R == {Small(SET_COMPRESSION, h), Small(LOGIN_SUCCESS, 0)}
           a == Out(Small(SET_COMPRESSION, h))
           b == [packet |-> Small(LOGIN_SUCCESS, 0), zip |-> h]
<1>1. /\ srv[c].phase = "success"
      /\ srv' = [srv EXCEPT ![c].phase = phase, ![c].zip = h]
      /\ todo' = [todo EXCEPT ![c] = FinishLogin]
      /\ UNCHANGED <<setup, hand, taken, task, left, pending, pos, cli, heard, said, queue, down, up, told>>
  BY DEF Succeed, outVars, cliVars
<1>2. h \in Int
  BY SetupsAssumption DEF Threshold
<1>3. Histories(c)
  BY DEF Wired
<1>4. phase = IF Protocol(c) >= 764 THEN "acknowledge" ELSE "joining"
  BY DEF AfterLogin
<1>5. /\ NoPacket \notin R /\ a \in Entry(R) /\ b \in Entry(R)
      /\ a.packet = Small(SET_COMPRESSION, h) /\ b.packet = Small(LOGIN_SUCCESS, 0)
  <2>1. SET_COMPRESSION \in Nat /\ LOGIN_SUCCESS \in Nat
    BY DEF SET_COMPRESSION, LOGIN_SUCCESS
  <2>2. NoPacket # Small(SET_COMPRESSION, h) /\ NoPacket # Small(LOGIN_SUCCESS, 0)
    BY <2>1, OutIs
  <2> QED
    BY <1>2, <2>2 DEF Entry, Out
<1>6. FinishLogin = IF h >= 0 THEN <<a, b>> ELSE <<b>>
  <2>1. FinishLogin = (IF h >= 0 THEN <<a>> ELSE <<>>) \o <<b>>
    BY DEF FinishLogin
  <2>2. a \in {a, b} /\ b \in {a, b}
    OBVIOUS
  <2> HIDE DEF a, b
  <2>3. <<a>> \o <<b>> = <<a, b>> /\ <<>> \o <<b>> = <<b>>
    BY <2>2, TwoOf
  <2> QED
    BY <2>1, <2>3
<1> HIDE DEF phase, h, R, a, b
<1>7. FinishLogin \in Seq(Entry(R))
  <2>1. <<a, b>> \in Seq(Entry(R)) /\ <<b>> \in Seq(Entry(R))
    BY <1>5
  <2> QED
    BY <1>6, <2>1
<1>8. /\ DOMAIN srv' = Clients /\ DOMAIN srv'[c] = PeerFields
      /\ \A d \in Clients \ {c} : srv'[d] = srv[d]
      /\ srv'[c].phase = phase /\ srv'[c].zip = h /\ srv'[c].got = srv[c].got
      /\ srv'[c].secret = srv[c].secret /\ srv'[c].outIv = srv[c].outIv
      /\ DOMAIN todo' = Clients /\ todo'[c] = FinishLogin
      /\ \A d \in Clients \ {c} : todo'[d] = todo[d]
  BY <1>1 DEF Shapes, PeerFields
<1>9. Turned(c, FinishLogin)
  BY <1>1, <1>2, <1>4, <1>8 DEF Turned
<1>10. ASSUME NEW at, NEW Pre, NEW Upre, NEW D, Talking(c, at, Pre, Upre, D)
       PROVE  Onward(c, Pre, FinishLogin)
  <2>1. /\ Stage(at, cli[c].phase, Pre, Upre, Protocol(c)) /\ srv[c].phase = at
        /\ Below(c, at, Pre, D) /\ Upward(c, Upre, FALSE)
    BY <1>1, <1>10 DEF Talking
  <2>2. /\ cli[c].phase = "login" /\ Pre = <<>> /\ Upre = <<>> /\ Protocol(c) \in SUPPORTED_PROTOCOLS
    BY <1>1, <2>1 DEF Stage, Entered
  <2>3. todo[c] = <<>>
    <3>1. Len(D) = 0
      BY <1>1, <2>1, <2>2 DEF Below
    <3>2. \E N : D \in Seq(N)
      BY <1>3, <1>10, TalkIs
    <3>3. D = <<>>
      BY <3>1, <3>2
    <3> QED
      BY <1>3, <1>10, <3>3, TalkIs
  <2>4. PICK U : UpFlow(srv[c].got, up[c], U) /\ Sent(U, <<>>, said[c], taken[c], Protocol(c), FALSE)
    BY <1>1, <2>1, <2>2 DEF Upward
  <2> DEFINE P == IF h >= 0 THEN <<Small(SET_COMPRESSION, h), Small(LOGIN_SUCCESS, 0)>>
                  ELSE <<Small(LOGIN_SUCCESS, 0)>>
  <2>5. Stage(phase, "login", P, <<>>, Protocol(c)) /\ phase # "play" /\ phase # "gone"
    BY <1>2, <1>4, <2>2 DEF Stage, Entered
  <2>6. Lengthened(<<>>, P, FinishLogin)
    BY <1>5, <1>6 DEF Lengthened
  <2> HIDE DEF P
  <2> QED
    BY <1>8, <2>2, <2>3, <2>4, <2>5, <2>6 DEF Onward
<1>11. ~Asking(c)
  BY <1>1 DEF Asking
<1>12. ~Late(c)
  BY <1>1 DEF Late, Stage, Entered
<1> QED
  BY <1>5, <1>7, <1>9, <1>10, <1>11, <1>12, TurnedSteps

(***************************************************************************)
(* The configuration phase.                                                *)
(***************************************************************************)
LEMMA Acknowledging ==
  ASSUME setup \in Setups, Shapes, NEW c \in Clients, Wired(c), LoginAcknowledged(c)
  PROVE  Steps(c)
<1> DEFINE h == Threshold
           R == {Small(REGISTRY_DATA, 0), Small(FINISH_CONFIGURATION, 0)}
           a == [packet |-> Small(REGISTRY_DATA, 0), zip |-> h]
           b == [packet |-> Small(FINISH_CONFIGURATION, 0), zip |-> h]
<1>1. srv[c].phase = "acknowledge" /\ FrameIn(c) /\ Frame(c) # NoPacket
  BY DEF LoginAcknowledged
<1>2. \/ Turns(c, "configuration", <<a, b>>) /\ Frame(c).id = LOGIN_ACKNOWLEDGED
      \/ Turns(c, "joining", <<>>) /\ Frame(c).id # LOGIN_ACKNOWLEDGED
  BY DEF LoginAcknowledged
<1>3. /\ Reading(c) /\ ~InPlay(c) /\ srv[c].phase # "joining" /\ Histories(c) /\ ~Asking(c)
      /\ ~(said[c] # <<>> /\ Late(c))
  BY <1>1, Turning
<1>4. h \in Int
  BY SetupsAssumption DEF Threshold
<1>5. /\ NoPacket \notin R /\ a \in Entry(R) /\ b \in Entry(R)
      /\ a.packet = Small(REGISTRY_DATA, 0) /\ b.packet = Small(FINISH_CONFIGURATION, 0)
  <2>1. REGISTRY_DATA \in Nat /\ FINISH_CONFIGURATION \in Nat
    BY DEF REGISTRY_DATA, FINISH_CONFIGURATION
  <2>2. NoPacket # Small(REGISTRY_DATA, 0) /\ NoPacket # Small(FINISH_CONFIGURATION, 0)
    BY <2>1, OutIs
  <2> QED
    BY <1>4, <2>2 DEF Entry
<1> HIDE DEF h, R, a, b
<1>6. ASSUME NEW at, NEW Pre, NEW Upre, NEW D, Talking(c, at, Pre, Upre, D)
      PROVE  /\ cli[c].phase = "configuration" /\ Pre = <<>> /\ Protocol(c) \in SUPPORTED_PROTOCOLS
             /\ Frame(c).id = LOGIN_ACKNOWLEDGED
             /\ \E U : /\ UpFlow(<<>>, up[c], U)
                       /\ Sent(U, <<>>, said[c], taken[c], Protocol(c), FALSE)
  <2>1. /\ Upre # <<>> /\ Frame(c) = Upre[1] /\ srv[c].phase = at
        /\ \E U : /\ UpFlow(<<>>, up[c], U)
                  /\ Sent(U, Tail(Upre), said[c], taken[c], Protocol(c), FALSE)
    BY <1>1, <1>3, <1>6, TalkTurn
  <2>2. Stage(at, cli[c].phase, Pre, Upre, Protocol(c))
    BY <1>6 DEF Talking
  <2>3. /\ Upre = <<Small(LOGIN_ACKNOWLEDGED, 0)>> /\ cli[c].phase = "configuration" /\ Pre = <<>>
        /\ Protocol(c) \in SUPPORTED_PROTOCOLS
    BY <1>1, <2>1, <2>2 DEF Stage, Entered
  <2>4. Tail(Upre) = <<>> /\ Upre[1] = Small(LOGIN_ACKNOWLEDGED, 0)
    BY <2>3
  <2>5. Frame(c).id = LOGIN_ACKNOWLEDGED
    BY <2>1, <2>4 DEF Small, Packet
  <2> QED
    BY <2>1, <2>3, <2>4, <2>5
<1>7. CASE Turns(c, "configuration", <<a, b>>)
  <2>1. /\ Turned(c, <<a, b>>) /\ srv'[c].phase = "configuration" /\ srv'[c].got = <<>> /\ todo[c] = <<>>
        /\ cli' = cli
    <3>1. "configuration" # "play"
      OBVIOUS
    <3> QED
      BY <1>3, <1>7, <3>1, TurnsIs
  <2>2. ASSUME NEW at, NEW Pre, NEW Upre, NEW D, Talking(c, at, Pre, Upre, D)
        PROVE  Onward(c, Pre, <<a, b>>)
    <3> DEFINE P == <<Small(REGISTRY_DATA, 0), Small(FINISH_CONFIGURATION, 0)>>
    <3>1. /\ cli[c].phase = "configuration" /\ Pre = <<>> /\ Protocol(c) \in SUPPORTED_PROTOCOLS
          /\ Frame(c).id = LOGIN_ACKNOWLEDGED
          /\ \E U : /\ UpFlow(<<>>, up[c], U)
                    /\ Sent(U, <<>>, said[c], taken[c], Protocol(c), FALSE)
      BY <1>6, <2>2
    <3>2. Stage("configuration", "configuration", P, <<>>, Protocol(c))
      BY <3>1 DEF Stage, Entered
    <3>3. Lengthened(<<>>, P, <<a, b>>)
      BY <1>5 DEF Lengthened
    <3> HIDE DEF P
    <3> QED
      BY <2>1, <3>1, <3>2, <3>3 DEF Onward
  <2>3. <<a, b>> \in Seq(Entry(R))
    BY <1>5
  <2> QED
    BY <1>3, <1>5, <2>1, <2>2, <2>3, TurnedSteps
<1>8. CASE Turns(c, "joining", <<>>) /\ Frame(c).id # LOGIN_ACKNOWLEDGED
  <2>1. Turned(c, <<>>)
    <3>1. "joining" # "play"
      OBVIOUS
    <3> QED
      BY <1>3, <1>8, <3>1, TurnsIs
  <2>2. ASSUME NEW at, NEW Pre, NEW Upre, NEW D, Talking(c, at, Pre, Upre, D)
        PROVE  Onward(c, Pre, <<>>)
    BY <1>6, <1>8, <2>2
  <2>3. NoPacket \notin {} /\ <<>> \in Seq(Entry({}))
    BY NoFrames
  <2> QED
    BY <1>3, <2>1, <2>2, <2>3, TurnedSteps
<1> QED
  BY <1>2, <1>7, <1>8

\* Where a packet of the configuration phase leaves a session.
LEMMA Configures ==
  ASSUME NEW p \in SUPPORTED_PROTOCOLS, NEW cp, NEW Pre, NEW Upre, Upre # <<>>, cp \in {"configuration", "play"},
         Stage("configuration", cp, Pre, Upre, p)
  PROVE  Stage(IF Upre[1].id = FINISH_CONFIGURATION THEN "joining" ELSE "configuration", cp, Pre,
               Tail(Upre), p)
<1> DEFINE I == Small(CLIENT_INFORMATION, 0)
           J == Small(FINISH_CONFIGURATION, 0)
<1>1. I.id # FINISH_CONFIGURATION /\ J.id = FINISH_CONFIGURATION
  BY DEF Small, Packet, CLIENT_INFORMATION, FINISH_CONFIGURATION
<1>2. \/ cp = "configuration" /\ Pre = <<J>> /\ Upre = <<I>>
      \/ cp = "play" /\ Pre = <<>> /\ Upre = <<J>>
      \/ cp = "play" /\ Pre = <<>> /\ Upre = <<I, J>>
  BY DEF Stage, Entered
<1>3. CASE cp = "configuration" /\ Pre = <<J>> /\ Upre = <<I>>
  <2>1. Upre[1] = I /\ Tail(Upre) = <<>>
    BY <1>3
  <2> QED
    BY <1>1, <1>3, <2>1 DEF Stage, Entered
<1>4. CASE cp = "play" /\ Pre = <<>> /\ Upre = <<J>>
  <2>1. Upre[1] = J /\ Tail(Upre) = <<>>
    BY <1>4
  <2> QED
    BY <1>1, <1>4, <2>1 DEF Stage, Entered
<1>5. CASE cp = "play" /\ Pre = <<>> /\ Upre = <<I, J>>
  <2>1. Upre[1] = I /\ Tail(Upre) = <<J>>
    BY <1>5
  <2> QED
    BY <1>1, <1>5, <2>1 DEF Stage, Entered
<1> QED
  BY <1>2, <1>3, <1>4, <1>5

LEMMA Configuring ==
  ASSUME Shapes, NEW c \in Clients, Wired(c), Configuration(c)
  PROVE  Steps(c)
<1> DEFINE phase == IF Frame(c).id = FINISH_CONFIGURATION THEN "joining" ELSE "configuration"
<1>1. srv[c].phase = "configuration" /\ FrameIn(c) /\ Frame(c) # NoPacket
  BY DEF Configuration
<1>2. Turns(c, phase, <<>>) /\ phase # "play"
  BY DEF Configuration
<1>3. /\ Reading(c) /\ ~InPlay(c) /\ srv[c].phase # "joining" /\ Histories(c) /\ ~Asking(c)
  BY <1>1, Turning
<1> HIDE DEF phase
<1>4. /\ Turned(c, <<>>) /\ srv'[c].phase = phase /\ srv'[c].got = <<>> /\ todo[c] = <<>>
      /\ cli' = cli /\ up' = up /\ setup' = setup /\ said' = said /\ taken' = taken
  BY <1>2, <1>3, TurnsIs
<1>5. ASSUME NEW at, NEW Pre, NEW Upre, NEW D, Talking(c, at, Pre, Upre, D)
      PROVE  Onward(c, Pre, <<>>)
  <2>1. /\ Upre # <<>> /\ Frame(c) = Upre[1] /\ srv[c].phase = at
        /\ \E U : /\ UpFlow(<<>>, up[c], U)
                  /\ Sent(U, Tail(Upre), said[c], taken[c], Protocol(c), FALSE)
    BY <1>1, <1>3, <1>5, TalkTurn
  <2>2. Stage("configuration", cli[c].phase, Pre, Upre, Protocol(c))
    BY <1>1, <1>5, <2>1 DEF Talking
  <2>3. Protocol(c) \in SUPPORTED_PROTOCOLS /\ cli[c].phase \in {"configuration", "play"}
    BY <2>2 DEF Stage, Entered
  <2>4. Stage(phase, cli[c].phase, Pre, Tail(Upre), Protocol(c))
    BY <2>1, <2>2, <2>3, Configures DEF phase
  <2>5. Len(Pre) \in Nat
    BY <2>2, StageIs
  <2>6. Lengthened(Pre, Pre, <<>>)
    BY <2>5 DEF Lengthened
  <2> QED
    BY <1>2, <1>4, <2>1, <2>4, <2>6 DEF Onward
<1>6. said[c] # <<>> /\ Late(c) => Late(c)'
  <2> SUFFICES ASSUME said[c] # <<>> /\ Late(c) PROVE Late(c)'
    OBVIOUS
  <2>1. PICK Upre : /\ Upre \in {<<Small(FINISH_CONFIGURATION, 0)>>,
                           <<Small(CLIENT_INFORMATION, 0), Small(FINISH_CONFIGURATION, 0)>>}
                    /\ Frame(c) = Upre[1]
                    /\ \E U : /\ UpFlow(<<>>, up[c], U)
                              /\ Sent(U, Tail(Upre), said[c], taken[c], Protocol(c), TRUE)
    BY <1>1, <1>3, LateTurn
  <2>2. Protocol(c) \in SUPPORTED_PROTOCOLS
    BY <1>1, <1>3, LateTurn
  <2>3. Stage("configuration", "play", <<>>, Upre, Protocol(c)) /\ Upre # <<>>
    BY <2>1, <2>2 DEF Stage, Entered
  <2>4. Stage(phase, "play", <<>>, Tail(Upre), Protocol(c))
    BY <2>1, <2>2, <2>3, Configures DEF phase
  <2>5. Protocol(c)' = Protocol(c)
    BY <1>4 DEF Protocol
  <2>6. Upward(c, Tail(Upre), TRUE)'
    <3>1. \E U : /\ UpFlow(srv'[c].got, up'[c], U)
                 /\ Sent(U, Tail(Upre), said'[c], taken'[c], Protocol(c)', TRUE)
      BY <1>4, <2>1, <2>5
    <3> QED
      BY <3>1 DEF Upward
  <2> QED
    BY <1>4, <2>4, <2>5, <2>6 DEF Late
<1>7. NoPacket \notin {} /\ <<>> \in Seq(Entry({}))
  BY NoFrames
<1> QED
  BY <1>3, <1>4, <1>5, <1>6, <1>7, TurnedSteps

(***************************************************************************)
(* The play state: joining, reading, leaving, and what a player is told.   *)
(***************************************************************************)
LEMMA ListedMore ==
  ASSUME NEW s, Listed(s), NEW x
  PROVE  /\ Listed(Append(s, x)) /\ Len(s) \in Nat /\ Len(Append(s, x)) = Len(s) + 1
         /\ \A i \in 1 .. Len(s) : Append(s, x)[i] = s[i]
         /\ Append(s, x)[Len(s) + 1] = x
<1> DEFINE T == Range(s) \cup {x}
           u == Append(s, x)
<1>1. Range(s) \subseteq T /\ s \in Seq(Range(s)) /\ x \in T
  BY DEF Listed
<1> HIDE DEF T
<1>2. s \in Seq(T)
  BY <1>1, MoreOf
<1>3. /\ u \in Seq(T) /\ Len(s) \in Nat /\ Len(u) = Len(s) + 1
      /\ \A i \in 1 .. Len(s) : u[i] = s[i]
      /\ u[Len(s) + 1] = x
  BY <1>1, <1>2
<1> HIDE DEF u
<1>4. Listed(u)
  BY <1>3, ListedIs
<1> QED
  BY <1>3, <1>4 DEF u

\* What a session in play reads next was said next.
LEMMA UpInPlay ==
  ASSUME NEW c, Wired(c), InPlay(c), Alive(cli[c].phase) \/ said[c] # <<>>
  PROVE  Upward(c, <<>>, ~Alive(cli[c].phase))
<1>1. CASE Alive(cli[c].phase)
  <2>1. cli[c].phase # "status"
    BY DEF Wired, Asking, InPlay
  <2>2. PICK at, Pre, Upre, D : Talking(c, at, Pre, Upre, D)
    BY <1>1, <2>1 DEF Wired
  <2>3. Stage("play", cli[c].phase, Pre, Upre, Protocol(c)) /\ Upward(c, Upre, FALSE)
    BY <2>2 DEF Talking, InPlay
  <2>4. Upre = <<>>
    BY <2>3, StageIs
  <2> QED
    BY <1>1, <2>3, <2>4
<1>2. CASE ~Alive(cli[c].phase)
  <2>1. Late(c)
    BY <1>2 DEF Wired, InPlay
  <2>2. PICK Upre : Stage("play", "play", <<>>, Upre, Protocol(c)) /\ Upward(c, Upre, TRUE)
    BY <2>1 DEF Late, InPlay
  <2>3. Upre = <<>>
    BY <2>2, StageIs
  <2> QED
    BY <1>2, <2>2, <2>3
<1> QED
  BY <1>1, <1>2

LEMMA TakesFrame ==
  ASSUME Shapes, NEW c \in Clients, Wired(c), TakeFrame(c)
  PROVE  Steps(c)
<1> DEFINE x == translate_serverbound(Frame(c), Protocol(c))
           t == Append(taken[c], x)
<1>1. /\ InPlay(c) /\ FrameIn(c) /\ Frame(c) # NoPacket
      /\ srv' = [srv EXCEPT ![c].got = <<>>]
      /\ taken' = [taken EXCEPT ![c] = Append(@, x)]
      /\ UNCHANGED <<setup, todo, task, left, pending, pos, cli, heard, said, queue, down, up, told>>
  BY DEF TakeFrame, outVars, cliVars
<1>2. /\ srv'[c].phase = "play" /\ srv[c].phase = "play" /\ srv'[c].zip = srv[c].zip
      /\ srv'[c].got = <<>> /\ srv'[c].secret = srv[c].secret /\ srv'[c].outIv = srv[c].outIv
      /\ DOMAIN srv'[c] = PeerFields /\ taken'[c] = t
  BY <1>1 DEF Shapes, PeerFields, InPlay
<1>3. Shapes' /\ Only(c)
  BY <1>1, <1>2 DEF Shapes, Only, Same
<1>4. Protocol(c)' = Protocol(c)
  BY <1>1 DEF Protocol
<1>5. Histories(c)
  BY DEF Wired
<1> HIDE DEF x
<1>6. /\ Listed(t) /\ Len(taken[c]) \in Nat /\ Len(t) = Len(taken[c]) + 1
      /\ \A i \in 1 .. Len(taken[c]) : t[i] = taken[c][i]
      /\ t[Len(taken[c]) + 1] = x
  <2>1. Listed(taken[c])
    BY <1>5 DEF Histories, SaidOk
  <2> QED
    BY <2>1, ListedMore
<1> HIDE DEF t
<1>7. ASSUME Alive(cli[c].phase) \/ said[c] # <<>>
      PROVE  /\ Len(taken[c]) + 1 <= Len(said[c]) /\ x = said[c][Len(taken[c]) + 1]
             /\ \E U : /\ UpFlow(<<>>, up[c], U)
                       /\ Sent(U, <<>>, said[c], t, Protocol(c), ~Alive(cli[c].phase))
  <2>1. Upward(c, <<>>, ~Alive(cli[c].phase)) /\ <<>> \in Seq({})
    BY <1>1, <1>7, UpInPlay
  <2> DEFINE lost == ~Alive(cli[c].phase)
  <2>2. Upward(c, <<>>, lost)
    BY <2>1
  <2> HIDE DEF lost
  <2>3. /\ Len(taken[c]) + 1 <= Len(said[c])
        /\ translate_serverbound(Frame(c), Protocol(c)) = said[c][Len(taken[c]) + 1]
        /\ \A s : Len(s) = Len(taken[c]) + 1 =>
             \E U : /\ UpFlow(<<>>, up[c], U)
                    /\ Sent(U, <<>>, said[c], s, Protocol(c), lost)
    BY <1>1, <1>5, <1>7, <2>1, <2>2, UpTurn
  <2>4. \E U : UpFlow(<<>>, up[c], U) /\ Sent(U, <<>>, said[c], t, Protocol(c), lost)
    BY <1>6, <2>3
  <2> QED
    BY <2>3, <2>4 DEF x, lost
<1>8. Histories(c)'
  <2>1. SaidOk(cli[c].phase, said[c], t)
    <3>1. Listed(said[c]) /\ (Alive(cli[c].phase) /\ cli[c].phase # "play" => said[c] = <<>>)
      BY <1>5 DEF Histories, SaidOk
    <3>2. ASSUME Alive(cli[c].phase) \/ said[c] # <<>>
          PROVE  Len(t) <= Len(said[c]) /\ \A i \in 1 .. Len(t) : t[i] = said[c][i]
      <4>1. \A i \in 1 .. Len(taken[c]) : taken[c][i] = said[c][i]
        BY <1>5, <3>2 DEF Histories, SaidOk
      <4>2. ASSUME NEW i \in 1 .. Len(t) PROVE t[i] = said[c][i]
        <5>1. CASE i \in 1 .. Len(taken[c])
          BY <1>6, <4>1, <5>1
        <5>2. CASE i = Len(taken[c]) + 1
          BY <1>6, <1>7, <3>2, <5>2
        <5> QED
          BY <1>6, <5>1, <5>2
      <4> QED
        BY <1>6, <1>7, <3>2, <4>2
    <3> QED
      BY <1>6, <3>1, <3>2 DEF SaidOk
  <2>2. /\ srv[c].zip \in Int /\ (task[c] = "on" => srv[c].phase = "play")
        /\ HeardOk(Protocol(c), srv[c].phase, told[c], heard[c])
    BY <1>5 DEF Histories
  <2> QED
    BY <1>1, <1>2, <1>4, <2>1, <2>2 DEF Histories
<1>9. ASSUME Alive(cli[c].phase) /\ cli[c].phase # "status"
      PROVE  \E at, Pre, Upre, D : Talking(c, at, Pre, Upre, D)'
  <2>1. PICK at, Pre, Upre, D : Talking(c, at, Pre, Upre, D)
    BY <1>9 DEF Wired
  <2>2. Below(c, at, Pre, D)'
    BY <1>1, <1>2, <1>4, <2>1 DEF Talking, Below, Downward
  <2>3. Upre = <<>>
    <3>1. Stage("play", cli[c].phase, Pre, Upre, Protocol(c))
      BY <1>2, <2>1 DEF Talking
    <3> QED
      BY <3>1, StageIs
  <2>4. Upward(c, <<>>, FALSE)'
    BY <1>1, <1>2, <1>4, <1>7, <1>9 DEF Upward
  <2>5. CanWrite(c)'
    BY <1>1, <2>1 DEF Talking, CanWrite
  <2>6. Talking(c, at, Pre, <<>>, D)'
    BY <1>1, <1>2, <1>4, <2>1, <2>2, <2>3, <2>4, <2>5 DEF Talking
  <2> QED
    BY <2>6
<1>10. cli[c].phase # "status"
  BY <1>2 DEF Wired, Asking
<1>11. ASSUME ~Alive(cli[c].phase), said[c] # <<>> PROVE Late(c)'
  <2>1. Late(c)
    BY <1>2, <1>11 DEF Wired
  <2>2. PICK Upre : Stage("play", "play", <<>>, Upre, Protocol(c))
    BY <1>2, <2>1 DEF Late
  <2>3. Upre = <<>>
    BY <2>2, StageIs
  <2>4. Upward(c, <<>>, TRUE)'
    BY <1>1, <1>2, <1>4, <1>7, <1>11 DEF Upward
  <2> QED
    BY <1>2, <1>4, <2>2, <2>3, <2>4 DEF Late
<1>12. Wired(c)'
  BY <1>1, <1>8, <1>9, <1>10, <1>11 DEF Wired
<1> QED
  BY <1>1, <1>3, <1>12 DEF Steps

LEMMA Leaving ==
  ASSUME Shapes, NEW c \in Clients, Wired(c), Leave(c)
  PROVE  Steps(c)
<1>1. /\ InPlay(c)
      /\ srv' = [srv EXCEPT ![c].phase = "gone", ![c].got = <<>>]
      /\ task' = [task EXCEPT ![c] = "off"] /\ queue' = [queue EXCEPT ![c] = <<>>]
      /\ left' = [left EXCEPT ![c] = <<>>] /\ pending' = [pending EXCEPT ![c] = <<>>]
      /\ pos' = [pos EXCEPT ![c] = 0]
      /\ UNCHANGED <<setup, todo, taken, cli, heard, said, down, up, told>>
  BY DEF Leave, cliVars
<1>2. /\ srv'[c].phase = "gone" /\ srv[c].phase = "play" /\ srv'[c].zip = srv[c].zip
      /\ srv'[c].secret = srv[c].secret /\ srv'[c].outIv = srv[c].outIv
      /\ DOMAIN srv'[c] = PeerFields
      /\ task'[c] = "off" /\ left'[c] = <<>> /\ pending'[c] = <<>> /\ pos'[c] = 0
  BY <1>1 DEF Shapes, PeerFields, InPlay
<1>3. Shapes' /\ Only(c)
  BY <1>1, <1>2 DEF Shapes, Only, Same
<1>4. Protocol(c)' = Protocol(c)
  BY <1>1 DEF Protocol
<1>5. Histories(c)'
  <2>1. Histories(c)
    BY DEF Wired
  <2>2. HeardOk(Protocol(c), "gone", told[c], heard[c])
    BY <2>1 DEF Histories, HeardOk
  <2>3. srv[c].zip \in Int /\ SaidOk(cli[c].phase, said[c], taken[c])
    BY <2>1 DEF Histories
  <2> QED
    BY <1>1, <1>2, <1>4, <2>2, <2>3 DEF Histories
<1>6. ASSUME NEW at, NEW Pre, NEW Upre, NEW D, Talking(c, at, Pre, Upre, D)
      PROVE  Talking(c, at, Pre, Upre, D)'
  <2>1. Below(c, at, Pre, D) /\ todo[c] = <<>> /\ at = "play"
    BY <1>2, <1>6 DEF Talking, Below
  <2>2. DownFlow(srv[c].phase, srv[c].secret, srv[c].outIv, cli[c].got, down[c], pending[c], pos[c],
                 left[c], <<>>, D)
    BY <2>1 DEF Below, Downward
  <2>3. DownFlow("gone", srv[c].secret, srv[c].outIv, cli[c].got, down[c], <<>>, 0, <<>>, <<>>, D)
    BY <2>2, DownStops
  <2>4. Downward(c, D)'
    BY <1>1, <1>2, <2>1, <2>3 DEF Downward
  <2>5. Below(c, at, Pre, D)'
    BY <1>1, <1>2, <1>4, <2>1, <2>4 DEF Below
  <2>6. Upward(c, Upre, FALSE)' /\ CanWrite(c)'
    BY <1>1, <1>2, <1>6 DEF Talking, Upward, CanWrite
  <2> QED
    BY <1>1, <1>2, <1>4, <1>6, <2>5, <2>6 DEF Talking
<1>7. cli[c].phase # "status"
  BY <1>2 DEF Wired, Asking
<1>8. Wired(c)'
  BY <1>1, <1>2, <1>5, <1>6, <1>7 DEF Wired
<1> QED
  BY <1>1, <1>3, <1>8 DEF Steps

(***************************************************************************)
(* Joining, and what a player is told.                                     *)
(***************************************************************************)
LEMMA AlikeTold ==
  ASSUME NEW x, Alike(x), NEW p
  PROVE  IsTold(x, p)
<1>1. x.id \in play_cb /\ x.id # UPDATE_ADVANCEMENTS /\ x = Packet(x.id, Body(x.id), x.arg)
  BY DEF Alike, Others
<1>2. Built(x.id, p) = Body(x.id) /\ Sendable(x.id, p)
  BY <1>1 DEF Built, Sendable
<1> QED
  BY <1>1, <1>2 DEF IsTold

LEMMA LoginTold == Alike(Packet(LOGIN, Body(LOGIN), 0))
<1> DEFINE x == Packet(LOGIN, Body(LOGIN), 0)
<1>1. LOGIN \in Others
  BY DEF LOGIN, play_cb, Others, UPDATE_ADVANCEMENTS
<1>2. x.id = LOGIN /\ x.arg = 0
  BY DEF Packet
<1> HIDE DEF x
<1>3. x = Packet(x.id, Body(x.id), x.arg)
  BY <1>2 DEF x
<1>4. Alike(x)
  BY <1>1, <1>2, <1>3 DEF Alike
<1> QED
  BY <1>4 DEF x

LEMMA JoinsPlay ==
  ASSUME Shapes, NEW c \in Clients, Wired(c), Join(c)
  PROVE  Steps(c)
<1> DEFINE x == Packet(LOGIN, Body(LOGIN), 0)
<1>1. /\ srv[c].phase = "joining" /\ todo[c] = <<>>
      /\ srv' = [srv EXCEPT ![c].phase = "play"]
      /\ task' = [task EXCEPT ![c] = "on"]
      /\ queue' = [queue EXCEPT ![c] = <<x>>] /\ told' = [told EXCEPT ![c] = <<x>>]
      /\ UNCHANGED <<setup, todo, taken, left, pending, pos, cli, heard, said, down, up>>
  BY DEF Join, cliVars
<1>2. IsTold(x, Protocol(c))
  BY LoginTold, AlikeTold
<1> HIDE DEF x
<1>3. /\ srv'[c].phase = "play" /\ srv'[c].zip = srv[c].zip /\ srv'[c].got = srv[c].got
      /\ srv'[c].secret = srv[c].secret /\ srv'[c].outIv = srv[c].outIv
      /\ DOMAIN srv'[c] = PeerFields
      /\ queue'[c] = <<x>> /\ told'[c] = <<x>>
  BY <1>1 DEF Shapes, PeerFields
<1>4. Shapes' /\ Only(c)
  BY <1>1, <1>3 DEF Shapes, Only, Same
<1>5. Protocol(c)' = Protocol(c)
  BY <1>1 DEF Protocol
<1>6. Histories(c)
  BY DEF Wired
<1>7. heard[c] = <<>>
  BY <1>1, <1>6 DEF Histories, HeardOk
<1>8. Len(<<x>>) = 1 /\ <<x>>[1] = x /\ Listed(<<x>>) /\ Listed(<<>>)
  <2>1. <<x>> \in Seq({x}) /\ <<>> \in Seq({x})
    OBVIOUS
  <2>2. Listed(<<x>>) /\ Listed(<<>>)
    BY <2>1, ListedIs
  <2> QED
    BY <2>2
<1>9. Histories(c)'
  <2>1. \A i \in 1 .. Len(<<x>>) : IsTold(<<x>>[i], Protocol(c))
    BY <1>2, <1>8
  <2>2. HeardOk(Protocol(c), "play", <<x>>, <<>>)
    <3>1. Len(<<>>) = 0
      OBVIOUS
    <3> DEFINE s == <<x>>
    <3>2. Len(s) = 1 /\ Listed(s) /\ \A i \in 1 .. Len(s) : IsTold(s[i], Protocol(c))
      BY <1>8, <2>1
    <3> HIDE DEF s
    <3>3. HeardOk(Protocol(c), "play", s, <<>>)
      BY <1>8, <3>1, <3>2 DEF HeardOk
    <3> QED
      BY <3>3 DEF s
  <2>3. srv[c].zip \in Int /\ SaidOk(cli[c].phase, said[c], taken[c])
    BY <1>6 DEF Histories
  <2> QED
    BY <1>1, <1>3, <1>5, <1>7, <2>2, <2>3 DEF Histories
<1>10. ASSUME NEW at, NEW Pre, NEW Upre, NEW D, Talking(c, at, Pre, Upre, D)
       PROVE  Talking(c, "play", Pre, Upre, D)'
  <2>1. at = "joining" /\ Stage(at, cli[c].phase, Pre, Upre, Protocol(c))
    BY <1>1, <1>10 DEF Talking
  <2>2. Stage("play", cli[c].phase, Pre, Upre, Protocol(c))
    BY <2>1 DEF Stage, Entered
  <2>3. Below(c, at, Pre, D) /\ Len(D) = Len(Pre)
    BY <1>10, <2>1 DEF Talking, Below
  <2>4. /\ Len(D) \in Nat /\ Len(Pre) \in Nat /\ Register(srv[c].outIv)
        /\ srv[c].secret \/ pending[c] = <<>>
    BY <1>6, <1>10, TalkIs
  <2>5. PICK N : D \in Seq(N)
    BY <1>6, <1>10, TalkIs
  <2>6. Downward(c, D)'
    <3>1. DownFlow(srv[c].phase, srv[c].secret, srv[c].outIv, cli[c].got, down[c], pending[c], pos[c],
                   left[c], <<>>, D)
      BY <1>1, <2>3 DEF Below, Downward
    <3>2. NoPacket \notin {} /\ <<>> \in Seq(Entry({}))
      BY NoFrames
    <3>3. srv[c].phase # "gone"
      BY <1>1
    <3>4. DownFlow("play", srv[c].secret, srv[c].outIv, cli[c].got, down[c], pending[c], pos[c],
                   left[c], <<>>, D \o <<>>)
      BY <2>4, <3>1, <3>2, <3>3, DownTodo
    <3>5. D \o <<>> = D
      BY <2>5
    <3> QED
      BY <1>1, <1>3, <3>4, <3>5 DEF Downward
  <2>7. Owed(D, Pre, <<x>>, <<>>, Protocol(c))
    <3>1. Len(<<>>) = 0 /\ Len(<<x>>) = 1
      OBVIOUS
    <3> DEFINE s == <<x>>
               e == <<>>
    <3>2. Len(e) = 0 /\ Len(s) = 1
      BY <3>1
    <3> HIDE DEF s, e
    <3>3. ASSUME NEW i \in 1 .. Len(D) PROVE i <= Len(Pre) /\ D[i].packet = Pre[i]
      <4>1. i <= Len(Pre)
        BY <2>3, <2>4
      <4> QED
        BY <2>3, <4>1 DEF Below, Owed
    <3>4. Len(Pre) <= Len(D) /\ Len(e) + (Len(D) - Len(Pre)) <= Len(s)
      BY <2>3, <2>4, <3>2
    <3>5. Owed(D, Pre, s, e, Protocol(c))
      BY <3>3, <3>4 DEF Owed
    <3> QED
      BY <3>5 DEF s, e
  <2>8. Queued(<<x>>, <<x>>, Len(<<>>) + (Len(D) - Len(Pre)))
    <3>1. Len(<<>>) + (Len(D) - Len(Pre)) = 0
      BY <2>3, <2>4
    <3> DEFINE s == <<x>>
    <3>2. s \in Seq({x})
      OBVIOUS
    <3> HIDE DEF s
    <3>3. SubSeq(s, 1, Len(s)) = s
      BY <3>2
    <3>4. Queued(s, s, 0)
      BY <3>3 DEF Queued
    <3> QED
      BY <3>1, <3>4 DEF s
  <2>9. Below(c, "play", Pre, D)'
    BY <1>1, <1>3, <1>5, <1>7, <2>6, <2>7, <2>8 DEF Below
  <2>10. Upward(c, Upre, FALSE)' /\ CanWrite(c)'
    BY <1>1, <1>3, <1>5, <1>10 DEF Talking, Upward, CanWrite
  <2> QED
    BY <1>1, <1>3, <1>5, <2>2, <2>9, <2>10 DEF Talking
<1>11. cli[c].phase # "status"
  BY <1>1 DEF Wired, Asking
<1>12. ASSUME Late(c) PROVE Late(c)'
  <2>1. PICK Upre : Stage("joining", "play", <<>>, Upre, Protocol(c)) /\ Upward(c, Upre, TRUE)
    BY <1>1, <1>12 DEF Late
  <2>2. Stage("play", "play", <<>>, Upre, Protocol(c))
    BY <2>1 DEF Stage, Entered
  <2>3. Upward(c, Upre, TRUE)'
    BY <1>1, <1>3, <1>5, <2>1 DEF Upward
  <2> QED
    BY <1>1, <1>3, <1>5, <2>2, <2>3 DEF Late
<1>13. Wired(c)'
  BY <1>1, <1>3, <1>9, <1>10, <1>11, <1>12 DEF Wired
<1> QED
  BY <1>1, <1>4, <1>13 DEF Steps

LEMMA Telling ==
  ASSUME Shapes, NEW c \in Clients, Wired(c), NEW x, IsTold(x, Protocol(c)), SendTo({c}, x),
         UNCHANGED <<setup, srv, todo, taken, task, left, pending, pos, cli, heard, said, down, up>>
  PROVE  Steps(c)
<1>1. /\ queue' = [d \in Clients |-> IF d \in {c} THEN Append(queue[d], x) ELSE queue[d]]
      /\ told' = [d \in Clients |-> IF d \in {c} THEN Append(told[d], x) ELSE told[d]]
  BY DEF SendTo
<1>2. queue'[c] = Append(queue[c], x) /\ told'[c] = Append(told[c], x)
  BY <1>1
<1>3. Shapes' /\ Only(c)
  BY <1>1 DEF Shapes, Only, Same
<1>4. Protocol(c)' = Protocol(c)
  BY DEF Protocol
<1>5. Histories(c)
  BY DEF Wired
<1> DEFINE u == Append(told[c], x)
<1>6. /\ Listed(u) /\ Len(told[c]) \in Nat /\ Len(u) = Len(told[c]) + 1
      /\ \A i \in 1 .. Len(told[c]) : u[i] = told[c][i]
      /\ u[Len(told[c]) + 1] = x
  <2>1. Listed(told[c])
    BY <1>5 DEF Histories, HeardOk
  <2> QED
    BY <2>1, ListedMore
<1> HIDE DEF u
<1>7. Histories(c)'
  <2>1. /\ \A i \in 1 .. Len(told[c]) : IsTold(told[c][i], Protocol(c))
        /\ Listed(heard[c]) /\ Len(heard[c]) <= Len(told[c])
        /\ \A i \in 1 .. Len(heard[c]) : heard[c][i] = translate_clientbound(told[c][i], Protocol(c))
        /\ heard[c] # <<>> => srv[c].phase \in {"play", "gone"} /\ Protocol(c) \in SUPPORTED_PROTOCOLS
    BY <1>5 DEF Histories, HeardOk
  <2>2. Len(heard[c]) \in Nat
    BY <2>1 DEF Listed
  <2>3. ASSUME NEW i \in 1 .. Len(u) PROVE IsTold(u[i], Protocol(c))
    <3>1. CASE i \in 1 .. Len(told[c])
      BY <1>6, <2>1, <3>1
    <3>2. CASE i = Len(told[c]) + 1
      BY <1>6, <3>2
    <3> QED
      BY <1>6, <3>1, <3>2
  <2>4. ASSUME NEW i \in 1 .. Len(heard[c])
        PROVE  heard[c][i] = translate_clientbound(u[i], Protocol(c))
    <3>1. i \in 1 .. Len(told[c])
      BY <1>6, <2>1, <2>2
    <3> QED
      BY <1>6, <2>1, <3>1
  <2>5. HeardOk(Protocol(c), srv[c].phase, u, heard[c])
    BY <1>6, <2>1, <2>2, <2>3, <2>4 DEF HeardOk
  <2>6. srv[c].zip \in Int /\ SaidOk(cli[c].phase, said[c], taken[c])
        /\ (task[c] = "on" => srv[c].phase = "play")
    BY <1>5 DEF Histories
  <2> QED
    BY <1>2, <1>4, <2>5, <2>6 DEF Histories, u
<1>8. ASSUME NEW at, NEW Pre, NEW Upre, NEW D, Talking(c, at, Pre, Upre, D)
      PROVE  Talking(c, at, Pre, Upre, D)'
  <2> DEFINE n == Len(heard[c]) + (Len(D) - Len(Pre))
             T == Range(told[c]) \cup {x}
  <2>1. /\ Len(heard[c]) \in Nat /\ Len(Pre) \in Nat /\ n \in Nat /\ n <= Len(told[c])
        /\ told[c] \in Seq(Range(told[c]))
    BY <1>5, <1>8, TalkIs
  <2>2. PICK N : D \in Seq(N)
    BY <1>5, <1>8, TalkIs
  <2>3. Below(c, at, Pre, D)
    BY <1>8 DEF Talking
  <2>4. x \in T /\ Range(told[c]) \subseteq T
    OBVIOUS
  <2> HIDE DEF T
  <2>5. told[c] \in Seq(T)
    BY <2>1, <2>4, MoreOf
  <2>6. Owed(D, Pre, u, heard[c], Protocol(c))
    <3>1. Owed(D, Pre, told[c], heard[c], Protocol(c))
      BY <2>3 DEF Below
    <3> QED
      BY <2>1, <2>2, <2>4, <2>5, <3>1, OwedTold DEF u
  <2>7. srv[c].phase = "play" => Queued(Append(queue[c], x), u, n)
    <3>1. srv[c].phase = "play" => Queued(queue[c], told[c], n)
      BY <2>3 DEF Below
    <3> HIDE DEF n
    <3> QED
      BY <2>1, <2>4, <2>5, <3>1, QueuedTold DEF u
  <2>8. Downward(c, D)'
    BY <2>3 DEF Below, Downward
  <2>9. Below(c, at, Pre, D)'
    <3>1. srv[c].phase = "play" => todo[c] = <<>>
      BY <2>3 DEF Below
    <3>2. at # "play" => Len(D) = Len(Pre) /\ heard[c] = <<>>
      BY <2>3 DEF Below
    <3> QED
      BY <1>2, <1>4, <2>6, <2>7, <2>8, <3>1, <3>2 DEF Below, u
  <2>10. Upward(c, Upre, FALSE)' /\ CanWrite(c)'
    BY <1>4, <1>8 DEF Talking, Upward, CanWrite
  <2> QED
    BY <1>4, <1>8, <2>9, <2>10 DEF Talking
<1>9. Asking(c) => Asking(c)'
  BY DEF Asking, CanWrite
<1>10. Late(c) => Late(c)'
  BY <1>4 DEF Late, Upward
<1>11. Wired(c)'
  BY <1>7, <1>8, <1>9, <1>10 DEF Wired
<1> QED
  BY <1>3, <1>11 DEF Steps

(***************************************************************************)
(* The client: what it writes, and how it is lost.                         *)
(***************************************************************************)
LEMMA UpWrites ==
  ASSUME NEW c, CanWrite(c), NEW R, NoPacket \in R, NEW packets \in Seq(R),
         NEW got, NEW U, UpFlow(got, up[c], U)
  PROVE  UpFlow(got, up[c] \o ClientBytes(c, packets), U \o Framed(packets, cli[c].zip))
<1>1. /\ ClientBytes(c, packets) \in Seq(ByteOf(PieceOf(R)))
      /\ Framed(packets, cli[c].zip) \in Seq(Entry(R))
      /\ Letters(ClientBytes(c, packets)) = Line(Framed(packets, cli[c].zip))
  BY ClientBytesAre DEF CanWrite
<1> DEFINE b == ClientBytes(c, packets)
           E == Framed(packets, cli[c].zip)
<1>2. b \in Seq(ByteOf(PieceOf(R))) /\ E \in Seq(Entry(R)) /\ Letters(b) = Line(E)
  BY <1>1
<1> HIDE DEF b, E
<1>3. UpFlow(got, up[c] \o b, U \o E)
  BY <1>2, UpGrows
<1> QED
  BY <1>3 DEF b, E

LEMMA FramedIs ==
  ASSUME NEW R, NEW packets \in Seq(R), NEW zip
  PROVE  /\ Len(Framed(packets, zip)) = Len(packets)
         /\ \A i \in 1 .. Len(packets) : Framed(packets, zip)[i].packet = packets[i]
         /\ \E N : Framed(packets, zip) \in Seq(N)
<1> DEFINE E == Framed(packets, zip)
           N == {[packet |-> x, zip |-> zip] : x \in R}
<1>1. E = [i \in 1 .. Len(packets) |-> [packet |-> packets[i], zip |-> zip]] /\ Len(packets) \in Nat
  BY DEF Framed
<1> HIDE DEF E
<1>2. \A i \in 1 .. Len(packets) : packets[i] \in R
  OBVIOUS
<1>3. Len(E) = Len(packets) /\ E \in Seq(N)
  BY <1>1, <1>2
<1>4. \A i \in 1 .. Len(packets) : E[i].packet = packets[i]
  BY <1>1
<1> QED
  BY <1>3, <1>4 DEF E

LEMMA SentPre ==
  ASSUME NEW N, NEW U \in Seq(N), NEW M, NEW E \in Seq(M), NEW Upre, NEW Upre2, NEW takenc, NEW p,
         NEW lost, Len(Upre) \in Nat, Len(takenc) \in Nat, Len(takenc) <= 0,
         Sent(U, Upre, <<>>, takenc, p, FALSE), Lengthened(Upre, Upre2, E)
  PROVE  Sent(U \o E, Upre2, <<>>, takenc, p, lost)
<1> DEFINE S == N \cup M
           W == U \o E
<1>1. N \subseteq S /\ M \subseteq S
  OBVIOUS
<1> HIDE DEF S
<1>2. U \in Seq(S) /\ E \in Seq(S)
  BY <1>1, MoreOf
<1>3. /\ Len(W) = Len(U) + Len(E) /\ Len(U) \in Nat /\ Len(E) \in Nat
      /\ \A i \in 1 .. Len(U) : W[i] = U[i]
      /\ \A i \in 1 .. Len(E) : W[Len(U) + i] = E[i]
  BY <1>2, ConcatIs
<1> HIDE DEF W
<1>4. Len(<<>>) = 0 /\ Len(takenc) = 0
  OBVIOUS
<1> DEFINE said0 == <<>>
<1>5. Len(said0) = 0
  BY <1>4
<1>6. Sent(U, Upre, said0, takenc, p, FALSE)
  OBVIOUS
<1> HIDE DEF said0
<1>7. Len(U) = Len(Upre) /\ \A i \in 1 .. Len(Upre) : U[i].packet = Upre[i]
  BY <1>3, <1>4, <1>5, <1>6 DEF Sent
<1>8. /\ Len(Upre2) = Len(Upre) + Len(E)
      /\ \A i \in 1 .. Len(Upre) : Upre2[i] = Upre[i]
      /\ \A i \in 1 .. Len(E) : Upre2[Len(Upre) + i] = E[i].packet
  BY DEF Lengthened
<1>9. ASSUME NEW i \in 1 .. Len(Upre2) PROVE W[i].packet = Upre2[i]
  <2>1. CASE i \in 1 .. Len(Upre)
    BY <1>3, <1>7, <1>8, <2>1
  <2>2. CASE ~(i \in 1 .. Len(Upre))
    <3>1. i - Len(Upre) \in 1 .. Len(E) /\ Len(Upre) + (i - Len(Upre)) = i
          /\ Len(U) + (i - Len(Upre)) = i
      BY <1>3, <1>7, <1>8, <2>2
    <3>2. W[i] = E[i - Len(Upre)] /\ Upre2[i] = E[i - Len(Upre)].packet
      BY <1>3, <1>8, <3>1
    <3> QED
      BY <3>2
  <2> QED
    BY <2>1, <2>2
<1>10. Len(W) = Len(Upre2) + (Len(said0) - Len(takenc)) /\ Len(said0) - Len(takenc) = 0
  BY <1>3, <1>4, <1>5, <1>7, <1>8
<1>11. Sent(W, Upre2, said0, takenc, p, lost)
  BY <1>9, <1>10 DEF Sent
<1> QED
  BY <1>11 DEF W, said0

\* What the client says, or the last it writes, comes after what it said.
LEMMA SentSaid ==
  ASSUME NEW N, NEW U \in Seq(N), NEW e, NEW Upre, Len(Upre) \in Nat, NEW saidc, NEW takenc, NEW p,
         Len(saidc) \in Nat, Len(takenc) \in Nat, Len(takenc) <= Len(saidc),
         Sent(U, Upre, saidc, takenc, p, FALSE)
  PROVE  /\ \A t, x : /\ Len(t) = Len(saidc) + 1 /\ t[Len(saidc) + 1] = x
                      /\ \A i \in 1 .. Len(saidc) : t[i] = saidc[i]
                      /\ translate_serverbound(e.packet, p) = x
              => Sent(U \o <<e>>, Upre, t, takenc, p, FALSE)
         /\ e.packet = NoPacket => Sent(U \o <<e>>, Upre, saidc, takenc, p, TRUE)
         /\ Sent(U, Upre, saidc, takenc, p, TRUE)
<1> DEFINE W == U \o <<e>>
           k == Len(saidc) - Len(takenc)
           S == N \cup {e}
<1>1. N \subseteq S /\ e \in S
  OBVIOUS
<1> HIDE DEF S
<1>2. U \in Seq(S)
  BY <1>1, MoreOf
<1>3. /\ Len(W) = Len(U) + 1 /\ Len(U) \in Nat /\ W[Len(U) + 1] = e
      /\ \A i \in 1 .. Len(U) : W[i] = U[i]
  BY <1>1, <1>2
<1> HIDE DEF W
<1>4. k \in Nat
  OBVIOUS
<1>5. /\ \A i \in 1 .. Len(Upre) : i <= Len(U) => U[i].packet = Upre[i]
      /\ \A i \in 1 .. k : translate_serverbound(U[Len(Upre) + i].packet, p) = saidc[Len(takenc) + i]
      /\ Len(U) = Len(Upre) + k
  BY DEF Sent
<1>6. Sent(U, Upre, saidc, takenc, p, TRUE)
  BY DEF Sent
<1>7. \A i \in 1 .. Len(Upre) : i <= Len(W) => W[i].packet = Upre[i]
  <2> SUFFICES ASSUME NEW i \in 1 .. Len(Upre) PROVE W[i].packet = Upre[i]
    OBVIOUS
  <2>1. i \in 1 .. Len(U) /\ i <= Len(U)
    BY <1>4, <1>5
  <2>2. W[i] = U[i]
    BY <1>3, <2>1
  <2>3. U[i].packet = Upre[i]
    BY <1>5, <2>1
  <2> QED
    BY <2>2, <2>3
<1>8. \A i \in 1 .. k : Len(Upre) + i \in 1 .. Len(U) /\ W[Len(Upre) + i] = U[Len(Upre) + i]
  BY <1>3, <1>4, <1>5
<1> HIDE DEF k
<1>9. ASSUME e.packet = NoPacket PROVE Sent(W, Upre, saidc, takenc, p, TRUE)
  <2>1. Len(W) = Len(Upre) + k + 1 /\ W[Len(W)].packet = NoPacket
    BY <1>3, <1>4, <1>5, <1>9
  <2> QED
    BY <1>5, <1>7, <1>8, <2>1 DEF Sent, k
<1>10. ASSUME NEW t, NEW x, Len(t) = Len(saidc) + 1, t[Len(saidc) + 1] = x,
              \A i \in 1 .. Len(saidc) : t[i] = saidc[i], translate_serverbound(e.packet, p) = x
       PROVE  Sent(W, Upre, t, takenc, p, FALSE)
  <2> DEFINE h == Len(t) - Len(takenc)
  <2>1. h = k + 1 /\ Len(takenc) + (k + 1) = Len(saidc) + 1
    BY <1>10 DEF k
  <2> HIDE DEF h
  <2>2. ASSUME NEW i \in 1 .. h
        PROVE  translate_serverbound(W[Len(Upre) + i].packet, p) = t[Len(takenc) + i]
    <3>1. CASE i \in 1 .. k
      <4>1. Len(takenc) + i \in 1 .. Len(saidc)
        BY <3>1 DEF k
      <4> QED
        BY <1>5, <1>8, <1>10, <3>1, <4>1
    <3>2. CASE i = k + 1
      <4>1. Len(Upre) + i = Len(U) + 1 /\ Len(takenc) + i = Len(saidc) + 1
        BY <1>4, <1>5, <2>1, <3>2
      <4> QED
        BY <1>3, <1>10, <4>1
    <3> QED
      BY <1>4, <2>1, <3>1, <3>2
  <2>3. Len(W) = Len(Upre) + h
    BY <1>3, <1>4, <1>5, <2>1
  <2> QED
    BY <1>7, <2>2, <2>3 DEF Sent, h
<1> QED
  BY <1>6, <1>9, <1>10 DEF W

\* Only the client's side of a connection has moved.
Client1(c) ==
  /\ UNCHANGED <<setup, srv, todo, taken, task, left, pending, pos, queue, down, told>>
  /\ DOMAIN cli' = Clients /\ DOMAIN cli'[c] = PeerFields
  /\ DOMAIN up' = Clients /\ DOMAIN heard' = Clients /\ DOMAIN said' = Clients
  /\ \A d \in Clients \ {c} :
       cli'[d] = cli[d] /\ up'[d] = up[d] /\ heard'[d] = heard[d] /\ said'[d] = said[d]

LEMMA ClientSteps ==
  ASSUME Shapes, NEW c \in Clients, Client1(c), Wired(c)'
  PROVE  Steps(c)
  BY DEF Client1, Shapes, Only, Same, Steps

LEMMA IsLost ==
  ASSUME Shapes, NEW c \in Clients, Wired(c), Client1(c),
         heard'[c] = heard[c], said' = said, cli'[c].phase \in {"lost", "confused", "left"},
         said[c] # <<>> /\ srv[c].phase # "gone" => Late(c)'
  PROVE  Steps(c)
<1>1. UNCHANGED <<setup, srv, todo, taken, task, left, pending, pos, queue, down, told>>
  BY DEF Client1
<1>2. Protocol(c)' = Protocol(c)
  BY <1>1 DEF Protocol
<1>3. Histories(c)
  BY DEF Wired
<1>4. ~Alive(cli'[c].phase) /\ cli'[c].phase # "status"
  BY DEF Alive
<1>5. SaidOk(cli'[c].phase, said[c], taken[c])
  <2>1. Listed(said[c]) /\ Listed(taken[c])
    BY <1>3 DEF Histories, SaidOk
  <2>2. said[c] # <<>> => Len(taken[c]) <= Len(said[c]) /\ \A i \in 1 .. Len(taken[c]) : taken[c][i] = said[c][i]
    BY <1>3 DEF Histories, SaidOk
  <2> QED
    BY <1>4, <2>1, <2>2 DEF SaidOk
<1>6. Histories(c)'
  <2>1. /\ srv[c].zip \in Int /\ (task[c] = "on" => srv[c].phase = "play")
        /\ HeardOk(Protocol(c), srv[c].phase, told[c], heard[c])
    BY <1>3 DEF Histories
  <2> QED
    BY <1>1, <1>2, <1>5, <2>1 DEF Histories
<1>7. Wired(c)'
  BY <1>1, <1>4, <1>6 DEF Wired
<1> QED
  BY <1>7, ClientSteps

\* What it said is still to be read.
LEMMA LateOnce ==
  ASSUME Shapes, NEW c \in Clients, Wired(c), said[c] # <<>>, srv[c].phase # "gone",
         UNCHANGED <<setup, srv, taken, up, said>>
  PROVE  Late(c)'
<1>1. Protocol(c)' = Protocol(c)
  BY DEF Protocol
<1>2. CASE ~Alive(cli[c].phase)
  <2>1. Late(c)
    BY <1>2 DEF Wired
  <2> QED
    BY <1>1, <2>1 DEF Late, Upward
<1>3. CASE Alive(cli[c].phase)
  <2>1. Histories(c)
    BY DEF Wired
  <2>2. cli[c].phase = "play"
    BY <1>3, <2>1 DEF Histories, SaidOk
  <2>3. PICK at, Pre, Upre, D : Talking(c, at, Pre, Upre, D)
    BY <1>3, <2>2 DEF Wired
  <2>4. Stage(srv[c].phase, "play", Pre, Upre, Protocol(c)) /\ Upward(c, Upre, FALSE)
    BY <2>2, <2>3 DEF Talking
  <2>5. Pre = <<>> /\ Len(Upre) \in Nat
    BY <2>4, StageIs
  <2>6. PICK U : UpFlow(srv[c].got, up[c], U) /\ Sent(U, Upre, said[c], taken[c], Protocol(c), FALSE)
    BY <2>4 DEF Upward
  <2>7. PICK N : U \in Seq(N)
    BY <2>6, UpListed
  <2>8. Len(said[c]) \in Nat /\ Len(taken[c]) \in Nat /\ Len(taken[c]) <= Len(said[c])
    BY <2>1 DEF Histories, SaidOk, Listed
  <2>9. Sent(U, Upre, said[c], taken[c], Protocol(c), TRUE)
    BY <2>5, <2>6, <2>7, <2>8, SentSaid
  <2>10. Upward(c, Upre, TRUE)'
    BY <1>1, <2>6, <2>9 DEF Upward
  <2> QED
    BY <1>1, <2>4, <2>5, <2>10 DEF Late
<1> QED
  BY <1>2, <1>3

(***************************************************************************)
(* The client starts, says something, and goes.                            *)
(***************************************************************************)
LEMMA Leaves ==
  ASSUME Shapes, NEW c \in Clients, Wired(c), ClientLeaves(c)
  PROVE  Steps(c)
<1>1. /\ cli' = [cli EXCEPT ![c].phase = "left", ![c].got = <<>>]
      /\ UNCHANGED <<setup, srv, todo, taken, task, left, pending, pos, heard, said, queue, down, up, told>>
  BY DEF ClientLeaves, srvVars, outVars
<1>2. /\ DOMAIN cli' = Clients /\ DOMAIN cli'[c] = PeerFields /\ cli'[c].phase = "left"
      /\ \A d \in Clients \ {c} : cli'[d] = cli[d]
  BY <1>1 DEF Shapes, PeerFields
<1>3. Client1(c)
  BY <1>1, <1>2 DEF Client1, Shapes
<1>4. said[c] # <<>> /\ srv[c].phase # "gone" => Late(c)'
  BY <1>1, LateOnce
<1> QED
  BY <1>1, <1>2, <1>3, <1>4, IsLost

\* What sending does to the client and to what is on the way.
LEMMA SendingIs ==
  ASSUME Shapes, NEW c \in Clients, NEW phase, NEW packets, ClientSends(c, phase, packets)
  PROVE  /\ DOMAIN cli' = Clients /\ DOMAIN cli'[c] = PeerFields /\ DOMAIN up' = Clients
         /\ \A d \in Clients \ {c} : cli'[d] = cli[d] /\ up'[d] = up[d]
         /\ cli'[c].phase = phase /\ cli'[c].got = cli[c].got /\ cli'[c].zip = cli[c].zip
         /\ cli'[c].outIv = IF cli[c].secret THEN Fed(cli[c].outIv, ClientBytes(c, packets))
                            ELSE cli[c].outIv
         /\ up'[c] = up[c] \o ClientBytes(c, packets)
<1> DEFINE b == ClientBytes(c, packets)
<1>1. /\ up' = [up EXCEPT ![c] = @ \o b]
      /\ cli' = [cli EXCEPT ![c].phase = phase,
                            ![c].outIv = IF cli[c].secret THEN Fed(@, b) ELSE @]
  BY DEF ClientSends
<1> HIDE DEF b
<1>2. /\ DOMAIN cli' = Clients /\ DOMAIN cli'[c] = PeerFields /\ DOMAIN up' = Clients
      /\ \A d \in Clients \ {c} : cli'[d] = cli[d] /\ up'[d] = up[d]
      /\ cli'[c].phase = phase /\ cli'[c].got = cli[c].got /\ cli'[c].zip = cli[c].zip
      /\ cli'[c].outIv = IF cli[c].secret THEN Fed(cli[c].outIv, b) ELSE cli[c].outIv
      /\ up'[c] = up[c] \o b
  BY <1>1 DEF Shapes, PeerFields
<1> QED
  BY <1>2 DEF b

LEMMA Strays ==
  ASSUME Shapes, NEW c \in Clients, Wired(c), ClientStrays(c)
  PROVE  Steps(c)
<1>1. PICK packet \in {NoPacket, Small(Stray, 0)} :
        /\ packet = NoPacket \/ cli[c].phase # "play"
        /\ ClientSends(c, "lost", <<packet>>)
  BY DEF ClientStrays
<1>2. /\ cli[c].phase \in {"status", "login", "configuration", "play"}
      /\ UNCHANGED <<setup, srv, todo, taken, task, left, pending, pos, heard, said, queue, down, told>>
  BY DEF ClientStrays, srvVars, outVars
<1> DEFINE P == <<packet>>
<1>3. /\ DOMAIN cli' = Clients /\ DOMAIN cli'[c] = PeerFields /\ DOMAIN up' = Clients
      /\ \A d \in Clients \ {c} : cli'[d] = cli[d] /\ up'[d] = up[d]
      /\ cli'[c].phase = "lost" /\ up'[c] = up[c] \o ClientBytes(c, P)
  BY <1>1, SendingIs
<1> HIDE DEF P
<1>4. Client1(c)
  BY <1>2, <1>3 DEF Client1, Shapes
<1>5. ASSUME said[c] # <<>>, srv[c].phase # "gone" PROVE Late(c)'
  <2>1. Histories(c)
    BY DEF Wired
  <2>2. cli[c].phase = "play" /\ Alive(cli[c].phase)
    BY <1>2, <1>5, <2>1 DEF Histories, SaidOk, Alive
  <2>3. PICK at, Pre, Upre, D : Talking(c, at, Pre, Upre, D)
    BY <2>2 DEF Wired
  <2>4. Stage(srv[c].phase, "play", Pre, Upre, Protocol(c)) /\ Upward(c, Upre, FALSE) /\ CanWrite(c)
    BY <1>5, <2>2, <2>3 DEF Talking
  <2>5. Pre = <<>> /\ Len(Upre) \in Nat
    BY <2>4, StageIs
  <2>6. PICK U : UpFlow(srv[c].got, up[c], U) /\ Sent(U, Upre, said[c], taken[c], Protocol(c), FALSE)
    BY <1>5, <2>4 DEF Upward
  <2>7. PICK N : U \in Seq(N)
    BY <2>6, UpListed
  <2>8. Len(said[c]) \in Nat /\ Len(taken[c]) \in Nat /\ Len(taken[c]) <= Len(said[c])
    BY <2>1, <2>2 DEF Histories, SaidOk, Listed
  <2>9. packet = NoPacket
    BY <1>1, <2>2
  <2> DEFINE e == [packet |-> NoPacket, zip |-> cli[c].zip]
  <2>10. Framed(P, cli[c].zip) = <<e>> /\ e.packet = NoPacket
    BY <2>9 DEF Framed, P
  <2>11. UpFlow(srv[c].got, up'[c], U \o <<e>>)
    <3>1. P \in Seq({NoPacket}) /\ NoPacket \in {NoPacket}
      BY <2>9 DEF P
    <3>2. UpFlow(srv[c].got, up[c] \o ClientBytes(c, P), U \o Framed(P, cli[c].zip))
      BY <2>4, <2>6, <3>1, UpWrites
    <3> QED
      BY <1>3, <2>10, <3>2
  <2> HIDE DEF e
  <2>12. Sent(U \o <<e>>, Upre, said[c], taken[c], Protocol(c), TRUE)
    BY <2>5, <2>6, <2>7, <2>8, <2>10, SentSaid
  <2>13. Protocol(c)' = Protocol(c)
    BY <1>2 DEF Protocol
  <2>14. Upward(c, Upre, TRUE)'
    BY <1>2, <2>11, <2>12, <2>13 DEF Upward
  <2> QED
    BY <1>2, <2>4, <2>5, <2>13, <2>14 DEF Late
<1> QED
  BY <1>2, <1>3, <1>4, <1>5, IsLost

\* What a client that writes can write on with.
LEMMA WritesOnward ==
  ASSUME NEW c, CanWrite(c), NEW R, NoPacket \in R, NEW packets \in Seq(R)
  PROVE  Register(IF cli[c].secret THEN Fed(cli[c].outIv, ClientBytes(c, packets))
                  ELSE cli[c].outIv)
  BY ClientBytesAre DEF CanWrite

LEMMA StartsUp ==
  ASSUME Shapes, NEW c \in Clients, Wired(c), ClientStarts(c)
  PROVE  Steps(c)
<1>0. PICK a, phase :
        a = Small(0, Wants(c)) /\ phase = IF Wants(c) = 1 THEN "status" ELSE "login"
  OBVIOUS
<1>1. PICK id : ClientSends(c, phase, <<a, Small(id, 0)>>)
  BY <1>0 DEF ClientStarts
<1>2. /\ cli[c].phase = "start"
      /\ UNCHANGED <<setup, srv, todo, taken, task, left, pending, pos, heard, said, queue, down, told>>
  BY DEF ClientStarts, srvVars, outVars
<1>21. PICK b : b = Small(id, 0)
  OBVIOUS
<1> DEFINE P == <<a, b>>
           R == {NoPacket, a, b}
<1>3. P \in Seq(R) /\ NoPacket \in R /\ Len(P) = 2 /\ P[1] = a /\ P[2] = b
  OBVIOUS
<1>22. ClientSends(c, phase, P)
  BY <1>1, <1>21
<1> HIDE DEF P, R
<1>4. /\ DOMAIN cli' = Clients /\ DOMAIN cli'[c] = PeerFields /\ DOMAIN up' = Clients
      /\ \A d \in Clients \ {c} : cli'[d] = cli[d] /\ up'[d] = up[d]
      /\ cli'[c].phase = phase /\ cli'[c].zip = cli[c].zip
      /\ cli'[c].outIv = IF cli[c].secret THEN Fed(cli[c].outIv, ClientBytes(c, P))
                         ELSE cli[c].outIv
      /\ up'[c] = up[c] \o ClientBytes(c, P)
  BY <1>22, SendingIs
<1>5. Client1(c)
  BY <1>2, <1>4 DEF Client1, Shapes
<1>6. Histories(c) /\ said[c] = <<>>
  <2>1. Histories(c)
    BY DEF Wired
  <2>2. Alive("start") /\ "start" # "play"
    BY DEF Alive
  <2>3. said[c] = <<>>
    BY <1>2, <2>1, <2>2 DEF Histories, SaidOk
  <2> QED
    BY <2>1, <2>3
<1>7. phase \in {"status", "login"} /\ Alive(phase) /\ (phase = "status") = (Wants(c) = 1)
  BY <1>0 DEF Alive
<1>8. PICK at, Pre, Upre, D : Talking(c, at, Pre, Upre, D)
  <2>1. Alive(cli[c].phase) /\ cli[c].phase # "status"
    BY <1>2 DEF Alive
  <2> QED
    BY <2>1 DEF Wired
<1>9. /\ at = "handshake" /\ Pre = <<>> /\ Upre = <<>> /\ srv[c].phase \in {"handshake", "gone"}
      /\ CanWrite(c) /\ Below(c, at, Pre, D) /\ Upward(c, <<>>, FALSE)
  <2>1. Stage(at, "start", Pre, Upre, Protocol(c)) /\ srv[c].phase \in {at, "gone"}
        /\ CanWrite(c) /\ Below(c, at, Pre, D) /\ Upward(c, Upre, FALSE)
    BY <1>2, <1>8 DEF Talking
  <2>2. at = "handshake" /\ Pre = <<>> /\ Upre = <<>>
    BY <2>1 DEF Stage, Entered
  <2> QED
    BY <2>1, <2>2
<1>10. Protocol(c)' = Protocol(c)
  BY <1>2 DEF Protocol
<1>11. Histories(c)'
  <2>1. SaidOk(phase, said[c], taken[c])
    <3>1. SaidOk("start", said[c], taken[c]) /\ Alive("start")
      BY <1>2, <1>6 DEF Histories, Alive
    <3> QED
      BY <1>6, <1>7, <3>1 DEF SaidOk
  <2>2. /\ srv[c].zip \in Int /\ (task[c] = "on" => srv[c].phase = "play")
        /\ HeardOk(Protocol(c), srv[c].phase, told[c], heard[c])
    BY <1>6 DEF Histories
  <2> QED
    BY <1>2, <1>4, <1>10, <2>1, <2>2 DEF Histories
<1>12. CanWrite(c)'
  <2>1. Register(cli'[c].outIv)
    BY <1>3, <1>4, <1>9, WritesOnward
  <2> QED
    BY <1>4, <1>9, <2>1 DEF CanWrite
<1>13. ASSUME srv[c].phase # "gone"
       PROVE  \E U : /\ UpFlow(srv[c].got, up'[c], U) /\ U # <<>> /\ U[1].packet = a
                     /\ Sent(U, <<a, b>>, <<>>, taken[c], Protocol(c), FALSE)
  <2> DEFINE E == Framed(P, cli[c].zip)
  <2>1. PICK U : UpFlow(srv[c].got, up[c], U) /\ Sent(U, <<>>, said[c], taken[c], Protocol(c), FALSE)
    BY <1>9, <1>13 DEF Upward
  <2>2. PICK N : U \in Seq(N)
    BY <2>1, UpListed
  <2>3. Len(taken[c]) \in Nat /\ Len(taken[c]) <= 0 /\ Len(<<>>) = 0
    <3>1. Alive(cli[c].phase)
      BY <1>2 DEF Alive
    <3> QED
      BY <1>6, <3>1 DEF Histories, SaidOk, Listed
  <2>4. UpFlow(srv[c].got, up'[c], U \o E)
    BY <1>3, <1>4, <1>9, <2>1, UpWrites
  <2>5. Len(E) = 2 /\ E[1].packet = a /\ E[2].packet = b /\ \E M : E \in Seq(M)
    <3>1. Len(E) = Len(P) /\ (\A i \in 1 .. Len(P) : E[i].packet = P[i]) /\ \E M : E \in Seq(M)
      BY <1>3, FramedIs
    <3> QED
      BY <1>3, <3>1
  <2> HIDE DEF E
  <2>6. PICK M : E \in Seq(M)
    BY <2>5
  <2>7. Len(U) = 0
    <3> DEFINE z == <<>>
    <3>1. Sent(U, z, z, taken[c], Protocol(c), FALSE) /\ Len(z) = 0
      BY <1>6, <2>1
    <3> HIDE DEF z
    <3>2. Len(U) = 0 + (0 - Len(taken[c]))
      BY <3>1 DEF Sent
    <3> QED
      BY <2>3, <3>2
  <2>8. U = <<>>
    BY <2>2, <2>7
  <2>9. U \o E = E
    BY <2>6, <2>8
  <2>10. Lengthened(<<>>, <<a, b>>, E)
    BY <2>5 DEF Lengthened
  <2>11. Sent(U \o E, <<a, b>>, <<>>, taken[c], Protocol(c), FALSE)
    <3> DEFINE z == <<>>
    <3>1. Sent(U, z, <<>>, taken[c], Protocol(c), FALSE) /\ Len(z) \in Nat /\ Lengthened(z, <<a, b>>, E)
      BY <1>6, <2>1, <2>3, <2>10
    <3> HIDE DEF z
    <3> QED
      BY <2>2, <2>3, <2>6, <3>1, SentPre
  <2>12. E # <<>>
    BY <2>5
  <2> QED
    BY <2>4, <2>5, <2>9, <2>11, <2>12
<1>14. CASE phase = "status"
  <2>1. a = Small(0, 1)
    BY <1>0, <1>7, <1>14
  <2>2. Asking(c)'
    BY <1>2, <1>9, <1>12, <1>13, <2>1 DEF Asking
  <2> QED
    BY <1>4, <1>5, <1>7, <1>11, <1>14, <2>2, ClientSteps DEF Wired
<1>15. CASE phase = "login"
  <2>1. Stage("handshake", "login", <<>>, <<a, b>>, Protocol(c))
    BY <1>0, <1>7, <1>15, <1>21 DEF Stage
  <2>2. Below(c, "handshake", <<>>, D)'
    <3>1. cli'[c].got = cli[c].got
      BY <1>22, SendingIs
    <3> QED
      BY <1>2, <1>9, <1>10, <3>1 DEF Below, Downward
  <2>3. Upward(c, <<a, b>>, FALSE)'
    <3>1. srv[c].phase # "gone" => \E U : UpFlow(srv[c].got, up'[c], U)
                                     /\ Sent(U, <<a, b>>, said[c], taken[c], Protocol(c), FALSE)
      BY <1>6, <1>13
    <3> QED
      BY <1>2, <1>10, <3>1 DEF Upward
  <2>4. Talking(c, "handshake", <<>>, <<a, b>>, D)'
    BY <1>2, <1>4, <1>9, <1>10, <1>12, <1>15, <2>1, <2>2, <2>3 DEF Talking
  <2>5. Wired(c)'
    BY <1>4, <1>7, <1>11, <1>15, <2>4 DEF Wired
  <2> QED
    BY <1>5, <2>5, ClientSteps
<1> QED
  BY <1>7, <1>14, <1>15

(***************************************************************************)
(* The client says something.                                              *)
(***************************************************************************)
\* A client that can write, and stays one that can.
LEMMA WritesStill ==
  ASSUME NEW c, CanWrite(c), NEW R, NoPacket \in R, NEW packets \in Seq(R),
         cli'[c].zip \in Int,
         cli'[c].outIv = IF cli[c].secret THEN Fed(cli[c].outIv, ClientBytes(c, packets))
                         ELSE cli[c].outIv
  PROVE  CanWrite(c)'
<1>1. Register(cli'[c].outIv)
  BY WritesOnward
<1> QED
  BY <1>1 DEF CanWrite

LEMMA Says ==
  ASSUME Shapes, setup \in Setups, NEW c \in Clients, Wired(c), ClientSays(c)
  PROVE  Steps(c)
<1>1. PICK x \in Speech(c) :
        /\ Protocol(c) <= 758 => x.id = KEEP_ALIVE_REPLY
        /\ ClientSends(c, "play", <<[x EXCEPT !.id = ClientId(x.id, Protocol(c))]>>)
        /\ said' = [said EXCEPT ![c] = Append(@, x)]
  BY DEF ClientSays
<1>2. /\ cli[c].phase = "play"
      /\ UNCHANGED <<setup, srv, todo, taken, task, left, pending, pos, heard, queue, down, told>>
  BY DEF ClientSays, srvVars, outVars
<1>3. PICK y : y = [x EXCEPT !.id = ClientId(x.id, Protocol(c))]
  OBVIOUS
<1>4. PICK t : t = Append(said[c], x)
  OBVIOUS
<1> DEFINE P == <<y>>
           R == {NoPacket, y}
<1>5. P \in Seq(R) /\ NoPacket \in R /\ Len(P) = 1 /\ P[1] = y
  OBVIOUS
<1>6. ClientSends(c, "play", P)
  BY <1>1, <1>3
<1> HIDE DEF P, R
<1>7. /\ DOMAIN cli' = Clients /\ DOMAIN cli'[c] = PeerFields /\ DOMAIN up' = Clients
      /\ \A d \in Clients \ {c} : cli'[d] = cli[d] /\ up'[d] = up[d]
      /\ cli'[c].phase = "play" /\ cli'[c].got = cli[c].got /\ cli'[c].zip = cli[c].zip
      /\ cli'[c].outIv = IF cli[c].secret THEN Fed(cli[c].outIv, ClientBytes(c, P))
                         ELSE cli[c].outIv
      /\ up'[c] = up[c] \o ClientBytes(c, P)
  BY <1>6, SendingIs
<1>8. DOMAIN said' = Clients /\ said'[c] = t /\ \A d \in Clients \ {c} : said'[d] = said[d]
  <2>1. said' = [said EXCEPT ![c] = Append(said[c], x)]
    BY <1>1
  <2> QED
    BY <1>4, <2>1 DEF Shapes
<1>9. Client1(c)
  BY <1>2, <1>7, <1>8 DEF Client1, Shapes
<1>10. Histories(c) /\ Alive("play")
  BY DEF Wired, Alive
<1>11. PICK at, Pre, Upre, D : Talking(c, at, Pre, Upre, D)
  <2>1. Alive(cli[c].phase) /\ cli[c].phase # "status"
    BY <1>2 DEF Alive
  <2> QED
    BY <2>1 DEF Wired
<1>12. /\ Stage(at, "play", Pre, Upre, Protocol(c)) /\ srv[c].phase \in {at, "gone"}
       /\ Below(c, at, Pre, D) /\ Upward(c, Upre, FALSE) /\ CanWrite(c)
  BY <1>2, <1>11 DEF Talking
<1>13. Protocol(c) \in SUPPORTED_PROTOCOLS
  BY <1>12 DEF Stage, Entered
<1>14. Protocol(c)' = Protocol(c)
  BY <1>2 DEF Protocol
<1>15. y # NoPacket /\ translate_serverbound(y, Protocol(c)) = x
  <2>1. x \in setup.speech[c]
    BY DEF Speech
  <2>2. x.id \in {CHAT_COMMAND, CHAT_MESSAGE, KEEP_ALIVE_REPLY} /\ x = Small(x.id, x.arg)
    BY <2>1, SaidPacket
  <2> QED
    BY <1>1, <1>3, <1>13, <2>2, Hears
<1>16. Listed(said[c]) /\ Listed(taken[c]) /\ Len(taken[c]) <= Len(said[c])
       /\ \A i \in 1 .. Len(taken[c]) : taken[c][i] = said[c][i]
  BY <1>2, <1>10 DEF Histories, SaidOk
<1>17. /\ Listed(t) /\ Len(said[c]) \in Nat /\ Len(t) = Len(said[c]) + 1
       /\ (\A i \in 1 .. Len(said[c]) : t[i] = said[c][i]) /\ t[Len(said[c]) + 1] = x
       /\ Len(taken[c]) \in Nat
  BY <1>4, <1>16, ListedMore
<1>18. Histories(c)'
  <2>1. /\ srv[c].zip \in Int /\ (task[c] = "on" => srv[c].phase = "play")
        /\ HeardOk(Protocol(c), srv[c].phase, told[c], heard[c])
    BY <1>10 DEF Histories
  <2>2. Len(taken[c]) <= Len(t) /\ \A i \in 1 .. Len(taken[c]) : taken[c][i] = t[i]
    BY <1>16, <1>17
  <2>3. SaidOk("play", t, taken[c])
    BY <1>16, <1>17, <2>2 DEF SaidOk
  <2> QED
    BY <1>2, <1>7, <1>8, <1>14, <2>1, <2>3 DEF Histories
<1>19. CanWrite(c)'
  BY <1>5, <1>7, <1>12, WritesStill DEF CanWrite
<1>20. Upward(c, Upre, FALSE)'
  <2> SUFFICES ASSUME srv[c].phase # "gone"
               PROVE  \E U : /\ UpFlow(srv[c].got, up'[c], U)
                             /\ Sent(U, Upre, t, taken[c], Protocol(c), FALSE)
    BY <1>2, <1>8, <1>14 DEF Upward
  <2>1. PICK U : UpFlow(srv[c].got, up[c], U) /\ Sent(U, Upre, said[c], taken[c], Protocol(c), FALSE)
    BY <1>12 DEF Upward
  <2>2. PICK N : U \in Seq(N)
    BY <2>1, UpListed
  <2>3. Len(Upre) \in Nat
    BY <1>12, StageIs
  <2> DEFINE e == [packet |-> y, zip |-> cli[c].zip]
  <2>4. Framed(P, cli[c].zip) = <<e>> /\ e.packet = y
    BY DEF Framed, P
  <2>5. UpFlow(srv[c].got, up'[c], U \o <<e>>)
    <3>1. UpFlow(srv[c].got, up[c] \o ClientBytes(c, P), U \o Framed(P, cli[c].zip))
      BY <1>5, <1>12, <2>1, UpWrites
    <3> QED
      BY <1>7, <2>4, <3>1
  <2> HIDE DEF e
  <2>6. translate_serverbound(e.packet, Protocol(c)) = x
    BY <1>15, <2>4
  <2>7. \A u, z : /\ Len(u) = Len(said[c]) + 1 /\ u[Len(said[c]) + 1] = z
                  /\ \A i \in 1 .. Len(said[c]) : u[i] = said[c][i]
                  /\ translate_serverbound(e.packet, Protocol(c)) = z
           => Sent(U \o <<e>>, Upre, u, taken[c], Protocol(c), FALSE)
    BY <1>16, <1>17, <2>1, <2>2, <2>3, SentSaid
  <2>8. Sent(U \o <<e>>, Upre, t, taken[c], Protocol(c), FALSE)
    BY <1>17, <2>6, <2>7
  <2> QED
    BY <2>5, <2>8
<1>21. Below(c, at, Pre, D)'
  BY <1>2, <1>7, <1>12, <1>14 DEF Below, Downward
<1>22. Talking(c, at, Pre, Upre, D)'
  BY <1>2, <1>7, <1>12, <1>14, <1>19, <1>20, <1>21 DEF Talking
<1>23. Wired(c)'
  BY <1>7, <1>10, <1>18, <1>22 DEF Wired
<1> QED
  BY <1>9, <1>23, ClientSteps

(***************************************************************************)
(* The client handles a packet.                                            *)
(***************************************************************************)
LEMMA FewPackets ==
  ASSUME NEW s, \E y : s \in {<<>>, <<y>>}
  PROVE  \E R : NoPacket \in R /\ s \in Seq(R)
<1>1. PICK y : s \in {<<>>, <<y>>}
  OBVIOUS
<1>2. PICK n : n = NoPacket
  OBVIOUS
<1> DEFINE R == {n, y}
<1>3. n \in R /\ y \in R
  OBVIOUS
<1> HIDE DEF R
<1>4. CASE s = <<>>
  <2>1. s \in Seq(R)
    BY <1>4
  <2> QED
    BY <1>2, <1>3, <2>1
<1>5. CASE s = <<y>>
  <2>1. s \in Seq(R)
    BY <1>3, <1>5
  <2> QED
    BY <1>2, <1>3, <2>1
<1> QED
  BY <1>1, <1>4, <1>5

\* What it answers, by phase.
LEMMA AnswerIs ==
  ASSUME NEW c, NEW x, NEW a, a = Answer(c, x),
         cli[c].phase \in {"status", "login", "configuration", "play"}
  PROVE  /\ \E R : NoPacket \in R /\ a.packets \in Seq(R)
         /\ cli[c].phase = "status" => a.phase \in {"status", "confused", "left"}
         /\ cli[c].phase = "login" =>
              /\ x.id = LOGIN_DISCONNECT => a.phase = "left"
              /\ x.id = ENCRYPTION_REQUEST =>
                   a.phase = "login" /\ a.packets = <<Small(ENCRYPTION_RESPONSE, 1)>>
              /\ x.id = SET_COMPRESSION => a.phase = "login" /\ a.packets = <<>>
              /\ x.id = LOGIN_SUCCESS =>
                   IF Protocol(c) >= 764
                   THEN a.phase = "configuration" /\ a.packets = <<Small(LOGIN_ACKNOWLEDGED, 0)>>
                   ELSE a.phase = "play" /\ a.packets = <<>>
         /\ cli[c].phase = "configuration" =>
              /\ x.id = REGISTRY_DATA =>
                   a.phase = "configuration" /\ a.packets = <<Small(CLIENT_INFORMATION, 0)>>
              /\ x.id = FINISH_CONFIGURATION =>
                   a.phase = "play" /\ a.packets = <<Small(FINISH_CONFIGURATION, 0)>>
         /\ cli[c].phase = "play" => a.phase = "play" /\ a.packets = <<>>
<1>1. CASE cli[c].phase = "status"
  <2>1. \/ a = [phase |-> "status", packets |-> <<Small(PING, 7)>>]
        \/ a = [phase |-> "left", packets |-> <<>>]
        \/ a = [phase |-> "confused", packets |-> <<>>]
    BY <1>1 DEF Answer
  <2>2. \E y : a.packets \in {<<>>, <<y>>}
    BY <2>1
  <2>3. \E R : NoPacket \in R /\ a.packets \in Seq(R)
    BY <2>2, FewPackets
  <2> QED
    BY <1>1, <2>1, <2>3
<1>2. CASE cli[c].phase = "login"
  <2>1. /\ x.id = 0 => a = [phase |-> "left", packets |-> <<>>]
        /\ x.id = 1 => a = [phase |-> "login", packets |-> <<Small(1, 1)>>]
        /\ x.id = 3 => a = [phase |-> "login", packets |-> <<>>]
        /\ x.id = 2 =>
             IF Protocol(c) >= 764
             THEN a = [phase |-> "configuration", packets |-> <<Small(3, 0)>>]
             ELSE a = [phase |-> "play", packets |-> <<>>]
        /\ x.id \notin {0, 1, 2, 3} => a = [phase |-> "confused", packets |-> <<>>]
    BY <1>2 DEF Answer, LOGIN_DISCONNECT, ENCRYPTION_REQUEST, SET_COMPRESSION, LOGIN_SUCCESS,
                ENCRYPTION_RESPONSE, LOGIN_ACKNOWLEDGED
  <2>2. \E y : a.packets \in {<<>>, <<y>>}
    BY <2>1
  <2>3. \E R : NoPacket \in R /\ a.packets \in Seq(R)
    BY <2>2, FewPackets
  <2> QED
    BY <1>2, <2>1, <2>3 DEF LOGIN_DISCONNECT, ENCRYPTION_REQUEST, SET_COMPRESSION,
                LOGIN_SUCCESS, ENCRYPTION_RESPONSE, LOGIN_ACKNOWLEDGED
<1>3. CASE cli[c].phase = "configuration"
  <2>1. /\ x.id = 5 => a = [phase |-> "configuration", packets |-> <<Small(0, 0)>>]
        /\ x.id = 2 => a = [phase |-> "play", packets |-> <<Small(2, 0)>>]
        /\ x.id \notin {5, 2} => a = [phase |-> "confused", packets |-> <<>>]
    BY <1>3 DEF Answer, REGISTRY_DATA, FINISH_CONFIGURATION, CLIENT_INFORMATION
  <2>2. \E y : a.packets \in {<<>>, <<y>>}
    BY <2>1
  <2>3. \E R : NoPacket \in R /\ a.packets \in Seq(R)
    BY <2>2, FewPackets
  <2> QED
    BY <1>3, <2>1, <2>3 DEF REGISTRY_DATA, FINISH_CONFIGURATION, CLIENT_INFORMATION
<1>4. CASE cli[c].phase = "play"
  <2>1. a = [phase |-> "play", packets |-> <<>>]
    BY <1>4 DEF Answer
  <2>2. a.phase = "play" /\ a.packets = <<>>
    BY <2>1
  <2>3. \E R : NoPacket \in R /\ a.packets \in Seq(R)
    BY <2>2, FewPackets
  <2> QED
    BY <1>4, <2>2, <2>3
<1> QED
  BY <1>1, <1>2, <1>3, <1>4

\* The login goes on: each packet of it that the client reads takes both a step on.
LEMMA AnswerNext ==
  ASSUME NEW c, NEW at, NEW Pre, NEW Upre, Stage(at, cli[c].phase, Pre, Upre, Protocol(c)),
         Pre # <<>>, NEW a, a = Answer(c, Pre[1])
  PROVE  /\ cli[c].phase \in {"login", "configuration"}
         /\ Pre[1].id = SET_COMPRESSION /\ cli[c].phase = "login" => Pre[1].arg \in Int
         /\ \/ a.phase = "left"
            \/ /\ Alive(a.phase) /\ a.phase # "status"
               /\ Stage(at, a.phase, Tail(Pre), Upre \o a.packets, Protocol(c))
<1>1. cli[c].phase \in {"login", "configuration"}
  BY DEF Stage, Entered
<1>2. Alive("login") /\ Alive("configuration") /\ Alive("play")
  BY DEF Alive
<1> DEFINE p == Protocol(c)
           cp == cli[c].phase
<1>3. \A x : a = Answer(c, x) =>
         /\ cp = "login" =>
              /\ x.id = LOGIN_DISCONNECT => a.phase = "left"
              /\ x.id = ENCRYPTION_REQUEST =>
                   a.phase = "login" /\ a.packets = <<Small(ENCRYPTION_RESPONSE, 1)>>
              /\ x.id = SET_COMPRESSION => a.phase = "login" /\ a.packets = <<>>
              /\ x.id = LOGIN_SUCCESS =>
                   IF p >= 764
                   THEN a.phase = "configuration" /\ a.packets = <<Small(LOGIN_ACKNOWLEDGED, 0)>>
                   ELSE a.phase = "play" /\ a.packets = <<>>
         /\ cp = "configuration" =>
              /\ x.id = REGISTRY_DATA =>
                   a.phase = "configuration" /\ a.packets = <<Small(CLIENT_INFORMATION, 0)>>
              /\ x.id = FINISH_CONFIGURATION =>
                   a.phase = "play" /\ a.packets = <<Small(FINISH_CONFIGURATION, 0)>>
  BY <1>1, AnswerIs
<1>4. \A id, arg : Small(id, arg).id = id /\ Small(id, arg).arg = arg
  BY DEF Small, Packet
<1>5. \A x, y : <<x>>[1] = x /\ Tail(<<x>>) = <<>> /\ <<x, y>>[1] = x /\ Tail(<<x, y>>) = <<y>>
                /\ <<>> \o <<x>> = <<x>> /\ <<x>> \o <<y>> = <<x, y>>
  <2>1. ASSUME NEW x, NEW y PROVE <<x>> \o <<y>> = <<x, y>>
    <3> DEFINE S == {x, y}
    <3>1. x \in S /\ y \in S
      OBVIOUS
    <3> HIDE DEF S
    <3> QED
      BY <3>1, TwoOf
  <2>2. ASSUME NEW x, NEW y
        PROVE  /\ <<x>>[1] = x /\ Tail(<<x>>) = <<>> /\ <<x, y>>[1] = x /\ Tail(<<x, y>>) = <<y>>
               /\ <<>> \o <<x>> = <<x>>
    OBVIOUS
  <2> QED
    BY <2>1, <2>2
<1>6. <<>> \o <<>> = <<>>
  OBVIOUS
<1>7. CASE at = "login"
  <2>1. cp = "login" /\ Pre = <<Small(LOGIN_DISCONNECT, 0)>>
    BY <1>7 DEF Stage, Entered
  <2>2. Pre[1] = Small(LOGIN_DISCONNECT, 0) /\ Pre[1].id = LOGIN_DISCONNECT
    BY <1>4, <1>5, <2>1
  <2>3. a.phase = "left"
    BY <1>3, <2>1, <2>2
  <2>4. Pre[1].id # SET_COMPRESSION
    BY <2>2 DEF LOGIN_DISCONNECT, SET_COMPRESSION
  <2> QED
    BY <1>1, <2>3, <2>4
<1>8. CASE at # "login"
  <2>1. p \in SUPPORTED_PROTOCOLS /\ Entered(at, cp, Pre, Upre, p)
    BY <1>8 DEF Stage
  <2> SUFFICES /\ Pre[1].id = SET_COMPRESSION /\ cp = "login" => Pre[1].arg \in Int
               /\ Alive(a.phase) /\ a.phase # "status"
               /\ Entered(at, a.phase, Tail(Pre), Upre \o a.packets, p)
    BY <1>1, <2>1 DEF Stage
  <2>2. CASE at = "encrypt" /\ Pre = <<Small(ENCRYPTION_REQUEST, 0)>> /\ Upre = <<>> /\ cp = "login"
    <3>1. Pre[1].id = ENCRYPTION_REQUEST /\ Tail(Pre) = <<>>
      BY <1>4, <1>5, <2>2
    <3>2. a.phase = "login" /\ a.packets = <<Small(ENCRYPTION_RESPONSE, 1)>>
      BY <1>3, <2>2, <3>1
    <3>3. Upre \o a.packets = <<Small(ENCRYPTION_RESPONSE, 1)>>
      BY <1>5, <2>2, <3>2
    <3>4. Entered(at, a.phase, Tail(Pre), Upre \o a.packets, p)
      BY <2>2, <3>1, <3>2, <3>3 DEF Entered
    <3>5. Pre[1].id # SET_COMPRESSION
      BY <3>1 DEF ENCRYPTION_REQUEST, SET_COMPRESSION
    <3> QED
      BY <1>2, <3>2, <3>4, <3>5
  <2>3. CASE /\ IF p >= 764 THEN at = "acknowledge" ELSE at \in {"joining", "play"}
             /\ cp = "login" /\ Upre = <<>> /\ Pre = <<Small(LOGIN_SUCCESS, 0)>>
    <3>1. Pre[1].id = LOGIN_SUCCESS /\ Tail(Pre) = <<>>
      BY <1>4, <1>5, <2>3
    <3>2. IF p >= 764
          THEN a.phase = "configuration" /\ a.packets = <<Small(LOGIN_ACKNOWLEDGED, 0)>>
          ELSE a.phase = "play" /\ a.packets = <<>>
      BY <1>3, <2>3, <3>1
    <3>3. Upre \o a.packets = a.packets
      BY <1>5, <1>6, <2>3, <3>2
    <3>4. Entered(at, a.phase, Tail(Pre), Upre \o a.packets, p)
      BY <2>3, <3>1, <3>2, <3>3 DEF Entered
    <3>5. Pre[1].id # SET_COMPRESSION
      BY <3>1 DEF LOGIN_SUCCESS, SET_COMPRESSION
    <3> QED
      BY <1>2, <3>2, <3>4, <3>5
  <2>4. CASE /\ IF p >= 764 THEN at = "acknowledge" ELSE at \in {"joining", "play"}
             /\ cp = "login" /\ Upre = <<>>
             /\ \E n \in Int : Pre = <<Small(SET_COMPRESSION, n), Small(LOGIN_SUCCESS, 0)>>
    <3>1. PICK n \in Int : Pre = <<Small(SET_COMPRESSION, n), Small(LOGIN_SUCCESS, 0)>>
      BY <2>4
    <3>2. Pre[1].id = SET_COMPRESSION /\ Pre[1].arg = n /\ Tail(Pre) = <<Small(LOGIN_SUCCESS, 0)>>
      BY <1>4, <1>5, <3>1
    <3>3. a.phase = "login" /\ a.packets = <<>>
      BY <1>3, <2>4, <3>2
    <3>4. Upre \o a.packets = <<>>
      BY <1>6, <2>4, <3>3
    <3>5. Entered(at, a.phase, Tail(Pre), Upre \o a.packets, p)
      BY <2>4, <3>2, <3>3, <3>4 DEF Entered
    <3> QED
      BY <1>2, <3>2, <3>3, <3>5
  <2>5. CASE /\ at = "configuration" /\ cp = "configuration" /\ Upre = <<>>
             /\ Pre = <<Small(REGISTRY_DATA, 0), Small(FINISH_CONFIGURATION, 0)>>
    <3>1. Pre[1].id = REGISTRY_DATA /\ Tail(Pre) = <<Small(FINISH_CONFIGURATION, 0)>>
      BY <1>4, <1>5, <2>5
    <3>2. a.phase = "configuration" /\ a.packets = <<Small(CLIENT_INFORMATION, 0)>>
      BY <1>3, <2>5, <3>1
    <3>3. Upre \o a.packets = <<Small(CLIENT_INFORMATION, 0)>>
      BY <1>5, <2>5, <3>2
    <3>4. Entered(at, a.phase, Tail(Pre), Upre \o a.packets, p)
      BY <2>5, <3>1, <3>2, <3>3 DEF Entered
    <3> QED
      BY <1>2, <2>5, <3>2, <3>4
  <2>6. CASE /\ at = "configuration" /\ cp = "configuration"
             /\ Pre = <<Small(FINISH_CONFIGURATION, 0)>>
             /\ Upre \in {<<>>, <<Small(CLIENT_INFORMATION, 0)>>}
    <3>1. Pre[1].id = FINISH_CONFIGURATION /\ Tail(Pre) = <<>>
      BY <1>4, <1>5, <2>6
    <3>2. a.phase = "play" /\ a.packets = <<Small(FINISH_CONFIGURATION, 0)>>
      BY <1>3, <2>6, <3>1
    <3>3. Upre \o a.packets \in {<<Small(FINISH_CONFIGURATION, 0)>>,
                  <<Small(CLIENT_INFORMATION, 0), Small(FINISH_CONFIGURATION, 0)>>}
      <4>1. CASE Upre = <<>>
        BY <1>5, <3>2, <4>1
      <4>2. CASE Upre = <<Small(CLIENT_INFORMATION, 0)>>
        BY <1>5, <3>2, <4>2, Zenon
      <4> QED
        BY <2>6, <4>1, <4>2
    <3>4. Entered(at, a.phase, Tail(Pre), Upre \o a.packets, p)
      BY <2>6, <3>1, <3>2, <3>3 DEF Entered
    <3> QED
      BY <1>2, <2>6, <3>2, <3>4
  <2> QED
    BY <2>1, <2>2, <2>3, <2>4, <2>5, <2>6 DEF Entered
<1> QED
  BY <1>7, <1>8

LEMMA LengthenedBy ==
  ASSUME NEW S, NEW Upre \in Seq(S), NEW R, NEW packets \in Seq(R), NEW zip
  PROVE  Lengthened(Upre, Upre \o packets, Framed(packets, zip))
<1> DEFINE T == S \cup R
           E == Framed(packets, zip)
           W == Upre \o packets
<1>1. S \subseteq T /\ R \subseteq T
  OBVIOUS
<1>2. Len(E) = Len(packets) /\ \A i \in 1 .. Len(packets) : E[i].packet = packets[i]
  BY FramedIs
<1> HIDE DEF T, E
<1>3. Upre \in Seq(T) /\ packets \in Seq(T)
  BY <1>1, MoreOf
<1>4. /\ Len(W) = Len(Upre) + Len(packets)
      /\ \A i \in 1 .. Len(Upre) : W[i] = Upre[i]
      /\ \A i \in 1 .. Len(packets) : W[Len(Upre) + i] = packets[i]
  BY <1>3, ConcatIs
<1> HIDE DEF W
<1>5. Lengthened(Upre, W, E)
  BY <1>2, <1>4 DEF Lengthened
<1> QED
  BY <1>5 DEF W, E

(***************************************************************************)
(* The client handles a packet: the step.                                  *)
(***************************************************************************)
\* A frame that does not parse.
LEMMA HandlesNone ==
  ASSUME Shapes, NEW c \in Clients, Wired(c), ClientHandles(c), ClientFrame(c) = NoPacket
  PROVE  Steps(c)
<1>1. /\ cli' = [cli EXCEPT ![c].phase = "confused", ![c].got = <<>>]
      /\ UNCHANGED <<setup, srv, todo, taken, task, left, pending, pos, heard, said, queue, down, up, told>>
  BY DEF ClientHandles, srvVars, outVars
<1>2. /\ DOMAIN cli' = Clients /\ DOMAIN cli'[c] = PeerFields /\ cli'[c].phase = "confused"
      /\ \A d \in Clients \ {c} : cli'[d] = cli[d]
  BY <1>1 DEF Shapes, PeerFields
<1>3. Client1(c)
  BY <1>1, <1>2 DEF Client1, Shapes
<1>4. said[c] # <<>> /\ srv[c].phase # "gone" => Late(c)'
  BY <1>1, LateOnce
<1> QED
  BY <1>1, <1>2, <1>3, <1>4, IsLost

\* Its effects, when the frame is a packet.
DealtWith(c, x, a) ==
  /\ x = ClientFrame(c) /\ x # NoPacket /\ a = Answer(c, x)
  /\ DOMAIN cli' = Clients /\ DOMAIN cli'[c] = PeerFields
  /\ DOMAIN up' = Clients /\ DOMAIN heard' = Clients
  /\ \A d \in Clients \ {c} : cli'[d] = cli[d] /\ up'[d] = up[d] /\ heard'[d] = heard[d]
  /\ up'[c] = up[c] \o ClientBytes(c, a.packets)
  /\ cli'[c].phase = a.phase /\ cli'[c].got = Rest(c)
  /\ cli'[c].zip = IF cli[c].phase = "login" /\ x.id = SET_COMPRESSION THEN x.arg ELSE cli[c].zip
  /\ cli'[c].outIv = IF cli[c].secret THEN Fed(cli[c].outIv, ClientBytes(c, a.packets))
                     ELSE cli[c].outIv
  /\ heard'[c] = IF cli[c].phase = "play" THEN Append(heard[c], x) ELSE heard[c]

LEMMA HandlesIs ==
  ASSUME Shapes, NEW c \in Clients, ClientHandles(c), NEW x, x = ClientFrame(c), x # NoPacket,
         NEW a, a = Answer(c, x)
  PROVE  DealtWith(c, x, a)
<1>1. /\ up' = [up EXCEPT ![c] = @ \o ClientBytes(c, a.packets)]
      /\ cli' = [cli EXCEPT
           ![c].phase = a.phase,
           ![c].got = Rest(c),
           ![c].secret = @ \/ (cli[c].phase = "login" /\ x.id = ENCRYPTION_REQUEST),
           ![c].zip = IF cli[c].phase = "login" /\ x.id = SET_COMPRESSION THEN x.arg ELSE @,
           ![c].outIv = IF cli[c].secret THEN Fed(@, ClientBytes(c, a.packets)) ELSE @]
      /\ heard' = [heard EXCEPT ![c] = IF cli[c].phase = "play" THEN Append(@, x) ELSE @]
  BY DEF ClientHandles
<1> DEFINE b == ClientBytes(c, a.packets)
           r == Rest(c)
           s == cli[c].secret \/ (cli[c].phase = "login" /\ x.id = ENCRYPTION_REQUEST)
           z == IF cli[c].phase = "login" /\ x.id = SET_COMPRESSION THEN x.arg ELSE cli[c].zip
           v == IF cli[c].secret THEN Fed(cli[c].outIv, b) ELSE cli[c].outIv
           h == IF cli[c].phase = "play" THEN Append(heard[c], x) ELSE heard[c]
<1>2. /\ up' = [up EXCEPT ![c] = @ \o b]
      /\ cli' = [cli EXCEPT ![c].phase = a.phase, ![c].got = r, ![c].secret = s,
                            ![c].zip = z, ![c].outIv = v]
      /\ heard' = [heard EXCEPT ![c] = h]
  BY <1>1
<1> HIDE DEF b, r, s, z, v, h
<1>3. /\ DOMAIN cli' = Clients /\ DOMAIN cli'[c] = PeerFields
      /\ DOMAIN up' = Clients /\ DOMAIN heard' = Clients
      /\ \A d \in Clients \ {c} : cli'[d] = cli[d] /\ up'[d] = up[d] /\ heard'[d] = heard[d]
      /\ up'[c] = up[c] \o b
      /\ cli'[c].phase = a.phase /\ cli'[c].got = r /\ cli'[c].zip = z /\ cli'[c].outIv = v
      /\ heard'[c] = h
  BY <1>2 DEF Shapes, PeerFields
<1> QED
  BY <1>3 DEF DealtWith, b, r, z, v, h

\* A client that handles a packet can write on.
LEMMA HandledWrites ==
  ASSUME NEW c, CanWrite(c), NEW x, NEW a, DealtWith(c, x, a),
         cli[c].phase \in {"status", "login", "configuration", "play"},
         cli[c].phase = "login" /\ x.id = SET_COMPRESSION => x.arg \in Int
  PROVE  CanWrite(c)'
<1>1. a = Answer(c, x)
  BY DEF DealtWith
<1>2. PICK R : NoPacket \in R /\ a.packets \in Seq(R)
  BY <1>1, AnswerIs
<1>3. cli'[c].zip \in Int
  BY DEF DealtWith, CanWrite
<1>4. cli'[c].outIv = IF cli[c].secret THEN Fed(cli[c].outIv, ClientBytes(c, a.packets))
                      ELSE cli[c].outIv
  BY DEF DealtWith
<1> QED
  BY <1>2, <1>3, <1>4, WritesStill

\* A client that asks for the status.
LEMMA HandlesStatus ==
  ASSUME Shapes, NEW c \in Clients, Wired(c), ClientHandles(c), ClientFrame(c) # NoPacket,
         cli[c].phase = "status"
  PROVE  Steps(c)
<1>1. PICK x, a : x = ClientFrame(c) /\ a = Answer(c, x)
  OBVIOUS
<1>2. DealtWith(c, x, a)
  BY <1>1, HandlesIs
<1>3. UNCHANGED <<setup, srv, todo, taken, task, left, pending, pos, said, queue, down, told>>
  BY DEF ClientHandles, srvVars, outVars
<1>4. Client1(c)
  BY <1>2, <1>3 DEF Client1, Shapes, DealtWith
<1>5. Histories(c) /\ Asking(c) /\ CanWrite(c)
  BY DEF Wired, Asking
<1>6. said[c] = <<>> /\ Alive("status")
  <2>1. Alive("status") /\ "status" # "play"
    BY DEF Alive
  <2> QED
    BY <1>5, <2>1 DEF Histories, SaidOk
<1>7. /\ heard'[c] = heard[c] /\ cli'[c].phase = a.phase /\ a.phase \in {"status", "confused", "left"}
      /\ up'[c] = up[c] \o ClientBytes(c, a.packets)
      /\ \A d \in Clients \ {c} : heard'[d] = heard[d]
      /\ \E R : NoPacket \in R /\ a.packets \in Seq(R)
  <2>1. \E R : NoPacket \in R /\ a.packets \in Seq(R)
    BY <1>1, AnswerIs
  <2>2. a.phase \in {"status", "confused", "left"}
    BY <1>1, AnswerIs
  <2> QED
    BY <1>2, <2>1, <2>2 DEF DealtWith
<1>9. CASE a.phase \in {"left", "confused"}
  BY <1>3, <1>4, <1>6, <1>7, <1>9, IsLost
<1>10. CASE a.phase = "status"
  <2>1. CanWrite(c)'
    BY <1>2, <1>5, HandledWrites
  <2>2. ASSUME NEW U, UpFlow(srv[c].got, up[c], U), U # <<>>
        PROVE  \E W : UpFlow(srv[c].got, up'[c], W) /\ W # <<>> /\ W[1] = U[1]
    <3>1. PICK R : NoPacket \in R /\ a.packets \in Seq(R)
      BY <1>7
    <3> DEFINE E == Framed(a.packets, cli[c].zip)
    <3>2. UpFlow(srv[c].got, up'[c], U \o E)
      BY <1>5, <1>7, <2>2, <3>1, UpWrites
    <3>3. PICK M : E \in Seq(M)
      BY <3>1, FramedIs
    <3> HIDE DEF E
    <3>4. PICK N : U \in Seq(N)
      BY <2>2, UpListed
    <3> DEFINE S == M \cup N
    <3>5. M \subseteq S /\ N \subseteq S
      OBVIOUS
    <3> HIDE DEF S
    <3>6. E \in Seq(S) /\ U \in Seq(S)
      BY <3>3, <3>4, <3>5, MoreOf
    <3>7. Len(U) \in Nat /\ Len(U) > 0 /\ Len(E) \in Nat
      BY <2>2, <3>6
    <3>8. Len(U \o E) = Len(U) + Len(E) /\ \A i \in 1 .. Len(U) : (U \o E)[i] = U[i]
      BY <3>6, ConcatIs
    <3>9. U \o E # <<>> /\ (U \o E)[1] = U[1]
      BY <3>7, <3>8
    <3> QED
      BY <3>2, <3>9
  <2>3. Asking(c)'
    <3>1. CASE srv[c].phase \in {"status", "gone"}
      BY <1>3, <2>1, <3>1 DEF Asking
    <3>2. CASE srv[c].phase = "handshake"
      <4>1. PICK U : UpFlow(srv[c].got, up[c], U) /\ U # <<>> /\ U[1].packet = Small(0, 1)
        BY <1>5, <3>2 DEF Asking
      <4>2. PICK W : UpFlow(srv[c].got, up'[c], W) /\ W # <<>> /\ W[1] = U[1]
        BY <2>2, <4>1
      <4> QED
        BY <1>3, <2>1, <3>2, <4>1, <4>2 DEF Asking
    <3> QED
      BY <1>5, <3>1, <3>2 DEF Asking
  <2>4. Protocol(c)' = Protocol(c)
    BY <1>3 DEF Protocol
  <2>5. cli'[c].phase = cli[c].phase
    BY <1>7, <1>10
  <2>6. Histories(c)'
    BY <1>3, <1>5, <1>7, <2>4, <2>5 DEF Histories
  <2>7. Wired(c)'
    BY <1>6, <1>7, <1>10, <2>3, <2>6 DEF Wired
  <2> QED
    BY <1>4, <2>7, ClientSteps
<1> QED
  BY <1>7, <1>9, <1>10

\* What a client that talks has read is the next packet on the way.
LEMMA HandlesNext ==
  ASSUME NEW c, ClientHas(c), ClientFrame(c) # NoPacket, cli[c].zip \in Int, NEW D, Downward(c, D)
  PROVE  /\ Len(D) > 0 /\ ClientFrame(c) = D[1].packet
         /\ DownFlow(srv[c].phase, srv[c].secret, srv[c].outIv, Rest(c), down[c], pending[c], pos[c],
                     left[c], todo[c], Tail(D))
<1> DEFINE g == cli[c].got
<1>1. g # <<>> /\ g[1].t = "len" /\ Len(g) > g[1].n
  BY DEF ClientHas, ClientFrame
<1>2. ClientFrame(c) = decode_frame(SubSeq(g, 1, g[1].n + 1), cli[c].zip)
  BY <1>1 DEF ClientFrame
<1>3. Rest(c) = SubSeq(g, g[1].n + 2, Len(g))
  BY DEF Rest
<1>4. DownFlow(srv[c].phase, srv[c].secret, srv[c].outIv, g, down[c], pending[c], pos[c],
               left[c], todo[c], D)
  BY DEF Downward
<1>5. decode_frame(SubSeq(g, 1, g[1].n + 1), cli[c].zip) # NoPacket
  BY <1>2
<1> HIDE DEF g
<1>6. /\ Len(D) > 0
      /\ decode_frame(SubSeq(g, 1, g[1].n + 1), cli[c].zip) = D[1].packet
      /\ DownFlow(srv[c].phase, srv[c].secret, srv[c].outIv, SubSeq(g, g[1].n + 2, Len(g)),
                  down[c], pending[c], pos[c], left[c], todo[c], Tail(D))
  BY <1>1, <1>4, <1>5, DownHandles
<1> QED
  BY <1>2, <1>3, <1>6

(***************************************************************************)
(* A client that talks handles a packet.                                   *)
(***************************************************************************)
\* A packet of the login.
LEMMA HandlesLogin ==
  ASSUME Shapes, NEW c \in Clients, Wired(c), ClientHandles(c), ClientFrame(c) # NoPacket,
         NEW at, NEW Pre, NEW Upre, NEW D, Talking(c, at, Pre, Upre, D), Pre # <<>>
  PROVE  Steps(c)
<1>1. PICK x, a : x = ClientFrame(c) /\ a = Answer(c, x)
  OBVIOUS
<1>2. DealtWith(c, x, a) /\ ClientHas(c) /\ cli[c].phase \in {"status", "login", "configuration", "play"}
  BY <1>1, HandlesIs DEF ClientHandles
<1>3. UNCHANGED <<setup, srv, todo, taken, task, left, pending, pos, said, queue, down, told>>
  BY DEF ClientHandles, srvVars, outVars
<1>4. Client1(c)
  BY <1>2, <1>3 DEF Client1, Shapes, DealtWith
<1>5. Histories(c)
  BY DEF Wired
<1>6. /\ Stage(at, cli[c].phase, Pre, Upre, Protocol(c)) /\ srv[c].phase \in {at, "gone"}
      /\ Below(c, at, Pre, D) /\ Upward(c, Upre, FALSE) /\ CanWrite(c)
  BY DEF Talking
<1>7. Protocol(c)' = Protocol(c)
  BY <1>3 DEF Protocol
<1>8. PICK S : Pre \in Seq(S) /\ Upre \in Seq(S)
  BY <1>6, StageIs
<1>9. Downward(c, D) /\ Owed(D, Pre, told[c], heard[c], Protocol(c))
      /\ (at # "play" => Len(D) = Len(Pre) /\ heard[c] = <<>>)
      /\ (srv[c].phase = "play" =>
            todo[c] = <<>> /\ Queued(queue[c], told[c], Len(heard[c]) + (Len(D) - Len(Pre))))
  BY <1>6 DEF Below
<1>10. /\ Len(D) > 0 /\ x = D[1].packet
       /\ DownFlow(srv[c].phase, srv[c].secret, srv[c].outIv, Rest(c), down[c], pending[c], pos[c],
                   left[c], todo[c], Tail(D))
  BY <1>1, <1>2, <1>6, <1>9, HandlesNext DEF CanWrite
<1>11. PICK N : D \in Seq(N)
  BY <1>9, DownListed DEF Downward
<1>12. Len(told[c]) \in Nat /\ Len(heard[c]) \in Nat
  BY <1>5 DEF Histories, HeardOk, Listed
<1>13. /\ x = Pre[1] /\ Owed(Tail(D), Tail(Pre), told[c], heard[c], Protocol(c))
       /\ Len(Tail(D)) - Len(Tail(Pre)) = Len(D) - Len(Pre)
  BY <1>8, <1>9, <1>10, <1>11, <1>12, OwedNext
<1>14. /\ cli[c].phase \in {"login", "configuration"}
       /\ x.id = SET_COMPRESSION /\ cli[c].phase = "login" => x.arg \in Int
       /\ \/ a.phase = "left"
          \/ /\ Alive(a.phase) /\ a.phase # "status"
             /\ Stage(at, a.phase, Tail(Pre), Upre \o a.packets, Protocol(c))
  BY <1>1, <1>6, <1>13, AnswerNext
<1>15. said[c] = <<>> /\ Alive(cli[c].phase) /\ cli[c].phase # "play"
  <2>1. Alive(cli[c].phase) /\ cli[c].phase # "play"
    BY <1>14 DEF Alive
  <2> QED
    BY <1>5, <2>1 DEF Histories, SaidOk
<1>16. heard'[c] = heard[c] /\ cli'[c].phase = a.phase /\ cli'[c].got = Rest(c)
       /\ up'[c] = up[c] \o ClientBytes(c, a.packets)
  BY <1>2, <1>15 DEF DealtWith
<1>17. CASE a.phase = "left"
  BY <1>3, <1>4, <1>15, <1>16, <1>17, IsLost
<1>18. CASE a.phase # "left"
  <2>1. /\ Alive(a.phase) /\ a.phase # "status"
        /\ Stage(at, a.phase, Tail(Pre), Upre \o a.packets, Protocol(c))
    BY <1>14, <1>18
  <2>2. PICK R : NoPacket \in R /\ a.packets \in Seq(R)
    BY <1>1, <1>2, AnswerIs
  <2>3. CanWrite(c)'
    BY <1>2, <1>6, <1>14, HandledWrites
  <2>4. Downward(c, Tail(D))'
    BY <1>3, <1>10, <1>16 DEF Downward
  <2>5. at # "play" => Len(Tail(D)) = Len(Tail(Pre))
    <3>1. Len(Tail(D)) \in Int /\ Len(Tail(Pre)) \in Int
      BY <1>8, <1>10, <1>11
    <3>2. Len(D) \in Int /\ Len(Pre) \in Int
      BY <1>8, <1>11
    <3> QED
      BY <1>9, <1>13, <3>1, <3>2
  <2>6. Below(c, at, Tail(Pre), Tail(D))'
    BY <1>3, <1>7, <1>9, <1>13, <1>16, <2>4, <2>5 DEF Below
  <2>7. Upward(c, Upre \o a.packets, FALSE)'
    <3> DEFINE Up2 == Upre \o a.packets
               E == Framed(a.packets, cli[c].zip)
    <3>1. Lengthened(Upre, Up2, E)
      BY <1>8, <2>2, LengthenedBy
    <3>2. PICK M : E \in Seq(M)
      BY <2>2, FramedIs
    <3> HIDE DEF Up2
    <3> SUFFICES ASSUME NEW U0, U0 = Up2 PROVE Upward(c, U0, FALSE)'
      BY DEF Up2
    <3> SUFFICES ASSUME srv[c].phase # "gone"
                 PROVE  \E U : /\ UpFlow(srv[c].got, up'[c], U)
                               /\ Sent(U, U0, said[c], taken[c], Protocol(c), FALSE)
      BY <1>3, <1>7 DEF Upward
    <3>3. PICK U : UpFlow(srv[c].got, up[c], U) /\ Sent(U, Upre, said[c], taken[c], Protocol(c), FALSE)
      BY <1>6 DEF Upward
    <3>4. UpFlow(srv[c].got, up'[c], U \o E)
      BY <1>6, <1>16, <2>2, <3>3, UpWrites
    <3> HIDE DEF E
    <3>5. PICK K : U \in Seq(K)
      BY <3>3, UpListed
    <3>6. Len(taken[c]) \in Nat /\ Len(taken[c]) <= 0
      <4>1. Listed(taken[c]) /\ Len(taken[c]) <= Len(said[c])
        BY <1>5, <1>15 DEF Histories, SaidOk
      <4> QED
        BY <1>15, <4>1 DEF Listed
    <3>7. Len(Upre) \in Nat
      BY <1>8
    <3>8. Sent(U \o E, Up2, <<>>, taken[c], Protocol(c), FALSE)
      BY <1>15, <3>1, <3>2, <3>3, <3>5, <3>6, <3>7, SentPre
    <3> QED
      BY <1>15, <3>4, <3>8
  <2>8. Histories(c)'
    <3>1. /\ srv[c].zip \in Int /\ (task[c] = "on" => srv[c].phase = "play")
          /\ HeardOk(Protocol(c), srv[c].phase, told[c], heard[c])
          /\ SaidOk(cli[c].phase, said[c], taken[c])
      BY <1>5 DEF Histories
    <3>2. SaidOk(a.phase, said[c], taken[c])
      BY <1>15, <2>1, <3>1 DEF SaidOk
    <3> QED
      BY <1>3, <1>7, <1>16, <3>1, <3>2 DEF Histories
  <2>9. Talking(c, at, Tail(Pre), Upre \o a.packets, Tail(D))'
    BY <1>3, <1>6, <1>7, <1>16, <2>1, <2>3, <2>6, <2>7 DEF Talking
  <2>10. Wired(c)'
    BY <1>16, <2>1, <2>8, <2>9 DEF Wired
  <2> QED
    BY <1>4, <2>10, ClientSteps
<1> QED
  BY <1>17, <1>18

\* A packet of the play state.
LEMMA HandlesPlay ==
  ASSUME Shapes, NEW c \in Clients, Wired(c), ClientHandles(c), ClientFrame(c) # NoPacket,
         NEW at, NEW Pre, NEW Upre, NEW D, Talking(c, at, Pre, Upre, D), Len(Pre) = 0
  PROVE  Steps(c)
<1>1. PICK x, a : x = ClientFrame(c) /\ a = Answer(c, x)
  OBVIOUS
<1>2. DealtWith(c, x, a) /\ ClientHas(c) /\ cli[c].phase \in {"status", "login", "configuration", "play"}
  BY <1>1, HandlesIs DEF ClientHandles
<1>3. UNCHANGED <<setup, srv, todo, taken, task, left, pending, pos, said, queue, down, told>>
  BY DEF ClientHandles, srvVars, outVars
<1>4. Client1(c)
  BY <1>2, <1>3 DEF Client1, Shapes, DealtWith
<1>5. Histories(c)
  BY DEF Wired
<1>6. /\ Stage(at, cli[c].phase, Pre, Upre, Protocol(c)) /\ srv[c].phase \in {at, "gone"}
      /\ Below(c, at, Pre, D) /\ Upward(c, Upre, FALSE) /\ CanWrite(c)
  BY DEF Talking
<1>7. Protocol(c)' = Protocol(c)
  BY <1>3 DEF Protocol
<1>8. PICK S : Pre \in Seq(S) /\ Upre \in Seq(S)
  BY <1>6, StageIs
<1>9. Downward(c, D) /\ Owed(D, Pre, told[c], heard[c], Protocol(c))
      /\ (at # "play" => Len(D) = Len(Pre) /\ heard[c] = <<>>)
      /\ (srv[c].phase = "play" =>
            todo[c] = <<>> /\ Queued(queue[c], told[c], Len(heard[c]) + (Len(D) - Len(Pre))))
  BY <1>6 DEF Below
<1>10. /\ Len(D) > 0 /\ x = D[1].packet
       /\ DownFlow(srv[c].phase, srv[c].secret, srv[c].outIv, Rest(c), down[c], pending[c], pos[c],
                   left[c], todo[c], Tail(D))
  BY <1>1, <1>2, <1>6, <1>9, HandlesNext DEF CanWrite
<1>11. PICK N : D \in Seq(N)
  BY <1>9, DownListed DEF Downward
<1>12. at = "play"
  BY <1>8, <1>9, <1>10
<1>13. cli[c].phase = "play" /\ Protocol(c) \in SUPPORTED_PROTOCOLS /\ Alive("play")
  BY <1>6, <1>12 DEF Stage, Entered, Alive
<1>14. Len(told[c]) \in Nat /\ Len(heard[c]) \in Nat /\ Listed(heard[c]) /\ Listed(told[c])
  BY <1>5 DEF Histories, HeardOk, Listed
<1>15. PICK h : h = Append(heard[c], x)
  OBVIOUS
<1>16. /\ Listed(h) /\ Len(h) = Len(heard[c]) + 1
       /\ (\A i \in 1 .. Len(heard[c]) : h[i] = heard[c][i]) /\ h[Len(heard[c]) + 1] = x
  BY <1>14, <1>15, ListedMore
<1>17. /\ x = translate_clientbound(told[c][Len(heard[c]) + 1], Protocol(c))
       /\ Len(heard[c]) + 1 <= Len(told[c])
       /\ Owed(Tail(D), Pre, told[c], h, Protocol(c))
       /\ Len(h) + (Len(Tail(D)) - Len(Pre)) = Len(heard[c]) + (Len(D) - Len(Pre))
  <2>1. /\ D[1].packet = translate_clientbound(told[c][Len(heard[c]) + 1], Protocol(c))
        /\ Len(heard[c]) + 1 <= Len(told[c])
        /\ Owed(Tail(D), Pre, told[c], h, Protocol(c))
        /\ Len(h) + (Len(Tail(D)) - Len(Pre)) = Len(heard[c]) + (Len(D) - Len(Pre))
    <3>1. D \in Seq(N) /\ Len(D) > 0
      BY <1>10, <1>11
    <3>2. Len(told[c]) \in Nat /\ Len(heard[c]) \in Nat
      BY <1>14
    <3>3. Owed(D, Pre, told[c], heard[c], Protocol(c))
      BY <1>9
    <3>4. Len(h) = Len(heard[c]) + 1
      BY <1>16
    <3>5. OneHeard(D, Pre, told[c], heard[c], Protocol(c), h)
      BY <3>1, <3>2, <3>3, <3>4 DEF OneHeard
    <3> QED
      BY <3>5, OwedHeard
  <2> QED
    BY <1>10, <2>1
<1>18. /\ cli'[c].phase = "play" /\ heard'[c] = h /\ cli'[c].got = Rest(c)
       /\ up'[c] = up[c] \o ClientBytes(c, a.packets) /\ a.packets = <<>>
  <2>1. a.phase = "play" /\ a.packets = <<>>
    BY <1>1, <1>13, AnswerIs
  <2> QED
    BY <1>2, <1>13, <1>15, <2>1 DEF DealtWith
<1>19. CanWrite(c)'
  BY <1>2, <1>6, <1>13, HandledWrites
<1>20. Below(c, at, Pre, Tail(D))'
  <2>1. Downward(c, Tail(D))'
    BY <1>3, <1>10, <1>18 DEF Downward
  <2>2. Owed(Tail(D), Pre, told[c], h, Protocol(c))
    BY <1>17
  <2>3. srv[c].phase = "play" => Queued(queue[c], told[c], Len(h) + (Len(Tail(D)) - Len(Pre)))
    BY <1>8, <1>9, <1>17
  <2> QED
    BY <1>3, <1>7, <1>9, <1>12, <1>18, <2>1, <2>2, <2>3 DEF Below
<1>21. Upward(c, Upre, FALSE)'
  <2> SUFFICES ASSUME srv[c].phase # "gone"
               PROVE  \E U : /\ UpFlow(srv[c].got, up'[c], U)
                             /\ Sent(U, Upre, said[c], taken[c], Protocol(c), FALSE)
    BY <1>3, <1>7 DEF Upward
  <2>1. PICK U : UpFlow(srv[c].got, up[c], U) /\ Sent(U, Upre, said[c], taken[c], Protocol(c), FALSE)
    BY <1>6 DEF Upward
  <2> DEFINE E == Framed(a.packets, cli[c].zip)
             R == {NoPacket}
  <2>2. NoPacket \in R /\ a.packets \in Seq(R) /\ Len(a.packets) = 0
    BY <1>18
  <2> HIDE DEF R
  <2>3. UpFlow(srv[c].got, up'[c], U \o E)
    BY <1>6, <1>18, <2>1, <2>2, UpWrites
  <2>4. (\E M : E \in Seq(M)) /\ Len(E) = 0
    BY <2>2, FramedIs
  <2> HIDE DEF E
  <2>5. PICK K : U \in Seq(K)
    BY <2>1, UpListed
  <2>6. E = <<>>
    BY <2>4
  <2>7. U \o E = U
    BY <2>5, <2>6
  <2> QED
    BY <2>1, <2>3, <2>7
<1>22. Histories(c)'
  <2>1. /\ srv[c].zip \in Int /\ (task[c] = "on" => srv[c].phase = "play")
        /\ HeardOk(Protocol(c), srv[c].phase, told[c], heard[c])
        /\ SaidOk("play", said[c], taken[c])
    BY <1>5, <1>13 DEF Histories
  <2>2. HeardOk(Protocol(c), srv[c].phase, told[c], h)
    <3>1. ASSUME NEW i \in 1 .. Len(h)
          PROVE  h[i] = translate_clientbound(told[c][i], Protocol(c))
      <4>1. CASE i \in 1 .. Len(heard[c])
        BY <1>16, <2>1, <4>1 DEF HeardOk
      <4>2. CASE i = Len(heard[c]) + 1
        BY <1>16, <1>17, <4>2
      <4> QED
        BY <1>14, <1>16, <4>1, <4>2
    <3>2. Len(h) <= Len(told[c])
      BY <1>16, <1>17
    <3>3. srv[c].phase \in {"play", "gone"}
      BY <1>6, <1>12
    <3> QED
      BY <1>13, <1>16, <2>1, <3>1, <3>2, <3>3 DEF HeardOk
  <2> QED
    BY <1>3, <1>7, <1>18, <2>1, <2>2 DEF Histories
<1>23. Talking(c, at, Pre, Upre, Tail(D))'
  BY <1>3, <1>6, <1>7, <1>13, <1>18, <1>19, <1>20, <1>21 DEF Talking
<1>24. Wired(c)'
  BY <1>13, <1>18, <1>22, <1>23 DEF Wired
<1> QED
  BY <1>4, <1>24, ClientSteps

LEMMA Handles ==
  ASSUME Shapes, NEW c \in Clients, Wired(c), ClientHandles(c)
  PROVE  Steps(c)
<1>1. CASE ClientFrame(c) = NoPacket
  BY <1>1, HandlesNone
<1>2. CASE ClientFrame(c) # NoPacket /\ cli[c].phase = "status"
  BY <1>2, HandlesStatus
<1>3. CASE ClientFrame(c) # NoPacket /\ cli[c].phase # "status"
  <2>1. Alive(cli[c].phase) /\ cli[c].phase # "status"
    BY <1>3 DEF Alive, ClientHandles
  <2>2. PICK at, Pre, Upre, D : Talking(c, at, Pre, Upre, D)
    BY <2>1 DEF Wired
  <2>3. Pre = <<>> => Len(Pre) = 0
    OBVIOUS
  <2> QED
    BY <1>3, <2>2, <2>3, HandlesLogin, HandlesPlay
<1> QED
  BY <1>1, <1>2, <1>3

(***************************************************************************)
(* What the tasks are still to send are packets of the play state.         *)
(***************************************************************************)
PlanOK(plan) == \E W : plan \in Seq(W) /\ \A send \in W : Alike(send.packet)

CastFields == {"plan", "to", "event", "busy"}
CastOK ==
  /\ DOMAIN cast = Task
  /\ \A a \in Task : DOMAIN cast[a] = CastFields /\ PlanOK(cast[a].plan)

LEMMA PacketTold ==
  ASSUME NEW id \in Others, NEW arg
  PROVE  Alike(Packet(id, Body(id), arg))
<1> DEFINE B == Body(id)
           x == Packet(id, B, arg)
<1>1. x = [id |-> id, body |-> B, arg |-> arg]
  BY DEF Packet
<1> HIDE DEF B
<1>2. x.id = id /\ x.arg = arg
  BY <1>1
<1> HIDE DEF x
<1>3. x = Packet(x.id, Body(x.id), x.arg)
  BY <1>2 DEF x, B
<1>4. Alike(x)
  BY <1>2, <1>3 DEF Alike
<1> QED
  BY <1>4 DEF x, B

LEMMA PlayIds ==
  {LOGIN, SYSTEM_CHAT, PLAYER_INFO_REMOVE, REMOVE_ENTITIES, SYNC_POSITION, ENTITY_TELEPORT,
   GAME_EVENT, PLAYER_ABILITIES, WINDOW_ITEMS, UPDATE_TIME, SET_SLOT, SPAWN_ENTITY,
   SET_EXPERIENCE, SOUND_EFFECT, DISCONNECT, BLOCK_UPDATE} \subseteq Others
  BY DEF Others, play_cb, UPDATE_ADVANCEMENTS, LOGIN, SYSTEM_CHAT, PLAYER_INFO_REMOVE, REMOVE_ENTITIES, SYNC_POSITION,
         ENTITY_TELEPORT, GAME_EVENT, PLAYER_ABILITIES, WINDOW_ITEMS, UPDATE_TIME, SET_SLOT,
         SPAWN_ENTITY, SET_EXPERIENCE, SOUND_EFFECT, DISCONNECT, BLOCK_UPDATE

LEMMA NoPlan == PlanOK(<<>>)
<1> DEFINE W == {}
<1>1. <<>> \in Seq(W) /\ \A send \in W : Alike(send.packet)
  OBVIOUS
<1> HIDE DEF W
<1> QED
  BY <1>1 DEF PlanOK

LEMMA OnePlan ==
  ASSUME NEW x, NEW cs, Alike(x)
  PROVE  /\ PlanOK(<<To(cs, x)>>) /\ PlanOK(<<ToAll(x)>>) /\ PlanOK(<<ToOthers(cs, x)>>)
<1>1. ASSUME NEW s, s.packet = x PROVE PlanOK(<<s>>)
  <2> DEFINE W == {s}
  <2>1. <<s>> \in Seq(W)
    OBVIOUS
  <2>2. \A send \in W : Alike(send.packet)
    BY <1>1
  <2> HIDE DEF W
  <2> QED
    BY <2>1, <2>2 DEF PlanOK
<1>2. To(cs, x).packet = x /\ ToAll(x).packet = x /\ ToOthers(cs, x).packet = x
  BY DEF To, ToAll, ToOthers
<1> QED
  BY <1>1, <1>2

LEMMA JoinedPlan ==
  ASSUME NEW p, NEW q, PlanOK(p), PlanOK(q)
  PROVE  PlanOK(p \o q)
<1>1. PICK V : p \in Seq(V) /\ \A send \in V : Alike(send.packet)
  BY DEF PlanOK
<1>2. PICK W : q \in Seq(W) /\ \A send \in W : Alike(send.packet)
  BY DEF PlanOK
<1> DEFINE S == V \cup W
<1>3. V \subseteq S /\ W \subseteq S /\ \A send \in S : Alike(send.packet)
  BY <1>1, <1>2
<1> HIDE DEF S
<1>4. p \in Seq(S) /\ q \in Seq(S)
  BY <1>1, <1>2, <1>3, MoreOf
<1>5. p \o q \in Seq(S)
  BY <1>4
<1> QED
  BY <1>3, <1>5 DEF PlanOK

LEMMA Pair ==
  ASSUME NEW x, NEW y PROVE <<x>> \o <<y>> = <<x, y>>
<1> DEFINE S == {x, y}
<1>1. x \in S /\ y \in S
  OBVIOUS
<1> HIDE DEF S
<1> QED
  BY <1>1, TwoOf

LEMMA PairPlan ==
  ASSUME NEW x, NEW y, PlanOK(<<x>>), PlanOK(<<y>>)
  PROVE  PlanOK(<<x, y>>)
<1>1. PlanOK(<<x>> \o <<y>>)
  BY JoinedPlan
<1> QED
  BY <1>1, Pair

LEMMA NextPlan ==
  ASSUME NEW p, PlanOK(p), p # <<>>
  PROVE  Alike(Head(p).packet) /\ PlanOK(Tail(p))
<1>1. PICK V : p \in Seq(V) /\ \A send \in V : Alike(send.packet)
  BY DEF PlanOK
<1>2. Head(p) \in V /\ Tail(p) \in Seq(V)
  BY <1>1
<1> QED
  BY <1>1, <1>2 DEF PlanOK

LEMMA CastSet ==
  ASSUME CastOK, NEW a \in Task, NEW x, DOMAIN x = CastFields, PlanOK(x.plan),
         cast' = [cast EXCEPT ![a] = x]
  PROVE  CastOK'
  BY DEF CastOK

LEMMA CastKept ==
  ASSUME CastOK, cast' = cast
  PROVE  CastOK'
  BY DEF CastOK

LEMMA BusyIs ==
  ASSUME NEW plan, NEW event
  PROVE  /\ DOMAIN Busy(plan, event) = CastFields /\ Busy(plan, event).plan = plan
         /\ DOMAIN Sending(plan) = CastFields /\ Sending(plan).plan = plan
         /\ DOMAIN Idle = CastFields /\ Idle.plan = <<>>
  BY DEF Busy, Sending, Idle, CastFields

LEMMA CastBusy ==
  ASSUME CastOK, NEW a \in Task, NEW plan, NEW event, PlanOK(plan),
         cast' = [cast EXCEPT ![a] = Busy(plan, event)] \/ cast' = [cast EXCEPT ![a] = Sending(plan)]
  PROVE  CastOK'
  BY BusyIs, CastSet

\* What sessions, mods and panel say.
LEMMA SayTold == \A arg : Alike(Say(arg)) /\ Alike(Reply(arg))
<1>1. SYSTEM_CHAT \in Others
  BY PlayIds
<1> HIDE DEF SYSTEM_CHAT
<1>2. ASSUME NEW arg PROVE Alike(Say(arg))
  BY <1>1, PacketTold DEF Say
<1> QED
  BY <1>2 DEF Reply

LEMMA PlainTold ==
  ASSUME NEW id \in Others
  PROVE  Alike(Plain(id))
  BY PacketTold DEF Plain

(***************************************************************************)
(* The steps of sessions, mods and panel, as far as they send.             *)
(***************************************************************************)
\* A command tells the player something, and before that maybe something more.
LEMMA TellsPlan ==
  ASSUME NEW c
  PROVE  /\ PlanOK(Tells(c))
         /\ \A id \in Others :
              /\ PlanOK(<<To({c}, Plain(id))>> \o Tells(c))
              /\ PlanOK(<<ToAll(Plain(id))>> \o Tells(c))
<1>1. PlanOK(Tells(c))
  BY SayTold, OnePlan DEF Tells
<1>2. ASSUME NEW id \in Others
      PROVE  /\ PlanOK(<<To({c}, Plain(id))>> \o Tells(c))
             /\ PlanOK(<<ToAll(Plain(id))>> \o Tells(c))
  <2>1. PlanOK(<<To({c}, Plain(id))>>) /\ PlanOK(<<ToAll(Plain(id))>>)
    BY PlainTold, OnePlan
  <2> QED
    BY <1>1, <2>1, JoinedPlan
<1> QED
  BY <1>1, <1>2

LEMMA CommandPlans ==
  ASSUME NEW c
  PROVE  /\ PlanOK(<<To({c}, Plain(SYNC_POSITION)), ToOthers(c, Plain(ENTITY_TELEPORT))>>)
         /\ PlanOK(<<To({c}, Plain(GAME_EVENT)), To({c}, Plain(PLAYER_ABILITIES))>> \o Tells(c))
         /\ PlanOK(<<To({c}, Plain(SET_EXPERIENCE)), To({c}, Plain(SOUND_EFFECT))>> \o Tells(c))
<1>1. {SYNC_POSITION, ENTITY_TELEPORT, GAME_EVENT, PLAYER_ABILITIES, SET_EXPERIENCE, SOUND_EFFECT}
        \subseteq Others
  BY PlayIds
<1> HIDE DEF SYNC_POSITION, ENTITY_TELEPORT, GAME_EVENT, PLAYER_ABILITIES, SET_EXPERIENCE, SOUND_EFFECT
<1>2. ASSUME NEW id \in Others
      PROVE  PlanOK(<<To({c}, Plain(id))>>) /\ PlanOK(<<ToOthers(c, Plain(id))>>)
  <2>1. Alike(Plain(id))
    BY PlainTold
  <2>2. PlanOK(<<To({c}, Plain(id))>>)
    BY <2>1, OnePlan
  <2>3. ASSUME NEW cs PROVE PlanOK(<<ToOthers(cs, Plain(id))>>)
    BY <2>1, OnePlan
  <2> QED
    BY <2>2, <2>3
<1>3. PlanOK(<<To({c}, Plain(SYNC_POSITION)), ToOthers(c, Plain(ENTITY_TELEPORT))>>)
  BY <1>1, <1>2, PairPlan
<1>4. ASSUME NEW a \in Others, NEW b \in Others
      PROVE  PlanOK(<<To({c}, Plain(a)), To({c}, Plain(b))>> \o Tells(c))
  <2>1. PlanOK(<<To({c}, Plain(a)), To({c}, Plain(b))>>)
    BY <1>2, PairPlan
  <2>2. PlanOK(Tells(c))
    BY TellsPlan
  <2> QED
    BY <2>1, <2>2, JoinedPlan
<1> QED
  BY <1>1, <1>3, <1>4

\* Whatever the command, what it sends is a plan.
LEMMA Commands ==
  ASSUME CastOK, NEW c \in Clients, handle_command(c)
  PROVE  CastOK'
<1>1. {LOGIN, SYSTEM_CHAT, PLAYER_INFO_REMOVE, REMOVE_ENTITIES, SYNC_POSITION, ENTITY_TELEPORT,
       GAME_EVENT, PLAYER_ABILITIES, WINDOW_ITEMS, UPDATE_TIME, SET_SLOT, SPAWN_ENTITY,
       SET_EXPERIENCE, SOUND_EFFECT, DISCONNECT, BLOCK_UPDATE} \subseteq Others
  BY PlayIds
<1>2. c \in Task
  BY DEF Task
<1>3. ASSUME NEW p, NEW sends, Does(c, p, sends), PlanOK(sends) PROVE CastOK'
  BY <1>2, <1>3, CastBusy DEF Does
<1>4. PlanOK(Tells(c)) /\ \A id \in Others : /\ PlanOK(<<To({c}, Plain(id))>> \o Tells(c))
                                            /\ PlanOK(<<ToAll(Plain(id))>> \o Tells(c))
  BY TellsPlan
<1>5. Answers(c) => CastOK'
  BY <1>3, <1>4 DEF Answers
<1> DEFINE text == Order(c)
<1>6. \/ cast' = [cast EXCEPT ![c] = Busy(<<>>, Event("command", hand[c].arg))]
      \/ Answers(c)
      \/ teleport(c, text) \/ gamemode(c, text) \/ give(c, text) \/ time(c, text) \/ weather(c)
      \/ enchant(c, text) \/ vehicle(c) \/ clear(c) \/ xp(c, text) \/ craft(c, text)
  <2> DEFINE first == /\ cast' = [cast EXCEPT ![c] = Busy(<<>>, Event("command", hand[c].arg))]
                      /\ UNCHANGED <<person, clock, fleet>>
             n == text.name
             told0 == n \in {"help", "list", "pos"} \/ Refused(c, n)
  <2>1. CASE n \notin Builtin /\ ~(n \in Builtin /\ told0)
    <3>1. first
      BY <2>1 DEF handle_command
    <3> QED
      BY <3>1
  <2>2. CASE n \in Builtin /\ told0
    <3>1. Answers(c) /\ UNCHANGED <<clock, fleet>>
      BY <2>2 DEF handle_command
    <3> QED
      BY <3>1
  <2>3. CASE n \in Builtin /\ ~told0
    <3>1. run_builtin(c, text)
      BY <2>3 DEF handle_command
    <3> HIDE DEF text
    <3>2. n \in {"gamemode", "give", "time", "weather", "enchant", "vehicle", "clear", "tp", "xp", "craft"}
      BY <2>3 DEF Builtin, Cheats
    <3> QED
      BY <3>1, <3>2 DEF run_builtin
  <2> QED
    BY <2>1, <2>2, <2>3
<1> HIDE DEF text
<1>7. CASE cast' = [cast EXCEPT ![c] = Busy(<<>>, Event("command", hand[c].arg))]
  BY <1>2, <1>7, NoPlan, CastBusy
<1>8. CASE teleport(c, text)
  BY <1>3, <1>5, <1>8, CommandPlans DEF teleport
<1>9. CASE gamemode(c, text)
  BY <1>3, <1>5, <1>9, CommandPlans DEF gamemode, set_gamemode
<1>10. CASE give(c, text)
  BY <1>1, <1>3, <1>4, <1>5, <1>10 DEF give
<1>11. CASE time(c, text)
  BY <1>1, <1>3, <1>4, <1>11 DEF time
<1>12. CASE weather(c)
  BY <1>1, <1>3, <1>4, <1>12 DEF weather
<1>13. CASE enchant(c, text)
  BY <1>1, <1>3, <1>4, <1>5, <1>13 DEF enchant
<1>14. CASE vehicle(c)
  BY <1>1, <1>3, <1>4, <1>14 DEF vehicle
<1>15. CASE clear(c)
  BY <1>1, <1>3, <1>4, <1>15 DEF clear
<1>16. CASE xp(c, text)
  BY <1>3, <1>16, CommandPlans DEF xp
<1>17. CASE craft(c, text)
  BY <1>1, <1>3, <1>4, <1>5, <1>17 DEF craft
<1> QED
  BY <1>5, <1>6, <1>7, <1>8, <1>9, <1>10, <1>11, <1>12, <1>13, <1>14, <1>15, <1>16, <1>17

LEMMA ComesCast ==
  ASSUME CastOK, NEW c \in Clients, Comes(c) \/ Goes(c) \/ handle_chat(c)
  PROVE  CastOK'
<1>1. {PLAYER_INFO_REMOVE, REMOVE_ENTITIES} \subseteq Others
  BY PlayIds
<1>2. c \in Task
  BY DEF Task
<1>3. \A n : PlanOK(<<ToAll(Say(n))>>)
  BY SayTold, OnePlan
<1>4. \A id \in Others : PlanOK(<<ToAll(Plain(id))>>)
  BY PlainTold, OnePlan
<1> DEFINE x == ToAll(Plain(PLAYER_INFO_REMOVE))
           y == ToAll(Plain(REMOVE_ENTITIES))
           z == ToAll(Say(0))
<1>5. PlanOK(<<x, y, z>>)
  <2>1. PlanOK(<<x>>) /\ PlanOK(<<y>>) /\ PlanOK(<<z>>)
    BY <1>1, <1>3, <1>4
  <2> HIDE DEF x, y, z
  <2>2. PlanOK(<<x, y>>)
    BY <2>1, PairPlan
  <2>3. PlanOK(<<x, y>> \o <<z>>)
    BY <2>1, <2>2, JoinedPlan
  <2>4. <<x, y>> \o <<z>> = <<x, y, z>>
    <3> DEFINE S == {x, y, z}
               s == <<x, y>> \o <<z>>
               t == <<x, y, z>>
    <3>1. x \in S /\ y \in S /\ z \in S
      OBVIOUS
    <3> HIDE DEF S
    <3>2. s \in Seq(S) /\ Len(s) = 3 /\ s[1] = x /\ s[2] = y /\ s[3] = z
      BY <3>1
    <3>3. t \in Seq(S) /\ Len(t) = 3 /\ t[1] = x /\ t[2] = y /\ t[3] = z
      BY <3>1
    <3> HIDE DEF s, t
    <3>4. \A i \in 1 .. Len(s) : s[i] = t[i]
      BY <3>2, <3>3
    <3>5. s = t
      BY <3>2, <3>3, <3>4, SeqEqual
    <3> QED
      BY <3>5 DEF s, t
  <2> QED
    BY <2>3, <2>4
<1>6. CASE Comes(c)
  BY <1>2, <1>3, <1>6, CastBusy DEF Comes
<1>7. CASE Goes(c)
  BY <1>2, <1>5, <1>7, CastBusy DEF Goes
<1>8. CASE handle_chat(c)
  BY <1>2, <1>3, <1>8, CastBusy DEF handle_chat, ChatPlan
<1> QED
  BY <1>6, <1>7, <1>8

LEMMA FinishCast ==
  ASSUME CastOK, NEW c \in Clients, Finish(c)
  PROVE  CastOK'
<1>1. c \in Task /\ cast' = [cast EXCEPT ![c] = Idle]
  BY DEF Task, Finish
<1> QED
  BY <1>1, NoPlan, BusyIs, CastSet

LEMMA ModsCast ==
  ASSUME CastOK, Apply
  PROVE  CastOK'
<1>1. {DISCONNECT, BLOCK_UPDATE} \subseteq Others
  BY PlayIds
<1>2. Mods \in Task /\ cast' = [cast EXCEPT ![Mods] = Sending(ModSends(Head(chan)))]
  BY DEF Task, Apply
<1>3. ASSUME NEW action PROVE PlanOK(ModSends(action))
  <2>1. /\ PlanOK(<<ToAll(Reply(action.n))>>) /\ PlanOK(<<To({action.who}, Reply(action.n))>>)
    BY SayTold, OnePlan
  <2>2. /\ PlanOK(<<To({action.who}, Plain(DISCONNECT))>>) /\ PlanOK(<<ToAll(Plain(BLOCK_UPDATE))>>)
    BY <1>1, PlainTold, OnePlan
  <2> QED
    BY <2>1, <2>2, NoPlan DEF ModSends
<1> QED
  BY <1>2, <1>3, CastBusy

LEMMA PanelCast ==
  ASSUME CastOK, NEW r \in Request, Panel(r)
  PROVE  CastOK'
<1>1. {DISCONNECT, BLOCK_UPDATE} \subseteq Others
  BY PlayIds
<1>2. r \in Task
  BY DEF Task
<1>3. ASSUME NEW sends, Asked(r, sends), PlanOK(sends) PROVE CastOK'
  BY <1>2, <1>3, CastBusy DEF Asked
<1>4. /\ PlanOK(<<ToAll(Say(0))>>) /\ PlanOK(<<To({Requests[r].who}, Plain(DISCONNECT))>>)
      /\ PlanOK(<<ToAll(Plain(BLOCK_UPDATE))>>)
  BY <1>1, SayTold, PlainTold, OnePlan
<1>5. CASE cast' = cast
  BY <1>5, CastKept
<1>6. CASE say(r)
  BY <1>3, <1>4, <1>6 DEF say
<1>7. CASE kick(r)
  BY <1>3, <1>4, <1>7, NoPlan DEF kick
<1>8. CASE setblock(r)
  BY <1>3, <1>4, <1>8, NoPlan DEF setblock
<1> QED
  BY <1>5, <1>6, <1>7, <1>8 DEF Panel, Unauthorized, ReadAi, WriteAi

(***************************************************************************)
(* Every step keeps every connection wired.                                *)
(***************************************************************************)
AllWired == \A c \in Clients : Wired(c)

LEMMA StepsAll ==
  ASSUME Shapes, AllWired, NEW c \in Clients, Steps(c)
  PROVE  Shapes' /\ AllWired' /\ setup' = setup
<1>1. ASSUME NEW d \in Clients PROVE Wired(d)'
  <2>1. CASE d = c
    BY <2>1 DEF Steps
  <2>2. CASE d # c
    <3>1. Same(d) /\ setup' = setup /\ Wired(d)
      BY <2>2 DEF Steps, Only, AllWired
    <3> QED
      BY <3>1, SameWired
  <2> QED
    BY <2>1, <2>2
<1> QED
  BY <1>1 DEF Steps, AllWired

LEMMA NothingMoves ==
  ASSUME Shapes, AllWired, DOMAIN queue' = Clients, DOMAIN told' = Clients,
         UNCHANGED <<setup, srv, todo, taken, task, left, pending, pos, cli, heard, said, down, up>>,
         \A c \in Clients : queue'[c] = queue[c] /\ told'[c] = told[c]
  PROVE  Shapes' /\ AllWired' /\ setup' = setup
<1>1. ASSUME NEW c \in Clients PROVE Wired(c)'
  <2>1. Same(c) /\ setup' = setup /\ Wired(c)
    BY DEF Same, AllWired
  <2> QED
    BY <2>1, SameWired
<1> QED
  BY <1>1 DEF Shapes, AllWired

LEMMA BuiltTold ==
  ASSUME NEW id \in play_cb, NEW p, Sendable(id, p), NEW arg
  PROVE  IsTold(Packet(id, Built(id, p), arg), p)
<1> DEFINE B == Built(id, p)
           x == Packet(id, B, arg)
<1>1. x = [id |-> id, body |-> B, arg |-> arg]
  BY DEF Packet
<1> HIDE DEF B
<1>2. x.id = id /\ x.arg = arg
  BY <1>1
<1> HIDE DEF x
<1>3. x = Packet(x.id, Built(x.id, p), x.arg)
  BY <1>2 DEF x, B
<1>4. IsTold(x, p)
  BY <1>2, <1>3 DEF IsTold
<1> QED
  BY <1>4 DEF x, B

LEMMA Tells0 ==
  ASSUME setup \in Setups, Shapes, NEW c \in Clients, Wired(c), Tell(c)
  PROVE  Steps(c)
<1>1. PICK id \in Sends :
        /\ Sendable(id, Protocol(c))
        /\ SendTo({c}, Packet(id, Built(id, Protocol(c)), Len(told[c])))
  BY DEF Tell
<1>2. id \in play_cb
  BY SetupsAssumption DEF Sends
<1> DEFINE x == Packet(id, Built(id, Protocol(c)), Len(told[c]))
<1>3. IsTold(x, Protocol(c))
  BY <1>1, <1>2, BuiltTold
<1>4. UNCHANGED <<setup, srv, todo, taken, task, left, pending, pos, cli, heard, said, down, up>>
  BY DEF Tell, srvVars, outVars, cliVars
<1>5. IsTold(x, Protocol(c)) /\ SendTo({c}, x)
  BY <1>1, <1>3
<1> HIDE DEF x
<1> QED
  BY <1>4, <1>5, Telling

LEMMA PassesOn ==
  ASSUME Shapes, NEW c \in Clients, Wired(c), Passes(c)
  PROVE  Steps(c)
<1>1. UNCHANGED <<setup, srv, todo, taken, task, left, pending, pos, cli, heard, said, queue,
                  down, up, told>>
  BY DEF Passes, outVars, cliVars
<1> QED
  BY <1>1, Untouched

LEMMA ConnectionSteps ==
  ASSUME setup \in Setups, Shapes, NEW c \in Clients, Wired(c),
         Writes(c) \/ Client(c) \/ ClientActs(c) \/ Tell(c) \/ Reads(c)
  PROVE  Steps(c)
<1>1. CASE Writes(c)
  BY <1>1, WritesFrames, WritesPayload, WritingFails, WritesPlain, WritesEncrypted, WritesBuffered
  DEF Writes
<1>2. CASE Client(c)
  BY <1>2, ReadsBytes, Handles DEF Client
<1>3. CASE ClientActs(c)
  BY <1>3, StartsUp, Says, Strays, Leaves DEF ClientActs
<1>4. CASE Tell(c)
  BY <1>4, Tells0
<1>5. CASE Reads(c)
  <2>1. CASE ReadMore(c)
    BY <2>1, ReadsOn
  <2>2. CASE BadFrame(c) \/ EndOfStream(c)
    BY <2>2, BreakingOff
  <2>3. CASE Handshake(c) \/ Status(c)
    BY <2>3, Handshakes, Statuses
  <2>4. CASE Login(c) \/ EncryptionHandshake(c)
    BY <2>4, LoggingIn, KeyExchange
  <2>5. CASE Succeed(c) \/ LoginAcknowledged(c) \/ Configuration(c)
    BY <2>5, Succeeding, Acknowledging, Configuring
  <2>6. CASE TakeFrame(c)
    BY <2>6, TakesFrame
  <2>7. CASE Passes(c)
    BY <2>7, PassesOn
  <2> QED
    BY <1>5, <2>1, <2>2, <2>3, <2>4, <2>5, <2>6, <2>7 DEF Reads
<1> QED
  BY <1>1, <1>2, <1>3, <1>4, <1>5

\* One player is sent the next packet of a plan.
LEMMA SendsOne ==
  ASSUME Shapes, AllWired, CastOK, NEW a \in Task, SendOne(a)
  PROVE  Shapes' /\ AllWired' /\ setup' = setup /\ CastOK'
<1>1. UNCHANGED <<setup, srv, todo, taken, task, left, pending, pos, cli, heard, said, down, up>>
      /\ cast[a].plan # <<>>
  BY DEF SendOne, srvVars, outVars, cliVars
<1>2. PICK x : x = Head(cast[a].plan).packet
  OBVIOUS
<1>3. Alike(x) /\ PlanOK(Tail(cast[a].plan)) /\ PlanOK(cast[a].plan)
  <2>1. PlanOK(cast[a].plan)
    BY DEF CastOK
  <2> QED
    BY <1>1, <1>2, <2>1, NextPlan
<1>4. \/ cast' = [cast EXCEPT ![a].plan = Tail(@)] /\ UNCHANGED <<queue, told>>
      \/ \E c, cs : /\ SendTo({c}, x)
                    /\ \/ cast' = [cast EXCEPT ![a].to = cs, ![a].plan = Tail(@)]
                       \/ cast' = [cast EXCEPT ![a].to = cs, ![a].plan = @]
  <2> DEFINE send == Head(cast[a].plan)
             to == IF cast[a].to = {} THEN Audience(send) ELSE cast[a].to
  <2>1. CASE to = {}
    BY <2>1 DEF SendOne
  <2>2. CASE to # {}
    <3>1. PICK c \in to :
            /\ SendTo({c}, send.packet)
            /\ cast' = [cast EXCEPT ![a].to = to \ {c},
                                    ![a].plan = IF to = {c} THEN Tail(@) ELSE @]
      BY <2>2 DEF SendOne
    <3> PICK cs : cs = to \ {c}
      OBVIOUS
    <3> DEFINE one == to = {c}
    <3>2. /\ SendTo({c}, x)
          /\ cast' = [cast EXCEPT ![a].to = cs, ![a].plan = IF one THEN Tail(@) ELSE @]
      BY <1>2, <3>1
    <3> HIDE DEF one
    <3>3. CASE one
      BY <3>2, <3>3
    <3>4. CASE ~one
      BY <3>2, <3>4
    <3> QED
      BY <3>3, <3>4
  <2> QED
    BY <2>1, <2>2
<1>5. CASE cast' = [cast EXCEPT ![a].plan = Tail(@)] /\ UNCHANGED <<queue, told>>
  <2>1. CastOK'
    BY <1>3, <1>5 DEF CastOK, CastFields
  <2>2. DOMAIN queue' = Clients /\ DOMAIN told' = Clients
        /\ \A c \in Clients : queue'[c] = queue[c] /\ told'[c] = told[c]
    BY <1>5 DEF Shapes
  <2> QED
    BY <1>1, <2>1, <2>2, NothingMoves
<1>6. ASSUME NEW c, NEW cs, SendTo({c}, x),
             \/ cast' = [cast EXCEPT ![a].to = cs, ![a].plan = Tail(@)]
             \/ cast' = [cast EXCEPT ![a].to = cs, ![a].plan = @]
      PROVE  Shapes' /\ AllWired' /\ setup' = setup /\ CastOK'
  <2>1. CastOK'
    <3>1. CASE cast' = [cast EXCEPT ![a].to = cs, ![a].plan = Tail(@)]
      BY <1>3, <3>1 DEF CastOK, CastFields
    <3>2. CASE cast' = [cast EXCEPT ![a].to = cs, ![a].plan = @]
      BY <1>3, <3>2 DEF CastOK, CastFields
    <3> QED
      BY <1>6, <3>1, <3>2
  <2>2. CASE c \in Clients
    <3>1. Wired(c)
      BY <2>2 DEF AllWired
    <3>2. Steps(c)
      BY <1>1, <1>3, <1>6, <2>2, <3>1, AlikeTold, Telling
    <3> QED
      BY <2>1, <2>2, <3>2, StepsAll
  <2>3. CASE c \notin Clients
    <3>1. DOMAIN queue' = Clients /\ DOMAIN told' = Clients
          /\ \A d \in Clients : queue'[d] = queue[d] /\ told'[d] = told[d]
      BY <1>6, <2>3 DEF SendTo
    <3> QED
      BY <1>1, <2>1, <3>1, NothingMoves
  <2> QED
    BY <2>2, <2>3
<1> QED
  BY <1>4, <1>5, <1>6

(***************************************************************************)
(* The invariant of the connections, and what it comes to.                 *)
(***************************************************************************)
WiredInv == setup \in Setups /\ Shapes /\ AllWired /\ CastOK

\* Nothing told and nothing said yet.
Unsaid(c) ==
  /\ told[c] = <<>> /\ heard[c] = <<>> /\ said[c] = <<>> /\ taken[c] = <<>>
  /\ queue[c] = <<>> /\ todo[c] = <<>> /\ left[c] = <<>> /\ pending[c] = <<>> /\ pos[c] = 0
  /\ down[c] = <<>> /\ up[c] = <<>>
  /\ srv[c].got = <<>> /\ cli[c].got = <<>> /\ srv[c].outIv = Fresh /\ cli[c].outIv = Fresh
  /\ srv[c].zip \in Int /\ cli[c].zip \in Int
  /\ task[c] = "on" => srv[c].phase = "play"

LEMMA UnsaidHistories ==
  ASSUME NEW c, Unsaid(c)
  PROVE  Histories(c)
<1>1. Listed(<<>>)
  BY DEF Listed
<1>2. \A p, phase : HeardOk(p, phase, <<>>, <<>>)
  BY <1>1 DEF HeardOk
<1>3. \A phase : SaidOk(phase, <<>>, <<>>)
  BY <1>1 DEF SaidOk
<1> QED
  BY <1>2, <1>3 DEF Histories, Unsaid

LEMMA UnsaidWired ==
  ASSUME NEW c, Unsaid(c), cli[c].phase # "status",
         Alive(cli[c].phase) => Stage(srv[c].phase, cli[c].phase, <<>>, <<>>, Protocol(c))
  PROVE  Wired(c)
<1>1. Histories(c)
  BY UnsaidHistories
<1>2. ASSUME Alive(cli[c].phase)
      PROVE  Talking(c, srv[c].phase, <<>>, <<>>, <<>>)
  <2>1. Downward(c, <<>>)
    BY DownFlowNone DEF Downward, Unsaid
  <2>2. \A p : Owed(<<>>, <<>>, <<>>, <<>>, p) /\ Queued(<<>>, <<>>, 0)
    <3>1. SubSeq(<<>>, 0 + 1, Len(<<>>)) = <<>>
      OBVIOUS
    <3> QED
      BY <3>1 DEF Owed, Queued
  <2>3. Below(c, srv[c].phase, <<>>, <<>>)
    <3> DEFINE z == <<>>
    <3>1. Downward(c, z) /\ Len(z) = 0
      BY <2>1
    <3>2. \A p : Owed(z, z, told[c], heard[c], p)
      BY <2>2 DEF Unsaid
    <3>3. Queued(queue[c], told[c], 0) /\ Len(heard[c]) = 0 /\ heard[c] = z /\ todo[c] = <<>>
      BY <2>2 DEF Unsaid
    <3> HIDE DEF z
    <3>4. Below(c, srv[c].phase, z, z)
      BY <3>1, <3>2, <3>3 DEF Below, Unsaid, z
    <3> QED
      BY <3>4 DEF z
  <2>4. Upward(c, <<>>, FALSE)
    <3>1. \A p : Sent(<<>>, <<>>, <<>>, <<>>, p, FALSE)
      BY DEF Sent
    <3> QED
      BY <3>1, UpFlowNone DEF Upward, Unsaid
  <2>5. CanWrite(c)
    BY FreshRegister DEF CanWrite, Unsaid
  <2> QED
    BY <1>2, <2>3, <2>4, <2>5 DEF Talking
<1> QED
  BY <1>1, <1>2 DEF Wired, Unsaid

LEMMA WiredInit == Init => WiredInv
<1> SUFFICES ASSUME Init PROVE WiredInv
  OBVIOUS
<1>1. setup \in Setups
  BY DEF Init, WireInit
<1>3. ASSUME NEW c \in Clients, NEW a, NEW b, NEW d
      PROVE  LET B == Begun(c, a, b, d)
             IN /\ DOMAIN B = PeerFields /\ B.got = <<>> /\ B.outIv = Fresh /\ B.zip \in Int
                /\ B.phase = CASE Begins(c) = "start" -> a [] Begins(c) = "joining" -> b
                               [] Begins(c) = "play" -> "play" [] OTHER -> d
  <2>1. Threshold \in Int
    BY <1>1, SetupsAssumption DEF Threshold
  <2> QED
    BY <2>1 DEF Begun, Peer, PeerFields
<1>4. Shapes
  <2>1. DOMAIN srv = Clients /\ \A c \in Clients : DOMAIN srv[c] = PeerFields
    BY <1>3 DEF Init, WireInit
  <2>2. DOMAIN cli = Clients /\ \A c \in Clients : DOMAIN cli[c] = PeerFields
    BY <1>3 DEF Init, WireInit
  <2> QED
    BY <2>1, <2>2 DEF Init, WireInit, Shapes
<1>5. ASSUME NEW c \in Clients PROVE Wired(c)
  <2>1. srv[c] = Begun(c, "handshake", "joining", "gone") /\ cli[c] = Begun(c, "start", "play", "left")
    BY DEF Init, WireInit
  <2>2. /\ srv[c].phase = CASE Begins(c) = "start" -> "handshake" [] Begins(c) = "joining" -> "joining"
                            [] Begins(c) = "play" -> "play" [] OTHER -> "gone"
        /\ cli[c].phase = CASE Begins(c) = "start" -> "start" [] Begins(c) = "joining" -> "play"
                            [] Begins(c) = "play" -> "play" [] OTHER -> "left"
    BY <1>3, <2>1
  <2>3. /\ srv[c].got = <<>> /\ cli[c].got = <<>> /\ srv[c].outIv = Fresh /\ cli[c].outIv = Fresh
        /\ srv[c].zip \in Int /\ cli[c].zip \in Int
    BY <1>3, <2>1
  <2>4. Unsaid(c)
    <3>1. task[c] = IF Begins(c) = "play" THEN "on" ELSE "none"
      BY DEF Init, WireInit
    <3>2. task[c] = "on" => srv[c].phase = "play"
      BY <2>2, <3>1
    <3> QED
      BY <2>3, <3>2 DEF Init, WireInit, Unsaid
  <2>5. Begins(c) \in {"joining", "play"} => Protocol(c) \in SUPPORTED_PROTOCOLS
    BY <1>1, SetupsAssumption DEF Begins, Protocol
  <2>6. Alive(cli[c].phase) => Stage(srv[c].phase, cli[c].phase, <<>>, <<>>, Protocol(c))
    <3>1. CASE Begins(c) = "start"
      BY <2>2, <3>1 DEF Stage
    <3>2. CASE Begins(c) = "joining"
      BY <2>2, <2>5, <3>2 DEF Stage, Entered
    <3>3. CASE Begins(c) = "play"
      BY <2>2, <2>5, <3>3 DEF Stage, Entered
    <3>4. CASE Begins(c) \notin {"start", "joining", "play"}
      BY <2>2, <3>4 DEF Alive
    <3> QED
      BY <3>1, <3>2, <3>3, <3>4
  <2>7. cli[c].phase # "status"
    BY <2>2
  <2> QED
    BY <2>4, <2>6, <2>7, UnsaidWired
<1>6. CastOK
  <2>1. cast = [a \in Task |-> Idle]
    BY DEF Init, DeskInit
  <2> QED
    BY <2>1, BusyIs, NoPlan DEF CastOK
<1> QED
  BY <1>1, <1>4, <1>5, <1>6 DEF WiredInv, AllWired

\* What leaves the wire alone, but for the packet in hand.
LEMMA OffTheWire ==
  ASSUME Shapes, AllWired,
         UNCHANGED <<setup, srv, todo, taken, task, left, pending, pos, cli, heard, said, queue,
                     down, up, told>>
  PROVE  Shapes' /\ AllWired' /\ setup' = setup
<1>1. DOMAIN queue' = Clients /\ DOMAIN told' = Clients
      /\ \A c \in Clients : queue'[c] = queue[c] /\ told'[c] = told[c]
  BY DEF Shapes
<1> QED
  BY <1>1, NothingMoves

LEMMA WiredNext == WiredInv /\ [Next]_vars => WiredInv'
<1> SUFFICES ASSUME WiredInv, [Next]_vars PROVE WiredInv'
  OBVIOUS
<1>1. setup \in Setups /\ Shapes /\ AllWired /\ CastOK
  BY DEF WiredInv
<1>2. ASSUME Shapes' /\ AllWired' /\ setup' = setup, CastOK' PROVE WiredInv'
  BY <1>1, <1>2 DEF WiredInv
<1>3. ASSUME UNCHANGED wireVars PROVE Shapes' /\ AllWired' /\ setup' = setup
  BY <1>1, <1>3, OffTheWire DEF wireVars, srvVars, outVars, cliVars
<1>4. ASSUME NEW c \in Clients, Connection(c) PROVE WiredInv'
  <2>1. cast' = cast
    BY <1>4 DEF Connection, deskVars
  <2>2. Writes(c) \/ Client(c) \/ ClientActs(c) \/ Tell(c) \/ Reads(c)
    BY <1>4 DEF Connection
  <2>3. Wired(c)
    BY <1>1 DEF AllWired
  <2>4. Steps(c)
    BY <1>1, <2>2, <2>3, ConnectionSteps
  <2> QED
    BY <1>1, <1>2, <2>1, <2>4, StepsAll, CastKept
<1>5. ASSUME NEW c \in Clients, Session(c) PROVE WiredInv'
  <2>0. Wired(c)
    BY <1>1 DEF AllWired
  <2>1. CASE Finish(c)
    <3>1. Shapes' /\ AllWired' /\ setup' = setup
      BY <1>1, <2>1, OffTheWire DEF Finish, outVars, cliVars
    <3> QED
      BY <1>1, <1>2, <2>1, <3>1, FinishCast
  <2>2. CASE Comes(c)
    <3>1. Join(c)
      BY <2>2 DEF Comes
    <3>2. Steps(c)
      BY <1>1, <2>0, <3>1, JoinsPlay
    <3> QED
      BY <1>1, <1>2, <2>2, <3>2, StepsAll, ComesCast
  <2>3. CASE Goes(c)
    <3>1. Leave(c)
      BY <2>3 DEF Goes
    <3>2. Steps(c)
      BY <1>1, <2>0, <3>1, Leaving
    <3> QED
      BY <1>1, <1>2, <2>3, <3>2, StepsAll, ComesCast
  <2>4. CASE handle_chat(c)
    <3>1. UNCHANGED wireVars
      BY <2>4 DEF handle_chat
    <3> QED
      BY <1>1, <1>2, <1>3, <2>4, <3>1, ComesCast
  <2>5. CASE handle_command(c)
    <3>1. UNCHANGED wireVars
      BY <2>5 DEF handle_command
    <3> QED
      BY <1>1, <1>2, <1>3, <2>5, <3>1, Commands
  <2> QED
    BY <1>5, <2>1, <2>2, <2>3, <2>4, <2>5 DEF Session
<1>6. ASSUME NEW a \in Task, SendOne(a) PROVE WiredInv'
  BY <1>1, <1>2, <1>6, SendsOne
<1>7. CASE RunThread \/ ServerStop
  <2>1. UNCHANGED wireVars /\ cast' = cast
    BY <1>7 DEF RunThread, ServerStop
  <2> QED
    BY <1>1, <1>2, <1>3, <2>1, CastKept
<1>8. CASE Apply
  <2>1. UNCHANGED wireVars
    BY <1>8 DEF Apply
  <2> QED
    BY <1>1, <1>2, <1>3, <1>8, <2>1, ModsCast
<1>9. ASSUME NEW r \in Request, Panel(r) PROVE WiredInv'
  <2>1. UNCHANGED wireVars
    BY <1>9 DEF Panel, Unauthorized, say, kick, setblock, ReadAi, WriteAi, PanelStays
  <2> QED
    BY <1>1, <1>2, <1>3, <1>9, <2>1, PanelCast
<1>10. CASE UNCHANGED vars
  <2>1. UNCHANGED wireVars /\ cast' = cast
    BY <1>10 DEF vars, deskVars
  <2> QED
    BY <1>1, <1>2, <1>3, <2>1, CastKept
<1> QED
  BY <1>4, <1>5, <1>6, <1>7, <1>8, <1>9, <1>10 DEF Next

\* On every connection, at every moment, what is on the way in either direction is the
\* packets the reader has yet to take, in order, in whatever pieces, and what was
\* taken is what was given (connection.rs, codec.rs, encryption.rs).
THEOREM ConnectionsInvariant == Spec => []WiredInv
<1> QED
  BY WiredInit, WiredNext, PTL DEF Spec

\* What a client in play has read is what was queued for it: the packets of
\* Player::send, in order, none missing, none twice, each under the id of the client's
\* version and in its layout, but for the packets the version does not have and those
\* that version.rs leaves as 763 has them, for every number of clients, cut of the
\* stream and width of the cipher's feedback.
THEOREM HeardInOrder == Spec => []HeardAsTold
<1>1. WiredInv => HeardAsTold
  <2> SUFFICES ASSUME WiredInv, NEW c \in Clients
               PROVE  /\ Len(heard[c]) <= Len(told[c])
                      /\ \A i \in DOMAIN heard[c] :
                           \/ Foreign(told[c][i].id, Protocol(c))
                           \/ /\ Arrives(told[c][i].id, heard[c][i], Protocol(c))
                              /\ heard[c][i].arg = told[c][i].arg
    BY DEF HeardAsTold
  <2>1. HeardOk(Protocol(c), srv[c].phase, told[c], heard[c])
    BY DEF WiredInv, AllWired, Wired, Histories
  <2>2. Len(heard[c]) <= Len(told[c])
    BY <2>1 DEF HeardOk
  <2>3. ASSUME NEW i \in DOMAIN heard[c]
        PROVE  \/ Foreign(told[c][i].id, Protocol(c))
               \/ /\ Arrives(told[c][i].id, heard[c][i], Protocol(c))
                  /\ heard[c][i].arg = told[c][i].arg
    <3>1. heard[c] \in Seq(Range(heard[c])) /\ told[c] \in Seq(Range(told[c]))
      BY <2>1 DEF HeardOk, Listed
    <3>2. i \in 1 .. Len(heard[c]) /\ i \in 1 .. Len(told[c]) /\ heard[c] # <<>>
      BY <2>2, <3>1
    <3>3. /\ IsTold(told[c][i], Protocol(c)) /\ heard[c][i] = translate_clientbound(told[c][i], Protocol(c))
          /\ Protocol(c) \in SUPPORTED_PROTOCOLS
      BY <2>1, <3>2 DEF HeardOk
    <3> QED
      BY <3>3, WireOf
  <2> QED
    BY <2>2, <2>3
<1> QED
  BY <1>1, ConnectionsInvariant, PTL

\* What the reading loop of a session has taken is what its client sent, in order and
\* whole, through the client's cipher and compression; only of a client that broke
\* off before it said anything a stray packet may be taken for one of play.
THEOREM SaidInOrder == Spec => []TakenAsSaid
<1>1. WiredInv => TakenAsSaid
  <2> SUFFICES ASSUME WiredInv, NEW c \in Clients
               PROVE  \/ IsPrefix(taken[c], said[c])
                      \/ cli[c].phase \in {"lost", "confused", "left"} /\ said[c] = <<>>
    BY DEF TakenAsSaid
  <2>1. SaidOk(cli[c].phase, said[c], taken[c])
    BY DEF WiredInv, AllWired, Wired, Histories
  <2>2. CASE Alive(cli[c].phase) \/ said[c] # <<>>
    <3>1. /\ Listed(taken[c]) /\ Listed(said[c]) /\ Len(taken[c]) <= Len(said[c])
          /\ \A i \in 1 .. Len(taken[c]) : taken[c][i] = said[c][i]
      BY <2>1, <2>2 DEF SaidOk
    <3> QED
      BY <3>1, PrefixIs
  <2>3. CASE ~Alive(cli[c].phase) /\ said[c] = <<>>
    BY <2>3 DEF Alive
  <2> QED
    BY <2>2, <2>3
<1> QED
  BY <1>1, ConnectionsInvariant, PTL
=============================================================================
