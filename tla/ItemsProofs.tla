----------------------------- MODULE ItemsProofs -----------------------------
(***************************************************************************)
(* Theorems about Items, for any number of players, any items, slots and    *)
(* stack sizes, and any number of uses: the items add up, and how far a     *)
(* villager's offer can be oversold.                                        *)
(***************************************************************************)
EXTENDS Items, FiniteSetTheorems, WellFoundedInduction, TLAPS

\* A set of numbers has a least one.
LEMMA LeastNumber ==
  ASSUME NEW T, T \subseteq Nat, T # {}
  PROVE  \E n \in T : \A m \in T : n <= m
<1> DEFINE R == {ss \in Nat \X Nat : ss[1] < ss[2]}
<1>1. IsWellFoundedOn(R, Nat)
  BY NatLessThanWellFounded DEF OpToRel
<1> HIDE DEF R
<1>2. PICK n \in T : \A m \in T : ~(<<m, n>> \in R)
  BY <1>1, WFMin
<1>3. ASSUME NEW m \in T PROVE n <= m
  <2>1. m \in Nat /\ n \in Nat
    OBVIOUS
  <2>2. ~(m < n)
    <3>1. m < n => <<m, n>> \in R
      BY <2>1 DEF R
    <3> QED
      BY <1>2, <3>1
  <2> QED
    BY <2>1, <2>2
<1> QED
  BY <1>3

\* Of the sets of some kind one has no smaller one of that kind in it: induction.
LEMMA SmallestSet ==
  ASSUME NEW D, IsFiniteSet(D), NEW B, B \subseteq SUBSET D, B # {}
  PROVE  \E s \in B : \A x \in s : s \ {x} \notin B
<1> DEFINE T == {Cardinality(s) : s \in B}
<1>1. \A s \in B : IsFiniteSet(s) /\ Cardinality(s) \in Nat
  BY FS_Subset, FS_CardinalityType
<1>2. T \subseteq Nat /\ T # {}
  BY <1>1
<1>3. PICK n \in T : \A m \in T : n <= m
  <2> HIDE DEF T
  <2> QED
    BY <1>2, LeastNumber
<1>4. PICK s \in B : Cardinality(s) = n
  OBVIOUS
<1>5. ASSUME NEW x \in s, s \ {x} \in B PROVE FALSE
  <2>1. Cardinality(s \ {x}) = Cardinality(s) - 1
    BY <1>1, FS_RemoveElement
  <2>2. n <= Cardinality(s \ {x})
    BY <1>3, <1>5
  <2>3. Cardinality(s) \in Nat
    BY <1>1
  <2> QED
    BY <1>4, <2>1, <2>2, <2>3
<1> QED
  BY <1>5

\* A fold: c chooses the next element of a set, and o goes on with it.
Chooses(c, D) == \A s \in SUBSET D : s # {} => c[s] \in s
Closed(o, A, D) == \A a \in A, x \in D : o[<<a, x>>] \in A
Folds(f, D, c, base, o) ==
  \A s \in SUBSET D : f[s] = IF s = {} THEN base ELSE o[<<f[s \ {c[s]}], c[s]>>]

\* What a fold is to compute exists.
LEMMA FoldExists ==
  ASSUME NEW D, IsFiniteSet(D), NEW c, Chooses(c, D), NEW A, NEW base \in A, NEW o, Closed(o, A, D)
  PROVE  \E f \in [SUBSET D -> A] : Folds(f, D, c, base, o)
<1> USE DEF Chooses, Closed
<1> DEFINE Small(n) == {s \in SUBSET D : Cardinality(s) <= n}
           Right(f, s) == f[s] = IF s = {} THEN base ELSE o[<<f[s \ {c[s]}], c[s]>>]
           Good(n) == \E f \in [Small(n) -> A] : \A s \in Small(n) : Right(f, s)
           T == {n \in Nat : ~Good(n)}
<1>0. \A s \in SUBSET D : IsFiniteSet(s) /\ Cardinality(s) \in Nat
  BY FS_Subset, FS_CardinalityType
<1>1. ASSUME NEW n \in Nat, NEW s \in SUBSET D, s # {}, Cardinality(s) <= n
      PROVE  n > 0 /\ s \ {c[s]} \in Small(n - 1)
  <2>1. c[s] \in s /\ Cardinality(s \ {c[s]}) = Cardinality(s) - 1
    BY <1>0, <1>1, FS_RemoveElement
  <2>2. Cardinality(s) \in Nat /\ Cardinality(s \ {c[s]}) \in Nat
    BY <1>0
  <2> QED
    BY <1>1, <2>1, <2>2
<1>2. ASSUME NEW n \in Nat, n = 0 \/ Good(n - 1) PROVE Good(n)
  <2>1. PICK g : n > 0 => g \in [Small(n - 1) -> A] /\ \A s \in Small(n - 1) : Right(g, s)
    <3>1. CASE n = 0
      BY <3>1
    <3>2. CASE n # 0
      BY <1>2, <3>2
    <3> QED
      BY <3>1, <3>2
  <2> DEFINE f == [s \in Small(n) |-> IF s = {} THEN base ELSE o[<<g[s \ {c[s]}], c[s]>>]]
  <2>2. ASSUME NEW s \in Small(n), s # {}
        PROVE  n > 0 /\ s \ {c[s]} \in Small(n - 1) /\ c[s] \in D
    BY <1>1, <2>2
  <2>3. ASSUME NEW s \in Small(n) PROVE f[s] \in A
    <3>1. CASE s = {}
      BY <3>1
    <3>2. CASE s # {}
      <4>1. g[s \ {c[s]}] \in A
        <5> HIDE DEF Small
        <5> QED
          BY <2>1, <2>2, <3>2
      <4> QED
        BY <2>2, <3>2, <4>1
    <3> QED
      BY <3>1, <3>2
  <2>4. ASSUME NEW s \in Small(n), n > 0, s \in Small(n - 1) PROVE f[s] = g[s]
    BY <2>1, <2>4
  <2>5. ASSUME NEW s \in Small(n) PROVE Right(f, s)
    <3>1. CASE s = {}
      BY <3>1
    <3>2. CASE s # {}
      <4>1. n > 0 /\ s \ {c[s]} \in Small(n - 1)
        BY <2>2, <3>2
      <4>2. s \ {c[s]} \in Small(n)
        BY <4>1, <1>0
      <4>3. f[s \ {c[s]}] = g[s \ {c[s]}]
        BY <2>4, <4>1, <4>2
      <4>4. f[s] = o[<<g[s \ {c[s]}], c[s]>>]
        BY <3>2
      <4> QED
        BY <3>2, <4>3, <4>4
    <3> QED
      BY <3>1, <3>2
  <2>6. f \in [Small(n) -> A]
    BY <2>3
  <2> QED
    BY <2>5, <2>6
<1>3. T = {}
  <2>1. SUFFICES ASSUME T # {} PROVE FALSE
    OBVIOUS
  <2>2. T \subseteq Nat
    OBVIOUS
  <2>3. PICK n \in T : \A m \in T : n <= m
    <3> HIDE DEF T
    <3> QED
      BY <2>1, <2>2, LeastNumber
  <2>4. n \in Nat /\ ~Good(n)
    OBVIOUS
  <2>5. n # 0 /\ ~Good(n - 1)
    <3> HIDE DEF Good
    <3> QED
      BY <1>2, <2>4
  <2>6. n - 1 \in T
    <3> HIDE DEF Good
    <3> QED
      BY <2>4, <2>5
  <2>7. n <= n - 1
    <3> HIDE DEF T
    <3> QED
      BY <2>3, <2>6
  <2> QED
    BY <2>4, <2>7
<1> DEFINE N == Cardinality(D)
<1>4. N \in Nat /\ \A s \in SUBSET D : Cardinality(s) <= N
  BY FS_Subset, FS_CardinalityType
<1>5. Small(N) = SUBSET D
  BY <1>4
<1>6. Good(N)
  <2> HIDE DEF Good
  <2> QED
    BY <1>3, <1>4
<1>7. PICK f \in [SUBSET D -> A] : \A s \in SUBSET D : Right(f, s)
  <2> HIDE DEF Small, Right
  <2> QED
    BY <1>5, <1>6
<1> QED
  BY <1>7 DEF Folds

(***************************************************************************)
(* Sums.                                                                   *)
(***************************************************************************)
First(s) == CHOOSE x \in s : TRUE
Numbers(w, S) == \A x \in S : w[x] \in Int

\* What adds up w on any part of S.
Adds(f, w, S) ==
  \A s \in SUBSET S : f[s] = IF s = {} THEN 0 ELSE w[First(s)] + f[s \ {First(s)}]
Totals(f, w, S) ==
  /\ f \in [SUBSET S -> Int]
  /\ \A s \in SUBSET S : SumFunctionOnSet(w, s) = f[s]
  /\ f[{}] = 0
  /\ \A s \in SUBSET S : s # {} => First(s) \in s /\ f[s] = w[First(s)] + f[s \ {First(s)}]

\* A sum is what the function does that adds them up.
LEMMA SumIs ==
  ASSUME NEW S, IsFiniteSet(S), NEW w, Numbers(w, S)
  PROVE  \E f \in [SUBSET S -> Int] :
           SumFunctionOnSet(w, S) = f[S] /\ Adds(f, w, S)
<1> DEFINE P(f) == f = [s \in SUBSET S |-> IF s = {} THEN 0 ELSE w[First(s)] + f[s \ {First(s)}]]
<1>1. \E f : P(f)
  <2> DEFINE c == [s \in SUBSET S |-> First(s)]
             o == [ax \in Int \X S |-> w[ax[2]] + ax[1]]
  <2>1. \A s \in SUBSET S : s # {} => c[s] \in s /\ First(s) \in S
    BY DEF First
  <2>2. \A a \in Int, x \in S : o[<<a, x>>] \in Int /\ o[<<a, x>>] = w[x] + a
    BY DEF Numbers
  <2>3. 0 \in Int
    OBVIOUS
  <2> HIDE DEF o
  <2>4. \A s \in SUBSET S : c[s] = First(s)
    OBVIOUS
  <2> HIDE DEF c
  <2>5. PICK f \in [SUBSET S -> Int] : \A s \in SUBSET S : f[s] = IF s = {} THEN 0 ELSE o[<<f[s \ {c[s]}], c[s]>>]
    <3> DEFINE A == Int
               z == 0
    <3>1. z \in A /\ \A a \in A, x \in S : o[<<a, x>>] \in A
      BY <2>2
    <3>2. \A s \in SUBSET S : s # {} => c[s] \in s
      BY <2>1
    <3> HIDE DEF A, z
    <3>3. \E f \in [SUBSET S -> A] : Folds(f, S, c, z, o)
      BY <3>1, <3>2, FoldExists DEF Chooses, Closed
    <3> QED
      BY <3>3 DEF A, z, Folds
  <2>6. ASSUME NEW s \in SUBSET S, s # {}
        PROVE  o[<<f[s \ {c[s]}], c[s]>>] = w[First(s)] + f[s \ {First(s)}]
    BY <2>1, <2>2, <2>4, <2>6
  <2>7. P(f)
    BY <2>5, <2>6
  <2> QED
    BY <2>7
<1>2. PICK f : f = (CHOOSE g : P(g)) /\ P(f)
  BY <1>1
<1>3. SumFunctionOnSet(w, S) = f[S]
  BY <1>2 DEF SumFunctionOnSet, FoldFunctionOnSet, MapThenFoldSet, First
<1>4. \A s \in SUBSET S : f[s] = IF s = {} THEN 0 ELSE w[First(s)] + f[s \ {First(s)}]
  BY <1>2
<1>5. \A s \in SUBSET S : f[s] \in Int
  <2> DEFINE B == {s \in SUBSET S : f[s] \notin Int}
  <2>1. SUFFICES ASSUME B # {} PROVE FALSE
    OBVIOUS
  <2>2. PICK s \in B : \A x \in s : s \ {x} \notin B
    <3>1. B \subseteq SUBSET S
      OBVIOUS
    <3> HIDE DEF B
    <3> QED
      BY <2>1, <3>1, SmallestSet
  <2>3. s # {}
    <3>1. f[{}] = 0
      BY <1>4
    <3> QED
      BY <3>1
  <2>4. First(s) \in s /\ f[s \ {First(s)}] \in Int
    BY <2>2, <2>3 DEF First
  <2> QED
    BY <1>4, <2>3, <2>4 DEF Numbers
<1>6. DOMAIN f = SUBSET S /\ f = [s \in SUBSET S |-> f[s]]
  BY <1>2
<1> QED
  BY <1>3, <1>4, <1>5, <1>6 DEF Adds

\* The same function adds up each part.
LEMMA SumOfParts ==
  ASSUME NEW S, IsFiniteSet(S), NEW w, Numbers(w, S)
  PROVE  \E f : Totals(f, w, S)
<1>0. PICK f \in [SUBSET S -> Int] : SumFunctionOnSet(w, S) = f[S] /\ Adds(f, w, S)
  BY SumIs
<1>1. \A s \in SUBSET S : f[s] = IF s = {} THEN 0 ELSE w[First(s)] + f[s \ {First(s)}]
  BY <1>0 DEF Adds
<1>2. ASSUME NEW s \in SUBSET S PROVE SumFunctionOnSet(w, s) = f[s]
  <2>1. IsFiniteSet(s) /\ Numbers(w, s)
    BY FS_Subset DEF Numbers
  <2>0. PICK g \in [SUBSET s -> Int] : SumFunctionOnSet(w, s) = g[s] /\ Adds(g, w, s)
    BY <2>1, SumIs
  <2>2. /\ SumFunctionOnSet(w, s) = g[s]
        /\ \A t \in SUBSET s : g[t] = IF t = {} THEN 0 ELSE w[First(t)] + g[t \ {First(t)}]
    BY <2>0 DEF Adds
  <2> DEFINE B == {t \in SUBSET s : f[t] # g[t]}
  <2>3. B = {}
    <3>1. SUFFICES ASSUME B # {} PROVE FALSE
      OBVIOUS
    <3>2. B \subseteq SUBSET s
      OBVIOUS
    <3>3. PICK t \in B : \A x \in t : t \ {x} \notin B
      <4> HIDE DEF B
      <4> QED
        BY <2>1, <3>1, <3>2, SmallestSet
    <3>4. t # {}
      <4>1. f[{}] = 0 /\ g[{}] = 0
        BY <1>1, <2>2
      <4> QED
        BY <4>1
    <3>5. First(t) \in t /\ f[t \ {First(t)}] = g[t \ {First(t)}]
      BY <3>3, <3>4 DEF First
    <3> QED
      BY <1>1, <2>2, <3>4, <3>5
  <2> QED
    BY <2>2, <2>3
<1>3. f[{}] = 0
  BY <1>1
<1>4. ASSUME NEW s \in SUBSET S, s # {} PROVE First(s) \in s /\ f[s] = w[First(s)] + f[s \ {First(s)}]
  <2>1. First(s) \in s
    BY <1>4 DEF First
  <2> QED
    BY <1>1, <1>4, <2>1
<1> QED
  BY <1>2, <1>3, <1>4 DEF Totals

\* A sum is a number, of nothing 0, and any element may be taken out first.
LEMMA SumTakes ==
  ASSUME NEW S, IsFiniteSet(S), NEW w, Numbers(w, S)
  PROVE  /\ SumFunctionOnSet(w, S) \in Int /\ SumFunctionOnSet(w, {}) = 0
         /\ \A x \in S : SumFunctionOnSet(w, S) = w[x] + SumFunctionOnSet(w, S \ {x})
<1>0. PICK f : Totals(f, w, S)
  BY SumOfParts
<1>1. /\ f \in [SUBSET S -> Int] /\ f[{}] = 0
      /\ \A s \in SUBSET S : SumFunctionOnSet(w, s) = f[s]
      /\ \A s \in SUBSET S : s # {} => First(s) \in s /\ f[s] = w[First(s)] + f[s \ {First(s)}]
  BY <1>0 DEF Totals
<1> DEFINE B == {s \in SUBSET S : ~\A x \in s : f[s] = w[x] + f[s \ {x}]}
<1>2. B = {}
  <2>1. SUFFICES ASSUME B # {} PROVE FALSE
    OBVIOUS
  <2>2. B \subseteq SUBSET S
    OBVIOUS
  <2>3. PICK s \in B : \A x \in s : s \ {x} \notin B
    <3> HIDE DEF B
    <3> QED
      BY <2>1, <2>2, SmallestSet
  <2>4. PICK x \in s : f[s] # w[x] + f[s \ {x}]
    OBVIOUS
  <2>5. PICK y : y = First(s)
    OBVIOUS
  <2>6. y \in s /\ f[s] = w[y] + f[s \ {y}]
    BY <1>1, <2>4, <2>5
  <2>7. y # x
    BY <2>4, <2>6
  <2> DEFINE rest == (s \ {x}) \ {y}
  <2>8. f[s \ {x}] = w[y] + f[rest]
    BY <2>3, <2>6, <2>7
  <2>9. f[s \ {y}] = w[x] + f[rest]
    <3>1. f[s \ {y}] = w[x] + f[(s \ {y}) \ {x}]
      BY <2>3, <2>6, <2>7
    <3>2. (s \ {y}) \ {x} = rest
      OBVIOUS
    <3> QED
      BY <3>1, <3>2
  <2>10. w[x] \in Int /\ w[y] \in Int /\ f[rest] \in Int
    BY <1>1, <2>6 DEF Numbers
  <2> HIDE DEF rest
  <2> QED
    BY <2>4, <2>6, <2>8, <2>9, <2>10
<1>3. \A x \in S : f[S] = w[x] + f[S \ {x}]
  BY <1>2
<1>4. {} \in SUBSET S /\ S \in SUBSET S /\ \A x \in S : S \ {x} \in SUBSET S
  OBVIOUS
<1> QED
  BY <1>1, <1>3, <1>4

\* What is the same has the same sum.
LEMMA SumSame ==
  ASSUME NEW S, IsFiniteSet(S), NEW w, NEW v, Numbers(w, S), \A x \in S : v[x] = w[x]
  PROVE  SumFunctionOnSet(v, S) = SumFunctionOnSet(w, S)
<1> DEFINE B == {s \in SUBSET S : SumFunctionOnSet(v, s) # SumFunctionOnSet(w, s)}
<1>1. ASSUME B # {} PROVE FALSE
  <2>2. B \subseteq SUBSET S
    OBVIOUS
  <2>3. PICK s \in B : \A x \in s : s \ {x} \notin B
    <3> HIDE DEF B
    <3> QED
      BY <1>1, <2>2, SmallestSet
  <2>4. IsFiniteSet(s) /\ Numbers(w, s) /\ Numbers(v, s)
    BY FS_Subset DEF Numbers
  <2>5. s # {}
    BY <2>4, SumTakes
  <2>6. PICK x \in s : TRUE
    BY <2>5
  <2>7. SumFunctionOnSet(v, s \ {x}) = SumFunctionOnSet(w, s \ {x})
    BY <2>3
  <2> QED
    BY <2>4, <2>7, SumTakes
<1> QED
  BY <1>1

\* If one term changes, so does the sum.
LEMMA SumChanges ==
  ASSUME NEW S, IsFiniteSet(S), NEW w, NEW v, Numbers(w, S), Numbers(v, S),
         NEW y \in S, \A x \in S \ {y} : v[x] = w[x]
  PROVE  SumFunctionOnSet(v, S) = SumFunctionOnSet(w, S) - w[y] + v[y]
<1>1. IsFiniteSet(S \ {y}) /\ Numbers(w, S \ {y})
  BY FS_Subset DEF Numbers
<1>2. SumFunctionOnSet(v, S \ {y}) = SumFunctionOnSet(w, S \ {y}) /\ SumFunctionOnSet(w, S \ {y}) \in Int
  BY <1>1, SumSame, SumTakes
<1>3. SumFunctionOnSet(v, S) = v[y] + SumFunctionOnSet(v, S \ {y}) /\ SumFunctionOnSet(w, S) = w[y] + SumFunctionOnSet(w, S \ {y})
  BY SumTakes
<1> QED
  BY <1>2, <1>3 DEF Numbers

-----------------------------------------------------------------------------
(* What a number of slots contain *)

StackOrEmpty == Stack \cup {Empty}
Slots == [Slot -> StackOrEmpty]

\* Of a stack: what it is, how many, and how many of item i.
LEMMA Stacks ==
  ASSUME NEW st \in StackOrEmpty, NEW i \in Item
  PROVE  /\ st.count \in Nat /\ Count(st, i) \in Nat
         /\ st = [id |-> st.id, count |-> st.count]
         /\ st = Empty \/ (st.id \in Item /\ st.count \in 1..MaxStack[st.id] /\ st \in Stack)
         /\ st = Empty => st.id = None /\ st.count = 0 /\ Count(st, i) = 0
         /\ st.id = i => Count(st, i) = st.count /\ st # Empty
         /\ st.id # i => Count(st, i) = 0
         /\ MaxStack[i] \in Nat \ {0}
<1>1. MaxStack[i] \in Nat \ {0} /\ i # None
  BY ItemsAssumption
<1>2. CASE st = Empty
  BY <1>1, <1>2 DEF Empty, Count
<1>3. CASE st # Empty
  <2>1. st \in [id : Item, count : Nat] /\ st.count \in 1..MaxStack[st.id]
    BY <1>3 DEF StackOrEmpty, Stack
  <2>2. st = [id |-> st.id, count |-> st.count] /\ st.id \in Item /\ st.count \in Nat
    BY <2>1
  <2>3. st \in Stack
    BY <1>3 DEF StackOrEmpty
  <2> QED
    BY <1>1, <1>3, <2>1, <2>2, <2>3 DEF Count
<1> QED
  BY <1>2, <1>3

\* So many of item i are a stack.
LEMMA SoMany ==
  ASSUME NEW i \in Item, NEW n \in Nat, n <= MaxStack[i]
  PROVE  /\ Of(i, n) \in StackOrEmpty
         /\ Of(i, n).count = n
         /\ n > 0 => Of(i, n) \in Stack /\ Of(i, n).id = i /\ Of(i, n) # Empty
         /\ n = 0 => Of(i, n) = Empty
         /\ \A j \in Item : Count(Of(i, n), j) = IF j = i THEN n ELSE 0
<1>1. i # None /\ \A j \in Item : j # None
  BY ItemsAssumption
<1>2. CASE n = 0
  BY <1>1, <1>2 DEF Of, StackOrEmpty, Empty, Count
<1>3. CASE n # 0
  <2>1. Of(i, n) = [id |-> i, count |-> n]
    BY <1>3 DEF Of
  <2>2. n \in 1..MaxStack[i]
    BY <1>3
  <2>3. Of(i, n) \in Stack
    BY <2>1, <2>2 DEF Stack
  <2> QED
    BY <1>1, <1>3, <2>1, <2>3 DEF StackOrEmpty, Empty, Count
<1> QED
  BY <1>2, <1>3

LEMMA FiniteSlots == IsFiniteSet(Slot) /\ FillOrder \in [1..Len(FillOrder) -> Slot] /\ Len(FillOrder) \in Nat
<1>1. FillOrder \in Seq(Slot)
  BY ItemsAssumption
<1>2. Len(FillOrder) \in Nat /\ FillOrder \in [1..Len(FillOrder) -> Slot]
  BY <1>1
<1> DEFINE n == Len(FillOrder)
<1>3. IsFiniteSet(1..n)
  BY <1>2, FS_Interval
<1>4. FillOrder \in Surjection(1..n, Slot)
  BY <1>2 DEF Surjection, Slot, Range
<1>5. IsFiniteSet(Slot)
  <2> HIDE DEF n
  <2> QED
    BY <1>3, <1>4, FS_Surjection
<1> QED
  BY <1>2, <1>5

\* The slots with how many of item i are in each.
Counts(slots, i) == [s \in Slot |-> Count(slots[s], i)]

LEMMA ContainedSums ==
  ASSUME NEW slots \in Slots, NEW i \in Item
  PROVE  /\ Contained(slots, i) = SumFunctionOnSet(Counts(slots, i), Slot)
         /\ Numbers(Counts(slots, i), Slot)
         /\ \A s \in Slot : Counts(slots, i)[s] = Count(slots[s], i) /\ Count(slots[s], i) \in Nat
<1>1. \A s \in Slot : slots[s] \in StackOrEmpty
  BY DEF Slots
<1>2. \A s \in Slot : Counts(slots, i)[s] = Count(slots[s], i) /\ Count(slots[s], i) \in Nat
  BY <1>1, Stacks DEF Counts
<1>3. DOMAIN Counts(slots, i) = Slot
  BY DEF Counts
<1>4. Contained(slots, i) = SumFunctionOnSet(Counts(slots, i), Slot)
  BY <1>3 DEF Contained, Counts, SumFunction
<1> QED
  BY <1>2, <1>4 DEF Numbers

\* Numbers that are not negative have a sum that is not.
LEMMA SumNatural ==
  ASSUME NEW S, IsFiniteSet(S), NEW w, \A x \in S : w[x] \in Nat
  PROVE  /\ SumFunctionOnSet(w, S) \in Nat
         /\ \A x \in S : w[x] <= SumFunctionOnSet(w, S)
         /\ (\A x \in S : w[x] = 0) => SumFunctionOnSet(w, S) = 0
<1>0. \A s \in SUBSET S : IsFiniteSet(s) /\ Numbers(w, s)
  BY FS_Subset DEF Numbers
<1> DEFINE B == {s \in SUBSET S : SumFunctionOnSet(w, s) \notin Nat}
           Z == {s \in SUBSET S : (\A x \in s : w[x] = 0) /\ SumFunctionOnSet(w, s) # 0}
<1>1. ASSUME B # {} PROVE FALSE
  <2>1. B \subseteq SUBSET S
    OBVIOUS
  <2>2. PICK s \in B : \A x \in s : s \ {x} \notin B
    <3> HIDE DEF B
    <3> QED
      BY <1>1, <2>1, SmallestSet
  <2>3. s # {}
    BY <1>0, SumTakes
  <2>4. PICK x \in s : TRUE
    BY <2>3
  <2>5. SumFunctionOnSet(w, s) = w[x] + SumFunctionOnSet(w, s \ {x}) /\ SumFunctionOnSet(w, s \ {x}) \in Nat
    BY <1>0, <2>2, <2>4, SumTakes
  <2> QED
    BY <2>2, <2>4, <2>5
<1>2. ASSUME Z # {} PROVE FALSE
  <2>1. Z \subseteq SUBSET S
    OBVIOUS
  <2>2. PICK s \in Z : \A x \in s : s \ {x} \notin Z
    <3> HIDE DEF Z
    <3> QED
      BY <1>2, <2>1, SmallestSet
  <2>3. s # {}
    BY <1>0, SumTakes
  <2>4. PICK x \in s : TRUE
    BY <2>3
  <2>5. SumFunctionOnSet(w, s) = w[x] + SumFunctionOnSet(w, s \ {x}) /\ SumFunctionOnSet(w, s \ {x}) = 0
    BY <1>0, <2>2, <2>4, SumTakes
  <2> QED
    BY <2>2, <2>4, <2>5
<1>3. ASSUME NEW x \in S PROVE w[x] <= SumFunctionOnSet(w, S)
  <2>1. SumFunctionOnSet(w, S) = w[x] + SumFunctionOnSet(w, S \ {x})
    BY <1>0, SumTakes
  <2>2. SumFunctionOnSet(w, S \ {x}) \in Nat
    BY <1>1
  <2> QED
    BY <2>1, <2>2
<1> QED
  BY <1>1, <1>2, <1>3

LEMMA ContainedNatural ==
  ASSUME NEW slots \in Slots, NEW i \in Item
  PROVE  /\ Contained(slots, i) \in Nat
         /\ \A s \in Slot : Count(slots[s], i) <= Contained(slots, i)
         /\ (\A s \in Slot : Count(slots[s], i) = 0) => Contained(slots, i) = 0
<1> DEFINE w == Counts(slots, i)
<1>1. /\ Contained(slots, i) = SumFunctionOnSet(w, Slot)
      /\ \A s \in Slot : w[s] = Count(slots[s], i) /\ w[s] \in Nat
  BY ContainedSums
<1> HIDE DEF w
<1>2. /\ SumFunctionOnSet(w, Slot) \in Nat
      /\ \A s \in Slot : w[s] <= SumFunctionOnSet(w, Slot)
      /\ (\A s \in Slot : w[s] = 0) => SumFunctionOnSet(w, Slot) = 0
  BY <1>1, SumNatural, FiniteSlots
<1> QED
  BY <1>1, <1>2

\* One slot changes.
LEMMA SlotChanges ==
  ASSUME NEW slots \in Slots, NEW t \in Slot, NEW new \in StackOrEmpty
  PROVE  /\ [slots EXCEPT ![t] = new] \in Slots
         /\ \A i \in Item : Contained([slots EXCEPT ![t] = new], i)
                              = Contained(slots, i) - Count(slots[t], i) + Count(new, i)
<1>1. [slots EXCEPT ![t] = new] \in Slots
  BY DEF Slots
<1>2. PICK changed \in Slots : changed = [slots EXCEPT ![t] = new]
  BY <1>1
<1>3. ASSUME NEW i \in Item
      PROVE  Contained(changed, i) = Contained(slots, i) - Count(slots[t], i) + Count(new, i)
  <2> DEFINE w == Counts(slots, i)
             v == Counts(changed, i)
  <2>1. /\ Contained(slots, i) = SumFunctionOnSet(w, Slot) /\ Numbers(w, Slot)
        /\ Contained(changed, i) = SumFunctionOnSet(v, Slot) /\ Numbers(v, Slot)
        /\ \A s \in Slot : w[s] = Count(slots[s], i) /\ v[s] = Count(changed[s], i)
    BY ContainedSums
  <2>2. changed[t] = new /\ \A s \in Slot \ {t} : changed[s] = slots[s]
    BY <1>2 DEF Slots
  <2> HIDE DEF w, v
  <2>3. \A s \in Slot \ {t} : v[s] = w[s]
    BY <2>1, <2>2
  <2>4. SumFunctionOnSet(v, Slot) = SumFunctionOnSet(w, Slot) - w[t] + v[t]
    BY <2>1, <2>3, SumChanges, FiniteSlots
  <2> QED
    BY <2>1, <2>2, <2>4
<1> QED
  BY <1>1, <1>2, <1>3

-----------------------------------------------------------------------------
(* Adding to the slots and taking from them *)

LEMMA LeastOfTwo ==
  ASSUME NEW m \in Int, NEW n \in Int
  PROVE  Min({m, n}) = IF m <= n THEN m ELSE n
<1>1. PICK l \in {m, n} : \A k \in {m, n} : l <= k
  <2>1. CASE m <= n
    BY <2>1
  <2>2. CASE ~(m <= n)
    BY <2>2
  <2> QED
    BY <2>1, <2>2
<1>2. Min({m, n}) \in {m, n} /\ \A k \in {m, n} : Min({m, n}) <= k
  BY <1>1 DEF Min
<1> QED
  BY <1>2

LEMMA LargestNumber ==
  ASSUME NEW n \in Nat, NEW s \in SUBSET (1..n), s # {}
  PROVE  Max(s) \in s
<1> DEFINE T == {n - x : x \in s}
<1>1. T \subseteq Nat /\ T # {}
  <2>1. \A x \in s : n - x \in Nat
    OBVIOUS
  <2> QED
    BY <2>1
<1>2. PICK m \in T : \A k \in T : m <= k
  <2> HIDE DEF T
  <2> QED
    BY <1>1, LeastNumber
<1>3. PICK x \in s : m = n - x
  OBVIOUS
<1>4. \A y \in s : n - y \in T
  OBVIOUS
<1>5. \A y \in s : x >= y
  <2> HIDE DEF T
  <2> QED
    BY <1>2, <1>3, <1>4
<1> QED
  BY <1>5 DEF Max

Folded == [slots : Slots, left : Nat]

\* A slot holds what it did, and perhaps more of it, or was empty.
Grown(old, new) == old = Empty \/ (new.id = old.id /\ new.count >= old.count)

\* Of item i so many fewer are left as there are more in the slots, and of other items
\* there are as many as before.
Puts(a, b, i) ==
  /\ b.left <= a.left
  /\ Contained(b.slots, i) + b.left = Contained(a.slots, i) + a.left
  /\ \A j \in Item \ {i} : Contained(b.slots, j) = Contained(a.slots, j)
  /\ \A s \in Slot : Grown(a.slots[s], b.slots[s])

\* The same for taking them out.
Takes(a, b, i) ==
  /\ b.left <= a.left
  /\ Contained(b.slots, i) - b.left = Contained(a.slots, i) - a.left
  /\ \A j \in Item \ {i} : Contained(b.slots, j) = Contained(a.slots, j)

LEMMA PutsMore ==
  ASSUME NEW i \in Item, NEW a \in Folded, NEW b \in Folded, NEW c \in Folded, Puts(a, b, i), Puts(b, c, i)
  PROVE  Puts(a, c, i)
<1>1. \A d \in Folded : d.left \in Nat /\ d.slots \in Slots /\ \A j \in Item : Contained(d.slots, j) \in Nat
  BY ContainedNatural DEF Folded
<1>2. ASSUME NEW s \in Slot PROVE Grown(a.slots[s], c.slots[s])
  <2>1. a.slots[s] \in StackOrEmpty /\ b.slots[s] \in StackOrEmpty /\ c.slots[s] \in StackOrEmpty
    BY <1>1 DEF Slots
  <2>2. Grown(a.slots[s], b.slots[s]) /\ Grown(b.slots[s], c.slots[s])
    BY DEF Puts
  <2> QED
    BY <2>1, <2>2, Stacks DEF Grown
<1> QED
  BY <1>1, <1>2 DEF Puts

LEMMA PutsNothing ==
  ASSUME NEW i \in Item, NEW a \in Folded
  PROVE  Puts(a, a, i) /\ Takes(a, a, i)
<1>1. a.left \in Nat /\ a.slots \in Slots /\ \A j \in Item : Contained(a.slots, j) \in Nat
  BY ContainedNatural DEF Folded
<1>2. ASSUME NEW s \in Slot PROVE Grown(a.slots[s], a.slots[s])
  <2>1. a.slots[s] \in StackOrEmpty
    BY <1>1 DEF Slots
  <2> QED
    BY <2>1, Stacks DEF Grown
<1> QED
  BY <1>1, <1>2 DEF Puts, Takes

\* One slot is filled up with what is left.
LEMMA IntoDoes ==
  ASSUME NEW i \in Item, NEW a \in Folded, NEW s \in Slot, a.slots[s].id = i \/ a.slots[s] = Empty
  PROVE  Into(a, s, i) \in Folded /\ Puts(a, Into(a, s, i), i)
<1>1. /\ a.left \in Nat /\ a.slots \in Slots /\ a.slots[s] \in StackOrEmpty
      /\ a = [slots |-> a.slots, left |-> a.left]
  BY DEF Folded, Slots
<1> DEFINE old == a.slots[s]
           moved == Min({MaxStack[i] - old.count, a.left})
<1>2. old.count \in Nat /\ MaxStack[i] \in Nat /\ old.count <= MaxStack[i] /\ Count(old, i) = old.count
  BY <1>1, Stacks
<1>3. moved \in Nat /\ moved <= a.left /\ old.count + moved <= MaxStack[i]
  <2>1. MaxStack[i] - old.count \in Int /\ a.left \in Int
    BY <1>1, <1>2
  <2>2. moved = IF MaxStack[i] - old.count <= a.left THEN MaxStack[i] - old.count ELSE a.left
    BY <2>1, LeastOfTwo
  <2> HIDE DEF moved, old
  <2> QED
    BY <1>1, <1>2, <2>2
<1> DEFINE b == Into(a, s, i)
<1>4. CASE moved = 0
  <2>1. b = [slots |-> a.slots, left |-> a.left]
    <3>1. [a.slots EXCEPT ![s] = old] = a.slots
      BY <1>1 DEF Slots
    <3>2. a.left - 0 = a.left
      BY <1>1
    <3> QED
      BY <1>4, <3>1, <3>2 DEF Into
  <2> QED
    BY <1>1, <2>1, PutsNothing
<1>5. CASE moved # 0
  <2> DEFINE new == Of(i, old.count + moved)
  <2>1. b = [slots |-> [a.slots EXCEPT ![s] = new], left |-> a.left - moved]
    BY <1>5 DEF Into
  <2> HIDE DEF moved, old, b
  <2>2. /\ new \in StackOrEmpty /\ new.count = old.count + moved /\ new.id = i
        /\ \A j \in Item : Count(new, j) = IF j = i THEN old.count + moved ELSE 0
    <3>1. old.count + moved \in Nat /\ old.count + moved > 0
      BY <1>2, <1>3, <1>5
    <3>2. Of(i, old.count + moved) = new
      OBVIOUS
    <3> QED
      BY <1>3, <3>1, SoMany
  <2> HIDE DEF new
  <2> DEFINE slots == [a.slots EXCEPT ![s] = new]
  <2>3. /\ slots \in Slots
        /\ \A j \in Item : Contained(slots, j) = Contained(a.slots, j) - Count(old, j) + Count(new, j)
    BY <1>1, <2>2, SlotChanges DEF old
  <2>4. slots[s] = new /\ \A t \in Slot \ {s} : slots[t] = a.slots[t]
    BY <1>1 DEF Slots
  <2> HIDE DEF slots
  <2>5. b.slots = slots /\ b.left = a.left - moved /\ b \in Folded
    BY <1>1, <1>3, <2>1, <2>3 DEF Folded, slots
  <2>6. ASSUME NEW t \in Slot PROVE Grown(a.slots[t], slots[t])
    <3>1. CASE t = s
      BY <1>2, <1>3, <2>2, <2>4, <3>1 DEF Grown, old
    <3>2. CASE t # s
      <4>1. a.slots[t] \in StackOrEmpty
        BY <1>1 DEF Slots
      <4> QED
        BY <2>4, <3>2, <4>1, Stacks DEF Grown
    <3> QED
      BY <3>1, <3>2
  <2>7. ASSUME NEW j \in Item \ {i} PROVE Contained(slots, j) = Contained(a.slots, j)
    <3>1. Count(old, j) = 0 /\ Contained(a.slots, j) \in Nat /\ Count(new, j) = 0
      BY <1>1, <2>2, Stacks, ContainedNatural DEF old
    <3> QED
      BY <2>3, <3>1
  <2>8. Contained(slots, i) + (a.left - moved) = Contained(a.slots, i) + a.left
    <3>1. Contained(a.slots, i) \in Nat /\ Count(new, i) = old.count + moved
      BY <1>1, <2>2, ContainedNatural
    <3> QED
      BY <1>1, <1>2, <1>3, <2>3, <3>1
  <2>9. Puts(a, b, i)
    BY <1>1, <1>3, <2>5, <2>6, <2>7, <2>8 DEF Puts
  <2> QED
    BY <2>5, <2>9 DEF b
<1> QED
  BY <1>4, <1>5

LEMMA TopUpDoes ==
  ASSUME NEW i \in Item, NEW a \in Folded, NEW s \in Slot
  PROVE  /\ TopUp(a, s, i) \in Folded /\ Puts(a, TopUp(a, s, i), i)
         /\ Fill(a, s, i) \in Folded /\ Puts(a, Fill(a, s, i), i)
  BY IntoDoes, PutsNothing DEF TopUp, Fill

\* What is left to take is taken from one slot as far as it goes.
LEMMA TakeDoes ==
  ASSUME NEW i \in Item, NEW a \in Folded, NEW s \in Slot
  PROVE  /\ Take(a, s, i) \in Folded /\ Takes(a, Take(a, s, i), i)
         /\ \A t \in Slot : a.slots[t].id # i => Take(a, s, i).slots[t].id # i
         /\ Take(a, s, i).left > 0 => Take(a, s, i).slots[s].id # i
<1>1. /\ a.left \in Nat /\ a.slots \in Slots /\ a.slots[s] \in StackOrEmpty
      /\ a = [slots |-> a.slots, left |-> a.left]
  BY DEF Folded, Slots
<1> DEFINE old == a.slots[s]
           taken == IF old.id = i THEN Min({old.count, a.left}) ELSE 0
           b == Take(a, s, i)
<1>2. old.count \in Nat /\ MaxStack[i] \in Nat /\ (old.id = i => old.count <= MaxStack[i] /\ Count(old, i) = old.count)
  BY <1>1, Stacks
<1>3. /\ taken \in Nat /\ taken <= a.left /\ (taken # 0 => old.id = i /\ taken <= old.count)
      /\ old.id = i => taken = a.left \/ taken = old.count
  <2>1. old.count \in Int /\ a.left \in Int
    BY <1>1, <1>2
  <2>2. Min({old.count, a.left}) = IF old.count <= a.left THEN old.count ELSE a.left
    BY <2>1, LeastOfTwo
  <2>3. taken = IF old.id = i THEN (IF old.count <= a.left THEN old.count ELSE a.left) ELSE 0
    BY <2>2
  <2> HIDE DEF taken, old
  <2> QED
    BY <1>1, <1>2, <2>3
<1>4. CASE taken = 0
  <2>1. b = [slots |-> a.slots, left |-> a.left]
    <3>1. [a.slots EXCEPT ![s] = old] = a.slots
      BY <1>1 DEF Slots
    <3>2. a.left - 0 = a.left
      BY <1>1
    <3> QED
      BY <1>4, <3>1, <3>2 DEF Take
  <2>2. b = a
    BY <1>1, <2>1
  <2>3. old.id = i => old.count > 0
    BY <1>1, Stacks
  <2>4. old.id = i => a.left = 0
    <3> HIDE DEF taken
    <3> QED
      BY <1>1, <1>2, <1>3, <1>4, <2>3
  <2> HIDE DEF b, taken
  <2> QED
    BY <1>1, <2>2, <2>4, PutsNothing DEF b
<1>5. CASE taken # 0
  <2> DEFINE new == Of(i, old.count - taken)
  <2>0. old.id = i
    BY <1>5
  <2>1. b = [slots |-> [a.slots EXCEPT ![s] = new], left |-> a.left - taken]
    BY <1>5, <2>0 DEF Take
  <2> HIDE DEF taken, old, b
  <2>2. /\ new \in StackOrEmpty
        /\ old.count - taken = 0 => new.id # i
        /\ \A j \in Item : Count(new, j) = IF j = i THEN old.count - taken ELSE 0
    <3>1. old.count - taken \in Nat /\ old.count - taken <= MaxStack[i]
      BY <1>2, <1>3, <1>5
    <3>2. Empty.id # i
      BY ItemsAssumption DEF Empty
    <3> QED
      BY <3>1, <3>2, SoMany
  <2> HIDE DEF new
  <2> DEFINE slots == [a.slots EXCEPT ![s] = new]
  <2>3. /\ slots \in Slots
        /\ \A j \in Item : Contained(slots, j) = Contained(a.slots, j) - Count(old, j) + Count(new, j)
    BY <1>1, <2>2, SlotChanges DEF old
  <2>4. slots[s] = new /\ \A t \in Slot \ {s} : slots[t] = a.slots[t]
    BY <1>1 DEF Slots
  <2> HIDE DEF slots
  <2>5. b.slots = slots /\ b.left = a.left - taken /\ b \in Folded
    BY <1>1, <1>3, <2>1, <2>3 DEF Folded, slots
  <2>6. \A t \in Slot : a.slots[t].id # i => slots[t].id # i
    BY <2>0, <2>4 DEF old
  <2>7. ASSUME NEW j \in Item \ {i} PROVE Contained(slots, j) = Contained(a.slots, j)
    <3>1. Count(old, j) = 0 /\ Contained(a.slots, j) \in Nat /\ Count(new, j) = 0
      BY <1>1, <2>0, <2>2, Stacks, ContainedNatural DEF old
    <3> QED
      BY <2>3, <3>1
  <2>8. Contained(slots, i) - (a.left - taken) = Contained(a.slots, i) - a.left
    <3>1. Contained(a.slots, i) \in Nat /\ Count(new, i) = old.count - taken
      BY <1>1, <2>2, ContainedNatural
    <3> QED
      BY <1>1, <1>2, <1>3, <2>0, <2>3, <3>1
  <2>9. Takes(a, b, i)
    BY <1>1, <1>3, <2>5, <2>7, <2>8 DEF Takes
  <2>10. b.left > 0 => slots[s].id # i
    BY <1>1, <1>2, <1>3, <2>0, <2>2, <2>4, <2>5
  <2> QED
    BY <2>5, <2>6, <2>9, <2>10 DEF b
<1> QED
  BY <1>4, <1>5

\* What goes from each part of a set to the next goes from the empty set to all of it.
Carries(P, D, c, o) ==
  \A s \in SUBSET D : s # {} => \A a : <<s \ {c[s]}, a>> \in P => <<s, o[<<a, c[s]>>]>> \in P

LEMMA FoldKeeps ==
  ASSUME NEW D, IsFiniteSet(D), NEW c, Chooses(c, D), NEW base, NEW o, NEW f, Folds(f, D, c, base, o),
         NEW P, <<{}, base>> \in P, Carries(P, D, c, o)
  PROVE  <<D, f[D]>> \in P
<1> DEFINE B == {s \in SUBSET D : <<s, f[s]>> \notin P}
<1>1. ASSUME B # {} PROVE FALSE
  <2>1. B \subseteq SUBSET D
    OBVIOUS
  <2>2. PICK s \in B : \A x \in s : s \ {x} \notin B
    <3> HIDE DEF B
    <3> QED
      BY <1>1, <2>1, SmallestSet
  <2>3. s # {}
    BY DEF Folds
  <2>4. c[s] \in s /\ f[s] = o[<<f[s \ {c[s]}], c[s]>>]
    BY <2>3 DEF Folds, Chooses
  <2>5. <<s \ {c[s]}, f[s \ {c[s]}]>> \in P
    BY <2>2, <2>4
  <2>6. <<s, o[<<f[s \ {c[s]}], c[s]>>]>> \in P
    BY <2>3, <2>5 DEF Carries
  <2> QED
    BY <2>4, <2>6
<1> QED
  BY <1>1

\* Two folds of the same are the same.
Repeats(f, g, D, c, o) ==
  \A s \in SUBSET D : s # {} /\ f[s \ {c[s]}] = g[s \ {c[s]}] => g[s] = o[<<f[s \ {c[s]}], c[s]>>]
SameParts(f, g, D) == \A s \in SUBSET D : g[s] = f[s]

LEMMA FoldOnce ==
  ASSUME NEW D, IsFiniteSet(D), NEW c, Chooses(c, D), NEW base, NEW o, NEW f, NEW g,
         Folds(f, D, c, base, o), g[{}] = base,
         Repeats(f, g, D, c, o)
  PROVE  SameParts(f, g, D)
<1> DEFINE B == {s \in SUBSET D : g[s] # f[s]}
<1>1. ASSUME B # {} PROVE FALSE
  <2>1. B \subseteq SUBSET D
    OBVIOUS
  <2>2. PICK s \in B : \A x \in s : s \ {x} \notin B
    <3> HIDE DEF B
    <3> QED
      BY <1>1, <2>1, SmallestSet
  <2>3. s # {}
    BY DEF Folds
  <2>4. c[s] \in s /\ f[s] = o[<<f[s \ {c[s]}], c[s]>>]
    BY <2>3 DEF Folds, Chooses
  <2>5. f[s \ {c[s]}] = g[s \ {c[s]}]
    BY <2>2, <2>4
  <2> QED
    BY <2>2, <2>3, <2>4, <2>5 DEF Repeats
<1> QED
  BY <1>1 DEF SameParts

\* The places of a sequence, the last one first.
FromLast(n) == [s \in SUBSET (1..n) |-> Max(s)]

LEMMA LastChooses ==
  ASSUME NEW n \in Nat
  PROVE  Chooses(FromLast(n), 1..n) /\ \A s \in SUBSET (1..n) : FromLast(n)[s] = Max(s)
  BY LargestNumber DEF FromLast, Chooses


\* The three steps as functions, over n places of a sequence.
TopUpStep(i, n) == [ax \in Folded \X (1..n) |-> TopUp(ax[1], FillOrder[ax[2]], i)]
FillStep(i, n) == [ax \in Folded \X (1..n) |-> Fill(ax[1], FillOrder[ax[2]], i)]
TakeStep(i, n) == [ax \in Folded \X (1..n) |-> Take(ax[1], WindowOrder[ax[2]], i)]

\* What comes of going over n places with o.
IsFold(result, base, n, o) ==
  \E f \in [SUBSET (1..n) -> Folded] : Folds(f, 1..n, FromLast(n), base, o) /\ result = f[1..n]

\* The first half of Add is a fold,
LEMMA TopUpFold ==
  ASSUME NEW i \in Item, NEW base \in Folded,
         NEW n \in Nat, n = Len(FillOrder), FillOrder \in [1..n -> Slot]
  PROVE  IsFold(ToppedUp(base, i), base, n, TopUpStep(i, n))
<1> DEFINE o == TopUpStep(i, n)
           D == 1..n
           c == FromLast(n)
           Next1(f, s) == TopUp(f[s \ {Max(s)}], FillOrder[Max(s)], i)
           P(f) == f = [s \in SUBSET D |-> IF s = {} THEN base ELSE Next1(f, s)]
<1>1. IsFiniteSet(D) /\ Chooses(c, D) /\ \A s \in SUBSET D : c[s] = Max(s)
  <2>1. IsFiniteSet(1..n)
    BY FS_Interval
  <2>2. Chooses(FromLast(n), 1..n) /\ \A s \in SUBSET (1..n) : FromLast(n)[s] = Max(s)
    BY LastChooses
  <2> QED
    BY <2>1, <2>2
<1>2. ASSUME NEW a \in Folded, NEW k \in D
      PROVE  o[<<a, k>>] = TopUp(a, FillOrder[k], i) /\ o[<<a, k>>] \in Folded
  <2>1. TopUp(a, FillOrder[k], i) \in Folded
    BY TopUpDoes
  <2> QED
    BY <2>1 DEF TopUpStep
<1>3. PICK f \in [SUBSET D -> Folded] : Folds(f, D, c, base, o)
  <2>1. Closed(o, Folded, D)
    BY <1>2 DEF Closed
  <2> HIDE DEF D, c
  <2> QED
    BY <1>1, <2>1, FoldExists
<1>4. ASSUME NEW s \in SUBSET D, s # {}
      PROVE  c[s] = Max(s) /\ Max(s) \in D /\ s \ {c[s]} \in SUBSET D
  BY <1>1, <1>4 DEF Chooses
<1>5. P(f)
  <2>1. ASSUME NEW s \in SUBSET D, s # {} PROVE f[s] = Next1(f, s)
    <3>1. f[s] = o[<<f[s \ {c[s]}], c[s]>>]
      BY <1>3, <2>1 DEF Folds
    <3>2. f[s \ {c[s]}] \in Folded
      BY <1>4, <2>1
    <3> HIDE DEF c, D, Next1
    <3>3. c[s] \in D /\ c[s] = Max(s)
      BY <1>4, <2>1
    <3>4. f[s] = TopUp(f[s \ {c[s]}], FillOrder[c[s]], i)
      BY <1>2, <3>1, <3>2, <3>3
    <3> QED
      BY <3>3, <3>4 DEF Next1
  <2>2. f[{}] = base
    BY <1>3 DEF Folds
  <2> HIDE DEF Next1
  <2> QED
    BY <2>1, <2>2
<1>6. PICK g : g = (CHOOSE h : P(h)) /\ P(g)
  <2>1. \E h : P(h)
    BY <1>5
  <2> HIDE DEF P
  <2> QED
    BY <2>1
<1>7. ToppedUp(base, i) = g[D]
  <2>1. DOMAIN FillOrder = D
    OBVIOUS
  <2> QED
    BY <1>6, <2>1 DEF ToppedUp, FoldLeft, MapThenFoldSet
<1>8. g[D] = f[D]
  <2>1. g[{}] = base
    BY <1>6
  <2>2. ASSUME NEW s \in SUBSET D, s # {}, f[s \ {c[s]}] = g[s \ {c[s]}]
        PROVE  g[s] = o[<<f[s \ {c[s]}], c[s]>>]
    <3>1. g[s] = Next1(g, s)
      BY <1>6, <2>2
    <3>2. f[s \ {c[s]}] \in Folded
      BY <1>4, <2>2
    <3>3. Next1(g, s) = TopUp(f[s \ {c[s]}], FillOrder[c[s]], i)
      BY <1>4, <2>2
    <3> HIDE DEF c, D, Next1
    <3>4. c[s] \in D
      BY <1>4, <2>2
    <3>5. o[<<f[s \ {c[s]}], c[s]>>] = TopUp(f[s \ {c[s]}], FillOrder[c[s]], i)
      BY <1>2, <3>2, <3>4
    <3> QED
      BY <3>1, <3>3, <3>5
  <2> HIDE DEF c, D
  <2>3. Repeats(f, g, D, c, o)
    BY <2>2 DEF Repeats
  <2>4. SameParts(f, g, D)
    BY <1>1, <1>3, <2>1, <2>3, FoldOnce
  <2> QED
    BY <2>4 DEF SameParts, D
<1> QED
  BY <1>3, <1>7, <1>8 DEF IsFold

\* so is the second half,
LEMMA FillFold ==
  ASSUME NEW i \in Item, NEW base \in Folded,
         NEW n \in Nat, n = Len(FillOrder), FillOrder \in [1..n -> Slot]
  PROVE  IsFold(FilledUp(base, i), base, n, FillStep(i, n))
<1> DEFINE o == FillStep(i, n)
           D == 1..n
           c == FromLast(n)
           Next1(f, s) == Fill(f[s \ {Max(s)}], FillOrder[Max(s)], i)
           P(f) == f = [s \in SUBSET D |-> IF s = {} THEN base ELSE Next1(f, s)]
<1>1. IsFiniteSet(D) /\ Chooses(c, D) /\ \A s \in SUBSET D : c[s] = Max(s)
  <2>1. IsFiniteSet(1..n)
    BY FS_Interval
  <2>2. Chooses(FromLast(n), 1..n) /\ \A s \in SUBSET (1..n) : FromLast(n)[s] = Max(s)
    BY LastChooses
  <2> QED
    BY <2>1, <2>2
<1>2. ASSUME NEW a \in Folded, NEW k \in D
      PROVE  o[<<a, k>>] = Fill(a, FillOrder[k], i) /\ o[<<a, k>>] \in Folded
  <2>1. Fill(a, FillOrder[k], i) \in Folded
    BY TopUpDoes
  <2> QED
    BY <2>1 DEF FillStep
<1>3. PICK f \in [SUBSET D -> Folded] : Folds(f, D, c, base, o)
  <2>1. Closed(o, Folded, D)
    BY <1>2 DEF Closed
  <2> HIDE DEF D, c
  <2> QED
    BY <1>1, <2>1, FoldExists
<1>4. ASSUME NEW s \in SUBSET D, s # {}
      PROVE  c[s] = Max(s) /\ Max(s) \in D /\ s \ {c[s]} \in SUBSET D
  BY <1>1, <1>4 DEF Chooses
<1>5. P(f)
  <2>1. ASSUME NEW s \in SUBSET D, s # {} PROVE f[s] = Next1(f, s)
    <3>1. f[s] = o[<<f[s \ {c[s]}], c[s]>>]
      BY <1>3, <2>1 DEF Folds
    <3>2. f[s \ {c[s]}] \in Folded
      BY <1>4, <2>1
    <3> HIDE DEF c, D, Next1
    <3>3. c[s] \in D /\ c[s] = Max(s)
      BY <1>4, <2>1
    <3>4. f[s] = Fill(f[s \ {c[s]}], FillOrder[c[s]], i)
      BY <1>2, <3>1, <3>2, <3>3
    <3> QED
      BY <3>3, <3>4 DEF Next1
  <2>2. f[{}] = base
    BY <1>3 DEF Folds
  <2> HIDE DEF Next1
  <2> QED
    BY <2>1, <2>2
<1>6. PICK g : g = (CHOOSE h : P(h)) /\ P(g)
  <2>1. \E h : P(h)
    BY <1>5
  <2> HIDE DEF P
  <2> QED
    BY <2>1
<1>7. FilledUp(base, i) = g[D]
  <2>1. DOMAIN FillOrder = D
    OBVIOUS
  <2> QED
    BY <1>6, <2>1 DEF FilledUp, FoldLeft, MapThenFoldSet
<1>8. g[D] = f[D]
  <2>1. g[{}] = base
    BY <1>6
  <2>2. ASSUME NEW s \in SUBSET D, s # {}, f[s \ {c[s]}] = g[s \ {c[s]}]
        PROVE  g[s] = o[<<f[s \ {c[s]}], c[s]>>]
    <3>1. g[s] = Next1(g, s)
      BY <1>6, <2>2
    <3>2. f[s \ {c[s]}] \in Folded
      BY <1>4, <2>2
    <3>3. Next1(g, s) = Fill(f[s \ {c[s]}], FillOrder[c[s]], i)
      BY <1>4, <2>2
    <3> HIDE DEF c, D, Next1
    <3>4. c[s] \in D
      BY <1>4, <2>2
    <3>5. o[<<f[s \ {c[s]}], c[s]>>] = Fill(f[s \ {c[s]}], FillOrder[c[s]], i)
      BY <1>2, <3>2, <3>4
    <3> QED
      BY <3>1, <3>3, <3>5
  <2> HIDE DEF c, D
  <2>3. Repeats(f, g, D, c, o)
    BY <2>2 DEF Repeats
  <2>4. SameParts(f, g, D)
    BY <1>1, <1>3, <2>1, <2>3, FoldOnce
  <2> QED
    BY <2>4 DEF SameParts, D
<1> QED
  BY <1>3, <1>7, <1>8 DEF IsFold

\* and so is Spend.
LEMMA TakeFold ==
  ASSUME NEW i \in Item, NEW base \in Folded,
         NEW n \in Nat, n = Len(WindowOrder), WindowOrder \in [1..n -> Slot]
  PROVE  IsFold(Drained(base, i), base, n, TakeStep(i, n))
<1> DEFINE o == TakeStep(i, n)
           D == 1..n
           c == FromLast(n)
           Next1(f, s) == Take(f[s \ {Max(s)}], WindowOrder[Max(s)], i)
           P(f) == f = [s \in SUBSET D |-> IF s = {} THEN base ELSE Next1(f, s)]
<1>1. IsFiniteSet(D) /\ Chooses(c, D) /\ \A s \in SUBSET D : c[s] = Max(s)
  <2>1. IsFiniteSet(1..n)
    BY FS_Interval
  <2>2. Chooses(FromLast(n), 1..n) /\ \A s \in SUBSET (1..n) : FromLast(n)[s] = Max(s)
    BY LastChooses
  <2> QED
    BY <2>1, <2>2
<1>2. ASSUME NEW a \in Folded, NEW k \in D
      PROVE  o[<<a, k>>] = Take(a, WindowOrder[k], i) /\ o[<<a, k>>] \in Folded
  <2>1. Take(a, WindowOrder[k], i) \in Folded
    BY TakeDoes
  <2> QED
    BY <2>1 DEF TakeStep
<1>3. PICK f \in [SUBSET D -> Folded] : Folds(f, D, c, base, o)
  <2>1. Closed(o, Folded, D)
    BY <1>2 DEF Closed
  <2> HIDE DEF D, c
  <2> QED
    BY <1>1, <2>1, FoldExists
<1>4. ASSUME NEW s \in SUBSET D, s # {}
      PROVE  c[s] = Max(s) /\ Max(s) \in D /\ s \ {c[s]} \in SUBSET D
  BY <1>1, <1>4 DEF Chooses
<1>5. P(f)
  <2>1. ASSUME NEW s \in SUBSET D, s # {} PROVE f[s] = Next1(f, s)
    <3>1. f[s] = o[<<f[s \ {c[s]}], c[s]>>]
      BY <1>3, <2>1 DEF Folds
    <3>2. f[s \ {c[s]}] \in Folded
      BY <1>4, <2>1
    <3> HIDE DEF c, D, Next1
    <3>3. c[s] \in D /\ c[s] = Max(s)
      BY <1>4, <2>1
    <3>4. f[s] = Take(f[s \ {c[s]}], WindowOrder[c[s]], i)
      BY <1>2, <3>1, <3>2, <3>3
    <3> QED
      BY <3>3, <3>4 DEF Next1
  <2>2. f[{}] = base
    BY <1>3 DEF Folds
  <2> HIDE DEF Next1
  <2> QED
    BY <2>1, <2>2
<1>6. PICK g : g = (CHOOSE h : P(h)) /\ P(g)
  <2>1. \E h : P(h)
    BY <1>5
  <2> HIDE DEF P
  <2> QED
    BY <2>1
<1>7. Drained(base, i) = g[D]
  <2>1. DOMAIN WindowOrder = D
    OBVIOUS
  <2> QED
    BY <1>6, <2>1 DEF Drained, FoldLeft, MapThenFoldSet
<1>8. g[D] = f[D]
  <2>1. g[{}] = base
    BY <1>6
  <2>2. ASSUME NEW s \in SUBSET D, s # {}, f[s \ {c[s]}] = g[s \ {c[s]}]
        PROVE  g[s] = o[<<f[s \ {c[s]}], c[s]>>]
    <3>1. g[s] = Next1(g, s)
      BY <1>6, <2>2
    <3>2. f[s \ {c[s]}] \in Folded
      BY <1>4, <2>2
    <3>3. Next1(g, s) = Take(f[s \ {c[s]}], WindowOrder[c[s]], i)
      BY <1>4, <2>2
    <3> HIDE DEF c, D, Next1
    <3>4. c[s] \in D
      BY <1>4, <2>2
    <3>5. o[<<f[s \ {c[s]}], c[s]>>] = Take(f[s \ {c[s]}], WindowOrder[c[s]], i)
      BY <1>2, <3>2, <3>4
    <3> QED
      BY <3>1, <3>3, <3>5
  <2> HIDE DEF c, D
  <2>3. Repeats(f, g, D, c, o)
    BY <2>2 DEF Repeats
  <2>4. SameParts(f, g, D)
    BY <1>1, <1>3, <2>1, <2>3, FoldOnce
  <2> QED
    BY <2>4 DEF SameParts, D
<1> QED
  BY <1>3, <1>7, <1>8 DEF IsFold

\* Add puts n of item i into the slots, but for what does not fit.
LEMMA AddDoes ==
  ASSUME NEW slots \in Slots, NEW i \in Item, NEW n \in Nat
  PROVE  Add(slots, i, n) \in Folded /\ Puts([slots |-> slots, left |-> n], Add(slots, i, n), i)
<1>1. PICK m \in Nat : m = Len(FillOrder) /\ FillOrder \in [1..m -> Slot]
  BY FiniteSlots
<1> DEFINE D == 1..m
           c == FromLast(m)
           base == [slots |-> slots, left |-> n]
           o1 == TopUpStep(i, m)
           o2 == FillStep(i, m)
           Kept(b) == {sa \in (SUBSET D) \X Folded : Puts(b, sa[2], i)}
<1>2. IsFiniteSet(D) /\ Chooses(c, D)
  <2>1. IsFiniteSet(1..m)
    BY FS_Interval
  <2> QED
    BY <2>1, LastChooses
<1>3. base \in Folded
  BY DEF Folded
<1>4. \A a \in Folded, k \in D : o1[<<a, k>>] = TopUp(a, FillOrder[k], i) /\ o2[<<a, k>>] = Fill(a, FillOrder[k], i)
  BY DEF TopUpStep, FillStep
<1>5. \A b \in Folded : <<{}, b>> \in Kept(b)
  BY PutsNothing
<1>6. ASSUME NEW b \in Folded PROVE Carries(Kept(b), D, c, o1) /\ Carries(Kept(b), D, c, o2)
  <2>1. ASSUME NEW s \in SUBSET D, s # {}, NEW a, <<s \ {c[s]}, a>> \in Kept(b)
        PROVE  <<s, o1[<<a, c[s]>>]>> \in Kept(b) /\ <<s, o2[<<a, c[s]>>]>> \in Kept(b)
    <3> HIDE DEF o1, o2, c
    <3>1. a \in Folded /\ Puts(b, a, i)
      BY <2>1
    <3>2. c[s] \in D /\ FillOrder[c[s]] \in Slot
      BY <1>1, <1>2, <2>1 DEF Chooses
    <3>3. /\ o1[<<a, c[s]>>] \in Folded /\ Puts(a, o1[<<a, c[s]>>], i)
          /\ o2[<<a, c[s]>>] \in Folded /\ Puts(a, o2[<<a, c[s]>>], i)
      BY <1>4, <3>1, <3>2, TopUpDoes
    <3>4. Puts(b, o1[<<a, c[s]>>], i) /\ Puts(b, o2[<<a, c[s]>>], i)
      BY <3>1, <3>3, PutsMore
    <3> QED
      BY <3>3, <3>4
  <2> HIDE DEF o1, o2, c, D, Kept
  <2> QED
    BY <2>1 DEF Carries
<1>7. ASSUME NEW b \in Folded
      PROVE  \A d : <<D, d>> \in Kept(b) => d \in Folded /\ Puts(b, d, i)
  OBVIOUS
<1> DEFINE topped == ToppedUp(base, i)
<1>8. topped \in Folded /\ Puts(base, topped, i)
  <2>1. PICK o : o = o1
    OBVIOUS
  <2>2. PICK f \in [SUBSET D -> Folded] : Folds(f, D, c, base, o) /\ topped = f[D]
    <3> HIDE DEF base
    <3>1. IsFold(ToppedUp(base, i), base, m, TopUpStep(i, m))
      BY <1>1, <1>3, TopUpFold
    <3> QED
      BY <2>1, <3>1 DEF IsFold
  <2>3. <<{}, base>> \in Kept(base) /\ Carries(Kept(base), D, c, o)
    BY <1>3, <1>5, <1>6, <2>1
  <2> HIDE DEF topped, base, c, D, o1, Kept
  <2>4. <<D, f[D]>> \in Kept(base)
    BY <1>2, <2>2, <2>3, FoldKeeps
  <2> QED
    BY <1>3, <1>7, <2>2, <2>4
<1> DEFINE filled == FilledUp(topped, i)
<1>9. filled \in Folded /\ Puts(topped, filled, i)
  <2>1. PICK o : o = o2
    OBVIOUS
  <2>2. PICK f \in [SUBSET D -> Folded] : Folds(f, D, c, topped, o) /\ filled = f[D]
    <3> HIDE DEF topped
    <3>1. IsFold(FilledUp(topped, i), topped, m, FillStep(i, m))
      BY <1>1, <1>8, FillFold
    <3> QED
      BY <2>1, <3>1 DEF IsFold
  <2>3. <<{}, topped>> \in Kept(topped) /\ Carries(Kept(topped), D, c, o)
    <3> HIDE DEF topped
    <3> QED
      BY <1>8, <1>5, <1>6, <2>1
  <2> HIDE DEF filled, topped, c, D, o2, Kept
  <2>4. <<D, f[D]>> \in Kept(topped)
    BY <1>2, <2>2, <2>3, FoldKeeps
  <2> QED
    BY <1>8, <1>7, <2>2, <2>4
<1>10. Add(slots, i, n) = filled
  BY DEF Add
<1> HIDE DEF topped, filled, base
<1>11. Puts(base, filled, i)
  BY <1>3, <1>8, <1>9, PutsMore
<1> QED
  BY <1>9, <1>10, <1>11 DEF base

\* Spend takes n of item i out of the slots that have them.
LEMMA SpendDoes ==
  ASSUME NEW slots \in Slots, NEW i \in Item, NEW n \in Nat, Has(slots, i, n)
  PROVE  /\ Spend(slots, i, n) \in Slots
         /\ Contained(Spend(slots, i, n), i) = Contained(slots, i) - n
         /\ \A j \in Item \ {i} : Contained(Spend(slots, i, n), j) = Contained(slots, j)
<1>0. WindowOrder \in Seq(Slot) /\ Range(WindowOrder) = Slot
  BY ItemsAssumption
<1>1. PICK m \in Nat : m = Len(WindowOrder) /\ WindowOrder \in [1..m -> Slot]
  BY <1>0
<1> DEFINE D == 1..m
           c == FromLast(m)
           base == [slots |-> slots, left |-> n]
           o1 == TakeStep(i, m)
           Gone(s, a) == a.left > 0 => \A k \in s : a.slots[WindowOrder[k]].id # i
           Kept == {sa \in (SUBSET D) \X Folded : Takes(base, sa[2], i) /\ Gone(sa[1], sa[2])}
<1>2. IsFiniteSet(D) /\ Chooses(c, D)
  <2>1. IsFiniteSet(1..m)
    BY FS_Interval
  <2> QED
    BY <2>1, LastChooses
<1>3. base \in Folded /\ base.slots = slots /\ base.left = n
  BY DEF Folded
<1>4. \A a \in Folded, k \in D : o1[<<a, k>>] = Take(a, WindowOrder[k], i)
  BY DEF TakeStep
<1> HIDE DEF base
<1>5. <<{}, base>> \in Kept
  BY <1>3, PutsNothing
<1>6. Carries(Kept, D, c, o1)
  <2>1. ASSUME NEW s \in SUBSET D, s # {}, NEW a, <<s \ {c[s]}, a>> \in Kept
        PROVE  <<s, o1[<<a, c[s]>>]>> \in Kept
    <3> HIDE DEF o1, c
    <3>1. a \in Folded /\ Takes(base, a, i) /\ Gone(s \ {c[s]}, a)
      BY <2>1
    <3> DEFINE t == WindowOrder[c[s]]
               b == Take(a, t, i)
    <3>2. c[s] \in D /\ t \in Slot
      BY <1>1, <1>2, <2>1 DEF Chooses
    <3>3. o1[<<a, c[s]>>] = b
      BY <1>4, <3>1, <3>2
    <3>4. /\ b \in Folded /\ Takes(a, b, i)
          /\ \A u \in Slot : a.slots[u].id # i => b.slots[u].id # i
          /\ b.left > 0 => b.slots[t].id # i
      <4> HIDE DEF t
      <4> QED
        BY <3>1, <3>2, TakeDoes
    <3> HIDE DEF b
    <3>5. Takes(base, b, i)
      <4>1. \A d \in Folded : d.left \in Nat /\ d.slots \in Slots /\ \A j \in Item : Contained(d.slots, j) \in Nat
        BY ContainedNatural DEF Folded
      <4> QED
        BY <1>3, <3>1, <3>4, <4>1 DEF Takes
    <3>6. ASSUME b.left > 0, NEW k \in s PROVE b.slots[WindowOrder[k]].id # i
      <4>1. CASE k = c[s]
        BY <3>4, <3>6, <4>1
      <4>2. CASE k # c[s]
        <5>1. a.left > 0
          <6>1. b.left <= a.left /\ b.left \in Nat /\ a.left \in Nat
            BY <3>1, <3>4 DEF Takes, Folded
          <6> QED
            BY <3>6, <6>1
        <5>2. a.slots[WindowOrder[k]].id # i
          BY <3>1, <4>2, <5>1
        <5>3. WindowOrder[k] \in Slot
          BY <1>1
        <5> QED
          BY <3>4, <5>2, <5>3
      <4> QED
        BY <4>1, <4>2
    <3>7. Gone(s, b)
      BY <3>6
    <3> HIDE DEF Gone
    <3> QED
      BY <3>3, <3>4, <3>5, <3>7
  <2> HIDE DEF o1, c, D, Kept
  <2> QED
    BY <2>1 DEF Carries
<1> DEFINE spent == Drained(base, i)
<1>7. spent \in Folded /\ Takes(base, spent, i) /\ Gone(D, spent)
  <2>1. PICK o : o = o1
    OBVIOUS
  <2>2. PICK f \in [SUBSET D -> Folded] : Folds(f, D, c, base, o) /\ spent = f[D]
    <3>1. IsFold(Drained(base, i), base, m, TakeStep(i, m))
      BY <1>1, <1>3, TakeFold
    <3> QED
      BY <2>1, <3>1 DEF IsFold
  <2>3. Carries(Kept, D, c, o)
    BY <1>6, <2>1
  <2>4. <<D, f[D]>> \in Kept
    <3> HIDE DEF spent, c, D, o1, Kept
    <3> QED
      BY <1>2, <1>5, <2>2, <2>3, FoldKeeps
  <2> HIDE DEF spent, Gone, c, o1
  <2> QED
    BY <2>2, <2>4
<1>8. Spend(slots, i, n) = spent.slots
  BY DEF Spend, base
<1> HIDE DEF spent
<1>9. /\ spent.slots \in Slots /\ spent.left \in Nat
      /\ Contained(spent.slots, i) \in Nat /\ Contained(slots, i) \in Nat /\ Contained(slots, i) >= n
  BY <1>7, ContainedNatural DEF Folded, Has
<1>10. Contained(spent.slots, i) - spent.left = Contained(slots, i) - n
  BY <1>3, <1>7 DEF Takes
<1>11. spent.left = 0
  <2>1. SUFFICES ASSUME spent.left > 0 PROVE FALSE
    BY <1>9
  <2>2. ASSUME NEW t \in Slot PROVE Count(spent.slots[t], i) = 0
    <3>1. PICK k \in D : t = WindowOrder[k]
      BY <1>0, <1>1 DEF Range
    <3>2. spent.slots[t].id # i
      BY <1>7, <2>1, <3>1
    <3> QED
      BY <3>2 DEF Count
  <2>3. Contained(spent.slots, i) = 0
    BY <1>9, <2>2, ContainedNatural
  <2> QED
    BY <1>9, <1>10, <2>1, <2>3
<1> QED
  BY <1>3, <1>7, <1>8, <1>9, <1>10, <1>11 DEF Takes

-----------------------------------------------------------------------------
(* The items add up *)

\* The kinds of things.  A task that uses or wears an item out has copied a stack, one
\* that gives back has something to give; the loop has a stack in its hands only
\* when it hands it over.
ItemTypes ==
  /\ inv \in [Player -> Slots]
  /\ ground \in [Item -> Nat]
  /\ touched \in [Player -> SUBSET {"emptied", "filled"}]
  /\ ledger \in [Item -> Int]

TaskKind(t) ==
  /\ t.copy \in StackOrEmpty
  /\ t.due \in Item \cup {None}
  /\ t.at \in {"using", "wearing"} => t.copy \in Stack
  /\ t.at = "giving" => t.due \in Item

TaskKinds == task = [p \in Player |-> task[p]] /\ \A p \in Player : TaskKind(task[p])

LoopKinds ==
  \/ loop.at = "idle" /\ loop.loot = Empty
  \/ loop.at = "handing" /\ loop.who \in Player /\ loop.loot \in Stack
  \/ loop.at = "killing" /\ loop.who \in Player /\ loop.loot = Empty

\* What the task's copy says of the held stack, when so much was done to that
\* meanwhile: it is the held stack; if the stack was only filled, part of it; and if
\* it was only emptied, nothing is held.
Agrees(copy, held, how) ==
  /\ how = {} => held = copy
  /\ "emptied" \notin how => Grown(copy, held)
  /\ "filled" \notin how /\ "emptied" \in how => held = Empty

HasCopy == {p \in Player : task[p].at \in {"using", "wearing", "writing"}}
CopiesAgree == \A p \in HasCopy : Agrees(task[p].copy, inv[p][Held], touched[p])

\* The inductive invariant.
AccountInv == ItemTypes /\ TaskKinds /\ LoopKinds /\ CopiesAgree /\ Accounted

\* How many of item i each player has.
HandsOf(v, i) == [p \in Player |-> Contained(v[p], i)]

LEMMA HandsSum ==
  ASSUME NEW v \in [Player -> Slots], NEW i \in Item
  PROVE  /\ SumFunction(HandsOf(v, i)) = SumFunctionOnSet(HandsOf(v, i), Player)
         /\ SumFunctionOnSet(HandsOf(v, i), Player) \in Nat
         /\ Numbers(HandsOf(v, i), Player)
         /\ \A p \in Player : HandsOf(v, i)[p] = Contained(v[p], i) /\ v[p] \in Slots
<1>1. \A p \in Player : HandsOf(v, i)[p] = Contained(v[p], i) /\ v[p] \in Slots
  BY DEF HandsOf
<1>2. \A p \in Player : HandsOf(v, i)[p] \in Nat
  BY <1>1, ContainedNatural
<1>3. SumFunction(HandsOf(v, i)) = SumFunctionOnSet(HandsOf(v, i), Player)
  BY DEF SumFunction, HandsOf
<1>4. SumFunctionOnSet(HandsOf(v, i), Player) \in Nat
  BY <1>2, SumNatural, ItemsAssumption
<1> QED
  BY <1>1, <1>2, <1>3, <1>4 DEF Numbers

\* How many there are of item i, when one inventory changes.
LEMMA HandsChange ==
  ASSUME inv \in [Player -> Slots], NEW p \in Player, NEW new \in Slots, inv' = [inv EXCEPT ![p] = new],
         NEW i \in Item
  PROVE  /\ InHands(i) \in Nat /\ InHands(i)' \in Nat
         /\ Contained(inv[p], i) \in Nat /\ Contained(new, i) \in Nat
         /\ InHands(i)' = InHands(i) - Contained(inv[p], i) + Contained(new, i)
<1>1. PICK v \in [Player -> Slots] : v = inv'
  OBVIOUS
<1> DEFINE w == HandsOf(inv, i)
           x == HandsOf(v, i)
<1>2. /\ SumFunction(w) = SumFunctionOnSet(w, Player) /\ SumFunctionOnSet(w, Player) \in Nat /\ Numbers(w, Player)
      /\ \A q \in Player : w[q] = Contained(inv[q], i) /\ inv[q] \in Slots
  BY HandsSum
<1>3. /\ SumFunction(x) = SumFunctionOnSet(x, Player) /\ SumFunctionOnSet(x, Player) \in Nat /\ Numbers(x, Player)
      /\ \A q \in Player : x[q] = Contained(v[q], i)
  BY HandsSum
<1>4. InHands(i) = SumFunction(w)
  BY DEF InHands, HandsOf
<1>5. InHands(i)' = SumFunction(x)
  BY <1>1 DEF InHands, HandsOf
<1>6. v[p] = new /\ \A q \in Player \ {p} : v[q] = inv[q]
  BY <1>1
<1> HIDE DEF w, x
<1>7. \A q \in Player \ {p} : x[q] = w[q]
  BY <1>2, <1>3, <1>6
<1>8. SumFunctionOnSet(x, Player) = SumFunctionOnSet(w, Player) - w[p] + x[p]
  BY <1>2, <1>3, <1>7, SumChanges, ItemsAssumption
<1>9. Contained(inv[p], i) \in Nat /\ Contained(new, i) \in Nat
  BY <1>2, ContainedNatural
<1> QED
  BY <1>2, <1>3, <1>4, <1>5, <1>6, <1>8, <1>9

LEMMA HandsNatural ==
  ASSUME inv \in [Player -> Slots], NEW i \in Item
  PROVE  InHands(i) \in Nat
  BY HandsSum DEF InHands, HandsOf

\* Of what the loop has in its hands, so many are item i.
LEMMA LootNatural ==
  ASSUME LoopKinds, NEW i \in Item
  PROVE  Count(loop.loot, i) \in Nat /\ loop.loot \in StackOrEmpty
<1>1. loop.loot \in StackOrEmpty
  BY DEF LoopKinds, StackOrEmpty
<1> QED
  BY <1>1, Stacks

LEMMA TotalInt ==
  ASSUME ItemTypes, LoopKinds, NEW i \in Item
  PROVE  Total(i) \in Int
<1>1. InHands(i) \in Nat
  BY HandsNatural DEF ItemTypes
<1>2. ground[i] \in Nat
  BY DEF ItemTypes
<1> QED
  BY <1>1, <1>2, LootNatural DEF Total

\* Only the inventory of p changes.
LEMMA OneInventory ==
  ASSUME ItemTypes, LoopKinds, NEW p \in Player, NEW new \in Slots, inv' = [inv EXCEPT ![p] = new],
         UNCHANGED <<ground, loop>>, NEW i \in Item
  PROVE  /\ Total(i) \in Int /\ Total(i)' \in Int
         /\ Contained(inv[p], i) \in Nat /\ Contained(new, i) \in Nat
         /\ Total(i)' - Total(i) = Contained(new, i) - Contained(inv[p], i)
<1>1. /\ InHands(i) \in Nat /\ InHands(i)' \in Nat
      /\ Contained(inv[p], i) \in Nat /\ Contained(new, i) \in Nat
      /\ InHands(i)' = InHands(i) - Contained(inv[p], i) + Contained(new, i)
  BY HandsChange DEF ItemTypes
<1>2. ground[i] \in Nat /\ ground'[i] = ground[i]
  BY DEF ItemTypes
<1>3. Count(loop.loot, i) \in Nat /\ Count(loop'.loot, i) = Count(loop.loot, i)
  BY LootNatural
<1> QED
  BY <1>1, <1>2, <1>3 DEF Total

\* Only the held stack of p changes.
LEMMA OneStack ==
  ASSUME ItemTypes, LoopKinds, NEW p \in Player, NEW st \in StackOrEmpty,
         inv' = [inv EXCEPT ![p][Held] = st], UNCHANGED <<ground, loop>>
  PROVE  \E new \in Slots :
           /\ inv' = [inv EXCEPT ![p] = new] /\ new[Held] = st
           /\ \A i \in Item :
                /\ Total(i) \in Int /\ Total(i)' \in Int
                /\ Count(st, i) \in Nat /\ Count(inv[p][Held], i) \in Nat
                /\ Total(i)' - Total(i) = Count(st, i) - Count(inv[p][Held], i)
<1> DEFINE new == [inv[p] EXCEPT ![Held] = st]
<1>1. inv[p] \in Slots /\ Held \in Slot /\ inv[p][Held] \in StackOrEmpty
  BY ItemsAssumption DEF ItemTypes, Slots
<1>2. inv' = [inv EXCEPT ![p] = new] /\ new[Held] = st
  BY <1>1 DEF Slots
<1>3. /\ new \in Slots
      /\ \A i \in Item : Contained(new, i) = Contained(inv[p], i) - Count(inv[p][Held], i) + Count(st, i)
  BY <1>1, SlotChanges
<1> HIDE DEF new
<1>4. ASSUME NEW i \in Item
      PROVE  /\ Total(i) \in Int /\ Total(i)' \in Int
             /\ Count(st, i) \in Nat /\ Count(inv[p][Held], i) \in Nat
             /\ Total(i)' - Total(i) = Count(st, i) - Count(inv[p][Held], i)
  <2>1. Count(st, i) \in Nat /\ Count(inv[p][Held], i) \in Nat
    BY <1>1, Stacks
  <2>2. /\ Total(i) \in Int /\ Total(i)' \in Int
        /\ Contained(inv[p], i) \in Nat /\ Contained(new, i) \in Nat
        /\ Total(i)' - Total(i) = Contained(new, i) - Contained(inv[p], i)
    BY <1>2, <1>3, OneInventory
  <2> QED
    BY <1>3, <2>1, <2>2
<1> QED
  BY <1>2, <1>3, <1>4

\* A difference d, where c was meant, is right or is written off.
Booked(d, c, why) ==
  \/ d = c
  \/ "emptied" \in why /\ d > c
  \/ why \cap {"filled", "overflow"} # {} /\ d < c

LEMMA BookBalances ==
  ASSUME Accounted, ItemTypes, NEW change, NEW why, Book(change, why),
         \A i \in Item : /\ Total(i) \in Int /\ Total(i)' \in Int /\ change[i] \in Int
                         /\ Booked(Total(i)' - Total(i), change[i], why)
  PROVE  Accounted' /\ ledger' \in [Item -> Int]
<1> DEFINE off(i) == \/ "emptied" \in why /\ Total(i)' > ledger[i] + change[i]
                     \/ why \cap {"filled", "overflow"} # {} /\ Total(i)' < ledger[i] + change[i]
<1>1. ledger' = [i \in Item |-> IF off(i) THEN Total(i)' ELSE ledger[i] + change[i]]
  BY DEF Book
<1>2. ASSUME NEW i \in Item PROVE ledger'[i] = Total(i)' /\ Total(i)' \in Int
  <2>1. Total(i) \in Int /\ Total(i)' \in Int /\ change[i] \in Int /\ Booked(Total(i)' - Total(i), change[i], why)
    OBVIOUS
  <2>2. ledger[i] = Total(i)
    BY DEF Accounted
  <2>3. off(i) \/ Total(i)' = ledger[i] + change[i]
    BY <2>1, <2>2 DEF Booked
  <2>4. ledger'[i] = IF off(i) THEN Total(i)' ELSE ledger[i] + change[i]
    BY <1>1
  <2> HIDE DEF off
  <2> QED
    BY <2>1, <2>3, <2>4
<1>3. ledger' \in [Item -> Int]
  <2>1. DOMAIN ledger' = Item /\ ledger' = [i \in Item |-> ledger'[i]]
    BY <1>1
  <2> QED
    BY <1>2, <2>1
<1> QED
  BY <1>2, <1>3 DEF Accounted

-----------------------------------------------------------------------------
\* The task of p does something with its inventory.
LEMMA TaskStep ==
  ASSUME AccountInv, NEW p \in Player, NEW new \in Slots, inv' = [inv EXCEPT ![p] = new],
         NEW t, task' = [task EXCEPT ![p] = t], TaskKind(t),
         t.at \in {"using", "wearing", "writing"} => Agrees(t.copy, new[Held], {}),
         Handles(p), loop' = loop, ground' \in [Item -> Nat],
         Accounted', ledger' \in [Item -> Int]
  PROVE  AccountInv'
<1>1. touched' = [touched EXCEPT ![p] = {}]
  BY DEF Handles
<1>2. ItemTypes'
  BY <1>1 DEF ItemTypes, AccountInv
<1>3. task = [q \in Player |-> task[q]] /\ \A q \in Player : TaskKind(task[q])
  BY DEF AccountInv, TaskKinds
<1>4. task'[p] = t /\ \A q \in Player \ {p} : task'[q] = task[q]
  BY <1>3
<1>5. TaskKinds'
  <2>1. task' = [q \in Player |-> task'[q]]
    BY <1>3
  <2>2. \A q \in Player : TaskKind(task'[q])
    BY <1>3, <1>4
  <2> QED
    BY <2>1, <2>2 DEF TaskKinds, TaskKind
<1>6. LoopKinds'
  BY DEF LoopKinds, AccountInv
<1>7. ASSUME NEW q \in HasCopy' PROVE Agrees(task'[q].copy, inv'[q][Held], touched'[q])
  <2>0. q \in Player /\ task'[q].at \in {"using", "wearing", "writing"}
    BY <1>7 DEF HasCopy
  <2>1. CASE q = p
    <3>1. inv'[p] = new /\ touched'[p] = {}
      BY <1>1 DEF AccountInv, ItemTypes
    <3> QED
      BY <1>4, <2>0, <2>1, <3>1
  <2>2. CASE q # p
    <3>1. inv'[q] = inv[q] /\ touched'[q] = touched[q] /\ task'[q] = task[q]
      BY <1>1, <1>4, <2>0, <2>2 DEF AccountInv, ItemTypes
    <3>2. q \in HasCopy
      BY <2>0, <3>1 DEF HasCopy
    <3> QED
      BY <3>1, <3>2 DEF AccountInv, CopiesAgree
  <2> QED
    BY <2>1, <2>2
<1>8. CopiesAgree'
  BY <1>7 DEF CopiesAgree
<1> QED
  BY <1>2, <1>5, <1>6, <1>8 DEF AccountInv

\* What is in nobody's hands stays, and the task of p goes where it has no copy.
LEMMA ElsewhereStep ==
  ASSUME AccountInv, NEW p \in Player, NEW t, task' = [task EXCEPT ![p] = t], TaskKind(t),
         t.at \notin {"using", "wearing", "writing"}, UNCHANGED <<inv, ground, loop, touched, ledger>>
  PROVE  AccountInv'
<1>1. ItemTypes' /\ LoopKinds'
  BY DEF ItemTypes, AccountInv, LoopKinds
<1>3. task = [q \in Player |-> task[q]] /\ \A q \in Player : TaskKind(task[q])
  BY DEF AccountInv, TaskKinds
<1>4. task'[p] = t /\ \A q \in Player \ {p} : task'[q] = task[q]
  BY <1>3
<1>5. TaskKinds'
  <2>1. task' = [q \in Player |-> task'[q]]
    BY <1>3
  <2>2. \A q \in Player : TaskKind(task'[q])
    BY <1>3, <1>4
  <2> QED
    BY <2>1, <2>2 DEF TaskKinds, TaskKind
<1>6. HasCopy' \subseteq HasCopy /\ \A q \in HasCopy' : task'[q] = task[q]
  BY <1>4 DEF HasCopy
<1>7. CopiesAgree'
  BY <1>6 DEF CopiesAgree, AccountInv
<1>8. Accounted'
  BY DEF Accounted, AccountInv, Total, InHands
<1> QED
  BY <1>1, <1>5, <1>7, <1>8 DEF AccountInv

\* The tasks stay as they are, and so does what is in the inventories.
LEMMA LoopStep ==
  ASSUME AccountInv, UNCHANGED <<inv, task, touched>>, LoopKinds', ground' \in [Item -> Nat],
         Accounted', ledger' \in [Item -> Int]
  PROVE  AccountInv'
<1>1. ItemTypes' /\ TaskKinds' /\ CopiesAgree'
  BY DEF ItemTypes, AccountInv, TaskKinds, TaskKind, CopiesAgree, HasCopy
<1> QED
  BY <1>1 DEF AccountInv

\* The loop sets the inventory of p, which only gains or only loses the held stack.
LEMMA LoopSetsStep ==
  ASSUME AccountInv, NEW p \in Player, NEW new \in Slots, NEW how \in {"emptied", "filled"}, LoopSets(p, new, how),
         how = "filled" => Grown(inv[p][Held], new[Held]),
         how = "emptied" => new[Held] = Empty,
         task' = task, LoopKinds', ground' \in [Item -> Nat], ledger' = ledger, Accounted'
  PROVE  AccountInv' /\ inv' = [inv EXCEPT ![p] = new]
<1>1. /\ inv' = [inv EXCEPT ![p] = new]
      /\ touched' = [touched EXCEPT ![p] = IF new[Held] = inv[p][Held] THEN @ ELSE @ \cup {how}]
  BY DEF LoopSets
<1>2. ItemTypes'
  BY <1>1 DEF ItemTypes, AccountInv
<1>3. TaskKinds'
  BY DEF TaskKinds, TaskKind, AccountInv
<1>4. ASSUME NEW q \in HasCopy' PROVE Agrees(task'[q].copy, inv'[q][Held], touched'[q])
  <2>0. q \in HasCopy /\ q \in Player
    BY <1>4 DEF HasCopy
  <2>1. Agrees(task[q].copy, inv[q][Held], touched[q])
    BY <2>0 DEF AccountInv, CopiesAgree
  <2>2. CASE q # p \/ new[Held] = inv[p][Held]
    <3>1. inv'[q][Held] = inv[q][Held] /\ touched'[q] = touched[q]
      BY <1>1, <2>0, <2>2 DEF AccountInv, ItemTypes
    <3> QED
      BY <2>1, <3>1
  <2>3. CASE q = p /\ new[Held] # inv[p][Held]
    <3>1. inv'[q] = new /\ touched'[q] = touched[q] \cup {how}
      BY <1>1, <2>3 DEF AccountInv, ItemTypes
    <3>2. task[q].copy \in StackOrEmpty /\ inv[q][Held] \in StackOrEmpty /\ new[Held] \in StackOrEmpty
      BY <2>0, ItemsAssumption DEF AccountInv, TaskKinds, TaskKind, ItemTypes, Slots
    <3>3. CASE how = "filled"
      <4>1. "filled" \in touched'[q] /\ ("emptied" \notin touched'[q] => "emptied" \notin touched[q])
        BY <3>1, <3>3
      <4>2. "emptied" \notin touched'[q] => Grown(task[q].copy, new[Held])
        <5>1. SUFFICES ASSUME "emptied" \notin touched[q] PROVE Grown(task[q].copy, new[Held])
          BY <4>1
        <5>2. Grown(task[q].copy, inv[q][Held]) /\ Grown(inv[q][Held], new[Held])
          BY <2>1, <2>3, <3>3, <5>1 DEF Agrees
        <5>3. /\ task[q].copy.count \in Nat /\ inv[q][Held].count \in Nat /\ new[Held].count \in Nat
              /\ task[q].copy # Empty => task[q].copy.id \in Item
          BY <3>2, Stacks, ItemsAssumption
        <5>4. Empty.id = None /\ None \notin Item
          BY ItemsAssumption DEF Empty
        <5> QED
          BY <5>2, <5>3, <5>4 DEF Grown
      <4> QED
        BY <3>1, <4>1, <4>2 DEF Agrees
    <3>4. CASE how = "emptied"
      BY <3>1, <3>4 DEF Agrees
    <3> QED
      BY <3>3, <3>4
  <2> QED
    BY <2>2, <2>3
<1>5. CopiesAgree'
  BY <1>4 DEF CopiesAgree
<1>6. ledger' \in [Item -> Int]
  BY DEF AccountInv, ItemTypes
<1> QED
  BY <1>1, <1>2, <1>3, <1>5 DEF AccountInv

-----------------------------------------------------------------------------
\* What a task is.
LEMMA Tasks ==
  /\ TaskKind(Idle) /\ Idle.at = "idle"
  /\ \A at \in {"trading", "counting", "dying"} :
       TaskKind([at |-> at, copy |-> Empty, due |-> None])
  /\ \A i \in Item : TaskKind([at |-> "giving", copy |-> Empty, due |-> i])
  /\ \A st \in Stack, at \in {"using", "wearing"} : TaskKind([at |-> at, copy |-> st, due |-> None])
  /\ \A st \in StackOrEmpty, due \in Item \cup {None} : TaskKind([at |-> "writing", copy |-> st, due |-> due])
  BY DEF TaskKind, Idle, StackOrEmpty

LEMMA WhatIsHeld ==
  ASSUME AccountInv, NEW p \in Player
  PROVE  /\ inv[p] \in Slots /\ inv[p][Held] \in StackOrEmpty /\ Held \in Slot
         /\ inv = [inv EXCEPT ![p] = inv[p]]
         /\ task[p].copy \in StackOrEmpty /\ task[p].due \in Item \cup {None} /\ TaskKind(task[p])
         /\ touched[p] \subseteq {"emptied", "filled"}
         /\ ground \in [Item -> Nat]
  BY ItemsAssumption DEF AccountInv, ItemTypes, TaskKinds, TaskKind, Slots

LEMMA ReadKeeps ==
  ASSUME AccountInv, NEW p \in Player, Read(p)
  PROVE  AccountInv'
<1> DEFINE st == inv[p][Held]
           t == [at |-> IF st.id \in Tool THEN "wearing" ELSE "using", copy |-> st, due |-> None]
<1>1. /\ st # Empty /\ task' = [task EXCEPT ![p] = t] /\ Handles(p)
      /\ UNCHANGED <<inv, ground, loop, ledger>>
  BY DEF Read, Goto
<1>2. inv[p] \in Slots /\ st \in StackOrEmpty /\ inv' = [inv EXCEPT ![p] = inv[p]] /\ ground' \in [Item -> Nat]
  BY <1>1, WhatIsHeld
<1>3. st \in Stack
  BY <1>1, <1>2 DEF StackOrEmpty
<1>4. TaskKind(t) /\ t.copy = st
  <2> HIDE DEF st
  <2>1. CASE st.id \in Tool
    BY <1>3, <2>1, Tasks
  <2>2. CASE st.id \notin Tool
    BY <1>3, <2>2, Tasks
  <2> QED
    BY <2>1, <2>2
<1>5. Agrees(st, st, {})
  BY <1>2 DEF Agrees, Grown, StackOrEmpty, Stack, Empty
<1>6. Accounted' /\ ledger' \in [Item -> Int]
  BY <1>1 DEF AccountInv, Accounted, Total, InHands, ItemTypes
<1> HIDE DEF t
<1> QED
  BY <1>1, <1>2, <1>4, <1>5, <1>6, TaskStep

\* The items a task gives back, if any, it owes.
LEMMA OwingKind ==
  ASSUME NEW p \in Player, NEW due \in Item \cup {None}, Owing(p, due)
  PROVE  \E t : task' = [task EXCEPT ![p] = t] /\ TaskKind(t) /\ t.at \notin {"using", "wearing", "writing"}
<1>1. CASE due = None
  BY <1>1, Tasks DEF Owing
<1>2. CASE due # None
  <2>1. due \in Item
    BY <1>2
  <2> DEFINE t == [at |-> "giving", copy |-> Empty, due |-> due]
  <2>2. task' = [task EXCEPT ![p] = t]
    BY <1>2 DEF Owing, Goto
  <2>3. TaskKind(t) /\ t.at = "giving"
    BY <2>1, Tasks
  <2> HIDE DEF t
  <2> QED
    BY <2>2, <2>3
<1> QED
  BY <1>1, <1>2

\* The held stack with one less.
LEMMA LessDoes ==
  ASSUME NEW st \in StackOrEmpty
  PROVE  /\ Less(st) \in StackOrEmpty
         /\ st = Empty => Less(st) = Empty
         /\ st # Empty => \A i \in Item : Count(Less(st), i) = IF i = st.id THEN Count(st, i) - 1 ELSE Count(st, i)
<1>1. CASE st = Empty
  BY <1>1 DEF Less
<1>2. CASE st # Empty
  <2>1. st.id \in Item /\ st.count \in 1..MaxStack[st.id] /\ MaxStack[st.id] \in Nat
    BY <1>2, ItemsAssumption DEF StackOrEmpty, Stack
  <2>2. st.count - 1 \in Nat /\ st.count - 1 <= MaxStack[st.id]
    BY <2>1
  <2>3. Less(st) = Of(st.id, st.count - 1)
    BY <1>2 DEF Less
  <2>4. /\ Less(st) \in StackOrEmpty
        /\ \A i \in Item : Count(Less(st), i) = IF i = st.id THEN st.count - 1 ELSE 0
    BY <2>1, <2>2, <2>3, SoMany
  <2>5. \A i \in Item : Count(st, i) = IF i = st.id THEN st.count ELSE 0
    BY DEF Count
  <2> QED
    BY <1>2, <2>1, <2>4, <2>5
<1> QED
  BY <1>1, <1>2

\* Nothing changes but for item i.
LEMMA Only ==
  ASSUME NEW i \in Item, NEW n \in Int
  PROVE  /\ [Nothing EXCEPT ![i] = n][i] = n
         /\ \A j \in Item \ {i} : [Nothing EXCEPT ![i] = n][j] = 0
         /\ \A j \in Item : Nothing[j] = 0 /\ [Nothing EXCEPT ![i] = n][j] \in Int
  BY DEF Nothing

\* What Consume does to the stock: right, or written off.
LEMMA ConsumeBooks ==
  ASSUME NEW copy \in Stack, NEW held \in StackOrEmpty, NEW how \in SUBSET {"emptied", "filled"},
         Agrees(copy, held, how), NEW i \in Item
  PROVE  Booked(Count(Less(held), i) - Count(held, i), IF i = copy.id THEN -1 ELSE 0,
                IF "emptied" \in how THEN how ELSE {})
<1>1. /\ copy \in StackOrEmpty /\ copy # Empty /\ copy.id \in Item /\ copy.count \in Nat /\ copy.count > 0
  BY ItemsAssumption DEF StackOrEmpty, Stack, Empty
<1>2. Count(held, i) \in Nat /\ Count(Less(held), i) \in Nat
  BY Stacks, LessDoes
<1>3. CASE held = Empty
  <2>1. Count(Less(held), i) = Count(held, i)
    BY <1>3, LessDoes
  <2>2. "emptied" \in how
    <3>1. SUFFICES ASSUME "emptied" \notin how PROVE FALSE
      OBVIOUS
    <3>2. held.id = copy.id
      BY <1>1, <3>1 DEF Agrees, Grown
    <3> QED
      BY <1>1, <1>3, <3>2, ItemsAssumption DEF Empty
  <2> QED
    BY <1>2, <2>1, <2>2 DEF Booked
<1>4. CASE held # Empty
  <2>1. Count(Less(held), i) = IF i = held.id THEN Count(held, i) - 1 ELSE Count(held, i)
    BY <1>4, LessDoes
  <2>2. Count(Less(held), i) - Count(held, i) = IF i = held.id THEN -1 ELSE 0
    BY <1>2, <2>1
  <2>3. CASE "emptied" \notin how
    <3>1. held.id = copy.id
      BY <1>1, <2>3 DEF Agrees, Grown
    <3> QED
      BY <2>2, <3>1 DEF Booked
  <2>4. CASE "emptied" \in how
    <3>1. "filled" \in how
      BY <1>4, <2>4 DEF Agrees
    <3>2. "emptied" \in how /\ how \cap {"filled", "overflow"} # {}
      BY <2>4, <3>1
    <3> DEFINE d == Count(Less(held), i) - Count(held, i)
               c == IF i = copy.id THEN -1 ELSE 0
    <3>3. d \in Int /\ c \in Int
      BY <1>2
    <3>4. d = c \/ d > c \/ d < c
      <4> HIDE DEF d, c
      <4> QED
        BY <3>3
    <3> HIDE DEF d, c
    <3>5. Booked(d, c, how)
      BY <3>2, <3>4 DEF Booked
    <3> QED
      BY <2>4, <3>5 DEF d, c
  <2> QED
    BY <2>3, <2>4
<1> QED
  BY <1>3, <1>4

LEMMA ConsumeKeeps ==
  ASSUME AccountInv, NEW p \in Player, Consume(p)
  PROVE  AccountInv'
<1> DEFINE held == inv[p][Held]
           used == task[p].copy.id
           left == Less(held)
           why == IF "emptied" \in touched[p] THEN touched[p] ELSE {}
           change == [Nothing EXCEPT ![used] = -1]
<1>1. /\ task[p].at = "using" /\ inv' = [inv EXCEPT ![p][Held] = left]
      /\ IF used \in WrittenBack THEN Goto(p, "writing", left, Remainder[used]) ELSE Owing(p, Remainder[used])
      /\ UNCHANGED <<ground, loop>> /\ Book(change, why) /\ Handles(p)
  BY DEF Consume
<1>2. held \in StackOrEmpty /\ touched[p] \in SUBSET {"emptied", "filled"} /\ ground' \in [Item -> Nat]
  BY <1>1, WhatIsHeld
<1>3. task[p].copy \in Stack /\ used \in Item /\ Remainder[used] \in Item \cup {None}
  <2>1. task[p].copy \in Stack
    BY <1>1, WhatIsHeld DEF TaskKind
  <2> QED
    BY <2>1, ItemsAssumption DEF Stack
<1>4. Agrees(task[p].copy, held, touched[p])
  BY <1>1 DEF AccountInv, CopiesAgree, HasCopy
<1>5. left \in StackOrEmpty
  BY <1>2, LessDoes
<1>6. ItemTypes /\ LoopKinds /\ Accounted
  BY DEF AccountInv
<1> HIDE DEF held, used, left, why
<1>7. PICK new \in Slots :
        /\ inv' = [inv EXCEPT ![p] = new] /\ new[Held] = left
        /\ \A i \in Item :
             /\ Total(i) \in Int /\ Total(i)' \in Int
             /\ Count(left, i) \in Nat /\ Count(held, i) \in Nat
             /\ Total(i)' - Total(i) = Count(left, i) - Count(held, i)
  BY <1>1, <1>5, <1>6, OneStack DEF held
<1>8. ASSUME NEW i \in Item
      PROVE  change[i] \in Int /\ Booked(Total(i)' - Total(i), change[i], why)
  <2>1. change[i] = IF i = used THEN -1 ELSE 0
    BY <1>3 DEF Nothing
  <2>2. Booked(Count(left, i) - Count(held, i), IF i = used THEN -1 ELSE 0, why)
    BY <1>2, <1>3, <1>4, ConsumeBooks DEF used, left, why
  <2> HIDE DEF change
  <2> QED
    BY <1>7, <2>1, <2>2
<1>9. Accounted' /\ ledger' \in [Item -> Int]
  <2> HIDE DEF change
  <2> QED
    BY <1>1, <1>6, <1>7, <1>8, BookBalances
<1>10. PICK t : /\ task' = [task EXCEPT ![p] = t] /\ TaskKind(t)
                /\ t.at \in {"using", "wearing", "writing"} => t.copy = left
  <2>1. CASE used \in WrittenBack
    <3> DEFINE t == [at |-> "writing", copy |-> left, due |-> Remainder[used]]
    <3>1. task' = [task EXCEPT ![p] = t]
      BY <1>1, <2>1 DEF Goto
    <3>2. TaskKind(t) /\ t.copy = left
      BY <1>3, <1>5, Tasks
    <3> HIDE DEF t
    <3> QED
      BY <3>1, <3>2
  <2>2. CASE used \notin WrittenBack
    BY <1>1, <1>3, <2>2, OwingKind
  <2> QED
    BY <2>1, <2>2
<1>11. Agrees(left, left, {})
  BY <1>5 DEF Agrees, Grown, StackOrEmpty, Stack, Empty
<1> QED
  BY <1>1, <1>2, <1>7, <1>9, <1>10, <1>11, TaskStep

\* Writing a copy over the held stack loses what was filled in, or brings back what was emptied.
LEMMA WriteBooks ==
  ASSUME NEW copy \in StackOrEmpty, NEW held \in StackOrEmpty, NEW how \in SUBSET {"emptied", "filled"},
         Agrees(copy, held, how), NEW i \in Item
  PROVE  Booked(Count(copy, i) - Count(held, i), 0, how)
<1>1. Count(held, i) \in Nat /\ Count(copy, i) \in Nat
  BY Stacks
<1>2. CASE "emptied" \in how
  <2>1. CASE "filled" \in how
    <3>1. how \cap {"filled", "overflow"} # {}
      BY <2>1
    <3> QED
      BY <1>1, <1>2, <3>1 DEF Booked
  <2>2. CASE "filled" \notin how
    <3>1. Count(held, i) = 0
      BY <1>2, <2>2, Stacks DEF Agrees
    <3> QED
      BY <1>1, <1>2, <3>1 DEF Booked
  <2> QED
    BY <2>1, <2>2
<1>3. CASE "emptied" \notin how
  <2>1. CASE how = {}
    BY <1>1, <2>1 DEF Agrees, Booked
  <2>2. CASE how # {}
    <3>1. how \cap {"filled", "overflow"} # {}
      BY <1>3, <2>2
    <3>2. Grown(copy, held)
      BY <1>3 DEF Agrees
    <3>3. Count(copy, i) <= Count(held, i)
      <4>1. CASE copy = Empty
        BY <1>1, <4>1, Stacks
      <4>2. CASE copy # Empty
        BY <1>1, <3>2, <4>2 DEF Grown, Count
      <4> QED
        BY <4>1, <4>2
    <3> QED
      BY <1>1, <3>1, <3>3 DEF Booked
  <2> QED
    BY <2>1, <2>2
<1> QED
  BY <1>2, <1>3

LEMMA WriteBackKeeps ==
  ASSUME AccountInv, NEW p \in Player, WriteBack(p)
  PROVE  AccountInv'
<1> DEFINE held == inv[p][Held]
           copy == task[p].copy
<1>1. /\ task[p].at = "writing" /\ inv' = [inv EXCEPT ![p][Held] = copy] /\ Owing(p, task[p].due)
      /\ UNCHANGED <<ground, loop>> /\ Book(Nothing, touched[p]) /\ Handles(p)
  BY DEF WriteBack
<1>2. /\ held \in StackOrEmpty /\ touched[p] \in SUBSET {"emptied", "filled"} /\ ground' \in [Item -> Nat]
      /\ copy \in StackOrEmpty /\ task[p].due \in Item \cup {None}
  BY <1>1, WhatIsHeld
<1>3. Agrees(copy, held, touched[p])
  BY <1>1 DEF AccountInv, CopiesAgree, HasCopy
<1>4. ItemTypes /\ LoopKinds /\ Accounted
  BY DEF AccountInv
<1> HIDE DEF held, copy
<1>5. PICK new \in Slots :
        /\ inv' = [inv EXCEPT ![p] = new] /\ new[Held] = copy
        /\ \A i \in Item :
             /\ Total(i) \in Int /\ Total(i)' \in Int
             /\ Count(copy, i) \in Nat /\ Count(held, i) \in Nat
             /\ Total(i)' - Total(i) = Count(copy, i) - Count(held, i)
  BY <1>1, <1>2, <1>4, OneStack DEF held
<1>6. \A i \in Item : Nothing[i] = 0 /\ Nothing[i] \in Int
  BY DEF Nothing
<1>7. \A i \in Item : Booked(Total(i)' - Total(i), Nothing[i], touched[p])
  BY <1>2, <1>3, <1>5, <1>6, WriteBooks
<1>8. Accounted' /\ ledger' \in [Item -> Int]
  BY <1>1, <1>4, <1>5, <1>6, <1>7, BookBalances
<1>9. PICK t : task' = [task EXCEPT ![p] = t] /\ TaskKind(t) /\ t.at \notin {"using", "wearing", "writing"}
  BY <1>1, <1>2, OwingKind
<1> QED
  BY <1>1, <1>2, <1>5, <1>8, <1>9, TaskStep

\* The same for a tool that is written back, worn out or not.
LEMMA WearBooks ==
  ASSUME NEW copy \in Stack, NEW rest \in {copy, Empty}, NEW held \in StackOrEmpty,
         NEW how \in SUBSET {"emptied", "filled"}, Agrees(copy, held, how), NEW i \in Item
  PROVE  Booked(Count(rest, i) - Count(held, i), IF i = copy.id THEN rest.count - copy.count ELSE 0, how)
<1>1. /\ copy \in StackOrEmpty /\ copy # Empty /\ copy.id \in Item /\ copy.count \in Nat /\ copy.count > 0
      /\ rest \in StackOrEmpty /\ Empty.count = 0 /\ Empty.id = None /\ i # None
  BY ItemsAssumption DEF StackOrEmpty, Stack, Empty
<1>2. Count(held, i) \in Nat /\ Count(copy, i) \in Nat /\ Count(rest, i) \in Nat
  BY <1>1, Stacks
<1> DEFINE c == IF i = copy.id THEN rest.count - copy.count ELSE 0
<1>3. c \in Int /\ c = Count(rest, i) - Count(copy, i)
  <2>1. Count(copy, i) = IF i = copy.id THEN copy.count ELSE 0
    BY DEF Count
  <2>2. Count(rest, i) = IF i = copy.id THEN rest.count ELSE 0
    BY <1>1 DEF Count
  <2>3. rest.count \in Nat
    BY <1>1
  <2> QED
    BY <1>1, <2>1, <2>2, <2>3
<1>4. Booked(Count(copy, i) - Count(held, i), 0, how)
  BY <1>1, WriteBooks
<1> HIDE DEF c
<1>5. Booked(Count(rest, i) - Count(held, i), c, how)
  <2>1. Count(rest, i) - Count(held, i) = c + (Count(copy, i) - Count(held, i))
    BY <1>2, <1>3
  <2>2. Count(copy, i) - Count(held, i) \in Int /\ Count(rest, i) - Count(held, i) \in Int
    BY <1>2
  <2> QED
    BY <1>3, <1>4, <2>1, <2>2 DEF Booked
<1> QED
  BY <1>5 DEF c

LEMMA WearOutKeeps ==
  ASSUME AccountInv, NEW p \in Player, WearOut(p)
  PROVE  AccountInv'
<1> DEFINE held == inv[p][Held]
           copy == task[p].copy
<1>1. PICK rest \in {copy, Empty} :
        /\ inv' = [inv EXCEPT ![p][Held] = rest] /\ UNCHANGED <<ground, loop>>
        /\ Book([Nothing EXCEPT ![copy.id] = rest.count - copy.count], touched[p])
  BY DEF WearOut
<1>2. task[p].at = "wearing" /\ task' = [task EXCEPT ![p] = Idle] /\ Handles(p)
  BY DEF WearOut
<1>3. /\ held \in StackOrEmpty /\ touched[p] \in SUBSET {"emptied", "filled"} /\ ground' \in [Item -> Nat]
      /\ copy \in Stack
  BY <1>1, <1>2, WhatIsHeld DEF TaskKind
<1>4. Agrees(copy, held, touched[p])
  BY <1>2 DEF AccountInv, CopiesAgree, HasCopy
<1>5. ItemTypes /\ LoopKinds /\ Accounted
  BY DEF AccountInv
<1>6. rest \in StackOrEmpty /\ copy.id \in Item /\ rest.count \in Nat /\ copy.count \in Nat
  BY <1>3 DEF StackOrEmpty, Stack, Empty
<1> HIDE DEF held, copy
<1>7. PICK new \in Slots :
        /\ inv' = [inv EXCEPT ![p] = new] /\ new[Held] = rest
        /\ \A i \in Item :
             /\ Total(i) \in Int /\ Total(i)' \in Int
             /\ Count(rest, i) \in Nat /\ Count(held, i) \in Nat
             /\ Total(i)' - Total(i) = Count(rest, i) - Count(held, i)
  BY <1>1, <1>5, <1>6, OneStack DEF held
<1>8. PICK n \in Int : n = rest.count - copy.count
  BY <1>6
<1> DEFINE change == [Nothing EXCEPT ![copy.id] = n]
<1>9. \A i \in Item : change[i] = (IF i = copy.id THEN n ELSE 0) /\ change[i] \in Int
  BY <1>6 DEF Nothing
<1>10. Book(change, touched[p])
  BY <1>1, <1>8
<1> HIDE DEF change
<1>11. \A i \in Item : Booked(Total(i)' - Total(i), change[i], touched[p])
  BY <1>3, <1>4, <1>7, <1>8, <1>9, WearBooks
<1>12. Accounted' /\ ledger' \in [Item -> Int]
  BY <1>5, <1>7, <1>9, <1>10, <1>11, BookBalances
<1> QED
  BY <1>1, <1>2, <1>3, <1>7, <1>12, Tasks, TaskStep

\* What p gains, but for what does not fit.
LEMMA GainBooks ==
  ASSUME AccountInv, NEW p \in Player, NEW i \in Item, NEW n \in Nat, Gain(p, i, n)
  PROVE  \E new \in Slots :
           /\ inv' = [inv EXCEPT ![p] = new] /\ loop' = loop /\ ground' \in [Item -> Nat] /\ Handles(p)
           /\ Accounted' /\ ledger' \in [Item -> Int]
<1> DEFINE added == Add(inv[p], i, n)
           why == IF added.left > 0 THEN {"overflow"} ELSE {}
           change == [Nothing EXCEPT ![i] = n]
<1>1. /\ inv' = [inv EXCEPT ![p] = added.slots] /\ UNCHANGED <<ground, loop>>
      /\ Book(change, why) /\ Handles(p)
  BY DEF Gain
<1>2. inv[p] \in Slots /\ ground' \in [Item -> Nat]
  BY <1>1, WhatIsHeld
<1> DEFINE base == [slots |-> inv[p], left |-> n]
<1>3. added \in Folded /\ Puts(base, added, i)
  BY <1>2, AddDoes
<1>4. ItemTypes /\ LoopKinds /\ Accounted
  BY DEF AccountInv
<1> HIDE DEF added
<1>5. added.slots \in Slots /\ added.left \in Nat
  BY <1>3 DEF Folded
<1>6. /\ Contained(added.slots, i) + added.left = Contained(inv[p], i) + n
      /\ \A j \in Item \ {i} : Contained(added.slots, j) = Contained(inv[p], j)
  BY <1>3 DEF Puts
<1>7. \A j \in Item : change[j] = (IF j = i THEN n ELSE 0) /\ change[j] \in Int
  BY DEF Nothing
<1> HIDE DEF change
<1>8. \A j \in Item :
        /\ Total(j) \in Int /\ Total(j)' \in Int
        /\ Contained(inv[p], j) \in Nat /\ Contained(added.slots, j) \in Nat
        /\ Total(j)' - Total(j) = Contained(added.slots, j) - Contained(inv[p], j)
  BY <1>1, <1>4, <1>5, OneInventory
<1>9. ASSUME NEW j \in Item PROVE Booked(Total(j)' - Total(j), change[j], why)
  <2>1. CASE j # i
    BY <1>6, <1>7, <1>8, <2>1 DEF Booked
  <2>2. CASE j = i
    <3>1. Total(i)' - Total(i) = n - added.left /\ change[i] = n
      BY <1>5, <1>6, <1>7, <1>8
    <3>2. CASE added.left = 0
      BY <2>2, <3>1, <3>2 DEF Booked
    <3>3. CASE added.left > 0
      <4>1. n - added.left < n
        BY <1>5, <3>3
      <4>2. why \cap {"filled", "overflow"} # {}
        BY <3>3
      <4> HIDE DEF why
      <4> QED
        BY <2>2, <3>1, <4>1, <4>2 DEF Booked
    <3> QED
      BY <1>5, <3>2, <3>3
  <2> QED
    BY <2>1, <2>2
<1> HIDE DEF why
<1>10. Accounted' /\ ledger' \in [Item -> Int]
  BY <1>1, <1>4, <1>7, <1>8, <1>9, BookBalances
<1> QED
  BY <1>1, <1>2, <1>5, <1>10

LEMMA GiveBackKeeps ==
  ASSUME AccountInv, NEW p \in Player, GiveBack(p)
  PROVE  AccountInv'
<1>1. /\ task[p].at = "giving" /\ Gain(p, task[p].due, 1) /\ task' = [task EXCEPT ![p] = Idle]
  BY DEF GiveBack
<1>2. task[p].due \in Item
  BY <1>1, WhatIsHeld DEF TaskKind
<1>3. PICK new \in Slots :
        /\ inv' = [inv EXCEPT ![p] = new] /\ loop' = loop /\ ground' \in [Item -> Nat] /\ Handles(p)
        /\ Accounted' /\ ledger' \in [Item -> Int]
  BY <1>1, <1>2, GainBooks
<1> QED
  BY <1>1, <1>3, Tasks, TaskStep

LEMMA GiveKeeps ==
  ASSUME AccountInv, NEW p \in Player, Give(p)
  PROVE  AccountInv'
<1>1. PICK n \in 1..MaxUnits, i \in Item : Gain(p, i, n)
  BY DEF Give
<1>2. task[p].at = "idle" /\ task' = task
  BY DEF Give
<1>3. PICK new \in Slots :
        /\ inv' = [inv EXCEPT ![p] = new] /\ loop' = loop /\ ground' \in [Item -> Nat] /\ Handles(p)
        /\ Accounted' /\ ledger' \in [Item -> Int]
  BY <1>1, GainBooks
<1>4. TaskKind(task[p]) /\ task' = [task EXCEPT ![p] = task[p]]
  BY <1>2 DEF AccountInv, TaskKinds
<1> QED
  BY <1>2, <1>3, <1>4, TaskStep

\* A trade takes the price and gains what it pays for.
LEMMA SwapKeeps ==
  ASSUME AccountInv, NEW p \in Player, Swap(p)
  PROVE  AccountInv'
<1>0. Offer.pay \in Item /\ Offer.get \in Item /\ Offer.get # Offer.pay /\ Offer.price \in Nat /\ Offer.amount \in Nat
  BY ItemsAssumption
<1>1. CASE ~Has(inv[p], Offer.pay, Offer.price)
  <2>1. task' = [task EXCEPT ![p] = Idle] /\ UNCHANGED <<inv, ground, loop, touched, ledger>>
    BY <1>1 DEF Swap
  <2>2. TaskKind(Idle) /\ Idle.at = "idle"
    BY Tasks
  <2> QED
    BY <2>1, <2>2, ElsewhereStep
<1>2. CASE Has(inv[p], Offer.pay, Offer.price)
  <2> DEFINE spent == Spend(inv[p], Offer.pay, Offer.price)
             added == Add(spent, Offer.get, Offer.amount)
             why == IF added.left > 0 THEN {"overflow"} ELSE {}
             change == [Nothing EXCEPT ![Offer.pay] = -Offer.price, ![Offer.get] = Offer.amount]
             t == [at |-> "counting", copy |-> Empty, due |-> None]
  <2>1. /\ inv' = [inv EXCEPT ![p] = added.slots] /\ UNCHANGED <<ground, loop>>
        /\ Book(change, why) /\ task' = [task EXCEPT ![p] = t] /\ Handles(p)
    BY <1>2 DEF Swap, Goto
  <2>2. inv[p] \in Slots /\ ground' \in [Item -> Nat]
    BY <2>1, WhatIsHeld
  <2>3. /\ spent \in Slots
        /\ Contained(spent, Offer.pay) = Contained(inv[p], Offer.pay) - Offer.price
        /\ \A j \in Item \ {Offer.pay} : Contained(spent, j) = Contained(inv[p], j)
    BY <1>0, <1>2, <2>2, SpendDoes
  <2> HIDE DEF spent
  <2> DEFINE base == [slots |-> spent, left |-> Offer.amount]
  <2>4. added \in Folded /\ Puts(base, added, Offer.get)
    BY <1>0, <2>3, AddDoes
  <2> HIDE DEF added
  <2>5. added.slots \in Slots /\ added.left \in Nat
    BY <2>4 DEF Folded
  <2>6. /\ Contained(added.slots, Offer.get) + added.left = Contained(spent, Offer.get) + Offer.amount
        /\ \A j \in Item \ {Offer.get} : Contained(added.slots, j) = Contained(spent, j)
    BY <2>4 DEF Puts
  <2>7. ItemTypes /\ LoopKinds /\ Accounted
    BY DEF AccountInv
  <2>8. /\ change[Offer.pay] = -Offer.price /\ change[Offer.get] = Offer.amount
        /\ \A j \in Item \ {Offer.pay, Offer.get} : change[j] = 0
    BY <1>0 DEF Nothing
  <2> HIDE DEF change
  <2>9. \A j \in Item :
          /\ Total(j) \in Int /\ Total(j)' \in Int
          /\ Contained(inv[p], j) \in Nat /\ Contained(added.slots, j) \in Nat
          /\ Total(j)' - Total(j) = Contained(added.slots, j) - Contained(inv[p], j)
    BY <2>1, <2>5, <2>7, OneInventory
  <2>10. ASSUME NEW j \in Item PROVE change[j] \in Int /\ Booked(Total(j)' - Total(j), change[j], why)
    <3>1. CASE j = Offer.pay
      BY <1>0, <2>3, <2>6, <2>8, <2>9, <3>1 DEF Booked
    <3>2. CASE j \notin {Offer.pay, Offer.get}
      BY <1>0, <2>3, <2>6, <2>8, <2>9, <3>2 DEF Booked
    <3>3. CASE j = Offer.get
      <4>1. Total(j)' - Total(j) = Offer.amount - added.left /\ change[j] = Offer.amount
        BY <1>0, <2>3, <2>5, <2>6, <2>8, <2>9, <3>3
      <4>2. CASE added.left = 0
        BY <1>0, <4>1, <4>2 DEF Booked
      <4>3. CASE added.left > 0
        <5>1. Offer.amount - added.left < Offer.amount
          BY <1>0, <2>5, <4>3
        <5>2. why \cap {"filled", "overflow"} # {}
          BY <4>3
        <5> HIDE DEF why
        <5> QED
          BY <1>0, <4>1, <5>1, <5>2 DEF Booked
      <4> QED
        BY <2>5, <4>2, <4>3
    <3> QED
      BY <3>1, <3>2, <3>3
  <2> HIDE DEF why
  <2>11. Accounted' /\ ledger' \in [Item -> Int]
    BY <2>1, <2>7, <2>9, <2>10, BookBalances
  <2>12. TaskKind(t) /\ t.at = "counting"
    BY Tasks
  <2> HIDE DEF t
  <2> QED
    BY <2>1, <2>2, <2>5, <2>11, <2>12, TaskStep
<1> QED
  BY <1>1, <1>2

\* The steps of a task that leave the items where they are.
LEMMA QuietKeeps ==
  ASSUME AccountInv, NEW p \in Player, CheckStock(p) \/ UseTrade(p) \/ Fall(p) \/ Respawn(p)
  PROVE  AccountInv'
<1> DEFINE t(at) == [at |-> at, copy |-> Empty, due |-> None]
<1>0. /\ TaskKind(Idle) /\ Idle.at = "idle"
      /\ \A at \in {"trading", "counting", "dying"} : TaskKind(t(at)) /\ t(at).at = at
  BY Tasks
<1>1. UNCHANGED <<inv, ground, loop, touched, ledger>>
  BY DEF CheckStock, UseTrade, Fall, Respawn
<1>2. \/ task' = task
      \/ task' = [task EXCEPT ![p] = Idle]
      \/ \E at \in {"trading", "dying"} : task' = [task EXCEPT ![p] = t(at)]
  BY DEF CheckStock, UseTrade, Fall, Respawn, Goto
<1>3. CASE task' = task
  <2>1. Accounted' /\ ledger' \in [Item -> Int] /\ ground' \in [Item -> Nat] /\ LoopKinds'
    BY <1>1 DEF AccountInv, Accounted, Total, InHands, ItemTypes, LoopKinds
  <2> QED
    BY <1>1, <1>3, <2>1, LoopStep
<1>4. CASE task' = [task EXCEPT ![p] = Idle]
  BY <1>0, <1>1, <1>4, ElsewhereStep
<1>5. CASE \E at \in {"trading", "dying"} : task' = [task EXCEPT ![p] = t(at)]
  <2>1. PICK at \in {"trading", "dying"} : task' = [task EXCEPT ![p] = t(at)]
    BY <1>5
  <2>2. PICK u : u = t(at)
    OBVIOUS
  <2>3. TaskKind(u) /\ u.at \notin {"using", "wearing", "writing"} /\ task' = [task EXCEPT ![p] = u]
    BY <1>0, <2>1, <2>2
  <2> HIDE DEF t
  <2> QED
    BY <1>1, <2>3, ElsewhereStep
<1> QED
  BY <1>2, <1>3, <1>4, <1>5

\* A death that spills what p has on the ground moves the items there.
LEMMA SpilledTotals ==
  ASSUME AccountInv, NEW p \in Player, inv' = [inv EXCEPT ![p] = Emptied], ground' = Spilled(p),
         loop'.loot = loop.loot, NEW i \in Item
  PROVE  /\ Emptied \in Slots /\ Emptied[Held] = Empty
         /\ ground' \in [Item -> Nat]
         /\ Total(i)' = Total(i)
<1>1. Emptied \in Slots /\ Emptied[Held] = Empty /\ \A s \in Slot : Emptied[s] = Empty
  BY ItemsAssumption DEF Emptied, Slots, StackOrEmpty
<1>2. ASSUME NEW j \in Item PROVE Contained(Emptied, j) = 0
  <2>1. \A s \in Slot : Count(Emptied[s], j) = 0
    <3>1. Empty \in StackOrEmpty
      BY DEF StackOrEmpty
    <3> QED
      BY <1>1, <3>1, Stacks
  <2> QED
    BY <1>1, <2>1, ContainedNatural
<1>3. inv \in [Player -> Slots] /\ ground \in [Item -> Nat] /\ LoopKinds
  BY DEF AccountInv, ItemTypes
<1>4. \A j \in Item : ground'[j] = ground[j] + Contained(inv[p], j)
  BY DEF Spilled
<1>5. \A j \in Item : Contained(inv[p], j) \in Nat
  BY <1>3, ContainedNatural
<1>6. ground' \in [Item -> Nat]
  BY <1>3, <1>5 DEF Spilled
<1>7. /\ InHands(i) \in Nat /\ InHands(i)' \in Nat
      /\ InHands(i)' = InHands(i) - Contained(inv[p], i) + Contained(Emptied, i)
  BY <1>1, <1>3, HandsChange
<1>8. Count(loop.loot, i) \in Nat
  BY <1>3, LootNatural
<1>9. ground[i] \in Nat
  BY <1>3
<1>10. Total(i)' = Total(i)
  BY <1>2, <1>4, <1>5, <1>7, <1>8, <1>9 DEF Total
<1> QED
  BY <1>1, <1>6, <1>10

LEMMA DropAllKeeps ==
  ASSUME AccountInv, NEW p \in Player, DropAll(p)
  PROVE  AccountInv'
<1>1. /\ inv' = [inv EXCEPT ![p] = Emptied] /\ ground' = Spilled(p) /\ task' = [task EXCEPT ![p] = Idle]
      /\ Handles(p) /\ UNCHANGED <<loop, ledger>>
  BY DEF DropAll
<1>2. \A i \in Item : /\ Emptied \in Slots /\ ground' \in [Item -> Nat] /\ Total(i)' = Total(i)
  BY <1>1, SpilledTotals
<1>3. Offer.pay \in Item
  BY ItemsAssumption
<1>4. Accounted' /\ ledger' \in [Item -> Int]
  BY <1>1, <1>2 DEF AccountInv, Accounted, ItemTypes
<1> QED
  BY <1>1, <1>2, <1>3, <1>4, Tasks, TaskStep

LEMMA TakeAllKeeps ==
  ASSUME AccountInv, TakeAll
  PROVE  AccountInv'
<1> DEFINE p == loop.who
<1>1. /\ loop.at = "killing" /\ LoopSets(p, Emptied, "emptied") /\ ground' = Spilled(p) /\ loop' = Resting
      /\ UNCHANGED <<task, ledger>>
  BY DEF TakeAll
<1>2. p \in Player /\ loop.loot = Empty
  BY <1>1 DEF AccountInv, LoopKinds
<1>3. inv' = [inv EXCEPT ![p] = Emptied] /\ loop'.loot = loop.loot /\ LoopKinds'
  BY <1>1, <1>2 DEF LoopSets, Resting, LoopKinds
<1> HIDE DEF p
<1>4. \A i \in Item :
        Emptied \in Slots /\ Emptied[Held] = Empty /\ ground' \in [Item -> Nat] /\ Total(i)' = Total(i)
  BY <1>1, <1>2, <1>3, SpilledTotals
<1>5. Offer.pay \in Item
  BY ItemsAssumption
<1>6. Accounted'
  BY <1>1, <1>4 DEF AccountInv, Accounted
<1> QED
  BY <1>1, <1>2, <1>3, <1>4, <1>5, <1>6, LoopSetsStep

\* The loop gives what it has in its hands to p, and the rest back to the ground.
LEMMA HandOverKeeps ==
  ASSUME AccountInv, HandOver
  PROVE  AccountInv'
<1> DEFINE p == loop.who
           i == loop.loot.id
           n == loop.loot.count
           added == Add(inv[p], i, n)
<1>1. /\ loop.at = "handing" /\ LoopSets(p, added.slots, "filled")
      /\ ground' = [ground EXCEPT ![i] = @ + added.left] /\ loop' = Resting
      /\ UNCHANGED <<task, ledger>>
  BY DEF HandOver
<1>2. p \in Player /\ loop.loot \in Stack
  BY <1>1 DEF AccountInv, LoopKinds
<1>3. i \in Item /\ n \in Nat /\ \A j \in Item : Count(loop.loot, j) = IF j = i THEN n ELSE 0
  BY <1>2 DEF Stack, Count
<1>4. LoopKinds' /\ \A j \in Item : Count(loop'.loot, j) = 0
  BY <1>1, ItemsAssumption DEF LoopKinds, Resting, Empty, Count
<1> HIDE DEF p, i, n
<1>5. inv[p] \in Slots /\ ground \in [Item -> Nat] /\ Held \in Slot
  BY <1>2, WhatIsHeld
<1> DEFINE base == [slots |-> inv[p], left |-> n]
<1>6. added \in Folded /\ Puts(base, added, i)
  BY <1>3, <1>5, AddDoes
<1> HIDE DEF added
<1>7. added.slots \in Slots /\ added.left \in Nat /\ Grown(inv[p][Held], added.slots[Held])
  BY <1>5, <1>6 DEF Folded, Puts
<1>8. /\ Contained(added.slots, i) + added.left = Contained(inv[p], i) + n
      /\ \A j \in Item \ {i} : Contained(added.slots, j) = Contained(inv[p], j)
  BY <1>6 DEF Puts
<1>9. ground' \in [Item -> Nat] /\ ground'[i] = ground[i] + added.left /\ \A j \in Item \ {i} : ground'[j] = ground[j]
  BY <1>1, <1>3, <1>5, <1>7
<1>10. inv' = [inv EXCEPT ![p] = added.slots] /\ inv \in [Player -> Slots]
  BY <1>1 DEF LoopSets, AccountInv, ItemTypes
<1>11. ASSUME NEW j \in Item PROVE Total(j)' = Total(j)
  <2>1. /\ InHands(j) \in Nat /\ InHands(j)' \in Nat
        /\ Contained(inv[p], j) \in Nat /\ Contained(added.slots, j) \in Nat
        /\ InHands(j)' = InHands(j) - Contained(inv[p], j) + Contained(added.slots, j)
    BY <1>2, <1>7, <1>10, HandsChange
  <2>2. ground[j] \in Nat /\ ground'[j] \in Nat
    BY <1>5, <1>9
  <2>3. CASE j = i
    BY <1>3, <1>4, <1>7, <1>8, <1>9, <2>1, <2>2, <2>3 DEF Total
  <2>4. CASE j # i
    BY <1>3, <1>4, <1>8, <1>9, <2>1, <2>2, <2>4 DEF Total
  <2> QED
    BY <2>3, <2>4
<1>12. Accounted'
  BY <1>1, <1>11 DEF AccountInv, Accounted
<1> QED
  BY <1>1, <1>2, <1>4, <1>7, <1>9, <1>12, LoopSetsStep

LEMMA KillKeeps ==
  ASSUME AccountInv, NEW p \in Player, Kill(p)
  PROVE  AccountInv'
<1>1. /\ loop.at = "idle" /\ UNCHANGED <<inv, ground, task, touched, ledger>>
      /\ loop' = IF KeepInventory THEN loop ELSE [at |-> "killing", who |-> p, loot |-> Empty]
  BY DEF Kill
<1>2. loop.loot = Empty
  BY <1>1 DEF AccountInv, LoopKinds
<1>3. LoopKinds' /\ loop'.loot = loop.loot
  <2>1. CASE KeepInventory
    BY <1>1, <1>2, <2>1 DEF LoopKinds
  <2>2. CASE ~KeepInventory
    <3>1. loop' = [at |-> "killing", who |-> p, loot |-> Empty]
      BY <1>1, <2>2
    <3> QED
      BY <1>2, <3>1 DEF LoopKinds
  <2> QED
    BY <2>1, <2>2
<1>4. Accounted'
  BY <1>1, <1>3 DEF Accounted, AccountInv, Total, InHands
<1> QED
  BY <1>1, <1>3, <1>4, LoopStep DEF AccountInv, ItemTypes

\* Item i appears on the ground.
LEMMA DropKeeps ==
  ASSUME AccountInv, Drop
  PROVE  AccountInv'
<1>1. PICK i \in Item : ground' = [ground EXCEPT ![i] = @ + 1] /\ Book([Nothing EXCEPT ![i] = 1], {})
  BY DEF Drop
<1>2. UNCHANGED <<inv, task, loop, touched>>
  BY DEF Drop
<1>3. ItemTypes /\ LoopKinds /\ Accounted /\ ground \in [Item -> Nat]
  BY DEF AccountInv, ItemTypes
<1> DEFINE change == [Nothing EXCEPT ![i] = 1]
<1>4. \A j \in Item : change[j] = (IF j = i THEN 1 ELSE 0)
  BY DEF Nothing
<1>5. ground' \in [Item -> Nat] /\ \A j \in Item : ground'[j] = ground[j] + IF j = i THEN 1 ELSE 0
  BY <1>1, <1>3
<1>6. Book(change, {})
  BY <1>1
<1> HIDE DEF change
<1>7. ASSUME NEW j \in Item
      PROVE  /\ Total(j) \in Int /\ Total(j)' \in Int /\ change[j] \in Int
             /\ Booked(Total(j)' - Total(j), change[j], {})
  <2>1. InHands(j) \in Nat /\ Count(loop.loot, j) \in Nat /\ ground[j] \in Nat
    BY <1>3, HandsNatural, LootNatural DEF ItemTypes
  <2>2. InHands(j)' = InHands(j) /\ Count(loop'.loot, j) = Count(loop.loot, j)
    BY <1>2 DEF InHands
  <2> QED
    BY <1>4, <1>5, <2>1, <2>2 DEF Total, Booked
<1>8. Accounted' /\ ledger' \in [Item -> Int]
  BY <1>3, <1>6, <1>7, BookBalances
<1>9. LoopKinds'
  BY <1>2, <1>3 DEF LoopKinds
<1> QED
  BY <1>2, <1>5, <1>8, <1>9, LoopStep

\* A stack on the ground is gone, or in the hands of the loop.
LEMMA TickItemsKeeps ==
  ASSUME AccountInv, TickItems
  PROVE  AccountInv'
<1>0. PICK i \in Item : \E n \in 1..ground[i] :
        /\ n <= MaxStack[i]
        /\ ground' = [ground EXCEPT ![i] = @ - n]
        /\ \/ loop' = loop /\ Book([Nothing EXCEPT ![i] = -n], {})
           \/ /\ \E p \in Exposed : ~dead[p] /\ loop' = [at |-> "handing", who |-> p, loot |-> Of(i, n)]
              /\ UNCHANGED ledger
  BY DEF TickItems
<1>1. PICK n \in 1..ground[i] :
        /\ n <= MaxStack[i]
        /\ ground' = [ground EXCEPT ![i] = @ - n]
        /\ \/ loop' = loop /\ Book([Nothing EXCEPT ![i] = -n], {})
           \/ /\ \E p \in Exposed : ~dead[p] /\ loop' = [at |-> "handing", who |-> p, loot |-> Of(i, n)]
              /\ UNCHANGED ledger
  BY <1>0
<1>2. loop.at = "idle" /\ UNCHANGED <<inv, task, touched>>
  BY DEF TickItems
<1>3. /\ ItemTypes /\ LoopKinds /\ Accounted /\ ground \in [Item -> Nat] /\ loop.loot = Empty
      /\ ledger \in [Item -> Int]
  BY <1>2 DEF AccountInv, ItemTypes, LoopKinds
<1>4. n \in Nat /\ n > 0 /\ n <= ground[i] /\ ground[i] \in Nat
  BY <1>1, <1>3
<1>5. ground' \in [Item -> Nat] /\ \A j \in Item : ground'[j] = ground[j] - IF j = i THEN n ELSE 0
  BY <1>1, <1>3, <1>4
<1>6. \A j \in Item : /\ InHands(j) \in Nat /\ InHands(j)' = InHands(j) /\ ground[j] \in Nat
                      /\ Count(loop.loot, j) = 0
  BY <1>2, <1>3, HandsNatural, ItemsAssumption DEF ItemTypes, InHands, Empty, Count
<1>7. CASE loop' = loop /\ Book([Nothing EXCEPT ![i] = -n], {})
  <2>0. PICK m \in Int : m = -n
    BY <1>4
  <2> DEFINE change == [Nothing EXCEPT ![i] = m]
  <2>1. \A j \in Item : change[j] = (IF j = i THEN m ELSE 0)
    BY DEF Nothing
  <2>2. Book(change, {})
    BY <1>7, <2>0
  <2> HIDE DEF change
  <2>3. ASSUME NEW j \in Item
        PROVE  /\ Total(j) \in Int /\ Total(j)' \in Int /\ change[j] \in Int
               /\ Booked(Total(j)' - Total(j), change[j], {})
    BY <1>4, <1>5, <1>6, <1>7, <2>0, <2>1 DEF Total, Booked
  <2>4. Accounted' /\ ledger' \in [Item -> Int]
    BY <1>3, <2>2, <2>3, BookBalances
  <2>5. LoopKinds'
    BY <1>3, <1>7 DEF LoopKinds
  <2> QED
    BY <1>2, <1>5, <2>4, <2>5, LoopStep
<1>8. CASE (\E p \in Exposed : ~dead[p] /\ loop' = [at |-> "handing", who |-> p, loot |-> Of(i, n)]) /\ UNCHANGED ledger
  <2>1. PICK p \in Player : loop' = [at |-> "handing", who |-> p, loot |-> Of(i, n)]
    BY <1>8, ItemsAssumption
  <2>2. Of(i, n) \in Stack /\ \A j \in Item : Count(Of(i, n), j) = IF j = i THEN n ELSE 0
    BY <1>1, <1>4, SoMany
  <2>3. loop'.loot = Of(i, n) /\ loop'.at = "handing" /\ loop'.who = p
    BY <2>1
  <2>4. LoopKinds'
    BY <2>2, <2>3 DEF LoopKinds
  <2>5. ASSUME NEW j \in Item PROVE Total(j)' = Total(j)
    BY <1>4, <1>5, <1>6, <2>2, <2>3 DEF Total
  <2>6. Accounted'
    BY <1>3, <1>8, <2>5 DEF Accounted
  <2> QED
    BY <1>2, <1>3, <1>5, <1>8, <2>4, <2>6, LoopStep
<1> QED
  BY <1>1, <1>7, <1>8

LEMMA AccountInit == Init => AccountInv
<1> SUFFICES ASSUME Init PROVE AccountInv
  OBVIOUS
<1>1. inv = Carried /\ inv \in [Player -> Slots]
  BY ItemsAssumption DEF Init, Slots, StackOrEmpty
<1>2. /\ ground \in [Item -> Nat] /\ touched \in [Player -> SUBSET {"emptied", "filled"}]
      /\ \A i \in Item : ground[i] = 0
  BY DEF Init, Nothing
<1>3. TaskKinds
  BY Tasks DEF Init, TaskKinds
<1>4. CopiesAgree
  BY Tasks DEF Init, CopiesAgree, HasCopy
<1>5. LoopKinds
  BY DEF Init, LoopKinds, Resting
<1>6. ledger = [i \in Item |-> Total(i)]
  BY DEF Init
<1>7. ASSUME NEW i \in Item PROVE Total(i) \in Int
  BY <1>1, <1>2, <1>5, HandsNatural, LootNatural DEF Total
<1>8. ledger \in [Item -> Int] /\ Accounted
  BY <1>6, <1>7 DEF Accounted
<1> QED
  BY <1>1, <1>2, <1>3, <1>4, <1>5, <1>8 DEF AccountInv, ItemTypes

LEMMA AccountStep == AccountInv /\ [Next]_vars => AccountInv'
<1> SUFFICES ASSUME AccountInv, [Next]_vars PROVE AccountInv'
  OBVIOUS
<1>1. ASSUME NEW p \in Player, CheckStock(p) \/ Swap(p) \/ UseTrade(p) PROVE AccountInv'
  BY <1>1, QuietKeeps, SwapKeeps
<1>2. ASSUME NEW p \in Exposed,
             \/ Read(p) \/ Consume(p) \/ WriteBack(p) \/ GiveBack(p) \/ WearOut(p) \/ Give(p)
             \/ Kill(p) \/ Fall(p) \/ DropAll(p) \/ Respawn(p)
      PROVE  AccountInv'
  <2>1. p \in Player
    BY ItemsAssumption
  <2> QED
    BY <1>2, <2>1, ReadKeeps, ConsumeKeeps, WriteBackKeeps, GiveBackKeeps, WearOutKeeps, GiveKeeps,
       KillKeeps, QuietKeeps, DropAllKeeps
<1>3. CASE Restock
  <2>1. UNCHANGED <<inv, ground, task, loop, touched, ledger>>
    BY <1>3 DEF Restock
  <2>2. Accounted' /\ ledger' \in [Item -> Int] /\ ground' \in [Item -> Nat] /\ LoopKinds'
    BY <2>1 DEF AccountInv, Accounted, Total, InHands, ItemTypes, LoopKinds
  <2> QED
    BY <2>1, <2>2, LoopStep
<1>4. CASE UNCHANGED vars
  <2>1. UNCHANGED <<inv, ground, task, loop, touched, ledger>>
    BY <1>4 DEF vars
  <2>2. Accounted' /\ ledger' \in [Item -> Int] /\ ground' \in [Item -> Nat] /\ LoopKinds'
    BY <2>1 DEF AccountInv, Accounted, Total, InHands, ItemTypes, LoopKinds
  <2> QED
    BY <2>1, <2>2, LoopStep
<1> QED
  BY <1>1, <1>2, <1>3, <1>4, DropKeeps, TickItemsKeeps, HandOverKeeps, TakeAllKeeps DEF Next

(* Whatever the tasks and the game loop do between each other's steps, there are as many
   of each item as the ledger says: items move, and none appears or vanishes
   but in the three ways that are written off. *)
THEOREM ItemsAddUp == Spec => []Accounted
<1>1. AccountInv => Accounted
  BY DEF AccountInv
<1> QED
  BY <1>1, AccountInit, AccountStep, PTL DEF Spec

-----------------------------------------------------------------------------
(* The stock of an offer *)

\* The stock and the tasks are the right kind of thing, whatever the tasks do.
StockTypes == uses \in Nat /\ task = [p \in Player |-> task[p]]

\* The inductive invariant.  A player who passes the check leaves at most all the
\* others past it with one use to go, and counting a use takes one of them away.
StockInv == StockTypes /\ StockNearlyKept

LEMMA PlayersPastCheck ==
  /\ Cardinality(Player) \in Nat
  /\ IsFiniteSet(PastCheck)
  /\ Cardinality(PastCheck) \in Nat
  /\ Cardinality(PastCheck) <= Cardinality(Player)
<1>1. IsFiniteSet(Player)
  BY ItemsAssumption
<1>2. PastCheck \subseteq Player
  BY DEF PastCheck
<1> QED
  BY <1>1, <1>2, FS_Subset, FS_CardinalityType

\* A task that goes where no use is pending adds nobody to those past the check.
LEMMA GoingElsewhere ==
  ASSUME StockInv, NEW p \in Player, NEW t, t.at \notin {"trading", "counting"},
         task' = [task EXCEPT ![p] = t], uses' = uses
  PROVE  StockInv'
<1>1. PastCheck' \subseteq PastCheck
  BY DEF PastCheck, StockInv, StockTypes
<1>2. Cardinality(PastCheck') <= Cardinality(PastCheck)
  BY <1>1, PlayersPastCheck, FS_Subset
<1>3. Cardinality(PastCheck') \in Nat
  BY <1>1, PlayersPastCheck, FS_Subset, FS_CardinalityType
<1>4. StockTypes'
  BY DEF StockInv, StockTypes
<1>5. StockNearlyKept'
  BY <1>2, <1>3, PlayersPastCheck, ItemsAssumption DEF StockNearlyKept, StockInv, StockTypes
<1> QED
  BY <1>4, <1>5 DEF StockInv

LEMMA StockUntouched ==
  ASSUME StockInv, UNCHANGED <<uses, task>>
  PROVE  StockInv'
  BY DEF StockInv, StockTypes, StockNearlyKept, PastCheck

LEMMA StockInit == Init => StockInv
<1> SUFFICES ASSUME Init PROVE StockInv
  OBVIOUS
<1>1. StockTypes
  BY DEF Init, StockTypes
<1>2. PastCheck = {}
  BY DEF Init, PastCheck, Idle
<1>3. Cardinality(PastCheck) = 0
  BY <1>2, FS_EmptySet
<1>4. Cardinality(Player) >= 0 /\ Cardinality(Player) \in Nat
  BY PlayersPastCheck
<1> QED
  BY <1>1, <1>3, <1>4, ItemsAssumption DEF StockInv, StockNearlyKept, Init

LEMMA StockStep == StockInv /\ [Next]_vars => StockInv'
<1> SUFFICES ASSUME StockInv, [Next]_vars PROVE StockInv'
  OBVIOUS
<1>1. ASSUME NEW p \in Player, CheckStock(p) PROVE StockInv'
  <2>1. PastCheck \subseteq Player \ {p}
    BY <1>1 DEF CheckStock, PastCheck
  <2>2. Cardinality(PastCheck) <= Cardinality(Player) - 1
    <3>1. IsFiniteSet(Player) /\ IsFiniteSet(Player \ {p})
      BY ItemsAssumption, FS_RemoveElement
    <3>2. Cardinality(Player \ {p}) = Cardinality(Player) - 1
      BY <3>1, FS_RemoveElement
    <3>3. Cardinality(PastCheck) <= Cardinality(Player \ {p})
      BY <2>1, <3>1, FS_Subset
    <3> QED
      BY <3>2, <3>3
  <2>3. task' = [task EXCEPT ![p] = [at |-> "trading", copy |-> Empty, due |-> None]]
    BY <1>1 DEF CheckStock, Goto
  <2>4. PastCheck' = PastCheck \cup {p}
    BY <1>1, <2>3 DEF PastCheck, StockInv, StockTypes
  <2>5. Cardinality(PastCheck') = Cardinality(PastCheck) + 1
    BY <2>1, <2>4, PlayersPastCheck, FS_AddElement
  <2>6. uses' = uses /\ uses < MaxUses
    BY <1>1 DEF CheckStock
  <2>7. StockTypes'
    BY <2>3, <2>6 DEF StockInv, StockTypes
  <2>8. StockNearlyKept'
    BY <2>2, <2>5, <2>6, PlayersPastCheck, ItemsAssumption DEF StockNearlyKept, StockInv, StockTypes
  <2> QED
    BY <2>7, <2>8 DEF StockInv
<1>2. ASSUME NEW p \in Player, Swap(p) PROVE StockInv'
  <2>1. CASE task' = [task EXCEPT ![p] = Idle]
    BY <1>2, <2>1, GoingElsewhere DEF Swap, Idle
  <2>2. CASE task' = [task EXCEPT ![p] = [at |-> "counting", copy |-> Empty, due |-> None]]
    <3>1. PastCheck' = PastCheck
      BY <1>2, <2>2 DEF Swap, PastCheck, StockInv, StockTypes
    <3> QED
      BY <1>2, <2>2, <3>1 DEF Swap, StockInv, StockTypes, StockNearlyKept
  <2> QED
    BY <1>2, <2>1, <2>2 DEF Swap, Goto
<1>3. ASSUME NEW p \in Player, UseTrade(p) PROVE StockInv'
  <2>1. PastCheck' = PastCheck \ {p}
    BY <1>3 DEF UseTrade, PastCheck, Idle, StockInv, StockTypes
  <2>2. p \in PastCheck
    BY <1>3 DEF UseTrade, PastCheck
  <2>3. Cardinality(PastCheck') = Cardinality(PastCheck) - 1
    BY <2>1, <2>2, PlayersPastCheck, FS_RemoveElement
  <2>4. StockTypes'
    BY <1>3 DEF UseTrade, StockInv, StockTypes
  <2>5. StockNearlyKept'
    BY <1>3, <2>3, PlayersPastCheck, ItemsAssumption DEF UseTrade, StockNearlyKept, StockInv, StockTypes
  <2> QED
    BY <2>4, <2>5 DEF StockInv
<1>4. ASSUME Restock PROVE StockInv'
  <2>1. uses' = 0 /\ PastCheck' = PastCheck /\ task' = task
    BY <1>4 DEF Restock, PastCheck
  <2> QED
    BY <2>1, PlayersPastCheck, ItemsAssumption DEF StockInv, StockTypes, StockNearlyKept
<1>5. ASSUME NEW p \in Exposed,
             Consume(p) \/ WriteBack(p) \/ GiveBack(p) \/ WearOut(p) \/ DropAll(p) \/ Read(p) \/ Fall(p)
      PROVE  StockInv'
  <2>1. p \in Player
    BY ItemsAssumption
  <2>2. uses' = uses
    BY <1>5 DEF Consume, WriteBack, GiveBack, WearOut, DropAll, Read, Fall, Gain
  <2>3. task' = task \/ \E t : t.at \notin {"trading", "counting"} /\ task' = [task EXCEPT ![p] = t]
    <3>1. Idle.at \notin {"trading", "counting"}
      BY DEF Idle
    <3>2. CASE GiveBack(p) \/ WearOut(p) \/ DropAll(p)
      BY <3>1, <3>2 DEF GiveBack, WearOut, DropAll
    <3>3. CASE Consume(p)
      BY <3>1, <3>3 DEF Consume, Owing, Goto
    <3>4. CASE WriteBack(p)
      BY <3>1, <3>4 DEF WriteBack, Owing, Goto
    <3>5. CASE Read(p)
      BY <3>5 DEF Read, Goto
    <3>6. CASE Fall(p)
      BY <3>6 DEF Fall, Goto
    <3> QED
      BY <1>5, <3>2, <3>3, <3>4, <3>5, <3>6
  <2> QED
    BY <2>1, <2>2, <2>3, GoingElsewhere, StockUntouched
<1>6. ASSUME UNCHANGED <<uses, task>> PROVE StockInv'
  BY <1>6, StockUntouched
<1>7. ASSUME NEW p \in Exposed, Give(p) \/ Kill(p) \/ Respawn(p) PROVE UNCHANGED <<uses, task>>
  BY <1>7 DEF Give, Gain, Kill, Respawn
<1>8. ASSUME Drop \/ TickItems \/ HandOver \/ TakeAll PROVE UNCHANGED <<uses, task>>
  BY <1>8 DEF Drop, TickItems, HandOver, TakeAll
<1> QED
  BY <1>1, <1>2, <1>3, <1>4, <1>5, <1>6, <1>7, <1>8 DEF Next, vars

(* An offer is oversold by at most one less than there are players: the stock
   check of do_trade and its counting of the use are apart, but only those players
   get in between who passed the check as well. *)
THEOREM StockBound == Spec => []StockNearlyKept
<1>1. Init => StockInv
  BY StockInit
<1>2. StockInv /\ [Next]_vars => StockInv'
  BY StockStep
<1>3. StockInv => StockNearlyKept
  BY DEF StockInv
<1> QED
  BY <1>1, <1>2, <1>3, PTL DEF Spec
=============================================================================
