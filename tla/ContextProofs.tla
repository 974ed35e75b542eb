----------------------------- MODULE ContextProofs -----------------------------
(***************************************************************************)
(* Theorems about ContextPackets and AgentContext, for any notes,          *)
(* questions, texts, sessions, archives and recalls: what a packet costs,  *)
(* cites and warns of, how scopes share its room, what a search of the     *)
(* archives leaves out, and what a context block holds.                    *)
(***************************************************************************)
EXTENDS ContextPackets, AgentContext, FiniteSetTheorems, WellFoundedInduction, TLAPS

-----------------------------------------------------------------------------
(* Numbers and finite sets.                                                *)

LEMMA MaxOfTwo ==
  ASSUME NEW a \in Int, NEW b \in Int
  PROVE  Max({a, b}) \in Int /\ Max({a, b}) >= a /\ Max({a, b}) >= b /\ Max({a, b}) \in {a, b}
<1>1. \E x \in {a, b} : \A y \in {a, b} : x >= y
  OBVIOUS
<1> QED
  BY <1>1 DEF Max

LEMMA MinOfTwo ==
  ASSUME NEW a \in Int, NEW b \in Int
  PROVE  Min({a, b}) <= a /\ Min({a, b}) <= b /\ Min({a, b}) \in {a, b}
<1>1. \E x \in {a, b} : \A y \in {a, b} : x =< y
  OBVIOUS
<1> QED
  BY <1>1 DEF Min

\* A set of numbers that is not empty has a least one, which is its Min.
LEMMA LeastNumber ==
  ASSUME NEW S \in SUBSET Nat, S # {}
  PROVE  Min(S) \in S /\ \A k \in S : Min(S) <= k
<1> DEFINE G == {1 .. k : k \in S}
<1>1. G \subseteq FiniteSubsetsOf(Nat) /\ G # {}
  <2>1. \A k \in S : IsFiniteSet(1 .. k) /\ 1 .. k \subseteq Nat
    BY FS_Interval
  <2> QED
    BY <2>1 DEF FiniteSubsetsOf
<1>2. PICK g \in G : \A h \in G : <<h, g>> \notin StrictSubsetOrdering(Nat)
  BY <1>1, FS_StrictSubsetOrderingWellFounded, WFMin
<1>3. PICK m \in S : g = 1 .. m
  OBVIOUS
<1>4. ASSUME NEW k \in S PROVE m <= k
  <2>1. SUFFICES ASSUME k < m PROVE FALSE
    OBVIOUS
  <2>2. 1 .. k \in G /\ 1 .. k \subseteq Nat /\ g \subseteq Nat
    BY <1>3
  <2>3. 1 .. k \subseteq g /\ m \in g /\ m \notin 1 .. k
    BY <1>3, <2>1
  <2> QED
    BY <1>2, <2>2, <2>3 DEF StrictSubsetOrdering
<1> QED
  BY <1>4 DEF Min

\* A bounded set of numbers that is not empty has a greatest one.
LEMMA GreatestNumber ==
  ASSUME NEW n \in Nat, NEW S \in SUBSET (0 .. n), S # {}
  PROVE  \E m \in S : \A k \in S : k <= m
<1> DEFINE D == {n - k : k \in S}
<1>1. D \in SUBSET Nat /\ D # {}
  <2>1. \A k \in S : n - k \in Nat
    OBVIOUS
  <2> QED
    BY <2>1
<1>2. Min(D) \in D /\ \A x \in D : Min(D) <= x
  BY <1>1, LeastNumber
<1>3. PICK m \in S : Min(D) = n - m
  BY <1>2
<1>4. ASSUME NEW k \in S PROVE k <= m
  <2>1. n - k \in D
    OBVIOUS
  <2>2. n - m <= n - k
    BY <1>2, <1>3, <2>1
  <2> QED
    BY <2>2
<1> QED
  BY <1>4

\* Of the numbers up to n for which all the numbers up to them fit, there is a largest;
\* and if it is not n, its successor does not fit.
LEMMA LargestFitting ==
  ASSUME NEW n \in Nat, NEW F \in SUBSET Nat
  PROVE  LET m == Max({k \in 0 .. n : \A j \in 1 .. k : j \in F}) IN
         /\ m \in 0 .. n /\ \A j \in 1 .. m : j \in F
         /\ m # n => m + 1 \notin F
<1> DEFINE S == {k \in 0 .. n : \A j \in 1 .. k : j \in F}
<1>1. 0 \in S /\ S \in SUBSET (0 .. n)
  OBVIOUS
<1>2. \A k \in 0 .. n : k \in S <=> \A j \in 1 .. k : j \in F
  OBVIOUS
<1> HIDE DEF S
<1>3. PICK m \in S : \A k \in S : k <= m
  BY <1>1, GreatestNumber
<1>4. \E x \in S : \A y \in S : x >= y
  BY <1>1, <1>3
<1>5. Max(S) \in S /\ \A y \in S : Max(S) >= y
  BY <1>4 DEF Max
<1> DEFINE top == Max(S)
<1>6. top \in 0 .. n /\ \A j \in 1 .. top : j \in F
  BY <1>1, <1>2, <1>5
<1>7. \A y \in S : top >= y
  BY <1>5
<1> HIDE DEF top
<1>8. ASSUME top # n, top + 1 \in F PROVE FALSE
  <2>1. top + 1 \in 0 .. n /\ \A j \in 1 .. (top + 1) : j \in F
    BY <1>6, <1>8
  <2>2. top + 1 \in S
    BY <1>2, <2>1
  <2> QED
    BY <1>6, <1>7, <2>2
<1> QED
  BY <1>6, <1>8 DEF S, top

LEMMA SmallestSet ==
  ASSUME NEW D, IsFiniteSet(D), NEW B \in SUBSET SUBSET D, B # {}
  PROVE  \E t \in B : \A u \in B : u \subseteq t => u = t
<1>1. B \subseteq FiniteSubsetsOf(D)
  BY FS_Subset DEF FiniteSubsetsOf
<1>2. PICK t \in B : \A u \in B : <<u, t>> \notin StrictSubsetOrdering(D)
  BY <1>1, FS_StrictSubsetOrderingWellFounded, WFMin
<1>3. \A u \in B : u \subseteq t => u = t
  BY <1>2 DEF StrictSubsetOrdering
<1> QED
  BY <1>3

-----------------------------------------------------------------------------
(* Orders of finite sets, and sequences.                                   *)

\* R is a strict and total order of S.
IsOrder(R, S) ==
  /\ \A c \in S : <<c, c>> \notin R
  /\ \A c, d, e \in S : <<c, d>> \in R /\ <<d, e>> \in R => <<c, e>> \in R
  /\ \A c, d \in S : c = d \/ <<c, d>> \in R \/ <<d, c>> \in R

\* How many elements of S come before c.
Rank(S, R, c) == Cardinality({d \in S : <<d, c>> \in R})

LEMMA RanksAreNumbers ==
  ASSUME NEW S, IsFiniteSet(S), NEW R, IsOrder(R, S), NEW c \in S
  PROVE  Rank(S, R, c) \in 0 .. (Cardinality(S) - 1)
<1> DEFINE below == {d \in S : <<d, c>> \in R}
<1>1. below \subseteq S \ {c}
  BY DEF IsOrder
<1>2. IsFiniteSet(S \ {c}) /\ Cardinality(S \ {c}) = Cardinality(S) - 1
  BY FS_RemoveElement
<1> HIDE DEF below
<1>3. IsFiniteSet(below) /\ Cardinality(below) <= Cardinality(S) - 1
  BY <1>1, <1>2, FS_Subset
<1>4. Cardinality(below) \in Nat /\ Cardinality(S) \in Nat
  BY <1>3, FS_CardinalityType
<1> QED
  BY <1>3, <1>4 DEF Rank, below

LEMMA RanksGrow ==
  ASSUME NEW S, IsFiniteSet(S), NEW R, IsOrder(R, S), NEW c \in S, NEW d \in S, <<c, d>> \in R
  PROVE  Rank(S, R, c) < Rank(S, R, d)
<1> DEFINE before == {e \in S : <<e, c>> \in R}
           below == {e \in S : <<e, d>> \in R}
<1>1. before \subseteq below \ {c} /\ c \in below
  BY DEF IsOrder
<1>2. IsFiniteSet(below)
  BY FS_Subset
<1> HIDE DEF before, below
<1>3. IsFiniteSet(below \ {c}) /\ Cardinality(below \ {c}) = Cardinality(below) - 1
  BY <1>1, <1>2, FS_RemoveElement
<1>4. IsFiniteSet(before) /\ Cardinality(before) <= Cardinality(below) - 1
  BY <1>1, <1>3, FS_Subset
<1>5. Cardinality(before) \in Nat /\ Cardinality(below) \in Nat
  BY <1>2, <1>4, FS_CardinalityType
<1>6. Cardinality(before) < Cardinality(below)
  BY <1>4, <1>5
<1> QED
  BY <1>6 DEF Rank, before, below

\* A finite set in an order of it: every element is there once, and in its place.
LEMMA InOrderIsSorted ==
  ASSUME NEW S, IsFiniteSet(S), NEW R, IsOrder(R, S)
  PROVE  /\ Cardinality(S) \in Nat
         /\ InOrder(S, R) \in [1 .. Cardinality(S) -> S]
         /\ \A c \in S : \E k \in 1 .. Cardinality(S) : InOrder(S, R)[k] = c
         /\ \A i, j \in 1 .. Cardinality(S) : i < j <=> <<InOrder(S, R)[i], InOrder(S, R)[j]>> \in R
<1> DEFINE n == Cardinality(S)
           q == InOrder(S, R)
           rank == [c \in S |-> Rank(S, R, c)]
<1>1. n \in Nat
  BY FS_CardinalityType
<1> HIDE DEF n
<1>2. rank \in [S -> 0 .. (n - 1)]
  BY RanksAreNumbers DEF n
<1>3. \A c, d \in S : <<c, d>> \in R => rank[c] < rank[d]
  BY RanksGrow
<1> HIDE DEF rank
<1>4. \A c, d \in S : rank[c] = rank[d] => c = d
  <2> SUFFICES ASSUME NEW c \in S, NEW d \in S, rank[c] = rank[d], c # d PROVE FALSE
    OBVIOUS
  <2>1. <<c, d>> \in R \/ <<d, c>> \in R
    BY DEF IsOrder
  <2>2. rank[c] < rank[d] \/ rank[d] < rank[c]
    BY <1>3, <2>1
  <2> QED
    BY <1>2, <2>2
<1>5. rank \in Injection(S, 0 .. (n - 1))
  BY <1>2, <1>4 DEF Injection, IsInjective
<1>6. IsFiniteSet(0 .. (n - 1)) /\ Cardinality(0 .. (n - 1)) = n
  BY <1>1, FS_Interval
<1>7. rank \in Surjection(S, 0 .. (n - 1))
  BY <1>5, <1>6, FS_Injection DEF n
<1>8. \A k \in 1 .. n : \E c \in S : rank[c] = k - 1
  <2>1. \A t \in 0 .. (n - 1) : \E c \in S : rank[c] = t
    BY <1>7, Zenon DEF Surjection
  <2> TAKE k \in 1 .. n
  <2>2. k - 1 \in 0 .. (n - 1)
    BY <1>1
  <2> QED
    BY <2>1, <2>2
<1>9. \A c \in S : rank[c] = Cardinality({d \in S : <<d, c>> \in R})
  BY DEF rank, Rank
<1>10. q = [k \in 1 .. n |-> CHOOSE c \in S : Cardinality({d \in S : <<d, c>> \in R}) = k - 1]
  BY DEF InOrder, n
<1> HIDE DEF q
<1>11. \A k \in 1 .. n : q[k] \in S /\ rank[q[k]] = k - 1
  <2> TAKE k \in 1 .. n
  <2>1. q[k] = CHOOSE c \in S : Cardinality({d \in S : <<d, c>> \in R}) = k - 1
    BY <1>10
  <2>2. \E c \in S : Cardinality({d \in S : <<d, c>> \in R}) = k - 1
    BY <1>8, <1>9
  <2>3. q[k] \in S /\ Cardinality({d \in S : <<d, q[k]>> \in R}) = k - 1
    BY <2>1, <2>2, Zenon
  <2> QED
    BY <1>9, <2>3
<1>12. q \in [1 .. n -> S]
  BY <1>10, <1>11
<1>13. \A c \in S : \E k \in 1 .. n : q[k] = c
  <2> TAKE c \in S
  <2>1. rank[c] + 1 \in 1 .. n
    BY <1>1, <1>2
  <2>2. rank[q[rank[c] + 1]] = rank[c] /\ q[rank[c] + 1] \in S
    BY <1>1, <1>2, <1>11, <2>1
  <2> QED
    BY <1>4, <2>1, <2>2
<1>14. \A i, j \in 1 .. n : i < j <=> <<q[i], q[j]>> \in R
  <2> TAKE i, j \in 1 .. n
  <2>1. q[i] \in S /\ q[j] \in S /\ rank[q[i]] = i - 1 /\ rank[q[j]] = j - 1
    BY <1>11
  <2>2. q[i] = q[j] \/ <<q[i], q[j]>> \in R \/ <<q[j], q[i]>> \in R
    BY <2>1 DEF IsOrder
  <2>3. <<q[i], q[j]>> \in R => i - 1 < j - 1
    BY <1>3, <2>1
  <2>4. <<q[j], q[i]>> \in R => j - 1 < i - 1
    BY <1>3, <2>1
  <2>5. q[i] = q[j] => i - 1 = j - 1
    BY <2>1, Zenon
  <2> QED
    BY <1>1, <2>2, <2>3, <2>4, <2>5
<1> QED
  BY <1>1, <1>12, <1>13, <1>14 DEF n, q

-----------------------------------------------------------------------------
(* Sequences.                                                              *)

LEMMA KeptElements ==
  ASSUME NEW C, NEW s \in Seq(C), NEW T
  PROVE  /\ Kept(s, T) \in Seq(C)
         /\ ToSet(Kept(s, T)) = ToSet(s) \cap T
         /\ IsInjective(s) => IsInjective(Kept(s, T))
<1> DEFINE places == {i \in DOMAIN s : s[i] \in T}
           R == {p \in places \X places : p[1] < p[2]}
           nth == InOrder(places, R)
           n == Cardinality(places)
<1>1. Len(s) \in Nat /\ DOMAIN s = 1 .. Len(s) /\ places \subseteq 1 .. Len(s)
  OBVIOUS
<1>2. IsFiniteSet(places)
  <2>1. IsFiniteSet(1 .. Len(s))
    BY <1>1, FS_Interval
  <2> QED
    BY <1>1, <2>1, FS_Subset
<1>3. \A i, j \in places : <<i, j>> \in R <=> i < j
  OBVIOUS
<1>4. places \subseteq Nat
  BY <1>1
<1>5. Kept(s, T) = [k \in DOMAIN nth |-> s[nth[k]]]
  BY DEF Kept
<1>6. \A i \in 1 .. Len(s) : s[i] \in C
  OBVIOUS
<1>7. \A i \in places : i \in 1 .. Len(s) /\ s[i] \in T
  OBVIOUS
<1>8. \A i \in 1 .. Len(s) : s[i] \in T => i \in places
  BY <1>1
<1> HIDE DEF places, R
<1>9. IsOrder(R, places)
  BY <1>3, <1>4 DEF IsOrder
<1>10. /\ n \in Nat /\ nth \in [1 .. n -> places]
       /\ \A i \in places : \E k \in 1 .. n : nth[k] = i
       /\ \A i, j \in 1 .. n : i < j <=> <<nth[i], nth[j]>> \in R
  BY <1>2, <1>9, InOrderIsSorted
<1> HIDE DEF nth, n
<1>11. DOMAIN nth = 1 .. n /\ DOMAIN Kept(s, T) = 1 .. n
  BY <1>5, <1>10
<1>12. \A k \in 1 .. n : Kept(s, T)[k] = s[nth[k]] /\ nth[k] \in places
  BY <1>5, <1>10, <1>11
<1>13. Kept(s, T) \in [1 .. n -> C]
  BY <1>5, <1>6, <1>7, <1>11, <1>12
<1>14. Kept(s, T) \in Seq(C)
  BY <1>10, <1>13
<1>15. ToSet(Kept(s, T)) = ToSet(s) \cap T
  <2>1. ToSet(Kept(s, T)) = {Kept(s, T)[k] : k \in 1 .. n} /\ ToSet(s) = {s[i] : i \in 1 .. Len(s)}
    BY <1>1, <1>11 DEF ToSet
  <2>2. ASSUME NEW k \in 1 .. n PROVE Kept(s, T)[k] \in T /\ \E i \in 1 .. Len(s) : Kept(s, T)[k] = s[i]
    BY <1>7, <1>12
  <2>3. ASSUME NEW i \in 1 .. Len(s), s[i] \in T PROVE \E k \in 1 .. n : Kept(s, T)[k] = s[i]
    BY <1>8, <1>10, <1>12, <2>3
  <2> QED
    BY <2>1, <2>2, <2>3
<1>16. ASSUME IsInjective(s), NEW i \in 1 .. n, NEW j \in 1 .. n, Kept(s, T)[i] = Kept(s, T)[j]
       PROVE  i = j
  <2>1. nth[i] \in 1 .. Len(s) /\ nth[j] \in 1 .. Len(s) /\ s[nth[i]] = s[nth[j]]
    BY <1>7, <1>12, <1>16, Zenon
  <2>2. nth[i] = nth[j]
    BY <1>1, <1>16, <2>1 DEF IsInjective
  <2>3. nth[i] \in places /\ <<nth[i], nth[i]>> \notin R
    BY <1>9, <1>12 DEF IsOrder
  <2>4. ~(i < j) /\ ~(j < i)
    BY <1>10, <2>2, <2>3
  <2> QED
    BY <1>10, <2>4
<1>17. IsInjective(s) => IsInjective(Kept(s, T))
  BY <1>11, <1>16 DEF IsInjective
<1> QED
  BY <1>14, <1>15, <1>17

LEMMA TakenElements ==
  ASSUME NEW C, NEW s \in Seq(C), NEW n \in Nat
  PROVE  /\ Take(s, n) \in Seq(C)
         /\ Len(Take(s, n)) = IF n <= Len(s) THEN n ELSE Len(s)
         /\ \A i \in 1 .. Len(Take(s, n)) : Take(s, n)[i] = s[i]
<1> DEFINE m == Min({n, Len(s)})
<1>1. m = IF n <= Len(s) THEN n ELSE Len(s)
  <2>1. Len(s) \in Nat
    OBVIOUS
  <2>2. {n, Len(s)} \in SUBSET Nat /\ {n, Len(s)} # {}
    BY <2>1
  <2>3. m \in {n, Len(s)} /\ m <= n /\ m <= Len(s)
    BY <2>2, LeastNumber
  <2> HIDE DEF m
  <2> QED
    BY <2>1, <2>3
<1>2. Take(s, n) = SubSeq(s, 1, m)
  BY DEF Take
<1> HIDE DEF m
<1>3. m \in 0 .. Len(s)
  BY <1>1
<1> QED
  BY <1>1, <1>2, <1>3

LEMMA TakenIsInjective ==
  ASSUME NEW C, NEW s \in Seq(C), IsInjective(s), NEW n \in Nat
  PROVE  /\ Take(s, n) \in Seq(C) /\ IsInjective(Take(s, n))
         /\ ToSet(Take(s, n)) \subseteq ToSet(s)
         /\ s # <<>> /\ n # 0 => Take(s, n) # <<>> /\ Take(s, n)[1] = s[1]
<1> DEFINE t == Take(s, n)
           l == Len(t)
<1>1. /\ t \in Seq(C) /\ l = (IF n <= Len(s) THEN n ELSE Len(s))
      /\ \A i \in 1 .. l : t[i] = s[i]
  BY TakenElements
<1> HIDE DEF t
<1>2. l \in 0 .. Len(s) /\ DOMAIN t = 1 .. l /\ Len(s) \in Nat /\ DOMAIN s = 1 .. Len(s)
  BY <1>1
<1>3. \A i \in 1 .. l : i \in 1 .. Len(s)
  BY <1>2
<1>4. IsInjective(t)
  BY <1>1, <1>2, <1>3 DEF IsInjective
<1>5. ToSet(t) \subseteq ToSet(s)
  BY <1>1, <1>2, <1>3 DEF ToSet
<1>6. ASSUME s # <<>>, n # 0 PROVE t # <<>> /\ t[1] = s[1]
  <2>1. Len(s) >= 1
    BY <1>2, <1>6
  <2>2. 1 \in 1 .. l
    BY <1>1, <1>6, <2>1
  <2> QED
    BY <1>1, <1>2, <2>2
<1> QED
  BY <1>1, <1>4, <1>5, <1>6 DEF t

\* Where an element of a sequence is first.
LEMMA PlaceIsFirst ==
  ASSUME NEW s, Len(s) \in Nat, DOMAIN s = 1 .. Len(s), NEW c \in ToSet(s)
  PROVE  /\ Place(s, c) \in 0 .. (Len(s) - 1) /\ s[Place(s, c) + 1] = c
         /\ \A j \in 1 .. Place(s, c) : s[j] # c
<1> DEFINE I == {i \in 1 .. Len(s) : s[i] = c}
<1>1. I \in SUBSET Nat /\ I # {}
  BY DEF ToSet
<1>2. Place(s, c) = Min(I) - 1
  BY <1>1 DEF Place, SelectInSeq
<1> DEFINE m == Min(I)
<1>3. m \in I /\ \A k \in I : m <= k
  BY <1>1, LeastNumber
<1> HIDE DEF m
<1>4. m \in 1 .. Len(s) /\ s[m] = c /\ \A j \in 1 .. Len(s) : s[j] = c => m <= j
  BY <1>3
<1>5. Place(s, c) = m - 1
  BY <1>2 DEF m
<1> QED
  BY <1>4, <1>5

\* A sequence holds finitely many elements.
LEMMA ElementsAreFinite ==
  ASSUME NEW s, Len(s) \in Nat, DOMAIN s = 1 .. Len(s)
  PROVE  IsFiniteSet(ToSet(s))
<1> DEFINE f == [i \in 1 .. Len(s) |-> s[i]]
<1>1. f \in Surjection(1 .. Len(s), ToSet(s))
  BY DEF Surjection, ToSet
<1>2. IsFiniteSet(1 .. Len(s))
  BY FS_Interval
<1> HIDE DEF f
<1> QED
  BY <1>1, <1>2, FS_Surjection

\* A finite set in an order is a sequence of its elements, each of them once.
LEMMA InOrderIsSequence ==
  ASSUME NEW S, IsFiniteSet(S), NEW R, IsOrder(R, S)
  PROVE  /\ InOrder(S, R) \in Seq(S) /\ Len(InOrder(S, R)) = Cardinality(S)
         /\ ToSet(InOrder(S, R)) = S /\ IsInjective(InOrder(S, R))
<1> DEFINE n == Cardinality(S)
           q == InOrder(S, R)
<1>1. /\ n \in Nat /\ q \in [1 .. n -> S]
      /\ \A c \in S : \E k \in 1 .. n : q[k] = c
      /\ \A i, j \in 1 .. n : i < j <=> <<q[i], q[j]>> \in R
  BY InOrderIsSorted
<1> HIDE DEF n, q
<1>2. q \in Seq(S) /\ Len(q) = n /\ DOMAIN q = 1 .. n
  BY <1>1
<1>3. ToSet(q) = S
  BY <1>1, <1>2 DEF ToSet
<1>4. ASSUME NEW i \in 1 .. n, NEW j \in 1 .. n, q[i] = q[j] PROVE i = j
  <2>1. <<q[i], q[i]>> \notin R
    BY <1>1 DEF IsOrder
  <2>2. ~(i < j) /\ ~(j < i)
    BY <1>1, <1>4, <2>1
  <2> QED
    BY <1>1, <2>2
<1>5. IsInjective(q)
  BY <1>2, <1>4 DEF IsInjective
<1> QED
  BY <1>2, <1>3, <1>5 DEF n, q

-----------------------------------------------------------------------------
(* Ranking.                                                                *)

LEMMA QuestionFields ==
  ASSUME NEW q \in Questions
  PROVE  /\ q.lexical \in Seq(Chunks) /\ q.vector \in Seq(Chunks) /\ q.similarity \in Int
         /\ q.maxTokens \in Nat \ {0} /\ q.maxSources \in Nat \ {0}
         /\ q.maxRawExcerpts \in Nat /\ q.maxSummarySentences \in Nat
<1> DEFINE Scores == 0 .. 10000
<1>1. Scores \subseteq Int
  OBVIOUS
<1>2. q \in [lexical : Seq(Chunks), vector : Seq(Chunks), similarity : Scores,
             hierarchical : BOOLEAN, excerpts : BOOLEAN, model : BOOLEAN,
             maxTokens : Nat \ {0}, maxSources : Nat \ {0}, maxRawExcerpts : Nat,
             maxSummarySentences : Nat]
  BY QuestionAssumption DEF Question
<1> HIDE DEF Scores
<1> QED
  BY <1>1, <1>2

LEMMA ReciprocalsAreNumbers ==
  ASSUME NEW s \in Seq(Chunks), NEW c
  PROVE  Reciprocal(s, c) \in Int
<1>1. CASE Contains(s, c)
  <2>1. c \in ToSet(s) /\ Len(s) \in Nat /\ DOMAIN s = 1 .. Len(s)
    BY <1>1 DEF Contains, ToSet
  <2>2. Place(s, c) \in Nat
    BY <2>1, PlaceIsFirst
  <2> DEFINE p == Place(s, c)
  <2> HIDE DEF p
  <2>3. p \in Nat => 10000 \div (61 + p) \in Int
    OBVIOUS
  <2> QED
    BY <1>1, <2>2, <2>3 DEF Reciprocal, p
<1>2. CASE ~Contains(s, c)
  BY <1>2 DEF Reciprocal
<1> QED
  BY <1>1, <1>2

LEMMA ScoresAreNumbers ==
  ASSUME question \in Questions, NEW lexical \in Seq(Chunks), NEW vector \in Seq(Chunks),
         NEW c \in Chunks
  PROVE  FusedScore(lexical, vector, c) \in Int
<1>1. question.similarity \in Int
  BY QuestionFields
<1>2. NoteOf(c) \in Cited
  BY DEF Chunks, NoteOf
<1>3. NoteInfo[NoteOf(c)].boost \in Int /\ StalenessAdjustment(NoteOf(c)) \in Int
  BY <1>2, NoteAssumption DEF StalenessAdjustment
<1>4. Reciprocal(lexical, c) \in Int /\ Reciprocal(vector, c) \in Int
  BY ReciprocalsAreNumbers
<1>5. LexicalScore + LexicalScore \div 4 \in Int
  BY DEF LexicalScore
<1> QED
  BY <1>1, <1>3, <1>4, <1>5 DEF FusedScore

\* The ranking holds each of the chunks found once.
LEMMA RankingIsSequence ==
  ASSUME question \in Questions, NEW hits1 \in Seq(Chunks), NEW hits2 \in Seq(Chunks)
  PROVE  /\ RankCandidates(hits1, hits2).order \in Seq(Chunks)
         /\ IsInjective(RankCandidates(hits1, hits2).order)
<1> DEFINE lexical == Kept(hits1, stored)
           vector == Kept(hits2, stored)
           all == lexical \o Kept(vector, Chunks \ ToSet(lexical))
           score == [c \in ToSet(all) |-> FusedScore(lexical, vector, c)]
           R == {p \in ToSet(all) \X ToSet(all) :
                   \/ score[p[1]] > score[p[2]]
                   \/ score[p[1]] = score[p[2]] /\ Place(all, p[1]) < Place(all, p[2])}
           order == InOrder(ToSet(all), R)
<1>1. lexical \in Seq(Chunks) /\ vector \in Seq(Chunks)
  BY KeptElements
<1> HIDE DEF lexical, vector
<1>2. Kept(vector, Chunks \ ToSet(lexical)) \in Seq(Chunks)
  BY <1>1, KeptElements
<1>3. all \in Seq(Chunks) /\ Len(all) \in Nat /\ DOMAIN all = 1 .. Len(all)
  BY <1>1, <1>2
<1>4. RankCandidates(hits1, hits2).order = Take(order, RankedLimit)
  BY DEF RankCandidates, lexical, vector
<1> HIDE DEF all
<1>5. ToSet(all) \subseteq Chunks
  BY <1>3 DEF ToSet
<1>6. \A c \in ToSet(all) : score[c] \in Int
  BY <1>1, <1>5, ScoresAreNumbers
<1>7. \A c \in ToSet(all) : Place(all, c) \in Int /\ all[Place(all, c) + 1] = c
  BY <1>3, PlaceIsFirst
<1> HIDE DEF score
<1>8. \A c, d \in ToSet(all) :
        <<c, d>> \in R <=> \/ score[c] > score[d]
                           \/ score[c] = score[d] /\ Place(all, c) < Place(all, d)
  OBVIOUS
<1> HIDE DEF R
<1>9. IsOrder(R, ToSet(all))
  <2>1. \A c \in ToSet(all) : <<c, c>> \notin R
    BY <1>6, <1>7, <1>8
  <2>2. \A c, d, e \in ToSet(all) : <<c, d>> \in R /\ <<d, e>> \in R => <<c, e>> \in R
    BY <1>6, <1>7, <1>8
  <2>3. \A c, d \in ToSet(all) : c = d \/ <<c, d>> \in R \/ <<d, c>> \in R
    <3> SUFFICES ASSUME NEW c \in ToSet(all), NEW d \in ToSet(all), c # d
                 PROVE  <<c, d>> \in R \/ <<d, c>> \in R
      OBVIOUS
    <3>1. Place(all, c) # Place(all, d)
      BY <1>7
    <3>2. /\ score[c] \in Int /\ score[d] \in Int
          /\ Place(all, c) \in Int /\ Place(all, d) \in Int
      BY <1>6, <1>7
    <3>3. \/ score[c] > score[d] \/ score[d] > score[c]
          \/ score[c] = score[d] /\ Place(all, c) < Place(all, d)
          \/ score[d] = score[c] /\ Place(all, d) < Place(all, c)
      BY <3>1, <3>2
    <3> QED
      BY <1>8, <3>3, Zenon
  <2> QED
    BY <2>1, <2>2, <2>3 DEF IsOrder
<1>10. IsFiniteSet(ToSet(all))
  BY <1>3, ElementsAreFinite
<1>11. order \in Seq(ToSet(all)) /\ IsInjective(order)
  BY <1>9, <1>10, InOrderIsSequence
<1> HIDE DEF order
<1>12. order \in Seq(Chunks)
  BY <1>5, <1>11
<1>13. RankedLimit \in Nat
  <2>1. 6 \in Int /\ question.maxSources * 2 \in Int
    BY QuestionFields
  <2>2. RankedLimit \in Int /\ RankedLimit >= 6
    BY <2>1, MaxOfTwo, Zenon DEF RankedLimit
  <2> QED
    BY <2>2
<1> HIDE DEF RankedLimit
<1> QED
  BY <1>4, <1>11, <1>12, <1>13, TakenIsInjective

-----------------------------------------------------------------------------
(* The round over scopes.                                                  *)

\* The first place of a scope, and the turns in which the candidates are taken.
Opening(r, c) == SelectInSeq(r, LAMBDA d : ScopeOf(d) = ScopeOf(c))
Turns(r) ==
  {p \in ToSet(r) \X ToSet(r) :
     \/ Depth(r, p[1]) < Depth(r, p[2])
     \/ Depth(r, p[1]) = Depth(r, p[2]) /\ Opening(r, p[1]) < Opening(r, p[2])}

LEMMA HierarchyTakesTurns ==
  ASSUME NEW r, NEW limit
  PROVE  SelectHierarchical(r, limit) = Take(InOrder(ToSet(r), Turns(r)), limit)
BY DEF SelectHierarchical, Turns, Opening

\* A ranking without repetitions.
IsRanking(r) ==
  /\ r \in Seq(Chunks) /\ Len(r) \in Nat /\ DOMAIN r = 1 .. Len(r)
  /\ \A i, j \in 1 .. Len(r) : r[i] = r[j] => i = j

LEMMA InjectionsAreRankings ==
  ASSUME NEW r \in Seq(Chunks), IsInjective(r)
  PROVE  IsRanking(r)
BY DEF IsRanking, IsInjective

\* In a ranking every element has one place.
LEMMA PlacesInRanking ==
  ASSUME NEW r, IsRanking(r)
  PROVE  /\ \A c \in ToSet(r) : Place(r, c) + 1 \in 1 .. Len(r) /\ r[Place(r, c) + 1] = c
                                /\ Place(r, c) \in 0 .. (Len(r) - 1)
         /\ \A i \in 1 .. Len(r) : r[i] \in ToSet(r) /\ Place(r, r[i]) = i - 1
<1>1. Len(r) \in Nat /\ DOMAIN r = 1 .. Len(r)
  BY DEF IsRanking
<1>2. ASSUME NEW c \in ToSet(r)
      PROVE  /\ Place(r, c) + 1 \in 1 .. Len(r) /\ r[Place(r, c) + 1] = c
             /\ Place(r, c) \in 0 .. (Len(r) - 1)
  BY <1>1, PlaceIsFirst
<1>3. ASSUME NEW i \in 1 .. Len(r)
      PROVE  r[i] \in ToSet(r) /\ Place(r, r[i]) = i - 1
  <2>1. r[i] \in ToSet(r)
    BY <1>1 DEF ToSet
  <2>2. /\ Place(r, r[i]) + 1 \in 1 .. Len(r) /\ r[Place(r, r[i]) + 1] = r[i]
        /\ Place(r, r[i]) \in 0 .. (Len(r) - 1)
    BY <1>2, <2>1
  <2>3. Place(r, r[i]) + 1 = i
    BY <2>2 DEF IsRanking
  <2> QED
    BY <2>1, <2>2, <2>3
<1> QED
  BY <1>2, <1>3

LEMMA DepthsAreNumbers ==
  ASSUME NEW r, IsRanking(r), NEW c \in ToSet(r)
  PROVE  Depth(r, c) \in Nat
<1>1. IsFiniteSet(1 .. Place(r, c))
  BY PlacesInRanking, FS_Interval
<1>2. IsFiniteSet({i \in 1 .. Place(r, c) : ScopeOf(r[i]) = ScopeOf(c)})
  BY <1>1, FS_Subset
<1> QED
  BY <1>2, FS_CardinalityType DEF Depth

\* Within a scope those further down are deeper.
LEMMA DepthsGrow ==
  ASSUME NEW r, IsRanking(r), NEW c \in ToSet(r), NEW d \in ToSet(r),
         ScopeOf(c) = ScopeOf(d), Place(r, c) < Place(r, d)
  PROVE  Depth(r, c) < Depth(r, d)
<1> DEFINE x == Place(r, c)
           y == Place(r, d)
           A == {i \in 1 .. x : ScopeOf(r[i]) = ScopeOf(c)}
           B == {i \in 1 .. y : ScopeOf(r[i]) = ScopeOf(d)}
<1>1. x \in Nat /\ y \in Nat /\ x + 1 <= y /\ r[x + 1] = c
  BY PlacesInRanking
<1> HIDE DEF x, y
<1>2. x + 1 \in B /\ A \subseteq B \ {x + 1}
  BY <1>1
<1>3. IsFiniteSet(1 .. y)
  BY <1>1, FS_Interval
<1>4. IsFiniteSet(B)
  BY <1>3, FS_Subset
<1>5. Depth(r, c) = Cardinality(A) /\ Depth(r, d) = Cardinality(B)
  BY DEF Depth, x, y
<1> HIDE DEF A, B
<1>6. IsFiniteSet(B \ {x + 1}) /\ Cardinality(B \ {x + 1}) = Cardinality(B) - 1
  BY <1>2, <1>4, FS_RemoveElement
<1>7. Cardinality(A) <= Cardinality(B) - 1 /\ IsFiniteSet(A)
  BY <1>2, <1>6, FS_Subset
<1>8. Cardinality(A) \in Nat /\ Cardinality(B) \in Nat
  BY <1>4, <1>7, FS_CardinalityType
<1> QED
  BY <1>5, <1>7, <1>8

LEMMA OpeningsAreFirst ==
  ASSUME NEW r, IsRanking(r), NEW c \in ToSet(r)
  PROVE  /\ Opening(r, c) \in 1 .. Len(r) /\ ScopeOf(r[Opening(r, c)]) = ScopeOf(c)
         /\ \A i \in 1 .. Len(r) : ScopeOf(r[i]) = ScopeOf(c) => Opening(r, c) <= i
<1> DEFINE I == {i \in 1 .. Len(r) : ScopeOf(r[i]) = ScopeOf(c)}
           m == Min(I)
<1>1. I \in SUBSET Nat /\ Place(r, c) + 1 \in I
  BY PlacesInRanking
<1>2. Opening(r, c) = m
  BY <1>1 DEF Opening, SelectInSeq
<1>3. m \in I /\ \A i \in I : m <= i
  BY <1>1, LeastNumber
<1> HIDE DEF m
<1> QED
  BY <1>2, <1>3

LEMMA TurnsAreOrdered ==
  ASSUME NEW r, IsRanking(r)
  PROVE  IsOrder(Turns(r), ToSet(r))
<1>1. \A c \in ToSet(r) : Depth(r, c) \in Int /\ Opening(r, c) \in Int
  BY DepthsAreNumbers, OpeningsAreFirst
<1>2. \A c, d \in ToSet(r) :
        <<c, d>> \in Turns(r) <=> \/ Depth(r, c) < Depth(r, d)
                                  \/ Depth(r, c) = Depth(r, d) /\ Opening(r, c) < Opening(r, d)
  BY DEF Turns
<1>3. \A c \in ToSet(r) : <<c, c>> \notin Turns(r)
  BY <1>1, <1>2
<1>4. \A c, d, e \in ToSet(r) :
        <<c, d>> \in Turns(r) /\ <<d, e>> \in Turns(r) => <<c, e>> \in Turns(r)
  BY <1>1, <1>2
<1>5. ASSUME NEW c \in ToSet(r), NEW d \in ToSet(r), c # d
      PROVE  <<c, d>> \in Turns(r) \/ <<d, c>> \in Turns(r)
  <2>1. CASE ScopeOf(c) = ScopeOf(d)
    <3>1. Place(r, c) \in Int /\ Place(r, d) \in Int /\ Place(r, c) # Place(r, d)
      BY <1>5, PlacesInRanking
    <3>2. Place(r, c) < Place(r, d) \/ Place(r, d) < Place(r, c)
      BY <3>1
    <3>3. Depth(r, c) < Depth(r, d) \/ Depth(r, d) < Depth(r, c)
      BY <2>1, <3>2, DepthsGrow
    <3> QED
      BY <1>2, <3>3
  <2>2. CASE ScopeOf(c) # ScopeOf(d)
    <3>1. Opening(r, c) # Opening(r, d)
      BY <2>2, OpeningsAreFirst
    <3> QED
      BY <1>1, <1>2, <3>1
  <2> QED
    BY <2>1, <2>2
<1> QED
  BY <1>3, <1>4, <1>5 DEF IsOrder

\* The round takes a part of the ranking that no one left out comes before, and
\* starts with the first.
LEMMA HierarchyIsPrefix ==
  ASSUME NEW r, IsRanking(r), NEW limit \in Nat \ {0}
  PROVE  LET taken == SelectHierarchical(r, limit) IN
         /\ taken \in Seq(Chunks) /\ ToSet(taken) \subseteq ToSet(r)
         /\ r # <<>> => taken # <<>> /\ taken[1] = r[1]
         /\ \A c, d \in ToSet(r) : d \in ToSet(taken) /\ c \notin ToSet(taken) => <<d, c>> \in Turns(r)
<1> DEFINE S == ToSet(r)
           n == Cardinality(S)
           q == InOrder(S, Turns(r))
           taken == Take(q, limit)
<1>1. SelectHierarchical(r, limit) = taken
  BY HierarchyTakesTurns
<1>2. IsFiniteSet(S) /\ S \subseteq Chunks
  <2>1. r \in Seq(Chunks) /\ Len(r) \in Nat /\ DOMAIN r = 1 .. Len(r)
    BY DEF IsRanking
  <2> QED
    BY <2>1, ElementsAreFinite DEF ToSet
<1>3. IsOrder(Turns(r), S)
  BY TurnsAreOrdered
<1>4. /\ n \in Nat /\ q \in [1 .. n -> S]
      /\ \A c \in S : \E k \in 1 .. n : q[k] = c
      /\ \A i, j \in 1 .. n : i < j <=> <<q[i], q[j]>> \in Turns(r)
  BY <1>2, <1>3, InOrderIsSorted
<1> HIDE DEF n, q
<1>5. q \in Seq(S) /\ Len(q) = n
  BY <1>4
<1> DEFINE l == Len(taken)
<1>6. /\ taken \in Seq(S) /\ l = (IF limit <= n THEN limit ELSE n)
      /\ \A i \in 1 .. l : taken[i] = q[i]
  BY <1>5, TakenElements
<1> HIDE DEF taken, l, S
<1>7. l \in 0 .. n /\ DOMAIN taken = 1 .. l /\ Len(taken) = l
  BY <1>4, <1>6 DEF l
<1>8. taken \in Seq(Chunks)
  BY <1>2, <1>6
<1>9. ToSet(taken) = {q[i] : i \in 1 .. l}
  BY <1>6, <1>7 DEF ToSet
<1>10. ToSet(taken) \subseteq S
  BY <1>4, <1>7, <1>9
<1>11. ASSUME NEW c \in S, NEW d \in S, d \in ToSet(taken), c \notin ToSet(taken)
       PROVE  <<d, c>> \in Turns(r)
  <2>1. PICK i \in 1 .. l : q[i] = d
    BY <1>9, <1>11
  <2>2. PICK j \in 1 .. n : q[j] = c
    BY <1>4
  <2>3. j \notin 1 .. l
    BY <1>9, <1>11, <2>2
  <2>4. i \in 1 .. n /\ i < j
    BY <1>4, <1>7, <2>1, <2>3
  <2> QED
    BY <1>4, <2>1, <2>2, <2>4
<1>12. ASSUME r # <<>> PROVE taken # <<>> /\ taken[1] = r[1]
  <2>1. r \in Seq(Chunks) /\ Len(r) \in Nat /\ 1 \in 1 .. Len(r)
    BY <1>12 DEF IsRanking
  <2>2. r[1] \in S /\ Place(r, r[1]) = 0
    BY <2>1, PlacesInRanking DEF S
  <2>3. PICK k \in 1 .. n : q[k] = r[1]
    BY <1>4, <2>2
  <2>4. Depth(r, r[1]) = 0
    <3>1. {i \in 1 .. 0 : ScopeOf(r[i]) = ScopeOf(r[1])} = {}
      OBVIOUS
    <3>2. Depth(r, r[1]) = Cardinality({i \in 1 .. 0 : ScopeOf(r[i]) = ScopeOf(r[1])})
      BY <2>2 DEF Depth
    <3> QED
      BY <3>1, <3>2, FS_EmptySet
  <2>5. Opening(r, r[1]) <= 1
    BY <2>1, <2>2, OpeningsAreFirst DEF S
  <2>6. 1 \in 1 .. n /\ 1 \in 1 .. l /\ q[1] \in S
    BY <1>4, <1>6, <2>3
  <2>7. <<q[1], r[1]>> \notin Turns(r)
    <3>1. Depth(r, q[1]) \in Nat /\ Opening(r, q[1]) \in Nat /\ Opening(r, q[1]) >= 1
      BY <2>6, DepthsAreNumbers, OpeningsAreFirst DEF S
    <3>2. Opening(r, r[1]) \in Nat
      BY <2>2, OpeningsAreFirst DEF S
    <3> QED
      BY <2>4, <2>5, <3>1, <3>2 DEF Turns
  <2>8. k = 1
    BY <1>4, <2>3, <2>6, <2>7
  <2>9. taken[1] = r[1]
    BY <1>6, <2>3, <2>6, <2>8
  <2> QED
    BY <1>7, <2>6, <2>9
<1> QED
  BY <1>1, <1>8, <1>10, <1>11, <1>12 DEF S

\* The elements of T in the scope of c, and the places up to i in that scope.
RoomOf(T, c) == {e \in T : ScopeOf(e) = ScopeOf(c)}
PlacesOf(r, c, i) == {k \in 1 .. i : ScopeOf(r[k]) = ScopeOf(c)}

LEMMA DepthCountsPlaces ==
  ASSUME NEW r, IsRanking(r), NEW c, NEW i \in 1 .. Len(r), ScopeOf(r[i]) = ScopeOf(c)
  PROVE  /\ IsFiniteSet(PlacesOf(r, c, i - 1)) /\ IsFiniteSet(PlacesOf(r, c, i))
         /\ Depth(r, r[i]) = Cardinality(PlacesOf(r, c, i - 1)) /\ Depth(r, r[i]) \in Nat
         /\ Cardinality(PlacesOf(r, c, i)) = Depth(r, r[i]) + 1
<1>1. Len(r) \in Nat
  BY DEF IsRanking
<1>2. r[i] \in ToSet(r) /\ Place(r, r[i]) = i - 1
  BY PlacesInRanking
<1>3. Depth(r, r[i]) \in Nat
  BY <1>2, DepthsAreNumbers
<1>4. Depth(r, r[i]) = Cardinality(PlacesOf(r, c, i - 1))
  BY <1>2 DEF Depth, PlacesOf
<1>5. IsFiniteSet(PlacesOf(r, c, i - 1))
  <2>1. IsFiniteSet(1 .. (i - 1))
    BY FS_Interval
  <2> QED
    BY <2>1, FS_Subset DEF PlacesOf
<1>6. PlacesOf(r, c, i) = PlacesOf(r, c, i - 1) \cup {i} /\ i \notin PlacesOf(r, c, i - 1)
  BY <1>1 DEF PlacesOf
<1>7. /\ IsFiniteSet(PlacesOf(r, c, i))
      /\ Cardinality(PlacesOf(r, c, i)) = Cardinality(PlacesOf(r, c, i - 1)) + 1
  BY <1>5, <1>6, FS_AddElement
<1> QED
  BY <1>3, <1>4, <1>5, <1>7

\* If no element of T in its scope is after place i, the scope has no more of them
\* than places up to i.
LEMMA RoomIsAtMost ==
  ASSUME NEW r, IsRanking(r), NEW T \in SUBSET ToSet(r), NEW c, NEW i \in 1 .. Len(r),
         ScopeOf(r[i]) = ScopeOf(c), \A e \in RoomOf(T, c) : Place(r, e) + 1 <= i
  PROVE  Cardinality(RoomOf(T, c)) \in Nat /\ Cardinality(RoomOf(T, c)) <= Depth(r, r[i]) + 1
<1> DEFINE X == PlacesOf(r, c, i)
           f == [e \in RoomOf(T, c) |-> Place(r, e) + 1]
<1>1. \A e \in RoomOf(T, c) : e \in ToSet(r) /\ ScopeOf(e) = ScopeOf(c)
  BY DEF RoomOf
<1>2. \A e \in RoomOf(T, c) : f[e] \in 1 .. Len(r) /\ r[f[e]] = e /\ f[e] <= i
  BY <1>1, PlacesInRanking
<1> HIDE DEF f
<1>3. \A e \in RoomOf(T, c) : f[e] \in X
  BY <1>1, <1>2 DEF PlacesOf
<1>4. f \in [RoomOf(T, c) -> X]
  BY <1>3 DEF f
<1>5. \A e, g \in RoomOf(T, c) : f[e] = f[g] => e = g
  BY <1>2
<1>6. f \in Injection(RoomOf(T, c), X)
  BY <1>4, <1>5 DEF Injection, IsInjective
<1>7. IsFiniteSet(X) /\ Cardinality(X) = Depth(r, r[i]) + 1
  BY DepthCountsPlaces
<1> HIDE DEF X
<1>8. IsFiniteSet(RoomOf(T, c)) /\ Cardinality(RoomOf(T, c)) <= Cardinality(X)
  BY <1>6, <1>7, FS_Injection
<1> QED
  BY <1>7, <1>8, FS_CardinalityType

\* If all the elements in its scope before place i are in T, the scope has at least
\* as many of them as i has before it.
LEMMA RoomIsAtLeast ==
  ASSUME NEW r, IsRanking(r), NEW T \in SUBSET ToSet(r), NEW c, NEW i \in 1 .. Len(r),
         ScopeOf(r[i]) = ScopeOf(c), \A k \in PlacesOf(r, c, i - 1) : r[k] \in T
  PROVE  Cardinality(RoomOf(T, c)) \in Nat /\ Depth(r, r[i]) <= Cardinality(RoomOf(T, c))
<1> DEFINE Y == PlacesOf(r, c, i - 1)
           f == [k \in Y |-> r[k]]
<1>1. Len(r) \in Nat /\ DOMAIN r = 1 .. Len(r)
  BY DEF IsRanking
<1>2. \A k \in Y : k \in 1 .. Len(r) /\ r[k] \in RoomOf(T, c)
  BY <1>1 DEF PlacesOf, RoomOf
<1>3. IsFiniteSet(RoomOf(T, c))
  <2>1. IsFiniteSet(ToSet(r))
    BY <1>1, ElementsAreFinite
  <2> QED
    BY <2>1, FS_Subset DEF RoomOf
<1>4. Depth(r, r[i]) = Cardinality(Y)
  BY DepthCountsPlaces
<1> HIDE DEF Y
<1>5. f \in [Y -> RoomOf(T, c)]
  BY <1>2
<1>6. \A j, k \in Y : f[j] = f[k] => j = k
  BY <1>2 DEF IsRanking
<1> HIDE DEF f
<1>7. f \in Injection(Y, RoomOf(T, c))
  BY <1>5, <1>6 DEF Injection, IsInjective
<1>8. Cardinality(Y) <= Cardinality(RoomOf(T, c))
  BY <1>3, <1>7, FS_Injection
<1> QED
  BY <1>3, <1>4, <1>8, FS_CardinalityType

\* What is taken in turns is shared evenly: the last one taken of a scope is no
\* deeper than the first one left out of another.
LEMMA TurnsAreShared ==
  ASSUME NEW r, IsRanking(r), NEW T \in SUBSET ToSet(r),
         \A c, d \in ToSet(r) : d \in T /\ c \notin T => <<d, c>> \in Turns(r),
         NEW c \in ToSet(r), NEW d \in ToSet(r), d \in T, c \notin T
  PROVE  /\ Cardinality(RoomOf(T, d)) <= Cardinality(RoomOf(T, c)) + 1
         /\ ScopeOf(c) = ScopeOf(d) => Place(r, d) < Place(r, c)
<1>1. Len(r) \in Nat /\ DOMAIN r = 1 .. Len(r)
  BY DEF IsRanking
<1> DEFINE In == {i \in 1 .. Len(r) : r[i] \in T /\ ScopeOf(r[i]) = ScopeOf(d)}
           Out == {i \in 1 .. Len(r) : r[i] \notin T /\ ScopeOf(r[i]) = ScopeOf(c)}
<1>2. PICK i \in In : \A k \in In : k <= i
  <2>1. Place(r, d) + 1 \in 1 .. Len(r) /\ r[Place(r, d) + 1] = d
    BY PlacesInRanking
  <2>2. In \in SUBSET (0 .. Len(r)) /\ Place(r, d) + 1 \in In
    BY <1>1, <2>1
  <2> HIDE DEF In
  <2> QED
    BY <1>1, <2>2, GreatestNumber
<1>3. PICK j \in Out : \A k \in Out : j <= k
  <2>1. Place(r, c) + 1 \in 1 .. Len(r) /\ r[Place(r, c) + 1] = c
    BY PlacesInRanking
  <2>2. Place(r, c) + 1 \in Out
    BY <2>1
  <2>3. Out \in SUBSET Nat
    BY <1>1
  <2> HIDE DEF Out
  <2> QED
    BY <2>2, <2>3, LeastNumber
<1>4. /\ i \in 1 .. Len(r) /\ r[i] \in T /\ ScopeOf(r[i]) = ScopeOf(d)
      /\ j \in 1 .. Len(r) /\ r[j] \notin T /\ ScopeOf(r[j]) = ScopeOf(c)
  OBVIOUS
<1>5. r[i] \in ToSet(r) /\ r[j] \in ToSet(r)
  BY <1>4, PlacesInRanking
<1>6. <<r[i], r[j]>> \in Turns(r)
  BY <1>4, <1>5
<1>7. Depth(r, r[i]) \in Nat /\ Depth(r, r[j]) \in Nat /\ Depth(r, r[i]) <= Depth(r, r[j])
  BY <1>5, <1>6, DepthsAreNumbers DEF Turns
<1>8. \A e \in RoomOf(T, d) : Place(r, e) + 1 <= i
  <2> TAKE e \in RoomOf(T, d)
  <2>1. e \in ToSet(r) /\ e \in T /\ ScopeOf(e) = ScopeOf(d)
    BY DEF RoomOf
  <2>2. Place(r, e) + 1 \in In
    BY <2>1, PlacesInRanking
  <2> QED
    BY <1>2, <2>2
<1>9. \A k \in PlacesOf(r, c, j - 1) : r[k] \in T
  <2> TAKE k \in PlacesOf(r, c, j - 1)
  <2>1. k \in 1 .. Len(r) /\ k < j /\ ScopeOf(r[k]) = ScopeOf(c)
    BY <1>1, <1>4 DEF PlacesOf
  <2>2. k \notin Out
    BY <1>3, <1>4, <2>1
  <2> QED
    BY <2>1, <2>2
<1> HIDE DEF In, Out
<1>10. /\ Cardinality(RoomOf(T, d)) \in Nat
       /\ Cardinality(RoomOf(T, d)) <= Depth(r, r[i]) + 1
  BY <1>4, <1>8, RoomIsAtMost
<1>11. /\ Cardinality(RoomOf(T, c)) \in Nat
       /\ Depth(r, r[j]) <= Cardinality(RoomOf(T, c))
  BY <1>4, <1>9, RoomIsAtLeast
<1>12. ASSUME ScopeOf(c) = ScopeOf(d) PROVE Place(r, d) < Place(r, c)
  <2>1. Place(r, c) \in Int /\ Place(r, d) \in Int /\ Place(r, c) # Place(r, d)
    BY PlacesInRanking
  <2>2. SUFFICES ASSUME Place(r, c) < Place(r, d) PROVE FALSE
    BY <2>1
  <2>3. Depth(r, c) < Depth(r, d) /\ Depth(r, c) \in Nat /\ Depth(r, d) \in Nat
    BY <1>12, <2>2, DepthsGrow, DepthsAreNumbers
  <2>4. <<d, c>> \in Turns(r)
    OBVIOUS
  <2> QED
    BY <2>3, <2>4 DEF Turns
<1> QED
  BY <1>7, <1>10, <1>11, <1>12

-----------------------------------------------------------------------------
(* The window.                                                             *)

LEMMA SequenceOfElements ==
  ASSUME NEW C, NEW s \in Seq(C), NEW D, ToSet(s) \subseteq D
  PROVE  s \in Seq(D)
<1>1. Len(s) \in Nat /\ s \in [1 .. Len(s) -> C] /\ DOMAIN s = 1 .. Len(s)
  OBVIOUS
<1>2. \A i \in 1 .. Len(s) : s[i] \in D
  BY <1>1 DEF ToSet
<1> QED
  BY <1>1, <1>2

\* Two sequences without repetitions and without common elements make a third.
LEMMA JoinedElements ==
  ASSUME NEW C, NEW s \in Seq(C), NEW t \in Seq(C)
  PROVE  /\ s \o t \in Seq(C) /\ ToSet(s \o t) = ToSet(s) \cup ToSet(t)
         /\ IsInjective(s) /\ IsInjective(t) /\ ToSet(s) \cap ToSet(t) = {} => IsInjective(s \o t)
<1> DEFINE m == Len(s)
           n == Len(t)
           u == s \o t
<1>1. m \in Nat /\ DOMAIN s = 1 .. m /\ n \in Nat /\ DOMAIN t = 1 .. n
  OBVIOUS
<1>2. u \in Seq(C) /\ DOMAIN u = 1 .. (m + n)
  OBVIOUS
<1>3. /\ \A i \in 1 .. m : u[i] = s[i]
      /\ \A i \in (m + 1) .. (m + n) : u[i] = t[i - m]
      /\ \A i \in 1 .. n : u[i + m] = t[i]
  OBVIOUS
<1> HIDE DEF u, m, n
<1>4. ToSet(u) = ToSet(s) \cup ToSet(t)
  <2>1. /\ ToSet(u) = {u[i] : i \in 1 .. (m + n)} /\ ToSet(s) = {s[i] : i \in 1 .. m}
        /\ ToSet(t) = {t[i] : i \in 1 .. n}
    BY <1>1, <1>2 DEF ToSet
  <2>2. ASSUME NEW i \in 1 .. (m + n)
        PROVE  (\E j \in 1 .. m : u[i] = s[j]) \/ \E j \in 1 .. n : u[i] = t[j]
    <3>1. i \in 1 .. m \/ (i \in (m + 1) .. (m + n) /\ i - m \in 1 .. n)
      BY <1>1
    <3> QED
      BY <1>3, <3>1
  <2>3. ASSUME NEW j \in 1 .. m PROVE \E i \in 1 .. (m + n) : u[i] = s[j]
    BY <1>1, <1>3
  <2>4. ASSUME NEW j \in 1 .. n PROVE \E i \in 1 .. (m + n) : u[i] = t[j]
    <3>1. j + m \in 1 .. (m + n)
      BY <1>1
    <3> QED
      BY <1>3, <3>1
  <2> QED
    BY <2>1, <2>2, <2>3, <2>4
<1>5. ASSUME IsInjective(s), IsInjective(t), ToSet(s) \cap ToSet(t) = {},
             NEW i \in 1 .. (m + n), NEW j \in 1 .. (m + n), u[i] = u[j]
      PROVE  i = j
  <2>1. \A k \in 1 .. m : s[k] \in ToSet(s)
    BY <1>1 DEF ToSet
  <2>2. \A k \in 1 .. n : t[k] \in ToSet(t)
    BY <1>1 DEF ToSet
  <2>3. \A k \in 1 .. (m + n) : k \in 1 .. m \/ (k \in (m + 1) .. (m + n) /\ k - m \in 1 .. n)
    BY <1>1
  <2>4. CASE i \in 1 .. m /\ j \in 1 .. m
    BY <1>1, <1>3, <1>5, <2>4 DEF IsInjective
  <2>5. CASE i \in (m + 1) .. (m + n) /\ j \in (m + 1) .. (m + n)
    <3>1. i - m \in 1 .. n /\ j - m \in 1 .. n /\ t[i - m] = t[j - m]
      BY <1>1, <1>3, <1>5, <2>5
    <3>2. i - m = j - m
      BY <1>1, <1>5, <3>1 DEF IsInjective
    <3> QED
      BY <1>1, <3>2
  <2>6. CASE i \in 1 .. m /\ j \in (m + 1) .. (m + n)
    <3>1. u[i] \in ToSet(s)
      BY <1>3, <2>1, <2>6
    <3>2. j - m \in 1 .. n /\ u[j] = t[j - m]
      BY <1>1, <1>3, <2>6
    <3> QED
      BY <1>5, <2>2, <3>1, <3>2
  <2>7. CASE j \in 1 .. m /\ i \in (m + 1) .. (m + n)
    <3>1. u[j] \in ToSet(s)
      BY <1>3, <2>1, <2>7
    <3>2. i - m \in 1 .. n /\ u[i] = t[i - m]
      BY <1>1, <1>3, <2>7
    <3> QED
      BY <1>5, <2>2, <3>1, <3>2
  <2> QED
    BY <2>3, <2>4, <2>5, <2>6, <2>7
<1>6. IsInjective(s) /\ IsInjective(t) /\ ToSet(s) \cap ToSet(t) = {} => IsInjective(u)
  BY <1>2, <1>5 DEF IsInjective
<1> QED
  BY <1>2, <1>4, <1>6 DEF u

LEMMA NeighborsAreOfTheNote ==
  ASSUME stored \subseteq Chunks, NEW c \in Chunks
  PROVE  /\ Neighborhood(c) \in Seq(Chunks) /\ IsInjective(Neighborhood(c))
         /\ \A d \in ToSet(Neighborhood(c)) : NoteOf(d) = NoteOf(c)
         /\ Neighborhood(c) # <<>> => c \in ToSet(Neighborhood(c))
<1> DEFINE a == <<c[1], c[2] - 1>>
           b == <<c[1], c[2] + 1>>
           C == {a, c, b}
           s == <<a, c, b>>
           t == Kept(s, stored)
<1>1. c = <<c[1], c[2]>> /\ c[2] \in Int
  BY DEF Chunks
<1>2. a # c /\ b # c /\ a # b /\ \A d \in C : NoteOf(d) = NoteOf(c)
  <2>1. a[2] = c[2] - 1 /\ b[2] = c[2] + 1 /\ a[1] = c[1] /\ b[1] = c[1]
    OBVIOUS
  <2> HIDE DEF a, b
  <2>2. a # c /\ b # c /\ a # b
    BY <1>1, <2>1
  <2> QED
    BY <2>1, <2>2 DEF NoteOf
<1> HIDE DEF a, b
<1>3. s \in Seq(C) /\ DOMAIN s = 1 .. 3 /\ s[1] = a /\ s[2] = c /\ s[3] = b
  OBVIOUS
<1>4. ToSet(s) = C
  BY <1>3 DEF ToSet
<1> HIDE DEF s
<1>5. IsInjective(s)
  BY <1>2, <1>3 DEF IsInjective
<1>6. t \in Seq(C) /\ ToSet(t) = C \cap stored /\ IsInjective(t)
  BY <1>3, <1>4, <1>5, KeptElements
<1> HIDE DEF t
<1>7. t \in Seq(Chunks)
  BY <1>6, SequenceOfElements
<1>8. CASE c \in stored
  <2>1. Neighborhood(c) = t
    BY <1>8 DEF Neighborhood, t, s, a, b
  <2> QED
    BY <1>2, <1>6, <1>7, <1>8, <2>1
<1>9. CASE c \notin stored
  BY <1>9 DEF Neighborhood, ToSet, IsInjective
<1> QED
  BY <1>8, <1>9

\* What is added to the window is of the candidate's note, is not there yet, and
\* is something when the window is empty.
LEMMA WideningAdds ==
  ASSUME stored \subseteq Chunks, NEW window \in Seq(Chunks), NEW c \in Chunks
  PROVE  /\ Widening(window, c) \in Seq(Chunks) /\ IsInjective(Widening(window, c))
         /\ ToSet(window) \cap ToSet(Widening(window, c)) = {}
         /\ \A d \in ToSet(Widening(window, c)) : NoteOf(d) = NoteOf(c)
         /\ window = <<>> => Widening(window, c) # <<>>
<1> DEFINE b == Neighborhood(c)
           w == Widening(window, c)
<1>1. /\ b \in Seq(Chunks) /\ IsInjective(b) /\ \A d \in ToSet(b) : NoteOf(d) = NoteOf(c)
      /\ b # <<>> => c \in ToSet(b)
  BY NeighborsAreOfTheNote
<1> HIDE DEF b
<1>2. Contains(window, c) <=> c \in ToSet(window)
  <2>1. DOMAIN window = 1 .. Len(window)
    OBVIOUS
  <2> QED
    BY <2>1 DEF Contains, ToSet
<1>3. CASE c \in ToSet(window)
  <2>1. w = <<>>
    BY <1>2, <1>3 DEF Widening
  <2>2. w \in Seq(Chunks) /\ IsInjective(w) /\ ToSet(w) = {}
    BY <2>1 DEF IsInjective, ToSet
  <2>3. window # <<>>
    BY <1>3 DEF ToSet
  <2> QED
    BY <2>2, <2>3
<1>4. CASE c \notin ToSet(window) /\ b = <<>>
  <2>1. w = <<c>>
    BY <1>2, <1>4 DEF Widening, b
  <2>2. w \in Seq(Chunks) /\ DOMAIN w = {1} /\ w[1] = c
    BY <2>1
  <2>3. ToSet(w) = {c} /\ IsInjective(w)
    BY <2>2 DEF ToSet, IsInjective
  <2> QED
    BY <1>4, <2>2, <2>3
<1>5. CASE c \notin ToSet(window) /\ b # <<>>
  <2>1. w = Kept(b, Chunks \ ToSet(window))
    BY <1>2, <1>5 DEF Widening, b
  <2>2. /\ w \in Seq(Chunks) /\ ToSet(w) = ToSet(b) \cap (Chunks \ ToSet(window))
        /\ IsInjective(w)
    BY <1>1, <2>1, KeptElements
  <2> HIDE DEF w
  <2>3. c \in ToSet(w)
    BY <1>1, <1>5, <2>2
  <2>4. w # <<>>
    BY <2>3 DEF ToSet
  <2> QED
    BY <1>1, <2>2, <2>4 DEF w
<1> QED
  BY <1>3, <1>4, <1>5

-----------------------------------------------------------------------------
(* The budget.                                                             *)

LEMMA TokensAreNumbers ==
  ASSUME NEW chars \in Int
  PROVE  /\ Tokens4(chars) \in Int
         /\ \A m \in Nat \ {0} : chars <= 4 * m => Tokens4(chars) <= m
         /\ chars = 0 => Tokens4(chars) = 1
<1> DEFINE x == (chars + 3) \div 4
<1>1. x \in Int /\ (\A m \in Nat \ {0} : chars <= 4 * m => x <= m) /\ (chars = 0 => x = 0)
  OBVIOUS
<1>2. Tokens4(chars) = Max({1, x})
  BY DEF Tokens4
<1> HIDE DEF x
<1>3. 1 \in Int /\ x \in Int
  BY <1>1
<1>4. Max({1, x}) \in {1, x} /\ Max({1, x}) >= 1 /\ Max({1, x}) >= x
  BY <1>3, MaxOfTwo, Zenon
<1> QED
  BY <1>1, <1>2, <1>4

\* The limits start from numbers, and at least one source is left when there is one.
LEMMA LimitsAreNumbers ==
  ASSUME question \in Questions, assembly.window \in Seq(Chunks), NEW k \in Int
  PROVE  /\ Rounds \in Int
         /\ Limits(k).sources \in Nat /\ Limits(k).sentences \in Int
         /\ assembly.window # <<>> => Limits(k).sources # 0
<1> DEFINE w == assembly.window
           e == Start.excerpts
           n == Start.sentences
           m == Start.sources
<1>1. /\ question.maxSources \in Nat \ {0} /\ question.maxRawExcerpts \in Nat
      /\ question.maxSummarySentences \in Nat
  BY QuestionFields
<1>2. Len(w) \in Nat /\ (w # <<>> => Len(w) # 0)
  OBVIOUS
<1>3. /\ e = IF question.excerpts \/ assembly.answer # "local_answer"
             THEN Min({question.maxRawExcerpts, Len(w)}) ELSE 0
      /\ n = question.maxSummarySentences
      /\ m = Min({question.maxSources, Len(w)})
      /\ Start.constraints = 8
      /\ DOMAIN Start = {"excerpts", "sentences", "sources", "constraints"}
  BY DEF Start
<1>4. e \in Nat
  <2>1. Min({question.maxRawExcerpts, Len(w)}) \in {question.maxRawExcerpts, Len(w)}
    <3>1. question.maxRawExcerpts \in Int /\ Len(w) \in Int
      BY <1>1, <1>2
    <3> QED
      BY <3>1, MinOfTwo, Zenon
  <2> QED
    BY <1>1, <1>2, <1>3, <2>1
<1>5. m \in Nat /\ (w # <<>> => m # 0)
  <2>1. Min({question.maxSources, Len(w)}) \in {question.maxSources, Len(w)}
    <3>1. question.maxSources \in Int /\ Len(w) \in Int
      BY <1>1, <1>2
    <3> QED
      BY <3>1, MinOfTwo, Zenon
  <2> QED
    BY <1>1, <1>2, <1>3, <2>1
<1> HIDE DEF e, n, m, w
<1>6. Max({0, m - 1}) \in Int
  <2>1. 0 \in Int /\ m - 1 \in Int
    BY <1>5
  <2> QED
    BY <2>1, MaxOfTwo
<1>7. /\ Beyond.sentences = e /\ Beyond.sources = e + n
      /\ Beyond.constraints = e + n + Max({0, m - 1})
  BY DEF Beyond, e, n, m
<1>8. Rounds \in Int
  BY <1>1, <1>3, <1>4, <1>6, <1>7 DEF Rounds
<1>9. Limits(k).sources = Min({m, Max({1, m + (e + n) - k})})
  BY <1>3, <1>7 DEF Limits, m
<1>10. Limits(k).sentences = Min({n, Max({0, n + e - k})})
  BY <1>3, <1>7 DEF Limits, n
<1>11. Limits(k).sources \in Nat /\ (w # <<>> => Limits(k).sources # 0)
  <2> DEFINE x == m + (e + n) - k
             y == Max({1, x})
  <2>1. x \in Int /\ 1 \in Int
    BY <1>1, <1>3, <1>4, <1>5
  <2> HIDE DEF x
  <2>2. y \in Int /\ y >= 1
    BY <2>1, MaxOfTwo
  <2> HIDE DEF y
  <2>3. Min({m, y}) \in {m, y}
    <3>1. m \in Int
      BY <1>5
    <3> QED
      BY <2>2, <3>1, MinOfTwo, Zenon
  <2> QED
    BY <1>5, <1>9, <2>2, <2>3 DEF x, y
<1>12. Limits(k).sentences \in Int
  <2> DEFINE x == n + e - k
             y == Max({0, x})
  <2>1. x \in Int /\ 0 \in Int /\ n \in Int
    BY <1>1, <1>3, <1>4
  <2> HIDE DEF x
  <2>2. y \in Int
    BY <2>1, MaxOfTwo
  <2> HIDE DEF y
  <2>3. Min({n, y}) \in {n, y}
    BY <2>1, <2>2, MinOfTwo
  <2> QED
    BY <1>10, <2>1, <2>2, <2>3 DEF x, y
<1> QED
  BY <1>8, <1>11, <1>12 DEF w

\* A packet before confidence: the first chunks of the window, at least one if there
\* is one.
LEMMA CutsAreProper ==
  ASSUME question \in Questions, assembly.window \in Seq(Chunks), NEW k \in Int
  PROVE  /\ DOMAIN Cut(k) = DOMAIN NoPacket /\ Cut(k).clipped = FALSE
         /\ Cut(k).summary \in Int
         /\ Cut(k).evidence = Take(assembly.window, Limits(k).sources)
<1> DEFINE chosen == Take(assembly.window, Limits(k).sources)
           sentences == Min({Limits(k).sentences, Len(chosen)})
           summary == TextSize.prefix + (IF sentences > 0 THEN sentences * (TextSize.sentence + 1)
                                         ELSE TextSize.nothing)
<1>1. Limits(k).sources \in Nat /\ Limits(k).sentences \in Int
  BY LimitsAreNumbers
<1>2. Len(chosen) \in Int
  <2>1. chosen \in Seq(Chunks)
    BY <1>1, TakenElements
  <2> QED
    BY <2>1
<1> HIDE DEF chosen
<1>3. sentences \in Int
  BY <1>1, <1>2, MinOfTwo
<1> HIDE DEF sentences
<1>4. TextSize.prefix \in Nat /\ TextSize.sentence \in Nat /\ TextSize.nothing \in Nat
  BY SizeAssumption
<1>5. summary \in Int
  <2>1. sentences * (TextSize.sentence + 1) \in Int
    BY <1>3, <1>4
  <2> QED
    BY <1>4, <2>1
<1> HIDE DEF summary
<1> DEFINE others == <<Min({Limits(k).excerpts, Len(chosen)}),
                       Lines(Min({Limits(k).constraints, Len(chosen)}), TextSize.qualifier),
                       IF k < Rounds /\ assembly.answer # "local_answer"
                       THEN TextSize.uncertainty ELSE 0>>
<1>6. Cut(k) = [NoPacket EXCEPT !.evidence = chosen, !.excerpts = others[1],
                                !.summary = summary, !.constraints = others[2],
                                !.uncertainties = others[3]]
  BY DEF Cut, chosen, sentences, summary
<1> HIDE DEF others
<1>7. /\ DOMAIN Cut(k) = DOMAIN NoPacket /\ Cut(k).clipped = NoPacket.clipped
      /\ Cut(k).summary = summary /\ Cut(k).evidence = chosen
  BY <1>6 DEF NoPacket
<1>8. NoPacket.clipped = FALSE
  BY DEF NoPacket
<1> QED
  BY <1>5, <1>7, <1>8 DEF chosen

\* What is left of a packet cut to its summary costs two tokens more than the budget
\* at most.
LEMMA ClippedPackets ==
  ASSUME question \in Questions, NEW p, p.summary \in Int
  PROVE  /\ DOMAIN Clipped(p) = DOMAIN NoPacket /\ Clipped(p).clipped = TRUE
         /\ Clipped(p).evidence = <<>>
         /\ Clipped(p).reported <= question.maxTokens
         /\ Cost(Clipped(p)) <= question.maxTokens + 2
<1> DEFINE m == question.maxTokens
           summary == Min({p.summary, m * 4})
           rest == [NoPacket EXCEPT !.summary = summary, !.clipped = TRUE]
           c == Clipped(p)
<1>1. m \in Nat \ {0} /\ m * 4 \in Int
  BY QuestionFields
<1>2. summary \in Int /\ summary <= 4 * m
  <2>1. summary \in {p.summary, m * 4} /\ summary <= m * 4
    BY <1>1, MinOfTwo
  <2> QED
    BY <1>1, <2>1
<1>3. c = [rest EXCEPT !.reported = Min({Cost(rest), m})]
  BY DEF Clipped
<1> HIDE DEF m, summary
<1>4. /\ DOMAIN rest = DOMAIN NoPacket /\ rest.summary = summary /\ rest.constraints = 0
      /\ rest.uncertainties = 0 /\ rest.evidence = <<>> /\ rest.excerpts = 0 /\ rest.clipped = TRUE
      /\ "reported" \in DOMAIN rest
  BY DEF NoPacket
<1> HIDE DEF rest, c
<1>5. /\ DOMAIN c = DOMAIN NoPacket /\ c.summary = summary /\ c.constraints = 0
      /\ c.uncertainties = 0 /\ c.evidence = <<>> /\ c.excerpts = 0 /\ c.clipped = TRUE
      /\ c.reported = Min({Cost(rest), m})
  BY <1>3, <1>4
<1>6. TextSize.source \in Int /\ TextSize.excerpt \in Int
  BY SizeAssumption
<1>7. Tokens4(TextSize.source) \in Int /\ Tokens4(TextSize.excerpt) \in Int
  BY <1>6, TokensAreNumbers
<1>8. Tokens4(summary) \in Int /\ Tokens4(summary) <= m /\ Tokens4(0) = 1
  BY <1>1, <1>2, TokensAreNumbers
<1>9. Len(<<>>) * Tokens4(TextSize.source) = 0 /\ 0 * Tokens4(TextSize.excerpt) = 0
  BY <1>7
<1>10. Cost(c) = Tokens4(summary) + 1 + 1 + 0 + 0 /\ Cost(rest) = Tokens4(summary) + 1 + 1 + 0 + 0
  BY <1>4, <1>5, <1>8, <1>9 DEF Cost
<1>11. Min({Cost(rest), m}) <= m
  <2>1. Cost(rest) \in Int
    BY <1>8, <1>10
  <2> QED
    BY <1>1, <2>1, MinOfTwo
<1>12. Cost(c) <= m + 2
  BY <1>1, <1>8, <1>10
<1> QED
  BY <1>5, <1>11, <1>12 DEF m, c

\* What BudgetedPacket promises.
LEMMA BudgetsAreKept ==
  ASSUME question \in Questions, assembly.window \in Seq(Chunks)
  PROVE  LET p == BudgetedPacket IN
         /\ DOMAIN p = DOMAIN NoPacket /\ p.clipped \in BOOLEAN
         /\ p.reported <= question.maxTokens
         /\ p.clipped => p.evidence = <<>> /\ Cost(p) <= question.maxTokens + 2
         /\ ~p.clipped => /\ Cost(p) = p.reported
                          /\ \E n \in Nat : /\ p.evidence = Take(assembly.window, n)
                                            /\ assembly.window # <<>> => n # 0
<1> DEFINE p == BudgetedPacket
           fitting == {k \in 0 .. Rounds : Cost(Cut(k)) <= question.maxTokens}
<1>1. Rounds \in Int
  <2>1. 0 \in Int
    OBVIOUS
  <2> QED
    BY <2>1, LimitsAreNumbers
<1>2. CASE fitting = {}
  <2>1. p = Clipped(Cut(Rounds))
    BY <1>2 DEF BudgetedPacket
  <2>2. Cut(Rounds).summary \in Int
    BY <1>1, CutsAreProper
  <2> HIDE DEF p
  <2>3. /\ DOMAIN p = DOMAIN NoPacket /\ p.clipped = TRUE /\ p.evidence = <<>>
        /\ p.reported <= question.maxTokens /\ Cost(p) <= question.maxTokens + 2
    BY <2>1, <2>2, ClippedPackets
  <2> QED
    BY <2>3 DEF p
<1>3. CASE fitting # {}
  <2> DEFINE k == Min(fitting)
  <2>1. fitting \in SUBSET Nat
    BY <1>1
  <2>2. k \in fitting
    BY <1>3, <2>1, LeastNumber
  <2>3. p = [Cut(k) EXCEPT !.reported = Cost(Cut(k))]
    BY <1>3 DEF BudgetedPacket
  <2>4. k \in Int /\ Cost(Cut(k)) <= question.maxTokens
    <3>1. \A x \in fitting : x \in Int /\ Cost(Cut(x)) <= question.maxTokens
      BY <1>1
    <3> HIDE DEF k, fitting
    <3> QED
      BY <2>2, <3>1
  <2> HIDE DEF k, fitting, p
  <2> DEFINE c == Cut(k)
  <2>5. DOMAIN c = DOMAIN NoPacket /\ c.clipped = FALSE /\ c.evidence = Take(assembly.window, Limits(k).sources)
    BY <2>4, CutsAreProper
  <2>6. p = [c EXCEPT !.reported = Cost(c)] /\ Cost(c) <= question.maxTokens
    BY <2>3, <2>4
  <2> HIDE DEF c
  <2>7. "reported" \in DOMAIN c
    BY <2>5 DEF NoPacket
  <2>8. /\ DOMAIN p = DOMAIN NoPacket /\ p.clipped = FALSE /\ p.evidence = c.evidence
        /\ p.reported = Cost(c) /\ p.summary = c.summary /\ p.constraints = c.constraints
        /\ p.uncertainties = c.uncertainties /\ p.excerpts = c.excerpts
    BY <2>5, <2>6, <2>7
  <2>9. Cost(p) = Cost(c)
    BY <2>8 DEF Cost
  <2>10. Limits(k).sources \in Nat /\ (assembly.window # <<>> => Limits(k).sources # 0)
    BY <2>4, LimitsAreNumbers
  <2> QED
    BY <2>5, <2>6, <2>8, <2>9, <2>10 DEF p
<1> QED
  BY <1>2, <1>3

-----------------------------------------------------------------------------
(* The invariant of packets.                                               *)

IsAssembly(a) ==
  /\ DOMAIN a = {"pc", "ranked", "candidates", "left", "window", "top", "answer", "packet",
                 "warned", "added"}
  /\ a.pc \in {"search", "expand", "escalate", "done"}
  /\ a.ranked \in Seq(Chunks) /\ a.candidates \in Seq(Chunks) /\ a.left \in Seq(Chunks)
  /\ a.window \in Seq(Chunks)
  /\ a.answer \in Dispositions /\ a.added \in BOOLEAN
  /\ DOMAIN a.packet = DOMAIN NoPacket /\ a.packet.evidence \in Seq(Chunks)
  /\ a.warned \subseteq Cited

\* The candidates are from the ranking, those left from the candidates, and the window
\* holds chunks of their notes, the first candidate's first.
IsFound(q, a) ==
  /\ IsRanking(a.ranked)
  /\ a.candidates = (IF q.hierarchical THEN SelectHierarchical(a.ranked, q.maxSources)
                     ELSE a.ranked)
  /\ ToSet(a.left) \subseteq ToSet(a.candidates)
  /\ IsInjective(a.window)
  /\ \A c \in ToSet(a.window) : \E d \in ToSet(a.candidates) : NoteOf(d) = NoteOf(c)
  /\ a.window = <<>> => a.left = a.candidates
  /\ a.window # <<>> => a.candidates # <<>> /\ NoteOf(a.window[1]) = NoteOf(a.candidates[1])

\* What a packet promises: its cost, what it cites, and the warnings.
IsPriced(q, a) ==
  /\ a.packet.reported <= q.maxTokens
  /\ IF a.packet.clipped THEN Cost(a.packet) <= q.maxTokens + 2
     ELSE Cost(a.packet) = a.packet.reported

IsCiting(a) ==
  IF a.packet.clipped THEN a.packet.evidence = <<>> /\ a.packet.confidence # "high"
  ELSE /\ a.ranked # <<>> => /\ a.packet.evidence # <<>>
                             /\ NoteOf(a.packet.evidence[1]) = NoteOf(a.ranked[1])
       /\ IsInjective(a.packet.evidence)
       /\ \A c \in ToSet(a.packet.evidence) :
            \E d \in ToSet(a.candidates) : NoteOf(d) = NoteOf(c)

IsWarning(a) ==
  \A c \in ToSet(a.packet.evidence) :
    NoteInfo[NoteOf(c)].freshness # "fresh" => NoteOf(c) \in a.warned

PacketInv ==
  /\ question \in Questions /\ stored \subseteq Chunks
  /\ IsAssembly(assembly)
  /\ assembly.pc = "search" => assembly.window = <<>>
  /\ assembly.pc # "search" => IsFound(question, assembly)
  /\ assembly.pc # "done" => ~assembly.added
  /\ assembly.pc \in {"escalate", "done"} =>
       /\ ~assembly.added => IsPriced(question, assembly)
       /\ IsCiting(assembly) /\ IsWarning(assembly)

LEMMA EmptySequence == <<>> \in Seq(Chunks) /\ ToSet(<<>>) = {} /\ IsInjective(<<>>)
BY DEF ToSet, IsInjective

LEMMA InitHasPacketInv == PacketInit => PacketInv
<1> SUFFICES ASSUME PacketInit PROVE PacketInv
  OBVIOUS
<1>1. question \in Questions /\ stored \subseteq Chunks
  BY DEF PacketInit
<1>2. /\ DOMAIN assembly = {"pc", "ranked", "candidates", "left", "window", "top", "answer",
                            "packet", "warned", "added"}
      /\ assembly.pc = "search" /\ assembly.ranked = <<>> /\ assembly.candidates = <<>>
      /\ assembly.left = <<>> /\ assembly.window = <<>> /\ assembly.answer = "partial"
      /\ assembly.packet = NoPacket /\ assembly.warned = {} /\ assembly.added = FALSE
  BY DEF PacketInit
<1>3. NoPacket.evidence = <<>>
  BY DEF NoPacket
<1>4. IsAssembly(assembly)
  BY <1>2, <1>3, EmptySequence DEF IsAssembly, Dispositions
<1> QED
  BY <1>1, <1>2, <1>4 DEF PacketInv

LEMMA SearchKeepsPacketInv ==
  ASSUME PacketInv, Search
  PROVE  PacketInv'
<1> DEFINE ranking == RankCandidates(question.lexical, question.vector)
           order == ranking.order
           chosen == IF question.hierarchical
                     THEN SelectHierarchical(order, question.maxSources) ELSE order
           a == assembly
           b == assembly'
<1>1. PICK given \in Dispositions :
        b = [a EXCEPT !.pc = "expand", !.ranked = order, !.candidates = chosen, !.left = chosen,
             !.answer = given, !.top = IF chosen = <<>> THEN 0 ELSE ranking.score[chosen[1]]]
  BY DEF Search
<1> DEFINE top == IF chosen = <<>> THEN 0 ELSE ranking.score[chosen[1]]
<1> HIDE DEF top
<1>2. b = [a EXCEPT !.pc = "expand", !.ranked = order, !.candidates = chosen, !.left = chosen,
           !.answer = given, !.top = top]
  BY <1>1 DEF top
<1>3. question' = question /\ stored' = stored /\ a.pc = "search"
  BY DEF Search
<1>4. question \in Questions /\ stored \subseteq Chunks /\ IsAssembly(a) /\ a.window = <<>>
  BY <1>3 DEF PacketInv
<1>5. order \in Seq(Chunks) /\ IsInjective(order)
  BY <1>4, QuestionFields, RankingIsSequence
<1> HIDE DEF ranking, order
<1>6. IsRanking(order)
  BY <1>5, InjectionsAreRankings
<1>7. question.maxSources \in Nat \ {0}
  BY <1>4, QuestionFields
<1>8. chosen \in Seq(Chunks) /\ chosen = (IF question.hierarchical
        THEN SelectHierarchical(order, question.maxSources) ELSE order)
  BY <1>5, <1>6, <1>7, HierarchyIsPrefix
<1> HIDE DEF chosen, a, b
<1>9. /\ DOMAIN b = DOMAIN a /\ b.pc = "expand" /\ b.ranked = order /\ b.candidates = chosen
      /\ b.left = chosen /\ b.answer = given /\ b.window = a.window /\ b.packet = a.packet
      /\ b.warned = a.warned /\ b.added = a.added
  BY <1>2, <1>4 DEF IsAssembly
<1>10. IsAssembly(b)
  BY <1>4, <1>5, <1>8, <1>9, Zenon DEF IsAssembly
<1>11. IsFound(question, b)
  BY <1>4, <1>6, <1>8, <1>9, EmptySequence DEF IsFound
<1> QED
  BY <1>3, <1>4, <1>9, <1>10, <1>11 DEF PacketInv, a, b

LEMMA WindowSizeIsPositive ==
  ASSUME question \in Questions
  PROVE  WindowSize \in Nat \ {0}
<1> DEFINE x == Max({question.maxRawExcerpts, question.maxSummarySentences})
           y == Max({question.maxSources, x})
<1>1. x \in Int
  <2>1. question.maxRawExcerpts \in Int /\ question.maxSummarySentences \in Int
    BY QuestionFields
  <2> QED
    BY <2>1, MaxOfTwo, Zenon
<1>2. WindowSize = Max({8, 3 * y})
  BY DEF WindowSize
<1> HIDE DEF x
<1>3. y \in Int
  <2>1. question.maxSources \in Int
    BY QuestionFields
  <2> QED
    BY <1>1, <2>1, MaxOfTwo, Zenon
<1> HIDE DEF y
<1> DEFINE z == 3 * y
<1>4. 8 \in Int /\ z \in Int
  BY <1>3
<1> HIDE DEF z
<1>5. Max({8, z}) \in Int /\ Max({8, z}) >= 8
  BY <1>4, MaxOfTwo, Zenon
<1> QED
  BY <1>2, <1>5 DEF z

LEMMA ExpandKeepsPacketInv ==
  ASSUME PacketInv, Expand
  PROVE  PacketInv'
<1> DEFINE a == assembly
           b == assembly'
           c == Head(a.left)
           w == Widening(a.window, c)
           joined == a.window \o w
           window == Take(joined, WindowSize)
<1>1. /\ a.pc = "expand" /\ a.left # <<>> /\ question' = question /\ stored' = stored
      /\ b = [a EXCEPT !.window = window, !.left = Tail(a.left)]
  BY DEF Expand
<1>2. /\ question \in Questions /\ stored \subseteq Chunks /\ IsAssembly(a)
      /\ IsFound(question, a)
  BY <1>1 DEF PacketInv
<1> HIDE DEF window, joined, w, c, a, b
<1>3. /\ DOMAIN b = DOMAIN a /\ b.window = window /\ b.left = Tail(a.left) /\ b.pc = "expand"
      /\ b.ranked = a.ranked /\ b.candidates = a.candidates /\ b.answer = a.answer
      /\ b.packet = a.packet /\ b.warned = a.warned /\ b.added = a.added
  BY <1>1, <1>2 DEF IsAssembly
<1>4. a.left \in Seq(Chunks) /\ a.window \in Seq(Chunks) /\ a.candidates \in Seq(Chunks)
  BY <1>2 DEF IsAssembly
<1>5. /\ c \in Chunks /\ c = a.left[1] /\ c \in ToSet(a.left) /\ Tail(a.left) \in Seq(Chunks)
      /\ ToSet(Tail(a.left)) \subseteq ToSet(a.left)
  <2>1. /\ Len(a.left) \in Nat \ {0} /\ DOMAIN a.left = 1 .. Len(a.left) /\ c = a.left[1]
        /\ Tail(a.left) \in Seq(Chunks) /\ DOMAIN Tail(a.left) = 1 .. (Len(a.left) - 1)
        /\ \A i \in 1 .. (Len(a.left) - 1) : Tail(a.left)[i] = a.left[i + 1]
    BY <1>1, <1>4 DEF c
  <2>2. c \in Chunks
    BY <1>1, <1>4 DEF c
  <2>3. 1 \in DOMAIN a.left /\ \A i \in 1 .. (Len(a.left) - 1) : i + 1 \in DOMAIN a.left
    BY <2>1
  <2> QED
    BY <2>1, <2>2, <2>3 DEF ToSet
<1>6. c \in ToSet(a.candidates)
  BY <1>2, <1>5 DEF IsFound
<1>7. /\ w \in Seq(Chunks) /\ IsInjective(w) /\ ToSet(a.window) \cap ToSet(w) = {}
      /\ \A d \in ToSet(w) : NoteOf(d) = NoteOf(c)
      /\ a.window = <<>> => w # <<>>
  BY <1>2, <1>4, <1>5, WideningAdds DEF w
<1>8. /\ joined \in Seq(Chunks) /\ ToSet(joined) = ToSet(a.window) \cup ToSet(w)
      /\ IsInjective(joined)
  BY <1>2, <1>4, <1>7, JoinedElements DEF joined, IsFound
<1>9. joined # <<>> /\ joined[1] = IF a.window = <<>> THEN w[1] ELSE a.window[1]
  <2>1. CASE a.window = <<>>
    BY <1>4, <1>7, <2>1 DEF joined
  <2>2. CASE a.window # <<>>
    BY <1>4, <1>7, <2>2 DEF joined
  <2> QED
    BY <2>1, <2>2
<1>10. /\ window \in Seq(Chunks) /\ IsInjective(window) /\ ToSet(window) \subseteq ToSet(joined)
       /\ window # <<>> /\ window[1] = joined[1]
  BY <1>2, <1>8, <1>9, TakenIsInjective, WindowSizeIsPositive DEF window
<1>11. \A e \in ToSet(window) : \E d \in ToSet(a.candidates) : NoteOf(d) = NoteOf(e)
  <2> TAKE e \in ToSet(window)
  <2>1. e \in ToSet(a.window) \/ e \in ToSet(w)
    BY <1>8, <1>10
  <2> QED
    BY <1>2, <1>6, <1>7, <2>1 DEF IsFound
<1>12. a.candidates # <<>> /\ NoteOf(window[1]) = NoteOf(a.candidates[1])
  <2>1. CASE a.window = <<>>
    <3>1. a.left = a.candidates
      BY <1>2, <2>1 DEF IsFound
    <3>2. w[1] \in ToSet(w)
      <4>1. w # <<>> /\ w \in Seq(Chunks)
        BY <1>7, <2>1
      <4>2. 1 \in DOMAIN w
        BY <4>1
      <4> QED
        BY <4>2 DEF ToSet
    <3> QED
      BY <1>1, <1>5, <1>7, <1>9, <1>10, <2>1, <3>1, <3>2
  <2>2. CASE a.window # <<>>
    BY <1>2, <1>9, <1>10, <2>2 DEF IsFound
  <2> QED
    BY <2>1, <2>2
<1>13. IsAssembly(b)
  BY <1>2, <1>3, <1>5, <1>10, Zenon DEF IsAssembly
<1>14. IsFound(question, b)
  <2>1. ToSet(b.left) \subseteq ToSet(b.candidates)
    BY <1>2, <1>3, <1>5 DEF IsFound
  <2> QED
    BY <1>2, <1>3, <1>10, <1>11, <1>12, <2>1, Zenon DEF IsFound
<1> QED
  BY <1>1, <1>2, <1>3, <1>13, <1>14 DEF PacketInv, a, b

\* Once every candidate is widened, the window starts with the note that ranked first.
LEMMA WindowStartsWithTheBest ==
  ASSUME NEW q \in Questions, NEW a, IsAssembly(a), IsFound(q, a), a.left = <<>>, a.ranked # <<>>
  PROVE  a.window # <<>> /\ NoteOf(a.window[1]) = NoteOf(a.ranked[1])
<1>1. IsRanking(a.ranked) /\ q.maxSources \in Nat \ {0}
  BY QuestionFields DEF IsFound
<1>2. a.candidates # <<>> /\ a.candidates[1] = a.ranked[1]
  <2>1. CASE q.hierarchical
    BY <1>1, <2>1, HierarchyIsPrefix DEF IsFound
  <2>2. CASE ~q.hierarchical
    BY <2>2 DEF IsFound
  <2> QED
    BY <2>1, <2>2
<1> QED
  BY <1>2 DEF IsFound

LEMMA AssembleKeepsPacketInv ==
  ASSUME PacketInv, Assemble
  PROVE  PacketInv'
<1> DEFINE a == assembly
           b == assembly'
           p == BudgetedPacket
           made == [p EXCEPT !.confidence = Confidence(p.evidence)]
           pc == IF a.answer = "local_answer" THEN "done" ELSE "escalate"
           warned == {n \in DeliveredNotes(p.evidence) : NoteInfo[n].freshness # "fresh"}
<1>1. /\ a.pc = "expand" /\ a.left = <<>> /\ question' = question /\ stored' = stored
      /\ b = [a EXCEPT !.pc = pc, !.packet = made, !.warned = warned]
  BY DEF Assemble
<1>2. /\ question \in Questions /\ stored \subseteq Chunks /\ IsAssembly(a)
      /\ IsFound(question, a)
  BY <1>1 DEF PacketInv
<1>3. a.window \in Seq(Chunks) /\ a.candidates \in Seq(Chunks)
  BY <1>2 DEF IsAssembly
<1>4. /\ DOMAIN p = DOMAIN NoPacket /\ p.clipped \in BOOLEAN
      /\ p.reported <= question.maxTokens
      /\ p.clipped => p.evidence = <<>> /\ Cost(p) <= question.maxTokens + 2
      /\ ~p.clipped => /\ Cost(p) = p.reported
                       /\ \E n \in Nat : /\ p.evidence = Take(a.window, n)
                                         /\ a.window # <<>> => n # 0
  BY <1>2, <1>3, BudgetsAreKept
<1>5. pc \in {"done", "escalate"}
  OBVIOUS
<1>6. warned \subseteq Cited /\ \A c \in ToSet(p.evidence) :
        (\E d \in ToSet(a.candidates) : NoteOf(d) = NoteOf(c)) =>
          (NoteInfo[NoteOf(c)].freshness # "fresh" => NoteOf(c) \in warned)
  <2>1. \A c \in ToSet(a.candidates) : NoteOf(c) \in Cited
    <3>1. \A c \in ToSet(a.candidates) : c \in Chunks
      BY <1>3 DEF ToSet
    <3> QED
      BY <3>1 DEF Chunks, NoteOf
  <2>2. warned = {n \in {NoteOf(c) : c \in ToSet(a.candidates)} \cap
                        {NoteOf(c) : c \in ToSet(p.evidence)} : NoteInfo[n].freshness # "fresh"}
    BY DEF DeliveredNotes
  <2> HIDE DEF warned, p
  <2> QED
    BY <2>1, <2>2
<1>7. Confidence(<<>>) # "high"
  BY DEF Confidence
<1> DEFINE confidence == Confidence(p.evidence)
<1>8. p.clipped => confidence # "high"
  BY <1>4, <1>7
<1>9. made = [p EXCEPT !.confidence = confidence]
  OBVIOUS
<1> HIDE DEF a, b, p, made, pc, warned, confidence
<1>10. /\ DOMAIN b = DOMAIN a /\ b.pc = pc /\ b.packet = made /\ b.warned = warned
       /\ b.window = a.window /\ b.left = a.left /\ b.ranked = a.ranked
       /\ b.candidates = a.candidates /\ b.answer = a.answer /\ b.added = a.added
  BY <1>1, <1>2 DEF IsAssembly
<1>11. /\ DOMAIN made = DOMAIN NoPacket /\ made.clipped = p.clipped /\ made.evidence = p.evidence
       /\ made.reported = p.reported /\ made.confidence = confidence /\ made.summary = p.summary
       /\ made.constraints = p.constraints /\ made.uncertainties = p.uncertainties
       /\ made.excerpts = p.excerpts
  BY <1>4, <1>9 DEF NoPacket
<1>12. Cost(made) = Cost(p)
  BY <1>11 DEF Cost
<1>13. IsPriced(question, b)
  BY <1>4, <1>10, <1>11, <1>12 DEF IsPriced
<1>14. /\ p.evidence \in Seq(Chunks) /\ IsInjective(p.evidence)
       /\ ToSet(p.evidence) \subseteq ToSet(a.window)
       /\ ~p.clipped /\ a.window # <<>> => p.evidence # <<>> /\ p.evidence[1] = a.window[1]
  <2>1. CASE p.clipped
    BY <1>4, <2>1, EmptySequence
  <2>2. CASE ~p.clipped
    <3>1. PICK n \in Nat : p.evidence = Take(a.window, n) /\ (a.window # <<>> => n # 0)
      BY <1>4, <2>2
    <3> QED
      BY <1>2, <1>3, <3>1, TakenIsInjective DEF IsFound
  <2> QED
    BY <1>4, <2>1, <2>2
<1>15. \A c \in ToSet(p.evidence) : \E d \in ToSet(a.candidates) : NoteOf(d) = NoteOf(c)
  BY <1>2, <1>14 DEF IsFound
<1>16. IsCiting(b)
  <2>1. CASE p.clipped
    BY <1>4, <1>8, <1>10, <1>11, <2>1 DEF IsCiting
  <2>2. CASE ~p.clipped
    <3>1. a.ranked # <<>> => p.evidence # <<>> /\ NoteOf(p.evidence[1]) = NoteOf(a.ranked[1])
      BY <1>1, <1>2, <1>14, <2>2, WindowStartsWithTheBest
    <3> QED
      BY <1>10, <1>11, <1>14, <1>15, <2>2, <3>1 DEF IsCiting
  <2> QED
    BY <1>4, <2>1, <2>2
<1>17. IsWarning(b)
  BY <1>6, <1>10, <1>11, <1>15 DEF IsWarning
<1>18. IsAssembly(b)
  BY <1>2, <1>5, <1>6, <1>10, <1>11, <1>14 DEF IsAssembly
<1>19. IsFound(question, b)
  BY <1>2, <1>10, Zenon DEF IsFound
<1>20. ~b.added
  <2>1. ~a.added
    BY <1>1 DEF PacketInv, a
  <2> QED
    BY <1>10, <2>1
<1> QED
  BY <1>1, <1>2, <1>5, <1>10, <1>13, <1>16, <1>17, <1>18, <1>19, <1>20 DEF PacketInv, a, b

LEMMA EscalateKeepsPacketInv ==
  ASSUME PacketInv, Escalate
  PROVE  PacketInv'
<1> DEFINE a == assembly
           b == assembly'
           p == assembly.packet
<1>1. PICK adds \in BOOLEAN :
        b = [a EXCEPT !.pc = "done",
             !.packet.uncertainties = IF adds THEN @ + AddedSize ELSE @, !.added = adds]
  BY DEF Escalate
<1>2. a.pc = "escalate" /\ question' = question /\ stored' = stored
  BY DEF Escalate
<1> DEFINE uncertainties == IF adds THEN p.uncertainties + AddedSize ELSE p.uncertainties
           made == [p EXCEPT !.uncertainties = uncertainties]
<1>3. /\ question \in Questions /\ stored \subseteq Chunks /\ IsAssembly(a)
      /\ IsFound(question, a) /\ IsPriced(question, a) /\ IsCiting(a) /\ IsWarning(a)
  BY <1>2 DEF PacketInv
<1>4. /\ DOMAIN b = DOMAIN a /\ b.pc = "done" /\ b.packet = made /\ b.added = adds
      /\ b.warned = a.warned
      /\ b.window = a.window /\ b.left = a.left /\ b.ranked = a.ranked
      /\ b.candidates = a.candidates /\ b.answer = a.answer
  BY <1>1, <1>3 DEF IsAssembly
<1>5. DOMAIN p = DOMAIN NoPacket /\ a.packet = p
  BY <1>3 DEF IsAssembly
<1> HIDE DEF a, b, p, uncertainties
<1>6. /\ DOMAIN made = DOMAIN NoPacket /\ made.clipped = p.clipped /\ made.evidence = p.evidence
      /\ made.reported = p.reported /\ made.confidence = p.confidence /\ made.summary = p.summary
      /\ made.constraints = p.constraints /\ made.uncertainties = uncertainties
      /\ made.excerpts = p.excerpts
  BY <1>5 DEF NoPacket
<1> HIDE DEF made
<1>7. ~adds => Cost(made) = Cost(p)
  BY <1>6 DEF Cost, uncertainties
<1>8. ~b.added => IsPriced(question, b)
  BY <1>3, <1>4, <1>5, <1>6, <1>7 DEF IsPriced
<1>9. IsCiting(b)
  <2>1. /\ b.packet.clipped = a.packet.clipped /\ b.packet.evidence = a.packet.evidence
        /\ b.packet.confidence = a.packet.confidence
        /\ b.ranked = a.ranked /\ b.candidates = a.candidates
    BY <1>4, <1>5, <1>6
  <2> QED
    BY <1>3, <2>1 DEF IsCiting
<1>10. IsWarning(b)
  BY <1>3, <1>4, <1>5, <1>6, Zenon DEF IsWarning
<1>11. IsAssembly(b)
  BY <1>3, <1>4, <1>5, <1>6 DEF IsAssembly
<1>12. IsFound(question, b)
  BY <1>3, <1>4, Zenon DEF IsFound
<1> QED
  BY <1>2, <1>3, <1>4, <1>8, <1>9, <1>10, <1>11, <1>12 DEF PacketInv, a, b

LEMMA ResyncKeepsPacketInv ==
  ASSUME PacketInv, NEW n \in Cited, Resync(n)
  PROVE  PacketInv'
<1>1. stored' \subseteq Chunks /\ question' = question /\ assembly' = assembly
  BY DEF PacketInv, Resync
<1> QED
  BY <1>1 DEF PacketInv

LEMMA PacketInvAlways == PacketSpec => []PacketInv
<1>1. PacketInv /\ [PacketNext]_packetVars => PacketInv'
  <2> SUFFICES ASSUME PacketInv, [PacketNext]_packetVars PROVE PacketInv'
    OBVIOUS
  <2>1. CASE UNCHANGED packetVars
    BY <2>1 DEF PacketInv, packetVars
  <2> QED
    BY <2>1, SearchKeepsPacketInv, ExpandKeepsPacketInv, AssembleKeepsPacketInv,
       EscalateKeepsPacketInv, ResyncKeepsPacketInv DEF PacketNext
<1> QED
  BY <1>1, InitHasPacketInv, PTL DEF PacketSpec

-----------------------------------------------------------------------------
\* A packet is made of chunks of the notes there are, and has its fields.
THEOREM PacketTypeCorrect == PacketSpec => []PacketTypeOK
<1>1. PacketInv => PacketTypeOK
  <2> SUFFICES ASSUME PacketInv PROVE PacketTypeOK
    OBVIOUS
  <2>1. IsAssembly(assembly) /\ question \in Questions /\ stored \subseteq Chunks
    BY DEF PacketInv
  <2>2. \A s \in Seq(Chunks) : ToSet(s) \subseteq Chunks
    BY DEF ToSet
  <2> QED
    BY <2>1, <2>2 DEF IsAssembly, PacketTypeOK
<1> QED
  BY <1>1, PacketInvAlways, PTL

\* For any texts, budgets and hits, and whatever becomes of the rows of the notes in
\* the meantime, a packet costs what it reports and no more than its budget, or is cut
\* to its summary and exceeds it by two tokens at most, until a paid model adds to it.
THEOREM PacketsKeepTheBudget == PacketSpec => []PacketWithinBudget
<1>1. PacketInv => PacketWithinBudget
  BY DEF PacketInv, IsPriced, PacketWithinBudget, Finished, Packet
<1> QED
  BY <1>1, PacketInvAlways, PTL

\* Whatever is cut, the note that ranked first is the first one cited, no chunk is
\* cited twice, and only notes that were found are cited.
THEOREM TheBestIsCitedFirst == PacketSpec => []BestNoteIsCited
<1>1. PacketInv => BestNoteIsCited
  BY Zenon DEF PacketInv, IsCiting, BestNoteIsCited, Finished, Packet
<1> QED
  BY <1>1, PacketInvAlways, PTL

\* Every note cited that is not fresh is warned of, whichever of its chunks is cited.
THEOREM WarningsCoverCitations == PacketSpec => []FreshnessIsWarned
<1>1. PacketInv => FreshnessIsWarned
  BY Zenon DEF PacketInv, IsWarning, FreshnessIsWarned, Finished, Packet
<1> QED
  BY <1>1, PacketInvAlways, PTL

\* For any ranking and any limit, the round over scopes leaves no scope more than one
\* candidate behind another as long as it has one to give, and takes its best ones.
THEOREM ScopesTakeTurns == PacketSpec => []ScopesShareTheRoom
<1>1. PacketInv => ScopesShareTheRoom
  <2> SUFFICES ASSUME PacketInv, Finished, question.hierarchical PROVE ScopesShareTheRoom
    BY DEF ScopesShareTheRoom
  <2> DEFINE r == assembly.ranked
             s == assembly.candidates
             T == ToSet(s)
  <2>1. IsFound(question, assembly) /\ question \in Questions /\ IsAssembly(assembly)
    BY DEF PacketInv, Finished
  <2>2. IsRanking(r) /\ s = SelectHierarchical(r, question.maxSources)
    BY <2>1 DEF IsFound
  <2>3. question.maxSources \in Nat \ {0}
    BY <2>1, QuestionFields
  <2>4. s \in Seq(Chunks)
    BY <2>1 DEF IsAssembly
  <2>5. \A c : Contains(s, c) <=> c \in T
    <3>1. DOMAIN s = 1 .. Len(s)
      BY <2>4
    <3> QED
      BY <3>1 DEF Contains, ToSet
  <2> HIDE DEF r, s
  <2>6. /\ T \in SUBSET ToSet(r)
        /\ \A c, d \in ToSet(r) : d \in T /\ c \notin T => <<d, c>> \in Turns(r)
    BY <2>2, <2>3, HierarchyIsPrefix
  <2> HIDE DEF T
  <2>7. ASSUME NEW c \in ToSet(r), NEW d \in ToSet(r), d \in T, c \notin T
        PROVE  /\ Cardinality({e \in T : ScopeOf(e) = ScopeOf(d)})
                    <= Cardinality({e \in T : ScopeOf(e) = ScopeOf(c)}) + 1
               /\ ScopeOf(c) = ScopeOf(d) => Place(r, d) < Place(r, c)
    BY <2>2, <2>6, <2>7, TurnsAreShared DEF RoomOf
  <2> QED
    BY <2>5, <2>7 DEF ScopesShareTheRoom, r, s, T
<1> QED
  BY <1>1, PacketInvAlways, PTL

-----------------------------------------------------------------------------
(* Sums.  A fold is a recursive function on the sets of places: that there *)
(* is one, and that its values are numbers, is shown on a smallest set of  *)
(* places where it would not be so.                                        *)

\* g adds up s over sets of places, the last place first.
AddsUp(g, s, t) ==
  \A u \in SUBSET t : g[u] = IF u = {} THEN 0 ELSE g[u \ {Max(u)}] + s[Max(u)]

LEMMA LastPlace ==
  ASSUME NEW n \in Nat, NEW t \in SUBSET (1 .. n), t # {}
  PROVE  Max(t) \in t /\ \A u \in SUBSET t : Max(t) \in u => Max(u) = Max(t)
<1>1. PICK m \in t : \A k \in t : k <= m
  <2>1. t \in SUBSET (0 .. n)
    OBVIOUS
  <2> QED
    BY <2>1, GreatestNumber
<1>2. \A u \in SUBSET t : m \in u => \A x \in u : (\A y \in u : x >= y) <=> x = m
  BY <1>1
<1>3. \A u \in SUBSET t : m \in u => Max(u) = m
  <2> TAKE u \in SUBSET t
  <2> HAVE m \in u
  <2>1. \E x \in u : \A y \in u : x >= y
    BY <1>2
  <2>2. Max(u) \in u /\ \A y \in u : Max(u) >= y
    BY <2>1 DEF Max
  <2> QED
    BY <1>2, <2>2
<1> QED
  BY <1>3

LEMMA SumsExist ==
  ASSUME NEW n \in Nat, NEW s \in [1 .. n -> Nat], NEW t \in SUBSET (1 .. n)
  PROVE  \E g \in [SUBSET t -> Nat] : AddsUp(g, s, t)
<1> DEFINE HasSum(u) == \E g \in [SUBSET u -> Nat] : AddsUp(g, s, u)
           B == {u \in SUBSET (1 .. n) : ~HasSum(u)}
<1> SUFFICES ASSUME ~HasSum(t) PROVE FALSE
  OBVIOUS
<1> HIDE DEF HasSum
<1>1. IsFiniteSet(1 .. n)
  BY FS_Interval
<1>2. PICK u \in B : \A v \in B : v \subseteq u => v = u
  <2> DEFINE D == 1 .. n
  <2>1. B \in SUBSET SUBSET D /\ B # {} /\ IsFiniteSet(D)
    BY <1>1
  <2> HIDE DEF B, D
  <2> QED
    BY <2>1, SmallestSet
<1>3. u \in SUBSET (1 .. n) /\ ~\E g \in [SUBSET u -> Nat] : AddsUp(g, s, u)
  BY DEF HasSum
<1>4. u # {}
  <2> SUFFICES ASSUME u = {} PROVE FALSE
    OBVIOUS
  <2> DEFINE g == [v \in SUBSET u |-> 0]
  <2>1. g \in [SUBSET u -> Nat]
    OBVIOUS
  <2>2. AddsUp(g, s, u)
    BY DEF AddsUp
  <2> QED
    BY <1>3, <2>1, <2>2
<1> DEFINE x == Max(u)
           rest == u \ {x}
<1>5. x \in u /\ \A v \in SUBSET u : x \in v => Max(v) = x
  BY <1>3, <1>4, LastPlace
<1>6. rest \in SUBSET (1 .. n) /\ rest \subseteq u /\ rest # u
  BY <1>3, <1>5
<1>7. PICK h \in [SUBSET rest -> Nat] : AddsUp(h, s, rest)
  BY <1>2, <1>6 DEF HasSum
<1> HIDE DEF x, B
<1> DEFINE g == [v \in SUBSET u |-> IF x \in v THEN h[v \ {x}] + s[x] ELSE h[v]]
<1>8. s[x] \in Nat
  BY <1>3, <1>5
<1>9. \A v \in SUBSET u : v \ {x} \in SUBSET rest /\ (x \notin v => v \in SUBSET rest)
  OBVIOUS
<1>10. g \in [SUBSET u -> Nat]
  BY <1>7, <1>8, <1>9
<1>11. AddsUp(g, s, u)
  <2> SUFFICES ASSUME NEW v \in SUBSET u
               PROVE  g[v] = IF v = {} THEN 0 ELSE g[v \ {Max(v)}] + s[Max(v)]
    BY DEF AddsUp
  <2>1. CASE x \in v
    <3>1. Max(v) = x /\ v # {} /\ v \ {x} \in SUBSET rest /\ v \ {x} \in SUBSET u
      BY <1>5, <1>6, <2>1
    <3>2. g[v] = h[v \ {x}] + s[x] /\ g[v \ {x}] = h[v \ {x}]
      BY <2>1, <3>1
    <3> QED
      BY <3>1, <3>2
  <2>2. CASE x \notin v
    <3>1. v \in SUBSET rest /\ v \ {Max(v)} \in SUBSET u /\ x \notin v \ {Max(v)}
      BY <1>9, <2>2
    <3>2. g[v] = h[v] /\ g[v \ {Max(v)}] = h[v \ {Max(v)}]
      BY <2>2, <3>1
    <3>3. h[v] = IF v = {} THEN 0 ELSE h[v \ {Max(v)}] + s[Max(v)]
      BY <1>7, <3>1 DEF AddsUp
    <3> QED
      BY <3>2, <3>3
  <2> QED
    BY <2>1, <2>2
<1> QED
  BY <1>3, <1>10, <1>11

\* The lengths of messages add up to a length.
LEMMA SumsAreNumbers ==
  ASSUME NEW s \in Seq(Nat)
  PROVE  SumOf(s) \in Nat
<1> DEFINE n == Len(s)
           D == DOMAIN s
           IsIter(f) == f = [t \in SUBSET D |-> IF t = {} THEN 0 ELSE f[t \ {Max(t)}] + s[Max(t)]]
           iter == CHOOSE f : IsIter(f)
<1>1. SumOf(s) = iter[D]
  BY DEF SumOf, FoldLeft, MapThenFoldSet
<1>2. n \in Nat /\ D = 1 .. n /\ s \in [1 .. n -> Nat]
  OBVIOUS
<1> HIDE DEF n, D
<1>3. PICK g \in [SUBSET D -> Nat] : AddsUp(g, s, D)
  BY <1>2, SumsExist
<1>4. IsIter(g)
  BY <1>3 DEF AddsUp
<1>5. IsIter(iter)
  BY <1>4, Zenon
<1> HIDE DEF iter
<1>6. \A t \in SUBSET D : iter[t] = IF t = {} THEN 0 ELSE iter[t \ {Max(t)}] + s[Max(t)]
  BY <1>5, Zenon
<1> DEFINE B == {t \in SUBSET D : iter[t] \notin Nat}
<1>7. ASSUME B # {} PROVE FALSE
  <2>1. IsFiniteSet(D)
    BY <1>2, FS_Interval
  <2>2. PICK t \in B : \A u \in B : u \subseteq t => u = t
    <3>1. B \in SUBSET SUBSET D /\ B # {}
      BY <1>7
    <3> HIDE DEF B
    <3> QED
      BY <2>1, <3>1, SmallestSet
  <2>3. t \in SUBSET D /\ iter[t] \notin Nat
    OBVIOUS
  <2>4. t # {}
    <3>1. t = {} => iter[t] = 0
      BY <1>6, <2>3, Zenon
    <3> QED
      BY <2>3, <3>1
  <2>5. Max(t) \in t
    BY <1>2, <2>3, <2>4, LastPlace
  <2>6. t \ {Max(t)} \in SUBSET D /\ t \ {Max(t)} \notin B
    BY <2>2, <2>3, <2>5
  <2>7. iter[t \ {Max(t)}] \in Nat /\ s[Max(t)] \in Nat
    BY <1>2, <2>3, <2>5, <2>6
  <2>8. iter[t] = iter[t \ {Max(t)}] + s[Max(t)]
    BY <1>6, <2>3, <2>4, Zenon
  <2> QED
    BY <2>3, <2>7, <2>8
<1>8. iter[D] \in Nat
  BY <1>7
<1> QED
  BY <1>1, <1>8

-----------------------------------------------------------------------------
(* Session archives and the context block.                                 *)

\* A recall keeps to its limits, and tells what it leaves out.
IsTold(r) ==
  /\ DOMAIN r = DOMAIN NoRecall /\ r.truncated \in BOOLEAN
  /\ r.hits \in Seq(Nat) /\ r.matches \in Nat /\ Len(r.hits) <= r.matches
  /\ Len(r.hits) <= r.limit
  /\ r.hits # <<>> => TokensOfAll(r.hits) <= r.maxTokens
  /\ r.truncated <=> Len(r.hits) < r.matches

\* A block is within its budget, and holds everything unless it says that it does not.
IsBlock(a) ==
  /\ a.planned <= Max({2, a.total})
  /\ TokensOf(a.chars) <= Max({32, a.total})
  /\ a.text > 0 /\ ~a.truncated =>
       a.chars = a.text /\ Len(a.recall.hits) = a.recall.matches

IsProper(a) ==
  /\ DOMAIN a = DOMAIN NoAnswer /\ a.truncated \in BOOLEAN
  /\ IsTold(a.recall)
  /\ IsBlock(a)

AgentInv == archive \in [Sessions -> Seq(Nat)] /\ IsProper(answer)

\* An order of the matches reads messages of the archives.
LEMMA OrdersAreSequences ==
  ASSUME archive \in [Sessions -> Seq(Nat)], NEW q, NEW order \in SetToSeqs(Searched(q))
  PROVE  /\ Len(order) \in Nat
         /\ \A i \in 1 .. Len(order) : archive[order[i][1]][order[i][2]] \in Nat
<1>1. IsFiniteSet(Sessions \X (1 .. MaxMessages))
  <2>1. IsFiniteSet(Sessions) /\ IsFiniteSet(1 .. MaxMessages)
    BY RecallAssumption, FS_Interval
  <2> QED
    BY <2>1, FS_Product
<1>2. IsFiniteSet(Searched(q))
  BY <1>1, FS_Subset DEF Searched
<1>3. Cardinality(Searched(q)) \in Nat
  BY <1>2, FS_CardinalityType
<1>4. order \in [1 .. Cardinality(Searched(q)) -> Searched(q)]
  BY DEF SetToSeqs
<1>5. order \in Seq(Searched(q))
  BY <1>3, <1>4
<1>6. \A m \in Searched(q) : archive[m[1]][m[2]] \in Nat
  <2> TAKE m \in Searched(q)
  <2>1. m[1] \in Sessions /\ m[2] \in DOMAIN archive[m[1]]
    BY DEF Searched
  <2>2. archive[m[1]] \in Seq(Nat)
    BY <2>1
  <2> QED
    BY <2>1, <2>2
<1>7. \A i \in 1 .. Len(order) : order[i] \in Searched(q)
  BY <1>5
<1> QED
  BY <1>5, <1>6, <1>7

\* What Hits promises of an order of the matches.
LEMMA HitsAreLimited ==
  ASSUME NEW order, Len(order) \in Nat, NEW limit \in Nat \ {0}, NEW maxTokens \in Int,
         \A i \in 1 .. Len(order) : archive[order[i][1]][order[i][2]] \in Nat
  PROVE  IsTold(Hits(order, limit, maxTokens))
<1> DEFINE most == Min({Len(order), RowLimit(limit)})
           rows == [i \in 1 .. most |-> archive[order[i][1]][order[i][2]]]
           fits(n) == n <= limit /\ TokensOfAll(SubSeq(rows, 1, n)) <= maxTokens
           taken == Max({n \in 0 .. Len(rows) : \A k \in 1 .. n : fits(k)})
           r == Hits(order, limit, maxTokens)
           F == {k \in 1 .. most : fits(k)}
<1>1. /\ most \in Nat /\ most <= Len(order)
      /\ most <= limit => most = Len(order)
  <2>1. RowLimit(limit) \in Nat /\ RowLimit(limit) > limit
    BY DEF RowLimit
  <2>2. /\ most <= Len(order) /\ most <= RowLimit(limit)
        /\ most \in {Len(order), RowLimit(limit)}
    <3> DEFINE a == Len(order)
               b == RowLimit(limit)
    <3>1. a \in Int /\ b \in Int
      BY <2>1
    <3> HIDE DEF a, b
    <3>2. Min({a, b}) <= a /\ Min({a, b}) <= b /\ Min({a, b}) \in {a, b}
      BY <3>1, MinOfTwo
    <3> QED
      BY <3>2 DEF a, b
  <2> HIDE DEF most
  <2> QED
    BY <2>1, <2>2
<1> HIDE DEF most
<1>2. Len(rows) = most /\ DOMAIN rows = 1 .. most
  BY <1>1
<1>3. rows \in Seq(Nat)
  <2>1. \A i \in 1 .. most : archive[order[i][1]][order[i][2]] \in Nat
    BY <1>1
  <2>2. rows \in [1 .. most -> Nat]
    BY <2>1
  <2> QED
    BY <1>1, <2>2
<1>4. r = [hits |-> SubSeq(rows, 1, taken), matches |-> Len(order),
           truncated |-> taken < Len(rows), limit |-> limit, maxTokens |-> maxTokens]
  BY Zenon DEF Hits, most
<1>5. \A n \in 0 .. most : (\A k \in 1 .. n : fits(k)) <=> \A k \in 1 .. n : k \in F
  <2> TAKE n \in 0 .. most
  <2> HIDE DEF fits
  <2>1. \A k \in 1 .. n : k \in 1 .. most
    BY <1>1
  <2> QED
    BY <2>1
<1>6. taken = Max({n \in 0 .. most : \A k \in 1 .. n : k \in F})
  BY <1>2, <1>5
<1>7. taken \in 0 .. most /\ \A k \in 1 .. taken : k \in F
  <2> HIDE DEF F, taken
  <2>1. F \in SUBSET Nat
    BY <1>1 DEF F
  <2> QED
    BY <1>1, <1>6, <2>1, LargestFitting
<1> HIDE DEF taken
<1>8. taken > 0 => fits(taken)
  <2> HIDE DEF F, fits
  <2>1. taken > 0 => taken \in 1 .. taken
    BY <1>1, <1>7
  <2>2. taken > 0 => taken \in F
    BY <1>7, <2>1
  <2> QED
    BY <2>2 DEF F
<1>9. Len(SubSeq(rows, 1, taken)) = taken
  BY <1>1, <1>2, <1>7
<1>10. taken <= limit
  BY <1>1, <1>7, <1>8
<1> DEFINE hits == SubSeq(rows, 1, taken)
<1>11. hits # <<>> => TokensOfAll(hits) <= maxTokens
  <2>1. taken = 0 => hits = <<>>
    BY <1>2
  <2> QED
    BY <1>7, <1>8, <2>1
<1>12. taken < Len(rows) <=> taken < Len(order)
  BY <1>1, <1>2, <1>7, <1>10
<1> DEFINE cut == taken < Len(rows)
<1>13. r = [hits |-> hits, matches |-> Len(order), truncated |-> cut, limit |-> limit,
            maxTokens |-> maxTokens]
  BY <1>4
<1>14. Len(hits) = taken /\ (cut <=> taken < Len(order)) /\ cut \in BOOLEAN
  <2>1. Len(hits) = taken
    BY <1>9
  <2>2. cut <=> taken < Len(order)
    BY <1>12, Zenon
  <2>3. cut \in BOOLEAN
    OBVIOUS
  <2> QED
    BY <2>1, <2>2, <2>3, Zenon
<1>15. hits \in Seq(Nat) /\ taken <= Len(order)
  BY <1>1, <1>2, <1>7, <1>3
<1> HIDE DEF r, hits, rows, cut
<1>16. /\ r.hits = hits /\ r.matches = Len(order) /\ r.truncated = cut /\ r.limit = limit
       /\ r.maxTokens = maxTokens /\ DOMAIN r = DOMAIN NoRecall
  BY <1>13 DEF NoRecall
<1>17. /\ Len(r.hits) <= r.limit /\ (r.hits # <<>> => TokensOfAll(r.hits) <= r.maxTokens)
       /\ r.truncated <=> Len(r.hits) < r.matches
  BY <1>10, <1>11, <1>14, <1>16
<1>18. /\ r.truncated \in BOOLEAN /\ DOMAIN r = DOMAIN NoRecall
       /\ r.hits \in Seq(Nat) /\ r.matches \in Nat /\ Len(r.hits) <= r.matches
  BY <1>14, <1>16, <1>15
<1> QED
  BY <1>17, <1>18, Zenon DEF r, IsTold

-----------------------------------------------------------------------------
(* The invariant.                                                          *)

LEMMA ShortTexts ==
  ASSUME NEW chars \in Int
  PROVE  /\ TokensOf(chars) \in Int
         /\ \A m \in Nat \ {0} : chars <= 4 * m => TokensOf(chars) <= m
         /\ chars = 0 => TokensOf(chars) = 1
BY TokensAreNumbers DEF TokensOf, Tokens4

\* A text that is cut is within the budget, or within 32 tokens.
LEMMA CutTextsFit ==
  ASSUME NEW text \in Int, NEW total \in Nat \ {0}
  PROVE  /\ TokensOf(Enforced(text, total)) <= Max({32, total})
         /\ ~(TokensOf(text) > total) => Enforced(text, total) = text
<1>1. Max({32, total}) \in Nat \ {0} /\ Max({32, total}) >= 32 /\ Max({32, total}) >= total
  <2>1. 32 \in Int /\ total \in Int
    OBVIOUS
  <2>2. /\ Max({32, total}) \in Int /\ Max({32, total}) >= 32 /\ Max({32, total}) >= total
    BY <2>1, MaxOfTwo, Zenon
  <2> QED
    BY <2>2
<1> DEFINE limit == Max({32, total})
<1> HIDE DEF limit
<1>2. CASE TokensOf(text) <= total
  <2>1. Enforced(text, total) = text
    BY <1>2 DEF Enforced
  <2>2. TokensOf(text) \in Int
    BY ShortTexts
  <2> QED
    BY <1>1, <1>2, <2>1, <2>2 DEF limit
<1>3. CASE ~(TokensOf(text) <= total)
  <2> DEFINE most == Max({128, total * 4})
             kept == Min({text - Closing, most - Closing - Marker})
  <2>1. most \in Int /\ most <= 4 * limit
    <3>1. 128 \in Int /\ total * 4 \in Int
      OBVIOUS
    <3>2. most \in {128, total * 4}
      BY <3>1, MaxOfTwo, Zenon
    <3> QED
      BY <1>1, <3>1, <3>2 DEF limit
  <2>2. Enforced(text, total) = kept + Marker + Closing
    BY <1>3 DEF Enforced
  <2> HIDE DEF most
  <2>3. kept \in Int /\ kept <= most - Closing - Marker
    <3>1. text - Closing \in Int /\ most - Closing - Marker \in Int
      BY <2>1 DEF Closing, Marker
    <3> DEFINE x == text - Closing
               y == most - Closing - Marker
    <3> HIDE DEF x, y
    <3>2. Min({x, y}) <= y /\ Min({x, y}) \in {x, y}
      BY <3>1, MinOfTwo DEF x, y
    <3> QED
      BY <3>1, <3>2 DEF x, y
  <2> HIDE DEF kept
  <2>4. kept + Marker + Closing \in Int /\ kept + Marker + Closing <= 4 * limit
    <3>1. limit \in Int
      BY <1>1 DEF limit
    <3> QED
      BY <2>1, <2>3, <3>1 DEF Marker, Closing
  <2>5. TokensOf(kept + Marker + Closing) <= limit
    BY <1>1, <2>4, ShortTexts DEF limit
  <2>6. TokensOf(text) \in Int
    BY ShortTexts
  <2> QED
    BY <1>3, <2>2, <2>5, <2>6 DEF limit
<1> QED
  BY <1>2, <1>3

LEMMA NoRecallIsLimited ==
  /\ NoRecall.hits = <<>> /\ NoRecall.limit = 1 /\ NoRecall.matches = 0
  /\ NoRecall.truncated = FALSE /\ Len(<<>>) = 0
BY DEF NoRecall

LEMMA NoRecallIsTold == IsTold(NoRecall)
<1>1. Len(NoRecall.hits) = 0 /\ NoRecall.matches = 0 /\ ~NoRecall.truncated
  BY NoRecallIsLimited
<1>2. NoRecall.truncated \in BOOLEAN
  BY NoRecallIsLimited, Zenon
<1>3. NoRecall.hits = <<>> /\ Len(NoRecall.hits) <= NoRecall.limit
  BY NoRecallIsLimited
<1>4. NoRecall.truncated <=> Len(NoRecall.hits) < NoRecall.matches
  BY <1>1
<1>5. /\ NoRecall.hits \in Seq(Nat) /\ NoRecall.matches \in Nat
      /\ Len(NoRecall.hits) <= NoRecall.matches
  BY NoRecallIsLimited
<1> QED
  BY <1>2, <1>3, <1>4, <1>5, Zenon DEF IsTold

\* An answer without a block.
LEMMA NoBlock ==
  ASSUME NEW a, a.text = 0, a.chars = 0, a.planned = 0, a.total = 1
  PROVE  IsBlock(a)
<1>1. 0 \in Int /\ 1 \in Int /\ 2 \in Int /\ 32 \in Int
  OBVIOUS
<1>2. Max({2, 1}) \in Int /\ Max({2, 1}) >= 2 /\ Max({32, 1}) \in Int /\ Max({32, 1}) >= 32
  BY <1>1, MaxOfTwo, Zenon
<1>3. TokensOf(0) = 1
  BY ShortTexts
<1> QED
  BY <1>2, <1>3 DEF IsBlock

LEMMA NoAnswerIsProper == IsProper(NoAnswer)
<1>1. /\ NoAnswer.recall = NoRecall /\ NoAnswer.truncated = FALSE
      /\ NoAnswer.planned = 0 /\ NoAnswer.total = 1 /\ NoAnswer.text = 0 /\ NoAnswer.chars = 0
  BY DEF NoAnswer
<1>2. IsBlock(NoAnswer)
  BY <1>1, NoBlock
<1>3. NoAnswer.truncated \in BOOLEAN
  BY <1>1, Zenon
<1> QED
  BY <1>1, <1>2, <1>3, NoRecallIsTold, Zenon DEF IsProper

LEMMA TotalIsPositive ==
  ASSUME NEW q \in Recalls
  PROVE  TotalTokens(q) \in Nat \ {0}
<1> DEFINE usual == 6000
           most == 20000
<1>1. usual \in Int /\ most \in Int /\ 1 <= most /\ usual \in 1 .. most
  OBVIOUS
<1>2. TotalTokens(q) = Clamp(q.total, usual, 1, most)
  BY DEF TotalTokens
<1> HIDE DEF usual, most
<1>3. q.total \in Int
  BY RecallAssumption
<1>4. TotalTokens(q) \in 1 .. most
  BY <1>1, <1>2, <1>3 DEF Clamp
<1> QED
  BY <1>1, <1>4

\* The shares of the packet and of the recall add up to no more than the budget.
LEMMA SharesAddUp ==
  ASSUME NEW q \in Recalls
  PROVE  /\ CanonicalTokens(q) + SessionTokens(q) <= Max({2, TotalTokens(q)})
         /\ SessionTokens(q) \in Int
<1> DEFINE budget == TotalTokens(q)
           asked == q.maxTokens
<1>1. budget \in Nat \ {0} /\ asked \in Int
  BY RecallAssumption, TotalIsPositive
<1>2. Max({2, budget}) \in Int /\ Max({2, budget}) >= 2 /\ Max({2, budget}) >= budget
  <2> HIDE DEF budget
  <2>1. 2 \in Int /\ budget \in Int
    BY <1>1
  <2> QED
    BY <2>1, MaxOfTwo, Zenon
<1>3. CASE q.archives
  <2> DEFINE a == Share(q, 3)
             b == Share(q, 7)
             x == (budget * 3) \div 10
             y == (budget * 7) \div 10
  <2> HIDE DEF budget, asked
  <2>1. x \in Int /\ y \in Int /\ x + y <= budget /\ (x <= 1 \/ y <= 1 \/ x + y <= budget)
    BY <1>1
  <2>2. x + 1 <= budget \/ x = 0
    BY <1>1
  <2>3. y + 1 <= budget \/ y = 0
    BY <1>1
  <2>4. a = Max({1, x}) /\ b = Max({1, y})
    BY DEF Share, budget
  <2> HIDE DEF x, y, a, b
  <2>5. 1 \in Int
    OBVIOUS
  <2>6. a \in {1, x} /\ b \in {1, y} /\ a >= 1 /\ b >= 1
    BY <2>1, <2>4, <2>5, MaxOfTwo, Zenon
  <2>7. a \in Int /\ b \in Int /\ (a + b <= 2 \/ a + b <= budget)
    BY <1>1, <2>1, <2>2, <2>3, <2>6
  <2>8. SessionTokens(q) \in 1 .. a
    <3>1. Clamp(asked, a, 1, a) \in 1 .. a
      BY <1>1, <2>6, <2>7 DEF Clamp
    <3> QED
      BY <1>3, <3>1 DEF SessionTokens, asked, a
  <2>9. CanonicalTokens(q) = b
    BY <1>3 DEF CanonicalTokens, b
  <2>10. b + SessionTokens(q) <= Max({2, budget})
    BY <1>1, <1>2, <2>7, <2>8
  <2> QED
    BY <2>7, <2>8, <2>9, <2>10 DEF budget
<1>4. CASE ~q.archives
  <2>1. SessionTokens(q) = 0 /\ CanonicalTokens(q) = budget
    BY <1>4 DEF SessionTokens, CanonicalTokens
  <2> HIDE DEF budget
  <2>2. budget + 0 <= Max({2, budget})
    BY <1>1, <1>2
  <2> QED
    BY <2>1, <2>2 DEF budget
<1> QED
  BY <1>3, <1>4

LEMMA CreateKeepsInv ==
  ASSUME AgentInv, NEW s \in Sessions, NEW messages \in Archives, CreateArchive(s, messages)
  PROVE  AgentInv'
<1>1. /\ archive \in [Sessions -> Seq(Nat)] /\ messages \in Seq(Nat)
      /\ archive' = [archive EXCEPT ![s] = archive[s] \o messages] /\ answer' = NoAnswer
  BY RecallAssumption DEF CreateArchive, AgentInv
<1>2. archive[s] \o messages \in Seq(Nat)
  BY <1>1
<1>3. archive' \in [Sessions -> Seq(Nat)]
  BY <1>1, <1>2
<1> QED
  BY <1>1, <1>3, NoAnswerIsProper DEF AgentInv

LEMMA LimitIsPositive ==
  ASSUME NEW q \in Recalls
  PROVE  /\ Clamp(q.limit, 10, 1, 20) \in Nat \ {0}
         /\ Clamp(q.maxTokens, 4000, 1, 12000) \in Int
<1>1. q.limit \in Int /\ q.maxTokens \in Int
  BY RecallAssumption
<1>2. Clamp(q.limit, 10, 1, 20) \in Nat \ {0}
  BY <1>1 DEF Clamp
<1>3. Clamp(q.maxTokens, 4000, 1, 12000) \in Int
  BY <1>1 DEF Clamp
<1> QED
  BY <1>2, <1>3

LEMMA SearchKeepsInv ==
  ASSUME AgentInv, NEW q \in Recalls, SearchArchives(q)
  PROVE  AgentInv'
<1>1. PICK order \in SetToSeqs(Searched(q)) :
        answer' = [NoAnswer EXCEPT !.recall =
          Hits(order, Clamp(q.limit, 10, 1, 20), Clamp(q.maxTokens, 4000, 1, 12000))]
  BY DEF SearchArchives
<1> DEFINE r == Hits(order, Clamp(q.limit, 10, 1, 20), Clamp(q.maxTokens, 4000, 1, 12000))
<1>2. IsTold(r)
  BY OrdersAreSequences, LimitIsPositive, HitsAreLimited DEF AgentInv
<1> HIDE DEF r
<1>3. answer' = [NoAnswer EXCEPT !.recall = r]
  BY <1>1 DEF r
<1>4. /\ DOMAIN answer' = DOMAIN NoAnswer /\ answer'.truncated = NoAnswer.truncated
      /\ answer'.recall = r
      /\ answer'.planned = 0 /\ answer'.total = 1 /\ answer'.text = 0 /\ answer'.chars = 0
  BY <1>3 DEF NoAnswer
<1>5. IsBlock(answer')
  BY <1>4, NoBlock
<1>6. IsProper(answer')
  BY <1>2, <1>4, <1>5, NoAnswerIsProper, Zenon DEF IsProper
<1> QED
  BY <1>6 DEF AgentInv, SearchArchives

LEMMA RecallIsTold ==
  ASSUME archive \in [Sessions -> Seq(Nat)], NEW q \in Recalls, NEW r \in Recalled(q)
  PROVE  IsTold(r)
<1>1. CASE r = NoRecall
  BY <1>1, NoRecallIsTold
<1>2. CASE r # NoRecall
  <2>1. PICK order \in SetToSeqs(Searched(q)) :
          q.archives /\ r = Hits(order, Clamp(q.limit, 10, 1, 20), SessionTokens(q))
    BY <1>2 DEF Recalled
  <2>2. SessionTokens(q) \in Int
    BY SharesAddUp
  <2> QED
    BY <2>1, <2>2, OrdersAreSequences, LimitIsPositive, HitsAreLimited
<1> QED
  BY <1>1, <1>2

LEMMA AssembleKeepsInv ==
  ASSUME AgentInv, NEW q \in Recalls, AssembleAgentContext(q)
  PROVE  AgentInv'
<1>1. PICK size \in PacketSizes, r \in Recalled(q) :
        LET text == Frame + size + SumOf(r.hits) + Len(r.hits) * HitFrame IN
          answer' = [text |-> text, chars |-> Enforced(text, TotalTokens(q)),
                     total |-> TotalTokens(q), planned |-> CanonicalTokens(q) + SessionTokens(q),
                     truncated |-> r.truncated \/ TokensOf(text) > TotalTokens(q), recall |-> r]
  BY Zenon DEF AssembleAgentContext
<1> DEFINE text == Frame + size + SumOf(r.hits) + Len(r.hits) * HitFrame
           chars == Enforced(text, TotalTokens(q))
<1> HIDE DEF chars
<1> DEFINE cut == r.truncated \/ TokensOf(text) > TotalTokens(q)
<1>2. cut \in BOOLEAN
  OBVIOUS
<1> HIDE DEF cut
<1>3. answer' = [text |-> text, chars |-> chars, total |-> TotalTokens(q),
                 planned |-> CanonicalTokens(q) + SessionTokens(q), truncated |-> cut,
                 recall |-> r]
  BY <1>1, Zenon DEF cut, chars
<1> HIDE DEF text
<1>4. /\ DOMAIN answer' = DOMAIN NoAnswer /\ answer'.truncated = cut /\ answer'.recall = r
      /\ answer'.planned = CanonicalTokens(q) + SessionTokens(q)
      /\ answer'.total = TotalTokens(q) /\ answer'.text = text /\ answer'.chars = chars
  BY <1>3 DEF NoAnswer
<1>5. IsTold(r)
  BY RecallIsTold DEF AgentInv
<1>6. text \in Int
  <2>1. SumOf(r.hits) \in Nat /\ Len(r.hits) \in Nat
    BY <1>5, SumsAreNumbers DEF IsTold
  <2>2. Len(r.hits) * HitFrame \in Int /\ Frame \in Nat /\ size \in Nat
    BY <2>1, RecallAssumption
  <2> QED
    BY <2>1, <2>2 DEF text
<1>7. /\ TokensOf(chars) <= Max({32, TotalTokens(q)})
      /\ ~(TokensOf(text) > TotalTokens(q)) => chars = text
  BY <1>6, CutTextsFit, TotalIsPositive DEF chars
<1>8. ~cut => chars = text /\ Len(r.hits) = r.matches
  <2>1. SUFFICES ASSUME ~cut PROVE chars = text /\ Len(r.hits) = r.matches
    OBVIOUS
  <2>2. ~r.truncated /\ ~(TokensOf(text) > TotalTokens(q))
    BY <2>1, Zenon DEF cut
  <2>3. /\ Len(r.hits) \in Nat /\ r.matches \in Nat /\ Len(r.hits) <= r.matches
        /\ ~(Len(r.hits) < r.matches)
    BY <1>5, <2>2 DEF IsTold
  <2> QED
    BY <1>7, <2>2, <2>3
<1>9. IsBlock(answer')
  BY <1>4, <1>7, <1>8, SharesAddUp DEF IsBlock
<1>10. IsProper(answer')
  BY <1>2, <1>4, <1>5, <1>9, Zenon DEF IsProper
<1> QED
  BY <1>10 DEF AgentInv, AssembleAgentContext

LEMMA AgentInvAlways == AgentSpec => []AgentInv
<1>1. AgentInit => AgentInv
  <2>1. AgentInit => archive \in [Sessions -> Seq(Nat)] /\ answer = NoAnswer
    BY DEF AgentInit
  <2> QED
    BY <2>1, NoAnswerIsProper DEF AgentInv
<1>2. AgentInv /\ [AgentNext]_agentVars => AgentInv'
  <2>1. AgentInv /\ UNCHANGED agentVars => AgentInv'
    BY DEF AgentInv, agentVars
  <2> QED
    BY <2>1, CreateKeepsInv, SearchKeepsInv, AssembleKeepsInv DEF AgentNext
<1> QED
  BY <1>1, <1>2, PTL DEF AgentSpec

-----------------------------------------------------------------------------
\* The archives hold sequences of messages, and answers have their fields.
THEOREM AgentTypeCorrect == AgentSpec => []AgentTypeOK
<1>1. AgentInv => AgentTypeOK
  BY Zenon DEF AgentInv, IsProper, IsTold, AgentTypeOK
<1> QED
  BY <1>1, AgentInvAlways, PTL

\* Whatever the order of the matches and the limits asked for, a search keeps to
\* them and says that it leaves out something exactly when it does: as twice the
\* limit is read, there is always a row more to tell by.
THEOREM SearchesTellTruncation == AgentSpec => []TruncationIsReported
<1>1. AgentInv => TruncationIsReported
  BY Zenon DEF AgentInv, IsProper, IsTold, TruncationIsReported
<1> QED
  BY <1>1, AgentInvAlways, PTL

\* For any packet, archives and budget, what is planned for the packet and the recall is
\* within the budget (rounded down the shares fit, and rounded up to one token they make
\* two), the block is cut to the budget or to 32 tokens, and one that does not say it is
\* truncated holds the whole packet and every match.
THEOREM BlocksAreBounded == AgentSpec => []BlockIsBounded
<1>1. AgentInv => BlockIsBounded
  BY Zenon DEF AgentInv, IsProper, IsBlock, BlockIsBounded
<1> QED
  BY <1>1, AgentInvAlways, PTL
==============================================================================
