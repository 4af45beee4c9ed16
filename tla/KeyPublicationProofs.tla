------------------------ MODULE KeyPublicationProofs ------------------------
(***************************************************************************)
(* Proofs about KeySelection and KeyPublication, for key sets of any       *)
(* length: what the candidates are and in which order, that the loop of    *)
(* KeySet.Key finds the first of them, and that a public set selects as    *)
(* the set of the issuer does.                                             *)
(***************************************************************************)
EXTENDS KeyPublication, FiniteSetTheorems, FunctionTheorems, WellFoundedInduction, TLAPS

LEMMA LeastExists ==
  ASSUME NEW T, T \subseteq Nat, T # {}
  PROVE  \E i \in T : \A j \in T : i <= j
<1> DEFINE R == OpToRel(<, Nat)
<1>1. PICK i \in T : \A j \in T : <<j, i>> \notin R
  BY NatLessThanWellFounded, WFMin
<1>2. \A j \in T : ~(j < i)
  BY <1>1 DEF OpToRel
<1> HIDE DEF R
<1>3. i \in Nat /\ T \subseteq Nat
  OBVIOUS
<1>4. \A j \in T : i <= j
  BY <1>2, <1>3
<1> QED
  BY <1>4

-----------------------------------------------------------------------------
(* The sorted enumeration of a finite set.  R is the order, a set of pairs. *)

StrictOrder(R, S) ==
  /\ \A x \in S : <<x, x>> \notin R
  /\ \A x, y, z \in S : <<x, y>> \in R /\ <<y, z>> \in R => <<x, z>> \in R
  /\ \A x, y \in S : x = y \/ <<x, y>> \in R \/ <<y, x>> \in R

\* f has the elements of S, each once, in the order R.
Sorts(f, R, S) ==
  /\ \E n \in Nat : f \in [1..n -> S]
  /\ \A x \in S : \E p \in DOMAIN f : f[p] = x
  /\ \A p, q \in DOMAIN f : p < q => <<f[p], f[q]>> \in R

\* The place of an element is behind those that precede it, so two have no place
\* in common, and the elements are as many as the places.
LEMMA SortExists ==
  ASSUME NEW S, IsFiniteSet(S), NEW R, StrictOrder(R, S)
  PROVE  \E f \in SetToSeqs(S) : \A p, q \in 1..Cardinality(S) : p < q => <<f[p], f[q]>> \in R
<1> DEFINE n == Cardinality(S)
           Below(x) == {y \in S : <<y, x>> \in R}
           place == [x \in S |-> Cardinality(Below(x)) + 1]
<1>1. n \in Nat /\ IsFiniteSet(1..n) /\ Cardinality(1..n) = n
  BY FS_CardinalityType, FS_Interval
<1>2. \A x \in S : IsFiniteSet(Below(x)) /\ Cardinality(Below(x)) \in Nat
  BY FS_Subset, FS_CardinalityType
<1>3. ASSUME NEW x \in S, NEW y \in S, <<x, y>> \in R
      PROVE  place[x] < place[y]
  <2>1. Below(x) \subseteq Below(y) /\ x \in Below(y) /\ x \notin Below(x)
    BY <1>3 DEF StrictOrder
  <2>2. /\ Cardinality(Below(x)) <= Cardinality(Below(y))
        /\ Cardinality(Below(y)) # Cardinality(Below(x))
    BY <2>1, <1>2, FS_Subset
  <2>3. Cardinality(Below(x)) \in Nat /\ Cardinality(Below(y)) \in Nat
    BY <1>2
  <2>4. place[x] = Cardinality(Below(x)) + 1 /\ place[y] = Cardinality(Below(y)) + 1
    OBVIOUS
  <2> QED
    BY <2>2, <2>3, <2>4
<1>4. ASSUME NEW x \in S PROVE place[x] \in 1..n
  <2>1. Below(x) \subseteq S /\ x \notin Below(x)
    BY DEF StrictOrder
  <2>2. Cardinality(Below(x)) <= n /\ n # Cardinality(Below(x))
    BY <2>1, FS_Subset
  <2>3. place[x] = Cardinality(Below(x)) + 1 /\ Cardinality(Below(x)) \in Nat
    BY <1>2
  <2> QED
    BY <1>1, <2>2, <2>3
<1> HIDE DEF place
<1>5. place \in [S -> 1..n]
  BY <1>4 DEF place
<1>6. ASSUME NEW x \in S, NEW y \in S, place[x] = place[y] PROVE x = y
  <2>1. place[x] \in Nat /\ ~(place[x] < place[y]) /\ ~(place[y] < place[x])
    BY <1>1, <1>5, <1>6
  <2>2. <<x, y>> \notin R /\ <<y, x>> \notin R
    BY <1>3, <2>1
  <2> QED
    BY <2>2 DEF StrictOrder
<1>7. place \in Surjection(S, 1..n)
  <2>1. place \in Injection(S, 1..n)
    BY <1>5, <1>6 DEF Injection, IsInjective
  <2> QED
    BY <1>1, <2>1, FS_Injection
<1>8. \A p \in 1..n : \E x \in S : place[x] = p
  BY <1>7 DEF Surjection
<1> DEFINE f == [p \in 1..n |-> CHOOSE x \in S : place[x] = p]
<1>9. \A p \in 1..n : f[p] \in S /\ place[f[p]] = p
  BY <1>8
<1>10. f \in [1..n -> S]
  BY <1>9
<1> HIDE DEF f
<1>11. \A p, q \in 1..n : p # q => f[p] # f[q]
  BY <1>9
<1>12. f \in SetToSeqs(S)
  BY <1>10, <1>11 DEF SetToSeqs
<1>13. ASSUME NEW p \in 1..n, NEW q \in 1..n, p < q PROVE <<f[p], f[q]>> \in R
  <2>1. f[p] \in S /\ f[q] \in S /\ place[f[p]] = p /\ place[f[q]] = q
    BY <1>9
  <2>2. f[p] # f[q] /\ <<f[q], f[p]>> \notin R
    BY <1>1, <1>3, <1>13, <2>1
  <2> QED
    BY <2>1, <2>2 DEF StrictOrder
<1> QED
  BY <1>12, <1>13

\* A sequence of SetToSeqs has every element.
LEMMA SeqsSort ==
  ASSUME NEW S, IsFiniteSet(S), NEW R, NEW f \in SetToSeqs(S),
         \A p, q \in 1..Cardinality(S) : p < q => <<f[p], f[q]>> \in R
  PROVE  Sorts(f, R, S) /\ DOMAIN f = 1..Cardinality(S)
<1> DEFINE n == Cardinality(S)
<1>1. n \in Nat /\ IsFiniteSet(1..n) /\ Cardinality(1..n) = n
  BY FS_CardinalityType, FS_Interval
<1>2. f \in [1..n -> S] /\ \A p, q \in 1..n : p # q => f[p] # f[q]
  BY DEF SetToSeqs
<1>3. f \in Injection(1..n, S)
  BY <1>2 DEF Injection, IsInjective
<1>4. f \in Surjection(1..n, S)
  BY <1>1, <1>3, FS_Injection
<1>5. \A x \in S : \E p \in 1..n : f[p] = x
  BY <1>4 DEF Surjection
<1> QED
  BY <1>1, <1>2, <1>5 DEF Sorts

\* There is one way to sort.
LEMMA SortUnique ==
  ASSUME NEW S, NEW R, StrictOrder(R, S), NEW f, NEW g, Sorts(f, R, S), Sorts(g, R, S)
  PROVE  f = g
<1>1. PICK m \in Nat : f \in [1..m -> S]
  BY DEF Sorts
<1>2. PICK n \in Nat : g \in [1..n -> S]
  BY DEF Sorts
<1>3. /\ \A p, q \in 1..m : p < q => <<f[p], f[q]>> \in R
      /\ \A p, q \in 1..n : p < q => <<g[p], g[q]>> \in R
      /\ \A x \in S : \E p \in 1..m : f[p] = x
      /\ \A x \in S : \E p \in 1..n : g[p] = x
  BY <1>1, <1>2 DEF Sorts
<1>4. /\ \A p, q \in 1..m : f[p] = f[q] => p = q
      /\ \A p, q \in 1..n : g[p] = g[q] => p = q
  <2>1. \A x \in S : <<x, x>> \notin R
    BY DEF StrictOrder
  <2>2. \A p, q \in 1..m : p # q => f[p] # f[q]
    <3>1. ASSUME NEW p \in 1..m, NEW q \in 1..m, p < q PROVE f[p] # f[q]
      BY <1>1, <1>3, <2>1, <3>1
    <3> QED
      BY <3>1
  <2>3. \A p, q \in 1..n : p # q => g[p] # g[q]
    <3>1. ASSUME NEW p \in 1..n, NEW q \in 1..n, p < q PROVE g[p] # g[q]
      BY <1>2, <1>3, <2>1, <3>1
    <3> QED
      BY <3>1
  <2> QED
    BY <2>2, <2>3
<1> DEFINE bad == {p \in Nat : p \in 1..m /\ p \in 1..n /\ f[p] # g[p]}
<1>5. bad = {}
  <2>1. SUFFICES ASSUME bad # {} PROVE FALSE
    OBVIOUS
  <2>2. PICK p \in bad : \A q \in bad : p <= q
    BY <2>1, LeastExists
  <2>3. p \in 1..m /\ p \in 1..n /\ f[p] # g[p] /\ f[p] \in S /\ g[p] \in S
    BY <1>1, <1>2
  <2>4. \A q \in 1..m : q < p => f[q] = g[q] /\ q \in 1..n
    <3>1. ASSUME NEW q \in 1..m, q < p PROVE q \in 1..n /\ q \notin bad
      BY <1>1, <1>2, <2>2, <2>3, <3>1
    <3> QED
      BY <3>1
  <2> HIDE DEF bad
  <2>5. PICK r \in 1..n : g[r] = f[p]
    BY <1>3, <2>3
  <2>6. PICK s \in 1..m : f[s] = g[p]
    BY <1>3, <2>3
  <2>7. r > p
    <3>1. r # p
      BY <2>3, <2>5
    <3>2. ASSUME r < p PROVE FALSE
      <4>1. r \in 1..m
        BY <1>1, <2>3, <3>2
      <4>2. f[r] = f[p]
        BY <2>4, <2>5, <3>2, <4>1
      <4> QED
        BY <1>4, <2>3, <3>1, <4>1, <4>2
    <3> QED
      BY <2>3, <3>1, <3>2
  <2>8. s > p
    <3>1. s # p
      BY <2>3, <2>6
    <3>2. ASSUME s < p PROVE FALSE
      <4>1. s \in 1..n /\ g[s] = g[p]
        BY <2>4, <2>6, <3>2
      <4> QED
        BY <1>4, <2>3, <3>1, <4>1
    <3> QED
      BY <2>3, <3>1, <3>2
  <2>9. <<g[p], f[p]>> \in R /\ <<f[p], g[p]>> \in R
    BY <1>3, <2>3, <2>5, <2>6, <2>7, <2>8
  <2> QED
    BY <2>3, <2>9 DEF StrictOrder
<1>6. \A p : p \in 1..m /\ p \in 1..n => f[p] = g[p]
  BY <1>5
<1> HIDE DEF bad
<1>7. m = n
  <2>1. ASSUME m < n PROVE FALSE
    <3>1. n \in 1..n /\ n \notin 1..m /\ g[n] \in S
      BY <1>1, <1>2, <2>1
    <3>2. PICK p \in 1..m : f[p] = g[n]
      BY <1>3, <3>1
    <3>3. p \in 1..n /\ g[p] = g[n]
      BY <1>1, <1>2, <1>6, <2>1, <3>2
    <3> QED
      BY <1>4, <3>1, <3>2, <3>3
  <2>2. ASSUME n < m PROVE FALSE
    <3>1. m \in 1..m /\ m \notin 1..n /\ f[m] \in S
      BY <1>1, <1>2, <2>2
    <3>2. PICK p \in 1..n : g[p] = f[m]
      BY <1>3, <3>1
    <3>3. p \in 1..m /\ f[p] = f[m]
      BY <1>1, <1>2, <1>6, <2>2, <3>2
    <3> QED
      BY <1>4, <3>1, <3>2, <3>3
  <2> QED
    BY <1>1, <1>2, <2>1, <2>2
<1> QED
  BY <1>1, <1>2, <1>6, <1>7

-----------------------------------------------------------------------------
(* The two orders, of positions and of rank *)

Ascending == {pair \in Nat \X Nat : pair[1] < pair[2]}

RankOrder(keys, req) == {pair \in Nat \X Nat : Precedes(keys, req, pair[1], pair[2])}

LEMMA AscendingStrict ==
  ASSUME NEW S, S \subseteq Nat
  PROVE  StrictOrder(Ascending, S) /\ \A i, j \in S : <<i, j>> \in Ascending <=> i < j
<1>1. \A i, j \in S : <<i, j>> \in Ascending <=> i < j
  BY DEF Ascending
<1> QED
  BY <1>1 DEF StrictOrder

LEMMA WeightType ==
  ASSUME NEW key, NEW req
  PROVE  Weight(key, req) \in Nat
<1>1. /\ Points(key.use = req.use, 16) \in Nat /\ Points(req.op \in ToSet(key.ops), 8) \in Nat
      /\ Points(key.alg # Absent /\ key.alg = req.alg, 64) \in Nat
      /\ Points(key.kid # Absent /\ key.kid = req.kid, 128) \in Nat
  BY DEF Points
<1> QED
  BY <1>1 DEF Weight

LEMMA RankStrict ==
  ASSUME NEW S, S \subseteq Nat, NEW keys, NEW req
  PROVE  /\ StrictOrder(RankOrder(keys, req), S)
         /\ \A i, j \in S : <<i, j>> \in RankOrder(keys, req) <=> Precedes(keys, req, i, j)
<1> DEFINE w(i) == Weight(keys[i], req)
<1>1. \A i, j \in S : <<i, j>> \in RankOrder(keys, req) <=> Precedes(keys, req, i, j)
  BY DEF RankOrder
<1>2. \A i, j : Precedes(keys, req, i, j) <=> (w(i) > w(j) \/ (w(i) = w(j) /\ i < j))
  BY DEF Precedes
<1>3. \A i : w(i) \in Nat
  BY WeightType
<1> HIDE DEF w
<1>4. \A i \in S : ~Precedes(keys, req, i, i)
  BY <1>2, <1>3
<1>5. \A i, j, k \in S : Precedes(keys, req, i, j) /\ Precedes(keys, req, j, k)
                           => Precedes(keys, req, i, k)
  BY <1>2, <1>3
<1>6. \A i, j \in S : i = j \/ Precedes(keys, req, i, j) \/ Precedes(keys, req, j, i)
  BY <1>2, <1>3
<1> QED
  BY <1>1, <1>4, <1>5, <1>6 DEF StrictOrder

LEMMA LenOf ==
  ASSUME NEW S, NEW n \in Nat, NEW f \in [1..n -> S]
  PROVE  f \in Seq(S) /\ Len(f) = n
OBVIOUS

-----------------------------------------------------------------------------
(* What the operators of KeySelection give *)

\* At gives what s has at the positions, which it takes in their order.
LEMMA AtSorted ==
  ASSUME NEW S, S \subseteq Nat, IsFiniteSet(S), NEW s
  PROVE  \E a : /\ Sorts(a, Ascending, S) /\ DOMAIN a = 1..Cardinality(S)
                /\ At(s, S) = [p \in DOMAIN a |-> s[a[p]]]
<1> DEFINE n == Cardinality(S)
           a == CHOOSE f \in SetToSeqs(S) : \A i, j \in 1..Len(f) : i < j => f[i] < f[j]
<1>1. n \in Nat
  BY FS_CardinalityType
<1>2. \A f \in SetToSeqs(S) : f \in [1..n -> S] /\ Len(f) = n
  BY <1>1, LenOf DEF SetToSeqs
<1>3. \E f \in SetToSeqs(S) : \A i, j \in 1..Len(f) : i < j => f[i] < f[j]
  <2>1. PICK f \in SetToSeqs(S) : \A p, q \in 1..n : p < q => <<f[p], f[q]>> \in Ascending
    BY AscendingStrict, SortExists
  <2>2. \A i, j \in 1..Len(f) : i < j => f[i] < f[j]
    BY <1>2, <2>1, AscendingStrict
  <2> QED
    BY <2>2
<1>4. a \in SetToSeqs(S) /\ \A i, j \in 1..Len(a) : i < j => a[i] < a[j]
  BY <1>3
<1>5. At(s, S) = [p \in DOMAIN a |-> s[a[p]]]
  BY DEF At, IsSorted
<1> HIDE DEF a
<1>6. \A p, q \in 1..n : p < q => <<a[p], a[q]>> \in Ascending
  BY <1>2, <1>4, AscendingStrict
<1>7. Sorts(a, Ascending, S) /\ DOMAIN a = 1..n
  BY <1>4, <1>6, SeqsSort
<1> QED
  BY <1>5, <1>7

LEMMA SuitablePositions ==
  ASSUME NEW n \in Nat, NEW keys, DOMAIN keys = 1..n, NEW req
  PROVE  /\ SuitableIn(keys, req) \subseteq Nat /\ IsFiniteSet(SuitableIn(keys, req))
         /\ 0 \notin SuitableIn(keys, req)
BY FS_Interval, FS_Subset DEF SuitableIn

\* The candidates are the suitable keys, each once, by rank.
LEMMA CandidatesSorted ==
  ASSUME NEW n \in Nat, NEW keys, DOMAIN keys = 1..n, NEW req
  PROVE  /\ Sorts(Candidates(keys, req), RankOrder(keys, req), SuitableIn(keys, req))
         /\ DOMAIN Candidates(keys, req) = 1..Cardinality(SuitableIn(keys, req))
<1> DEFINE S == SuitableIn(keys, req)
           R == RankOrder(keys, req)
           c == Candidates(keys, req)
<1>1. S \subseteq Nat /\ IsFiniteSet(S) /\ Cardinality(S) \in Nat
  BY SuitablePositions, FS_CardinalityType
<1>2. \A f \in SetToSeqs(S) : f \in [1..Cardinality(S) -> S] /\ Len(f) = Cardinality(S)
  BY <1>1, LenOf DEF SetToSeqs
<1>3. \E f \in SetToSeqs(S) : \A i, j \in 1..Len(f) : i < j => Precedes(keys, req, f[i], f[j])
  <2>1. PICK f \in SetToSeqs(S) : \A p, q \in 1..Cardinality(S) : p < q => <<f[p], f[q]>> \in R
    BY <1>1, RankStrict, SortExists
  <2>2. \A i, j \in 1..Len(f) : i < j => Precedes(keys, req, f[i], f[j])
    BY <1>1, <1>2, <2>1, RankStrict
  <2> QED
    BY <2>2
<1>4. c \in SetToSeqs(S) /\ \A i, j \in 1..Len(c) : i < j => Precedes(keys, req, c[i], c[j])
  BY <1>3 DEF Candidates, IsSorted
<1> HIDE DEF c, R, S
<1>5. \A p, q \in 1..Cardinality(S) : p < q => <<c[p], c[q]>> \in R
  BY <1>1, <1>2, <1>4, RankStrict DEF R
<1>6. Sorts(c, R, S) /\ DOMAIN c = 1..Cardinality(S)
  BY <1>1, <1>4, <1>5, SeqsSort
<1> QED
  BY <1>6 DEF c, R, S

\* One turn of the loop of KeySet.Key.
Turn(keys, req, best, i) ==
  IF Suitable(keys[i], req) /\ Better(keys, req, best, i) THEN i ELSE best

\* The loop, as a function of the positions it has seen.
IsLoop(F, keys, req) ==
  F = [s \in SUBSET DOMAIN [i \in DOMAIN keys |-> i] |->
         IF s = {} THEN 0
         ELSE Turn(keys, req, F[s \ {Max(s)}], [i \in DOMAIN keys |-> i][Max(s)])]

LEMMA BestIsLoop ==
  ASSUME NEW keys, NEW req
  PROVE  BestKey(keys, req) = (CHOOSE F : IsLoop(F, keys, req))[DOMAIN keys]
<1>1. DOMAIN [i \in DOMAIN keys |-> i] = DOMAIN keys
  OBVIOUS
<1>2. BestKey(keys, req) = (CHOOSE F : IsLoop(F, keys, req))[DOMAIN [i \in DOMAIN keys |-> i]]
  BY DEF BestKey, FoldLeft, MapThenFoldSet, IsLoop, Turn
<1> QED
  BY <1>1, <1>2

\* The first of some positions by rank; 0 when there is none.
First(keys, req, T) ==
  IF T = {} THEN 0 ELSE CHOOSE i \in T : \A j \in T : i = j \/ Precedes(keys, req, i, j)

IsFirst(keys, req, T, i) == i \in T /\ \A j \in T : i = j \/ Precedes(keys, req, i, j)

LEMMA FirstIs ==
  ASSUME NEW T, T \subseteq Nat, IsFiniteSet(T), T # {}, NEW keys, NEW req
  PROVE  /\ IsFirst(keys, req, T, First(keys, req, T))
         /\ \A i : IsFirst(keys, req, T, i) => i = First(keys, req, T)
<1> DEFINE R == RankOrder(keys, req)
<1>1. PICK f \in SetToSeqs(T) : \A p, q \in 1..Cardinality(T) : p < q => <<f[p], f[q]>> \in R
  BY RankStrict, SortExists
<1>2. Sorts(f, R, T) /\ DOMAIN f = 1..Cardinality(T)
  BY <1>1, SeqsSort
<1>3. Cardinality(T) \in Nat /\ Cardinality(T) # 0
  BY FS_CardinalityType, FS_EmptySet
<1> HIDE DEF R
<1>4. f[1] \in T /\ \A j \in T : f[1] = j \/ <<f[1], j>> \in R
  <2>1. 1 \in DOMAIN f /\ \A q \in DOMAIN f : q = 1 \/ 1 < q
    BY <1>2, <1>3
  <2>2. f[1] \in T
    BY <2>1, <1>2 DEF Sorts
  <2>3. ASSUME NEW j \in T PROVE f[1] = j \/ <<f[1], j>> \in R
    <3>1. PICK q \in DOMAIN f : f[q] = j
      BY <1>2 DEF Sorts
    <3>2. q = 1 \/ <<f[1], f[q]>> \in R
      BY <2>1, <1>2 DEF Sorts
    <3> QED
      BY <3>1, <3>2
  <2> QED
    BY <2>2, <2>3
<1>5. IsFirst(keys, req, T, f[1])
  BY <1>4, RankStrict DEF IsFirst, R
<1>6. IsFirst(keys, req, T, First(keys, req, T))
  BY <1>5 DEF First, IsFirst
<1>7. ASSUME NEW i, NEW j, IsFirst(keys, req, T, i), IsFirst(keys, req, T, j) PROVE i = j
  <2>1. i \in T /\ j \in T /\ (i = j \/ (<<i, j>> \in R /\ <<j, i>> \in R))
    BY <1>7, RankStrict DEF IsFirst, R
  <2>2. StrictOrder(R, T)
    BY RankStrict DEF R
  <2> QED
    BY <2>1, <2>2 DEF StrictOrder
<1> QED
  BY <1>6, <1>7

LEMMA MaxIs ==
  ASSUME NEW T, T \subseteq Nat, IsFiniteSet(T), T # {}
  PROVE  Max(T) \in T /\ \A j \in T : j <= Max(T)
<1>1. PICK f \in SetToSeqs(T) : \A p, q \in 1..Cardinality(T) : p < q => <<f[p], f[q]>> \in Ascending
  BY AscendingStrict, SortExists
<1>2. Sorts(f, Ascending, T) /\ DOMAIN f = 1..Cardinality(T)
  BY <1>1, SeqsSort
<1> DEFINE n == Cardinality(T)
<1>3. n \in Nat /\ n # 0
  BY FS_CardinalityType, FS_EmptySet
<1> HIDE DEF n
<1>4. n \in DOMAIN f /\ \A q \in DOMAIN f : q = n \/ q < n
  BY <1>2, <1>3 DEF n
<1>5. f[n] \in T
  BY <1>2, <1>4 DEF Sorts
<1>6. ASSUME NEW j \in T PROVE f[n] >= j
  <2>1. PICK q \in DOMAIN f : f[q] = j
    BY <1>2 DEF Sorts
  <2>2. q = n \/ <<f[q], f[n]>> \in Ascending
    BY <1>2, <1>4 DEF Sorts
  <2>3. f[q] = f[n] \/ f[q] < f[n]
    BY <1>5, <2>1, <2>2, AscendingStrict
  <2>4. f[n] \in Nat /\ j \in Nat
    BY <1>5
  <2> QED
    BY <2>1, <2>3, <2>4
<1>7. \E x \in T : \A y \in T : x >= y
  BY <1>5, <1>6
<1>8. Max(T) \in T /\ \A y \in T : Max(T) >= y
  BY <1>7 DEF Max
<1> QED
  BY <1>8

\* Suitable positions among some.
SuitableOf(keys, req, s) == {i \in s : Suitable(keys[i], req)}

\* A turn keeps the first of the positions seen: a later key is first only when
\* it weighs more than the best of those before it.
LEMMA TurnKeepsFirst ==
  ASSUME NEW s, s \subseteq Nat \ {0}, IsFiniteSet(s), NEW m \in s, \A j \in s : j <= m,
         NEW keys, NEW req
  PROVE  First(keys, req, SuitableOf(keys, req, s)) =
           Turn(keys, req, First(keys, req, SuitableOf(keys, req, s \ {m})), m)
<1> DEFINE T == SuitableOf(keys, req, s)
           U == SuitableOf(keys, req, s \ {m})
           b == First(keys, req, U)
           w(i) == Weight(keys[i], req)
<1>1. /\ T \subseteq Nat /\ IsFiniteSet(T) /\ U \subseteq Nat /\ IsFiniteSet(U) /\ 0 \notin U
      /\ U = T \ {m} /\ \A j \in U : j \in Nat /\ j < m
  <2>1. T \subseteq s /\ U = T \ {m} /\ U \subseteq s
    BY DEF SuitableOf
  <2>2. IsFiniteSet(T) /\ IsFiniteSet(U)
    BY <2>1, FS_Subset
  <2>3. \A j \in U : j \in Nat /\ j <= m /\ j # m /\ m \in Nat
    BY <2>1
  <2> HIDE DEF T, U
  <2>4. \A j \in U : j < m
    BY <2>3
  <2> QED
    BY <2>1, <2>2, <2>3, <2>4
<1>2. \A i, j : Precedes(keys, req, i, j) <=> (w(i) > w(j) \/ (w(i) = w(j) /\ i < j))
  BY DEF Precedes
<1>3. \A i : w(i) \in Nat
  BY WeightType
<1>4. \A i : Better(keys, req, i, m) <=> (i = 0 \/ w(m) > w(i))
  BY DEF Better
<1>5. U # {} => IsFirst(keys, req, U, b)
  BY <1>1, FirstIs
<1>6. U = {} => b = 0
  BY DEF First
<1>7. m \in T <=> Suitable(keys[m], req)
  BY DEF SuitableOf
<1>8. \A i : IsFirst(keys, req, T, i) => i = First(keys, req, T)
  BY <1>1, FirstIs DEF IsFirst
<1> HIDE DEF T, U, b, w
<1>9. CASE m \notin T
  <2>1. U = T
    BY <1>1, <1>9
  <2>2. Turn(keys, req, b, m) = b
    BY <1>7, <1>9 DEF Turn
  <2> QED
    BY <2>1, <2>2 DEF b, T, U
<1>10. CASE m \in T /\ U = {}
  <2>1. T = {m}
    BY <1>1, <1>10
  <2>2. IsFirst(keys, req, T, m)
    BY <2>1 DEF IsFirst
  <2>3. Turn(keys, req, b, m) = m
    BY <1>4, <1>6, <1>7, <1>10 DEF Turn
  <2> QED
    BY <1>8, <2>2, <2>3 DEF b, T, U
<1>11. CASE m \in T /\ U # {}
  <2>1. b \in U /\ b # 0 /\ b \in Nat /\ b < m /\ b \in T
    BY <1>1, <1>5, <1>11 DEF IsFirst
  <2>2. \A j \in T : j = m \/ j \in U
    BY <1>1
  <2>3. \A j \in U : b = j \/ Precedes(keys, req, b, j)
    BY <1>5, <1>11 DEF IsFirst
  <2>4. CASE w(m) > w(b)
    <3>1. \A j \in U : Precedes(keys, req, m, j)
      BY <1>2, <1>3, <2>3, <2>4
    <3>2. IsFirst(keys, req, T, m)
      BY <1>11, <2>2, <3>1 DEF IsFirst
    <3>3. Turn(keys, req, b, m) = m
      BY <1>4, <1>7, <1>11, <2>4 DEF Turn
    <3> QED
      BY <1>8, <3>2, <3>3 DEF b, T, U
  <2>5. CASE ~(w(m) > w(b))
    <3>1. Precedes(keys, req, b, m)
      BY <1>2, <1>3, <2>1, <2>5
    <3>2. IsFirst(keys, req, T, b)
      BY <2>1, <2>2, <2>3, <3>1 DEF IsFirst
    <3>3. Turn(keys, req, b, m) = b
      BY <1>4, <2>1, <2>5 DEF Turn
    <3> QED
      BY <1>8, <3>2, <3>3 DEF b, T, U
  <2> QED
    BY <2>4, <2>5
<1> QED
  BY <1>9, <1>10, <1>11

\* The loop finds the first of the suitable keys by rank.
LEMMA BestIsFirst ==
  ASSUME NEW n \in Nat, NEW keys, DOMAIN keys = 1..n, NEW req
  PROVE  BestKey(keys, req) = First(keys, req, SuitableIn(keys, req))
<1> DEFINE G == [s \in SUBSET (1..n) |-> First(keys, req, SuitableOf(keys, req, s))]
           F == CHOOSE H : IsLoop(H, keys, req)
           g(s) == First(keys, req, SuitableOf(keys, req, s))
<1>1. DOMAIN [i \in DOMAIN keys |-> i] = 1..n
  OBVIOUS
<1>2. ASSUME NEW s \in SUBSET (1..n), s # {}
      PROVE  /\ Max(s) \in s
             /\ g(s) = Turn(keys, req, g(s \ {Max(s)}), [i \in DOMAIN keys |-> i][Max(s)])
  <2>1. s \subseteq Nat \ {0} /\ IsFiniteSet(s)
    <3>1. IsFiniteSet(1..n)
      BY FS_Interval
    <3>2. IsFiniteSet(s)
      BY <3>1, FS_Subset
    <3>3. s \subseteq Nat \ {0}
      OBVIOUS
    <3> QED
      BY <3>2, <3>3
  <2>2. Max(s) \in s /\ \A j \in s : j <= Max(s)
    BY <1>2, <2>1, MaxIs
  <2>3. [i \in DOMAIN keys |-> i][Max(s)] = Max(s)
    BY <2>2
  <2> QED
    BY <2>1, <2>2, <2>3, TurnKeepsFirst
<1>3. g({}) = 0
  BY DEF First, SuitableOf
<1>4. \A s \in SUBSET (1..n) : G[s] = g(s)
  OBVIOUS
<1>5. IsLoop(G, keys, req)
  <2> HIDE DEF g
  <2>1. ASSUME NEW s \in SUBSET (1..n)
        PROVE  g(s) = IF s = {} THEN 0
                      ELSE Turn(keys, req, G[s \ {Max(s)}], [i \in DOMAIN keys |-> i][Max(s)])
    BY <1>2, <1>3, <1>4
  <2>2. G = [s \in SUBSET (1..n) |-> g(s)]
    BY DEF g
  <2> HIDE DEF G
  <2>3. G = [s \in SUBSET (1..n) |->
               IF s = {} THEN 0
               ELSE Turn(keys, req, G[s \ {Max(s)}], [i \in DOMAIN keys |-> i][Max(s)])]
    BY <2>1, <2>2, Zenon
  <2> QED
    BY <1>1, <2>3 DEF IsLoop
<1>6. IsLoop(F, keys, req)
  BY <1>5
<1> HIDE DEF F, G
<1>7. /\ F[{}] = 0
      /\ \A s \in SUBSET (1..n) : s # {} =>
           F[s] = Turn(keys, req, F[s \ {Max(s)}], [i \in DOMAIN keys |-> i][Max(s)])
  BY <1>1, <1>6 DEF IsLoop
<1> DEFINE bad == {k \in Nat : k \in 0..n /\ F[1..k] # g(1..k)}
<1>8. bad = {}
  <2>1. SUFFICES ASSUME bad # {} PROVE FALSE
    OBVIOUS
  <2>2. PICK k \in bad : \A j \in bad : k <= j
    BY <2>1, LeastExists
  <2> HIDE DEF g
  <2>3. k \in 0..n /\ F[1..k] # g(1..k)
    OBVIOUS
  <2>4. k # 0
    BY <1>3, <1>7, <2>3
  <2>5. F[1..(k - 1)] = g(1..(k - 1))
    BY <2>2, <2>3, <2>4
  <2>6. /\ 1..k \in SUBSET (1..n) /\ 1..k # {} /\ IsFiniteSet(1..k) /\ 1..k \subseteq Nat
        /\ k \in 1..k /\ \A j \in 1..k : j <= k
    <3>1. IsFiniteSet(1..k)
      BY <2>3, FS_Interval
    <3>2. k \in Nat /\ 1 <= k /\ k <= n
      BY <2>3, <2>4
    <3> HIDE DEF bad
    <3>3. 1..k \in SUBSET (1..n) /\ 1..k \subseteq Nat
      BY <3>2
    <3>4. k \in 1..k /\ \A j \in 1..k : j <= k
      BY <3>2
    <3> QED
      BY <3>1, <3>3, <3>4
  <2>7. Max(1..k) = k
    <3>1. Max(1..k) \in 1..k /\ \A j \in 1..k : j <= Max(1..k)
      BY <2>6, MaxIs
    <3> QED
      BY <2>3, <2>6, <3>1
  <2>8. (1..k) \ {k} = 1..(k - 1)
    BY <2>3, <2>4
  <2>9. F[1..k] = Turn(keys, req, F[1..(k - 1)], [i \in DOMAIN keys |-> i][k])
    BY <1>7, <2>6, <2>7, <2>8
  <2>10. g(1..k) = Turn(keys, req, g(1..(k - 1)), [i \in DOMAIN keys |-> i][k])
    BY <1>2, <2>6, <2>7, <2>8
  <2> QED
    BY <2>3, <2>5, <2>9, <2>10
<1>9. F[1..n] = g(1..n)
  BY <1>8
<1> QED
  BY <1>9, BestIsLoop DEF F, SuitableIn, SuitableOf

-----------------------------------------------------------------------------
(* The invariant: what was found is what the operators give for the document *)
(* as it is.                                                                *)

IInv ==
  /\ published \in Seq(JWKs)
  /\ \/ asked = {} /\ found = Nothing
     \/ \E req \in Requests :
          /\ asked = {req}
          /\ found = [candidates |-> Candidates(Held, req), best |-> BestKey(Held, req)]

LEMMA InitIInv == Init => IInv
  BY DEF Init, IInv

LEMMA StepIInv == IInv /\ [Next]_vars => IInv'
<1> SUFFICES ASSUME IInv, [Next]_vars PROVE IInv'
  OBVIOUS
<1>1. ASSUME NEW raw \in JWKs, Publish(raw) PROVE IInv'
  BY <1>1 DEF Publish, IInv
<1>2. ASSUME NEW req \in Requests, Ask(req) PROVE IInv'
  BY <1>2 DEF Ask, IInv, Held
<1>3. CASE UNCHANGED vars
  BY <1>3 DEF vars, IInv, Held
<1> QED
  BY <1>1, <1>2, <1>3 DEF Next

\* The invariant that every step keeps: the set is of JWKs, and what a recipient
\* found is what KeySet.Candidates and KeySet.Key give for it (jwk/key.go).
THEOREM Invariant == Spec => []IInv
  BY InitIInv, StepIInv, PTL DEF Spec

\* The keys that a recipient holds, as many as it kept, are JWKs that it can read.
LEMMA HeldKeys ==
  ASSUME IInv
  PROVE  \E n \in Nat : /\ DOMAIN Held = 1..n
                        /\ \A i \in 1..n : Held[i] \in JWKs /\ Readable(Held[i])
<1> DEFINE S == {i \in DOMAIN published : Readable(published[i])}
<1>1. Len(published) \in Nat /\ DOMAIN published = 1..Len(published)
      /\ \A i \in DOMAIN published : published[i] \in JWKs
  BY DEF IInv
<1>2. IsFiniteSet(1..Len(published))
  BY <1>1, FS_Interval
<1>3. S \subseteq Nat /\ IsFiniteSet(S) /\ Cardinality(S) \in Nat
  BY <1>1, <1>2, FS_Subset, FS_CardinalityType
<1>4. \A i \in S : published[i] \in JWKs /\ Readable(published[i])
  BY <1>1
<1>5. Held = At(published, S)
  BY DEF Held, ReadSet
<1> HIDE DEF S
<1>6. PICK a : /\ Sorts(a, Ascending, S) /\ DOMAIN a = 1..Cardinality(S)
               /\ At(published, S) = [p \in DOMAIN a |-> published[a[p]]]
  BY <1>3, AtSorted
<1>7. \A p \in DOMAIN a : a[p] \in S
  BY <1>6 DEF Sorts
<1> QED
  BY <1>3, <1>4, <1>5, <1>6, <1>7

\* What was found, where a request was made.
LEMMA FoundIs ==
  ASSUME IInv, NEW req \in asked
  PROVE  /\ req \in Requests
         /\ found.candidates = Candidates(Held, req) /\ found.best = BestKey(Held, req)
BY DEF IInv

\* The loop of Key and the sort of Candidates agree on the best key (jwk/key.go,
\* KeySet.Key and KeySet.Candidates).
THEOREM SelectionsAgree == Spec => []KeyIsFirstCandidate
<1>1. IInv => KeyIsFirstCandidate
  <2> SUFFICES ASSUME IInv PROVE KeyIsFirstCandidate
    OBVIOUS
  <2>1. CASE asked = {}
    BY <2>1 DEF IInv, Nothing, KeyIsFirstCandidate
  <2>2. CASE asked # {}
    <3>1. PICK req \in asked : TRUE
      BY <2>2
    <3> DEFINE S == SuitableIn(Held, req)
               R == RankOrder(Held, req)
               c == Candidates(Held, req)
    <3>2. PICK n \in Nat : DOMAIN Held = 1..n
      BY HeldKeys
    <3>3. Sorts(c, R, S) /\ DOMAIN c = 1..Cardinality(S)
      BY <3>2, CandidatesSorted
    <3>4. S \subseteq Nat /\ IsFiniteSet(S) /\ Cardinality(S) \in Nat /\ (Cardinality(S) = 0 <=> S = {})
      BY <3>2, SuitablePositions, FS_CardinalityType, FS_EmptySet
    <3>5. found.candidates = c /\ found.best = First(Held, req, S)
      BY <3>1, <3>2, FoundIs, BestIsFirst
    <3>6. \A i, j \in S : <<i, j>> \in R <=> Precedes(Held, req, i, j)
      BY <3>4, RankStrict
    <3> HIDE DEF S, R, c
    <3>7. c \in Seq(S) /\ Len(c) = Cardinality(S)
      BY <3>3, <3>4, LenOf DEF Sorts
    <3>8. CASE S = {}
      <4>1. c = <<>>
        BY <3>4, <3>7, <3>8
      <4> QED
        BY <3>5, <3>8, <4>1 DEF KeyIsFirstCandidate, First
    <3>9. CASE S # {}
      <4>1. c # <<>> /\ 1 \in DOMAIN c /\ Head(c) = c[1]
        <5>1. Cardinality(S) # 0 /\ Cardinality(S) \in Nat
          BY <3>4, <3>9
        <5>2. 1 \in DOMAIN c /\ c # <<>>
          BY <3>3, <3>7, <5>1
        <5>3. Head(c) = c[1]
          BY <3>7, <5>2
        <5> QED
          BY <5>2, <5>3
      <4>2. c[1] \in S
        BY <4>1, <3>3 DEF Sorts
      <4>3. ASSUME NEW j \in S PROVE c[1] = j \/ Precedes(Held, req, c[1], j)
        <5>1. PICK q \in DOMAIN c : c[q] = j
          BY <3>3 DEF Sorts
        <5>2. q = 1 \/ 1 < q
          BY <3>3, <3>4, <5>1
        <5>3. q = 1 \/ <<c[1], j>> \in R
          BY <3>3, <4>1, <5>1, <5>2 DEF Sorts
        <5> QED
          BY <3>6, <4>2, <5>1, <5>3
      <4>4. IsFirst(Held, req, S, c[1])
        BY <4>2, <4>3 DEF IsFirst
      <4>5. c[1] = First(Held, req, S)
        BY <3>4, <3>9, <4>4, FirstIs
      <4> QED
        BY <3>5, <4>1, <4>5 DEF KeyIsFirstCandidate
    <3> QED
      BY <3>8, <3>9
  <2> QED
    BY <2>1, <2>2
<1> QED
  BY <1>1, Invariant, PTL

\* No key that could have made the signature is left out, each is tried once, and
\* in the order of weight and then of the issuer (jwk/key.go, KeySet.Candidates).
THEOREM EveryKeyIsTried == Spec => []EveryUsableKeyOnce
<1>1. IInv => EveryUsableKeyOnce
  <2> SUFFICES ASSUME IInv, NEW req \in asked
               PROVE  LET c == found.candidates
                          rank(p) == Weight(Held[c[p]], req) IN
                      /\ Len(c) = Cardinality(SuitableIn(Held, req))
                      /\ ToSet(c) = SuitableIn(Held, req)
                      /\ \A p, q \in DOMAIN c :
                           p < q => rank(p) > rank(q) \/ (rank(p) = rank(q) /\ c[p] < c[q])
    BY DEF EveryUsableKeyOnce
  <2> DEFINE S == SuitableIn(Held, req)
             R == RankOrder(Held, req)
             c == found.candidates
  <2>1. PICK n \in Nat : DOMAIN Held = 1..n
    BY HeldKeys
  <2>2. Sorts(c, R, S) /\ DOMAIN c = 1..Cardinality(S)
    BY <2>1, CandidatesSorted, FoundIs
  <2>3. S \subseteq Nat /\ Cardinality(S) \in Nat
    BY <2>1, SuitablePositions, FS_CardinalityType
  <2>4. \A i, j \in S : <<i, j>> \in R <=> Precedes(Held, req, i, j)
    BY <2>3, RankStrict
  <2> HIDE DEF S, R, c
  <2>5. Len(c) = Cardinality(S)
    BY <2>2, <2>3, LenOf DEF Sorts
  <2>6. ToSet(c) = S
    BY <2>2 DEF Sorts, ToSet
  <2>7. \A p, q \in DOMAIN c : p < q => Precedes(Held, req, c[p], c[q])
    BY <2>2, <2>4 DEF Sorts
  <2> QED
    BY <2>5, <2>6, <2>7 DEF Precedes, S, c
<1> QED
  BY <1>1, Invariant, PTL

\* The weight of a key that the token names is more than that of each other.
LEMMA NamedWeighsMore ==
  ASSUME NEW named, NEW other, NEW req, Names(named, req), ~Names(other, req)
  PROVE  Weight(named, req) > Weight(other, req)
<1> DEFINE a(key) == Points(key.use = req.use, 16)
           b(key) == Points(req.op \in ToSet(key.ops), 8)
           c(key) == Points(key.alg # Absent /\ key.alg = req.alg, 64)
           d(key) == Points(key.kid # Absent /\ key.kid = req.kid, 128)
<1>1. \A key : a(key) \in 0..16 /\ b(key) \in 0..8 /\ c(key) \in 0..64
  BY DEF Points
<1>2. d(named) = 128 /\ d(other) = 0
  BY DEF Points, Names
<1>3. \A key : Weight(key, req) = a(key) + b(key) + c(key) + d(key)
  BY DEF Weight
<1> HIDE DEF a, b, c, d
<1>4. Weight(named, req) >= 128
  BY <1>1, <1>2, <1>3
<1>5. Weight(other, req) <= 88
  BY <1>1, <1>2, <1>3
<1> QED
  BY <1>4, <1>5, WeightType

\* A key that the "kid" of the token names is tried before each other key
\* (jwk/key.go, Key.weight and KeySet.Candidates).
THEOREM NamedKeyFirst == Spec => []KidFirst
<1>1. IInv => KidFirst
  <2> SUFFICES ASSUME IInv, NEW req \in asked,
                      NEW p \in DOMAIN found.candidates, NEW q \in DOMAIN found.candidates,
                      Names(Held[found.candidates[q]], req),
                      ~Names(Held[found.candidates[p]], req)
               PROVE  q < p
    BY DEF KidFirst
  <2> DEFINE S == SuitableIn(Held, req)
             R == RankOrder(Held, req)
             c == found.candidates
  <2>1. PICK n \in Nat : DOMAIN Held = 1..n
    BY HeldKeys
  <2>2. Sorts(c, R, S) /\ DOMAIN c = 1..Cardinality(S)
    BY <2>1, CandidatesSorted, FoundIs
  <2>3. S \subseteq Nat /\ Cardinality(S) \in Nat
    BY <2>1, SuitablePositions, FS_CardinalityType
  <2>4. \A i, j \in S : <<i, j>> \in R <=> Precedes(Held, req, i, j)
    BY <2>3, RankStrict
  <2>5. Weight(Held[c[q]], req) > Weight(Held[c[p]], req)
    BY NamedWeighsMore
  <2>6. Weight(Held[c[q]], req) \in Nat /\ Weight(Held[c[p]], req) \in Nat
    BY WeightType
  <2>7. ~Precedes(Held, req, c[p], c[q])
    BY <2>5, <2>6 DEF Precedes
  <2>8. c[p] \in S /\ c[q] \in S /\ p \in 1..Cardinality(S) /\ q \in 1..Cardinality(S)
    BY <2>2 DEF Sorts
  <2> HIDE DEF S, R, c
  <2>9. ~(p < q)
    BY <2>2, <2>4, <2>7, <2>8 DEF Sorts
  <2>10. p # q
    BY DEF c
  <2> QED
    BY <2>3, <2>8, <2>9, <2>10
<1> QED
  BY <1>1, Invariant, PTL

\* A recipient uses a key for no function that its publisher rejected, with "use"
\* or with "key_ops" (jwk/key.go, Key.suitable).
THEOREM PurposeIsKept == Spec => []PurposeKept
<1>1. IInv => PurposeKept
  <2> SUFFICES ASSUME IInv, NEW req \in asked, NEW p \in DOMAIN found.candidates
               PROVE  LET key == Held[found.candidates[p]] IN
                      /\ key.use \in {Absent, req.use}
                      /\ key.ops # <<>> =>
                           req.use \in {ImpliedUse(key.ops[i]) : i \in DOMAIN key.ops}
    BY DEF PurposeKept
  <2> DEFINE S == SuitableIn(Held, req)
             key == Held[found.candidates[p]]
  <2>1. PICK n \in Nat : DOMAIN Held = 1..n
    BY HeldKeys
  <2>2. found.candidates[p] \in S
    BY <2>1, CandidatesSorted, FoundIs DEF Sorts
  <2>3. Suitable(key, req)
    BY <2>2 DEF SuitableIn
  <2>4. req.use = ImpliedUse(req.op)
    BY KeyPublicationAssumption, FoundIs
  <2> HIDE DEF key
  <2>5. key.use \in {Absent, req.use}
    BY <2>3 DEF Suitable
  <2>6. ASSUME key.ops # <<>>
        PROVE  req.use \in {ImpliedUse(key.ops[i]) : i \in DOMAIN key.ops}
    <3>1. req.op \in ToSet(key.ops)
      BY <2>3, <2>6 DEF Suitable
    <3>2. PICK i \in DOMAIN key.ops : key.ops[i] = req.op
      BY <3>1 DEF ToSet
    <3> QED
      BY <2>4, <3>2
  <2> QED
    BY <2>5, <2>6 DEF key
<1> QED
  BY <1>1, Invariant, PTL

-----------------------------------------------------------------------------
(* Publication *)

\* What a set has at a sequence of positions, and the public halves of that.
Through(keys, a) == [p \in DOMAIN a |-> keys[a[p]]]
PublicThrough(keys, a) == [p \in DOMAIN a |-> PublicHalf(keys[a[p]])]

\* The public half of a JWK has all that a selection reads, save "half".
LEMMA PublicHalfSelects ==
  ASSUME NEW key \in JWKs, NEW req
  PROVE  /\ Suitable(PublicHalf(key), req) <=> Suitable(key, req)
         /\ Weight(PublicHalf(key), req) = Weight(key, req)
<1>1. /\ PublicHalf(key).use = key.use /\ PublicHalf(key).ops = key.ops
      /\ PublicHalf(key).alg = key.alg /\ PublicHalf(key).kid = key.kid
  BY KeyPublicationAssumption DEF PublicHalf
<1> QED
  BY <1>1 DEF Suitable, Weight

\* The keys of a set that are not secrets, in the sequence of the set.
Asymmetric(keys) == {i \in DOMAIN keys : keys[i].half # "secret"}

LEMMA PublicSetIs ==
  ASSUME NEW n \in Nat, NEW keys, DOMAIN keys = 1..n
  PROVE  \E a : /\ Sorts(a, Ascending, Asymmetric(keys))
                /\ DOMAIN a = 1..Cardinality(Asymmetric(keys))
                /\ Cardinality(Asymmetric(keys)) \in Nat
                /\ PublicSet(keys) = PublicThrough(keys, a)
<1> DEFINE S == Asymmetric(keys)
<1>1. IsFiniteSet(1..n) /\ S \subseteq 1..n
  BY FS_Interval DEF Asymmetric
<1>2. S \subseteq Nat /\ IsFiniteSet(S) /\ Cardinality(S) \in Nat
  BY <1>1, FS_Subset, FS_CardinalityType
<1>3. PublicSet(keys) = [i \in DOMAIN At(keys, S) |-> PublicHalf(At(keys, S)[i])]
  BY DEF PublicSet, Asymmetric
<1> HIDE DEF S
<1>4. PICK a : /\ Sorts(a, Ascending, S) /\ DOMAIN a = 1..Cardinality(S)
               /\ At(keys, S) = [p \in DOMAIN a |-> keys[a[p]]]
  <2>1. \A s : \E a : /\ Sorts(a, Ascending, S) /\ DOMAIN a = 1..Cardinality(S)
                      /\ At(s, S) = [p \in DOMAIN a |-> s[a[p]]]
    BY <1>2, AtSorted
  <2> QED
    BY <2>1
<1>5. PublicSet(keys) = [p \in DOMAIN a |-> PublicHalf(keys[a[p]])]
  BY <1>3, <1>4
<1> QED
  BY <1>2, <1>4, <1>5 DEF S, PublicThrough

\* The candidates of the public set, as positions in the set of the issuer, are its
\* suitable keys that are not secrets, by rank.
LEMMA PublicCandidates ==
  ASSUME NEW n \in Nat, NEW keys, DOMAIN keys = 1..n, \A i \in 1..n : keys[i] \in JWKs, NEW req
  PROVE  \E f : /\ Sorts(f, RankOrder(keys, req), Asymmetric(keys) \intersect SuitableIn(keys, req))
                /\ Through(PublicSet(keys), Candidates(PublicSet(keys), req)) = PublicThrough(keys, f)
<1> DEFINE A == Asymmetric(keys)
           S == SuitableIn(keys, req)
           P == PublicSet(keys)
           T == SuitableIn(P, req)
           c == Candidates(P, req)
           R == RankOrder(keys, req)
<1>1. PICK a : /\ Sorts(a, Ascending, A)
               /\ DOMAIN a = 1..Cardinality(A) /\ Cardinality(A) \in Nat
               /\ P = PublicThrough(keys, a)
  BY PublicSetIs
<1>2. DOMAIN P = DOMAIN a /\ \A k \in DOMAIN a : P[k] = PublicHalf(keys[a[k]])
  BY <1>1 DEF PublicThrough
<1>3. A \subseteq 1..n /\ A \subseteq Nat
  BY DEF Asymmetric
<1>4. \A k \in DOMAIN a : a[k] \in A /\ a[k] \in 1..n
  BY <1>1, <1>3 DEF Sorts
<1>5. ASSUME NEW k \in DOMAIN a
      PROVE  /\ k \in T <=> a[k] \in S
             /\ Weight(P[k], req) = Weight(keys[a[k]], req)
  BY <1>2, <1>4, PublicHalfSelects DEF SuitableIn
<1>6. /\ Sorts(c, RankOrder(P, req), T) /\ DOMAIN c = 1..Cardinality(T)
      /\ T \subseteq Nat /\ Cardinality(T) \in Nat
  BY <1>1, <1>2, CandidatesSorted, SuitablePositions, FS_CardinalityType
<1>7. T \subseteq DOMAIN a
  BY <1>2 DEF SuitableIn
<1>8. \A p \in DOMAIN c : c[p] \in T
  BY <1>6 DEF Sorts
<1>9. \A p, q \in DOMAIN c : p < q => Precedes(P, req, c[p], c[q])
  BY <1>6, <1>8, RankStrict DEF Sorts
<1>10. \A k, l \in DOMAIN a : k < l => a[k] < a[l]
  BY <1>1, <1>3, <1>4, AscendingStrict DEF Sorts
<1> DEFINE f == [p \in DOMAIN c |-> a[c[p]]]
<1> HIDE DEF A, S, P, T, c, R
<1>11. f \in [1..Cardinality(T) -> A \intersect S]
  BY <1>4, <1>5, <1>6, <1>7, <1>8
<1>12. ASSUME NEW x \in A \intersect S PROVE \E p \in DOMAIN f : f[p] = x
  <2>1. PICK k \in DOMAIN a : a[k] = x
    BY <1>1 DEF Sorts
  <2>2. k \in T
    BY <1>5, <2>1
  <2>3. PICK p \in DOMAIN c : c[p] = k
    BY <1>6, <2>2 DEF Sorts
  <2> QED
    BY <2>1, <2>3
<1>13. ASSUME NEW p \in DOMAIN f, NEW q \in DOMAIN f, p < q PROVE <<f[p], f[q]>> \in R
  <2> DEFINE k == c[p]
             l == c[q]
  <2>1. Precedes(P, req, k, l) /\ k \in DOMAIN a /\ l \in DOMAIN a /\ k \in Nat /\ l \in Nat
    BY <1>6, <1>7, <1>8, <1>9, <1>13
  <2>2. /\ a[k] \in A /\ a[l] \in A /\ f[p] = a[k] /\ f[q] = a[l]
        /\ Weight(P[k], req) = Weight(keys[a[k]], req) /\ Weight(P[l], req) = Weight(keys[a[l]], req)
    BY <1>4, <1>5, <2>1
  <2> HIDE DEF k, l, f
  <2>3. Precedes(keys, req, a[k], a[l])
    BY <1>10, <2>1, <2>2 DEF Precedes
  <2> QED
    BY <1>3, <2>2, <2>3, RankStrict DEF R
<1>14. Sorts(f, R, A \intersect S)
  BY <1>6, <1>11, <1>12, <1>13 DEF Sorts
<1>15. \A p \in DOMAIN f : P[c[p]] = PublicHalf(keys[f[p]])
  BY <1>2, <1>7, <1>8
<1>16. Through(P, c) = PublicThrough(keys, f)
  BY <1>15 DEF Through, PublicThrough
<1> HIDE DEF f
<1> QED
  BY <1>14, <1>16 DEF A, S, P, c, R

\* So are the public halves of what the set of the issuer gives.
LEMMA CandidatesPublic ==
  ASSUME NEW n \in Nat, NEW keys, DOMAIN keys = 1..n, NEW req, NEW chosen,
         chosen = Through(keys, Candidates(keys, req))
  PROVE  \E g : /\ Sorts(g, RankOrder(keys, req), Asymmetric(keys) \intersect SuitableIn(keys, req))
                /\ PublicSet(chosen) = PublicThrough(keys, g)
<1> DEFINE S == SuitableIn(keys, req)
           A == Asymmetric(keys)
           B == Asymmetric(chosen)
           c == Candidates(keys, req)
           R == RankOrder(keys, req)
<1>1. /\ Sorts(c, R, S) /\ DOMAIN c = 1..Cardinality(S)
      /\ S \subseteq Nat /\ Cardinality(S) \in Nat
  BY CandidatesSorted, SuitablePositions, FS_CardinalityType
<1>2. DOMAIN chosen = DOMAIN c /\ \A p \in DOMAIN c : chosen[p] = keys[c[p]]
  BY DEF Through
<1>3. PICK b : /\ Sorts(b, Ascending, B)
               /\ DOMAIN b = 1..Cardinality(B) /\ Cardinality(B) \in Nat
               /\ PublicSet(chosen) = PublicThrough(chosen, b)
  <2> DEFINE k == Cardinality(S)
  <2>1. k \in Nat /\ DOMAIN chosen = 1..k
    BY <1>1, <1>2
  <2> HIDE DEF k
  <2> QED
    BY <2>1, PublicSetIs
<1>4. B \subseteq DOMAIN c /\ B \subseteq Nat /\ DOMAIN c \subseteq Nat
  BY <1>1, <1>2 DEF Asymmetric
<1>5. \A p \in DOMAIN c : c[p] \in S /\ (p \in B <=> c[p] \in A)
  BY <1>1, <1>2 DEF Sorts, Asymmetric, SuitableIn
<1>6. \A p \in DOMAIN b : b[p] \in B
  BY <1>3 DEF Sorts
<1>7. \A p, q \in DOMAIN b : p < q => b[p] < b[q]
  BY <1>3, <1>4, <1>6, AscendingStrict DEF Sorts
<1> DEFINE g == [p \in DOMAIN b |-> c[b[p]]]
<1> HIDE DEF S, A, B, c, R
<1>8. g \in [1..Cardinality(B) -> A \intersect S]
  BY <1>3, <1>4, <1>5, <1>6
<1>9. ASSUME NEW x \in A \intersect S PROVE \E p \in DOMAIN g : g[p] = x
  <2>1. PICK k \in DOMAIN c : c[k] = x
    BY <1>1 DEF Sorts
  <2>2. PICK p \in DOMAIN b : b[p] = k
    BY <1>3, <1>5, <2>1 DEF Sorts
  <2> QED
    BY <2>1, <2>2
<1>10. ASSUME NEW p \in DOMAIN g, NEW q \in DOMAIN g, p < q PROVE <<g[p], g[q]>> \in R
  <2>1. b[p] < b[q] /\ b[p] \in DOMAIN c /\ b[q] \in DOMAIN c
    BY <1>4, <1>6, <1>7, <1>10
  <2>2. <<c[b[p]], c[b[q]]>> \in R
    BY <1>1, <2>1 DEF Sorts
  <2> QED
    BY <2>2
<1>11. Sorts(g, R, A \intersect S)
  BY <1>3, <1>8, <1>9, <1>10 DEF Sorts
<1>12. PublicSet(chosen) = PublicThrough(keys, g)
  BY <1>2, <1>3, <1>4, <1>6 DEF PublicThrough
<1> HIDE DEF g
<1> QED
  BY <1>11, <1>12 DEF A, S, R

LEMMA SameSelection ==
  ASSUME NEW n \in Nat, NEW keys, DOMAIN keys = 1..n, \A i \in 1..n : keys[i] \in JWKs, NEW req,
         NEW chosen, chosen = Through(keys, Candidates(keys, req))
  PROVE  Through(PublicSet(keys), Candidates(PublicSet(keys), req)) = PublicSet(chosen)
<1>1. StrictOrder(RankOrder(keys, req), Asymmetric(keys) \intersect SuitableIn(keys, req))
  <2>1. Asymmetric(keys) \intersect SuitableIn(keys, req) \subseteq Nat
    BY SuitablePositions
  <2> QED
    BY <2>1, RankStrict
<1>2. PICK f : /\ Sorts(f, RankOrder(keys, req), Asymmetric(keys) \intersect SuitableIn(keys, req))
               /\ Through(PublicSet(keys), Candidates(PublicSet(keys), req)) = PublicThrough(keys, f)
  BY PublicCandidates
<1>3. PICK g : /\ Sorts(g, RankOrder(keys, req), Asymmetric(keys) \intersect SuitableIn(keys, req))
               /\ PublicSet(chosen) = PublicThrough(keys, g)
  BY CandidatesPublic
<1>4. f = g
  BY <1>1, <1>2, <1>3, SortUnique
<1> QED
  BY <1>2, <1>3, <1>4

\* A published set selects as the set of the issuer, less the secrets (jwk/key.go,
\* KeySet.Public and KeySet.Candidates).
THEOREM PublicSelects == Spec => []PublishingKeepsSelection
<1>1. IInv => PublishingKeepsSelection
  <2> SUFFICES ASSUME IInv, NEW req \in asked
               PROVE  LET Chosen(keys) == [p \in DOMAIN Candidates(keys, req) |->
                                             keys[Candidates(keys, req)[p]]]
                      IN Chosen(PublicSet(Held)) = PublicSet(Chosen(Held))
    BY DEF PublishingKeepsSelection
  <2>1. PICK n \in Nat : DOMAIN Held = 1..n /\ \A i \in 1..n : Held[i] \in JWKs
    BY HeldKeys
  <2>2. \A keys : Through(keys, Candidates(keys, req)) =
                    [p \in DOMAIN Candidates(keys, req) |-> keys[Candidates(keys, req)[p]]]
    BY DEF Through
  <2>3. Through(PublicSet(Held), Candidates(PublicSet(Held), req)) =
          PublicSet(Through(Held, Candidates(Held, req)))
    BY <2>1, SameSelection
  <2> QED
    BY <2>2, <2>3
<1> QED
  BY <1>1, Invariant, PTL
=============================================================================
