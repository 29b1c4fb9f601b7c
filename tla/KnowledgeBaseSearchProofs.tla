----------------------- MODULE KnowledgeBaseSearchProofs -----------------------
(***************************************************************************)
(* Searches: facts about the ranking, the threshold and the contexts of    *)
(* Retrieval, the inductive invariant SearchInv of KnowledgeBase, and what *)
(* follows for answers: they show one version and miss nothing.            *)
(***************************************************************************)
EXTENDS KnowledgeBaseProofs, WellFoundedInduction

----------------------------------------------------------------------------
(* Numbers and finite sets.                                                *)

\* A set of natural numbers that is not empty has a least element.
LEMMA LeastElement ==
    ASSUME NEW S \in SUBSET Nat, S # {}
    PROVE  \E n \in S : \A m \in S : n <= m
<1> DEFINE Smaller == {pair \in Nat \X Nat : pair[1] < pair[2]}
<1>1. IsWellFoundedOn(Smaller, Nat)
  BY NatLessThanWellFounded DEF OpToRel
<1>2. \E n \in S : \A m \in S : <<m, n>> \notin Smaller
  <2> HIDE DEF Smaller
  <2> QED BY <1>1, WFMin
<1>3. PICK n \in S : \A m \in S : <<m, n>> \notin Smaller
  BY <1>2
<1>4. ASSUME NEW m \in S PROVE n <= m
  <2>1. <<m, n>> \notin Smaller
    BY <1>3
  <2>2. <<m, n>> \in Nat \X Nat /\ <<m, n>>[1] = m /\ <<m, n>>[2] = n
    OBVIOUS
  <2>3. ~(m < n)
    BY <2>1, <2>2
  <2> QED BY <2>3
<1> QED BY <1>4

\* The image of a finite set.
LEMMA ImageIsFinite ==
    ASSUME NEW f, IsFiniteSet(DOMAIN f)
    PROVE  IsFiniteSet({f[x] : x \in DOMAIN f})
<1> DEFINE S == DOMAIN f
           T == {f[x] : x \in S}
           g == [x \in S |-> f[x]]
<1>1. g \in Surjection(S, T)
  BY DEF Surjection
<1> HIDE DEF g, T, S
<1>2. IsFiniteSet(S)
  BY DEF S
<1>3. IsFiniteSet(T)
  BY <1>1, <1>2, FS_Surjection
<1> QED BY <1>3 DEF T, S

\* A strict order in which any two elements of S can be compared.
Orders(R, S) ==
    /\ \A x \in S : <<x, x>> \notin R
    /\ \A x, y, z \in S : <<x, y>> \in R /\ <<y, z>> \in R => <<x, z>> \in R
    /\ \A x, y \in S : x # y => <<x, y>> \in R \/ <<y, x>> \in R

\* How many come before x.
Place(R, S, x) == Cardinality({y \in S : <<y, x>> \in R})

\* The elements of a finite set that is ordered have the places 0 .. n - 1, each
\* one of them.
LEMMA PlacesAreTaken ==
    ASSUME NEW S, IsFiniteSet(S), NEW R, Orders(R, S)
    PROVE  /\ Cardinality(S) \in Nat
           /\ \A x \in S : Place(R, S, x) \in 0 .. Cardinality(S) - 1
           /\ \A x, y \in S : <<x, y>> \in R => Place(R, S, x) < Place(R, S, y)
           /\ \A k \in 0 .. Cardinality(S) - 1 : \E x \in S : Place(R, S, x) = k
<1> DEFINE Before(x) == {y \in S : <<y, x>> \in R}
           n == Cardinality(S)
<1>1. n \in Nat
  BY FS_CardinalityType
<1>2. ASSUME NEW A \in SUBSET S, NEW B \in SUBSET A, B # A
      PROVE  Cardinality(A) \in Nat /\ Cardinality(B) \in Nat /\ Cardinality(B) < Cardinality(A)
  <2>1. IsFiniteSet(A)
    BY FS_Subset
  <2>2. IsFiniteSet(B) /\ Cardinality(B) <= Cardinality(A)
        /\ (Cardinality(A) = Cardinality(B) => A = B)
    BY <2>1, FS_Subset
  <2>3. Cardinality(A) \in Nat /\ Cardinality(B) \in Nat
    BY <2>1, <2>2, FS_CardinalityType
  <2> QED BY <1>2, <2>2, <2>3
<1>3. ASSUME NEW x \in S PROVE Place(R, S, x) \in 0 .. n - 1
  <2>1. Before(x) \in SUBSET S /\ Before(x) # S /\ S \in SUBSET S
    BY DEF Orders
  <2>2. Cardinality(Before(x)) \in Nat /\ Cardinality(Before(x)) < n
    <3> HIDE DEF Before
    <3> QED BY <1>2, <2>1
  <2> QED BY <1>1, <2>2 DEF Place
<1>4. ASSUME NEW x \in S, NEW y \in S, <<x, y>> \in R
      PROVE  Place(R, S, x) < Place(R, S, y)
  <2>1. Before(x) \in SUBSET Before(y) /\ Before(x) # Before(y) /\ Before(y) \in SUBSET S
    BY <1>4 DEF Orders
  <2>2. Cardinality(Before(x)) < Cardinality(Before(y))
    <3> HIDE DEF Before
    <3> QED BY <1>2, <2>1
  <2> QED BY <2>2 DEF Place
<1>5. ASSUME NEW k \in 0 .. n - 1 PROVE \E x \in S : Place(R, S, x) = k
  <2> DEFINE T == 0 .. n - 1
             f == [x \in S |-> Place(R, S, x)]
  <2>1. IsFiniteSet(T) /\ Cardinality(T) = n
    <3>1. 0 \in Int /\ n - 1 \in Int
      BY <1>1
    <3>2. IsFiniteSet(0 .. n - 1)
          /\ Cardinality(0 .. n - 1) = IF 0 > n - 1 THEN 0 ELSE (n - 1) - 0 + 1
      <4> HIDE DEF n
      <4> QED BY <3>1, FS_Interval
    <3> HIDE DEF n
    <3> QED BY <1>1, <3>2
  <2>2. f \in [S -> T]
    <3> HIDE DEF n
    <3> QED BY <1>3
  <2>3. \A x, y \in S : f[x] = f[y] => x = y
    <3>1. SUFFICES ASSUME NEW x \in S, NEW y \in S, x # y PROVE f[x] # f[y]
      OBVIOUS
    <3>2. <<x, y>> \in R \/ <<y, x>> \in R
      BY <3>1 DEF Orders
    <3>3. Place(R, S, x) < Place(R, S, y) \/ Place(R, S, y) < Place(R, S, x)
      BY <1>4, <3>2
    <3>4. Place(R, S, x) \in Int /\ Place(R, S, y) \in Int
      <4> HIDE DEF n
      <4> QED BY <1>1, <1>3
    <3> QED BY <3>3, <3>4
  <2>4. f \in Injection(S, T)
    BY <2>2, <2>3 DEF Injection, IsInjective
  <2>5. f \in Surjection(S, T)
    <3> HIDE DEF f, T
    <3> QED BY <2>1, <2>4, FS_Injection
  <2>6. \E x \in S : f[x] = k
    <3> HIDE DEF f
    <3> QED BY <2>5 DEF Surjection
  <2> QED BY <2>6
<1> QED BY <1>1, <1>3, <1>4, <1>5

\* A finite set of numbers that is not empty has a greatest one.
LEMMA GreatestElement ==
    ASSUME NEW S \in SUBSET Int, IsFiniteSet(S), S # {}
    PROVE  \E x \in S : \A y \in S : x >= y
<1> DEFINE R == {pair \in S \X S : pair[1] > pair[2]}
<1>1. \A x, y \in S : <<x, y>> \in R <=> x > y
  <2> SUFFICES ASSUME NEW x \in S, NEW y \in S PROVE <<x, y>> \in R <=> x > y
    OBVIOUS
  <2>1. <<x, y>> \in S \X S /\ <<x, y>>[1] = x /\ <<x, y>>[2] = y
    OBVIOUS
  <2> QED BY <2>1
<1>2. Orders(R, S)
  <2> HIDE DEF R
  <2> QED BY <1>1 DEF Orders
<1>3. Cardinality(S) \in Nat /\ Cardinality(S) # 0
  BY FS_CardinalityType, FS_EmptySet
<1>4. PICK x \in S : Place(R, S, x) = 0
  <2>1. 0 \in 0 .. Cardinality(S) - 1
    BY <1>3
  <2> HIDE DEF R
  <2> QED BY <1>2, <2>1, PlacesAreTaken
<1>5. {y \in S : <<y, x>> \in R} = {}
  <2>1. {y \in S : <<y, x>> \in R} \in SUBSET S
    OBVIOUS
  <2>2. IsFiniteSet({y \in S : <<y, x>> \in R})
    <3> HIDE DEF R
    <3> QED BY <2>1, FS_Subset
  <2> HIDE DEF R
  <2> QED BY <1>4, <2>2, FS_EmptySet DEF Place
<1>6. \A y \in S : ~(y > x)
  BY <1>1, <1>5
<1> QED BY <1>6

----------------------------------------------------------------------------
(* Ranked and Nearest.                                                     *)

\* What ids of segments are: a job, a document in two parts, an item.
Ids == Nat \X Nat \X Nat \X Nat

\* The order of ids compares them place by place.
LEMMA IdLessIs ==
    ASSUME NEW a \in Ids, NEW b \in Ids
    PROVE  IdLess(a, b) <=>
               \/ a[1] < b[1]
               \/ a[1] = b[1] /\ a[2] < b[2]
               \/ a[1] = b[1] /\ a[2] = b[2] /\ a[3] < b[3]
               \/ a[1] = b[1] /\ a[2] = b[2] /\ a[3] = b[3] /\ a[4] < b[4]
<1>1. PICK a1 \in Nat, a2 \in Nat, a3 \in Nat, a4 \in Nat : a = <<a1, a2, a3, a4>>
  BY DEF Ids
<1>2. PICK b1 \in Nat, b2 \in Nat, b3 \in Nat, b4 \in Nat : b = <<b1, b2, b3, b4>>
  BY DEF Ids
<1>3. DOMAIN a = 1 .. 4 /\ a[1] = a1 /\ a[2] = a2 /\ a[3] = a3 /\ a[4] = a4
  BY <1>1
<1>4. b[1] = b1 /\ b[2] = b2 /\ b[3] = b3 /\ b[4] = b4
  BY <1>2
<1> DEFINE Same(i) == \A k \in 1 .. (i - 1) : a[k] = b[k]
<1>5. /\ Same(1)
      /\ Same(2) <=> a1 = b1
      /\ Same(3) <=> a1 = b1 /\ a2 = b2
      /\ Same(4) <=> a1 = b1 /\ a2 = b2 /\ a3 = b3
  <2>1. /\ 1 .. (1 - 1) = {} /\ 1 .. (2 - 1) = {1} /\ 1 .. (3 - 1) = {1, 2}
        /\ 1 .. (4 - 1) = {1, 2, 3}
    OBVIOUS
  <2> QED BY <1>3, <1>4, <2>1
<1>6. IdLess(a, b) <=> \E i \in 1 .. 4 : a[i] < b[i] /\ Same(i)
  BY <1>3 DEF IdLess
<1>7. 1 .. 4 = {1, 2, 3, 4}
  OBVIOUS
<1>8. IdLess(a, b) <=> \/ a[1] < b[1] /\ Same(1)
                       \/ a[2] < b[2] /\ Same(2)
                       \/ a[3] < b[3] /\ Same(3)
                       \/ a[4] < b[4] /\ Same(4)
  <2> HIDE DEF Same
  <2> QED BY <1>6, <1>7
<1> HIDE DEF Same
<1> QED BY <1>3, <1>4, <1>5, <1>8

\* The order is a strict total one.
LEMMA IdsAreOrdered ==
    ASSUME NEW x \in Ids, NEW y \in Ids, NEW z \in Ids
    PROVE  /\ ~IdLess(x, x)
           /\ IdLess(x, y) /\ IdLess(y, z) => IdLess(x, z)
           /\ x # y => IdLess(x, y) \/ IdLess(y, x)
<1>1. \A a \in Ids : {a[1], a[2], a[3], a[4]} \subseteq Nat /\ a = <<a[1], a[2], a[3], a[4]>>
  BY DEF Ids
<1>2. {x[1], x[2], x[3], x[4], y[1], y[2], y[3], y[4], z[1], z[2], z[3], z[4]} \subseteq Nat
  BY <1>1
<1>3. ~IdLess(x, x)
  BY <1>2, IdLessIs
<1>4. ASSUME IdLess(x, y), IdLess(y, z) PROVE IdLess(x, z)
  BY <1>2, <1>4, IdLessIs
<1>5. ASSUME x # y PROVE IdLess(x, y) \/ IdLess(y, x)
  <2>1. x[1] # y[1] \/ x[2] # y[2] \/ x[3] # y[3] \/ x[4] # y[4]
    BY <1>1, <1>5
  <2> QED BY <1>2, <2>1, IdLessIs
<1> QED BY <1>3, <1>4, <1>5

\* Scores of ids.
Scores(scores) ==
    /\ IsFiniteSet(DOMAIN scores) /\ DOMAIN scores \subseteq Ids
    /\ \A id \in DOMAIN scores : scores[id] \in Int

\* The order of a ranking.
Precedes(scores, x, y) == scores[x] > scores[y] \/ (scores[x] = scores[y] /\ IdLess(x, y))
\* The pairs in that order.
Better(scores) ==
    {pair \in (DOMAIN scores) \X (DOMAIN scores) : Precedes(scores, pair[1], pair[2])}

\* Each rank is taken by exactly one of what is ranked.
LEMMA RanksAreTaken ==
    ASSUME NEW scores, Scores(scores)
    PROVE  LET n == Cardinality(DOMAIN scores)
           IN  /\ n \in Nat
               /\ \A id \in DOMAIN scores : Rank(scores, id) \in 0 .. n - 1
               /\ \A x, y \in DOMAIN scores : Rank(scores, x) = Rank(scores, y) => x = y
               /\ \A k \in 0 .. n - 1 : \E id \in DOMAIN scores : Rank(scores, id) = k
<1> DEFINE S == DOMAIN scores
           R == Better(scores)
<1>0. \A x, y \in S : <<x, y>> \in R <=> Precedes(scores, x, y)
  <2>1. PICK D : D = S
    OBVIOUS
  <2>2. R = {pair \in D \X D : Precedes(scores, pair[1], pair[2])}
    BY <2>1 DEF Better
  <2> HIDE DEF R, S
  <2>3. ASSUME NEW x \in D, NEW y \in D
        PROVE  <<x, y>> \in R <=> Precedes(scores, x, y)
    <3>1. <<x, y>> \in D \X D /\ <<x, y>>[1] = x /\ <<x, y>>[2] = y
      OBVIOUS
    <3> QED BY <2>2, <3>1
  <2> QED BY <2>1, <2>3
<1>1. ASSUME NEW x \in S, NEW y \in S
      PROVE  <<x, y>> \in R <=> scores[x] > scores[y] \/ (scores[x] = scores[y] /\ IdLess(x, y))
  <2> HIDE DEF R
  <2> QED BY <1>0 DEF Precedes
<1>2. \A x \in S : scores[x] \in Int /\ x \in Ids
  BY DEF Scores
<1>3. Orders(R, S)
  <2> HIDE DEF R, S
  <2>1. \A x \in S : <<x, x>> \notin R
    BY <1>1, <1>2, IdsAreOrdered
  <2>2. ASSUME NEW x \in S, NEW y \in S, NEW z \in S, <<x, y>> \in R, <<y, z>> \in R
        PROVE  <<x, z>> \in R
    <3>1. IdLess(x, y) /\ IdLess(y, z) => IdLess(x, z)
      BY <1>2, IdsAreOrdered
    <3> QED BY <1>1, <1>2, <2>2, <3>1
  <2>3. ASSUME NEW x \in S, NEW y \in S, x # y PROVE <<x, y>> \in R \/ <<y, x>> \in R
    <3>1. IdLess(x, y) \/ IdLess(y, x)
      BY <1>2, <2>3, IdsAreOrdered
    <3> QED BY <1>1, <1>2, <3>1
  <2> QED BY <2>1, <2>2, <2>3 DEF Orders
<1>4. \A id \in S : Rank(scores, id) = Place(R, S, id)
  <2> SUFFICES ASSUME NEW id \in S PROVE Rank(scores, id) = Place(R, S, id)
    OBVIOUS
  <2>1. {x \in S : scores[x] > scores[id] \/ (scores[x] = scores[id] /\ IdLess(x, id))}
            = {x \in S : <<x, id>> \in R}
    <3> HIDE DEF R, S
    <3> QED BY <1>1
  <2> QED BY <2>1 DEF Rank, Place
<1>5. IsFiniteSet(S)
  BY DEF Scores
<1> HIDE DEF R, S
<1>6. /\ Cardinality(S) \in Nat
      /\ \A x \in S : Place(R, S, x) \in 0 .. Cardinality(S) - 1
      /\ \A x, y \in S : <<x, y>> \in R => Place(R, S, x) < Place(R, S, y)
      /\ \A k \in 0 .. Cardinality(S) - 1 : \E x \in S : Place(R, S, x) = k
  BY <1>3, <1>5, PlacesAreTaken
<1>7. ASSUME NEW x \in S, NEW y \in S, Place(R, S, x) = Place(R, S, y) PROVE x = y
  <2> SUFFICES ASSUME x # y PROVE FALSE
    OBVIOUS
  <2>1. <<x, y>> \in R \/ <<y, x>> \in R
    BY <1>3 DEF Orders
  <2>2. Place(R, S, x) \in Int
    BY <1>6
  <2> QED BY <1>6, <1>7, <2>1, <2>2
<1> QED BY <1>4, <1>6, <1>7 DEF S

\* A ranking has all of what is ranked.
LEMMA RankedIsAll ==
    ASSUME NEW scores, Scores(scores)
    PROVE  /\ Ranked(scores) \in Seq(DOMAIN scores)
           /\ \A id \in DOMAIN scores : \E i \in DOMAIN Ranked(scores) : Ranked(scores)[i] = id
<1> DEFINE S == DOMAIN scores
           n == Cardinality(S)
           r == Ranked(scores)
<1>1. /\ n \in Nat
      /\ \A id \in S : Rank(scores, id) \in 0 .. n - 1
      /\ \A x, y \in S : Rank(scores, x) = Rank(scores, y) => x = y
      /\ \A k \in 0 .. n - 1 : \E id \in S : Rank(scores, id) = k
  BY RanksAreTaken
<1>2. r = [i \in 1 .. n |-> CHOOSE id \in S : Rank(scores, id) = i - 1]
  BY DEF Ranked
<1> HIDE DEF S, n, r
<1>3. ASSUME NEW i \in 1 .. n PROVE r[i] \in S /\ Rank(scores, r[i]) = i - 1
  <2>1. i - 1 \in 0 .. n - 1
    BY <1>1
  <2>2. \E id \in S : Rank(scores, id) = i - 1
    BY <1>1, <2>1
  <2> QED BY <1>2, <2>2
<1>4. r \in Seq(S) /\ DOMAIN r = 1 .. n
  <2>1. DOMAIN r = 1 .. n /\ r \in [1 .. n -> S]
    BY <1>2, <1>3
  <2> QED BY <1>1, <2>1
<1>5. ASSUME NEW id \in S PROVE \E i \in DOMAIN r : r[i] = id
  <2> DEFINE i == Rank(scores, id) + 1
  <2>1. i \in 1 .. n /\ i - 1 = Rank(scores, id)
    BY <1>1
  <2>2. r[i] \in S /\ Rank(scores, r[i]) = Rank(scores, id)
    BY <1>3, <2>1
  <2>3. r[i] = id
    BY <1>1, <2>2
  <2> QED BY <1>4, <2>1, <2>3
<1> QED BY <1>4, <1>5 DEF S, r

\* A store that returns fewer hits than it was asked for has returned them all.
LEMMA FewAreAll ==
    ASSUME NEW scores, Scores(scores), NEW limit \in Nat,
           Cardinality(Nearest(scores, limit)) < limit
    PROVE  Nearest(scores, limit) = DOMAIN scores
<1> DEFINE S == DOMAIN scores
           n == Cardinality(S)
           N == Nearest(scores, limit)
<1>1. /\ n \in Nat
      /\ \A id \in S : Rank(scores, id) \in 0 .. n - 1
      /\ \A k \in 0 .. n - 1 : \E id \in S : Rank(scores, id) = k
  BY RanksAreTaken
<1>2. N = {id \in S : Rank(scores, id) < limit} /\ N \in SUBSET S /\ IsFiniteSet(S)
  BY DEF Nearest, Scores
<1> HIDE DEF S, n, N
<1> SUFFICES ASSUME NEW id \in S, id \notin N PROVE FALSE
  BY <1>2 DEF S, N
<1>3. limit <= n - 1
  BY <1>1, <1>2
<1> DEFINE T == 0 .. limit - 1
           f == [x \in N |-> Rank(scores, x)]
<1>4. f \in Surjection(N, T)
  <2>1. \A x \in N : f[x] \in T
    BY <1>1, <1>2
  <2>2. ASSUME NEW k \in T PROVE \E x \in N : f[x] = k
    <3>1. k \in 0 .. n - 1 /\ k < limit
      BY <1>1, <1>3
    <3> QED BY <1>1, <1>2, <3>1
  <2> QED BY <2>1, <2>2 DEF Surjection
<1>5. IsFiniteSet(N)
  BY <1>2, FS_Subset
<1>6. Cardinality(T) <= Cardinality(N)
  <2> HIDE DEF f, T
  <2> QED BY <1>4, <1>5, FS_Surjection
<1>7. Cardinality(T) = limit
  <2>1. 0 \in Int /\ limit - 1 \in Int
    OBVIOUS
  <2>2. Cardinality(0 .. limit - 1) = IF 0 > limit - 1 THEN 0 ELSE (limit - 1) - 0 + 1
    BY <2>1, FS_Interval
  <2> QED BY <2>2
<1>8. Cardinality(N) \in Nat
  BY <1>5, FS_CardinalityType
<1>9. Cardinality(N) < limit
  BY DEF N
<1> HIDE DEF T
<1> QED BY <1>6, <1>7, <1>8, <1>9

----------------------------------------------------------------------------
(* Items.                                                                  *)

\* Induction, for a set of natural numbers.
LEMMA SetInduction ==
    ASSUME NEW S, 0 \in S, \A n \in Nat : n \in S => n + 1 \in S
    PROVE  \A n \in Nat : n \in S
<1> DEFINE Missing == Nat \ S
<1> SUFFICES ASSUME Missing # {} PROVE FALSE
  OBVIOUS
<1>1. PICK n \in Missing : \A m \in Missing : n <= m
  <2>1. Missing \in SUBSET Nat
    OBVIOUS
  <2> HIDE DEF Missing
  <2> QED BY <2>1, LeastElement
<1>2. n - 1 \in Nat /\ n - 1 \notin Missing
  BY <1>1
<1> QED BY <1>1, <1>2

\* What is computed after the n-th candidate.
UpTo(upTo, n, candidates, contexts, topK) ==
    IF n = 0 THEN <<>>
    ELSE Offered(upTo[n - 1], candidates[n], contexts[candidates[n]], topK)

\* The recursive function of Items exists.
LEMMA ItemsExist ==
    ASSUME NEW candidates, NEW contexts, NEW topK, NEW n \in Nat
    PROVE  \E upTo : upTo = [i \in 0 .. n |-> UpTo(upTo, i, candidates, contexts, topK)]
<1> DEFINE Right(upTo, m) == upTo = [i \in 0 .. m |-> UpTo(upTo, i, candidates, contexts, topK)]
           S == {m \in Nat : \E upTo : Right(upTo, m)}
<1>1. 0 \in S
  <2> DEFINE none == [i \in 0 .. 0 |-> <<>>]
  <2>1. Right(none, 0)
    <3>1. \A i \in 0 .. 0 : i = 0
      OBVIOUS
    <3> QED BY <3>1 DEF UpTo
  <2> HIDE DEF Right, none
  <2> QED BY <2>1
<1>2. ASSUME NEW m \in Nat, m \in S PROVE m + 1 \in S
  <2>1. PICK f : Right(f, m)
    <3> HIDE DEF Right
    <3> QED BY <1>2
  <2> DEFINE g == [i \in 0 .. m + 1 |-> UpTo(f, i, candidates, contexts, topK)]
  <2>2. \A i \in 0 .. m : f[i] = g[i]
    BY <2>1
  <2>3. ASSUME NEW i \in 0 .. m + 1
        PROVE  UpTo(f, i, candidates, contexts, topK) = UpTo(g, i, candidates, contexts, topK)
    <3>1. CASE i = 0
      BY <3>1 DEF UpTo
    <3>2. CASE i # 0
      <4>1. i - 1 \in 0 .. m
        BY <3>2
      <4>2. f[i - 1] = g[i - 1]
        BY <2>2, <4>1
      <4> HIDE DEF g
      <4> QED BY <4>2 DEF UpTo
    <3> QED BY <3>1, <3>2
  <2>4. Right(g, m + 1)
    <3> DEFINE h == [i \in 0 .. m + 1 |-> UpTo(g, i, candidates, contexts, topK)]
    <3>1. g = h
      BY <2>3
    <3> QED BY <3>1
  <2> HIDE DEF Right, g
  <2> QED BY <2>4
<1>3. n \in S
  <2>1. \A m \in Nat : m \in S
    <3> HIDE DEF S
    <3> QED BY <1>1, <1>2, SetInduction
  <2> HIDE DEF S
  <2> QED BY <2>1
<1> QED BY <1>3

\* The items of the first n candidates.
ItemsOf1(items, n, candidates, contexts, topK) ==
    /\ items \in Seq([segment : {candidates[k] : k \in 1 .. n},
                      context : {contexts[candidates[k]] : k \in 1 .. n}])
    /\ \A i \in DOMAIN items : items[i].context = contexts[items[i].segment]
    /\ \A i, k \in DOMAIN items : i # k => items[i].context # items[k].context
    /\ Len(items) < topK => \A k \in 1 .. n :
           \E i \in DOMAIN items : items[i].context = contexts[candidates[k]]

\* One more candidate.
LEMMA OfferedItems ==
    ASSUME NEW candidates, NEW contexts, NEW topK \in Nat, NEW n \in Nat, NEW items,
           ItemsOf1(items, n, candidates, contexts, topK), Len(items) <= topK
    PROVE  LET id == candidates[n + 1]
               more == Offered(items, id, contexts[id], topK)
           IN  ItemsOf1(more, n + 1, candidates, contexts, topK) /\ Len(more) <= topK
<1> DEFINE id == candidates[n + 1]
           context == contexts[id]
           item == [segment |-> id, context |-> context]
           more == Offered(items, id, context, topK)
           T(m) == [segment : {candidates[k] : k \in 1 .. m},
                    context : {contexts[candidates[k]] : k \in 1 .. m}]
           known == \E i \in DOMAIN items : items[i].context = context
<1>1. items \in Seq(T(n)) /\ Len(items) \in Nat /\ DOMAIN items = 1 .. Len(items)
  <2>1. items \in Seq(T(n))
    BY DEF ItemsOf1
  <2> HIDE DEF T
  <2> QED BY <2>1
<1>2. \A k : k \in 1 .. n + 1 <=> (k \in 1 .. n \/ k = n + 1)
  OBVIOUS
<1>3. T(n) \subseteq T(n + 1) /\ item \in T(n + 1) /\ items \in Seq(T(n + 1))
  <2>1. T(n) \subseteq T(n + 1) /\ item \in T(n + 1)
    BY <1>2
  <2> HIDE DEF T
  <2> QED BY <1>1, <2>1
<1>4. /\ \A i \in DOMAIN items : items[i].context = contexts[items[i].segment]
      /\ \A i, k \in DOMAIN items : i # k => items[i].context # items[k].context
      /\ Len(items) < topK => \A k \in 1 .. n :
             \E i \in DOMAIN items : items[i].context = contexts[candidates[k]]
  BY DEF ItemsOf1
<1>5. CASE Len(items) = topK \/ known
  <2>1. more = items
    BY <1>5 DEF Offered
  <2>2. Len(items) < topK => \A k \in 1 .. n + 1 :
            \E i \in DOMAIN items : items[i].context = contexts[candidates[k]]
    <3> SUFFICES ASSUME Len(items) < topK, NEW k \in 1 .. n + 1
                 PROVE  \E i \in DOMAIN items : items[i].context = contexts[candidates[k]]
      OBVIOUS
    <3>1. known
      <4>1. Len(items) \in Nat
        BY <1>1
      <4> HIDE DEF T, known, more
      <4> QED BY <1>5, <4>1
    <3>2. CASE k = n + 1
      BY <3>1, <3>2
    <3>3. CASE k \in 1 .. n
      BY <1>4, <3>3
    <3> QED BY <1>2, <3>2, <3>3
  <2>3. ItemsOf1(items, n + 1, candidates, contexts, topK)
    BY <1>3, <1>4, <2>2 DEF ItemsOf1
  <2> HIDE DEF more
  <2> QED BY <2>1, <2>3 DEF more
<1>6. CASE Len(items) # topK /\ ~known
  <2>1. more = Append(items, item)
    BY <1>6 DEF Offered
  <2>2. /\ more \in Seq(T(n + 1)) /\ Len(more) = Len(items) + 1
        /\ DOMAIN more = 1 .. Len(items) + 1
        /\ \A i \in 1 .. Len(items) : more[i] = items[i]
        /\ more[Len(items) + 1] = item
    <3> HIDE DEF T, item, more
    <3> QED BY <1>1, <1>3, <2>1
  <2>3. item.segment = id /\ item.context = context
    OBVIOUS
  <2> DEFINE last == Len(items) + 1
  <2>4. \A i \in DOMAIN more : \/ i \in DOMAIN items /\ more[i] = items[i]
                               \/ i = last /\ more[i] = item
    <3>1. \A i : i \in 1 .. last <=> i \in 1 .. Len(items) \/ i = last
      <4>1. Len(items) \in Nat
        BY <1>1
      <4> HIDE DEF T, more, item
      <4> QED BY <4>1
    <3>2. DOMAIN items = 1 .. Len(items)
      BY <1>1
    <3> HIDE DEF more, item, T
    <3> QED BY <2>2, <3>1, <3>2
  <2>5. \A i \in DOMAIN more : more[i].context = contexts[more[i].segment]
    <3> HIDE DEF more, item
    <3> QED BY <1>4, <2>3, <2>4
  <2>6. ASSUME NEW i \in DOMAIN more, NEW k \in DOMAIN more, i # k
        PROVE  more[i].context # more[k].context
    <3>1. \A m \in DOMAIN items : items[m].context # context
      BY <1>6
    <3> HIDE DEF more, item, context
    <3> QED BY <1>4, <2>3, <2>4, <2>6, <3>1
  <2>7. ASSUME NEW k \in 1 .. n + 1, Len(more) < topK
        PROVE  \E i \in DOMAIN more : more[i].context = contexts[candidates[k]]
    <3>1. CASE k = n + 1
      <4>1. last \in DOMAIN more /\ more[last] = item
        BY <1>1, <2>2
      <4> HIDE DEF more, item
      <4> QED BY <2>3, <3>1, <4>1
    <3>2. CASE k \in 1 .. n
      <4>1. Len(items) < topK
        BY <1>1, <2>2, <2>7
      <4>2. PICK i \in DOMAIN items : items[i].context = contexts[candidates[k]]
        BY <1>4, <3>2, <4>1
      <4>3. i \in DOMAIN more /\ more[i] = items[i]
        <5>1. DOMAIN items = 1 .. Len(items) /\ Len(items) \in Nat
          BY <1>1
        <5> HIDE DEF T, more, item
        <5>2. i \in 1 .. Len(items) + 1
          BY <5>1
        <5> QED BY <2>2, <5>1, <5>2
      <4> HIDE DEF more
      <4> QED BY <4>2, <4>3
    <3> QED BY <1>2, <2>7, <3>1, <3>2
  <2>8. Len(more) <= topK
    <3>1. Len(items) \in Nat
      BY <1>1
    <3>2. Len(more) = Len(items) + 1
      BY <2>2
    <3>3. Len(items) # topK
      BY <1>6
    <3> HIDE DEF more, T, item, known
    <3> QED BY <3>1, <3>2, <3>3
  <2>9. ItemsOf1(more, n + 1, candidates, contexts, topK)
    <3> HIDE DEF more
    <3> QED BY <2>2, <2>5, <2>6, <2>7 DEF ItemsOf1
  <2> HIDE DEF more
  <2> QED BY <2>8, <2>9 DEF more
<1> QED BY <1>5, <1>6

\* The items are of the candidates, of each context the first one, and if there
\* are few, of all contexts.
LEMMA ItemsAreRight ==
    ASSUME NEW S, NEW candidates \in Seq(S), NEW contexts, NEW topK \in Nat
    PROVE  ItemsOf1(Items(candidates, contexts, topK), Len(candidates), candidates, contexts, topK)
<1> DEFINE n == Len(candidates)
           upTo == CHOOSE f : f = [i \in 0 .. n |-> UpTo(f, i, candidates, contexts, topK)]
           Right(m) == ItemsOf1(upTo[m], m, candidates, contexts, topK) /\ Len(upTo[m]) <= topK
           N == {m \in Nat : m <= n => Right(m)}
<1>1. n \in Nat
  OBVIOUS
<1>2. Items(candidates, contexts, topK) = upTo[n]
  BY DEF Items, UpTo
<1>3. upTo = [i \in 0 .. n |-> UpTo(upTo, i, candidates, contexts, topK)]
  BY <1>1, ItemsExist, SMTT(30)
<1> HIDE DEF upTo, n
<1>4. 0 \in N
  <2>1. 0 \in 0 .. n
    BY <1>1
  <2>2. upTo[0] = <<>>
    BY <1>3, <2>1 DEF UpTo
  <2>3. 1 .. 0 = {}
    OBVIOUS
  <2>4. DOMAIN <<>> = {} /\ Len(<<>>) = 0
    OBVIOUS
  <2>5. ItemsOf1(<<>>, 0, candidates, contexts, topK)
    BY <2>3, <2>4 DEF ItemsOf1
  <2> QED BY <2>2, <2>4, <2>5
<1>5. ASSUME NEW m \in Nat, m \in N PROVE m + 1 \in N
  <2> SUFFICES ASSUME m + 1 <= n PROVE Right(m + 1)
    <3> HIDE DEF Right
    <3> QED BY <1>5
  <2>1. Right(m)
    <3> HIDE DEF Right
    <3> QED BY <1>1, <1>5
  <2>2. m + 1 \in 0 .. n /\ m + 1 # 0 /\ (m + 1) - 1 = m
    BY <1>1
  <2>3. upTo[m + 1] = UpTo(upTo, m + 1, candidates, contexts, topK)
    BY <1>3, <2>2
  <2>4. upTo[m + 1] = Offered(upTo[m], candidates[m + 1], contexts[candidates[m + 1]], topK)
    BY <2>2, <2>3 DEF UpTo
  <2> QED BY <2>1, <2>4, OfferedItems
<1>6. n \in N
  <2>1. \A m \in Nat : m \in N
    <3> HIDE DEF N
    <3> QED BY <1>4, <1>5, SetInduction
  <2> HIDE DEF N
  <2> QED BY <1>1, <2>1
<1> QED BY <1>1, <1>2, <1>6 DEF n

----------------------------------------------------------------------------
(* Scores and candidates.                                                  *)

\* Scores that are numbers of things.
Counts(scores) ==
    /\ IsFiniteSet(DOMAIN scores) /\ DOMAIN scores \subseteq Ids
    /\ \A id \in DOMAIN scores : scores[id] \in Nat

\* A query as the API lets it through.
QueryOK(query) ==
    /\ query.mode \in SemanticModes \cup KeywordModes
    /\ query.topK \in Nat \ {0} /\ query.threshold \in Nat
    /\ query.semantic \in Nat /\ query.keyword \in Nat

\* The best of some numbers is one.
LEMMA BestIsNumber ==
    ASSUME NEW scores, Counts(scores)
    PROVE  BestOf(scores) \in Nat
<1> DEFINE S == {scores[id] : id \in DOMAIN scores}
<1>1. S \in SUBSET Int /\ S \subseteq Nat
  BY DEF Counts
<1>2. IsFiniteSet(S)
  BY ImageIsFinite DEF Counts
<1>3. BestOf(scores) = IF S \subseteq {0} THEN 1 ELSE Max(S)
  BY DEF BestOf, Highest
<1> HIDE DEF S
<1>4. ASSUME ~(S \subseteq {0}) PROVE Max(S) \in Nat
  <2>1. \E x \in S : \A y \in S : x >= y
    BY <1>1, <1>2, <1>4, GreatestElement
  <2>2. Max(S) \in S
    BY <2>1 DEF Max
  <2> QED BY <1>1, <2>2
<1> QED BY <1>3, <1>4

\* Scores and thresholds can be compared.
LEMMA ScoreIsNumber ==
    ASSUME NEW query, QueryOK(query), NEW semantic, Counts(semantic), NEW keyword, Counts(keyword)
    PROVE  /\ Threshold(query, semantic, keyword) \in Int
           /\ \A id : Score(query, semantic, keyword, id) \in Int
<1>1. BestOf(semantic) \in Nat /\ BestOf(keyword) \in Nat
  BY BestIsNumber
<1>2. \A id : ScoreOf(semantic, id) \in Nat /\ ScoreOf(keyword, id) \in Nat
  BY DEF ScoreOf, Counts
<1>3. /\ query.threshold \in Nat /\ query.semantic \in Nat /\ query.keyword \in Nat
      /\ query.mode = "vector" \/ query.mode = "full_text" \/ query.mode = "hybrid"
  BY DEF QueryOK, SemanticModes, KeywordModes
<1>4. PICK t \in Nat, ws \in Nat, wk \in Nat, bs \in Nat, bk \in Nat :
          /\ t = query.threshold /\ ws = query.semantic /\ wk = query.keyword
          /\ bs = BestOf(semantic) /\ bk = BestOf(keyword)
  BY <1>1, <1>3
<1>5. \A x, y \in Nat : x * y \in Nat
  OBVIOUS
<1>6. ASSUME NEW id PROVE Score(query, semantic, keyword, id) \in Int
  <2>1. PICK s \in Nat, k \in Nat : s = ScoreOf(semantic, id) /\ k = ScoreOf(keyword, id)
    BY <1>2
  <2>2. 10 * s \in Int /\ 100 * k \in Int /\ ws * s * bk \in Int /\ wk * k * bs \in Int
    <3>1. ws * s \in Nat /\ wk * k \in Nat
      BY <1>5
    <3> QED BY <1>5, <3>1
  <2>3. 10 * (ws * s * bk + wk * k * bs) \in Int
    BY <2>2
  <2>4. CASE query.mode = "vector"
    BY <2>1, <2>2, <2>4 DEF Score
  <2>5. CASE query.mode = "full_text"
    BY <2>1, <2>2, <2>5 DEF Score
  <2>6. CASE query.mode = "hybrid"
    <3>1. Score(query, semantic, keyword, id) = 10 * (ws * s * bk + wk * k * bs)
      BY <1>4, <2>1, <2>6 DEF Score
    <3> QED BY <2>3, <3>1
  <2> QED BY <1>3, <2>4, <2>5, <2>6
<1>7. Threshold(query, semantic, keyword) \in Int
  <2>1. 10 * t \in Nat /\ 10 * t * bk \in Nat /\ 10 * t * bk * bs \in Nat
    <3>1. 10 * t \in Nat
      OBVIOUS
    <3>2. 10 * t * bk \in Nat
      BY <1>5, <3>1
    <3> QED BY <1>5, <3>1, <3>2
  <2>2. CASE query.mode = "vector"
    <3>1. Threshold(query, semantic, keyword) = 10 * t
      BY <1>4, <2>2 DEF Threshold
    <3> QED BY <2>1, <3>1
  <2>3. CASE query.mode = "full_text"
    <3>1. Threshold(query, semantic, keyword) = 10 * t * bk
      BY <1>4, <2>3 DEF Threshold
    <3> QED BY <2>1, <3>1
  <2>4. CASE query.mode = "hybrid"
    <3>1. Threshold(query, semantic, keyword) = 10 * t * bk * bs
      BY <1>4, <2>4 DEF Threshold
    <3> QED BY <2>1, <3>1
  <2> QED BY <1>3, <2>2, <2>3, <2>4
<1> QED BY <1>6, <1>7

\* What reaches the threshold.
Kept(query, semantic, keyword, rows) ==
    {id \in Found(semantic, keyword) \cap rows :
        Score(query, semantic, keyword, id) >= Threshold(query, semantic, keyword)}

\* The candidates are all that was found, is served, and scores enough.
LEMMA CandidatesAreRight ==
    ASSUME NEW query, QueryOK(query), NEW semantic, Counts(semantic), NEW keyword, Counts(keyword),
           NEW rows
    PROVE  LET kept == Kept(query, semantic, keyword, rows)
               candidates == Candidates(query, semantic, keyword, rows)
           IN  /\ candidates \in Seq(kept)
               /\ \A id \in kept : \E i \in DOMAIN candidates : candidates[i] = id
<1> DEFINE kept == Kept(query, semantic, keyword, rows)
           scores == [id \in kept |-> Score(query, semantic, keyword, id)]
<1>1. Candidates(query, semantic, keyword, rows) = Ranked(scores)
  BY DEF Candidates, Kept
<1>2. IsFiniteSet(kept) /\ kept \subseteq Ids
  <2>1. IsFiniteSet(Found(semantic, keyword)) /\ Found(semantic, keyword) \subseteq Ids
    BY FS_Union DEF Found, Counts
  <2>2. kept \in SUBSET Found(semantic, keyword)
    BY DEF Kept
  <2> HIDE DEF kept
  <2> QED BY <2>1, <2>2, FS_Subset
<1>3. \A id : Score(query, semantic, keyword, id) \in Int
  BY ScoreIsNumber
<1> HIDE DEF kept
<1>4. DOMAIN scores = kept /\ \A id \in kept : scores[id] \in Int
  BY <1>3
<1> HIDE DEF scores
<1>5. Scores(scores)
  BY <1>2, <1>4 DEF Scores
<1> QED BY <1>1, <1>4, <1>5, RankedIsAll DEF kept

----------------------------------------------------------------------------
(* What jobs, requests and the cleanup leave of segments and vectors.      *)

\* What may become of a segment.
SegmentGrows(row, new) ==
    /\ new.document = row.document /\ new.index = row.index /\ new.job = row.job
    /\ new.type = row.type /\ new.parent = row.parent
    /\ new.semantic = row.semantic /\ new.keyword = row.keyword
    /\ row.ready => new.ready
    /\ row.deleted => new.deleted
    /\ row.status = "completed" => new.status = "completed" /\ new.keyed = row.keyed

\* Segments and vectors are added, a published segment stays as it is, and what is
\* known to be mixed stays known.
SegmentsGrow ==
    /\ DOMAIN segments \subseteq DOMAIN segments'
    /\ \A id \in DOMAIN segments : SegmentGrows(segments[id], segments'[id])
    /\ mixed \subseteq mixed' /\ vectors \subseteq vectors' /\ UNCHANGED technique

\* A row as it is staged.
NewRow(id, row, general) ==
    /\ id[4] \in Nat /\ row.semantic \in Nat /\ row.keyword \in Nat
    /\ row.keyed = FALSE /\ row.status = "indexing"
    /\ row.ready => general \/ row.type = "parent"

\* What is staged of a document is finite and measured.
LEMMA StagingMeasures ==
    ASSUME NEW j, NEW index, NEW d, NEW items, NEW general \in BOOLEAN,
           IsSeq(items), \A i \in DOMAIN items : Measured(items[i])
    PROVE  /\ IsFiniteSet(DOMAIN Staging(j, index, d, items, general))
           /\ \A id \in DOMAIN Staging(j, index, d, items, general) :
                  NewRow(id, Staging(j, index, d, items, general)[id], general)
<1> DEFINE S == Staging(j, index, d, items, general)
           at == [i \in DOMAIN items |-> Id(j, d, items[i].id)]
<1>1. DOMAIN S = {at[i] : i \in DOMAIN items}
  BY DEF Staging
<1>2. IsFiniteSet(DOMAIN S)
  <2>1. DOMAIN at = 1 .. Len(items) /\ Len(items) \in Nat
    BY OneMore
  <2>2. IsFiniteSet(DOMAIN at)
    <3>1. 1 \in Int /\ Len(items) \in Int
      BY <2>1
    <3>2. IsFiniteSet(1 .. Len(items))
      BY <3>1, FS_Interval
    <3> QED BY <2>1, <3>2
  <2>3. DOMAIN at = DOMAIN items
    OBVIOUS
  <2> HIDE DEF at, S
  <2>4. IsFiniteSet({at[i] : i \in DOMAIN at})
    BY <2>2, ImageIsFinite
  <2> QED BY <1>1, <2>3, <2>4
<1>3. ASSUME NEW id \in DOMAIN S
      PROVE  NewRow(id, S[id], general)
  <2>1. PICK k : k = CHOOSE i \in DOMAIN items : Id(j, d, items[i].id) = id
    OBVIOUS
  <2>2. k \in DOMAIN items /\ Id(j, d, items[k].id) = id
    <3>1. \E i \in DOMAIN items : Id(j, d, items[i].id) = id
      BY <1>1
    <3> QED BY <2>1, <3>1
  <2>3. PICK item : item = items[k]
    OBVIOUS
  <2>4. Measured(item) /\ id = Id(j, d, item.id)
    BY <2>2, <2>3
  <2>5. PICK ready \in BOOLEAN : ready = (general \/ item.type = "parent")
    OBVIOUS
  <2>6. S[id] = [document |-> d, index |-> index, job |-> j, type |-> item.type,
                 parent |-> IF item.parent = NoParent THEN <<>> ELSE Id(j, d, item.parent),
                 semantic |-> item.semantic, keyword |-> item.keyword, keyed |-> FALSE,
                 ready |-> ready, status |-> "indexing", deleted |-> FALSE]
    BY <1>1, <2>1, <2>3, <2>5 DEF Staging
  <2> DEFINE row == S[id]
  <2>7. /\ row.semantic = item.semantic /\ row.keyword = item.keyword /\ row.keyed = FALSE
        /\ row.status = "indexing" /\ row.ready = ready /\ row.type = item.type
    BY <2>6
  <2> HIDE DEF row
  <2>8. id[4] = item.id
    BY <2>4 DEF Id
  <2>9. NewRow(id, row, general)
    BY <2>4, <2>5, <2>7, <2>8 DEF NewRow, Measured
  <2> QED BY <2>9 DEF row
<1> QED BY <1>2, <1>3

\* Finitely many finite parts.
LEMMA TogetherIsFinite ==
    ASSUME NEW parts, IsFiniteSet(parts), \A f \in parts : IsFiniteSet(DOMAIN f)
    PROVE  IsFiniteSet(DOMAIN Together(parts))
<1> DEFINE at == [f \in parts |-> DOMAIN f]
           T == {at[f] : f \in DOMAIN at}
<1>1. DOMAIN Together(parts) = UNION T
  BY DEF Together
<1>2. IsFiniteSet(T) /\ \A t \in T : IsFiniteSet(t)
  <2>1. \A t \in T : IsFiniteSet(t)
    OBVIOUS
  <2>2. IsFiniteSet(DOMAIN at)
    OBVIOUS
  <2> HIDE DEF at
  <2> QED BY <2>1, <2>2, ImageIsFinite
<1> HIDE DEF T
<1>3. IsFiniteSet(UNION T)
  BY <1>2, FS_UNION
<1> QED BY <1>1, <1>3

\* Parts that are measured, together.
LEMMA TogetherMeasures ==
    ASSUME NEW at, NEW general, IsFiniteSet(DOMAIN at),
           \A d \in DOMAIN at : /\ IsFiniteSet(DOMAIN at[d])
                                /\ \A id \in DOMAIN at[d] : NewRow(id, at[d][id], general)
    PROVE  LET all == Together({at[d] : d \in DOMAIN at})
           IN  IsFiniteSet(DOMAIN all) /\ \A id \in DOMAIN all : NewRow(id, all[id], general)
<1> DEFINE parts == {at[d] : d \in DOMAIN at}
<1>1. IsFiniteSet(parts)
  BY ImageIsFinite
<1>2. \A f \in parts : IsFiniteSet(DOMAIN f) /\ \A id \in DOMAIN f : NewRow(id, f[id], general)
  OBVIOUS
<1> HIDE DEF parts
<1>3. IsFiniteSet(DOMAIN Together(parts))
  BY <1>1, <1>2, TogetherIsFinite
<1>4. \A id \in DOMAIN Together(parts) : NewRow(id, Together(parts)[id], general)
  BY <1>2, TogetherIs
<1> QED BY <1>3, <1>4 DEF parts

\* The items of a job are measured.
LEMMA ItemsAreMeasured ==
    ASSUME StorageInv, JobsOK, MeasuresOK, NEW j \in DOMAIN jobs, NEW d \in jobs[j].documents
    PROVE  IsSeq(ItemsOf(j, d)) /\ \A i \in DOMAIN ItemsOf(j, d) : Measured(ItemsOf(j, d)[i])
<1>1. JobOK(j, jobs[j]) /\ d \in DOMAIN documents
  BY DEF JobsOK, JobOK
<1>2. CASE jobs[j].version > 0
  BY <1>1, <1>2 DEF JobOK, ItemsOf, MeasuresOK
<1>3. CASE ~(jobs[j].version > 0)
  <2>1. documents[d].hash \in DOMAIN SourceItems
    BY <1>1 DEF StorageInv, RequestInv, DocumentsOK
  <2> QED BY <1>3, <2>1, KnowledgeBaseAssumption DEF ItemsOf, IsSeq
<1> QED BY <1>2, <1>3

\* What a job stages is finite and measured.
LEMMA BatchMeasures ==
    ASSUME StorageInv, JobsOK, MeasuresOK, NEW j \in DOMAIN jobs
    PROVE  /\ IsFiniteSet(DOMAIN Batch(j))
           /\ \A id \in DOMAIN Batch(j) : NewRow(id, Batch(j)[id], technique = "economy")
<1> DEFINE general == technique = "economy"
           rows(d) == Staging(j, jobs[j].target, d, ItemsOf(j, d), general)
           D == jobs[j].documents
           parts == {rows(d) : d \in D}
<1>1. Batch(j) = Together(parts)
  BY DEF Batch
<1>2. ASSUME NEW d \in D
      PROVE  /\ IsFiniteSet(DOMAIN rows(d))
             /\ \A id \in DOMAIN rows(d) : NewRow(id, rows(d)[id], general)
  <2> DEFINE items == ItemsOf(j, d)
             target == jobs[j].target
  <2>1. general \in BOOLEAN /\ IsSeq(items) /\ \A i \in DOMAIN items : Measured(items[i])
    BY ItemsAreMeasured
  <2> HIDE DEF general, items, target
  <2>2. /\ IsFiniteSet(DOMAIN Staging(j, target, d, items, general))
        /\ \A id \in DOMAIN Staging(j, target, d, items, general) :
               NewRow(id, Staging(j, target, d, items, general)[id], general)
    BY <2>1, StagingMeasures
  <2> QED BY <2>2 DEF items, target
<1>3. IsFiniteSet(D)
  <2>1. D \in SUBSET DOMAIN documents /\ IsFiniteSet(DOMAIN documents)
    BY DEF JobsOK, JobOK, MeasuresOK
  <2> HIDE DEF D
  <2> QED BY <2>1, FS_Subset
<1> DEFINE at == [d \in D |-> rows(d)]
<1>4. DOMAIN at = D /\ parts = {at[d] : d \in DOMAIN at} /\ \A d \in D : at[d] = rows(d)
  OBVIOUS
<1> HIDE DEF rows, D, general, at, parts
<1>5. /\ IsFiniteSet(DOMAIN Together(parts))
      /\ \A id \in DOMAIN Together(parts) : NewRow(id, Together(parts)[id], general)
  BY <1>2, <1>3, <1>4, TogetherMeasures
<1> QED BY <1>1, <1>5 DEF general

\* Segments that are joined to the others.
LEMMA JoinedMeasures ==
    ASSUME StorageInv, JobsOK, MeasuresOK, VectorsOK, NEW j \in DOMAIN jobs,
           segments' = Joined(segments, Batch(j)), UNCHANGED <<technique, vectors>>,
           vectors \subseteq DOMAIN segments, mixed \subseteq mixed'
    PROVE  /\ SegmentsGrow /\ VectorsOK' /\ IsFiniteSet(DOMAIN segments')
           /\ \A id \in DOMAIN segments' :
                  id[4] \in Nat /\ segments'[id].semantic \in Nat /\ segments'[id].keyword \in Nat
<1> DEFINE new == Batch(j)
<1>1. /\ IsFiniteSet(DOMAIN new)
      /\ \A id \in DOMAIN new : NewRow(id, new[id], technique = "economy")
  BY BatchMeasures
<1>2. segments' = Joined(segments, new)
  OBVIOUS
<1> HIDE DEF new
<1>3. /\ DOMAIN segments' = DOMAIN segments \cup DOMAIN new
      /\ \A id \in DOMAIN segments : segments'[id] = segments[id]
      /\ \A id \in DOMAIN new : id \notin DOMAIN segments => segments'[id] = new[id]
  BY <1>2 DEF Joined
<1>4. IsFiniteSet(DOMAIN segments')
  <2>1. IsFiniteSet(DOMAIN segments)
    BY DEF MeasuresOK
  <2>2. PICK A, B : A = DOMAIN segments /\ B = DOMAIN new
    OBVIOUS
  <2>3. IsFiniteSet(A \cup B)
    BY ONLY <1>1, <2>1, <2>2, FS_Union
  <2> QED BY ONLY <1>3, <2>2, <2>3
<1>5. SegmentsGrow
  BY <1>3 DEF SegmentsGrow, SegmentGrows
<1>6. \A id \in DOMAIN segments' :
          id[4] \in Nat /\ segments'[id].semantic \in Nat /\ segments'[id].keyword \in Nat
  BY <1>1, <1>3 DEF MeasuresOK, NewRow
<1>7. VectorsOK'
  <2>1. \A id \in vectors : segments'[id] = segments[id]
    BY <1>3
  <2>2. ASSUME NEW id \in DOMAIN segments', id \notin DOMAIN segments
        PROVE  /\ segments'[id].type = "parent" => ~segments'[id].keyed
               /\ segments'[id].status = "completed" => segments'[id].ready
               /\ technique = "high_quality" /\ segments'[id].ready => segments'[id].type = "parent"
    BY <1>1, <1>3, <2>2 DEF NewRow
  <2> QED BY <1>3, <2>1, <2>2 DEF VectorsOK
<1> QED BY <1>4, <1>5, <1>6, <1>7

\* What becoming ready leaves of a segment.
LEMMA ReadyMeasures ==
    ASSUME JobsOK, SegmentsOK, NEW own \in SUBSET DOMAIN segments,
           segments' = [id \in DOMAIN segments |->
               IF id \in own THEN [segments[id] EXCEPT !.ready = TRUE, !.keyed = TRUE]
               ELSE segments[id]]
    PROVE  \A id \in DOMAIN segments :
               /\ segments'[id].semantic = segments[id].semantic
               /\ segments'[id].keyword = segments[id].keyword
               /\ id \notin own => segments'[id] = segments[id]
<1> SUFFICES ASSUME NEW id \in DOMAIN segments
             PROVE  /\ segments'[id].semantic = segments[id].semantic
                    /\ segments'[id].keyword = segments[id].keyword
                    /\ id \notin own => segments'[id] = segments[id]
  OBVIOUS
<1>1. PICK row : row = segments[id]
  OBVIOUS
<1>2. PICK new : new = [row EXCEPT !.ready = TRUE, !.keyed = TRUE]
  OBVIOUS
<1>3. segments'[id] = IF id \in own THEN new ELSE row
  BY <1>1, <1>2
<1>4. DOMAIN row = SegmentFields
  BY <1>1, SegmentRows
<1>5. new.semantic = row.semantic /\ new.keyword = row.keyword
  BY ONLY <1>2, <1>4 DEF SegmentFields
<1> QED BY ONLY <1>1, <1>3, <1>5

\* What being deleted or published leaves of a segment.
LEMMA UpdatedMeasures ==
    ASSUME JobsOK, SegmentsOK, NEW gone, NEW published, segments' = Updated(gone, published)
    PROVE  \A id \in DOMAIN segments :
               /\ segments'[id].semantic = segments[id].semantic
               /\ segments'[id].keyword = segments[id].keyword
               /\ segments'[id].keyed = segments[id].keyed
<1> SUFFICES ASSUME NEW id \in DOMAIN segments
             PROVE  /\ segments'[id].semantic = segments[id].semantic
                    /\ segments'[id].keyword = segments[id].keyword
                    /\ segments'[id].keyed = segments[id].keyed
  OBVIOUS
<1>1. PICK row : row = segments[id]
  OBVIOUS
<1>2. PICK dead : dead = [row EXCEPT !.deleted = TRUE]
  OBVIOUS
<1>3. PICK shown : shown = [row EXCEPT !.status = "completed"]
  OBVIOUS
<1>4. segments'[id] = IF id \in gone THEN dead ELSE IF id \in published THEN shown ELSE row
  BY <1>1, <1>2, <1>3 DEF Updated
<1>5. DOMAIN row = SegmentFields
  BY <1>1, SegmentRows
<1>6. /\ dead.semantic = row.semantic /\ dead.keyword = row.keyword /\ dead.keyed = row.keyed
      /\ shown.semantic = row.semantic /\ shown.keyword = row.keyword /\ shown.keyed = row.keyed
  BY ONLY <1>2, <1>3, <1>5 DEF SegmentFields
<1> QED BY ONLY <1>1, <1>4, <1>6

\* Segments that keep their number and what is measured of them.
LEMMA SameMeasures ==
    ASSUME MeasuresOK, SegmentsKeep,
           \A id \in DOMAIN segments : /\ segments'[id].semantic = segments[id].semantic
                                       /\ segments'[id].keyword = segments[id].keyword
    PROVE  /\ IsFiniteSet(DOMAIN segments')
           /\ \A id \in DOMAIN segments' :
                  id[4] \in Nat /\ segments'[id].semantic \in Nat /\ segments'[id].keyword \in Nat
BY DEF MeasuresOK, SegmentsKeep

\* Segments become ready with their vectors.
LEMMA EmbeddedMeasures ==
    ASSUME JobsOK, SegmentsOK, MeasuresOK, VectorsOK, NEW own \in SUBSET DOMAIN segments,
           \A id \in own : segments[id].type # "parent", Mutable(own),
           vectors' = IF technique = "economy" THEN vectors ELSE vectors \cup own,
           segments' = [id \in DOMAIN segments |->
               IF id \in own THEN [segments[id] EXCEPT !.ready = TRUE, !.keyed = TRUE]
               ELSE segments[id]],
           UNCHANGED <<technique, mixed>>
    PROVE  /\ SegmentsGrow /\ VectorsOK' /\ IsFiniteSet(DOMAIN segments')
           /\ \A id \in DOMAIN segments' :
                  id[4] \in Nat /\ segments'[id].semantic \in Nat /\ segments'[id].keyword \in Nat
<1>1. /\ SegmentsKeep
      /\ \A id \in DOMAIN segments : /\ segments'[id].status = segments[id].status
                                     /\ segments'[id].deleted = segments[id].deleted
      /\ \A id \in own : segments'[id].ready
  BY ReadyRows
<1>2. \A id \in DOMAIN segments :
          /\ segments'[id].semantic = segments[id].semantic
          /\ segments'[id].keyword = segments[id].keyword
          /\ id \notin own => segments'[id] = segments[id]
  BY ReadyMeasures
<1>3. DOMAIN segments' = DOMAIN segments /\ vectors \subseteq vectors' /\ UNCHANGED technique
      /\ \A id \in own : segments[id].status = "indexing"
  BY <1>1 DEF SegmentsKeep, Mutable
<1>4. \A id \in DOMAIN segments :
          /\ segments'[id].type = segments[id].type
          /\ segments[id].ready => segments'[id].ready
          /\ segments[id].status = "completed" => id \notin own
  BY <1>1, <1>3 DEF SegmentsKeep
<1>5. SegmentsGrow
  BY <1>1, <1>2, <1>3, <1>4 DEF SegmentsKeep, SegmentsGrow, SegmentGrows
<1>6. VectorsOK'
  <2>1. technique \in {"high_quality", "economy"} /\ (technique = "economy" => vectors' = {})
    BY DEF VectorsOK
  <2>0. /\ \A id \in vectors : id \in DOMAIN segments /\ segments[id].type # "parent"
        /\ \A id \in DOMAIN segments :
               /\ segments[id].type = "parent" => ~segments[id].keyed
               /\ segments[id].status = "completed" => segments[id].ready
        /\ \A id \in own : id \in DOMAIN segments /\ segments[id].type # "parent"
        /\ \A id \in vectors' : id \in vectors \/ id \in own
    BY DEF VectorsOK, SegmentsOK
  <2>2. \A id \in vectors' : segments'[id].type # "parent"
    BY ONLY <2>0, <1>4
  <2>3. \A id \in DOMAIN segments :
            /\ segments'[id].type = "parent" => ~segments'[id].keyed
            /\ segments'[id].status = "completed" => segments'[id].ready
    BY ONLY <2>0, <1>1, <1>2, <1>4
  <2>4. ASSUME NEW id \in DOMAIN segments, technique = "high_quality", segments'[id].ready,
               segments'[id].type # "parent"
        PROVE  id \in vectors'
    BY <1>2, <1>4, <2>4 DEF VectorsOK
  <2> QED BY <1>3, <2>1, <2>2, <2>3, <2>4 DEF VectorsOK
<1> QED BY <1>1, <1>2, <1>5, <1>6, SameMeasures

\* Segments are deleted, or published when they are ready.
LEMMA UpdatedGrow ==
    ASSUME JobsOK, SegmentsOK, MeasuresOK, VectorsOK, NEW gone, NEW published,
           segments' = Updated(gone, published),
           \A id \in DOMAIN segments : id \in published => segments[id].ready,
           UNCHANGED <<technique, vectors, mixed>>
    PROVE  /\ SegmentsGrow /\ VectorsOK' /\ IsFiniteSet(DOMAIN segments')
           /\ \A id \in DOMAIN segments' :
                  id[4] \in Nat /\ segments'[id].semantic \in Nat /\ segments'[id].keyword \in Nat
<1>1. /\ SegmentsKeep
      /\ \A id \in DOMAIN segments :
             /\ segments'[id].ready = segments[id].ready
             /\ id \notin published => segments'[id].status = segments[id].status
  BY UpdatedRows
<1>2. \A id \in DOMAIN segments :
          /\ segments'[id].semantic = segments[id].semantic
          /\ segments'[id].keyword = segments[id].keyword
          /\ segments'[id].keyed = segments[id].keyed
  BY UpdatedMeasures
<1>3. SegmentsGrow
  BY <1>1, <1>2 DEF SegmentsKeep, SegmentsGrow, SegmentGrows
<1>4. VectorsOK'
  <2>1. \A id \in vectors : id \in DOMAIN segments
    BY DEF SegmentsOK
  <2>2. DOMAIN segments' = DOMAIN segments
        /\ \A id \in DOMAIN segments : segments'[id].type = segments[id].type
    BY <1>1 DEF SegmentsKeep
  <2>3. \A id \in DOMAIN segments : segments'[id].status = "completed" => segments'[id].ready
    BY <1>1 DEF VectorsOK
  <2> QED BY <1>1, <1>2, <2>1, <2>2, <2>3 DEF VectorsOK
<1> QED BY <1>1, <1>2, <1>3, <1>4, SameMeasures

\* A job keeps its revision and its items.
LEMMA JobsKeepItems ==
    ASSUME JobsOK, NEW j \in DOMAIN jobs, Working(j)
    PROVE  /\ DOMAIN jobs' = DOMAIN jobs
           /\ \A k \in DOMAIN jobs : /\ jobs'[k].version = jobs[k].version
                                     /\ jobs'[k].items = jobs[k].items
<1> DEFINE job == jobs[j]
<1>1. DOMAIN job = JobFields
  BY DEF JobsOK, JobOK
<1>2. ASSUME NEW t, SetJob(j, t), t.version = job.version, t.items = job.items
      PROVE  /\ DOMAIN jobs' = DOMAIN jobs
             /\ \A k \in DOMAIN jobs : /\ jobs'[k].version = jobs[k].version
                                       /\ jobs'[k].items = jobs[k].items
  <2>1. /\ DOMAIN jobs' = DOMAIN jobs /\ jobs'[j] = t
        /\ \A k \in DOMAIN jobs : k # j => jobs'[k] = jobs[k]
    BY <1>2, JobSet
  <2> QED BY ONLY <1>2, <2>1
<1>3. ASSUME NEW row, NEW status, NEW due,
             \/ SetJob(j, [job EXCEPT !.row = row])
             \/ SetJob(j, [job EXCEPT !.due = due])
             \/ SetJob(j, [job EXCEPT !.row = row, !.status = status, !.due = due])
             \/ SetJob(j, [job EXCEPT !.status = status, !.due = due])
      PROVE  \E t : SetJob(j, t) /\ t.version = job.version /\ t.items = job.items
  <2> HIDE DEF job
  <2>1. PICK t1 : t1 = [job EXCEPT !.row = row]
    OBVIOUS
  <2>2. PICK t2 : t2 = [job EXCEPT !.due = due]
    OBVIOUS
  <2>3. PICK t3 : t3 = [job EXCEPT !.row = row, !.status = status, !.due = due]
    OBVIOUS
  <2>4. PICK t4 : t4 = [job EXCEPT !.status = status, !.due = due]
    OBVIOUS
  <2>5. /\ t1.version = job.version /\ t1.items = job.items
        /\ t2.version = job.version /\ t2.items = job.items
        /\ t3.version = job.version /\ t3.items = job.items
        /\ t4.version = job.version /\ t4.items = job.items
    BY ONLY <1>1, <2>1, <2>2, <2>3, <2>4 DEF JobFields
  <2>6. SetJob(j, t1) \/ SetJob(j, t2) \/ SetJob(j, t3) \/ SetJob(j, t4)
    BY <1>3, <2>1, <2>2, <2>3, <2>4
  <2> QED BY <2>5, <2>6
<1>4. \E row, status, due :
             \/ SetJob(j, [job EXCEPT !.row = row])
             \/ SetJob(j, [job EXCEPT !.due = due])
             \/ SetJob(j, [job EXCEPT !.row = row, !.status = status, !.due = due])
             \/ SetJob(j, [job EXCEPT !.status = status, !.due = due])
  <2>1. CASE SetJob(j, [job EXCEPT !.row = "loaded"]) \/ SetJob(j, [job EXCEPT !.row = "staged"])
    BY <2>1
  <2>2. CASE SetJob(j, [job EXCEPT !.due = FALSE])
    BY <2>2
  <2>3. CASE \/ SetJob(j, [job EXCEPT !.row = "failed", !.status = "failed", !.due = TRUE])
             \/ SetJob(j, [job EXCEPT !.row = "completed", !.status = "completed", !.due = TRUE])
             \/ SetJob(j, [job EXCEPT !.row = "pending", !.status = "unfinished", !.due = FALSE])
    BY <2>3
  <2>4. CASE Finalized(j, "completed") \/ Finalized(j, "failed")
    BY <2>4 DEF Finalized
  <2> QED BY <2>1, <2>2, <2>3, <2>4 DEF Working, Load, Stage, Embed, FailJob, Retry,
        LoseFinalization, FinalizeFailed, FinalizeInvalid, FinalizeIncremental, FinalizeFull,
         RowFails
<1> HIDE DEF job
<1> QED BY <1>2, <1>3, <1>4

\* Steps of a job: the segments grow, and what is compared stays a number.
LEMMA WorkingMeasures ==
    ASSUME StorageInv, BuildInv, MeasuresOK, VectorsOK, NEW j \in DOMAIN jobs, Working(j)
    PROVE  MeasuresOK' /\ VectorsOK' /\ SegmentsGrow /\ UNCHANGED client
<1>1. JobsOK /\ SegmentsOK
  BY DEF BuildInv
<1>2. UNCHANGED <<documents, technique, client>>
  BY DEF Working, Load, Stage, Embed, FailJob, Retry, LoseFinalization, FinalizeFailed,
         FinalizeInvalid, FinalizeIncremental, FinalizeFull, library
<1> DEFINE Good == /\ SegmentsGrow /\ VectorsOK' /\ IsFiniteSet(DOMAIN segments')
                   /\ \A id \in DOMAIN segments' :
                          /\ id[4] \in Nat /\ segments'[id].semantic \in Nat
                          /\ segments'[id].keyword \in Nat
<1>3. ASSUME UNCHANGED <<segments, vectors, mixed>> PROVE Good
  BY <1>2, <1>3 DEF SegmentsGrow, SegmentGrows, MeasuresOK, VectorsOK
<1>4. Good
  <2>1. CASE Load(j) \/ Retry(j) \/ LoseFinalization(j) \/ FinalizeFailed(j) \/ FinalizeInvalid(j)
             \/ FailJob(j)
    <3> HIDE DEF Good
    <3> QED BY <1>3, <2>1 DEF Load, Retry, LoseFinalization, FinalizeFailed, FinalizeInvalid,
                                 FailJob
  <2>2. CASE Stage(j)
    <3>1. \/ UNCHANGED <<segments, mixed>>
          \/ segments' = Joined(segments, Batch(j)) /\ mixed \subseteq mixed'
      BY <2>2 DEF Stage, Batch
    <3>2. UNCHANGED vectors
      BY <2>2 DEF Stage
    <3>3. CASE segments' = Joined(segments, Batch(j)) /\ mixed \subseteq mixed'
      BY <1>1, <1>2, <3>2, <3>3, JoinedMeasures DEF SegmentsOK
    <3> HIDE DEF Good
    <3> QED BY <1>3, <3>1, <3>2, <3>3
  <2>3. CASE Embed(j)
    <3> DEFINE own == {id \in OwnSegments(j) : segments[id].type # "parent"}
    <3>1. /\ vectors' = IF technique = "economy" THEN vectors ELSE vectors \cup own
          /\ UNCHANGED mixed
          /\ \/ UNCHANGED segments
             \/ /\ Mutable(own)
                /\ segments' = [id \in DOMAIN segments |->
                     IF id \in own THEN [segments[id] EXCEPT !.ready = TRUE, !.keyed = TRUE]
                     ELSE segments[id]]
      BY <2>3 DEF Embed
    <3>2. own \in SUBSET DOMAIN segments /\ \A id \in own : segments[id].type # "parent"
      BY DEF OwnSegments
    <3> HIDE DEF own
    <3>3. CASE UNCHANGED segments
      <4>1. VectorsOK'
        BY <1>2, <3>1, <3>2, <3>3 DEF VectorsOK
      <4>2. SegmentsGrow
        BY <1>2, <3>1, <3>3 DEF SegmentsGrow, SegmentGrows
      <4> QED BY <3>3, <4>1, <4>2 DEF MeasuresOK
    <3>4. CASE ~UNCHANGED segments
      <4>1. /\ Mutable(own)
            /\ segments' = [id \in DOMAIN segments |->
                 IF id \in own THEN [segments[id] EXCEPT !.ready = TRUE, !.keyed = TRUE]
                 ELSE segments[id]]
        BY <3>1, <3>4
      <4> QED BY <1>1, <1>2, <3>1, <3>2, <4>1, EmbeddedMeasures
    <3> QED BY <3>3, <3>4
  <2>4. CASE FinalizeIncremental(j)
    <3> DEFINE gone == Replaced(j)
               published == Staged(j)
    <3>1. /\ segments' = Updated(gone, published) /\ UNCHANGED <<vectors, mixed>>
          /\ \A id \in DOMAIN segments : id \in published => segments[id].ready
      BY <2>4 DEF FinalizeIncremental
    <3> HIDE DEF gone, published
    <3> QED BY <1>1, <1>2, <3>1, UpdatedGrow
  <2>5. CASE FinalizeFull(j)
    <3> DEFINE old == Active \ {jobs[j].target}
               gone == {id \in DOMAIN segments : segments[id].index \in old}
               published == InTarget(j)
    <3>1. /\ UNCHANGED <<vectors, mixed>>
          /\ \/ UNCHANGED segments
             \/ /\ segments' = Updated(gone, published)
                /\ \A id \in published : segments[id].ready
      BY <2>5 DEF FinalizeFull
    <3> HIDE DEF gone, published
    <3>2. CASE segments' = Updated(gone, published) /\ \A id \in published : segments[id].ready
      BY <1>1, <1>2, <3>1, <3>2, UpdatedGrow
    <3> HIDE DEF Good
    <3> QED BY <1>3, <3>1, <3>2
  <2> QED BY <2>1, <2>2, <2>3, <2>4, <2>5 DEF Working
<1>5. \A k \in DOMAIN jobs' : jobs'[k].version > 0 =>
          \A i \in DOMAIN jobs'[k].items : Measured(jobs'[k].items[i])
  BY <1>1, JobsKeepItems DEF MeasuresOK
<1> QED BY <1>2, <1>4, <1>5 DEF MeasuresOK

\* One document more is still a finite number of them.
LEMMA DocumentsAreFinite ==
    ASSUME IsFiniteSet(DOMAIN documents), NEW c, ClientStep(c)
    PROVE  IsFiniteSet(DOMAIN documents')
<1>1. \/ DOMAIN documents' = DOMAIN documents
      \/ Created(c)
  <2>1. CASE Uploading(c)
    <3>1. \/ Created(c) \/ UNCHANGED documents
          \/ documents' = [documents EXCEPT ![Compensated(c).document].deleted = TRUE]
      BY <2>1 DEF Uploading, CheckFile, PutObject, PutFails, CreateDocument, CreateFails, UndoPut,
                  FilesDone, Confirm, ConfirmFails, Compensate, CompensateFails, RemoveCompensated,
                  library, build
    <3> QED BY <3>1
  <2>2. CASE Governing(c)
    BY <2>2 DEF Governing, Govern, Delete, DispatchCleanup, build
  <2>3. CASE Searching(c) \/ Revising(c) \/ Die(c)
    BY <2>3 DEF Searching, ReadIndex, SearchVectors, SearchFails, SearchKeywords, ReadRows,
                ReadParents, Revising, ReadToken, ReadContent, Save, Reindex, Die, library, build
  <2> QED BY <2>1, <2>2, <2>3 DEF ClientStep
<1>2. CASE Created(c)
  <2> DEFINE new == NewId(c)
             row == Row(File(c))
  <2>1. documents' = With(documents, new, row)
    BY <1>2 DEF Created
  <2> HIDE DEF new, row
  <2>2. DOMAIN documents' = DOMAIN documents \cup {new}
    BY <2>1 DEF With, Joined
  <2>3. PICK A : A = DOMAIN documents
    OBVIOUS
  <2>4. IsFiniteSet(A \cup {new})
    BY ONLY <2>3, IsFiniteSet(DOMAIN documents), FS_AddElement
  <2> QED BY ONLY <2>2, <2>3, <2>4
<1> QED BY <1>1, <1>2

\* A request leaves the segments alone; the revision it saves is measured.
LEMMA ClientMeasures ==
    ASSUME StorageInv, BuildInv, RevisionInv, MeasuresOK, VectorsOK,
           NEW c \in DOMAIN client, ClientStep(c)
    PROVE  /\ MeasuresOK' /\ VectorsOK' /\ UNCHANGED <<technique, segments, vectors, mixed>>
<1>1. JobsOK /\ RevisionsOK /\ RequestInv /\ IsFiniteSet(DOMAIN documents)
  BY DEF BuildInv, RevisionInv, StorageInv, MeasuresOK
<1>2. Grows(documents, documents')
  BY <1>1, RequestStep DEF Next, ClientStep
<1>3. UNCHANGED technique
  BY DEF ClientStep, Uploading, CheckFile, PutObject, PutFails, CreateDocument, CreateFails,
         UndoPut, FilesDone, Confirm, ConfirmFails, Compensate, CompensateFails, RemoveCompensated,
         Governing, Govern, Delete, DispatchCleanup, Searching, ReadIndex, SearchVectors,
         SearchFails, SearchKeywords, ReadRows, ReadParents, Revising, ReadToken, ReadContent,
         Save, Reindex, Die
<1> DEFINE ItemsOK(job) == job.version > 0 => \A i \in DOMAIN job.items : Measured(job.items[i])
<1>4. /\ JobsGrow /\ BuildRests
      /\ \A j \in DOMAIN jobs' \ DOMAIN jobs : ItemsOK(jobs'[j])
  <2>1. CASE ~Revising(c)
    <3>1. /\ JobsGrow /\ BuildRests
          /\ \A j \in DOMAIN jobs' \ DOMAIN jobs : jobs'[j].version = 0
      BY <1>1, <1>2, <2>1, UploadingBuilds DEF ClientStep
    <3> QED BY <3>1
  <2>2. CASE Revising(c)
    <3>1. JobsGrow /\ BuildRests
      <4>1. \A d \in DOMAIN documents : d \in DOMAIN revisions /\ Latest(d) \in Nat
        BY <1>1, OneMore DEF RevisionsOK, Latest
      <4> QED BY <1>1, <2>2, <4>1, RevisingBuilds
    <3>2. ASSUME NEW job, jobs' = Append(jobs, job), ItemsOK(job)
          PROVE  \A j \in DOMAIN jobs' \ DOMAIN jobs : ItemsOK(jobs'[j])
      <4>1. DOMAIN jobs' = DOMAIN jobs \cup {NewJob} /\ jobs'[NewJob] = job
        BY <1>1, <3>2, JobAdded DEF JobsOK
      <4> HIDE DEF ItemsOK
      <4> QED BY <3>2, <4>1
    <3>3. ASSUME NEW full, NEW docs, NEW target, NEW items,
                 jobs' = Append(jobs, Job(full, docs, target, 0, items))
          PROVE  \A j \in DOMAIN jobs' \ DOMAIN jobs : ItemsOK(jobs'[j])
      <4>1. PICK job : job = Job(full, docs, target, 0, items)
        OBVIOUS
      <4>2. job.version = 0
        BY <4>1 DEF Job
      <4>3. ItemsOK(job)
        BY <4>2
      <4> HIDE DEF ItemsOK
      <4> QED BY <3>2, <3>3, <4>1, <4>3
    <3>4. CASE UNCHANGED jobs
      BY <3>1, <3>4
    <3>5. CASE Save(c)
      <4> DEFINE d == Request(c).document
                 target == CHOOSE i \in Active : TRUE
      <4>1. \/ UNCHANGED jobs
            \/ /\ At(c, "save")
               /\ jobs' = Append(jobs, Job(FALSE, {d}, target, Latest(d) + 1, Request(c).items))
        BY <3>5 DEF Save
      <4>2. CASE /\ At(c, "save")
                 /\ jobs' = Append(jobs, Job(FALSE, {d}, target, Latest(d) + 1, Request(c).items))
        <5>1. ClientOK(c, client[c], documents)
          BY <1>1 DEF RequestInv
        <5>2. Request(c).kind \in {"edit", "save"}
          BY <4>2, <5>1, Stages DEF ClientOK, Accepted, At, Request
        <5>3. \A i \in DOMAIN Request(c).items : Measured(Request(c).items[i])
          BY <5>1, <5>2 DEF ClientOK, Accepted, Request
        <5>4. PICK job : job = Job(FALSE, {d}, target, Latest(d) + 1, Request(c).items)
          OBVIOUS
        <5>5. job.items = Request(c).items
          BY <5>4 DEF Job
        <5>6. ItemsOK(job)
          BY <5>3, <5>5
        <5> HIDE DEF ItemsOK
        <5> QED BY <3>1, <3>2, <4>2, <5>4, <5>6
      <4> HIDE DEF ItemsOK
      <4> QED BY <3>1, <3>4, <4>1, <4>2
    <3>6. CASE Reindex(c)
      <4> DEFINE d == Request(c).document
                 target == CHOOSE i \in Active : TRUE
      <4>1. \/ UNCHANGED jobs
            \/ jobs' = Append(jobs, Job(TRUE, {d}, NewJob, 0, <<>>))
            \/ jobs' = Append(jobs, Job(FALSE, {d}, target, 0, <<>>))
        BY <3>6 DEF Reindex, FullJob
      <4> HIDE DEF ItemsOK, target, d
      <4> QED BY <3>1, <3>3, <3>4, <4>1
    <3>7. CASE ReadToken(c) \/ ReadContent(c)
      BY <3>1, <3>4, <3>7 DEF ReadToken, ReadContent, build
    <3> QED BY <2>2, <3>5, <3>6, <3>7 DEF Revising
  <2> QED BY <2>1, <2>2
<1>5. UNCHANGED <<segments, vectors, mixed>>
  BY <1>4 DEF BuildRests
<1>6. MeasuresOK'
  <2>1. IsFiniteSet(DOMAIN documents')
    BY <1>1, DocumentsAreFinite
  <2>2. \A j \in DOMAIN jobs' : ItemsOK(jobs'[j])
    <3>1. \A j \in DOMAIN jobs : ItemsOK(jobs[j])
      BY DEF MeasuresOK
    <3> HIDE DEF ItemsOK
    <3> QED BY <1>4, <3>1 DEF JobsGrow
  <2> QED BY <1>5, <2>1, <2>2 DEF MeasuresOK
<1>7. VectorsOK'
  BY <1>3, <1>5 DEF VectorsOK
<1> QED BY <1>3, <1>5, <1>6, <1>7

\* A cleanup deletes segments.
LEMMA CleanupMeasures ==
    ASSUME BuildInv, MeasuresOK, VectorsOK, NEW d, Cleanup(d) \/ CleanupFails(d)
    PROVE  MeasuresOK' /\ VectorsOK' /\ SegmentsGrow /\ UNCHANGED client
<1>1. UNCHANGED <<technique, client, documents, jobs, vectors, mixed>>
  BY DEF Cleanup, CleanupFails, build
<1>2. JobsOK /\ SegmentsOK
  BY DEF BuildInv
<1>3. CASE UNCHANGED segments
  BY <1>1, <1>3 DEF MeasuresOK, VectorsOK, SegmentsGrow, SegmentGrows
<1>4. CASE ~UNCHANGED segments
  <2> DEFINE gone == {id \in DOMAIN segments : segments[id].document = d}
  <2>1. segments' = Updated(gone, {})
    BY <1>4 DEF Cleanup, CleanupFails, build
  <2> HIDE DEF gone
  <2>2. PICK none : none = {}
    OBVIOUS
  <2>3. /\ segments' = Updated(gone, none)
        /\ \A id \in DOMAIN segments : id \in none => segments[id].ready
    BY <2>1, <2>2
  <2>4. /\ SegmentsGrow /\ VectorsOK' /\ IsFiniteSet(DOMAIN segments')
        /\ \A id \in DOMAIN segments' :
               id[4] \in Nat /\ segments'[id].semantic \in Nat /\ segments'[id].keyword \in Nat
    BY <1>1, <1>2, <2>3, UpdatedGrow
  <2> QED BY <1>1, <2>4 DEF MeasuresOK
<1> QED BY <1>3, <1>4

----------------------------------------------------------------------------
(* What a search has found is not disturbed by others.                     *)

\* The two properties are about each answer.
LEMMA EachAnswer ==
    /\ AnswersShowOneVersion <=> \A c \in DOMAIN client : ShowsOneVersion(client[c])
    /\ ShortAnswersAreComplete <=> \A c \in DOMAIN client : MissesNothing(client[c])
<1>1. \A c : Answered(c) <=> AnsweredBy(client[c])
  BY DEF Answered, AnsweredBy, At, Request
<1>2. AnswersShowOneVersion <=> \A c \in DOMAIN client : ShowsOneVersion(client[c])
  BY <1>1 DEF AnswersShowOneVersion, ShowsOneVersion
<1>3. \A c, id : /\ Matches(c, id) <=> MatchesFor(client[c], id)
                 /\ Reaches(c, id) <=> ReachesFor(client[c], id)
  BY DEF Matches, MatchesFor, Reaches, ReachesFor, Query, Request, SemanticModes, KeywordModes
<1>4. \A c : HitLimit(Query(c).topK) = 4 * Query(c).topK /\ Query(c) = client[c].request.query
  BY DEF HitLimit, OverFetch, Query, Request
<1>5. ShortAnswersAreComplete <=> \A c \in DOMAIN client : MissesNothing(client[c])
  BY <1>1, <1>3, <1>4 DEF ShortAnswersAreComplete, MissesNothing, IsAnswered, Parent
<1> QED BY <1>2, <1>5

\* A published segment gets no vector it did not have.
LEMMA VectorsOfPublished ==
    ASSUME VectorsOK, VectorsOK', SegmentsGrow, NEW id \in DOMAIN segments,
           segments[id].status = "completed", id \in vectors'
    PROVE  id \in vectors
<1>1. UNCHANGED technique /\ segments'[id].type = segments[id].type
  BY DEF SegmentsGrow, SegmentGrows
<1>2. segments'[id].type # "parent" /\ technique # "economy"
  BY <1>1 DEF VectorsOK
<1>3. segments[id].ready /\ technique = "high_quality"
  BY <1>2 DEF VectorsOK
<1> QED BY <1>1, <1>2, <1>3 DEF VectorsOK

\* What a search has found is not disturbed by what others do.
LEMMA SearchStays ==
    ASSUME VectorsOK, VectorsOK', SegmentsGrow, NEW s, SearchGood(s),
           s.pc \in {"index", "hits", "keywords", "rows", "parents", "done"}
    PROVE  SearchGood(s)'
<1>1. SearchOK(s)
  BY DEF SearchGood
<1>2. \A id \in DOMAIN segments :
          LET row == segments[id]
              new == segments'[id]
          IN  /\ id \in DOMAIN segments'
              /\ new.document = row.document /\ new.index = row.index /\ new.job = row.job
              /\ new.parent = row.parent
              /\ new.semantic = row.semantic /\ new.keyword = row.keyword
              /\ row.deleted => new.deleted
              /\ row.status = "completed" => new.status = "completed" /\ new.keyed = row.keyed
  BY DEF SegmentsGrow, SegmentGrows
<1>3. mixed \subseteq mixed'
  BY DEF SegmentsGrow
<1>4. \A id \in s.steady : /\ id \in DOMAIN segments /\ segments[id].index = s.index
                           /\ segments[id].status = "completed"
                           /\ id \in vectors' => id \in vectors
  <2>1. \A id \in s.steady : /\ id \in DOMAIN segments /\ segments[id].index = s.index
                             /\ segments[id].status = "completed"
    BY <1>1 DEF SearchOK
  <2> QED BY <2>1, VectorsOfPublished
<1>5. /\ \A id \in DOMAIN s.semantic : id \in DOMAIN segments
                                       /\ s.semantic[id] = segments[id].semantic
      /\ \A id \in DOMAIN s.keyword : id \in DOMAIN segments
                                      /\ s.keyword[id] = segments[id].keyword
      /\ s.pc \in {"index", "hits", "keywords", "rows", "parents"} => s.answer = <<>>
      /\ s.pc = "index" => s.index = 0
      /\ s.pc \in {"keywords", "rows", "parents"} /\ AllNear(s) =>
             s.steady \cap vectors \subseteq DOMAIN s.semantic
      /\ s.pc \in {"rows", "parents"} /\ s.request.query.mode \in KeywordModes =>
             \A id \in s.steady :
                 /\ segments[id].keyed /\ segments[id].keyword > 0
                 /\ s.pc = "rows" => ~segments[id].deleted
                 => id \in DOMAIN s.keyword
      /\ s.pc = "parents" =>
             /\ s.rows \subseteq Found(s.semantic, s.keyword)
             /\ s.steady \cap Found(s.semantic, s.keyword) \subseteq s.rows
             /\ \A a, b \in s.rows : segments[a].document = segments[b].document =>
                    segments[a].job = segments[b].job \/ segments[a].document \in mixed
      /\ \A i \in DOMAIN s.answer :
             s.answer[i].segment \in DOMAIN segments /\ s.answer[i].context \in DOMAIN segments
  BY <1>1 DEF SearchOK
<1>6. \A id \in Found(s.semantic, s.keyword) : id \in DOMAIN segments
  BY <1>5 DEF Found
<1>7. SearchOK(s)'
  <2>1. s.pc \in {"keywords", "rows", "parents"} /\ AllNear(s) =>
             s.steady \cap vectors' \subseteq DOMAIN s.semantic
    BY <1>4, <1>5
  <2>2. s.pc \in {"rows", "parents"} /\ s.request.query.mode \in KeywordModes =>
             \A id \in s.steady :
                 /\ segments'[id].keyed /\ segments'[id].keyword > 0
                 /\ s.pc = "rows" => ~segments'[id].deleted
                 => id \in DOMAIN s.keyword
    BY <1>2, <1>4, <1>5
  <2>3. s.pc = "parents" =>
             \A a, b \in s.rows : segments'[a].document = segments'[b].document =>
                    segments'[a].job = segments'[b].job \/ segments'[a].document \in mixed'
    BY <1>2, <1>3, <1>5, <1>6
  <2> QED BY <1>2, <1>4, <1>5, <2>1, <2>2, <2>3 DEF SearchOK, AllNear
<1>8. ShowsOneVersion(s)'
  <2>1. ShowsOneVersion(s)
    BY DEF SearchGood
  <2> QED BY <1>2, <1>3, <1>5, <2>1 DEF ShowsOneVersion, AnsweredBy
<1>9. MissesNothing(s)'
  <2>1. MissesNothing(s)
    BY DEF SearchGood
  <2>2. \A id \in s.steady : MatchesFor(s, id)' => MatchesFor(s, id)
    BY <1>2, <1>4 DEF MatchesFor
  <2>3. \A id \in s.steady : IsAnswered(s, id) => IsAnswered(s, id)'
    BY <1>2, <1>4 DEF IsAnswered
  <2> QED BY <2>1, <2>2, <2>3 DEF MissesNothing, AnsweredBy, ReachesFor
<1> QED BY <1>7, <1>8, <1>9 DEF SearchGood

\* What is measured is a number, and the segments have ids that can be ordered.
LEMMA SegmentMeasures ==
    ASSUME StorageInv, BuildInv, MeasuresOK
    PROVE  /\ IsFiniteSet(DOMAIN segments) /\ DOMAIN segments \subseteq Ids
           /\ \A id \in DOMAIN segments :
                  segments[id].semantic \in Nat /\ segments[id].keyword \in Nat
<1>1. ASSUME NEW id \in DOMAIN segments PROVE id \in Ids
  <2>1. /\ id = Id(segments[id].job, segments[id].document, id[4]) /\ id[4] \in Nat
        /\ segments[id].job \in DOMAIN jobs /\ segments[id].document \in DOMAIN documents
    BY SegmentRows DEF BuildInv, SegmentsOK, SegmentOK, MeasuresOK
  <2>2. segments[id].job \in Nat
    BY <2>1, OneMore DEF BuildInv, JobsOK
  <2>3. segments[id].document \in Nat \X Nat
    BY <2>1 DEF StorageInv, RequestInv, DocumentsOK
  <2> QED BY <2>1, <2>2, <2>3 DEF Id, Ids
<1> QED BY <1>1 DEF MeasuresOK

\* Scores that were read from segments.
LEMMA MeasuredScores ==
    ASSUME StorageInv, BuildInv, MeasuresOK, NEW scores,
           \A id \in DOMAIN scores : /\ id \in DOMAIN segments
                                     /\ scores[id] \in {segments[id].semantic, segments[id].keyword}
    PROVE  Counts(scores)
<1>1. /\ IsFiniteSet(DOMAIN segments) /\ DOMAIN segments \subseteq Ids
      /\ \A id \in DOMAIN segments : segments[id].semantic \in Nat /\ segments[id].keyword \in Nat
  BY SegmentMeasures
<1>2. PICK A, B : A = DOMAIN scores /\ B = DOMAIN segments
  OBVIOUS
<1>3. A \in SUBSET B
  BY <1>2
<1>4. IsFiniteSet(A)
  BY ONLY <1>1, <1>2, <1>3, FS_Subset
<1> QED BY <1>1, <1>2, <1>4 DEF Counts

----------------------------------------------------------------------------
(* The steps of a search.                                                  *)

\* A search, with what the models of the API made sure of.
IsSearch(c, s) ==
    /\ DOMAIN s = ClientFields /\ s = client[c] /\ s.request.kind = "search"
    /\ QueryOK(s.request.query)

\* Only searches take the steps of a search.
LEMMA SearchesAre ==
    ASSUME RequestInv, NEW c \in DOMAIN client, Searching(c)
    PROVE  IsSearch(c, client[c])
<1>1. ClientOK(c, client[c], documents)
  BY DEF RequestInv
<1>2. client[c].pc \in {"index", "hits", "keywords", "rows", "parents"}
  BY DEF Searching, ReadIndex, SearchVectors, SearchFails, SearchKeywords, ReadRows, ReadParents, At
<1>3. client[c].request.kind = "search"
  BY <1>1, <1>2, Stages DEF ClientOK, Accepted
<1> QED BY <1>1, <1>3 DEF ClientOK, Accepted, IsSearch, QueryOK

\* A search that ends without an answer, or with none of its own.
LEMMA SearchEnds ==
    ASSUME NEW c \in DOMAIN client, NEW s, IsSearch(c, s), SearchGood(s), NEW code,
           s.pc \in {"index", "hits"}, s.index = 0 \/ code # 200, Finish(c, code)
    PROVE  SearchGood(client'[c])
<1>1. PICK t : t = [s EXCEPT !.pc = "done", !.code = code]
  OBVIOUS
<1>2. client'[c] = t
  BY <1>1 DEF Finish, Go, IsSearch
<1>3. DOMAIN s = ClientFields
  BY DEF IsSearch
<1>4. /\ t.request = s.request /\ t.index = s.index /\ t.semantic = s.semantic
      /\ t.keyword = s.keyword /\ t.rows = s.rows /\ t.steady = s.steady /\ t.answer = s.answer
      /\ t.pc = "done" /\ t.code = code
  BY ONLY <1>1, <1>3 DEF ClientFields
<1>5. SearchOK(s) /\ s.answer = <<>>
  BY DEF SearchGood, SearchOK
<1>6. SearchOK(t)
  BY <1>4, <1>5 DEF SearchOK
<1>7. ShowsOneVersion(t)
  BY <1>4, <1>5 DEF ShowsOneVersion
<1>8. MissesNothing(t)
  BY <1>4 DEF MissesNothing, AnsweredBy
<1> QED BY <1>2, <1>6, <1>7, <1>8 DEF SearchGood

\* A search reads which index is active, and what it serves.
LEMMA IndexIsRead ==
    ASSUME NEW c \in DOMAIN client, NEW s, IsSearch(c, s), SearchGood(s), ReadIndex(c)
    PROVE  SearchGood(client'[c])
<1>0. s = client[c] /\ s.pc = "index" /\ SearchOK(s) /\ s.index = 0
  BY DEF IsSearch, ReadIndex, At, SearchGood, SearchOK
<1>1. CASE Finish(c, 200)
  BY <1>0, <1>1, SearchEnds
<1>2. CASE ~Finish(c, 200)
  <2>1. PICK i : Go(c, [client[c] EXCEPT !.pc = "hits", !.index = i, !.steady = Retrievable(i)])
    BY <1>2 DEF ReadIndex
  <2>2. PICK steady : steady = Retrievable(i)
    OBVIOUS
  <2>3. PICK t : t = [s EXCEPT !.pc = "hits", !.index = i, !.steady = steady]
    OBVIOUS
  <2>4. client'[c] = t
    BY <1>0, <2>1, <2>2, <2>3 DEF Go
  <2>5. DOMAIN s = ClientFields
    BY DEF IsSearch
  <2>6. /\ t.request = s.request /\ t.semantic = s.semantic /\ t.keyword = s.keyword
        /\ t.answer = s.answer /\ t.pc = "hits" /\ t.index = i /\ t.steady = steady
    BY ONLY <2>3, <2>5 DEF ClientFields
  <2>7. \A id \in steady : /\ id \in DOMAIN segments /\ segments[id].index = i
                           /\ segments[id].status = "completed"
    BY <2>2 DEF Retrievable, Completed
  <2>8. SearchOK(t)
    BY <1>0, <2>6, <2>7 DEF SearchOK
  <2>9. ShowsOneVersion(t) /\ MissesNothing(t)
    BY <2>6 DEF ShowsOneVersion, MissesNothing, AnsweredBy
  <2> QED BY <2>4, <2>8, <2>9 DEF SearchGood
<1> QED BY <1>1, <1>2

\* A store that returned fewer hits than asked for returned all vectors of the index.
LEMMA VectorsAreSearched ==
    ASSUME StorageInv, BuildInv, MeasuresOK, VectorsOK, NEW c \in DOMAIN client, NEW s,
           IsSearch(c, s), SearchGood(s), SearchVectors(c)
    PROVE  SearchGood(client'[c])
<1>0. s = client[c] /\ s.pc = "hits" /\ SearchOK(s) /\ s.answer = <<>>
  BY DEF IsSearch, SearchVectors, At, SearchGood, SearchOK
<1> DEFINE ofIndex == {id \in vectors : segments[id].index = s.index}
           all == [id \in ofIndex |-> segments[id].semantic]
           limit == HitLimit(s.request.query.topK)
           hits == Nearest(all, limit)
           semantic == IF s.request.query.mode \in SemanticModes /\ technique = "high_quality"
                       THEN [id \in hits |-> segments[id].semantic] ELSE <<>>
<1>1. Go(c, [s EXCEPT !.pc = "keywords", !.semantic = semantic])
  BY <1>0 DEF SearchVectors, Query, Request
<1>2. hits \subseteq ofIndex
  BY DEF Nearest
<1>3. ofIndex \subseteq DOMAIN segments
  BY DEF BuildInv, SegmentsOK
<1>4. Counts(all) /\ DOMAIN all = ofIndex
  <2>1. DOMAIN all = ofIndex /\ \A id \in DOMAIN all : all[id] = segments[id].semantic
    OBVIOUS
  <2> HIDE DEF all, ofIndex
  <2>2. \A id \in DOMAIN all : /\ id \in DOMAIN segments
                               /\ all[id] \in {segments[id].semantic, segments[id].keyword}
    BY <1>3, <2>1
  <2> QED BY <2>1, <2>2, MeasuredScores
<1>5. limit \in Nat
  BY DEF IsSearch, QueryOK, HitLimit, OverFetch
<1> HIDE DEF ofIndex, all, limit
<1>6. Cardinality(hits) < limit => hits = ofIndex
  <2>1. Scores(all)
    BY <1>4 DEF Counts, Scores
  <2> QED BY <1>4, <1>5, <2>1, FewAreAll
<1> HIDE DEF hits
<1>7. \A id \in DOMAIN semantic : id \in hits /\ semantic[id] = segments[id].semantic
  OBVIOUS
<1>8. s.request.query.mode \in SemanticModes /\ Cardinality(DOMAIN semantic) < limit =>
          ofIndex \subseteq DOMAIN semantic
  <2>1. CASE technique = "high_quality"
    BY <1>6, <2>1
  <2>2. CASE technique # "high_quality"
    <3>1. ofIndex = {}
      BY <2>2 DEF VectorsOK, ofIndex
    <3> QED BY <3>1
  <2> QED BY <2>1, <2>2
<1> HIDE DEF semantic
<1>9. PICK new : new = semantic
  OBVIOUS
<1>10. PICK t : t = [s EXCEPT !.pc = "keywords", !.semantic = new]
  OBVIOUS
<1>11. client'[c] = t
  BY <1>0, <1>1, <1>9, <1>10 DEF Go
<1>12. DOMAIN s = ClientFields
  BY DEF IsSearch
<1>13. /\ t.request = s.request /\ t.semantic = new /\ t.keyword = s.keyword
       /\ t.answer = s.answer /\ t.pc = "keywords" /\ t.index = s.index /\ t.steady = s.steady
  BY ONLY <1>10, <1>12 DEF ClientFields
<1>14. AllNear(t) => t.steady \cap vectors \subseteq DOMAIN t.semantic
  <2>1. \A id \in s.steady : segments[id].index = s.index
    BY <1>0 DEF SearchOK
  <2> QED BY <1>8, <1>9, <1>13, <2>1 DEF AllNear, ofIndex, limit
<1>15. \A id \in DOMAIN t.semantic :
           id \in DOMAIN segments /\ t.semantic[id] = segments[id].semantic
  BY <1>2, <1>3, <1>7, <1>9, <1>13
<1>16. SearchOK(t)
  BY <1>0, <1>13, <1>14, <1>15 DEF SearchOK
<1>17. ShowsOneVersion(t) /\ MissesNothing(t)
  BY <1>13 DEF ShowsOneVersion, MissesNothing, AnsweredBy
<1> QED BY <1>11, <1>16, <1>17 DEF SearchGood

\* The keywords of what is published in the index; without any hit the search ends.
LEMMA KeywordsAreSearched ==
    ASSUME StorageInv, BuildInv, NEW c \in DOMAIN client, NEW s,
           IsSearch(c, s), SearchGood(s), SearchKeywords(c)
    PROVE  SearchGood(client'[c])
<1>0. s = client[c] /\ s.pc = "keywords" /\ SearchOK(s) /\ s.answer = <<>>
  BY DEF IsSearch, SearchKeywords, At, SearchGood, SearchOK
<1>00. DOMAIN s = ClientFields
  BY DEF IsSearch
<1> DEFINE matching == {id \in Completed(s.index) : segments[id].keyed /\ segments[id].keyword > 0}
           keyword == IF s.request.query.mode \in KeywordModes
                      THEN [id \in matching |-> segments[id].keyword] ELSE <<>>
<1>1. IF Found(s.semantic, keyword) = {}
      THEN Go(c, [s EXCEPT !.pc = "done", !.code = 200, !.steady = @ \cap Retrievable(s.index)])
      ELSE Go(c, [s EXCEPT !.pc = "rows", !.keyword = keyword])
  BY <1>0 DEF SearchKeywords, Query, Request
<1>2. \A id \in s.steady : /\ id \in DOMAIN segments /\ segments[id].index = s.index
                           /\ segments[id].status = "completed"
  BY <1>0 DEF SearchOK
<1>3. \A id \in s.steady : segments[id].keyed /\ segments[id].keyword > 0 /\ ~segments[id].deleted
          => id \in matching
  BY <1>2 DEF Completed
<1>4. AllNear(s) => s.steady \cap vectors \subseteq DOMAIN s.semantic
  BY <1>0 DEF SearchOK
<1>5. \A id \in DOMAIN keyword : id \in DOMAIN segments /\ keyword[id] = segments[id].keyword
  BY DEF Completed
<1>6. s.request.query.mode \in KeywordModes => DOMAIN keyword = matching
  OBVIOUS
<1> HIDE DEF matching, keyword
<1>7. CASE Found(s.semantic, keyword) = {}
  <2>1. PICK steady : steady = s.steady \cap Retrievable(s.index)
    OBVIOUS
  <2>2. PICK t : t = [s EXCEPT !.pc = "done", !.code = 200, !.steady = steady]
    OBVIOUS
  <2>3. client'[c] = t
    <3>1. Go(c, [s EXCEPT !.pc = "done", !.code = 200, !.steady = @ \cap Retrievable(s.index)])
      BY <1>1, <1>7
    <3> QED BY <1>0, <2>1, <2>2, <3>1 DEF Go
  <2>4. /\ t.request = s.request /\ t.semantic = s.semantic /\ t.keyword = s.keyword
        /\ t.answer = s.answer /\ t.pc = "done" /\ t.index = s.index /\ t.steady = steady
    BY ONLY <1>00, <2>2 DEF ClientFields
  <2>5. SearchOK(t)
    BY <1>0, <2>1, <2>4 DEF SearchOK
  <2>6. ShowsOneVersion(t)
    BY <1>0, <2>4 DEF ShowsOneVersion
  <2>7. ASSUME NEW id \in steady, Cardinality(DOMAIN s.semantic) < HitLimit(s.request.query.topK)
        PROVE  ~MatchesFor(t, id)
    <3>1. DOMAIN s.semantic = {} /\ DOMAIN keyword = {}
      BY <1>7 DEF Found
    <3>2. ~(s.request.query.mode \in SemanticModes /\ id \in vectors)
      BY <1>4, <2>1, <2>7, <3>1 DEF AllNear
    <3>3. ~segments[id].deleted
      BY <2>1 DEF Retrievable, Completed
    <3>4. ~(s.request.query.mode \in KeywordModes /\ segments[id].keyed /\ segments[id].keyword > 0)
      BY <1>3, <1>6, <2>1, <3>1, <3>3
    <3> QED BY <2>4, <3>2, <3>4 DEF MatchesFor
  <2>8. MissesNothing(t)
    BY <2>4, <2>7 DEF MissesNothing
  <2> QED BY <2>3, <2>5, <2>6, <2>8 DEF SearchGood
<1>8. CASE Found(s.semantic, keyword) # {}
  <2>1. PICK new : new = keyword
    OBVIOUS
  <2>2. PICK t : t = [s EXCEPT !.pc = "rows", !.keyword = new]
    OBVIOUS
  <2>3. client'[c] = t
    <3>1. Go(c, [s EXCEPT !.pc = "rows", !.keyword = keyword])
      BY <1>1, <1>8
    <3> QED BY <1>0, <2>1, <2>2, <3>1 DEF Go
  <2>4. /\ t.request = s.request /\ t.semantic = s.semantic /\ t.keyword = new
        /\ t.answer = s.answer /\ t.pc = "rows" /\ t.index = s.index /\ t.steady = s.steady
    BY ONLY <1>00, <2>2 DEF ClientFields
  <2>5. SearchOK(t)
    BY <1>0, <1>3, <1>4, <1>5, <1>6, <2>1, <2>4 DEF SearchOK, AllNear
  <2>6. ShowsOneVersion(t) /\ MissesNothing(t)
    BY <2>4 DEF ShowsOneVersion, MissesNothing, AnsweredBy
  <2> QED BY <2>3, <2>5, <2>6 DEF SearchGood
<1> QED BY <1>7, <1>8

\* Of what was found, the rows that are served; those of a document are of one job.
LEMMA RowsAreRead ==
    ASSUME StorageInv, BuildInv, NEW c \in DOMAIN client, NEW s,
           IsSearch(c, s), SearchGood(s), ReadRows(c)
    PROVE  SearchGood(client'[c])
<1>0. s = client[c] /\ s.pc = "rows" /\ SearchOK(s) /\ s.answer = <<>>
  BY DEF IsSearch, ReadRows, At, SearchGood, SearchOK
<1>1. DOMAIN s = ClientFields
  BY DEF IsSearch
<1>2. PICK rows, steady : /\ rows = Retrievable(s.index) \cap Found(s.semantic, s.keyword)
                          /\ steady = s.steady \cap Retrievable(s.index)
  OBVIOUS
<1>3. PICK t : t = [s EXCEPT !.pc = "parents", !.rows = rows, !.steady = steady]
  OBVIOUS
<1>4. client'[c] = t
  BY <1>0, <1>2, <1>3 DEF ReadRows, Go
<1>5. /\ t.request = s.request /\ t.semantic = s.semantic /\ t.keyword = s.keyword
      /\ t.answer = s.answer /\ t.pc = "parents" /\ t.index = s.index /\ t.steady = steady
      /\ t.rows = rows
  BY ONLY <1>1, <1>3 DEF ClientFields
<1>6. \A id \in Retrievable(s.index) :
          /\ id \in DOMAIN segments /\ segments[id].index = s.index
          /\ segments[id].status = "completed" /\ ~segments[id].deleted
  BY DEF Retrievable, Completed
<1>7. \A a, b \in rows : segments[a].document = segments[b].document =>
          segments[a].job = segments[b].job \/ segments[a].document \in mixed
  BY <1>2, <1>6 DEF BuildInv, ShownIsOneBuild, SameDocument
<1>8. s.request.query.mode \in KeywordModes =>
          \A id \in steady :
              segments[id].keyed /\ segments[id].keyword > 0 => id \in DOMAIN s.keyword
  BY <1>0, <1>2, <1>6 DEF SearchOK
<1>9. SearchOK(t)
  BY <1>0, <1>2, <1>5, <1>7, <1>8 DEF SearchOK, AllNear
<1>10. ShowsOneVersion(t) /\ MissesNothing(t)
  BY <1>5 DEF ShowsOneVersion, MissesNothing, AnsweredBy
<1> QED BY <1>4, <1>9, <1>10 DEF SearchGood

\* The parent of a segment is of the same job.
LEMMA ParentsAreOfTheJob ==
    ASSUME BuildInv, NEW id \in DOMAIN segments, segments[id].parent \in DOMAIN segments
    PROVE  segments[segments[id].parent].job = segments[id].job
<1> DEFINE p == segments[id].parent
<1>1. SegmentsOK /\ SegmentOK(id, segments[id]) /\ SegmentOK(p, segments[p])
  BY DEF BuildInv, SegmentsOK
<1>2. p # <<>>
  <2>1. p = Id(segments[p].job, segments[p].document, p[4])
    BY <1>1 DEF SegmentOK
  <2> HIDE DEF p
  <2>2. Len(p) = 4
    BY <2>1 DEF Id
  <2> QED BY <2>2
<1>3. p = Id(segments[id].job, segments[id].document, p[4])
  BY <1>1, <1>2 DEF SegmentOK
<1>4. segments[p].job = p[1]
  BY <1>1, OwnIds
<1> HIDE DEF p
<1>5. p[1] = segments[id].job
  BY <1>3 DEF Id
<1> QED BY <1>4, <1>5 DEF p

\* The answer: one item of each context, of the rows that were read.
LEMMA ParentsAreRead ==
    ASSUME StorageInv, BuildInv, MeasuresOK, VectorsOK, NEW c \in DOMAIN client, NEW s,
           IsSearch(c, s), SearchGood(s), ReadParents(c)
    PROVE  SearchGood(client'[c])
<1>0. s = client[c] /\ s.pc = "parents" /\ SearchOK(s)
  BY DEF IsSearch, ReadParents, At, SearchGood
<1>1. DOMAIN s = ClientFields /\ QueryOK(s.request.query)
  BY DEF IsSearch
<1> DEFINE query == s.request.query
           wanted == {Parent(id) : id \in s.rows}
           parents == {id \in Completed(s.index) \cap wanted : segments[id].type = "parent"}
           contexts == [id \in s.rows |-> Context(id, Parent(id), parents)]
           candidates == Candidates(query, s.semantic, s.keyword, s.rows)
           kept == Kept(query, s.semantic, s.keyword, s.rows)
           answer == Items(candidates, contexts, query.topK)
<1>2. Go(c, [s EXCEPT !.pc = "done", !.code = 200, !.answer = answer])
  BY <1>0 DEF ReadParents, Query, Request
<1>3. /\ \A id \in DOMAIN s.semantic : id \in DOMAIN segments
                                       /\ s.semantic[id] = segments[id].semantic
      /\ \A id \in DOMAIN s.keyword : id \in DOMAIN segments
                                      /\ s.keyword[id] = segments[id].keyword
      /\ \A id \in s.steady : id \in DOMAIN segments
      /\ AllNear(s) => s.steady \cap vectors \subseteq DOMAIN s.semantic
      /\ query.mode \in KeywordModes =>
             \A id \in s.steady :
                 segments[id].keyed /\ segments[id].keyword > 0 => id \in DOMAIN s.keyword
      /\ s.rows \subseteq Found(s.semantic, s.keyword)
      /\ s.steady \cap Found(s.semantic, s.keyword) \subseteq s.rows
      /\ \A a, b \in s.rows : segments[a].document = segments[b].document =>
             segments[a].job = segments[b].job \/ segments[a].document \in mixed
  BY <1>0 DEF SearchOK
<1>4. s.rows \subseteq DOMAIN segments
  BY <1>3 DEF Found
<1>5. Counts(s.semantic) /\ Counts(s.keyword)
  BY <1>3, MeasuredScores
<1>6. /\ candidates \in Seq(kept)
      /\ \A id \in kept : \E k \in DOMAIN candidates : candidates[k] = id
  BY <1>1, <1>5, CandidatesAreRight
<1>7. kept \subseteq s.rows
      /\ \A id \in s.rows : ReachesFor(s, id) => id \in kept
  BY <1>3 DEF Kept, ReachesFor
<1>8. /\ parents \subseteq DOMAIN segments
      /\ \A id \in parents : segments[id].type = "parent"
  BY DEF Completed
<1>9. \A id \in s.rows : \/ contexts[id] = segments[id].parent /\ segments[id].parent \in parents
                         \/ contexts[id] = id
  BY DEF Context, Parent
<1>10. query.topK \in Nat
  BY <1>1 DEF QueryOK
<1> HIDE DEF query, candidates, kept, contexts, parents, wanted
<1>11. ItemsOf1(answer, Len(candidates), candidates, contexts, query.topK)
  BY <1>6, <1>10, ItemsAreRight
<1>12. Len(candidates) \in Nat /\ DOMAIN candidates = 1 .. Len(candidates)
       /\ \A k \in 1 .. Len(candidates) : candidates[k] \in kept
  BY <1>6
<1> HIDE DEF answer
<1>13. \A i \in DOMAIN answer :
           /\ answer[i].segment \in kept
           /\ answer[i].context = contexts[answer[i].segment]
  <2> DEFINE T == [segment : {candidates[k] : k \in 1 .. Len(candidates)},
                   context : {contexts[candidates[k]] : k \in 1 .. Len(candidates)}]
  <2>1. answer \in Seq(T)
    BY <1>11 DEF ItemsOf1
  <2>2. \A item \in T : item.segment \in {candidates[k] : k \in 1 .. Len(candidates)}
    OBVIOUS
  <2> HIDE DEF T
  <2>3. \A i \in DOMAIN answer : answer[i] \in T
    BY <2>1
  <2>4. \A i \in DOMAIN answer : answer[i].segment \in {candidates[k] : k \in 1 .. Len(candidates)}
    BY <2>2, <2>3
  <2>5. {candidates[k] : k \in 1 .. Len(candidates)} \subseteq kept
    BY <1>12
  <2>6. \A i \in DOMAIN answer : answer[i].context = contexts[answer[i].segment]
    BY <1>11 DEF ItemsOf1
  <2> QED BY <2>4, <2>5, <2>6
<1>14. PICK new : new = answer
  OBVIOUS
<1>15. PICK t : t = [s EXCEPT !.pc = "done", !.code = 200, !.answer = new]
  OBVIOUS
<1>16. client'[c] = t
  BY <1>0, <1>2, <1>14, <1>15 DEF Go
<1>17. /\ t.request = s.request /\ t.semantic = s.semantic /\ t.keyword = s.keyword
       /\ t.answer = answer /\ t.pc = "done" /\ t.index = s.index /\ t.steady = s.steady
  <2>1. /\ t.request = s.request /\ t.semantic = s.semantic /\ t.keyword = s.keyword
        /\ t.answer = new /\ t.pc = "done" /\ t.index = s.index /\ t.steady = s.steady
    BY ONLY <1>1, <1>15 DEF ClientFields
  <2> QED BY <1>14, <2>1
<1>18. \A i \in DOMAIN answer :
           /\ answer[i].segment \in s.rows /\ answer[i].segment \in DOMAIN segments
           /\ answer[i].context \in DOMAIN segments
           /\ segments[answer[i].segment].job = segments[answer[i].context].job
  <2>1. ASSUME NEW i \in DOMAIN answer
        PROVE  /\ answer[i].segment \in s.rows /\ answer[i].segment \in DOMAIN segments
               /\ answer[i].context \in DOMAIN segments
               /\ segments[answer[i].segment].job = segments[answer[i].context].job
    <3>1. PICK id : id = answer[i].segment
      OBVIOUS
    <3>2. id \in s.rows /\ id \in DOMAIN segments /\ answer[i].context = contexts[id]
      BY <1>4, <1>7, <1>13, <3>1
    <3>3. CASE contexts[id] = id
      BY <3>1, <3>2, <3>3
    <3>4. CASE contexts[id] = segments[id].parent /\ segments[id].parent \in parents
      <4>1. segments[segments[id].parent].job = segments[id].job
        BY <1>8, <3>2, <3>4, ParentsAreOfTheJob
      <4> QED BY <1>8, <3>1, <3>2, <3>4, <4>1
    <3> QED BY <1>9, <3>2, <3>3, <3>4
  <2> QED BY <2>1
<1>19. SearchOK(t)
  BY <1>0, <1>17, <1>18 DEF SearchOK
<1>20. ShowsOneVersion(t)
  <2>1. \A i, k \in DOMAIN answer : i # k => answer[i].context # answer[k].context
    BY <1>11 DEF ItemsOf1
  <2> QED BY <1>3, <1>17, <1>18, <2>1 DEF ShowsOneVersion
<1>21. ASSUME NEW id \in s.steady, MatchesFor(t, id), Len(answer) < query.topK,
              Cardinality(DOMAIN s.semantic) < HitLimit(query.topK)
       PROVE  /\ id \in Found(s.semantic, s.keyword)
              /\ ReachesFor(t, id) => IsAnswered(t, id)
  <2>1. id \in DOMAIN segments
        /\ (\/ query.mode \in SemanticModes /\ id \in vectors
            \/ query.mode \in KeywordModes /\ segments[id].keyed /\ segments[id].keyword > 0)
    BY <1>3, <1>17, <1>21 DEF MatchesFor, query
  <2>2. id \in Found(s.semantic, s.keyword)
    BY <1>3, <1>21, <2>1 DEF AllNear, Found, query
  <2>3. segments[id].type # "parent"
    BY <2>1 DEF VectorsOK
  <2>4. ASSUME ReachesFor(t, id) PROVE IsAnswered(t, id)
    <3>1. id \in kept
      BY <1>3, <1>7, <1>17, <2>2, <2>4 DEF ReachesFor
    <3>2. PICK k \in 1 .. Len(candidates) : candidates[k] = id
      BY <1>6, <1>12, <3>1
    <3>3. PICK i \in DOMAIN answer : answer[i].context = contexts[id]
      BY <1>11, <1>21, <3>2 DEF ItemsOf1
    <3>4. CASE contexts[id] = segments[id].parent
      BY <1>17, <3>3, <3>4 DEF IsAnswered
    <3>5. CASE contexts[id] = id
      <4>1. PICK a : a = answer[i].segment
        OBVIOUS
      <4>2. a \in s.rows /\ contexts[a] = id
        BY <1>7, <1>13, <3>3, <3>5, <4>1
      <4>3. id \notin parents
        BY <1>8, <2>3
      <4>4. a = id
        BY <1>9, <4>2, <4>3
      <4> QED BY <1>17, <4>1, <4>4 DEF IsAnswered
    <3> QED BY <1>7, <1>9, <3>1, <3>4, <3>5
  <2> QED BY <2>2, <2>4
<1>22. MissesNothing(t)
  BY <1>17, <1>21 DEF MissesNothing, query
<1> QED BY <1>16, <1>19, <1>20, <1>22 DEF SearchGood

----------------------------------------------------------------------------
(* The invariant of searches.                                              *)

\* What is good of a record is good of an equal one, a step later.
LEMMA GoodThen ==
    ASSUME NEW c, NEW t, t = client'[c], SearchGood(t)'
    PROVE  SearchGood(client[c])'
<1>1. SearchOK(client[c])'
  BY DEF SearchGood, SearchOK, AllNear
<1>2. ShowsOneVersion(client[c])'
  BY SMTT(30) DEF SearchGood, ShowsOneVersion, AnsweredBy
<1>3. MissesNothing(client[c])'
  BY DEF SearchGood, MissesNothing, AnsweredBy, MatchesFor, ReachesFor, IsAnswered
<1> QED BY <1>1, <1>2, <1>3 DEF SearchGood

\* One step of a search.
LEMMA SearchingIsGood ==
    ASSUME StorageInv, BuildInv, SearchInv,
           NEW c \in DOMAIN client, Searching(c)
    PROVE  SearchGood(client'[c])
<1>1. PICK s : s = client[c]
  OBVIOUS
<1>2. IsSearch(c, s)
  BY <1>1, SearchesAre DEF StorageInv
<1>3. SearchGood(s)
  BY <1>1, <1>2 DEF SearchInv, IsSearch, Request
<1>0. MeasuresOK /\ VectorsOK
  BY DEF SearchInv
<1>4. CASE ReadIndex(c)
  BY <1>2, <1>3, <1>4, IndexIsRead
<1>5. CASE SearchVectors(c)
  BY <1>0, <1>2, <1>3, <1>5, VectorsAreSearched
<1>6. CASE SearchFails(c)
  <2>1. s.pc \in {"index", "hits"} /\ Finish(c, 503)
    BY <1>1, <1>6 DEF SearchFails, At
  <2> QED BY <1>2, <1>3, <2>1, SearchEnds
<1>7. CASE SearchKeywords(c)
  BY <1>2, <1>3, <1>7, KeywordsAreSearched
<1>8. CASE ReadRows(c)
  BY <1>2, <1>3, <1>8, RowsAreRead
<1>9. CASE ReadParents(c)
  BY <1>0, <1>2, <1>3, <1>9, ParentsAreRead
<1> QED BY <1>4, <1>5, <1>6, <1>7, <1>8, <1>9 DEF Searching

\* A search is not disturbed by what others do.
LEMMA SearchesStay ==
    ASSUME RequestInv, RequestInv', VectorsOK, VectorsOK', SegmentsGrow,
           NEW c, c \in DOMAIN client', client'[c].request.kind = "search",
           SearchGood(client'[c])
    PROVE  SearchGood(client[c])'
<1>1. PICK t : t = client'[c]
  OBVIOUS
<1>2. t.pc \in {"index", "hits", "keywords", "rows", "parents", "done"}
  <2>1. ClientOK(c, t, documents')
    BY <1>1 DEF RequestInv
  <2> QED BY <1>1, <2>1, Stages DEF ClientOK, Accepted
<1>3. SearchGood(t)
  BY <1>1
<1>4. SearchGood(t)'
  BY <1>2, <1>3, SearchStays
<1> QED BY <1>1, <1>4, GoodThen

\* Only a step of its own moves a search.
LEMMA SearchTakesItsSteps ==
    ASSUME RequestInv, NEW c \in DOMAIN client, ClientStep(c), client[c].request.kind = "search"
    PROVE  Searching(c)
<1>1. client[c].pc \in {"index", "hits", "keywords", "rows", "parents", "done"}
  <2>1. ClientOK(c, client[c], documents)
    BY DEF RequestInv
  <2> QED BY <2>1, Stages DEF ClientOK, Accepted
<1>2. ~Uploading(c)
  BY <1>1 DEF Uploading, CheckFile, PutObject, PutFails, CreateDocument, CreateFails, UndoPut,
              FilesDone, Confirm, ConfirmFails, Compensate, CompensateFails, RemoveCompensated, At
<1>3. ~Governing(c) /\ ~Revising(c)
  BY <1>1 DEF Governing, Govern, Delete, DispatchCleanup, Revising, ReadToken, ReadContent, Save,
              Reindex, At
<1>4. ~Die(c)
  BY <1>1 DEF Die
<1> QED BY <1>2, <1>3, <1>4 DEF ClientStep

\* Every step of the system keeps the invariant of searches.
LEMMA SearchStep ==
    ASSUME StorageInv, BuildInv, RevisionInv, SearchInv, [Next]_vars
    PROVE  SearchInv'
<1>0. MeasuresOK /\ VectorsOK
  BY DEF SearchInv
<1>1. RequestInv /\ RequestInv'
  BY StorageStep DEF StorageInv
<1>2. ASSUME MeasuresOK', VectorsOK', SegmentsGrow,
             \A c \in DOMAIN client' :
                 client'[c].request.kind = "search" => SearchGood(client'[c])
      PROVE  SearchInv'
  <2>1. \A c \in DOMAIN client' : client'[c].request.kind = "search" => SearchGood(client[c])'
    BY <1>0, <1>1, <1>2, SearchesStay
  <2> QED BY <1>2, <2>1 DEF SearchInv, Request
<1>3. UNCHANGED client => \A c \in DOMAIN client' :
                 client'[c].request.kind = "search" => SearchGood(client'[c])
  BY DEF SearchInv, Request
<1>4. ASSUME NEW c \in DOMAIN client, ClientStep(c)
      PROVE  SearchInv'
  <2>1. /\ MeasuresOK' /\ VectorsOK' /\ UNCHANGED <<technique, segments, vectors, mixed>>
    BY <1>0, <1>4, ClientMeasures
  <2>2. SegmentsGrow
    BY <2>1 DEF SegmentsGrow, SegmentGrows
  <2>3. Moves(c) /\ client'[c].request = client[c].request
    BY <1>4, ClientStorage DEF StorageMove
  <2>4. DOMAIN client' = DOMAIN client /\ \A e \in DOMAIN client : e # c => client'[e] = client[e]
    BY <2>3 DEF Moves
  <2>5. client'[c].request.kind = "search" => SearchGood(client'[c])
    BY <1>0, <1>1, <1>4, <2>3, SearchTakesItsSteps, SearchingIsGood
  <2>6. \A e \in DOMAIN client' : client'[e].request.kind = "search" => SearchGood(client'[e])
    BY <2>4, <2>5 DEF SearchInv, Request
  <2> QED BY <1>2, <2>1, <2>2, <2>6
<1>5. ASSUME NEW j \in DOMAIN jobs, Working(j)
      PROVE  SearchInv'
  BY <1>0, <1>2, <1>3, <1>5, WorkingMeasures
<1>6. ASSUME NEW d \in DOMAIN documents, Cleanup(d) \/ CleanupFails(d)
      PROVE  SearchInv'
  BY <1>0, <1>2, <1>3, <1>6, CleanupMeasures
<1>7. CASE UNCHANGED vars
  <2>1. UNCHANGED <<technique, documents, jobs, segments, vectors, client, mixed>>
    BY <1>7 DEF vars
  <2>2. MeasuresOK' /\ VectorsOK' /\ SegmentsGrow
    BY <1>0, <2>1 DEF MeasuresOK, VectorsOK, SegmentsGrow, SegmentGrows
  <2> QED BY <1>2, <1>3, <2>1, <2>2
<1> QED BY <1>4, <1>5, <1>6, <1>7 DEF Next, ClientStep

\* The segments the system starts with are measured.
LEMMA FirstMeasures ==
    ASSUME NEW s \in Scenarios
    PROVE  LET staged == Together({Staging(1, 1, d, SourceItems[s.documents[d].hash], TRUE) :
                                       d \in DOMAIN s.documents})
           IN  IsFiniteSet(DOMAIN staged) /\ \A id \in DOMAIN staged : NewRow(id, staged[id], TRUE)
<1> DEFINE rows(d) == Staging(1, 1, d, SourceItems[s.documents[d].hash], TRUE)
           parts == {rows(d) : d \in DOMAIN s.documents}
           at == [d \in DOMAIN s.documents |-> rows(d)]
<1>1. ASSUME NEW d \in DOMAIN s.documents
      PROVE  IsFiniteSet(DOMAIN rows(d)) /\ \A id \in DOMAIN rows(d) : NewRow(id, rows(d)[id], TRUE)
  <2> DEFINE items == SourceItems[s.documents[d].hash]
  <2>1. IsSeq(items) /\ \A i \in DOMAIN items : Measured(items[i])
    BY KnowledgeBaseAssumption DEF IsSeq
  <2> HIDE DEF items
  <2>2. /\ IsFiniteSet(DOMAIN Staging(1, 1, d, items, TRUE))
        /\ \A id \in DOMAIN Staging(1, 1, d, items, TRUE) :
               NewRow(id, Staging(1, 1, d, items, TRUE)[id], TRUE)
    BY <2>1, StagingMeasures
  <2> QED BY <2>2 DEF items
<1>2. IsFiniteSet(DOMAIN at)
  BY KnowledgeBaseAssumption
<1>3. DOMAIN at = DOMAIN s.documents /\ parts = {at[d] : d \in DOMAIN at}
      /\ \A d \in DOMAIN s.documents : at[d] = rows(d)
  OBVIOUS
<1> HIDE DEF rows, at, parts
<1>4. /\ IsFiniteSet(DOMAIN Together(parts))
      /\ \A id \in DOMAIN Together(parts) : NewRow(id, Together(parts)[id], TRUE)
  BY <1>1, <1>2, <1>3, TogetherMeasures
<1> QED BY <1>4 DEF parts, rows

\* The invariant of searches holds in the beginning.
LEMMA SearchInit == ASSUME Init PROVE SearchInv
<1>1. PICK s \in Scenarios :
          LET present == DOMAIN s.documents
              staged == Together({Staging(1, 1, d, SourceItems[s.documents[d].hash], TRUE) :
                                      d \in present})
          IN  /\ technique = s.technique
              /\ documents = [d \in present |-> Row(s.documents[d])]
              /\ jobs = IF present = {} THEN <<>>
                        ELSE <<[full |-> TRUE, documents |-> present, target |-> 1, version |-> 0,
                                items |-> <<>>, row |-> "completed", status |-> "completed",
                                due |-> FALSE]>>
              /\ segments = [id \in DOMAIN staged |->
                               [staged[id] EXCEPT !.status = "completed",
                                                  !.keyed = staged[id].type # "parent"]]
              /\ vectors = IF s.technique = "economy" THEN {}
                           ELSE {id \in DOMAIN staged : staged[id].type # "parent"}
              /\ client = [c \in DOMAIN s.requests |-> Begun(s.requests[c])]
  BY DEF Init
<1> DEFINE present == DOMAIN s.documents
           staged == Together({Staging(1, 1, d, SourceItems[s.documents[d].hash], TRUE) :
                                   d \in present})
           first == [full |-> TRUE, documents |-> present, target |-> 1, version |-> 0,
                     items |-> <<>>, row |-> "completed", status |-> "completed", due |-> FALSE]
<1>2. \A id \in DOMAIN staged :
          (\E d \in present : StagedRow(1, 1, d, id, staged[id])) /\ staged[id].ready
  BY FirstSegments
<1>3. IsFiniteSet(DOMAIN staged) /\ \A id \in DOMAIN staged : NewRow(id, staged[id], TRUE)
  BY FirstMeasures
<1>4. /\ segments = [id \in DOMAIN staged |->
                       [staged[id] EXCEPT !.status = "completed",
                                          !.keyed = staged[id].type # "parent"]]
      /\ vectors = IF s.technique = "economy" THEN {}
                   ELSE {id \in DOMAIN staged : staged[id].type # "parent"}
      /\ DOMAIN documents = present
      /\ present = {} => jobs = <<>>
      /\ present # {} => jobs = <<first>>
  BY <1>1
<1>6. IsFiniteSet(DOMAIN documents) /\ technique \in {"high_quality", "economy"}
      /\ technique = s.technique
  BY <1>1, KnowledgeBaseAssumption
<1> HIDE DEF staged, present, first
<1>5. \A j \in DOMAIN jobs : jobs[j].version = 0
  <2>1. CASE present = {}
    <3>1. jobs = <<>>
      BY <1>4, <2>1
    <3> QED BY <3>1
  <2>2. CASE present # {}
    <3>1. jobs = <<first>>
      BY <1>4, <2>2
    <3>2. DOMAIN jobs = {1} /\ jobs[1] = first
      BY <3>1
    <3>3. first.version = 0
      BY DEF first
    <3> QED BY <3>2, <3>3
  <2> QED BY <2>1, <2>2
<1>7. DOMAIN segments = DOMAIN staged
      /\ \A id \in DOMAIN segments :
             /\ segments[id].type = staged[id].type /\ segments[id].semantic = staged[id].semantic
             /\ segments[id].keyword = staged[id].keyword
             /\ staged[id].type = "parent" => ~segments[id].keyed
             /\ segments[id].ready
  <2>1. ASSUME NEW id \in DOMAIN staged
        PROVE  /\ segments[id].type = staged[id].type /\ segments[id].semantic = staged[id].semantic
               /\ segments[id].keyword = staged[id].keyword
               /\ staged[id].type = "parent" => ~segments[id].keyed
               /\ segments[id].ready
    <3>1. PICK d \in present : StagedRow(1, 1, d, id, staged[id])
      BY <1>2
    <3>2. PICK row : row = staged[id]
      OBVIOUS
    <3>3. PICK keyed \in BOOLEAN : keyed = (row.type # "parent")
      OBVIOUS
    <3>4. PICK new : new = [row EXCEPT !.status = "completed", !.keyed = keyed]
      OBVIOUS
    <3>5. segments[id] = new
      BY <1>4, <3>2, <3>3, <3>4
    <3>6. StagedRow(1, 1, d, id, row) /\ row.ready
      BY <1>2, <3>1, <3>2
    <3>7. /\ new.type = row.type /\ new.semantic = row.semantic /\ new.keyword = row.keyword
          /\ new.keyed = keyed /\ new.ready = row.ready
      BY ONLY <3>4, <3>6 DEF StagedRow, SegmentFields
    <3> QED BY <3>2, <3>3, <3>5, <3>6, <3>7
  <2> QED BY <1>4, <2>1
<1>8. MeasuresOK
  BY <1>3, <1>5, <1>6, <1>7 DEF MeasuresOK, NewRow
<1>9. VectorsOK
  <2>1. vectors = IF technique = "economy" THEN {}
                  ELSE {id \in DOMAIN staged : staged[id].type # "parent"}
    BY <1>4, <1>6
  <2>2. technique = "economy" => vectors = {}
    BY ONLY <2>1
  <2>3. \A id \in vectors : id \in DOMAIN staged /\ staged[id].type # "parent"
    BY ONLY <2>1
  <2>4. technique = "high_quality" =>
            \A id \in DOMAIN staged : staged[id].type # "parent" => id \in vectors
    BY ONLY <2>1
  <2> QED BY ONLY <1>6, <1>7, <2>2, <2>3, <2>4 DEF VectorsOK
<1>10. ASSUME NEW c \in DOMAIN client, Request(c).kind = "search"
       PROVE  SearchGood(client[c])
  <2>1. PICK request : request = s.requests[c]
    OBVIOUS
  <2>2. client[c] = Begun(request)
    BY <1>1, <2>1
  <2>3. PICK t : t = client[c]
    OBVIOUS
  <2>4. /\ t.request = request /\ t.pc = Entry[request.kind] /\ t.index = 0 /\ t.semantic = <<>>
        /\ t.keyword = <<>> /\ t.steady = {} /\ t.answer = <<>>
    BY <2>2, <2>3 DEF Begun
  <2>5. t.pc = "index"
    BY <1>10, <2>3, <2>4 DEF Request, Entry
  <2>6. SearchOK(t)
    BY <2>4, <2>5 DEF SearchOK
  <2>7. ShowsOneVersion(t) /\ MissesNothing(t)
    BY <2>5 DEF ShowsOneVersion, MissesNothing, AnsweredBy
  <2> QED BY <2>3, <2>6, <2>7 DEF SearchGood
<1> QED BY <1>8, <1>9, <1>10 DEF SearchInv

\* What searches have found and answer keeps its promises, for any scenario.
THEOREM SearchInvariance == Spec => []SearchInv
<1>1. Init => SearchInv
  BY SearchInit
<1>2. (StorageInv /\ BuildInv /\ RevisionInv) /\ SearchInv /\ [Next]_vars => SearchInv'
  BY SearchStep
<1> QED BY <1>1, <1>2, KnowledgeBaseInvariance, PTL DEF Spec

\* Whatever else happens while a search runs, what it answers of a document is of one
\* build, each item with the context of the same, and no context twice.
THEOREM AnswersAreOfOneVersion == Spec => []AnswersShowOneVersion
<1>1. SearchInv => AnswersShowOneVersion
  <2>1. \A c \in DOMAIN client : Request(c).kind # "search" => ShowsOneVersion(client[c])
    BY DEF ShowsOneVersion, AnsweredBy, Request
  <2> QED BY <2>1, EachAnswer DEF SearchInv, SearchGood
<1> QED BY <1>1, SearchInvariance, PTL

\* A search that answers less than it was asked for has missed nothing that was there
\* all along, unless the vector store had more to offer.
THEOREM ShortAnswersMissNothing == Spec => []ShortAnswersAreComplete
<1>1. SearchInv => ShortAnswersAreComplete
  <2>1. \A c \in DOMAIN client : Request(c).kind # "search" => MissesNothing(client[c])
    BY DEF MissesNothing, AnsweredBy, Request
  <2> QED BY <2>1, EachAnswer DEF SearchInv, SearchGood
<1> QED BY <1>1, SearchInvariance, PTL
================================================================================
