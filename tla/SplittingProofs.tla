--------------------------- MODULE SplittingProofs ----------------------------
(***************************************************************************)
(* Lists and folds, and what the parts of the segmenter do with them: a    *)
(* text is cut into ranges, blocks become sources and groups, and a piece  *)
(* of a source becomes a segment.                                          *)
(***************************************************************************)
EXTENDS Segmentation, FiniteSetTheorems, NaturalsInduction, WellFoundedInduction, TLAPS

\* A set of numbers that is not empty has a least element.
LEMMA LeastElement ==
    ASSUME NEW T \in SUBSET Nat, T # {}
    PROVE  \E n \in T : \A m \in T : n <= m
PROOF
<1>1. IsWellFoundedOn(OpToRel(<, Nat), Nat)
  BY NatLessThanWellFounded
<1>2. \E x \in T : \A y \in T : ~(<<y, x>> \in OpToRel(<, Nat))
  BY <1>1, WFMin
<1>3. PICK n \in T : \A m \in T : ~(<<m, n>> \in OpToRel(<, Nat))
  BY <1>2
<1>4. \A m \in T : ~(m < n)
  BY <1>3 DEF OpToRel
<1> QED BY <1>4

\* Induction over a set of numbers.
LEMMA SetInduction ==
    ASSUME NEW S, 0 \in S, \A n \in Nat : n \in S => n + 1 \in S
    PROVE  \A n \in Nat : n \in S
<1> DEFINE Missing == Nat \ S
<1> SUFFICES ASSUME Missing # {} PROVE FALSE
  OBVIOUS
<1>1. PICK n \in Missing : \A m \in Missing : n <= m
  <2>1. Missing \in SUBSET Nat
    OBVIOUS
  <2> HIDE DEF Missing
  <2> QED BY <2>1, LeastElement
<1>2. n - 1 \in Nat /\ n - 1 \notin Missing
  BY <1>1
<1> QED BY <1>1, <1>2

\* The greatest element of a set that has one.
LEMMA MaxIs ==
    ASSUME NEW S \in SUBSET Int, NEW n \in S, \A m \in S : m <= n
    PROVE  Max(S) = n
<1>1. \E x \in S : \A y \in S : x >= y
  OBVIOUS
<1>2. Max(S) \in S /\ \A m \in S : Max(S) >= m
  BY ONLY <1>1 DEF Max
<1>3. Max(S) \in Int /\ n \in Int
  BY <1>2
<1> QED BY <1>2, <1>3

\* The least element of a set of integers.
LEMMA MinIs ==
    ASSUME NEW S \in SUBSET Int, NEW n \in S, \A m \in S : n <= m
    PROVE  Min(S) = n
<1>1. \E x \in S : \A y \in S : x <= y
  OBVIOUS
<1>2. Min(S) \in S /\ \A m \in S : Min(S) <= m
  BY ONLY <1>1 DEF Min
<1>3. Min(S) \in Int /\ n \in Int
  BY <1>2
<1> QED BY <1>2, <1>3

\* The smaller of two numbers.
LEMMA MinOfTwo ==
    ASSUME NEW a \in Int, NEW b \in Int
    PROVE  Min({a, b}) = IF a <= b THEN a ELSE b
<1> DEFINE both == {a, b}
<1>1. both \in SUBSET Int /\ a \in both /\ b \in both /\ \A m \in both : m = a \/ m = b
  OBVIOUS
<1> HIDE DEF both
<1>2. a <= b => Min(both) = a
  BY <1>1, MinIs
<1>3. ~(a <= b) => Min(both) = b
  BY <1>1, MinIs
<1> QED BY <1>2, <1>3 DEF both

\* The greatest of some of the numbers up to n.
LEMMA MaxBelow == 
    ASSUME NEW n \in Nat, NEW s \in SUBSET (0 .. n), s # {}
    PROVE  Max(s) \in s /\ \A m \in s : m <= Max(s)
<1> DEFINE T == {n - m : m \in s}
<1>1. PICK t \in T : \A u \in T : t <= u
  <2>1. \A m \in s : n - m \in Nat
    OBVIOUS
  <2>2. T \in SUBSET Nat
    BY <2>1
  <2>3. T # {}
    OBVIOUS
  <2> HIDE DEF T
  <2> QED BY <2>2, <2>3, LeastElement
<1>2. PICK m \in s : t = n - m
  BY <1>1
<1>3. \A k \in s : k <= m
  BY <1>1, <1>2
<1>4. Max(s) = m
  <2>1. s \in SUBSET Int
    OBVIOUS
  <2> QED BY <1>3, <2>1, MaxIs
<1> QED BY <1>2, <1>3, <1>4

\* The greatest of some of the numbers up to n.
LEMMA MaxOfInitial ==
    ASSUME NEW n \in Nat, NEW s \in SUBSET (1 .. n), s # {}
    PROVE  Max(s) \in s /\ \A m \in s : m <= Max(s)
<1>1. s \in SUBSET (0 .. n)
  OBVIOUS
<1> QED BY <1>1, MaxBelow

\* What a fold does at each of n positions to an accumulator of A.
StepsOf(A, n) == [1 .. n -> [A -> A]]

FoldOver(iter, base, step, n) ==
    [s \in SUBSET (1 .. n) |-> IF s = {} THEN base ELSE step[Max(s)][iter[s \ {Max(s)}]]]

\* A function that solves the recursion of a fold with values in A.
FoldSolution(iter, A, base, step, n) ==
    iter \in [SUBSET (1 .. n) -> A] /\ iter = FoldOver(iter, base, step, n)

\* The accumulators of a fold, one position after the other.
FoldTrace(g, A, base, step, n) ==
    /\ g \in [0 .. n -> A] /\ g[0] = base
    /\ \A i \in 1 .. n : g[i - 1] \in A /\ g[i] \in A /\ g[i] = step[i][g[i - 1]]

\* iter computes the fold of step as long as it meets accumulators of A.
Computes(iter, A, base, step, n) ==
    /\ iter[{}] = base
    /\ \A s \in SUBSET (1 .. n) : s # {} /\ iter[s \ {Max(s)}] \in A
           => iter[s] = step[Max(s)][iter[s \ {Max(s)}]]

\* The recursion of a fold over the positions of a sequence has a solution,
\* and its values are accumulators.
LEMMA FoldExists ==
    ASSUME NEW A, NEW base \in A, NEW n \in Nat, NEW step \in StepsOf(A, n)
    PROVE  \E iter : FoldSolution(iter, A, base, step, n)
<1> USE DEF StepsOf
<1> DEFINE Right(iter, m) == iter \in [SUBSET (1 .. m) -> A] /\ iter = FoldOver(iter, base, step, m)
           S == {m \in Nat : m <= n => \E iter : Right(iter, m)}
<1>1. 0 \in S
  <2> DEFINE none == [s \in SUBSET (1 .. 0) |-> base]
  <2>1. \A s \in SUBSET (1 .. 0) : s = {}
    OBVIOUS
  <2>2. Right(none, 0)
    BY <2>1 DEF FoldOver
  <2> HIDE DEF Right, none
  <2> QED BY <2>2
<1>2. ASSUME NEW m \in Nat, m \in S PROVE m + 1 \in S
  <2> SUFFICES ASSUME m + 1 <= n PROVE \E iter : Right(iter, m + 1)
    <3> HIDE DEF Right
    <3> QED OBVIOUS
  <2>1. PICK f : Right(f, m)
    <3> HIDE DEF Right
    <3> QED BY <1>2
  <2> DEFINE g == [s \in SUBSET (1 .. m + 1) |->
                     IF s \subseteq 1 .. m THEN f[s] ELSE step[m + 1][f[s \ {m + 1}]]]
  <2>2. \A s \in SUBSET (1 .. m) : f[s] \in A /\ g[s] = f[s]
    BY <2>1
  <2>3. \A s \in SUBSET (1 .. m + 1) : s \ {m + 1} \in SUBSET (1 .. m)
    OBVIOUS
  <2>4. step[m + 1] \in [A -> A]
    OBVIOUS
  <2>5. g \in [SUBSET (1 .. m + 1) -> A]
    BY <2>2, <2>3, <2>4
  <2>6. ASSUME NEW s \in SUBSET (1 .. m + 1)
        PROVE  g[s] = IF s = {} THEN base ELSE step[Max(s)][g[s \ {Max(s)}]]
    <3>1. CASE s \subseteq 1 .. m
      <4>1. f[s] = IF s = {} THEN base ELSE step[Max(s)][f[s \ {Max(s)}]]
        BY <2>1, <3>1 DEF FoldOver
      <4>2. s \ {Max(s)} \in SUBSET (1 .. m)
        BY <3>1
      <4> HIDE DEF g
      <4> QED BY <4>1, <4>2, <2>2, <3>1
    <3>2. CASE ~(s \subseteq 1 .. m)
      <4>1. m + 1 \in s /\ \A k \in s : k <= m + 1
        BY <3>2
      <4>2. Max(s) = m + 1
        <5>1. s \in SUBSET Int
          OBVIOUS
        <5> QED BY <4>1, <5>1, MaxIs
      <4>3. g[s] = step[m + 1][f[s \ {m + 1}]]
        BY <3>2
      <4>4. g[s \ {m + 1}] = f[s \ {m + 1}]
        BY <2>2, <2>3
      <4> HIDE DEF g
      <4> QED BY <4>1, <4>2, <4>3, <4>4
    <3> QED BY <3>1, <3>2
  <2>7. Right(g, m + 1)
    <3>1. g = FoldOver(g, base, step, m + 1)
      <4> DEFINE h == FoldOver(g, base, step, m + 1)
      <4>1. DOMAIN g = SUBSET (1 .. m + 1)
        OBVIOUS
      <4>2. DOMAIN h = SUBSET (1 .. m + 1) /\ h = [s \in DOMAIN h |-> h[s]]
        BY DEF FoldOver
      <4>3. \A s \in SUBSET (1 .. m + 1) : h[s] = IF s = {} THEN base
              ELSE step[Max(s)][g[s \ {Max(s)}]]
        BY DEF FoldOver
      <4>4. g = [s \in DOMAIN g |-> g[s]]
        OBVIOUS
      <4> HIDE DEF g, h
      <4>5. \A s \in SUBSET (1 .. m + 1) : g[s] = h[s]
        BY <2>6, <4>3
      <4>6. g = h
        BY <4>1, <4>2, <4>4, <4>5
      <4> QED BY <4>6 DEF h
    <3> HIDE DEF g
    <3> QED BY <2>5, <3>1
  <2> HIDE DEF Right, g
  <2> QED BY <2>7
<1>3. \A m \in Nat : m \in S
  <2> HIDE DEF S
  <2> QED BY <1>1, <1>2, SetInduction
<1>4. PICK iter : Right(iter, n)
  <2> HIDE DEF Right
  <2> QED BY <1>3
<1>5. FoldSolution(iter, A, base, step, n)
  BY <1>4 DEF FoldSolution
<1> QED BY <1>5

\* What an initial part of a fold has gathered.
LEMMA InitialPart ==
    ASSUME NEW n \in Nat, NEW i \in 1 .. n
    PROVE  1 .. i \in SUBSET (1 .. n) /\ 1 .. i # {} /\ Max(1 .. i) = i
             /\ (1 .. i) \ {i} = 1 .. i - 1
<1>1. 1 .. i \in SUBSET Int /\ i \in 1 .. i /\ \A m \in 1 .. i : m <= i
  OBVIOUS
<1>2. Max(1 .. i) = i
  BY ONLY <1>1, MaxIs
<1> QED BY <1>2

\* A property of the start that every step keeps holds at the end.
LEMMA KeptByAll ==
    ASSUME NEW n \in Nat, NEW Good, 0 \in Good,
           \A i \in 1 .. n : i - 1 \in Good => i \in Good
    PROVE  \A i \in 0 .. n : i \in Good
<1> DEFINE S == {m \in Nat : m <= n => m \in Good}
<1>1. 0 \in S
  OBVIOUS
<1>2. \A m \in Nat : m \in S => m + 1 \in S
  <2> SUFFICES ASSUME NEW m \in Nat, m \in S, m + 1 <= n PROVE m + 1 \in Good
    OBVIOUS
  <2>1. m + 1 \in 1 .. n /\ (m + 1) - 1 = m /\ m \in Good
    OBVIOUS
  <2> QED BY <2>1
<1>3. \A m \in Nat : m \in S
  <2> HIDE DEF S
  <2> QED BY <1>1, <1>2, SetInduction
<1> QED BY <1>3

\* A fold goes through its accumulators one position after the other.
LEMMA FoldSteps ==
    ASSUME NEW A, NEW base \in A, NEW n \in Nat, NEW step \in StepsOf(A, n),
           NEW iter, Computes(iter, A, base, step, n)
    PROVE  \E g : FoldTrace(g, A, base, step, n) /\ g[n] = iter[1 .. n]
<1> USE DEF StepsOf, Computes
<1> DEFINE g == [i \in 0 .. n |-> iter[1 .. i]]
           Good == {i \in 0 .. n : g[i] \in A}
<1>1. 1 .. 0 = {} /\ g[0] = base /\ g[n] = iter[1 .. n]
  OBVIOUS
<1>2. ASSUME NEW i \in 1 .. n, g[i - 1] \in A
      PROVE  g[i] = step[i][g[i - 1]] /\ g[i] \in A
  <2>1. 1 .. i \in SUBSET (1 .. n) /\ 1 .. i # {} /\ Max(1 .. i) = i /\ (1 .. i) \ {i} = 1 .. i - 1
    BY InitialPart
  <2>2. g[i - 1] = iter[1 .. i - 1] /\ g[i] = iter[1 .. i]
    OBVIOUS
  <2>3. step[i] \in [A -> A]
    OBVIOUS
  <2> HIDE DEF g
  <2>4. iter[1 .. i] = step[i][iter[1 .. i - 1]]
    BY <1>2, <2>1, <2>2
  <2> QED BY <1>2, <2>2, <2>3, <2>4
<1>3. \A i \in 0 .. n : i \in Good
  <2>1. 0 \in Good
    BY <1>1
  <2>2. ASSUME NEW i \in 1 .. n, i - 1 \in Good PROVE i \in Good
    <3>1. g[i - 1] \in A /\ i \in 0 .. n
      BY <2>2
    <3>2. g[i] \in A
      BY <3>1, <1>2
    <3> HIDE DEF g
    <3> QED BY <3>1, <3>2
  <2> HIDE DEF Good
  <2> QED BY <2>1, <2>2, KeptByAll
<1>4. g \in [0 .. n -> A]
  BY <1>3
<1>5. \A i \in 1 .. n : g[i] = step[i][g[i - 1]]
  <2> SUFFICES ASSUME NEW i \in 1 .. n PROVE g[i] = step[i][g[i - 1]]
    OBVIOUS
  <2>1. i - 1 \in 0 .. n
    OBVIOUS
  <2>2. g[i - 1] \in A
    BY <2>1, <1>4
  <2> QED BY <2>2, <1>2
<1>6. \A i \in 1 .. n : g[i - 1] \in A /\ g[i] \in A
  BY <1>4
<1> HIDE DEF g
<1>7. FoldTrace(g, A, base, step, n)
  BY <1>1, <1>4, <1>5, <1>6 DEF FoldTrace
<1> QED BY <1>1, <1>7

\* The set of the accumulators of a sum.
Sums == Nat

\* Short tuples are sequences of their elements.
LEMMA OneIsSeq ==
    ASSUME NEW T, NEW x, x \in T
    PROVE  <<x>> \in Seq(T) /\ Len(<<x>>) = 1
OBVIOUS

\* Short tuples are sequences of their elements.
LEMMA TwoIsSeq ==
    ASSUME NEW T, NEW x, NEW y, x \in T, y \in T
    PROVE  <<x, y>> \in Seq(T) /\ Len(<<x, y>>) = 2
OBVIOUS

\* Joining two sequences gives one with the elements of both.
LEMMA JoinIsSeq ==
    ASSUME NEW T, NEW s, NEW t, s \in Seq(T), t \in Seq(T)
    PROVE  /\ s \o t \in Seq(T) /\ Len(s \o t) = Len(s) + Len(t) /\ Len(s) \in Nat /\ Len(t) \in Nat
           /\ \A i \in 1 .. Len(s) : (s \o t)[i] = s[i]
           /\ \A i \in 1 .. Len(t) : (s \o t)[Len(s) + i] = t[i]
<1>1. Len(s) \in Nat /\ Len(t) \in Nat /\ s \o t \in Seq(T) /\ Len(s \o t) = Len(s) + Len(t)
  OBVIOUS
<1>2. \A i \in 1 .. Len(s) : (s \o t)[i] = s[i]
  OBVIOUS
<1>3. \A i \in 1 .. Len(t) : (s \o t)[Len(s) + i] = t[i]
  OBVIOUS
<1> QED BY <1>1, <1>2, <1>3

\* Adding an element at the end.
LEMMA AppendIsSeq ==
    ASSUME NEW T, NEW s, NEW x, s \in Seq(T), x \in T
    PROVE  /\ Append(s, x) \in Seq(T) /\ Len(s) \in Nat /\ Len(Append(s, x)) = Len(s) + 1
           /\ Append(s, x)[Len(s) + 1] = x /\ \A i \in 1 .. Len(s) : Append(s, x)[i] = s[i]
OBVIOUS

\* A part of a sequence.
LEMMA SliceIsSeq ==
    ASSUME NEW T, NEW s, NEW i, NEW j, s \in Seq(T), i \in 1 .. Len(s) + 1, j \in i - 1 .. Len(s)
    PROVE  /\ SubSeq(s, i, j) \in Seq(T) /\ Len(SubSeq(s, i, j)) = j - i + 1
           /\ \A k \in 1 .. j - i + 1 : SubSeq(s, i, j)[k] = s[i + k - 1]
OBVIOUS

\* A function that is defined step by step exists, with values in A.
LEMMA RecursionExists ==
    ASSUME NEW A, NEW base \in A, NEW n \in Nat, NEW step \in StepsOf(A, n)
    PROVE  \E g : FoldTrace(g, A, base, step, n)
<1>1. PICK iter : FoldSolution(iter, A, base, step, n)
  BY FoldExists
<1>2. \A s \in SUBSET (1 .. n) : s # {} => iter[s] = step[Max(s)][iter[s \ {Max(s)}]]
  BY ONLY <1>1 DEF FoldSolution, FoldOver
<1>3. iter[{}] = base
  BY ONLY <1>1 DEF FoldSolution, FoldOver
<1>4. Computes(iter, A, base, step, n)
  BY ONLY <1>2, <1>3 DEF Computes
<1> QED BY ONLY <1>4, FoldSteps, base \in A, n \in Nat, step \in StepsOf(A, n)

\* Which of the first n items were kept: at gives their positions.
PicksUpTo(at, kept, s, positions, n) ==
    /\ at \in [1 .. Len(kept) -> 1 .. n]
    /\ \A k \in 1 .. Len(kept) : kept[k] = s[at[k]] /\ at[k] \in positions
    /\ \A k, l \in 1 .. Len(kept) : k < l => at[k] < at[l]
    /\ \A i \in 1 .. n : i \in positions => \E k \in 1 .. Len(kept) : at[k] = i

\* One more item that passes the positions.
LEMMA PickOneMore ==
    ASSUME NEW S, NEW s \in Seq(S), NEW positions, NEW i \in 1 .. Len(s), NEW kept \in Seq(S),
             NEW at,
           PicksUpTo(at, kept, s, positions, i - 1), i \in positions
    PROVE  \E b : PicksUpTo(b, Append(kept, s[i]), s, positions, i)
<1>1. PICK more : more = Append(kept, s[i])
  OBVIOUS
<1>2. PICK m \in Nat : m = Len(kept)
  OBVIOUS
<1>3. /\ Len(more) = m + 1 /\ more[m + 1] = s[i]
      /\ \A k \in 1 .. m : more[k] = kept[k]
  BY <1>1, <1>2, AppendIsSeq, s[i] \in S
<1>4. /\ at \in [1 .. m -> 1 .. i - 1]
      /\ \A k \in 1 .. m : kept[k] = s[at[k]] /\ at[k] \in positions
      /\ \A k, l \in 1 .. m : k < l => at[k] < at[l]
      /\ \A j \in 1 .. i - 1 : j \in positions => \E k \in 1 .. m : at[k] = j
  BY <1>2 DEF PicksUpTo
<1> DEFINE b == [k \in 1 .. m + 1 |-> IF k = m + 1 THEN i ELSE at[k]]
<1>5. \A k \in 1 .. m + 1 : k = m + 1 \/ k \in 1 .. m
  OBVIOUS
<1>6. /\ b[m + 1] = i /\ \A k \in 1 .. m : b[k] = at[k] /\ at[k] \in 1 .. i - 1
  BY <1>4
<1>7. b \in [1 .. m + 1 -> 1 .. i]
  BY <1>4
<1> HIDE DEF b
<1>8. \A k \in 1 .. m + 1 : more[k] = s[b[k]] /\ b[k] \in positions
  BY <1>3, <1>4, <1>5, <1>6
<1>9. \A k, l \in 1 .. m + 1 : k < l => b[k] < b[l]
  <2> SUFFICES ASSUME NEW k \in 1 .. m + 1, NEW l \in 1 .. m + 1, k < l PROVE b[k] < b[l]
    OBVIOUS
  <2>1. k \in 1 .. m
    OBVIOUS
  <2>2. CASE l = m + 1
    BY <1>6, <2>1, <2>2
  <2>3. CASE l \in 1 .. m
    BY <1>4, <1>6, <2>1, <2>3
  <2> QED BY <1>5, <2>2, <2>3
<1>10. \A j \in 1 .. i : j \in positions => \E k \in 1 .. m + 1 : b[k] = j
  <2> SUFFICES ASSUME NEW j \in 1 .. i, j \in positions PROVE \E k \in 1 .. m + 1 : b[k] = j
    OBVIOUS
  <2>1. CASE j = i
    BY <1>6, <2>1
  <2>2. CASE j # i
    <3>1. PICK k \in 1 .. m : at[k] = j
      BY <1>4, <2>2
    <3>2. k \in 1 .. m + 1 /\ b[k] = j
      BY <1>6, <3>1
    <3> QED BY <3>2
  <2> QED BY <2>1, <2>2
<1>11. PicksUpTo(b, more, s, positions, i)
  BY ONLY <1>3, <1>7, <1>8, <1>9, <1>10 DEF PicksUpTo
<1> QED BY <1>1, <1>11

\* What is kept is a selection of the items, in their order, and holds every
\* one that passes the positions.
LEMMA KeptIs ==
    ASSUME NEW S, NEW s \in Seq(S), NEW positions
    PROVE  /\ Kept(s, positions) \in Seq(S)
           /\ \E at : PicksUpTo(at, Kept(s, positions), s, positions, Len(s))
<1>1. PICK n \in Nat : n = Len(s)
  OBVIOUS
<1>2. \A i \in 1 .. n : s[i] \in S
  BY <1>1
<1> DEFINE A == Seq(S)
           step == [i \in 1 .. n |-> [a \in A |-> IF i \in positions THEN Append(a, s[i]) ELSE a]]
           Solves(f) == f = [i \in 0 .. n |-> IF i = 0 THEN <<>>
                             ELSE IF i \in positions THEN Append(f[i - 1], s[i]) ELSE f[i - 1]]
<1>3. Kept(s, positions) = (CHOOSE f : Solves(f))[n]
  BY <1>1 DEF Kept
<1>4. \E f : Solves(f)
  <2>1. \A i \in 1 .. n : \A a \in A : (IF i \in positions THEN Append(a, s[i]) ELSE a) \in A
    BY <1>2, AppendIsSeq
  <2> HIDE DEF A
  <2>2. step \in StepsOf(A, n)
    BY <2>1 DEF StepsOf
  <2>3. <<>> \in A
    BY DEF A
  <2> HIDE DEF step
  <2>4. PICK g : FoldTrace(g, A, <<>>, step, n)
    BY ONLY <2>2, <2>3, RecursionExists, n \in Nat
  <2>5. /\ g = [i \in 0 .. n |-> g[i]] /\ g[0] = <<>>
        /\ \A i \in 1 .. n : g[i - 1] \in A /\ g[i] = step[i][g[i - 1]]
    BY <2>4 DEF FoldTrace
  <2>6. \A i \in 1 .. n : g[i] = IF i \in positions THEN Append(g[i - 1], s[i]) ELSE g[i - 1]
    BY <2>5 DEF step
  <2>7. \A i \in 0 .. n : g[i] = IF i = 0 THEN <<>>
                             ELSE IF i \in positions THEN Append(g[i - 1], s[i]) ELSE g[i - 1]
    BY ONLY <2>5, <2>6, n \in Nat, SMTT(30)
  <2>8. Solves(g)
    BY ONLY <2>5, <2>7
  <2> HIDE DEF Solves
  <2> QED BY <2>8
<1>5. PICK f : Solves(f) /\ Kept(s, positions) = f[n]
  <2> HIDE DEF Solves
  <2> QED BY <1>3, <1>4
<1>6. f[0] = <<>> /\ \A i \in 1 .. n : f[i] = IF i \in positions THEN Append(f[i - 1], s[i])
        ELSE f[i - 1]
  <2>1. \A i \in 1 .. n : i \in 0 .. n /\ i # 0
    OBVIOUS
  <2>2. \A i \in 0 .. n : f[i] = IF i = 0 THEN <<>>
                             ELSE IF i \in positions THEN Append(f[i - 1], s[i]) ELSE f[i - 1]
    BY ONLY <1>5
  <2>3. 0 \in 0 .. n
    OBVIOUS
  <2> QED BY ONLY <2>1, <2>2, <2>3
<1> HIDE DEF Solves
<1> DEFINE Right(i) == f[i] \in Seq(S) /\ \E at : PicksUpTo(at, f[i], s, positions, i)
           Good == {i \in 0 .. n : Right(i)}
<1>7. 0 \in Good
  <2> DEFINE none == [k \in 1 .. 0 |-> 1]
  <2>1. f[0] \in Seq(S) /\ Len(f[0]) = 0
    BY <1>6
  <2>2. PicksUpTo(none, f[0], s, positions, 0)
    <3>1. none \in [1 .. 0 -> 1 .. 0]
      OBVIOUS
    <3> HIDE DEF none
    <3> QED BY <2>1, <3>1 DEF PicksUpTo
  <2> HIDE DEF none
  <2> QED BY <2>1, <2>2
<1>8. ASSUME NEW i \in 1 .. n, i - 1 \in Good PROVE i \in Good
  <2>1. f[i - 1] \in Seq(S) /\ s[i] \in S
    BY <1>2, <1>8
  <2>2. PICK at : PicksUpTo(at, f[i - 1], s, positions, i - 1)
    BY <1>8
  <2>3. CASE i \in positions
    <3>1. f[i] = Append(f[i - 1], s[i]) /\ f[i] \in Seq(S)
      <4>1. f[i] = Append(f[i - 1], s[i])
        BY ONLY <1>6, <2>3, i \in 1 .. n
      <4>2. Append(f[i - 1], s[i]) \in Seq(S)
        BY ONLY <2>1, AppendIsSeq
      <4> QED BY ONLY <4>1, <4>2
    <3>2. \E b : PicksUpTo(b, f[i], s, positions, i)
      <4> HIDE DEF Good
      <4> QED BY <1>1, <2>1, <2>2, <2>3, <3>1, PickOneMore
    <3>3. Right(i)
      BY ONLY <3>1, <3>2
    <3> HIDE DEF Right
    <3> QED BY <3>3
  <2>4. CASE i \notin positions
    <3>1. f[i] = f[i - 1]
      BY <1>6, <2>4
    <3>2. PicksUpTo(at, f[i], s, positions, i)
      <4> HIDE DEF Good
      <4>1. \A j \in 1 .. i : j \in 1 .. i - 1 \/ j = i
        OBVIOUS
      <4>2. at \in [1 .. Len(f[i]) -> 1 .. i]
        BY <2>2, <3>1 DEF PicksUpTo
      <4>3. \A j \in 1 .. i : j \in positions => \E k \in 1 .. Len(f[i]) : at[k] = j
        BY <2>2, <2>4, <3>1, <4>1 DEF PicksUpTo
      <4> QED BY <2>2, <3>1, <4>2, <4>3 DEF PicksUpTo
    <3> QED BY <2>1, <3>1, <3>2
  <2> QED BY <2>3, <2>4
<1>9. \A i \in 0 .. n : i \in Good
  <2> HIDE DEF Good
  <2> QED BY ONLY <1>7, <1>8, KeptByAll, n \in Nat
<1>10. Right(n)
  BY <1>9
<1> QED BY <1>1, <1>5, <1>10

\* A sequence without items.
LEMMA EmptyIs ==
    ASSUME NEW T, NEW s \in Seq(T), Len(s) = 0
    PROVE  s = <<>>
OBVIOUS

\* The accumulators of a flattening: seqs are joined one after the other.
FlattenTrace(f, S, seqs) ==
    /\ f[0] = <<>> /\ f[Len(seqs)] = FlattenSeq(seqs)
    /\ \A i \in 0 .. Len(seqs) : f[i] \in Seq(S)
    /\ \A i \in 1 .. Len(seqs) : f[i] = f[i - 1] \o seqs[i]

\* Flattening joins the sequences one after the other.
LEMMA FlattenSteps ==
    ASSUME NEW S, NEW seqs \in Seq(Seq(S))
    PROVE  \E f : FlattenTrace(f, S, seqs)
<1>1. PICK n \in Nat : n = Len(seqs)
  OBVIOUS
<1>2. \A i \in 1 .. n : seqs[i] \in Seq(S)
  BY <1>1
<1>3. CASE n = 0
  <2> DEFINE f == [i \in 0 .. 0 |-> <<>>]
  <2>1. seqs = <<>>
    <3>1. PICK T : T = Seq(S)
      OBVIOUS
    <3>2. seqs \in Seq(T) /\ Len(seqs) = 0
      BY <1>1, <1>3, <3>1
    <3> QED BY ONLY <3>2, EmptyIs
  <2>2. FlattenSeq(seqs) = seqs
    BY <1>1, <1>3 DEF FlattenSeq
  <2>3. f[0] = <<>> /\ \A i \in 0 .. 0 : f[i] \in Seq(S)
    OBVIOUS
  <2> HIDE DEF f
  <2>4. FlattenTrace(f, S, seqs)
    BY ONLY <1>1, <1>3, <2>1, <2>2, <2>3 DEF FlattenTrace
  <2> QED BY <2>4
<1>4. CASE n # 0
  <2> DEFINE A == Seq(S)
             step == [i \in 1 .. n |-> [a \in A |-> a \o seqs[i]]]
             Solves(f) == f = [i \in 1 .. n |-> IF i = 1 THEN seqs[i] ELSE f[i - 1] \o seqs[i]]
  <2>1. FlattenSeq(seqs) = (CHOOSE f : Solves(f))[n]
    BY <1>1, <1>4 DEF FlattenSeq
  <2>2. \E f : Solves(f)
    <3>1. \A i \in 1 .. n : \A a \in A : a \o seqs[i] \in A
      BY <1>2, JoinIsSeq
    <3> HIDE DEF A
    <3>2. step \in StepsOf(A, n)
      BY <3>1 DEF StepsOf
    <3>3. <<>> \in A
      BY DEF A
    <3> HIDE DEF step
    <3>4. PICK g : FoldTrace(g, A, <<>>, step, n)
      BY ONLY <3>2, <3>3, RecursionExists, n \in Nat
    <3>5. g[0] = <<>> /\ \A i \in 1 .. n : g[i - 1] \in A /\ g[i] = step[i][g[i - 1]]
      BY ONLY <3>4 DEF FoldTrace
    <3>6. \A i \in 1 .. n : g[i] = g[i - 1] \o seqs[i]
      BY <3>5 DEF step
    <3>7. 1 \in 1 .. n /\ <<>> \o seqs[1] = seqs[1]
      BY <1>2, <1>4
    <3>8. \A i \in 1 .. n : g[i] = IF i = 1 THEN seqs[i] ELSE g[i - 1] \o seqs[i]
      <4> SUFFICES ASSUME NEW i \in 1 .. n
                   PROVE  g[i] = IF i = 1 THEN seqs[i] ELSE g[i - 1] \o seqs[i]
        OBVIOUS
      <4>1. g[i] = g[i - 1] \o seqs[i]
        BY ONLY <3>6, i \in 1 .. n
      <4>2. i = 1 => g[i - 1] = <<>>
        BY <3>5
      <4>3. i = 1 => g[i - 1] \o seqs[i] = seqs[i]
        BY ONLY <4>2, <3>7
      <4> QED BY ONLY <4>1, <4>3
    <3> DEFINE f == [i \in 1 .. n |-> g[i]]
    <3>9. \A i \in 1 .. n : i # 1 => f[i - 1] = g[i - 1]
      OBVIOUS
    <3>10. \A i \in 1 .. n : f[i] = IF i = 1 THEN seqs[i] ELSE f[i - 1] \o seqs[i]
      <4>1. \A i \in 1 .. n : f[i] = g[i]
        OBVIOUS
      <4> HIDE DEF f
      <4> QED BY ONLY <3>8, <3>9, <4>1
    <3>11. f = [i \in 1 .. n |-> f[i]]
      OBVIOUS
    <3> HIDE DEF f
    <3>12. Solves(f)
      BY ONLY <3>10, <3>11
    <3> HIDE DEF Solves
    <3> QED BY <3>12
  <2>3. PICK f : Solves(f) /\ FlattenSeq(seqs) = f[n]
    <3> HIDE DEF Solves
    <3> QED BY <2>1, <2>2
  <2>4. \A i \in 1 .. n : f[i] = IF i = 1 THEN seqs[i] ELSE f[i - 1] \o seqs[i]
    BY ONLY <2>3
  <2> HIDE DEF Solves
  <2> DEFINE h == [i \in 0 .. n |-> IF i = 0 THEN <<>> ELSE f[i]]
  <2>5. h[0] = <<>> /\ h[n] = f[n] /\ \A i \in 1 .. n : h[i] = f[i]
          /\ (i # 1 => h[i - 1] = f[i - 1])
    BY <1>4
  <2> HIDE DEF h
  <2>6. \A i \in 1 .. n : h[i] = h[i - 1] \o seqs[i]
    <3> SUFFICES ASSUME NEW i \in 1 .. n PROVE h[i] = h[i - 1] \o seqs[i]
      OBVIOUS
    <3>1. CASE i = 1
      <4>1. h[i] = seqs[i] /\ h[i - 1] = <<>>
        BY <2>4, <2>5, <3>1
      <4>2. <<>> \o seqs[i] = seqs[i]
        BY <1>2
      <4> QED BY ONLY <4>1, <4>2
    <3>2. CASE i # 1
      BY ONLY <2>4, <2>5, <3>2, i \in 1 .. n
    <3> QED BY <3>1, <3>2
  <2> DEFINE Good == {i \in 0 .. n : h[i] \in Seq(S)}
  <2>7. 0 \in Good
    <3>1. h[0] \in Seq(S)
      BY ONLY <2>5
    <3> QED BY ONLY <3>1, n \in Nat
  <2>8. ASSUME NEW i \in 1 .. n, i - 1 \in Good PROVE i \in Good
    <3>1. h[i - 1] \in Seq(S) /\ seqs[i] \in Seq(S)
      BY ONLY <1>2, <2>8
    <3>2. h[i - 1] \o seqs[i] \in Seq(S)
      BY ONLY <3>1, JoinIsSeq
    <3>3. h[i] = h[i - 1] \o seqs[i]
      BY ONLY <2>6, i \in 1 .. n
    <3>4. i \in 0 .. n
      OBVIOUS
    <3> QED BY ONLY <3>2, <3>3, <3>4
  <2>9. \A i \in 0 .. n : i \in Good
    <3> HIDE DEF Good
    <3> QED BY ONLY <2>7, <2>8, KeptByAll, n \in Nat
  <2>10. FlattenTrace(h, S, seqs)
    BY ONLY <1>1, <2>3, <2>5, <2>6, <2>9 DEF FlattenTrace
  <2> QED BY <2>10
<1> QED BY <1>3, <1>4

\* What a flattened sequence holds is what its sequences hold.
LEMMA FlattenIs ==
    ASSUME NEW S, NEW seqs \in Seq(Seq(S))
    PROVE  /\ FlattenSeq(seqs) \in Seq(S)
           /\ \A j \in 1 .. Len(FlattenSeq(seqs)) : \E i \in 1 .. Len(seqs) :
                 \E k \in 1 .. Len(seqs[i]) : FlattenSeq(seqs)[j] = seqs[i][k]
           /\ \A i \in 1 .. Len(seqs) : \A k \in 1 .. Len(seqs[i]) :
                 \E j \in 1 .. Len(FlattenSeq(seqs)) : FlattenSeq(seqs)[j] = seqs[i][k]
<1>1. PICK f : FlattenTrace(f, S, seqs)
  BY FlattenSteps
<1>2. PICK n \in Nat : n = Len(seqs)
  OBVIOUS
<1>3. /\ f[0] = <<>> /\ f[n] = FlattenSeq(seqs)
      /\ \A i \in 0 .. n : f[i] \in Seq(S)
      /\ \A i \in 1 .. n : f[i] = f[i - 1] \o seqs[i] /\ seqs[i] \in Seq(S)
  <2>1. PICK T : T = Seq(S)
    OBVIOUS
  <2>2. \A i \in 1 .. n : seqs[i] \in T
    BY ONLY <1>2, <2>1, seqs \in Seq(Seq(S))
  <2>3. \A i \in 1 .. n : f[i] = f[i - 1] \o seqs[i]
    BY ONLY <1>1, <1>2 DEF FlattenTrace
  <2>4. f[0] = <<>> /\ f[n] = FlattenSeq(seqs) /\ \A i \in 0 .. n : f[i] \in Seq(S)
    BY ONLY <1>1, <1>2 DEF FlattenTrace
  <2> QED BY ONLY <2>1, <2>2, <2>3, <2>4
<1> DEFINE FromOf(list) == \A j \in 1 .. Len(list) : \E i \in 1 .. n :
                               \E k \in 1 .. Len(seqs[i]) : list[j] = seqs[i][k]
           HasOf(list, m) == \A i \in 1 .. m : \A k \in 1 .. Len(seqs[i]) :
                                 \E j \in 1 .. Len(list) : list[j] = seqs[i][k]
           From(m) == FromOf(f[m])
           Has(m) == HasOf(f[m], m)
           Good == {m \in 0 .. n : From(m) /\ Has(m)}
<1>4. 0 \in Good
  BY <1>3
<1>5. ASSUME NEW m \in 1 .. n, m - 1 \in Good PROVE m \in Good
  <2>1. m - 1 \in 0 .. n /\ From(m - 1) /\ Has(m - 1)
    BY <1>5
  <2>2. PICK a, b : a = f[m - 1] /\ b = seqs[m]
    OBVIOUS
  <2>3. a \in Seq(S) /\ b \in Seq(S) /\ f[m] = a \o b
    BY <1>3, <2>1, <2>2
  <2>4. PICK all : all = a \o b /\ f[m] = all
    BY ONLY <2>3
  <2>5. /\ Len(all) = Len(a) + Len(b) /\ Len(a) \in Nat /\ Len(b) \in Nat
        /\ \A i \in 1 .. Len(a) : all[i] = a[i]
        /\ \A i \in 1 .. Len(b) : all[Len(a) + i] = b[i]
    BY ONLY <2>3, <2>4, JoinIsSeq
  <2>6. FromOf(all)
    <3> SUFFICES ASSUME NEW j \in 1 .. Len(all)
                 PROVE  \E i \in 1 .. n : \E k \in 1 .. Len(seqs[i]) : all[j] = seqs[i][k]
      OBVIOUS
    <3>1. CASE j <= Len(a)
      <4>1. j \in 1 .. Len(f[m - 1]) /\ all[j] = f[m - 1][j]
        <5>1. j \in 1 .. Len(a) /\ all[j] = a[j]
          BY ONLY <2>5, <3>1, j \in 1 .. Len(all)
        <5> QED BY ONLY <2>2, <5>1
      <4> QED BY <2>1, <4>1
    <3>2. CASE ~(j <= Len(a))
      <4>1. PICK k \in 1 .. Len(b) : j = Len(a) + k
        <5>1. j - Len(a) \in 1 .. Len(b) /\ j = Len(a) + (j - Len(a))
          BY <2>5, <3>2
        <5> QED BY <5>1
      <4>2. k \in 1 .. Len(seqs[m]) /\ all[j] = seqs[m][k]
        BY <2>2, <2>5, <4>1
      <4> QED BY <4>2
    <3> QED BY <3>1, <3>2
  <2>7. HasOf(all, m)
    <3> SUFFICES ASSUME NEW i \in 1 .. m, NEW k \in 1 .. Len(seqs[i])
                 PROVE  \E j \in 1 .. Len(all) : all[j] = seqs[i][k]
      OBVIOUS
    <3>1. CASE i = m
      <4>1. k \in 1 .. Len(b) /\ Len(a) + k \in 1 .. Len(all) /\ all[Len(a) + k] = seqs[i][k]
        <5>1. k \in 1 .. Len(b)
          BY ONLY <2>2, <3>1, k \in 1 .. Len(seqs[i])
        <5>2. Len(a) + k \in 1 .. Len(all) /\ all[Len(a) + k] = b[k]
          BY ONLY <2>5, <5>1
        <5> QED BY ONLY <2>2, <3>1, <5>1, <5>2
      <4> QED BY <4>1
    <3>2. CASE i # m
      <4>1. i \in 1 .. m - 1
        BY <3>2
      <4>2. PICK j \in 1 .. Len(a) : a[j] = seqs[i][k]
        BY <2>1, <2>2, <4>1
      <4>3. j \in 1 .. Len(all) /\ all[j] = a[j]
        BY <2>5
      <4> QED BY <4>2, <4>3
    <3> QED BY <3>1, <3>2
  <2>8. From(m) /\ Has(m)
    <3> HIDE DEF FromOf, HasOf
    <3> QED BY ONLY <2>4, <2>6, <2>7
  <2> HIDE DEF From, Has
  <2> QED BY <2>8
<1>6. \A m \in 0 .. n : m \in Good
  <2> HIDE DEF Good
  <2> QED BY ONLY <1>4, <1>5, KeptByAll, n \in Nat
<1>7. From(n) /\ Has(n)
  <2>1. n \in Good
    <3> HIDE DEF Good
    <3> QED BY <1>2, <1>6
  <2> QED BY <2>1
<1>8. FlattenSeq(seqs) \in Seq(S)
  <2>1. n \in 0 .. n
    BY <1>2
  <2> QED BY ONLY <1>3, <2>1
<1> QED BY ONLY <1>2, <1>3, <1>7, <1>8

\* A function with the positions of a sequence as its domain is a sequence.
LEMMA ListIsSeq ==
    ASSUME NEW T, NEW n \in Nat, NEW f, DOMAIN f = 1 .. n, f = [i \in DOMAIN f |-> f[i]],
           \A i \in 1 .. n : f[i] \in T
    PROVE  f \in Seq(T) /\ Len(f) = n
OBVIOUS

\* Finitely many numbers have a bound.
LEMMA BoundOfNats ==
    ASSUME NEW n \in Nat, NEW f, \A i \in 1 .. n : f[i] \in Nat
    PROVE  \E b \in Nat : \A i \in 1 .. n : f[i] <= b
<1> DEFINE Good == {m \in 0 .. n : \E b \in Nat : \A i \in 1 .. m : f[i] <= b}
<1>1. 0 \in Good
  <2>1. 0 \in Nat /\ \A i \in 1 .. 0 : f[i] <= 0
    OBVIOUS
  <2> QED BY <2>1
<1>2. ASSUME NEW m \in 1 .. n, m - 1 \in Good PROVE m \in Good
  <2>1. PICK b \in Nat : \A i \in 1 .. m - 1 : f[i] <= b
    BY <1>2
  <2>2. b + f[m] \in Nat /\ \A i \in 1 .. m : f[i] <= b + f[m]
    BY <2>1
  <2> QED BY <2>2
<1>3. \A m \in 0 .. n : m \in Good
  <2> HIDE DEF Good
  <2> QED BY ONLY <1>1, <1>2, KeptByAll, n \in Nat
<1>4. n \in Good
  <2> HIDE DEF Good
  <2> QED BY <1>3
<1> QED BY <1>4

\* A set of numbers with a bound has a greatest element.
LEMMA MaxOfBounded ==
    ASSUME NEW b \in Nat, NEW s \in SUBSET Nat, s # {}, \A m \in s : m <= b
    PROVE  Max(s) \in s /\ Max(s) \in Nat /\ \A m \in s : m <= Max(s)
<1>1. s \in SUBSET (0 .. b)
  OBVIOUS
<1> QED BY <1>1, MaxBelow

\* The boundary sets over the classes of X.
SetClasses(X) == X \cup {"newline", "cjk_stop", "stop", "space"}
SetsOver(X) == [choice : Seq(SetClasses(X)), count : Nat]

\* There is always a boundary set to search, and each is a string of classes
\* (_boundary_sets).
LEMMA BoundarySetsType ==
    ASSUME NEW X, NEW separator \in Seq(X)
    PROVE  BoundarySets(separator) \in Seq(SetsOver(X)) /\ Len(BoundarySets(separator)) >= 1
<1> DEFINE C == SetClasses(X)
           r == [choice |-> separator, count |-> 1]
           own == IF separator = <<>> THEN <<>> ELSE <<r>>
           a == [choice |-> <<"newline", "newline">>, count |-> 1]
           b == [choice |-> <<"newline">>, count |-> 1]
           c == [choice |-> <<"cjk_stop">>, count |-> 4]
           d == [choice |-> <<"stop">>, count |-> 4]
           e == [choice |-> <<"space">>, count |-> 2]
           fixed == <<a, b, c, d, e>>
<1>1. own \in Seq(SetsOver(X))
  <2>1. separator \in Seq(C)
    BY DEF SetClasses
  <2>2. r \in SetsOver(X) /\ own \in {<<>>, <<r>>}
    BY <2>1 DEF SetsOver
  <2> HIDE DEF r, own
  <2>3. <<r>> \in Seq(SetsOver(X)) /\ <<>> \in Seq(SetsOver(X))
    BY <2>2, OneIsSeq
  <2> QED BY <2>2, <2>3
<1>2. fixed \in Seq(SetsOver(X)) /\ Len(fixed) >= 1
  <2>1. "newline" \in C /\ "cjk_stop" \in C /\ "stop" \in C /\ "space" \in C
    BY DEF SetClasses
  <2> HIDE DEF C
  <2>2. /\ <<"newline", "newline">> \in Seq(C) /\ <<"newline">> \in Seq(C)
        /\ <<"cjk_stop">> \in Seq(C) /\ <<"stop">> \in Seq(C) /\ <<"space">> \in Seq(C)
    BY ONLY <2>1, OneIsSeq, TwoIsSeq
  <2>3. a \in SetsOver(X) /\ b \in SetsOver(X) /\ c \in SetsOver(X) /\ d \in SetsOver(X)
        /\ e \in SetsOver(X)
    BY <2>2 DEF SetsOver, C
  <2> HIDE DEF a, b, c, d, e
  <2> QED BY <2>3
<1>3. BoundarySets(separator) = own \o fixed
  BY DEF BoundarySets
<1> HIDE DEF own, fixed
<1> QED BY ONLY <1>1, <1>2, <1>3, JoinIsSeq

\* The costs of the boundary sets are summed one after the other.
LEMMA CountsSteps ==
    ASSUME NEW X, NEW sets \in Seq(SetsOver(X))
    PROVE  \E g : /\ g[0] = 0 /\ g[Len(sets)] = FoldLeft(LAMBDA k, s : k + s.count, 0, sets)
                  /\ \A i \in 0 .. Len(sets) : g[i] \in Sums
                  /\ \A i \in 1 .. Len(sets) :
                        g[i - 1] \in Sums /\ g[i] = g[i - 1] + sets[i].count
<1> DEFINE n == Len(sets)
           step == [i \in 1 .. n |-> [a \in Sums |-> a + sets[i].count]]
           Solves(iter) == iter = [s \in SUBSET DOMAIN sets |->
               IF s = {} THEN 0 ELSE iter[s \ {Max(s)}] + sets[Max(s)].count]
<1>1. n \in Nat /\ DOMAIN sets = 1 .. n /\ 0 \in Sums
  BY DEF Sums
<1>2. \A i \in 1 .. n : \A a \in Sums : a + sets[i].count \in Sums
  <2> SUFFICES ASSUME NEW i \in 1 .. n, NEW a \in Sums PROVE a + sets[i].count \in Sums
    OBVIOUS
  <2>1. sets[i] \in SetsOver(X)
    BY <1>1
  <2> QED BY <2>1 DEF Sums, SetsOver
<1> HIDE DEF n
<1>3. step \in StepsOf(Sums, n)
  BY <1>2 DEF StepsOf
<1>4. FoldLeft(LAMBDA k, s : k + s.count, 0, sets) = (CHOOSE iter : Solves(iter))[1 .. n]
  BY <1>1 DEF FoldLeft, MapThenFoldSet
<1>5. \E iter : Solves(iter)
  <2>1. PICK iter : FoldSolution(iter, Sums, 0, step, n)
    <3> HIDE DEF step
    <3> QED BY ONLY <1>1, <1>3, FoldExists
  <2>2. \A s \in SUBSET (1 .. n) : s # {} => Max(s) \in 1 .. n /\ iter[s \ {Max(s)}] \in Sums
    BY ONLY <1>1, <2>1, MaxOfInitial DEF FoldSolution
  <2>3. \A s \in SUBSET (1 .. n) : s # {} =>
            step[Max(s)][iter[s \ {Max(s)}]] = iter[s \ {Max(s)}] + sets[Max(s)].count
    BY ONLY <2>2
  <2> HIDE DEF step
  <2>4. Solves(iter)
    BY ONLY <1>1, <2>1, <2>3 DEF FoldOver, FoldSolution
  <2> QED BY <2>4
<1>6. PICK iter : Solves(iter) /\ FoldLeft(LAMBDA k, s : k + s.count, 0, sets) = iter[1 .. n]
  <2> HIDE DEF Solves
  <2> QED BY ONLY <1>4, <1>5
<1>7. Computes(iter, Sums, 0, step, n)
  BY ONLY <1>1, <1>6, MaxOfInitial DEF Computes
<1>8. PICK g : FoldTrace(g, Sums, 0, step, n) /\ g[n] = iter[1 .. n]
  <2> HIDE DEF step, Solves
  <2> QED BY ONLY <1>1, <1>3, <1>7, FoldSteps
<1>9. \A i \in 1 .. n : g[i - 1] \in Sums /\ g[i] = g[i - 1] + sets[i].count
  BY ONLY <1>1, <1>8 DEF FoldTrace
<1>10. \A i \in 0 .. n : g[i] \in Sums
  BY ONLY <1>8 DEF FoldTrace
<1>11. g[0] = 0 /\ g[n] = FoldLeft(LAMBDA k, s : k + s.count, 0, sets)
  BY ONLY <1>6, <1>8 DEF FoldTrace
<1> HIDE DEF step, Solves
<1> QED BY <1>9, <1>10, <1>11 DEF n

\* The cost of searching boundary sets is a number.
LEMMA CountIsNatural ==
    ASSUME NEW X, NEW sets \in Seq(SetsOver(X))
    PROVE  FoldLeft(LAMBDA k, s : k + s.count, 0, sets) \in Nat
<1>1. Len(sets) \in 0 .. Len(sets)
  OBVIOUS
<1> QED BY <1>1, CountsSteps DEF Sums

\* A boundary that is found lies behind the start and not behind the limit
\* (_last_boundary).
LEMMA BoundaryEndType ==
    ASSUME NEW X, NEW T, NEW text \in Seq(T), NEW separator \in Seq(X),
           NEW start \in Nat, NEW limit \in Nat, start <= limit
    PROVE  /\ BoundaryEnd(text, start, limit, separator).end \in 0 .. limit
           /\ BoundaryEnd(text, start, limit, separator).scanned \in Nat
<1> DEFINE sets == BoundarySets(separator)
           Hits(g) == {e \in Ends(text, sets[g].choice, start, limit) :
                       ~Blank(Slice(text, start, e))}
           visited == Min({g \in DOMAIN sets : Hits(g) # {}} \cup {Len(sets)})
           cost == FoldLeft(LAMBDA n, s : n + s.count, 0, SubSeq(sets, 1, visited))
           end == Max(Hits(visited) \cup {0})
<1>1. BoundaryEnd(text, start, limit, separator) =
         [end |-> end, scanned |-> (limit - start) * cost]
  BY DEF BoundaryEnd
<1>2. sets \in Seq(SetsOver(X)) /\ Len(sets) \in Nat /\ Len(sets) >= 1
  BY BoundarySetsType
<1>3. visited \in 1 .. Len(sets)
  <2> DEFINE some == {g \in DOMAIN sets : Hits(g) # {}} \cup {Len(sets)}
  <2> HIDE DEF Hits, sets
  <2>1. some \in SUBSET Nat /\ some # {} /\ some \in SUBSET (1 .. Len(sets))
    BY <1>2
  <2> HIDE DEF some
  <2>2. PICK g \in some : \A h \in some : g <= h
    BY <2>1, LeastElement
  <2>3. Min(some) = g
    BY ONLY <2>1, <2>2, MinIs, some \in SUBSET Int
  <2> QED BY <2>1, <2>2, <2>3 DEF some
<1>4. cost \in Nat
  <2> HIDE DEF visited, sets
  <2>1. SubSeq(sets, 1, visited) \in Seq(SetsOver(X))
    BY <1>2, <1>3
  <2> QED BY <2>1, CountIsNatural
<1>5. end \in 0 .. limit
  <2>1. Hits(visited) \in SUBSET (0 .. limit)
    <3> HIDE DEF visited, sets
    <3>1. Len(sets[visited].choice) \in Nat
      BY <1>2, <1>3 DEF SetsOver
    <3> QED BY <3>1, SMTT(30) DEF Ends
  <2> DEFINE hits == Hits(visited) \cup {0}
  <2>2. hits \in SUBSET (0 .. limit) /\ 0 \in hits
    BY <2>1
  <2> HIDE DEF hits
  <2> QED BY <2>2, MaxBelow DEF hits
<1>6. (limit - start) * cost \in Nat
  <2> HIDE DEF cost
  <2> QED BY <1>4
<1> HIDE DEF end, cost
<1> QED BY <1>1, <1>5, <1>6

\* The least advance of a piece is a number that a valid overlap leaves room for.
LEMMA AdvanceType ==
    ASSUME NEW maximum \in Nat, NEW overlap \in Nat, overlap < maximum
    PROVE  MinimumAdvance(maximum, overlap) \in 1 .. maximum - overlap
<1> DEFINE half == (maximum - overlap + 1) \div 2
           both == {1, half}
<1>1. half \in 0 .. maximum - overlap
  OBVIOUS
<1> HIDE DEF half
<1>2. both \in SUBSET (0 .. maximum - overlap) /\ both # {} /\ maximum - overlap \in Nat
  BY <1>1
<1>3. Max(both) \in both /\ \A m \in both : m <= Max(both)
  <2> HIDE DEF both
  <2> QED BY <1>2, MaxBelow
<1>4. Max(both) \in 1 .. maximum - overlap
  BY <1>1, <1>3
<1> QED BY <1>4 DEF MinimumAdvance, half

\* What SplitRanges returns: where a piece starts and ends, and what it cost.
Ranges == [start : Nat, end : Nat, scanned : Nat]

\* A piece of a text starts where it should, ends in the text, is not longer
\* than the maximum, and unless it is the last lets the next one start later.
LEMMA PieceType ==
    ASSUME NEW X, NEW T, NEW text \in Seq(T), NEW separator \in Seq(X), NEW start \in Nat,
           NEW maximum \in Nat, NEW overlap \in Nat, overlap < maximum,
           NEW L, L = Len(text), start < L,
           NEW piece, piece = Piece(text, start, maximum, overlap, separator)
    PROVE  /\ piece \in Ranges /\ piece.start = start
           /\ start < piece.end /\ piece.end <= L /\ piece.end - start <= maximum
           /\ piece.end # L =>
                  /\ L - start > maximum
                  /\ piece.end - overlap - start >= MinimumAdvance(maximum, overlap)
<1> DEFINE limit == Min({start + maximum, Len(text)})
           boundary == BoundaryEnd(text, start, limit, separator)
           far == boundary.end # 0
                  /\ boundary.end - overlap - start >= MinimumAdvance(maximum, overlap)
<1>1. Len(text) \in Nat
  OBVIOUS
<1>2. limit \in {start + maximum, Len(text)} /\ limit <= start + maximum /\ limit <= Len(text)
  <2>1. limit = IF start + maximum <= Len(text) THEN start + maximum ELSE Len(text)
    BY <1>1, MinOfTwo
  <2> HIDE DEF limit
  <2> QED BY <1>1, <2>1
<1>3. MinimumAdvance(maximum, overlap) \in 1 .. maximum - overlap
  BY AdvanceType
<1> HIDE DEF limit
<1>4. limit \in Nat /\ start < limit
  BY <1>1, <1>2
<1>5. boundary.end \in 0 .. limit /\ boundary.scanned \in Nat
  BY <1>4, BoundaryEndType
<1>6. CASE limit = Len(text)
  <2>1. Piece(text, start, maximum, overlap, separator)
            = [start |-> start, end |-> limit, scanned |-> 0]
    BY <1>6 DEF Piece, limit
  <2> QED BY <1>1, <1>2, <1>4, <1>6, <2>1 DEF Ranges
<1>7. CASE limit # Len(text)
  <2> HIDE DEF boundary
  <2> DEFINE end == IF far THEN boundary.end ELSE limit
  <2>1. Piece(text, start, maximum, overlap, separator)
            = [start |-> start, scanned |-> boundary.scanned, end |-> end]
    BY <1>7 DEF Piece, limit, boundary
  <2>2. limit = start + maximum /\ limit < Len(text)
    BY <1>1, <1>2, <1>7
  <2>3. end \in start + 1 .. limit /\ end - overlap - start >= MinimumAdvance(maximum, overlap)
    BY <1>3, <1>4, <1>5, <2>2
  <2> HIDE DEF end
  <2> QED BY <1>1, <1>5, <2>1, <2>2, <2>3, SMTT(30) DEF Ranges
<1> QED BY <1>6, <1>7

\* A projection counts one piece more for every started advance.
LEMMA CeilingStep ==
    ASSUME NEW d \in Nat, d >= 1, NEW x \in Nat, NEW y \in Nat, y + d <= x
    PROVE  (y + d - 1) \div d + 1 <= (x + d - 1) \div d
<1> DEFINE q == (y + d - 1) \div d
           p == (x + d - 1) \div d
<1>1. q \in Nat /\ p \in Nat /\ d * q <= y + d - 1 /\ x + d - 1 < d * (p + 1)
  <2>1. \A z \in Nat : z \div d \in Nat /\ z % d \in 0 .. d - 1 /\ z = (d * (z \div d)) + (z % d)
    OBVIOUS
  <2>2. y + d - 1 \in Nat /\ x + d - 1 \in Nat
    OBVIOUS
  <2>3. d * (p + 1) = d * p + d
    BY <2>1, <2>2
  <2> QED BY <2>1, <2>2, <2>3
<1> HIDE DEF q, p
<1>2. d * q + d < d * (p + 1)
  BY <1>1
<1>3. d * (q + 1) < d * (p + 1)
  <2>1. d * (q + 1) = d * q + d
    BY <1>1
  <2> QED BY <1>2, <2>1
<1>4. q + 1 < p + 1
  BY <1>1, <1>3
<1> QED BY <1>1, <1>4 DEF q, p

\* A text that is too long is projected to at least one piece more than what
\* remains of it after the least advance.
LEMMA ProjectionStep ==
    ASSUME NEW length \in Nat, NEW rest \in Nat, NEW maximum \in Nat, NEW overlap \in Nat,
           overlap < maximum, length > maximum,
           rest <= length - MinimumAdvance(maximum, overlap)
    PROVE  /\ ProjectedRecords(length, maximum, overlap) \in Nat
           /\ ProjectedRecords(rest, maximum, overlap) \in Nat
           /\ ProjectedRecords(rest, maximum, overlap) + 1
                 <= ProjectedRecords(length, maximum, overlap)
<1> DEFINE d == MinimumAdvance(maximum, overlap)
           x == length - maximum
<1>1. d \in Nat /\ d >= 1 /\ x \in Nat /\ x >= 1
  BY AdvanceType
<1> HIDE DEF d
<1>2. ProjectedRecords(length, maximum, overlap) = 1 + (x + d - 1) \div d
  BY DEF ProjectedRecords, d
<1>3. ProjectedRecords(rest, maximum, overlap)
         = IF rest <= maximum THEN 1 ELSE 1 + (rest - maximum + d - 1) \div d
  BY DEF ProjectedRecords, d
<1>4. \A z \in Nat : z \div d \in Nat
  BY <1>1
<1>5. CASE rest <= maximum
  <2>1. x + d - 1 \in Nat /\ x + d - 1 >= d
    BY <1>1
  <2>2. (x + d - 1) \div d >= 1
    <3>1. \A z \in Nat : z >= d => z \div d >= 1
      BY <1>1
    <3> HIDE DEF x
    <3> QED BY <2>1, <3>1
  <2> QED BY <1>2, <1>3, <1>4, <1>5, <2>1, <2>2
<1>6. CASE rest > maximum
  <2> DEFINE y == rest - maximum
  <2>1. y \in Nat /\ y + d <= x
    BY <1>1, <1>6 DEF d
  <2>2. ProjectedRecords(rest, maximum, overlap) = 1 + (y + d - 1) \div d
    BY <1>3, <1>6
  <2>3. y + d - 1 \in Nat /\ x + d - 1 \in Nat
    BY <1>1, <2>1
  <2> HIDE DEF x, y
  <2>4. (y + d - 1) \div d + 1 <= (x + d - 1) \div d
    BY ONLY <1>1, <2>1, CeilingStep
  <2>5. (y + d - 1) \div d \in Nat /\ (x + d - 1) \div d \in Nat
    BY <1>4, <2>3
  <2> QED BY <1>2, <2>2, <2>4, <2>5
<1> QED BY <1>5, <1>6

\* The pieces from start on, given those of every later start.
Onwards(from, text, start, maximum, overlap, separator) ==
    LET piece == Piece(text, start, maximum, overlap, separator)
    IN  <<piece>> \o (IF piece.end = Len(text) THEN <<>> ELSE from[piece.end - overlap])

\* A cut of the text from start on is a sequence of pieces that are in the text
\* and not too long, leave nothing out, and are as many as was projected.
CutFrom(pieces, start, length, maximum, overlap) ==
    /\ pieces \in Seq(Ranges) /\ Len(pieces) >= 1
    /\ \A i \in 1 .. Len(pieces) :
          /\ start <= pieces[i].start /\ pieces[i].start < pieces[i].end
          /\ pieces[i].end <= length /\ pieces[i].end - pieces[i].start <= maximum
    /\ \A k \in start .. length - 1 : \E i \in 1 .. Len(pieces) :
          pieces[i].start <= k /\ k < pieces[i].end
    /\ Len(pieces) <= ProjectedRecords(length - start, maximum, overlap)

\* The recursion of SplitRanges has a solution, because every piece but the
\* last lets the next one start later.
LEMMA SplitExists ==
    ASSUME NEW X, NEW T, NEW text \in Seq(T), NEW separator \in Seq(X),
           NEW maximum \in Nat, NEW overlap \in Nat, overlap < maximum
    PROVE  \E from : from = [start \in 0 .. Len(text) |->
                               Onwards(from, text, start, maximum, overlap, separator)]
<1> DEFINE L == Len(text)
           On(from, start) == Onwards(from, text, start, maximum, overlap, separator)
           Right(from, d) == from = [start \in L - d .. L |-> On(from, start)]
           S == {d \in Nat : d <= L => \E from : Right(from, d)}
<1>1. L \in Nat
  OBVIOUS
<1>2. 0 \in S
  <2> DEFINE last == <<Piece(text, L, maximum, overlap, separator)>>
             f == [start \in L - 0 .. L |-> last \o <<>>]
  <2>1. Piece(text, L, maximum, overlap, separator).end = Len(text)
    <3>1. Min({L + maximum, L}) = L
      BY <1>1, MinOfTwo
    <3> QED BY <3>1 DEF Piece
  <2>2. \A start \in L - 0 .. L : start = L
    BY <1>1
  <2>3. \A start \in L - 0 .. L : On(f, start) = last \o <<>>
    BY <2>1, <2>2 DEF Onwards
  <2>4. Right(f, 0)
    <3> HIDE DEF On, last
    <3> QED BY <2>3
  <2> HIDE DEF Right, f
  <2> QED BY <2>4
<1>3. ASSUME NEW d \in Nat, d \in S PROVE d + 1 \in S
  <2> SUFFICES ASSUME d + 1 <= L PROVE \E from : Right(from, d + 1)
    <3> HIDE DEF Right
    <3> QED OBVIOUS
  <2>1. PICK f : Right(f, d)
    <3> HIDE DEF Right
    <3> QED BY <1>3
  <2> DEFINE s == L - (d + 1)
             g == [start \in L - (d + 1) .. L |-> On(f, start)]
  <2>2. s \in Nat /\ s < L /\ L - d = s + 1
    BY <1>1
  <2>3. \A start \in s + 1 .. L : g[start] = f[start]
    <3> HIDE DEF On
    <3>1. \A start \in s + 1 .. L : f[start] = On(f, start)
      BY <2>1, <2>2
    <3>2. \A start \in s + 1 .. L : start \in L - (d + 1) .. L
      BY <1>1, <2>2
    <3> QED BY <3>1, <3>2
  <2>4. ASSUME NEW start \in s .. L PROVE On(g, start) = On(f, start)
    <3> DEFINE piece == Piece(text, start, maximum, overlap, separator)
    <3>1. CASE piece.end = L
      BY <3>1 DEF Onwards
    <3>2. CASE piece.end # L /\ start = L
      <4>1. Min({L + maximum, L}) = L
        BY <1>1, MinOfTwo
      <4>2. piece.end = L
        BY <3>2, <4>1 DEF Piece
      <4> QED BY <3>2, <4>2
    <3>3. CASE piece.end # L /\ start # L
      <4>1. start \in Nat /\ start < L
        <5> HIDE DEF s, L
        <5> QED BY <1>1, <2>2, <3>3
      <4>6. PICK M, p : M = L /\ p = piece
        OBVIOUS
      <4>7. M = Len(text) /\ p = Piece(text, start, maximum, overlap, separator) /\ p.end # M
            /\ start < M
        BY <3>3, <4>1, <4>6
      <4>8. /\ p \in Ranges /\ start < p.end /\ p.end <= M
            /\ p.end - overlap - start >= MinimumAdvance(maximum, overlap)
        BY ONLY <4>1, <4>7, PieceType, text \in Seq(T), separator \in Seq(X), maximum \in Nat,
           overlap \in Nat, overlap < maximum
      <4>2. /\ piece \in Ranges /\ start < piece.end /\ piece.end <= L
            /\ piece.end - overlap - start >= MinimumAdvance(maximum, overlap)
        <5> HIDE DEF piece, L
        <5> QED BY <4>6, <4>8
      <4>3. MinimumAdvance(maximum, overlap) \in 1 .. maximum - overlap
        BY AdvanceType
      <4> HIDE DEF piece, s, g
      <4>9. PICK e, a, m, low :
                 e = piece.end /\ a = MinimumAdvance(maximum, overlap) /\ m = L /\ low = s
        OBVIOUS
      <4>10. e \in Nat
        BY ONLY <4>2, <4>9 DEF Ranges
      <4>11. m \in Nat /\ low \in Nat /\ start \in low .. m
        <5> HIDE DEF L
        <5> QED BY <1>1, <2>2, <4>9
      <4>12. start < e /\ e <= m /\ e - overlap - start >= a
        <5> HIDE DEF L
        <5> QED BY <4>2, <4>9
      <4>13. a \in 1 .. maximum - overlap
        BY ONLY <4>3, <4>9
      <4>14. e - overlap \in low + 1 .. m
        BY ONLY <4>10, <4>11, <4>12, <4>13, maximum \in Nat, overlap \in Nat
      <4>4. piece.end - overlap \in s + 1 .. L
        BY ONLY <4>9, <4>14
      <4>5. g[piece.end - overlap] = f[piece.end - overlap]
        BY <2>3, <4>4
      <4> QED BY <4>5 DEF Onwards, piece
    <3> QED BY <3>1, <3>2, <3>3
  <2>5. Right(g, d + 1)
    <3> HIDE DEF On
    <3> QED BY <2>4
  <2> HIDE DEF Right, g
  <2> QED BY <2>5
<1>4. \A d \in Nat : d \in S
  <2> HIDE DEF S
  <2> QED BY <1>2, <1>3, SetInduction
<1>5. PICK from : Right(from, L)
  <2> HIDE DEF Right
  <2> QED BY <1>1, <1>4
<1>6. L - L = 0
  BY <1>1
<1> QED BY <1>5, <1>6

\* At least one piece is projected.
LEMMA ProjectionIsPositive ==
    ASSUME NEW length \in Nat, NEW maximum \in Nat, NEW overlap \in Nat, overlap < maximum
    PROVE  ProjectedRecords(length, maximum, overlap) >= 1
<1>1. CASE length <= maximum
  BY <1>1 DEF ProjectedRecords
<1>2. CASE ~(length <= maximum)
  <2>1. MinimumAdvance(maximum, overlap) \in Nat /\ 0 <= length - MinimumAdvance(maximum, overlap)
    BY <1>2, AdvanceType
  <2>2. ProjectedRecords(0, maximum, overlap) = 1
    BY DEF ProjectedRecords
  <2>3. ProjectedRecords(length, maximum, overlap) \in Nat
        /\ ProjectedRecords(0, maximum, overlap) + 1 <= ProjectedRecords(length, maximum, overlap)
    BY <1>2, <2>1, ProjectionStep
  <2> QED BY <2>2, <2>3
<1> QED BY <1>1, <1>2

\* One piece that reaches the end of the text is a cut.
LEMMA LastPieceCuts ==
    ASSUME NEW L \in Nat, NEW start \in Nat, start < L, NEW maximum \in Nat, NEW overlap \in Nat,
           overlap < maximum, NEW piece \in Ranges,
           piece.start = start, piece.end = L, piece.end - start <= maximum
    PROVE  CutFrom(<<piece>>, start, L, maximum, overlap)
<1>1. L - start \in Nat
  OBVIOUS
<1>2. ProjectedRecords(L - start, maximum, overlap) >= 1
  BY <1>1, ProjectionIsPositive
<1>3. PICK one : one = <<piece>>
  OBVIOUS
<1>4. one \in Seq(Ranges) /\ Len(one) = 1 /\ one[1] = piece
  BY <1>3, OneIsSeq
<1>5. \A k \in start .. L - 1 : piece.start <= k /\ k < piece.end
  OBVIOUS
<1>6. \A i \in 1 .. 1 : i = 1
  OBVIOUS
<1>7. CutFrom(one, start, L, maximum, overlap)
  BY ONLY <1>1, <1>2, <1>4, <1>5, <1>6, L \in Nat, start \in Nat, start < L,
     piece.start = start, piece.end = L, piece.end - start <= maximum DEF CutFrom, Ranges
<1> QED BY <1>3, <1>7

\* A piece before a cut of the rest is a cut, when the rest starts in it or at
\* its end, and after the least advance.
LEMMA FirstPieceCuts ==
    ASSUME NEW L \in Nat, NEW start \in Nat, NEW maximum \in Nat, NEW overlap \in Nat,
           overlap < maximum, NEW piece \in Ranges, NEW others, NEW next \in Nat,
           piece.start = start, start < piece.end, piece.end <= L, piece.end - start <= maximum,
           L - start > maximum, start < next, next <= piece.end, next < L,
           next - start >= MinimumAdvance(maximum, overlap),
           CutFrom(others, next, L, maximum, overlap)
    PROVE  CutFrom(<<piece>> \o others, start, L, maximum, overlap)
<1>1. others \in Seq(Ranges) /\ Len(others) >= 1
  BY DEF CutFrom, Ranges
<1>2. MinimumAdvance(maximum, overlap) \in Nat
  BY AdvanceType
<1>3. L - start \in Nat /\ L - next \in Nat
        /\ L - next <= (L - start) - MinimumAdvance(maximum, overlap)
  BY <1>2
<1>4. /\ ProjectedRecords(L - start, maximum, overlap) \in Nat
      /\ ProjectedRecords(L - next, maximum, overlap) \in Nat
      /\ ProjectedRecords(L - next, maximum, overlap) + 1
            <= ProjectedRecords(L - start, maximum, overlap)
  BY <1>3, ProjectionStep
<1>5. Len(others) <= ProjectedRecords(L - next, maximum, overlap)
  BY DEF CutFrom
<1>6. PICK one : one = <<piece>>
  OBVIOUS
<1>7. one \in Seq(Ranges)
  BY <1>6, OneIsSeq
<1>14. Len(one) = 1 /\ one[1] = piece
  BY <1>6, OneIsSeq
<1>8. PICK all : all = one \o others
  OBVIOUS
<1>9. /\ all \in Seq(Ranges) /\ Len(all) = 1 + Len(others) /\ Len(others) \in Nat
      /\ all[1] = piece /\ \A i \in 1 .. Len(others) : all[1 + i] = others[i]
  <2>1. /\ all \in Seq(Ranges) /\ Len(all) = Len(one) + Len(others) /\ Len(others) \in Nat
        /\ \A i \in 1 .. Len(one) : all[i] = one[i]
        /\ \A i \in 1 .. Len(others) : all[Len(one) + i] = others[i]
    BY ONLY <1>1, <1>7, <1>8, JoinIsSeq
  <2> QED BY <1>14, <2>1
<1>10. ASSUME NEW i \in 1 .. Len(all)
       PROVE  /\ start <= all[i].start /\ all[i].start < all[i].end
              /\ all[i].end <= L /\ all[i].end - all[i].start <= maximum
  <2>1. CASE i = 1
    BY <1>9, <2>1, SMTT(30) DEF Ranges
  <2>2. CASE i # 1
    <3>1. PICK j \in 1 .. Len(others) : j = i - 1 /\ all[i] = others[j]
      BY <1>9, <2>2
    <3>2. /\ next <= others[j].start /\ others[j].start < others[j].end
          /\ others[j].end <= L /\ others[j].end - others[j].start <= maximum
      BY <3>1 DEF CutFrom
    <3>3. others[j] \in Ranges
      BY <1>1, <3>1
    <3>4. others[j].start \in Nat /\ others[j].end \in Nat
      BY <3>3 DEF Ranges
    <3> QED BY <3>1, <3>2, <3>4
  <2> QED BY <2>1, <2>2
<1>11. ASSUME NEW k \in start .. L - 1
       PROVE  \E i \in 1 .. Len(all) : all[i].start <= k /\ k < all[i].end
  <2>1. CASE k < piece.end
    <3>1. 1 \in 1 .. Len(all) /\ piece.start <= k
      BY <1>9
    <3> QED BY <1>9, <2>1, <3>1
  <2>2. CASE ~(k < piece.end)
    <3>1. k \in next .. L - 1
      BY <2>2 DEF Ranges
    <3>2. PICK i \in 1 .. Len(others) : others[i].start <= k /\ k < others[i].end
      BY <3>1 DEF CutFrom
    <3>3. 1 + i \in 1 .. Len(all) /\ all[1 + i] = others[i]
      BY <1>9
    <3> QED BY <3>2, <3>3
  <2> QED BY <2>1, <2>2
<1>12. Len(all) <= ProjectedRecords(L - start, maximum, overlap) /\ Len(all) >= 1
  BY <1>1, <1>4, <1>5, <1>9
<1>13. CutFrom(all, start, L, maximum, overlap)
  BY ONLY <1>9, <1>10, <1>11, <1>12 DEF CutFrom, Ranges
<1> QED BY <1>6, <1>8, <1>13

\* What the recursion computes from every start is a cut of the rest.
LEMMA CutsAreRight ==
    ASSUME NEW X, NEW T, NEW text \in Seq(T), NEW separator \in Seq(X),
           NEW maximum \in Nat, NEW overlap \in Nat, overlap < maximum, NEW from,
           \A start \in 0 .. Len(text) :
               from[start] = Onwards(from, text, start, maximum, overlap, separator)
    PROVE  \A start \in 0 .. Len(text) - 1 :
               CutFrom(from[start], start, Len(text), maximum, overlap)
<1>1. PICK L \in Nat : L = Len(text)
  OBVIOUS
<1> DEFINE Cut(start) == CutFrom(from[start], start, L, maximum, overlap)
           S == {d \in Nat : \A start \in 0 .. L - 1 : L - start <= d => Cut(start)}
<1>2. 0 \in S
  OBVIOUS
<1>3. ASSUME NEW d \in Nat, d \in S PROVE d + 1 \in S
  <2> SUFFICES ASSUME NEW start \in 0 .. L - 1, L - start <= d + 1 PROVE Cut(start)
    <3> HIDE DEF Cut
    <3> QED OBVIOUS
  <2>1. start \in Nat /\ start < L /\ start \in 0 .. L
    OBVIOUS
  <2>2. PICK piece : piece = Piece(text, start, maximum, overlap, separator)
    OBVIOUS
  <2>3. /\ piece \in Ranges /\ piece.start = start
        /\ start < piece.end /\ piece.end <= L /\ piece.end - start <= maximum
        /\ piece.end # L =>
               /\ L - start > maximum
               /\ piece.end - overlap - start >= MinimumAdvance(maximum, overlap)
    BY <1>1, <2>1, <2>2, PieceType, SMTT(30)
  <2>4. from[start] = <<piece>> \o (IF piece.end = L THEN <<>> ELSE from[piece.end - overlap])
    BY <1>1, <2>1, <2>2 DEF Onwards
  <2>5. MinimumAdvance(maximum, overlap) \in 1 .. maximum - overlap
    BY AdvanceType
  <2>6. CASE piece.end = L
    <3>1. from[start] = <<piece>>
      <4>1. from[start] = <<piece>> \o <<>>
        BY <2>4, <2>6
      <4>2. <<piece>> \in Seq(Ranges)
        BY <2>3, OneIsSeq
      <4> QED BY <4>1, <4>2
    <3>2. CutFrom(<<piece>>, start, L, maximum, overlap)
      BY ONLY <2>1, <2>3, <2>6, L \in Nat, maximum \in Nat, overlap \in Nat, overlap < maximum,
         LastPieceCuts
    <3> QED BY <3>1, <3>2
  <2>7. CASE piece.end # L
    <3>1. PICK next \in Nat : next = piece.end - overlap
      BY <2>1, <2>3, <2>5, <2>7 DEF Ranges
    <3>5. PICK e \in Nat : e = piece.end
      BY <2>3 DEF Ranges
    <3>6. PICK m \in 1 .. maximum - overlap : m = MinimumAdvance(maximum, overlap)
      BY <2>5
    <3>7. next = e - overlap /\ start < e /\ e <= L /\ e # L /\ e - overlap - start >= m
      BY <2>3, <2>7, <3>1, <3>5, <3>6
    <3>8. /\ start < next /\ next <= e /\ next < L /\ next - start >= m /\ next \in 0 .. L - 1
          /\ L - next <= d
      BY ONLY <2>1, <3>7, L - start <= d + 1, d \in Nat, L \in Nat, overlap \in Nat,
           maximum \in Nat,
         m \in 1 .. maximum - overlap, e \in Nat, next \in Nat
    <3>2. /\ start < next /\ next <= piece.end /\ next < L /\ start < piece.end /\ piece.end <= L
          /\ next - start >= MinimumAdvance(maximum, overlap) /\ next \in 0 .. L - 1
               /\ L - next <= d
      BY <3>5, <3>6, <3>7, <3>8
    <3>3. Cut(next)
      <4> HIDE DEF Cut
      <4> QED BY <1>3, <3>2
    <3>4. CutFrom(<<piece>> \o from[next], start, L, maximum, overlap)
      BY <2>1, <2>3, <2>7, <3>2, <3>3, FirstPieceCuts
    <3> QED BY <2>4, <2>7, <3>1, <3>4
  <2> QED BY <2>6, <2>7
<1>4. \A d \in Nat : d \in S
  <2> HIDE DEF S
  <2> QED BY <1>2, <1>3, SetInduction
<1> HIDE DEF Cut
<1>5. L \in S /\ \A start \in 0 .. L - 1 : L - start <= L
  <2>1. L \in S
    BY <1>4
  <2>2. \A start \in 0 .. L - 1 : L - start <= L
    OBVIOUS
  <2> QED BY <2>1, <2>2
<1>6. \A start \in 0 .. L - 1 : Cut(start)
  BY <1>5
<1> QED BY <1>1, <1>6 DEF Cut

\* The ranges of a text are a cut of it (_split_ranges).
LEMMA RangesAreRight ==
    ASSUME NEW X, NEW T, NEW text \in Seq(T), NEW separator \in Seq(X),
           NEW maximum \in Nat, NEW overlap \in Nat, overlap < maximum
    PROVE  /\ text = <<>> => SplitRanges(text, maximum, overlap, separator) = <<>>
           /\ text # <<>> => CutFrom(SplitRanges(text, maximum, overlap, separator), 0,
                                     Len(text), maximum, overlap)
<1> DEFINE Right(from) == from = [start \in 0 .. Len(text) |->
                               Onwards(from, text, start, maximum, overlap, separator)]
<1>1. SplitRanges(text, maximum, overlap, separator)
         = IF text = <<>> THEN <<>> ELSE (CHOOSE from : Right(from))[0]
  BY DEF SplitRanges, Onwards
<1>2. \E from : Right(from)
  BY SplitExists
<1>3. PICK from : Right(from) /\ from = CHOOSE f : Right(f)
  <2> HIDE DEF Right
  <2> QED BY <1>2
<1>4. \A start \in 0 .. Len(text) - 1 : CutFrom(from[start], start, Len(text), maximum, overlap)
  <2>1. \A start \in 0 .. Len(text) :
            from[start] = Onwards(from, text, start, maximum, overlap, separator)
    BY <1>3
  <2> QED BY <2>1, CutsAreRight
<1>5. text # <<>> => 0 \in 0 .. Len(text) - 1
  OBVIOUS
<1> HIDE DEF Right
<1> QED BY <1>1, <1>3, <1>4, <1>5

(***************************************************************************)
(* Sources.  A source over the characters C and the metadata M has pieces  *)
(* that lie in its text and together hold every visible character of it.   *)
(***************************************************************************)
Newline == <<"newline", <<>>>>
Pieces(M) == [start : Nat, end : Nat, meta : M]

Inside(source) ==
    \A i \in 1 .. Len(source.pieces) :
        source.pieces[i].start <= source.pieces[i].end
        /\ source.pieces[i].end <= Len(source.text)

Held(source) ==
    \A k \in 0 .. Len(source.text) - 1 : ~IsSpace(source.text[k + 1][1]) =>
        \E i \in 1 .. Len(source.pieces) :
            source.pieces[i].start <= k /\ k < source.pieces[i].end

Sources(C, M) ==
    {source \in [text : Seq(C), pieces : Seq(Pieces(M))] : Inside(source) /\ Held(source)}

\* What is known of a source.
LEMMA SourceFacts ==
    ASSUME NEW C, NEW M, NEW source \in Sources(C, M)
    PROVE  /\ source.text \in Seq(C) /\ source.pieces \in Seq(Pieces(M))
           /\ Inside(source) /\ Held(source)
BY DEF Sources

\* Newlines the segmenter adds.
LEMMA DelimiterIs ==
    ASSUME NEW C, Newline \in C, NEW n \in Nat
    PROVE  /\ Delimiter(n) \in Seq(C) /\ Len(Delimiter(n)) = n
           /\ \A i \in 1 .. n : Delimiter(n)[i] = Newline /\ IsSpace(Delimiter(n)[i][1])
<1>1. \A i \in 1 .. n : Delimiter(n)[i] = Newline
  BY DEF Delimiter, Newline
<1>2. Delimiter(n) \in Seq(C) /\ Len(Delimiter(n)) = n
  <2>1. DOMAIN Delimiter(n) = 1 .. n
          /\ Delimiter(n) = [i \in DOMAIN Delimiter(n) |-> Delimiter(n)[i]]
    BY DEF Delimiter
  <2>2. \A i \in 1 .. n : Delimiter(n)[i] \in C
    BY <1>1
  <2> QED BY ONLY <2>1, <2>2, ListIsSeq, n \in Nat
<1>3. IsSpace(Newline[1])
  BY DEF IsSpace, Newline
<1> QED BY <1>1, <1>2, <1>3

\* A part of a text.
LEMMA SliceIs ==
    ASSUME NEW C, NEW text \in Seq(C), NEW start \in Nat, NEW end \in Nat,
           start <= end, end <= Len(text)
    PROVE  /\ Slice(text, start, end) \in Seq(C) /\ Len(Slice(text, start, end)) = end - start
           /\ \A k \in 1 .. end - start : Slice(text, start, end)[k] = text[start + k]
<1>1. Len(text) \in Nat
  OBVIOUS
<1>2. start + 1 \in 1 .. Len(text) + 1 /\ end \in (start + 1) - 1 .. Len(text)
  BY <1>1
<1>3. PICK a : a = start + 1
  OBVIOUS
<1>4. a \in 1 .. Len(text) + 1 /\ end \in a - 1 .. Len(text)
  BY <1>2, <1>3
<1>5. /\ SubSeq(text, a, end) \in Seq(C) /\ Len(SubSeq(text, a, end)) = end - a + 1
      /\ \A k \in 1 .. end - a + 1 : SubSeq(text, a, end)[k] = text[a + k - 1]
  BY ONLY <1>4, SliceIsSeq, text \in Seq(C)
<1>6. end - a + 1 = end - start /\ \A k \in 1 .. end - start : a + k - 1 = start + k
  BY <1>3
<1>7. Slice(text, start, end) = SubSeq(text, a, end)
  BY <1>3 DEF Slice
<1> QED BY ONLY <1>5, <1>6, <1>7

\* A source with one block is one (_source_for_block).
LEMMA BlockSource ==
    ASSUME NEW C, NEW M, NEW block, block.text \in Seq(C), block.meta \in M
    PROVE  SourceForBlock(block) \in Sources(C, M) /\ SourceForBlock(block).text = block.text
<1>1. PICK n \in Nat : n = Len(block.text)
  OBVIOUS
<1>2. PICK p : p = [start |-> 0, end |-> n, meta |-> block.meta]
  OBVIOUS
<1>3. p \in Pieces(M) /\ p.start = 0 /\ p.end = n
  BY <1>2 DEF Pieces
<1>4. PICK ps : ps = <<p>>
  OBVIOUS
<1>5. ps \in Seq(Pieces(M)) /\ Len(ps) = 1 /\ ps[1] = p
  BY <1>3, <1>4, OneIsSeq
<1>6. PICK s : s = [text |-> block.text, pieces |-> ps]
  OBVIOUS
<1>7. s \in [text : Seq(C), pieces : Seq(Pieces(M))] /\ s.text = block.text /\ s.pieces = ps
  BY <1>5, <1>6
<1>8. Inside(s)
  <2>1. Len(ps) = 1 /\ ps[1].start <= ps[1].end /\ ps[1].end <= Len(block.text)
    BY <1>1, <1>3, <1>5
  <2>2. \A i \in 1 .. 1 : i = 1
    OBVIOUS
  <2> QED BY ONLY <1>7, <2>1, <2>2 DEF Inside
<1>9. Held(s)
  <2>1. 1 \in 1 .. Len(ps) /\ \A k \in 0 .. n - 1 : ps[1].start <= k /\ k < ps[1].end
    BY <1>3, <1>5
  <2> QED BY ONLY <1>1, <1>7, <2>1 DEF Held
<1>10. SourceForBlock(block) = s
  BY <1>1, <1>2, <1>4, <1>6 DEF SourceForBlock
<1> QED BY <1>7, <1>8, <1>9, <1>10 DEF Sources

\* The greater and the smaller of two numbers.
LEMMA MaxOfTwo ==
    ASSUME NEW a \in Int, NEW b \in Int
    PROVE  Max({a, b}) = IF a <= b THEN b ELSE a
<1> DEFINE both == {a, b}
<1>1. both \in SUBSET Int /\ a \in both /\ b \in both /\ \A m \in both : m = a \/ m = b
  OBVIOUS
<1> HIDE DEF both
<1>2. a <= b => Max(both) = b
  BY <1>1, MaxIs
<1>3. ~(a <= b) => Max(both) = a
  BY <1>1, MaxIs
<1> QED BY <1>2, <1>3 DEF both

\* framed is text from start to end behind prefix and before suffix newlines.
Framed(framed, C, text, start, end, prefix, suffix) ==
    /\ framed \in Seq(C) /\ Len(framed) = prefix + (end - start) + suffix
    /\ \A k \in 1 .. end - start : framed[prefix + k] = text[start + k]
    /\ \A k \in 1 .. Len(framed) :
          k <= prefix \/ k > prefix + (end - start) => IsSpace(framed[k][1])

\* The text of a part between newlines: its positions.
LEMMA FramedText ==
    ASSUME NEW C, Newline \in C, NEW text \in Seq(C), NEW start \in Nat, NEW end \in Nat,
           start <= end, end <= Len(text), NEW prefix \in Nat, NEW suffix \in Nat, NEW framed,
           framed = Delimiter(prefix) \o Slice(text, start, end) \o Delimiter(suffix)
    PROVE  Framed(framed, C, text, start, end, prefix, suffix)
<1>1. PICK a, b, c : a = Delimiter(prefix) /\ b = Slice(text, start, end) /\ c = Delimiter(suffix)
  OBVIOUS
<1>2. PICK n \in Nat : n = end - start
  OBVIOUS
<1>3. a \in Seq(C) /\ Len(a) = prefix /\ \A i \in 1 .. prefix : IsSpace(a[i][1])
  BY <1>1, DelimiterIs
<1>4. c \in Seq(C) /\ Len(c) = suffix /\ \A i \in 1 .. suffix : IsSpace(c[i][1])
  BY <1>1, DelimiterIs
<1>5. b \in Seq(C) /\ Len(b) = n /\ \A k \in 1 .. n : b[k] = text[start + k]
  <2>1. /\ b \in Seq(C) /\ Len(b) = end - start
        /\ \A k \in 1 .. end - start : b[k] = text[start + k]
    BY <1>1, SliceIs, ZenonT(30)
  <2> QED BY ONLY <1>2, <2>1
<1>6. PICK ab : ab = a \o b
  OBVIOUS
<1>11. a \in Seq(C) /\ b \in Seq(C) /\ c \in Seq(C)
  BY ONLY <1>3, <1>4, <1>5
<1>7. /\ ab \in Seq(C) /\ Len(ab) = prefix + n
      /\ \A i \in 1 .. prefix : ab[i] = a[i]
      /\ \A i \in 1 .. n : ab[prefix + i] = b[i]
  <2>1. /\ ab \in Seq(C) /\ Len(ab) = Len(a) + Len(b)
        /\ \A i \in 1 .. Len(a) : ab[i] = a[i]
        /\ \A i \in 1 .. Len(b) : ab[Len(a) + i] = b[i]
    BY ONLY <1>6, <1>11, JoinIsSeq
  <2> QED BY <2>1, <1>3, <1>5
<1>8. /\ framed \in Seq(C) /\ Len(framed) = prefix + n + suffix
      /\ \A i \in 1 .. prefix + n : framed[i] = ab[i]
      /\ \A i \in 1 .. suffix : framed[prefix + n + i] = c[i]
  <2>1. framed = ab \o c
    BY <1>1, <1>6
  <2>3. ab \in Seq(C)
    BY ONLY <1>7
  <2>2. /\ framed \in Seq(C) /\ Len(framed) = Len(ab) + Len(c)
        /\ \A i \in 1 .. Len(ab) : framed[i] = ab[i]
        /\ \A i \in 1 .. Len(c) : framed[Len(ab) + i] = c[i]
    BY ONLY <1>11, <2>1, <2>3, JoinIsSeq
  <2> QED BY <2>2, <1>4, <1>7
<1>9. \A k \in 1 .. n : framed[prefix + k] = text[start + k]
  <2>1. \A k \in 1 .. n : prefix + k \in 1 .. prefix + n
    BY <1>2
  <2> QED BY ONLY <1>5, <1>7, <1>8, <2>1
<1>10. ASSUME NEW k \in 1 .. Len(framed), k <= prefix \/ k > prefix + n
       PROVE  IsSpace(framed[k][1])
  <2>1. CASE k <= prefix
    <3>1. k \in 1 .. prefix /\ k \in 1 .. prefix + n
      BY <1>2, <1>8, <2>1
    <3> QED BY ONLY <1>3, <1>7, <1>8, <3>1
  <2>2. CASE k > prefix + n
    <3>1. PICK i \in 1 .. suffix : k = prefix + n + i
      <4>1. k - (prefix + n) \in 1 .. suffix /\ k = prefix + n + (k - (prefix + n))
        BY <1>2, <1>8, <2>2
      <4> QED BY <4>1
    <3> QED BY ONLY <1>4, <1>8, <3>1
  <2> QED BY <1>10, <2>1, <2>2
<1> QED BY ONLY <1>2, <1>8, <1>9, <1>10 DEF Framed

\* A sequence whose items are in a set is one over that set.
LEMMA SeqOver ==
    ASSUME NEW S, NEW T, NEW s \in Seq(S), \A i \in 1 .. Len(s) : s[i] \in T
    PROVE  s \in Seq(T)
OBVIOUS

\* The part of a piece that lies in start .. end, moved behind the prefix.
Clipped(piece, start, end, prefix) ==
    [start |-> prefix + Max({start, piece.start}) - start,
     end   |-> prefix + Min({end, piece.end}) - start,
     meta  |-> piece.meta]

\* A piece that is not empty after the clipping lies in the part.
LEMMA ClippedIs ==
    ASSUME NEW M, NEW piece \in Pieces(M), NEW start \in Nat, NEW end \in Nat, start <= end,
           NEW prefix \in Nat
    PROVE  /\ Clipped(piece, start, end, prefix) \in [start : Int, end : Int, meta : M]
           /\ Clipped(piece, start, end, prefix).start < Clipped(piece, start, end, prefix).end =>
                 /\ Clipped(piece, start, end, prefix) \in Pieces(M)
                 /\ Clipped(piece, start, end, prefix).end <= prefix + (end - start)
           /\ \A k \in Nat : piece.start <= start + k /\ start + k < piece.end /\ k < end - start =>
                 /\ Clipped(piece, start, end, prefix).start <= prefix + k
                 /\ prefix + k < Clipped(piece, start, end, prefix).end
<1>1. PICK a \in Nat, b \in Nat : a = piece.start /\ b = piece.end
  BY DEF Pieces
<1>2. PICK u \in Nat, v \in Nat : u = Max({start, piece.start}) /\ v = Min({end, piece.end})
  BY <1>1, MaxOfTwo, MinOfTwo
<1>3. u = IF start <= a THEN a ELSE start
  BY <1>1, <1>2, MaxOfTwo
<1>4. v = IF end <= b THEN end ELSE b
  BY <1>1, <1>2, MinOfTwo
<1>5. PICK c : c = [start |-> prefix + u - start, end |-> prefix + v - start, meta |-> piece.meta]
  OBVIOUS
<1>6. Clipped(piece, start, end, prefix) = c
  BY <1>2, <1>5 DEF Clipped
<1>7. piece.meta \in M
  BY DEF Pieces
<1>8. c.start = prefix + u - start /\ c.end = prefix + v - start /\ c.meta = piece.meta
  BY <1>5
<1>9. c \in [start : Int, end : Int, meta : M]
  BY <1>5, <1>7
<1>10. c.start < c.end => c.start \in Nat /\ c.end \in Nat /\ c.end <= prefix + (end - start)
  BY <1>3, <1>4, <1>8
<1>11. c.start \in Nat /\ c.end \in Nat => c \in Pieces(M)
  BY ONLY <1>5, <1>7, <1>8 DEF Pieces
<1>12. ASSUME NEW k \in Nat, a <= start + k, start + k < b, k < end - start
       PROVE  c.start <= prefix + k /\ prefix + k < c.end
  BY <1>3, <1>4, <1>8, <1>12
<1> QED BY ONLY <1>1, <1>6, <1>9, <1>10, <1>11, <1>12

\* part is a source with the text of another from start to end, behind prefix
\* and before suffix newlines.
SlicedFrom(part, C, M, source, start, end, prefix, suffix) ==
    /\ part \in Sources(C, M)
    /\ Len(part.text) = prefix + (end - start) + suffix
    /\ \A k \in 1 .. end - start : part.text[prefix + k] = source.text[start + k]

\* A part of a source between newlines is a source (_source_slice).
LEMMA SliceSource ==
    ASSUME NEW C, Newline \in C, NEW M, NEW source \in Sources(C, M), NEW start \in Nat,
           NEW end \in Nat, start <= end, end <= Len(source.text),
           NEW prefix \in Nat, NEW suffix \in Nat, NEW part,
           part = SourceSlice(source, start, end, prefix, suffix)
    PROVE  SlicedFrom(part, C, M, source, start, end, prefix, suffix)
<1> DEFINE pieces == source.pieces
           clipped == [i \in DOMAIN pieces |-> Clipped(pieces[i], start, end, prefix)]
           positions == {i \in DOMAIN clipped : clipped[i].start < clipped[i].end}
           kept == Kept(clipped, positions)
           framed == Delimiter(prefix) \o Slice(source.text, start, end) \o Delimiter(suffix)
<1>1. part.text = framed /\ part.pieces = kept /\ part = [text |-> framed, pieces |-> kept]
  BY DEF SourceSlice, Clipped
<1>2. source.text \in Seq(C) /\ pieces \in Seq(Pieces(M)) /\ Inside(source) /\ Held(source)
  BY SourceFacts
<1>3. PICK n \in Nat : n = Len(pieces) /\ DOMAIN pieces = 1 .. n
  BY <1>2
<1>4. \A i \in 1 .. n : pieces[i] \in Pieces(M)
  BY <1>2, <1>3
<1>5. PICK u : u = framed
  OBVIOUS
<1>6. /\ u \in Seq(C) /\ Len(u) = prefix + (end - start) + suffix
      /\ \A k \in 1 .. end - start : u[prefix + k] = source.text[start + k]
      /\ \A k \in 1 .. Len(u) : k <= prefix \/ k > prefix + (end - start) => IsSpace(u[k][1])
  <2> HIDE DEF framed
  <2>1. PICK t : t = source.text
    OBVIOUS
  <2>2. u = Delimiter(prefix) \o Slice(t, start, end) \o Delimiter(suffix)
    BY <1>5, <2>1 DEF framed
  <2>3. t \in Seq(C) /\ end <= Len(t)
    BY <1>2, <2>1
  <2>4. Framed(u, C, t, start, end, prefix, suffix)
    BY ONLY <2>2, <2>3, Newline \in C, start <= end, FramedText
  <2> QED BY ONLY <2>1, <2>4 DEF Framed
<1> HIDE DEF framed
<1>7. \A i \in 1 .. n : clipped[i] = Clipped(pieces[i], start, end, prefix)
  BY <1>3
<1>8. DOMAIN clipped = 1 .. n /\ clipped = [i \in DOMAIN clipped |-> clipped[i]]
  BY <1>3
<1>9. \A i \in 1 .. n : clipped[i] \in [start : Int, end : Int, meta : M]
  <2> SUFFICES ASSUME NEW i \in 1 .. n PROVE clipped[i] \in [start : Int, end : Int, meta : M]
    OBVIOUS
  <2>1. pieces[i] \in Pieces(M) /\ clipped[i] = Clipped(pieces[i], start, end, prefix)
    BY <1>4, <1>7
  <2> HIDE DEF clipped, pieces
  <2> QED BY <2>1, ClippedIs
<1>10. positions = {i \in 1 .. n : clipped[i].start < clipped[i].end}
  BY <1>8
<1> HIDE DEF clipped, positions
<1>11. PICK T : T = [start : Int, end : Int, meta : M]
  OBVIOUS
<1>12. clipped \in Seq(T) /\ Len(clipped) = n
  <2>1. \A i \in 1 .. n : clipped[i] \in T
    BY ONLY <1>9, <1>11
  <2> QED BY ONLY <1>8, <2>1, ListIsSeq, n \in Nat
<1>13. kept \in Seq(T) /\ \E at : PicksUpTo(at, kept, clipped, positions, n)
  <2>1. clipped \in Seq(T)
    BY ONLY <1>12
  <2>2. /\ Kept(clipped, positions) \in Seq(T)
        /\ \E at : PicksUpTo(at, Kept(clipped, positions), clipped, positions, Len(clipped))
    BY ONLY <2>1, KeptIs
  <2> QED BY ONLY <1>12, <2>2 DEF kept
<1> HIDE DEF kept
<1>14. PICK at : PicksUpTo(at, kept, clipped, positions, n)
  BY <1>13
<1>15. \A k \in 1 .. Len(kept) :
          /\ at[k] \in 1 .. n /\ kept[k] = clipped[at[k]]
          /\ clipped[at[k]].start < clipped[at[k]].end
  BY ONLY <1>10, <1>14 DEF PicksUpTo
<1>16. \A k \in 1 .. Len(kept) :
          /\ kept[k] \in Pieces(M) /\ kept[k].start < kept[k].end
          /\ kept[k].end <= prefix + (end - start)
  <2> SUFFICES ASSUME NEW k \in 1 .. Len(kept)
               PROVE  /\ kept[k] \in Pieces(M) /\ kept[k].start < kept[k].end
                      /\ kept[k].end <= prefix + (end - start)
    OBVIOUS
  <2>1. PICK i \in 1 .. n : i = at[k]
    BY <1>15
  <2>2. /\ kept[k] = Clipped(pieces[i], start, end, prefix) /\ kept[k].start < kept[k].end
        /\ pieces[i] \in Pieces(M)
    BY ONLY <1>4, <1>7, <1>15, <2>1, k \in 1 .. Len(kept), i \in 1 .. n
  <2>3. PICK piece : piece = pieces[i]
    OBVIOUS
  <2>4. /\ kept[k] = Clipped(piece, start, end, prefix) /\ kept[k].start < kept[k].end
        /\ piece \in Pieces(M)
    BY ONLY <2>2, <2>3
  <2> QED BY <2>4, ClippedIs
<1>17. kept \in Seq(Pieces(M))
  BY ONLY <1>13, <1>16, SeqOver
<1>21. part.text = u /\ part.pieces = kept
  BY <1>1, <1>5
<1>18. Inside(part)
  <2> SUFFICES ASSUME NEW k \in 1 .. Len(kept)
               PROVE  kept[k].start <= kept[k].end /\ kept[k].end <= Len(u)
    BY <1>21 DEF Inside
  <2>1. kept[k].start \in Nat /\ kept[k].end \in Nat
    BY <1>16 DEF Pieces
  <2> QED BY <1>6, <1>16, <2>1, SMTT(30)
<1>19. Held(part)
  <2> SUFFICES ASSUME NEW k \in 0 .. Len(u) - 1, ~IsSpace(u[k + 1][1])
               PROVE  \E j \in 1 .. Len(kept) : kept[j].start <= k /\ k < kept[j].end
    BY <1>21 DEF Held
  <2>1. k + 1 \in 1 .. Len(u) /\ k \in Nat
    BY <1>6
  <2>2. k + 1 > prefix /\ k + 1 <= prefix + (end - start)
    BY <1>6, <2>1
  <2>3. PICK q \in Nat : k = prefix + q /\ q < end - start
    <3>1. k - prefix \in Nat /\ k = prefix + (k - prefix) /\ k - prefix < end - start
      BY <2>1, <2>2
    <3> QED BY <3>1
  <2>4. q + 1 \in 1 .. end - start /\ prefix + (q + 1) = k + 1
    BY <2>3
  <2>5. u[k + 1] = source.text[start + q + 1] /\ start + q \in 0 .. Len(source.text) - 1
    <3>1. u[prefix + (q + 1)] = source.text[start + (q + 1)]
      BY ONLY <1>6, <2>4
    <3>2. Len(source.text) \in Nat
      BY <1>2
    <3> QED BY <2>3, <2>4, <3>1, <3>2
  <2>6. PICK i \in 1 .. n : pieces[i].start <= start + q /\ start + q < pieces[i].end
    <3>1. (start + q) + 1 = start + q + 1
      OBVIOUS
    <3> QED BY <1>2, <1>3, <2>5, <3>1 DEF Held
  <2>7. clipped[i].start <= prefix + q /\ prefix + q < clipped[i].end
    <3>1. pieces[i] \in Pieces(M)
      BY <1>4
    <3> QED BY ONLY <1>7, <2>3, <2>6, <3>1, ClippedIs, start \in Nat, end \in Nat, start <= end,
               prefix \in Nat, i \in 1 .. n, q \in Nat
  <2>8. clipped[i].start \in Int /\ clipped[i].end \in Int
    BY <1>9
  <2>9. i \in positions
    BY <1>10, <2>7, <2>8
  <2>10. PICK j \in 1 .. Len(kept) : at[j] = i
    BY <1>14, <2>9 DEF PicksUpTo
  <2> QED BY <1>15, <2>3, <2>7, <2>10
<1>20. part \in [text : Seq(C), pieces : Seq(Pieces(M))]
  BY ONLY <1>1, <1>5, <1>6, <1>17
<1> QED BY ONLY <1>1, <1>5, <1>6, <1>18, <1>19, <1>20 DEF Sources, SlicedFrom

\* text has every item of other.
Has(text, other) == \A i \in 1 .. Len(other) : \E j \in 1 .. Len(text) : text[j] = other[i]

\* Blocks with a text over C and metadata of M.
Blocky(B, C, M) == \A b \in B : b.text \in Seq(C) /\ b.meta \in M

\* A source and one more block, with n newlines between.
Added(source, block, n) ==
    LET text == source.text \o (IF source.text = <<>> THEN <<>> ELSE Delimiter(n))
    IN  [text |-> text \o block.text,
         pieces |-> Append(source.pieces,
             [start |-> Len(text), end |-> Len(text) + Len(block.text),
              meta |-> block.meta])]

\* A source with one more block is a source.
LEMMA AddedIs ==
    ASSUME NEW C, Newline \in C, NEW M, NEW source \in Sources(C, M), NEW block,
           block.text \in Seq(C), block.meta \in M, NEW n \in Nat, NEW sum,
             sum = Added(source, block, n)
    PROVE  /\ sum \in Sources(C, M)
           /\ Has(sum.text, source.text) /\ Has(sum.text, block.text)
<1>1. PICK a, ps, b : a = source.text /\ ps = source.pieces /\ b = block.text
  OBVIOUS
<1>2. PICK d : d = IF a = <<>> THEN <<>> ELSE Delimiter(n)
  OBVIOUS
<1>3. a \in Seq(C) /\ ps \in Seq(Pieces(M)) /\ b \in Seq(C)
  BY <1>1, SourceFacts
<1>4. Inside(source) /\ Held(source)
  BY SourceFacts
<1>5. d \in Seq(C) /\ \A i \in 1 .. Len(d) : IsSpace(d[i][1])
  <2>1. CASE a = <<>>
    BY <1>2, <2>1
  <2>2. CASE a # <<>>
    BY <1>2, <2>2, DelimiterIs
  <2> QED BY <2>1, <2>2
<1>6. PICK text, all : text = a \o d /\ all = text \o b
  OBVIOUS
<1>7. PICK l \in Nat, m \in Nat, k \in Nat : l = Len(a) /\ m = Len(d) /\ k = Len(b)
  <2>1. Len(a) \in Nat /\ Len(d) \in Nat /\ Len(b) \in Nat
    BY <1>3, <1>5
  <2> QED BY <2>1
<1>8. /\ text \in Seq(C) /\ Len(text) = l + m
      /\ \A i \in 1 .. l : text[i] = a[i]
      /\ \A i \in 1 .. m : text[l + i] = d[i]
  <2>1. /\ text \in Seq(C) /\ Len(text) = Len(a) + Len(d)
        /\ \A i \in 1 .. Len(a) : text[i] = a[i]
        /\ \A i \in 1 .. Len(d) : text[Len(a) + i] = d[i]
    BY ONLY <1>3, <1>5, <1>6, JoinIsSeq
  <2> QED BY ONLY <1>7, <2>1
<1>9. /\ all \in Seq(C) /\ Len(all) = l + m + k
      /\ \A i \in 1 .. l + m : all[i] = text[i]
      /\ \A i \in 1 .. k : all[l + m + i] = b[i]
  <2>1. text \in Seq(C)
    BY ONLY <1>8
  <2>2. /\ all \in Seq(C) /\ Len(all) = Len(text) + Len(b)
        /\ \A i \in 1 .. Len(text) : all[i] = text[i]
        /\ \A i \in 1 .. Len(b) : all[Len(text) + i] = b[i]
    BY ONLY <1>3, <1>6, <2>1, JoinIsSeq
  <2> QED BY ONLY <1>7, <1>8, <2>2
<1>10. PICK p : p = [start |-> l + m, end |-> l + m + k, meta |-> block.meta]
  OBVIOUS
<1>11. p \in Pieces(M) /\ p.start = l + m /\ p.end = l + m + k
  BY <1>10 DEF Pieces
<1>12. PICK qs : qs = Append(ps, p)
  OBVIOUS
<1>13. PICK r \in Nat : r = Len(ps)
  BY <1>3
<1>14. /\ qs \in Seq(Pieces(M)) /\ Len(qs) = r + 1 /\ qs[r + 1] = p
       /\ \A i \in 1 .. r : qs[i] = ps[i] /\ ps[i] \in Pieces(M)
  <2>1. /\ qs \in Seq(Pieces(M)) /\ Len(qs) = Len(ps) + 1 /\ qs[Len(ps) + 1] = p
        /\ \A i \in 1 .. Len(ps) : qs[i] = ps[i]
    BY ONLY <1>3, <1>11, <1>12, AppendIsSeq
  <2>2. \A i \in 1 .. Len(ps) : ps[i] \in Pieces(M)
    BY ONLY <1>3
  <2> QED BY ONLY <1>13, <2>1, <2>2
<1>15. sum = [text |-> all, pieces |-> qs]
  <2>1. Len(text) = l + m
    BY <1>8
  <2> QED BY ONLY sum = Added(source, block, n), <1>1, <1>2, <1>6, <1>7, <1>10, <1>12, <2>1
    DEF Added
<1>16. sum.text = all /\ sum.pieces = qs
  BY <1>15
<1>17. \A i \in 1 .. r + 1 : i = r + 1 \/ i \in 1 .. r
  BY <1>13
<1>18. \A i \in 1 .. r : ps[i].start \in Nat /\ ps[i].end \in Nat /\ ps[i].start <= ps[i].end
         /\ ps[i].end <= l
  <2>1. \A i \in 1 .. r : ps[i].start <= ps[i].end /\ ps[i].end <= l
    BY ONLY <1>1, <1>4, <1>7, <1>13 DEF Inside
  <2> QED BY <1>14, <2>1 DEF Pieces
<1>19. Inside(sum)
  <2>1. \A i \in 1 .. r + 1 : qs[i].start <= qs[i].end /\ qs[i].end <= l + m + k
    <3> SUFFICES ASSUME NEW i \in 1 .. r + 1 PROVE qs[i].start <= qs[i].end
      /\ qs[i].end <= l + m + k
      OBVIOUS
    <3>1. CASE i = r + 1
      BY ONLY <1>11, <1>14, <3>1, l \in Nat, m \in Nat, k \in Nat
    <3>2. CASE i \in 1 .. r
      BY ONLY <1>14, <1>18, <3>2, l \in Nat, m \in Nat, k \in Nat, SMTT(30)
    <3> QED BY <1>17, <3>1, <3>2
  <2>2. Len(qs) = r + 1 /\ Len(all) = l + m + k
    BY <1>9, <1>14
  <2> QED BY ONLY <1>16, <2>1, <2>2 DEF Inside
<1>20. Held(sum)
  <2>1. ASSUME NEW j \in 0 .. (l + m + k) - 1, ~IsSpace(all[j + 1][1])
        PROVE  \E i \in 1 .. r + 1 : qs[i].start <= j /\ j < qs[i].end
    <3>1. CASE j < l
      <4>1. j + 1 \in 1 .. l /\ j + 1 \in 1 .. l + m /\ j \in 0 .. l - 1
        BY <3>1
      <4>2. all[j + 1] = a[j + 1]
        BY ONLY <1>8, <1>9, <4>1
      <4>3. PICK i \in 1 .. r : ps[i].start <= j /\ j < ps[i].end
        BY ONLY <1>1, <1>4, <1>7, <1>13, <2>1, <4>1, <4>2 DEF Held
      <4>4. i \in 1 .. r + 1 /\ qs[i] = ps[i]
        BY <1>13, <1>14
      <4> QED BY <4>3, <4>4
    <3>2. CASE l <= j /\ j < l + m
      <4>1. PICK i \in 1 .. m : j + 1 = l + i
        <5>1. (j + 1) - l \in 1 .. m /\ j + 1 = l + ((j + 1) - l)
          BY <3>2
        <5> QED BY <5>1
      <4>2. j + 1 \in 1 .. l + m
        BY <3>2
      <4>3. all[j + 1] = d[i]
        BY ONLY <1>8, <1>9, <4>1, <4>2
      <4> QED BY <1>5, <1>7, <2>1, <4>3
    <3>3. CASE l + m <= j
      <4>1. r + 1 \in 1 .. r + 1 /\ qs[r + 1].start <= j /\ j < qs[r + 1].end
        BY <1>11, <1>13, <1>14, <3>3
      <4> QED BY <4>1
    <3> QED BY <3>1, <3>2, <3>3
  <2>2. Len(qs) = r + 1 /\ Len(all) = l + m + k
    BY <1>9, <1>14
  <2> QED BY ONLY <1>16, <2>1, <2>2 DEF Held
<1>21. sum \in Sources(C, M)
  <2>1. sum \in [text : Seq(C), pieces : Seq(Pieces(M))]
    BY ONLY <1>9, <1>14, <1>15
  <2> QED BY ONLY <1>19, <1>20, <2>1 DEF Sources
<1>22. Has(all, a)
  <2>1. \A i \in 1 .. l : i \in 1 .. l + m + k /\ i \in 1 .. l + m
    OBVIOUS
  <2> QED BY ONLY <1>7, <1>8, <1>9, <2>1 DEF Has
<1>23. Has(all, b)
  <2>1. \A i \in 1 .. k : l + m + i \in 1 .. l + m + k
    OBVIOUS
  <2> QED BY ONLY <1>7, <1>9, <2>1 DEF Has
<1> QED BY <1>1, <1>16, <1>21, <1>22, <1>23

\* The source the combining starts with.
NoSource == [text |-> <<>>, pieces |-> <<>>]

\* The source the combining starts with is one.
LEMMA NoSourceIs ==
    ASSUME NEW C, NEW M
    PROVE  NoSource \in Sources(C, M)
<1>1. NoSource \in [text : Seq(C), pieces : Seq(Pieces(M))] /\ Len(NoSource.pieces) = 0
      /\ Len(NoSource.text) = 0
  BY DEF NoSource
<1>2. Inside(NoSource) /\ Held(NoSource)
  BY <1>1 DEF Inside, Held
<1> QED BY <1>1, <1>2 DEF Sources

\* Blocks are combined one after the other.
LEMMA CombineSteps ==
    ASSUME NEW C, Newline \in C, NEW M, NEW B, Blocky(B, C, M), NEW blocks \in Seq(B), NEW d \in Nat
    PROVE  \E g : /\ g[0] = NoSource /\ g[Len(blocks)] = CombineBlocks(blocks, d)
                  /\ \A i \in 0 .. Len(blocks) : g[i] \in Sources(C, M)
                  /\ \A i \in 1 .. Len(blocks) :
                        g[i - 1] \in Sources(C, M) /\ g[i] = Added(g[i - 1], blocks[i], d)
<1> DEFINE n == Len(blocks)
           step == [i \in 1 .. n |-> [a \in Sources(C, M) |-> Added(a, blocks[i], d)]]
           Solves(iter) == iter = [s \in SUBSET DOMAIN blocks |->
               IF s = {} THEN NoSource ELSE Added(iter[s \ {Max(s)}], blocks[Max(s)], d)]
<1>1. n \in Nat /\ DOMAIN blocks = 1 .. n /\ NoSource \in Sources(C, M)
  BY NoSourceIs
<1>2. \A i \in 1 .. n : \A a \in Sources(C, M) : Added(a, blocks[i], d) \in Sources(C, M)
  <2> SUFFICES ASSUME NEW i \in 1 .. n, NEW a \in Sources(C, M)
               PROVE  Added(a, blocks[i], d) \in Sources(C, M)
    OBVIOUS
  <2>1. blocks[i].text \in Seq(C) /\ blocks[i].meta \in M
    BY DEF Blocky
  <2> QED BY <2>1, AddedIs
<1> HIDE DEF n
<1>3. step \in StepsOf(Sources(C, M), n)
  BY <1>2 DEF StepsOf
<1>4. CombineBlocks(blocks, d) = (CHOOSE iter : Solves(iter))[1 .. n]
  BY <1>1 DEF CombineBlocks, NoSource, Added, FoldLeft, MapThenFoldSet
<1>5. \E iter : Solves(iter)
  <2>1. PICK iter : FoldSolution(iter, Sources(C, M), NoSource, step, n)
    <3> HIDE DEF step
    <3> QED BY ONLY <1>1, <1>3, FoldExists
  <2>2. \A s \in SUBSET (1 .. n) : s # {} => Max(s) \in 1 .. n
          /\ iter[s \ {Max(s)}] \in Sources(C, M)
    BY ONLY <1>1, <2>1, MaxOfInitial DEF FoldSolution
  <2>3. \A s \in SUBSET (1 .. n) : s # {} =>
            step[Max(s)][iter[s \ {Max(s)}]] = Added(iter[s \ {Max(s)}], blocks[Max(s)], d)
    BY ONLY <2>2
  <2> HIDE DEF step
  <2>4. Solves(iter)
    BY ONLY <1>1, <2>1, <2>3 DEF FoldOver, FoldSolution
  <2> QED BY <2>4
<1>6. PICK iter : Solves(iter) /\ CombineBlocks(blocks, d) = iter[1 .. n]
  <2> HIDE DEF Solves
  <2> QED BY ONLY <1>4, <1>5
<1>7. Computes(iter, Sources(C, M), NoSource, step, n)
  BY ONLY <1>1, <1>6, MaxOfInitial DEF Computes
<1>8. PICK g : FoldTrace(g, Sources(C, M), NoSource, step, n) /\ g[n] = iter[1 .. n]
  <2> HIDE DEF step, Solves
  <2> QED BY ONLY <1>1, <1>3, <1>7, FoldSteps
<1>9. \A i \in 1 .. n : g[i - 1] \in Sources(C, M) /\ g[i] = Added(g[i - 1], blocks[i], d)
  BY ONLY <1>1, <1>8 DEF FoldTrace
<1>10. \A i \in 0 .. n : g[i] \in Sources(C, M)
  BY ONLY <1>8 DEF FoldTrace
<1>11. g[0] = NoSource /\ g[n] = CombineBlocks(blocks, d)
  BY ONLY <1>6, <1>8 DEF FoldTrace
<1> HIDE DEF step, Solves
<1> QED BY <1>9, <1>10, <1>11 DEF n

\* Having is transitive.
LEMMA HasIs ==
    ASSUME NEW a, NEW b, NEW c, Has(a, b), Has(b, c)
    PROVE  Has(a, c)
BY DEF Has

\* A text has its own items.
LEMMA HasItself ==
    ASSUME NEW a
    PROVE  Has(a, a)
BY DEF Has

\* Combined blocks are a source that has the text of every one (_combine_blocks).
LEMMA CombineIs ==
    ASSUME NEW C, Newline \in C, NEW M, NEW B, Blocky(B, C, M), NEW blocks \in Seq(B), NEW d \in Nat
    PROVE  /\ CombineBlocks(blocks, d) \in Sources(C, M)
           /\ \A i \in 1 .. Len(blocks) : Has(CombineBlocks(blocks, d).text, blocks[i].text)
<1>1. PICK n \in Nat : n = Len(blocks)
  OBVIOUS
<1>2. PICK g : /\ g[0] = NoSource /\ g[n] = CombineBlocks(blocks, d)
               /\ \A i \in 0 .. n : g[i] \in Sources(C, M)
               /\ \A i \in 1 .. n :
                     g[i - 1] \in Sources(C, M) /\ g[i] = Added(g[i - 1], blocks[i], d)
  <2>1. \E g : /\ g[0] = NoSource /\ g[Len(blocks)] = CombineBlocks(blocks, d)
               /\ \A i \in 0 .. Len(blocks) : g[i] \in Sources(C, M)
               /\ \A i \in 1 .. Len(blocks) :
                     g[i - 1] \in Sources(C, M) /\ g[i] = Added(g[i - 1], blocks[i], d)
    BY ONLY Newline \in C, Blocky(B, C, M), blocks \in Seq(B), d \in Nat, CombineSteps
  <2> QED BY ONLY <1>1, <2>1
<1>3. \A i \in 1 .. n : Has(g[i].text, g[i - 1].text) /\ Has(g[i].text, blocks[i].text)
  <2> SUFFICES ASSUME NEW i \in 1 .. n
               PROVE  Has(g[i].text, g[i - 1].text) /\ Has(g[i].text, blocks[i].text)
    OBVIOUS
  <2>1. blocks[i].text \in Seq(C) /\ blocks[i].meta \in M
    BY <1>1 DEF Blocky
  <2>2. PICK a, b, c : a = g[i - 1] /\ b = blocks[i] /\ c = g[i]
    OBVIOUS
  <2>3. a \in Sources(C, M) /\ c = Added(a, b, d) /\ b.text \in Seq(C) /\ b.meta \in M
    BY <1>2, <2>1, <2>2
  <2>4. Has(c.text, a.text) /\ Has(c.text, b.text)
    BY ONLY <2>3, AddedIs, Newline \in C, d \in Nat
  <2> QED BY <2>2, <2>4
<1> DEFINE Good == {m \in 0 .. n : \A i \in 1 .. m : Has(g[m].text, blocks[i].text)}
<1>4. 0 \in Good
  OBVIOUS
<1>5. ASSUME NEW m \in 1 .. n, m - 1 \in Good PROVE m \in Good
  <2>1. \A i \in 1 .. m - 1 : Has(g[m - 1].text, blocks[i].text)
    BY <1>5
  <2>2. \A i \in 1 .. m - 1 : Has(g[m].text, blocks[i].text)
    BY <1>3, <2>1, HasIs
  <2>3. \A i \in 1 .. m : i = m \/ i \in 1 .. m - 1
    OBVIOUS
  <2>4. \A i \in 1 .. m : Has(g[m].text, blocks[i].text)
    BY <1>3, <2>2, <2>3
  <2> QED BY <2>4
<1>6. \A m \in 0 .. n : m \in Good
  <2> HIDE DEF Good
  <2> QED BY ONLY <1>4, <1>5, KeptByAll, <1>1
<1>7. n \in 0 .. n /\ n \in Good
  <2> HIDE DEF Good
  <2> QED BY <1>6
<1> QED BY <1>1, <1>2, <1>7

\* Sequences of blocks that are not empty, and sequences of these.
Runs(B) == {run \in Seq(B) : Len(run) >= 1}
Groups(B) == Seq(Runs(B))

\* block is in one of the groups.
InGroups(groups, block) ==
    \E i \in 1 .. Len(groups) : \E k \in 1 .. Len(groups[i]) : groups[i][k] = block

\* later has every block of earlier, and block.
Gains(later, earlier, block) ==
    /\ InGroups(later, block)
    /\ \A i \in 1 .. Len(earlier) : \A k \in 1 .. Len(earlier[i]) : InGroups(later, earlier[i][k])

\* A group of its own.
LEMMA NewGroup ==
    ASSUME NEW B, NEW groups \in Groups(B), NEW block \in B
    PROVE  /\ Append(groups, <<block>>) \in Groups(B)
           /\ Gains(Append(groups, <<block>>), groups, block)
<1>1. PICK run : run = <<block>>
  OBVIOUS
<1>2. run \in Runs(B) /\ Len(run) = 1 /\ run[1] = block
  BY <1>1, OneIsSeq DEF Runs
<1>3. PICK R : R = Runs(B)
  OBVIOUS
<1>4. groups \in Seq(R) /\ run \in R
  BY <1>2, <1>3 DEF Groups
<1>5. PICK more : more = Append(groups, run)
  OBVIOUS
<1>6. PICK n \in Nat : n = Len(groups)
  BY <1>4
<1>7. /\ more \in Seq(R) /\ Len(more) = n + 1 /\ more[n + 1] = run
      /\ \A i \in 1 .. n : more[i] = groups[i]
  <2>1. /\ more \in Seq(R) /\ Len(more) = Len(groups) + 1 /\ more[Len(groups) + 1] = run
        /\ \A i \in 1 .. Len(groups) : more[i] = groups[i]
    BY ONLY <1>4, <1>5, AppendIsSeq
  <2> QED BY ONLY <1>6, <2>1
<1>8. InGroups(more, block)
  <2>1. n + 1 \in 1 .. Len(more) /\ 1 \in 1 .. Len(more[n + 1]) /\ more[n + 1][1] = block
    <3>1. Len(more) = n + 1 /\ more[n + 1] = run
      BY ONLY <1>7
    <3>2. Len(run) = 1 /\ run[1] = block
      BY ONLY <1>2
    <3> QED BY ONLY <3>1, <3>2, <1>6
  <2> QED BY ONLY <2>1 DEF InGroups
<1>9. \A i \in 1 .. n : \A k \in 1 .. Len(groups[i]) : InGroups(more, groups[i][k])
  <2>1. \A i \in 1 .. n : i \in 1 .. Len(more)
    BY <1>7
  <2> QED BY ONLY <1>7, <2>1 DEF InGroups
<1>10. Gains(more, groups, block)
  BY ONLY <1>6, <1>8, <1>9 DEF Gains
<1>11. more \in Groups(B)
  BY ONLY <1>3, <1>7 DEF Groups
<1> QED BY ONLY <1>1, <1>5, <1>10, <1>11

\* A group that grows.
LEMMA LongerGroup ==
    ASSUME NEW B, NEW groups \in Groups(B), NEW block \in B, groups # <<>>
    PROVE  /\ Append(Front(groups), Append(Last(groups), block)) \in Groups(B)
           /\ Gains(Append(Front(groups), Append(Last(groups), block)), groups, block)
<1>1. PICK R : R = Runs(B)
  OBVIOUS
<1>2. groups \in Seq(R)
  BY <1>1 DEF Groups
<1>3. PICK n \in Nat : n = Len(groups) /\ n >= 1
  <2>1. Len(groups) \in Nat /\ Len(groups) # 0
    BY <1>2, EmptyIs
  <2> QED BY <2>1
<1>4. PICK front, last : front = Front(groups) /\ last = groups[n]
  OBVIOUS
<1>5. last \in R /\ \A i \in 1 .. n : groups[i] \in R
  BY <1>2, <1>3, <1>4
<1>6. /\ front \in Seq(R) /\ Len(front) = n - 1
      /\ \A i \in 1 .. n - 1 : front[i] = groups[i]
  <2>1. 1 \in 1 .. Len(groups) + 1 /\ n - 1 \in 1 - 1 .. Len(groups)
    BY ONLY <1>3
  <2>2. PICK one, j : one = 1 /\ j = n - 1
    OBVIOUS
  <2>3. one \in 1 .. Len(groups) + 1 /\ j \in one - 1 .. Len(groups)
    BY ONLY <2>1, <2>2
  <2>4. /\ SubSeq(groups, one, j) \in Seq(R) /\ Len(SubSeq(groups, one, j)) = j - one + 1
        /\ \A k \in 1 .. j - one + 1 : SubSeq(groups, one, j)[k] = groups[one + k - 1]
    BY ONLY <1>2, <2>3, SliceIsSeq
  <2>5. front = SubSeq(groups, one, j)
    BY ONLY <1>3, <1>4, <2>2 DEF Front
  <2>6. j - one + 1 = n - 1 /\ \A k \in 1 .. n - 1 : one + k - 1 = k
    BY ONLY <1>3, <2>2
  <2> QED BY ONLY <2>4, <2>5, <2>6
<1>7. PICK run : run = Append(last, block)
  OBVIOUS
<1>8. PICK m \in Nat : m = Len(last)
  BY <1>1, <1>5 DEF Runs
<1>9. /\ run \in R /\ Len(run) = m + 1 /\ run[m + 1] = block
      /\ \A k \in 1 .. m : run[k] = last[k]
  <2>1. last \in Seq(B)
    BY <1>1, <1>5 DEF Runs
  <2>2. /\ run \in Seq(B) /\ Len(run) = Len(last) + 1 /\ run[Len(last) + 1] = block
        /\ \A k \in 1 .. Len(last) : run[k] = last[k]
    BY ONLY <1>7, <2>1, AppendIsSeq, block \in B
  <2> QED BY <1>1, <1>8, <2>2 DEF Runs
<1>10. PICK more : more = Append(front, run)
  OBVIOUS
<1>11. /\ more \in Seq(R) /\ Len(more) = n /\ more[n] = run
       /\ \A i \in 1 .. n - 1 : more[i] = groups[i]
  <2>1. front \in Seq(R) /\ run \in R
    BY ONLY <1>6, <1>9
  <2>2. /\ more \in Seq(R) /\ Len(more) = Len(front) + 1 /\ more[Len(front) + 1] = run
        /\ \A i \in 1 .. Len(front) : more[i] = front[i]
    BY ONLY <1>10, <2>1, AppendIsSeq
  <2>3. Len(front) + 1 = n /\ Len(front) = n - 1
    BY ONLY <1>3, <1>6
  <2> QED BY ONLY <1>6, <2>2, <2>3
<1>12. InGroups(more, block)
  <2>1. n \in 1 .. Len(more) /\ m + 1 \in 1 .. Len(more[n]) /\ more[n][m + 1] = block
    BY <1>3, <1>9, <1>11
  <2> QED BY ONLY <2>1 DEF InGroups
<1>13. \A i \in 1 .. n : \A k \in 1 .. Len(groups[i]) : InGroups(more, groups[i][k])
  <2> SUFFICES ASSUME NEW i \in 1 .. n, NEW k \in 1 .. Len(groups[i])
               PROVE  InGroups(more, groups[i][k])
    OBVIOUS
  <2>1. i \in 1 .. Len(more)
    BY <1>11
  <2>2. CASE i = n
    <3>1. k \in 1 .. m /\ k \in 1 .. Len(more[n]) /\ more[n][k] = groups[i][k]
      BY <1>4, <1>8, <1>9, <1>11, <2>2
    <3> QED BY ONLY <2>1, <2>2, <3>1 DEF InGroups
  <2>3. CASE i # n
    <3>1. more[i] = groups[i]
      BY <1>11, <2>3
    <3> QED BY <2>1, <3>1 DEF InGroups
  <2> QED BY <2>2, <2>3
<1>14. Gains(more, groups, block)
  BY ONLY <1>3, <1>12, <1>13 DEF Gains
<1>15. more \in Groups(B)
  BY ONLY <1>1, <1>11 DEF Groups
<1>16. more = Append(Front(groups), Append(Last(groups), block))
  BY ONLY <1>3, <1>4, <1>7, <1>10 DEF Last
<1> QED BY ONLY <1>14, <1>15, <1>16

\* Every block is in a group once all have been taken.
LEMMA GroupsHoldAll ==
    ASSUME NEW B, NEW blocks \in Seq(B), NEW g,
           \A i \in 1 .. Len(blocks) : Gains(g[i], g[i - 1], blocks[i])
    PROVE  \A i \in 1 .. Len(blocks) : InGroups(g[Len(blocks)], blocks[i])
<1>1. PICK n \in Nat : n = Len(blocks)
  OBVIOUS
<1> DEFINE Good == {m \in 0 .. n : \A i \in 1 .. m : InGroups(g[m], blocks[i])}
<1>2. 0 \in Good
  OBVIOUS
<1>3. ASSUME NEW m \in 1 .. n, m - 1 \in Good PROVE m \in Good
  <2>1. \A i \in 1 .. m - 1 : InGroups(g[m - 1], blocks[i])
    BY <1>3
  <2>2. Gains(g[m], g[m - 1], blocks[m])
    BY <1>1
  <2>3. \A i \in 1 .. m - 1 : InGroups(g[m], blocks[i])
    <3> SUFFICES ASSUME NEW i \in 1 .. m - 1 PROVE InGroups(g[m], blocks[i])
      OBVIOUS
    <3>1. PICK j \in 1 .. Len(g[m - 1]) :
              \E k \in 1 .. Len(g[m - 1][j]) : g[m - 1][j][k] = blocks[i]
      BY <2>1 DEF InGroups
    <3> QED BY <2>2, <3>1 DEF Gains
  <2>4. InGroups(g[m], blocks[m])
    BY ONLY <2>2 DEF Gains
  <2>5. \A i \in 1 .. m : i = m \/ i \in 1 .. m - 1
    OBVIOUS
  <2>6. \A i \in 1 .. m : InGroups(g[m], blocks[i])
    BY ONLY <2>3, <2>4, <2>5
  <2> QED BY <2>6
<1>4. \A m \in 0 .. n : m \in Good
  <2> HIDE DEF Good
  <2> QED BY ONLY <1>2, <1>3, KeptByAll, <1>1
<1>5. n \in 0 .. n /\ n \in Good
  <2> HIDE DEF Good
  <2> QED BY <1>4
<1> QED BY <1>1, <1>5

Atomic(block) == block.type \in {"code", "table_row"}
ProseGrouped(groups, block) ==
    IF groups # <<>> /\ ~Atomic(block) /\ ~Atomic(Last(Last(groups)))
    THEN Append(Front(groups), Append(Last(groups), block))
    ELSE Append(groups, <<block>>)
ProseGroups(blocks) == FoldLeft(ProseGrouped, <<>>, blocks)

NextRow(a, b) == a.meta.sheet = b.meta.sheet /\ b.meta.row = a.meta.row + 1
RowGrouped(groups, block) ==
    IF groups # <<>> /\ NextRow(Last(Last(groups)), block)
    THEN Append(Front(groups), Append(Last(groups), block))
    ELSE Append(groups, <<block>>)
RowGroups(blocks) == FoldLeft(RowGrouped, <<>>, blocks)

\* Grouping a block keeps the groups well formed, and the block.
LEMMA GroupedIs ==
    ASSUME NEW B, NEW groups \in Groups(B), NEW block \in B
    PROVE  /\ ProseGrouped(groups, block) \in Groups(B) /\ RowGrouped(groups, block) \in Groups(B)
           /\ Gains(ProseGrouped(groups, block), groups, block)
           /\ Gains(RowGrouped(groups, block), groups, block)
<1>1. PICK a, b : a = Append(Front(groups), Append(Last(groups), block))
             /\ b = Append(groups, <<block>>)
  OBVIOUS
<1>2. b \in Groups(B) /\ Gains(b, groups, block)
  BY <1>1, NewGroup
<1>3. groups # <<>> => a \in Groups(B) /\ Gains(a, groups, block)
  BY <1>1, LongerGroup
<1>4. ProseGrouped(groups, block) = b \/ (groups # <<>> /\ ProseGrouped(groups, block) = a)
  BY <1>1 DEF ProseGrouped
<1>5. RowGrouped(groups, block) = b \/ (groups # <<>> /\ RowGrouped(groups, block) = a)
  BY <1>1 DEF RowGrouped
<1> QED BY ONLY <1>2, <1>3, <1>4, <1>5

\* The prose is grouped block by block.
LEMMA ProseSteps ==
    ASSUME NEW B, NEW blocks \in Seq(B)
    PROVE  \E g : /\ g[0] = <<>> /\ g[Len(blocks)] = ProseGroups(blocks)
                  /\ \A i \in 0 .. Len(blocks) : g[i] \in Groups(B)
                  /\ \A i \in 1 .. Len(blocks) :
                        g[i - 1] \in Groups(B) /\ g[i] = ProseGrouped(g[i - 1], blocks[i])
<1> DEFINE n == Len(blocks)
           step == [i \in 1 .. n |-> [a \in Groups(B) |-> ProseGrouped(a, blocks[i])]]
           Solves(iter) == iter = [s \in SUBSET DOMAIN blocks |->
               IF s = {} THEN <<>> ELSE ProseGrouped(iter[s \ {Max(s)}], blocks[Max(s)])]
<1>1. n \in Nat /\ DOMAIN blocks = 1 .. n /\ <<>> \in Groups(B)
  BY DEF Groups
<1>2. \A i \in 1 .. n : \A a \in Groups(B) : ProseGrouped(a, blocks[i]) \in Groups(B)
  BY GroupedIs
<1> HIDE DEF n
<1>3. step \in StepsOf(Groups(B), n)
  BY <1>2 DEF StepsOf
<1>4. ProseGroups(blocks) = (CHOOSE iter : Solves(iter))[1 .. n]
  BY <1>1 DEF ProseGroups, FoldLeft, MapThenFoldSet
<1>5. \E iter : Solves(iter)
  <2>1. PICK iter : FoldSolution(iter, Groups(B), <<>>, step, n)
    <3> HIDE DEF step
    <3> QED BY ONLY <1>1, <1>3, FoldExists
  <2>2. \A s \in SUBSET (1 .. n) : s # {} => Max(s) \in 1 .. n /\ iter[s \ {Max(s)}] \in Groups(B)
    BY ONLY <1>1, <2>1, MaxOfInitial DEF FoldSolution
  <2>3. \A s \in SUBSET (1 .. n) : s # {} =>
            step[Max(s)][iter[s \ {Max(s)}]] = ProseGrouped(iter[s \ {Max(s)}], blocks[Max(s)])
    BY ONLY <2>2
  <2> HIDE DEF step
  <2>4. Solves(iter)
    BY ONLY <1>1, <2>1, <2>3 DEF FoldOver, FoldSolution
  <2> QED BY <2>4
<1>6. PICK iter : Solves(iter) /\ ProseGroups(blocks) = iter[1 .. n]
  <2> HIDE DEF Solves
  <2> QED BY ONLY <1>4, <1>5
<1>7. Computes(iter, Groups(B), <<>>, step, n)
  BY ONLY <1>1, <1>6, MaxOfInitial DEF Computes
<1>8. PICK g : FoldTrace(g, Groups(B), <<>>, step, n) /\ g[n] = iter[1 .. n]
  <2> HIDE DEF step, Solves
  <2> QED BY ONLY <1>1, <1>3, <1>7, FoldSteps
<1>9. \A i \in 1 .. n : g[i - 1] \in Groups(B) /\ g[i] = ProseGrouped(g[i - 1], blocks[i])
  BY ONLY <1>1, <1>8 DEF FoldTrace
<1>10. \A i \in 0 .. n : g[i] \in Groups(B)
  BY ONLY <1>8 DEF FoldTrace
<1>11. g[0] = <<>> /\ g[n] = ProseGroups(blocks)
  BY ONLY <1>6, <1>8 DEF FoldTrace
<1> HIDE DEF step, Solves
<1> QED BY <1>9, <1>10, <1>11 DEF n

\* The rows are grouped one by one.
LEMMA RowSteps ==
    ASSUME NEW B, NEW blocks \in Seq(B)
    PROVE  \E g : /\ g[0] = <<>> /\ g[Len(blocks)] = RowGroups(blocks)
                  /\ \A i \in 0 .. Len(blocks) : g[i] \in Groups(B)
                  /\ \A i \in 1 .. Len(blocks) :
                        g[i - 1] \in Groups(B) /\ g[i] = RowGrouped(g[i - 1], blocks[i])
<1> DEFINE n == Len(blocks)
           step == [i \in 1 .. n |-> [a \in Groups(B) |-> RowGrouped(a, blocks[i])]]
           Solves(iter) == iter = [s \in SUBSET DOMAIN blocks |->
               IF s = {} THEN <<>> ELSE RowGrouped(iter[s \ {Max(s)}], blocks[Max(s)])]
<1>1. n \in Nat /\ DOMAIN blocks = 1 .. n /\ <<>> \in Groups(B)
  BY DEF Groups
<1>2. \A i \in 1 .. n : \A a \in Groups(B) : RowGrouped(a, blocks[i]) \in Groups(B)
  BY GroupedIs
<1> HIDE DEF n
<1>3. step \in StepsOf(Groups(B), n)
  BY <1>2 DEF StepsOf
<1>4. RowGroups(blocks) = (CHOOSE iter : Solves(iter))[1 .. n]
  BY <1>1 DEF RowGroups, FoldLeft, MapThenFoldSet
<1>5. \E iter : Solves(iter)
  <2>1. PICK iter : FoldSolution(iter, Groups(B), <<>>, step, n)
    <3> HIDE DEF step
    <3> QED BY ONLY <1>1, <1>3, FoldExists
  <2>2. \A s \in SUBSET (1 .. n) : s # {} => Max(s) \in 1 .. n /\ iter[s \ {Max(s)}] \in Groups(B)
    BY ONLY <1>1, <2>1, MaxOfInitial DEF FoldSolution
  <2>3. \A s \in SUBSET (1 .. n) : s # {} =>
            step[Max(s)][iter[s \ {Max(s)}]] = RowGrouped(iter[s \ {Max(s)}], blocks[Max(s)])
    BY ONLY <2>2
  <2> HIDE DEF step
  <2>4. Solves(iter)
    BY ONLY <1>1, <2>1, <2>3 DEF FoldOver, FoldSolution
  <2> QED BY <2>4
<1>6. PICK iter : Solves(iter) /\ RowGroups(blocks) = iter[1 .. n]
  <2> HIDE DEF Solves
  <2> QED BY ONLY <1>4, <1>5
<1>7. Computes(iter, Groups(B), <<>>, step, n)
  BY ONLY <1>1, <1>6, MaxOfInitial DEF Computes
<1>8. PICK g : FoldTrace(g, Groups(B), <<>>, step, n) /\ g[n] = iter[1 .. n]
  <2> HIDE DEF step, Solves
  <2> QED BY ONLY <1>1, <1>3, <1>7, FoldSteps
<1>9. \A i \in 1 .. n : g[i - 1] \in Groups(B) /\ g[i] = RowGrouped(g[i - 1], blocks[i])
  BY ONLY <1>1, <1>8 DEF FoldTrace
<1>10. \A i \in 0 .. n : g[i] \in Groups(B)
  BY ONLY <1>8 DEF FoldTrace
<1>11. g[0] = <<>> /\ g[n] = RowGroups(blocks)
  BY ONLY <1>6, <1>8 DEF FoldTrace
<1> HIDE DEF step, Solves
<1> QED BY <1>9, <1>10, <1>11 DEF n

\* The groups are not empty and hold every block.
LEMMA GroupsAre ==
    ASSUME NEW B, NEW blocks \in Seq(B)
    PROVE  /\ ProseGroups(blocks) \in Groups(B) /\ RowGroups(blocks) \in Groups(B)
           /\ \A i \in 1 .. Len(blocks) : InGroups(ProseGroups(blocks), blocks[i])
                                          /\ InGroups(RowGroups(blocks), blocks[i])
<1>1. PICK n \in Nat : n = Len(blocks)
  OBVIOUS
<1>2. PICK g : /\ g[0] = <<>> /\ g[n] = ProseGroups(blocks)
               /\ \A i \in 0 .. n : g[i] \in Groups(B)
               /\ \A i \in 1 .. n : g[i - 1] \in Groups(B)
                    /\ g[i] = ProseGrouped(g[i - 1], blocks[i])
  BY <1>1, ProseSteps
<1>3. PICK h : /\ h[0] = <<>> /\ h[n] = RowGroups(blocks)
               /\ \A i \in 0 .. n : h[i] \in Groups(B)
               /\ \A i \in 1 .. n : h[i - 1] \in Groups(B) /\ h[i] = RowGrouped(h[i - 1], blocks[i])
  BY <1>1, RowSteps
<1>4. \A i \in 1 .. n : blocks[i] \in B
  BY <1>1
<1>5. \A i \in 1 .. Len(blocks) : Gains(g[i], g[i - 1], blocks[i])
  BY ONLY <1>1, <1>2, <1>4, GroupedIs
<1>6. \A i \in 1 .. Len(blocks) : Gains(h[i], h[i - 1], blocks[i])
  BY ONLY <1>1, <1>3, <1>4, GroupedIs
<1>7. /\ \A i \in 1 .. Len(blocks) : InGroups(g[Len(blocks)], blocks[i])
  BY ONLY <1>5, GroupsHoldAll, blocks \in Seq(B)
<1>8. /\ \A i \in 1 .. Len(blocks) : InGroups(h[Len(blocks)], blocks[i])
  BY ONLY <1>6, GroupsHoldAll, blocks \in Seq(B)
<1>9. n \in 0 .. n
  OBVIOUS
<1> QED BY ONLY <1>1, <1>2, <1>3, <1>7, <1>8, <1>9

\* The sources that general segments and the parents of a spreadsheet are cut
\* from have the text of every block (_general_sources,
\* _spreadsheet_parent_sources).
LEMMA GroupedSources ==
    ASSUME NEW C, Newline \in C, NEW M, NEW B, Blocky(B, C, M), NEW blocks \in Seq(B), NEW sources,
           sources = GeneralSources(blocks) \/ sources = SpreadsheetParents(blocks)
    PROVE  /\ sources \in Seq(Sources(C, M))
           /\ \A i \in 1 .. Len(blocks) : \E j \in 1 .. Len(sources) :
                 Has(sources[j].text, blocks[i].text)
<1>1. PICK groups, d :
          /\ groups \in Groups(B) /\ d \in Nat
          /\ \A i \in 1 .. Len(blocks) : InGroups(groups, blocks[i])
          /\ sources = [i \in DOMAIN groups |-> CombineBlocks(groups[i], d)]
  <2>1. CASE sources = GeneralSources(blocks)
    <3>1. GeneralSources(blocks) = [i \in DOMAIN ProseGroups(blocks) |->
            CombineBlocks(ProseGroups(blocks)[i], 2)]
      BY DEF GeneralSources, ProseGroups, ProseGrouped, Atomic
    <3> QED BY <2>1, <3>1, GroupsAre, ZenonT(30)
  <2>2. CASE sources = SpreadsheetParents(blocks)
    <3>1. SpreadsheetParents(blocks) =
            [i \in DOMAIN RowGroups(blocks) |-> CombineBlocks(RowGroups(blocks)[i], 1)]
      BY DEF SpreadsheetParents, RowGroups, RowGrouped, NextRow
    <3> QED BY <2>2, <3>1, GroupsAre
  <2> QED BY <2>1, <2>2
<1>2. PICK n \in Nat : n = Len(groups) /\ DOMAIN groups = 1 .. n
  BY <1>1 DEF Groups
<1>3. \A i \in 1 .. n : groups[i] \in Seq(B)
  <2>1. PICK R : R = Runs(B)
    OBVIOUS
  <2>2. \A i \in 1 .. n : groups[i] \in R
    BY <1>1, <1>2, <2>1 DEF Groups
  <2> QED BY ONLY <2>1, <2>2 DEF Runs
<1>4. \A i \in 1 .. n : /\ CombineBlocks(groups[i], d) \in Sources(C, M)
                        /\ \A k \in 1 .. Len(groups[i]) :
                              Has(CombineBlocks(groups[i], d).text, groups[i][k].text)
  BY ONLY <1>3, CombineIs, Newline \in C, Blocky(B, C, M), <1>1
<1>5. \A i \in 1 .. n : sources[i] = CombineBlocks(groups[i], d)
  BY <1>1, <1>2
<1>6. sources \in Seq(Sources(C, M)) /\ Len(sources) = n
  <2>1. DOMAIN sources = 1 .. n /\ sources = [i \in DOMAIN sources |-> sources[i]]
    BY <1>1, <1>2
  <2>2. \A i \in 1 .. n : sources[i] \in Sources(C, M)
    BY <1>4, <1>5
  <2> QED BY ONLY <2>1, <2>2, ListIsSeq, n \in Nat
<1>7. ASSUME NEW i \in 1 .. Len(blocks) PROVE \E j \in 1 .. n : Has(sources[j].text, blocks[i].text)
  <2>1. PICK j \in 1 .. n : \E k \in 1 .. Len(groups[j]) : groups[j][k] = blocks[i]
    BY <1>1, <1>2 DEF InGroups
  <2>2. PICK k \in 1 .. Len(groups[j]) : groups[j][k] = blocks[i]
    BY <2>1
  <2>3. Has(sources[j].text, groups[j][k].text)
    BY <1>4, <1>5
  <2> QED BY <2>2, <2>3
<1> QED BY ONLY <1>6, <1>7

\* What the metadata of pieces is merged to.
Merged(M) == {<<>>} \cup {MergeMetadata(items) : items \in Seq(M)}

\* The metadata of a part of a source (_metadata_for_range).
LEMMA MetadataIs ==
    ASSUME NEW C, NEW M, NEW source \in Sources(C, M), NEW start, NEW end
    PROVE  MetadataFor(source, start, end) \in Merged(M)
<1>1. PICK positions : positions = {i \in DOMAIN source.pieces :
                        source.pieces[i].start < end /\ start < source.pieces[i].end}
  OBVIOUS
<1>2. PICK hit : hit = Kept(source.pieces, positions)
  OBVIOUS
<1>3. PICK ps, T : ps = source.pieces /\ T = Pieces(M)
  OBVIOUS
<1>4. ps \in Seq(T)
  BY <1>3, SourceFacts
<1>5. hit \in Seq(T)
  BY ONLY <1>2, <1>3, <1>4, KeptIs
<1>6. PICK items : items = [i \in DOMAIN hit |-> hit[i].meta]
  OBVIOUS
<1>7. items \in Seq(M)
  <2>1. PICK n \in Nat : n = Len(hit) /\ DOMAIN hit = 1 .. n
    BY <1>5
  <2>2. \A i \in 1 .. n : hit[i] \in T
    BY <1>5, <2>1
  <2>3. \A i \in 1 .. n : items[i] \in M
    BY ONLY <1>3, <1>6, <2>1, <2>2 DEF Pieces
  <2>4. DOMAIN items = 1 .. n /\ items = [i \in DOMAIN items |-> items[i]]
    BY ONLY <1>6, <2>1
  <2> QED BY ONLY <2>1, <2>3, <2>4, ListIsSeq
<1>8. MetadataFor(source, start, end) = IF hit = <<>> THEN <<>> ELSE MergeMetadata(items)
  BY ONLY <1>1, <1>2, <1>6 DEF MetadataFor
<1> QED BY <1>7, <1>8 DEF Merged

(***************************************************************************)
(* Work over the segments S: a child's parent is before it, and has its    *)
(* text; a position is the number of segments before.                      *)
(***************************************************************************)
Families(out) ==
    \A i \in 1 .. Len(out) :
        /\ out[i].position = i - 1
        /\ out[i].parent_local_id # <<>> =>
              \E j \in 1 .. i - 1 : /\ out[j].local_id = out[i].parent_local_id
                                    /\ Has(out[j].content, out[i].content)
WorkShape(S) == [out : Seq(S), scanned : Nat, over : BOOLEAN]
Works(S) == {w \in WorkShape(S) : Families(w.out)}

\* later has all that earlier has, unless a budget was exceeded.
Grows(earlier, later) ==
    later.over = FALSE =>
        /\ earlier.over = FALSE /\ Len(earlier.out) <= Len(later.out)
        /\ \A i \in 1 .. Len(earlier.out) : later.out[i] = earlier.out[i]

\* The segment named parent is there and has the text.
Hosted(work, parent, text) ==
    parent # <<>> /\ work.over = FALSE =>
        \E j \in 1 .. Len(work.out) : work.out[j].local_id = parent
          /\ Has(work.out[j].content, text)

\* What is known of work.
LEMMA WorkFacts ==
    ASSUME NEW S, NEW work \in Works(S)
    PROVE  /\ work \in WorkShape(S) /\ Families(work.out) /\ work.out \in Seq(S)
           /\ Len(work.out) \in Nat /\ work.scanned \in Nat /\ work.over \in BOOLEAN
BY DEF Works, WorkShape

\* Work that exceeded a budget.
LEMMA OverIs ==
    ASSUME NEW S, NEW work \in Works(S), NEW next, next = [work EXCEPT !.over = TRUE]
    PROVE  next \in Works(S) /\ Grows(work, next) /\ next.over = TRUE
<1>1. next \in WorkShape(S) /\ next.out = work.out /\ next.over = TRUE
  BY WorkFacts DEF WorkShape
<1>2. Families(next.out)
  BY <1>1, WorkFacts
<1> QED BY ONLY <1>1, <1>2 DEF Works, Grows

\* next is the work with one more segment.
Lengthened(S, work, segment, next) ==
    /\ next \in Works(S) /\ Grows(work, next) /\ next.over = FALSE
    /\ Len(next.out) = Len(work.out) + 1 /\ next.out[Len(next.out)] = segment

\* Work that has one more segment.
LEMMA LongerIs ==
    ASSUME NEW S, NEW work \in Works(S), NEW segment \in S, NEW text,
           segment.position = Len(work.out), Has(text, segment.content), work.over = FALSE,
           Hosted(work, segment.parent_local_id, text),
           NEW next, next = [work EXCEPT !.out = Append(@, segment)]
    PROVE  Lengthened(S, work, segment, next)
<1>1. PICK out, more : out = work.out /\ more = next.out
  OBVIOUS
<1>2. out \in Seq(S) /\ Families(out)
  BY <1>1, WorkFacts
<1>3. more = Append(out, segment) /\ next.over = FALSE /\ next \in WorkShape(S)
  <2>1. Append(out, segment) \in Seq(S)
    BY <1>2, AppendIsSeq
  <2>2. work \in WorkShape(S)
    BY WorkFacts
  <2> QED BY <1>1, <2>1, <2>2 DEF WorkShape
<1>4. PICK n \in Nat : n = Len(out)
  BY <1>2
<1>5. /\ Len(more) = n + 1 /\ more[n + 1] = segment
      /\ \A i \in 1 .. n : more[i] = out[i]
  <2>1. /\ Len(more) = Len(out) + 1 /\ more[Len(out) + 1] = segment
        /\ \A i \in 1 .. Len(out) : more[i] = out[i]
    BY ONLY <1>2, <1>3, AppendIsSeq, segment \in S
  <2> QED BY ONLY <1>4, <2>1
<1>6. Families(more)
  <2> SUFFICES ASSUME NEW i \in 1 .. n + 1
               PROVE  /\ more[i].position = i - 1
                      /\ more[i].parent_local_id # <<>> =>
                            \E j \in 1 .. i - 1 : /\ more[j].local_id = more[i].parent_local_id
                                                  /\ Has(more[j].content, more[i].content)
    BY <1>5 DEF Families
  <2>1. CASE i = n + 1
    <3>1. more[i] = segment /\ segment.position = i - 1
      BY <1>1, <1>4, <1>5, <2>1
    <3>2. ASSUME segment.parent_local_id # <<>>
          PROVE  \E j \in 1 .. n : /\ more[j].local_id = segment.parent_local_id
                                   /\ Has(more[j].content, segment.content)
      <4>1. PICK j \in 1 .. n : out[j].local_id = segment.parent_local_id
                   /\ Has(out[j].content, text)
        BY <1>1, <1>4, <3>2 DEF Hosted
      <4>2. Has(out[j].content, segment.content)
        BY <4>1, HasIs
      <4> QED BY <1>5, <4>1, <4>2
    <3> QED BY <2>1, <3>1, <3>2
  <2>2. CASE i \in 1 .. n
    <3>1. /\ out[i].position = i - 1
          /\ out[i].parent_local_id # <<>> =>
                \E j \in 1 .. i - 1 : /\ out[j].local_id = out[i].parent_local_id
                                      /\ Has(out[j].content, out[i].content)
      BY <1>2, <1>4, <2>2 DEF Families
    <3>2. more[i] = out[i] /\ \A j \in 1 .. i - 1 : more[j] = out[j]
      BY <1>5, <2>2
    <3> QED BY ONLY <3>1, <3>2
  <2>3. i = n + 1 \/ i \in 1 .. n
    OBVIOUS
  <2> QED BY <2>1, <2>2, <2>3
<1>7. next \in Works(S)
  BY <1>1, <1>3, <1>6 DEF Works
<1>8. Grows(work, next)
  BY ONLY <1>1, <1>4, <1>5, work.over = FALSE DEF Grows
<1> QED BY ONLY <1>1, <1>3, <1>4, <1>5, <1>7, <1>8 DEF Lengthened

\* Growing is transitive, and keeps what is hosted.
LEMMA GrowsIs ==
    ASSUME NEW S, NEW a \in Works(S), NEW b \in Works(S), NEW c \in Works(S), Grows(a, b),
             Grows(b, c)
    PROVE  Grows(a, c)
<1>1. Len(a.out) \in Nat /\ Len(b.out) \in Nat /\ Len(c.out) \in Nat
  BY WorkFacts
<1> QED BY <1>1 DEF Grows

\* What is hosted stays so.
LEMMA HostedStays ==
    ASSUME NEW S, NEW a \in Works(S), NEW b \in Works(S), Grows(a, b), NEW parent, NEW text,
           Hosted(a, parent, text)
    PROVE  Hosted(b, parent, text)
<1>1. Len(a.out) \in Nat /\ Len(b.out) \in Nat
  BY WorkFacts
<1> SUFFICES ASSUME parent # <<>>, b.over = FALSE
             PROVE  \E j \in 1 .. Len(b.out) : b.out[j].local_id = parent
                      /\ Has(b.out[j].content, text)
  BY DEF Hosted
<1>2. /\ a.over = FALSE /\ Len(a.out) <= Len(b.out)
      /\ \A i \in 1 .. Len(a.out) : b.out[i] = a.out[i]
  BY DEF Grows
<1>3. PICK j \in 1 .. Len(a.out) : a.out[j].local_id = parent /\ Has(a.out[j].content, text)
  BY <1>2 DEF Hosted
<1> QED BY <1>1, <1>2, <1>3

\* Work that grows at every step grows from every step to the last.
LEMMA TraceGrows ==
    ASSUME NEW S, NEW n \in Nat, NEW g, \A i \in 0 .. n : g[i] \in Works(S),
           \A i \in 1 .. n : Grows(g[i - 1], g[i])
    PROVE  \A i \in 0 .. n : Grows(g[i], g[n])
<1> DEFINE Good == {m \in 0 .. n : \A i \in 0 .. m : Grows(g[i], g[m])}
<1>1. \A i \in 0 .. n : Grows(g[i], g[i])
  <2>1. \A i \in 0 .. n : Len(g[i].out) \in Nat
    BY WorkFacts
  <2> QED BY <2>1 DEF Grows
<1>2. 0 \in Good
  <2>1. \A i \in 0 .. 0 : i = 0
    OBVIOUS
  <2> QED BY <1>1, <2>1
<1>3. ASSUME NEW m \in 1 .. n, m - 1 \in Good PROVE m \in Good
  <2> SUFFICES ASSUME NEW i \in 0 .. m PROVE Grows(g[i], g[m])
    BY <1>3
  <2>1. CASE i = m
    BY <1>1, <2>1
  <2>2. CASE i # m
    <3>1. i \in 0 .. m - 1 /\ i \in 0 .. n /\ m - 1 \in 0 .. n /\ m \in 0 .. n
      BY <2>2
    <3>2. Grows(g[i], g[m - 1]) /\ Grows(g[m - 1], g[m])
      BY <1>3, <3>1
    <3>3. PICK a, b, c : a = g[i] /\ b = g[m - 1] /\ c = g[m]
      OBVIOUS
    <3>4. a \in Works(S) /\ b \in Works(S) /\ c \in Works(S)
      BY <3>1, <3>3
    <3> HIDE DEF Good
    <3>5. Grows(a, c)
      BY ONLY <3>2, <3>3, <3>4, GrowsIs
    <3> QED BY <3>3, <3>5
  <2> QED BY <2>1, <2>2
<1>4. \A m \in 0 .. n : m \in Good
  <2> HIDE DEF Good
  <2> QED BY ONLY <1>2, <1>3, KeptByAll, n \in Nat
<1>5. n \in 0 .. n /\ n \in Good
  <2> HIDE DEF Good
  <2> QED BY <1>4
<1> QED BY <1>5

(***************************************************************************)
(* Segments over the characters C and the metadata M, of the given types:  *)
(* none is blank, a parent is at most pm long and any other at most m.     *)
(***************************************************************************)
Ids == {"general", "parent", "child"} \X Nat
SegmentShape(C, M, types) ==
    [local_id : Ids, parent_local_id : Ids \cup {<<>>}, position : Nat, content : Seq(C),
     source_metadata : Merged(M), index_type : types]
SegmentsOver(C, M, types, pm, m) ==
    {s \in SegmentShape(C, M, types) :
        /\ ~Blank(s.content)
        /\ s.index_type = "parent" => Len(s.content) <= pm
        /\ s.index_type # "parent" => Len(s.content) <= m}

\* The number of a new segment.
LEMMA SerialIs ==
    ASSUME NEW S, NEW work \in Works(S), NEW type
    PROVE  Serial(work, type) \in Nat
<1>1. PICK n \in Nat : n = Len(work.out) /\ DOMAIN work.out = 1 .. n
  BY WorkFacts
<1>2. PICK all, some : /\ all = 1 .. n
                       /\ some = {i \in DOMAIN work.out : work.out[i].index_type = type}
  OBVIOUS
<1>3. IsFiniteSet(all) /\ some \subseteq all
  <2>1. 1 \in Int /\ n \in Int
    OBVIOUS
  <2>2. IsFiniteSet(1 .. n)
    BY ONLY <2>1, FS_Interval
  <2> QED BY <1>1, <1>2, <2>2
<1>4. IsFiniteSet(some)
  BY ONLY <1>3, FS_Subset
<1>5. Cardinality(some) \in Nat
  BY ONLY <1>4, FS_CardinalityType
<1> QED BY <1>2, <1>5 DEF Serial

\* The segment that is emitted.
NewSegment(work, type, parent, content, meta) ==
    [local_id |-> <<type, Serial(work, type)>>, parent_local_id |-> parent,
     position |-> Len(work.out), content |-> content, source_metadata |-> meta,
     index_type |-> type]

\* The work has a segment of the type with this content.
Emitted(work, type, content) ==
    \E j \in 1 .. Len(work.out) : work.out[j].index_type = type /\ work.out[j].content = content

\* next is the work after a segment of the type with the content was emitted.
Issued(S, work, next, type, content) ==
    /\ next \in Works(S) /\ Grows(work, next)
    /\ next.over = FALSE => Emitted(next, type, content)
    /\ next.over = FALSE =>
          /\ Len(next.out) >= 1
          /\ next.out[Len(next.out)].local_id = <<type, Serial(work, type)>>
          /\ next.out[Len(next.out)].content = content

\* Emitting a segment of an allowed length whose parent is there keeps the work
\* well formed; unless a budget is exceeded the segment is in it (_emit).
LEMMA EmitIs ==
    ASSUME NEW C, NEW M, NEW types \in SUBSET {"general", "parent", "child"}, NEW pm, NEW m,
           NEW S, S = SegmentsOver(C, M, types, pm, m), NEW work \in Works(S),
           NEW type \in types, NEW parent \in Ids \cup {<<>>}, NEW content \in Seq(C),
           NEW meta \in Merged(M), NEW text, Has(text, content), Hosted(work, parent, text),
           ~Blank(content), type = "parent" => Len(content) <= pm,
           type # "parent" => Len(content) <= m,
           NEW next, next = Emit(work, type, parent, content, meta)
    PROVE  Issued(S, work, next, type, content)
<1>1. PICK segment : segment = NewSegment(work, type, parent, content, meta)
  OBVIOUS
<1>2. /\ segment.local_id = <<type, Serial(work, type)>> /\ segment.parent_local_id = parent
      /\ segment.position = Len(work.out) /\ segment.content = content
      /\ segment.source_metadata = meta /\ segment.index_type = type
  BY ONLY <1>1 DEF NewSegment
<1>3. segment \in S
  <2>1. <<type, Serial(work, type)>> \in Ids
    BY SerialIs DEF Ids
  <2>2. Len(work.out) \in Nat
    BY WorkFacts
  <2>3. segment \in SegmentShape(C, M, types)
    BY ONLY <1>1, <2>1, <2>2, type \in types, parent \in Ids \cup {<<>>}, content \in Seq(C),
       meta \in Merged(M) DEF NewSegment, SegmentShape
  <2> QED BY <1>2, <2>3 DEF SegmentsOver
<1>4. CASE work.over \/ Len(work.out) >= MaxSegments
  <2>1. next = [work EXCEPT !.over = TRUE]
    BY <1>4 DEF Emit
  <2>2. next \in Works(S) /\ Grows(work, next) /\ next.over = TRUE
    BY <2>1, OverIs
  <2> QED BY ONLY <2>2 DEF Issued
<1>5. CASE ~(work.over \/ Len(work.out) >= MaxSegments)
  <2>1. next = [work EXCEPT !.out = Append(@, segment)]
    BY <1>1, <1>5 DEF Emit, NewSegment
  <2>2. work.over = FALSE
    BY <1>5, WorkFacts
  <2>3. /\ next \in Works(S) /\ Grows(work, next) /\ next.over = FALSE
        /\ Len(next.out) = Len(work.out) + 1 /\ next.out[Len(next.out)] = segment
    <3>1. Hosted(work, segment.parent_local_id, text) /\ Has(text, segment.content)
      BY <1>2
    <3>2. segment.position = Len(work.out)
      BY <1>2
    <3>3. Lengthened(S, work, segment, next)
      BY ONLY <1>3, <2>1, <2>2, <3>1, <3>2, LongerIs, work \in Works(S)
    <3> QED BY ONLY <3>3 DEF Lengthened
  <2>4. Len(next.out) >= 1 /\ Len(next.out) \in Nat
    BY <2>3, WorkFacts
  <2>5. Emitted(next, type, content)
    BY <1>2, <2>3, <2>4 DEF Emitted
  <2> QED BY ONLY <1>2, <2>3, <2>4, <2>5 DEF Issued
<1> QED BY <1>4, <1>5

\* The boundary searches of the ranges are summed.
LEMMA ScanSteps ==
    ASSUME NEW ranges \in Seq(Ranges)
    PROVE  \E g : /\ g[0] = 0 /\ g[Len(ranges)] = FoldLeft(LAMBDA k, r : k + r.scanned, 0, ranges)
                  /\ \A i \in 0 .. Len(ranges) : g[i] \in Sums
                  /\ \A i \in 1 .. Len(ranges) :
                        g[i - 1] \in Sums /\ g[i] = g[i - 1] + ranges[i].scanned
<1> DEFINE n == Len(ranges)
           step == [i \in 1 .. n |-> [a \in Sums |-> a + ranges[i].scanned]]
           Solves(iter) == iter = [s \in SUBSET DOMAIN ranges |->
               IF s = {} THEN 0 ELSE iter[s \ {Max(s)}] + ranges[Max(s)].scanned]
<1>1. n \in Nat /\ DOMAIN ranges = 1 .. n /\ 0 \in Sums
  BY DEF Sums
<1>2. \A i \in 1 .. n : \A a \in Sums : a + ranges[i].scanned \in Sums
  <2> SUFFICES ASSUME NEW i \in 1 .. n, NEW a \in Sums PROVE a + ranges[i].scanned \in Sums
    OBVIOUS
  <2>1. ranges[i] \in Ranges
    BY <1>1
  <2> QED BY <2>1, SMTT(30) DEF Sums, Ranges
<1> HIDE DEF n
<1>3. step \in StepsOf(Sums, n)
  BY <1>2 DEF StepsOf
<1>4. FoldLeft(LAMBDA k, r : k + r.scanned, 0, ranges) = (CHOOSE iter : Solves(iter))[1 .. n]
  BY <1>1 DEF FoldLeft, MapThenFoldSet
<1>5. \E iter : Solves(iter)
  <2>1. PICK iter : FoldSolution(iter, Sums, 0, step, n)
    <3> HIDE DEF step
    <3> QED BY ONLY <1>1, <1>3, FoldExists
  <2>2. \A s \in SUBSET (1 .. n) : s # {} => Max(s) \in 1 .. n /\ iter[s \ {Max(s)}] \in Sums
    BY ONLY <1>1, <2>1, MaxOfInitial DEF FoldSolution
  <2>3. \A s \in SUBSET (1 .. n) : s # {} =>
            step[Max(s)][iter[s \ {Max(s)}]] = iter[s \ {Max(s)}] + ranges[Max(s)].scanned
    BY ONLY <2>2
  <2> HIDE DEF step
  <2>4. Solves(iter)
    BY ONLY <1>1, <2>1, <2>3 DEF FoldOver, FoldSolution
  <2> QED BY <2>4
<1>6. PICK iter : Solves(iter) /\ FoldLeft(LAMBDA k, r : k + r.scanned, 0, ranges) = iter[1 .. n]
  <2> HIDE DEF Solves
  <2> QED BY ONLY <1>4, <1>5
<1>7. Computes(iter, Sums, 0, step, n)
  BY ONLY <1>1, <1>6, MaxOfInitial DEF Computes
<1>8. PICK g : FoldTrace(g, Sums, 0, step, n) /\ g[n] = iter[1 .. n]
  <2> HIDE DEF step, Solves
  <2> QED BY ONLY <1>1, <1>3, <1>7, FoldSteps
<1>9. \A i \in 1 .. n : g[i - 1] \in Sums /\ g[i] = g[i - 1] + ranges[i].scanned
  BY ONLY <1>1, <1>8 DEF FoldTrace
<1>10. \A i \in 0 .. n : g[i] \in Sums
  BY ONLY <1>8 DEF FoldTrace
<1>11. g[0] = 0 /\ g[n] = FoldLeft(LAMBDA k, r : k + r.scanned, 0, ranges)
  BY ONLY <1>6, <1>8 DEF FoldTrace
<1> HIDE DEF step, Solves
<1> QED BY <1>9, <1>10, <1>11 DEF n

\* Charging keeps the work well formed, and can only exceed a budget.
LEMMA ChargeIs ==
    ASSUME NEW S, NEW work \in Works(S), NEW length \in Nat, NEW ranges \in Seq(Ranges),
           NEW maximum \in Nat, NEW overlap \in Nat, overlap < maximum,
           NEW next, next = Charge(work, length, ranges, maximum, overlap)
    PROVE  next \in Works(S) /\ Grows(work, next) /\ next.out = work.out
<1>1. PICK cost : cost = FoldLeft(LAMBDA k, r : k + r.scanned, 0, ranges)
  OBVIOUS
<1>2. cost \in Nat
  <2>1. Len(ranges) \in 0 .. Len(ranges)
    OBVIOUS
  <2> QED BY <1>1, <2>1, ScanSteps DEF Sums
<1> DEFINE over == \/ work.over
                   \/ length > 0 /\ ProjectedRecords(length, maximum, overlap)
                                       > MaxSegments - Len(work.out)
                   \/ work.scanned + cost > MaxBoundaryScan
<1>4. over \in BOOLEAN
  OBVIOUS
<1>5. over = FALSE => work.over = FALSE
  <2>1. work.over = TRUE \/ work.over = FALSE
    BY WorkFacts
  <2>2. CASE work.over = TRUE
    <3>1. over
      BY <2>2
    <3> QED BY <3>1
  <2> QED BY <2>1, <2>2
<1>6. next = [work EXCEPT !.scanned = work.scanned + cost, !.over = over]
  BY <1>1 DEF Charge
<1> HIDE DEF over
<1>7. next \in WorkShape(S) /\ next.out = work.out /\ next.over = over
  <2>1. work \in WorkShape(S)
    BY WorkFacts
  <2>2. PICK s, o : s = work.scanned + cost /\ o = over
    OBVIOUS
  <2>3. next = [work EXCEPT !.scanned = s, !.over = o]
    BY ONLY <1>6, <2>2
  <2>4. work.scanned \in Nat
    BY WorkFacts
  <2>5. s \in Nat /\ o \in BOOLEAN
    BY ONLY <1>2, <1>4, <2>2, <2>4
  <2>6. next \in WorkShape(S) /\ next.out = work.out /\ next.over = o
    BY ONLY <2>1, <2>3, <2>5 DEF WorkShape
  <2> QED BY ONLY <2>2, <2>6
<1>8. next \in Works(S)
  BY <1>7, WorkFacts DEF Works
<1>9. Grows(work, next)
  BY <1>5, <1>7, WorkFacts DEF Grows
<1> QED BY <1>7, <1>8, <1>9

\* Work that has the parent, with the text.
HostSet(S, parent, text) == {w \in Works(S) : Hosted(w, parent, text)}

\* A segment that is searched has the character.
Shown(work, c) ==
    \E j \in 1 .. Len(work.out) :
        /\ work.out[j].index_type # "parent"
        /\ \E k \in 1 .. Len(work.out[j].content) : work.out[j].content[k] = c

RangesOf(source, from, to, maximum, overlap, separator) ==
    SplitRanges(Slice(source.text, from, to), maximum, overlap, separator)

\* The ranges lie behind from in a text of the length, and are not too long.
RangesFit(ranges, from, length, maximum) ==
    /\ ranges \in Seq(Ranges)
    /\ \A i \in 1 .. Len(ranges) :
          /\ ranges[i].start < ranges[i].end /\ from + ranges[i].end <= length
          /\ ranges[i].end - ranges[i].start <= maximum

\* What one range adds.
RangeEmitted(work, source, from, range, type, parent) ==
    LET content == Slice(source.text, from + range.start, from + range.end)
    IN  IF Blank(content) THEN work
        ELSE Emit(work, type, parent, content,
                  MetadataFor(source, from + range.start, from + range.end))

\* next is the work after one more range of the source.
RangeAdded(S, work, next, source, from, range, type, parent) ==
    /\ next \in HostSet(S, parent, source.text) /\ Grows(work, next)
    /\ next.over = FALSE =>
          \A k \in from + range.start + 1 .. from + range.end :
              ~IsSpace(source.text[k][1]) => Shown(next, source.text[k])

\* One range is emitted with its visible characters.
LEMMA RangeEmittedIs ==
    ASSUME NEW C, NEW M, NEW types \in SUBSET {"general", "parent", "child"}, NEW pm, NEW m \in Nat,
           NEW S, S = SegmentsOver(C, M, types, pm, m), NEW source \in Sources(C, M),
           NEW type \in types, type # "parent", NEW parent \in Ids \cup {<<>>},
           NEW work \in HostSet(S, parent, source.text), NEW from \in Nat, NEW range \in Ranges,
           range.start < range.end, from + range.end <= Len(source.text),
           range.end - range.start <= m,
           NEW next, next = RangeEmitted(work, source, from, range, type, parent)
    PROVE  RangeAdded(S, work, next, source, from, range, type, parent)
<1>1. PICK start, end, text : start = from + range.start /\ end = from + range.end
             /\ text = source.text
  OBVIOUS
<1>2. start \in Nat /\ end \in Nat /\ start < end /\ end <= Len(text) /\ end - start <= m
  BY <1>1 DEF Ranges
<1>3. text \in Seq(C)
  BY <1>1, SourceFacts
<1>4. PICK content : content = Slice(text, start, end)
  OBVIOUS
<1>5. /\ content \in Seq(C) /\ Len(content) = end - start
      /\ \A k \in 1 .. end - start : content[k] = text[start + k]
  <2>1. start <= end
    BY <1>2
  <2> QED BY ONLY <1>2, <1>3, <1>4, <2>1, SliceIs, ZenonT(30)
<1>6. work \in Works(S) /\ Hosted(work, parent, text)
  BY <1>1 DEF HostSet
<1>7. PICK n \in Nat : n = end - start /\ n = Len(content)
  BY <1>2, <1>5
<1>8. \A k \in start + 1 .. end : \E i \in 1 .. n : k = start + i /\ content[i] = text[k]
  <2> SUFFICES ASSUME NEW k \in start + 1 .. end
               PROVE  \E i \in 1 .. n : k = start + i /\ content[i] = text[k]
    OBVIOUS
  <2>1. PICK i : i = k - start
    OBVIOUS
  <2>2. i \in 1 .. n /\ k = start + i
    BY <1>2, <1>7, <2>1
  <2>3. content[i] = text[start + i]
    BY ONLY <1>5, <1>7, <2>2
  <2> QED BY <2>2, <2>3
<1>9. CASE Blank(content)
  <2>1. next = work
    BY <1>1, <1>4, <1>9 DEF RangeEmitted
  <2>2. Grows(work, work)
    <3>1. Len(work.out) \in Nat
      BY <1>6, WorkFacts
    <3> QED BY <3>1 DEF Grows
  <2>3. \A i \in 1 .. n : IsSpace(content[i][1])
    <3>1. DOMAIN content = 1 .. n
      BY <1>5, <1>7
    <3> QED BY ONLY <1>9, <3>1 DEF Blank
  <2>4. \A k \in start + 1 .. end : IsSpace(text[k][1])
    BY <1>8, <2>3
  <2> QED BY ONLY <1>1, <2>1, <2>2, <2>4, work \in HostSet(S, parent, source.text) DEF RangeAdded
<1>10. CASE ~Blank(content)
  <2>1. PICK meta : meta = MetadataFor(source, start, end)
    OBVIOUS
  <2>2. meta \in Merged(M)
    BY <2>1, MetadataIs
  <2>3. next = Emit(work, type, parent, content, meta)
    BY <1>1, <1>4, <1>10, <2>1 DEF RangeEmitted
  <2>4. Has(text, content)
    <3>1. \A i \in 1 .. n : start + i \in 1 .. Len(text)
      <4>1. Len(text) \in Nat
        BY <1>3
      <4> QED BY <1>2, <1>7, <4>1
    <3> QED BY <1>5, <1>7, <3>1 DEF Has
  <2>5. Len(content) <= m
    BY <1>2, <1>5
  <2>6. next \in Works(S) /\ Grows(work, next)
          /\ (next.over = FALSE => Emitted(next, type, content))
    <3>1. content \in Seq(C)
      BY ONLY <1>5
    <3>2. type = "parent" => Len(content) <= pm
      OBVIOUS
    <3>3. type # "parent" => Len(content) <= m
      BY <2>5
    <3>4. Issued(S, work, next, type, content)
      BY ONLY <1>6, <1>10, <2>2, <2>3, <2>4, <3>1, <3>2, <3>3, EmitIs,
         types \in SUBSET {"general", "parent", "child"}, S = SegmentsOver(C, M, types, pm, m),
         type \in types, parent \in Ids \cup {<<>>}
    <3> QED BY ONLY <3>4 DEF Issued
  <2>7. next \in HostSet(S, parent, source.text)
    BY <1>1, <1>6, <2>6, HostedStays DEF HostSet
  <2>8. ASSUME next.over = FALSE, NEW k \in start + 1 .. end PROVE Shown(next, text[k])
    <3>1. PICK j \in 1 .. Len(next.out) : next.out[j].index_type = type
                 /\ next.out[j].content = content
      BY <2>6, <2>8 DEF Emitted
    <3>2. PICK i \in 1 .. n : content[i] = text[k]
      BY <1>8
    <3> QED BY <1>7, <3>1, <3>2 DEF Shown
  <2> QED BY ONLY <1>1, <2>6, <2>7, <2>8 DEF RangeAdded
<1> QED BY <1>9, <1>10

\* The work after each of the ranges.
EmitTrace(S, work, source, from, to, m, overlap, separator, type, parent) ==
    \E g :
        /\ g[0] = Charge(work, to - from, RangesOf(source, from, to, m, overlap, separator), m,
             overlap)
        /\ g[Len(RangesOf(source, from, to, m, overlap, separator))] = EmitRanges(work, source,
             from, to, m, overlap, separator, type, parent)
        /\ \A i \in 0 .. Len(RangesOf(source, from, to, m, overlap, separator)) :
             g[i] \in HostSet(S, parent, source.text)
        /\ \A i \in 1 .. Len(RangesOf(source, from, to, m, overlap, separator)) :
              /\ g[i - 1] \in HostSet(S, parent, source.text)
              /\ g[i] = RangeEmitted(g[i - 1], source, from,
                   RangesOf(source, from, to, m, overlap, separator)[i], type, parent)

\* The ranges are emitted one after the other.
LEMMA EmitSteps ==
    ASSUME NEW C, NEW M, NEW types \in SUBSET {"general", "parent", "child"}, NEW pm, NEW m \in Nat,
           NEW S, S = SegmentsOver(C, M, types, pm, m), NEW source \in Sources(C, M),
           NEW type \in types, type # "parent", NEW parent \in Ids \cup {<<>>}, NEW work,
           NEW from \in Nat, NEW to, NEW overlap, NEW separator,
           RangesFit(RangesOf(source, from, to, m, overlap, separator), from, Len(source.text), m),
           Charge(work, to - from, RangesOf(source, from, to, m, overlap, separator), m, overlap)
               \in HostSet(S, parent, source.text)
    PROVE  EmitTrace(S, work, source, from, to, m, overlap, separator, type, parent)
<1> DEFINE n == Len(RangesOf(source, from, to, m, overlap, separator))
           step == [i \in 1 .. n |-> [a \in HostSet(S, parent, source.text) |-> RangeEmitted(a,
                     source, from, RangesOf(source, from, to, m, overlap, separator)[i], type,
                     parent)]]
           Solves(iter) == iter = [s \in SUBSET DOMAIN RangesOf(source, from, to, m, overlap,
             separator) |->
               IF s = {} THEN Charge(work, to - from, RangesOf(source, from, to, m, overlap,
                    separator), m, overlap) ELSE RangeEmitted(iter[s \ {Max(s)}], source, from,
                    RangesOf(source, from, to, m, overlap, separator)[Max(s)], type, parent)]
<1>1. n \in Nat /\ DOMAIN RangesOf(source, from, to, m, overlap, separator) = 1 .. n
        /\ Charge(work, to - from, RangesOf(source, from, to, m, overlap, separator), m,
        overlap) \in HostSet(S, parent, source.text)
  BY DEF RangesFit
<1>2. \A i \in 1 .. n : \A a \in HostSet(S, parent, source.text) :
        RangeEmitted(a, source, from, RangesOf(source, from, to, m, overlap, separator)[i],
        type, parent) \in HostSet(S, parent, source.text)
  <2> SUFFICES ASSUME NEW i \in 1 .. n, NEW a \in HostSet(S, parent, source.text)
               PROVE  RangeEmitted(a, source, from, RangesOf(source, from, to, m, overlap,
                        separator)[i],
                                   type, parent) \in HostSet(S, parent, source.text)
    OBVIOUS
  <2>1. PICK range : range = RangesOf(source, from, to, m, overlap, separator)[i]
    OBVIOUS
  <2>2. /\ range \in Ranges /\ range.start < range.end /\ from + range.end <= Len(source.text)
        /\ range.end - range.start <= m
    BY <2>1 DEF RangesFit
  <2>3. PICK next : next = RangeEmitted(a, source, from, range, type, parent)
    OBVIOUS
  <2>4. RangeAdded(S, a, next, source, from, range, type, parent)
    BY ONLY <2>2, <2>3, RangeEmittedIs, types \in SUBSET {"general", "parent", "child"}, m \in Nat,
       S = SegmentsOver(C, M, types, pm, m), source \in Sources(C, M), type \in types,
       type # "parent", parent \in Ids \cup {<<>>}, a \in HostSet(S, parent, source.text),
         from \in Nat
  <2> QED BY <2>1, <2>3, <2>4 DEF RangeAdded
<1> HIDE DEF n
<1>3. step \in StepsOf(HostSet(S, parent, source.text), n)
  BY <1>2 DEF StepsOf
<1>4. EmitRanges(work, source, from, to, m, overlap, separator, type, parent) =
        (CHOOSE iter : Solves(iter))[1 .. n]
  BY <1>1 DEF EmitRanges, RangesOf, RangeEmitted, FoldLeft, MapThenFoldSet
<1>5. \E iter : Solves(iter)
  <2>1. PICK iter : FoldSolution(iter, HostSet(S, parent, source.text),
               Charge(work, to - from, RangesOf(source, from, to, m, overlap, separator), m,
               overlap), step, n)
    <3> HIDE DEF step
    <3> QED BY ONLY <1>1, <1>3, FoldExists
  <2>2. \A s \in SUBSET (1 .. n) : s # {} => Max(s) \in 1 .. n
          /\ iter[s \ {Max(s)}] \in HostSet(S, parent, source.text)
    BY ONLY <1>1, <2>1, MaxOfInitial DEF FoldSolution
  <2>3. \A s \in SUBSET (1 .. n) : s # {} =>
            step[Max(s)][iter[s \ {Max(s)}]] = RangeEmitted(iter[s \ {Max(s)}], source, from,
              RangesOf(source, from, to, m, overlap, separator)[Max(s)], type, parent)
    BY ONLY <2>2
  <2> HIDE DEF step
  <2>4. Solves(iter)
    BY ONLY <1>1, <2>1, <2>3 DEF FoldOver, FoldSolution
  <2> QED BY <2>4
<1>6. PICK iter : Solves(iter) /\ EmitRanges(work, source, from, to, m, overlap, separator,
             type, parent) = iter[1 .. n]
  <2> HIDE DEF Solves
  <2> QED BY ONLY <1>4, <1>5
<1>7. Computes(iter, HostSet(S, parent, source.text),
        Charge(work, to - from, RangesOf(source, from, to, m, overlap, separator), m, overlap),
        step, n)
  BY ONLY <1>1, <1>6, MaxOfInitial DEF Computes
<1>8. PICK g : FoldTrace(g, HostSet(S, parent, source.text),
             Charge(work, to - from, RangesOf(source, from, to, m, overlap, separator), m,
             overlap), step, n) /\ g[n] = iter[1 .. n]
  <2> HIDE DEF step, Solves
  <2> QED BY ONLY <1>1, <1>3, <1>7, FoldSteps
<1>9. \A i \in 1 .. n : g[i - 1] \in HostSet(S, parent, source.text)
        /\ g[i] = RangeEmitted(g[i - 1], source, from, RangesOf(source, from, to, m, overlap,
        separator)[i], type, parent)
  BY ONLY <1>1, <1>8 DEF FoldTrace
<1>10. \A i \in 0 .. n : g[i] \in HostSet(S, parent, source.text)
  BY ONLY <1>8 DEF FoldTrace
<1>11. g[0] = Charge(work, to - from, RangesOf(source, from, to, m, overlap, separator), m,
         overlap) /\ g[n] = EmitRanges(work, source, from, to, m, overlap, separator, type,
         parent)
  BY ONLY <1>6, <1>8 DEF FoldTrace
<1> HIDE DEF step, Solves
<1> QED BY <1>9, <1>10, <1>11 DEF n, EmitTrace

\* What was shown stays so.
LEMMA ShownStays ==
    ASSUME NEW S, NEW a \in Works(S), NEW b \in Works(S), Grows(a, b), b.over = FALSE, NEW c,
           Shown(a, c)
    PROVE  Shown(b, c)
<1>1. Len(a.out) \in Nat /\ Len(b.out) \in Nat
  BY WorkFacts
<1>2. /\ Len(a.out) <= Len(b.out)
      /\ \A i \in 1 .. Len(a.out) : b.out[i] = a.out[i]
  BY DEF Grows
<1>3. PICK j \in 1 .. Len(a.out) :
        /\ a.out[j].index_type # "parent"
        /\ \E k \in 1 .. Len(a.out[j].content) : a.out[j].content[k] = c
  BY DEF Shown
<1>4. j \in 1 .. Len(b.out) /\ b.out[j] = a.out[j]
  BY <1>1, <1>2, <1>3
<1> QED BY <1>3, <1>4 DEF Shown

\* The ranges of a part of a source lie in it, and hold all of it.
LEMMA RangesOfPart ==
    ASSUME NEW C, NEW M, NEW source \in Sources(C, M), NEW from \in Nat, NEW to \in Nat,
           from <= to, to <= Len(source.text), NEW X, NEW separator \in Seq(X),
           NEW m \in Nat, NEW overlap \in Nat, overlap < m,
           NEW ranges, ranges = RangesOf(source, from, to, m, overlap, separator)
    PROVE  /\ RangesFit(ranges, from, Len(source.text), m)
           /\ \A k \in from + 1 .. to : \E i \in 1 .. Len(ranges) :
                 k \in from + ranges[i].start + 1 .. from + ranges[i].end
<1>1. source.text \in Seq(C)
  BY SourceFacts
<1>2. PICK cut : cut = Slice(source.text, from, to)
  OBVIOUS
<1>3. cut \in Seq(C) /\ Len(cut) = to - from
  <2>1. PICK text : text = source.text
    OBVIOUS
  <2>2. text \in Seq(C) /\ to <= Len(text) /\ cut = Slice(text, from, to)
    BY <1>1, <1>2, <2>1
  <2>3. /\ Slice(text, from, to) \in Seq(C) /\ Len(Slice(text, from, to)) = to - from
        /\ \A k \in 1 .. to - from : Slice(text, from, to)[k] = text[from + k]
    BY ONLY <2>2, SliceIs, from \in Nat, to \in Nat, from <= to, ZenonT(30)
  <2> QED BY ONLY <2>2, <2>3
<1>4. cut \in Seq(C)
  BY ONLY <1>3
<1>5. ranges = SplitRanges(cut, m, overlap, separator)
  BY <1>2 DEF RangesOf
<1>6. CASE cut = <<>>
  <2>1. ranges = <<>>
    BY <1>4, <1>5, <1>6, RangesAreRight
  <2>2. Len(cut) = 0
    BY <1>6
  <2>3. from = to
    BY <1>3, <2>2
  <2>4. RangesFit(ranges, from, Len(source.text), m)
    BY ONLY <2>1 DEF RangesFit
  <2> QED BY <2>3, <2>4
<1>7. CASE cut # <<>>
  <2>1. CutFrom(ranges, 0, Len(cut), m, overlap)
    BY <1>4, <1>5, <1>7, RangesAreRight
  <2>2. PICK l \in Nat : l = Len(cut) /\ l = to - from
    BY <1>3
  <2>3. /\ ranges \in Seq(Ranges)
        /\ \A i \in 1 .. Len(ranges) :
              /\ ranges[i].start < ranges[i].end /\ ranges[i].end <= l
              /\ ranges[i].end - ranges[i].start <= m
        /\ \A k \in 0 .. l - 1 : \E i \in 1 .. Len(ranges) :
              ranges[i].start <= k /\ k < ranges[i].end
    BY ONLY <2>1, <2>2 DEF CutFrom
  <2>4. \A i \in 1 .. Len(ranges) : ranges[i].start \in Nat /\ ranges[i].end \in Nat
    <3>1. \A i \in 1 .. Len(ranges) : ranges[i] \in Ranges
      BY <2>3
    <3> QED BY <3>1 DEF Ranges
  <2>5. Len(source.text) \in Nat
    BY <1>1
  <2>6. RangesFit(ranges, from, Len(source.text), m)
    <3>1. \A i \in 1 .. Len(ranges) : from + ranges[i].end <= Len(source.text)
      BY <2>2, <2>3, <2>4, <2>5, SMTT(30)
    <3> QED BY ONLY <2>3, <3>1 DEF RangesFit
  <2>7. ASSUME NEW k \in from + 1 .. to
        PROVE  \E i \in 1 .. Len(ranges) :
                  k \in from + ranges[i].start + 1 .. from + ranges[i].end
    <3>1. PICK j : j = k - from - 1
      OBVIOUS
    <3>2. j \in 0 .. l - 1 /\ k = from + j + 1
      BY <2>2, <3>1
    <3>3. PICK i \in 1 .. Len(ranges) : ranges[i].start <= j /\ j < ranges[i].end
      BY <2>3, <3>2
    <3>4. ranges[i].start \in Nat /\ ranges[i].end \in Nat
      BY <2>4
    <3>5. PICK a \in Nat, b \in Nat : a = ranges[i].start /\ b = ranges[i].end
      BY <3>4
    <3>6. k \in from + a + 1 .. from + b
      <4>1. a <= j /\ j < b
        BY ONLY <3>3, <3>5
      <4>2. j \in Nat /\ k = from + j + 1
        BY <2>2, <3>2
      <4> QED BY ONLY <4>1, <4>2, from \in Nat, a \in Nat, b \in Nat
    <3> QED BY <3>5, <3>6
  <2> QED BY <2>6, <2>7
<1> QED BY <1>6, <1>7

\* next is the work after the text from .. to was emitted.
PartEmitted(S, work, next, source, from, to, parent) ==
    /\ next \in HostSet(S, parent, source.text) /\ Grows(work, next)
    /\ next.over = FALSE =>
          \A k \in from + 1 .. to : ~IsSpace(source.text[k][1]) => Shown(next, source.text[k])

\* Every visible character of a part is emitted (_child_ranges, _emit).
LEMMA EmitRangesIs ==
    ASSUME NEW C, NEW M, NEW types \in SUBSET {"general", "parent", "child"}, NEW pm, NEW m \in Nat,
           NEW S, S = SegmentsOver(C, M, types, pm, m), NEW source \in Sources(C, M),
           NEW type \in types, type # "parent", NEW parent \in Ids \cup {<<>>},
           NEW work \in HostSet(S, parent, source.text), NEW from \in Nat, NEW to \in Nat,
           from <= to, to <= Len(source.text), NEW X, NEW separator \in Seq(X),
           NEW overlap \in Nat, overlap < m,
           NEW next, next = EmitRanges(work, source, from, to, m, overlap, separator, type, parent)
    PROVE  PartEmitted(S, work, next, source, from, to, parent)
<1>1. PICK ranges : ranges = RangesOf(source, from, to, m, overlap, separator)
  OBVIOUS
<1>2. /\ RangesFit(ranges, from, Len(source.text), m)
      /\ \A k \in from + 1 .. to : \E i \in 1 .. Len(ranges) :
            k \in from + ranges[i].start + 1 .. from + ranges[i].end
  BY <1>1, RangesOfPart, ZenonT(30)
<1>3. ranges \in Seq(Ranges)
  BY <1>2 DEF RangesFit
<1>4. PICK charged : charged = Charge(work, to - from, ranges, m, overlap)
  OBVIOUS
<1>5. work \in Works(S) /\ Hosted(work, parent, source.text)
  BY DEF HostSet
<1>6. charged \in Works(S) /\ Grows(work, charged)
  <2>1. PICK length \in Nat : length = to - from
    OBVIOUS
  <2>2. charged = Charge(work, length, ranges, m, overlap)
    BY <1>4, <2>1
  <2> QED BY ONLY <1>3, <1>5, <2>2, ChargeIs, m \in Nat, overlap \in Nat, overlap < m
<1>7. charged \in HostSet(S, parent, source.text)
  <2>1. Hosted(charged, parent, source.text)
    BY ONLY <1>5, <1>6, HostedStays
  <2> QED BY <1>6, <2>1 DEF HostSet
<1>8. PICK n \in Nat : n = Len(ranges)
  BY <1>3
<1>9. PICK g : /\ g[0] = charged /\ g[n] = next
               /\ \A i \in 0 .. n : g[i] \in HostSet(S, parent, source.text)
               /\ \A i \in 1 .. n : /\ g[i - 1] \in HostSet(S, parent, source.text)
                                    /\ g[i] = RangeEmitted(g[i - 1], source, from, ranges[i],
                                          type, parent)
  <2>1. RangesFit(RangesOf(source, from, to, m, overlap, separator), from, Len(source.text), m)
    BY <1>1, <1>2
  <2>2. Charge(work, to - from, RangesOf(source, from, to, m, overlap, separator), m, overlap)
            \in HostSet(S, parent, source.text)
    BY <1>1, <1>4, <1>7
  <2>3. PICK rs : rs = RangesOf(source, from, to, m, overlap, separator) /\ rs = ranges
    BY <1>1
  <2>4. EmitTrace(S, work, source, from, to, m, overlap, separator, type, parent)
    BY ONLY <2>1, <2>2, EmitSteps, types \in SUBSET {"general", "parent", "child"},
       m \in Nat, S = SegmentsOver(C, M, types, pm, m), source \in Sources(C, M), type \in types,
       type # "parent", parent \in Ids \cup {<<>>}, from \in Nat
  <2> QED BY ONLY <1>1, <1>4, <1>8, <2>4, next = EmitRanges(work, source, from, to, m, overlap,
    separator, type, parent) DEF EmitTrace
<1>10. \A i \in 1 .. n : RangeAdded(S, g[i - 1], g[i], source, from, ranges[i], type, parent)
  <2> SUFFICES ASSUME NEW i \in 1 .. n
               PROVE  RangeAdded(S, g[i - 1], g[i], source, from, ranges[i], type, parent)
    OBVIOUS
  <2>1. PICK a, b, range : a = g[i - 1] /\ b = g[i] /\ range = ranges[i]
    OBVIOUS
  <2>2. a \in HostSet(S, parent, source.text) /\ b = RangeEmitted(a, source, from, range, type,
          parent)
    BY <1>9, <2>1
  <2>3. /\ range \in Ranges /\ range.start < range.end /\ from + range.end <= Len(source.text)
        /\ range.end - range.start <= m
    BY <1>2, <1>8, <2>1 DEF RangesFit
  <2>4. RangeAdded(S, a, b, source, from, range, type, parent)
    BY ONLY <2>2, <2>3, RangeEmittedIs, types \in SUBSET {"general", "parent", "child"}, m \in Nat,
       S = SegmentsOver(C, M, types, pm, m), source \in Sources(C, M), type \in types,
       type # "parent", parent \in Ids \cup {<<>>}, from \in Nat
  <2> QED BY <2>1, <2>4
<1>11. \A i \in 0 .. n : g[i] \in Works(S)
  BY <1>9 DEF HostSet
<1>12. \A i \in 0 .. n : Grows(g[i], g[n])
  <2>1. \A i \in 1 .. n : Grows(g[i - 1], g[i])
    BY <1>10 DEF RangeAdded
  <2> QED BY ONLY <1>11, <2>1, TraceGrows, n \in Nat
<1>13. next \in HostSet(S, parent, source.text) /\ next \in Works(S)
  BY <1>9, <1>11
<1>14. Grows(work, next)
  <2>1. Grows(charged, next)
    BY <1>9, <1>12
  <2> QED BY ONLY <1>5, <1>6, <1>13, <2>1, GrowsIs
<1>15. ASSUME next.over = FALSE, NEW k \in from + 1 .. to, ~IsSpace(source.text[k][1])
       PROVE  Shown(next, source.text[k])
  <2>1. PICK i \in 1 .. n : k \in from + ranges[i].start + 1 .. from + ranges[i].end
    BY <1>2, <1>8
  <2>2. PICK b, c, range : b = g[i] /\ c = source.text[k] /\ range = ranges[i]
    OBVIOUS
  <2>3. b \in Works(S) /\ Grows(b, next) /\ RangeAdded(S, g[i - 1], b, source, from, range,
          type, parent)
    BY <1>9, <1>10, <1>11, <1>12, <2>2
  <2>4. b.over = FALSE
    BY <1>15, <2>3 DEF Grows
  <2>5. Shown(b, c)
    BY <1>15, <2>1, <2>2, <2>3, <2>4 DEF RangeAdded
  <2>6. Shown(next, c)
    BY ONLY <1>13, <1>15, <2>3, <2>5, ShownStays
  <2> QED BY <2>2, <2>6
<1> QED BY <1>13, <1>14, <1>15 DEF PartEmitted
===============================================================================
