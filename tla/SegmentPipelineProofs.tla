------------------------ MODULE SegmentPipelineProofs -------------------------
(***************************************************************************)
(* Proofs about SegmentPipeline and the operators it is built from.        *)
(*                                                                         *)
(* First what the embedding client answers, whatever the service does: an  *)
(* error, or for each text the vector of exactly that text.  Then the      *)
(* segments of a document: what BuildCandidates and InsertMissing return,  *)
(* which records wait, and what a batch of them is.  Then the inductive    *)
(* invariant, action by action; from it follow the types, the vectors of   *)
(* marked rows, the excuses of vectors without a mark, and the refinement of*)
(* VectorBackedSegments.                                                   *)
(***************************************************************************)
EXTENDS SegmentPipelineInvariant, SequenceTheorems, WellFoundedInduction, TLAPS

(***************************************************************************)
(* The embedding client.  EmbedAdaptive and Embed are defined by recursive *)
(* functions.  That such a function exists and what it computes are both   *)
(* shown by an induction over the natural numbers, in the form of          *)
(* SetInduction.                                                           *)
(***************************************************************************)

\* A set of natural numbers that is not empty has a least element.
LEMMA LeastElement ==
    ASSUME NEW S \in SUBSET Nat, S # {}
    PROVE  \E n \in S : \A m \in S : n <= m
<1> DEFINE Smaller == {pair \in Nat \X Nat : pair[1] < pair[2]}
<1>1. IsWellFoundedOn(Smaller, Nat)
  BY NatLessThanWellFounded DEF OpToRel
<1>2. \E n \in S : \A m \in S : <<m, n>> \notin Smaller
  <2> HIDE DEF Smaller
  <2> QED BY <1>1, WFMin
<1>3. PICK n \in S : \A m \in S : <<m, n>> \notin Smaller
  BY <1>2
<1>4. ASSUME NEW m \in S PROVE n <= m
  <2>1. <<m, n>> \notin Smaller
    BY <1>3
  <2>2. <<m, n>> \in Nat \X Nat /\ <<m, n>>[1] = m /\ <<m, n>>[2] = n
    OBVIOUS
  <2>3. ~(m < n)
    BY <2>1, <2>2
  <2> QED BY <2>3
<1> QED BY <1>4

\* A set with 0, and with the successor of each number it has, has them all.
LEMMA SetInduction ==
    ASSUME NEW S, 0 \in S, \A n \in Nat : n \in S => n + 1 \in S
    PROVE  \A n \in Nat : n \in S
<1> DEFINE Missing == Nat \ S
<1> SUFFICES ASSUME Missing # {} PROVE FALSE
  OBVIOUS
<1>1. PICK n \in Missing : \A m \in Missing : n <= m
  <2>1. Missing \in SUBSET Nat
    OBVIOUS
  <2> HIDE DEF Missing
  <2> QED BY <2>1, LeastElement
<1>2. n - 1 \in Nat /\ n - 1 \notin Missing
  BY <1>1
<1> QED BY <1>1, <1>2

EmbedErrors ==
    {"none", "too_large", "EMBEDDING_REQUEST_FAILED", "EMBEDDING_AUTH_FAILED",
     "EMBEDDING_RESPONSE_INVALID", "EMBEDDING_DIMENSION_MISMATCH",
     "EMBEDDING_MODEL_UNAVAILABLE", "EMBEDDING_INPUT_INVALID"}

\* A batch that was embedded has, at the place of each text, its vector; the
\* errors of one that was not are the client's own.
Exact(result, texts) ==
    /\ result.error \in EmbedErrors
    /\ result.error = "none" =>
           /\ result.dimension \in Nat \ {0}
           /\ result.vectors = [i \in 1 .. Len(texts) |-> Vector(texts[i], result.dimension)]

\* _parse_response accepts an answer only if it can tell which vector is whose.
LEMMA ParsedIsExact ==
    ASSUME NEW service \in Services, NEW T, NEW texts \in Seq(T), texts # <<>>
    PROVE  Exact(ParseResponse(Answer(service, texts), Len(texts)), texts)
<1> DEFINE n == Len(texts)
           d == service.dimension
           data == Answer(service, texts)
<1>1. n \in Nat \ {0} /\ d \in Nat \ {0}
  BY LenProperties, EmptySeq DEF Services
<1>2. CASE Len(data) # n
  BY <1>2 DEF ParseResponse, Exact, EmbedErrors, NotEmbedded
<1>3. CASE Len(data) = n
  <2> DEFINE Item(i) == [index |-> IF service.fault = "twice" THEN 0 ELSE i - 1,
                         vector |-> Vector(texts[i], IF service.fault = "mixed" /\ i = 1
                                                     THEN d + 1 ELSE d)]
             at(i) == IF service.order = "reversed" THEN n + 1 - i ELSE i
             Twice(i) == \E j \in 1 .. i - 1 : data[j].index = data[i].index
             Mixed(i) == data[i].vector.dimension # data[1].vector.dimension
             faulty == {i \in DOMAIN data : Twice(i) \/ Mixed(i)}
             found(k) == CHOOSE i \in DOMAIN data : data[i].index = k - 1
             ordered == [k \in 1 .. n |-> data[found(k)].vector]
             dim == data[1].vector.dimension
  <2>1. DOMAIN data = 1 .. n /\ \A i \in 1 .. n : data[i] = Item(at(i))
    <3> DEFINE m == IF service.fault = "short" THEN n - 1 ELSE n
               items == [i \in 1 .. m |-> Item(i)]
    <3>1. m \in Nat /\ Len(items) = m
      BY <1>1
    <3>2. data = IF service.order = "reversed" THEN Reverse(items) ELSE items
      BY DEF Answer
    <3>3. Reverse(items) = [i \in 1 .. m |-> items[(m - i) + 1]]
      BY <3>1 DEF Reverse
    <3>4. Len(data) = m
      BY <3>1, <3>2, <3>3
    <3>5. CASE service.order = "reversed"
      <4>1. data = [i \in 1 .. n |-> items[(n - i) + 1]]
        <5> HIDE DEF items, m, data, n
        <5> QED BY <1>3, <3>2, <3>3, <3>4, <3>5
      <4>2. \A i \in 1 .. n : (n - i) + 1 \in 1 .. n /\ at(i) = (n - i) + 1
        BY <1>1, <3>5
      <4> HIDE DEF Item, at
      <4> QED BY <1>3, <3>4, <4>1, <4>2
    <3>6. CASE service.order # "reversed"
      <4> HIDE DEF Item, data, n, d
      <4> QED BY <1>3, <3>2, <3>4, <3>6
    <3> QED BY <3>5, <3>6
  <2>2. CASE faulty # {}
    <3>1. ParseResponse(data, n) =
              NotEmbedded(IF Twice(Min(faulty)) THEN "EMBEDDING_RESPONSE_INVALID"
                          ELSE "EMBEDDING_DIMENSION_MISMATCH", FALSE)
      BY <1>3, <2>2 DEF ParseResponse
    <3> QED BY <3>1 DEF NotEmbedded, Exact, EmbedErrors
  <2>3. CASE faulty = {}
    <3>1. \A i \in 1 .. n : ~Twice(i) /\ ~Mixed(i)
      BY <2>1, <2>3
    <3>2. \A i \in 1 .. n : at(i) \in 1 .. n /\ at(at(i)) = i
      BY <1>1
    <3>3. \A i \in 1 .. n : data[i].index = at(i) - 1
      <4>1. CASE service.fault # "twice"
        BY <2>1, <4>1
      <4>2. CASE service.fault = "twice"
        <5>1. n = 1
          <6> SUFFICES ASSUME n # 1 PROVE FALSE
            OBVIOUS
          <6>1. 1 \in 1 .. n /\ 2 \in 1 .. n /\ 1 \in 1 .. 2 - 1
            <7> HIDE DEF n
            <7> QED BY <1>1
          <6>2. data[1].index = 0 /\ data[2].index = 0
            BY <2>1, <4>2, <6>1
          <6> QED BY <3>1, <6>1, <6>2
        <5> QED BY <2>1, <4>2, <5>1
      <4> QED BY <4>1, <4>2
    <3>4. \A i \in 1 .. n : data[i].vector = Vector(texts[at(i)], dim)
      BY <2>1, <3>1 DEF Vector
    <3>5. dim \in Nat \ {0}
      BY <1>1, <2>1 DEF Vector
    <3>6. ASSUME NEW k \in 1 .. n PROVE data[found(k)].vector = Vector(texts[k], dim)
      <4>1. at(k) \in DOMAIN data /\ data[at(k)].index = k - 1
        BY <2>1, <3>2, <3>3
      <4>2. found(k) \in 1 .. n /\ data[found(k)].index = k - 1
        BY <2>1, <4>1
      <4>3. at(found(k)) = k
        BY <1>1, <3>2, <3>3, <4>2, SMTT(30)
      <4> QED BY <3>4, <4>2, <4>3
    <3>7. ParseResponse(data, n) = Embedded(ordered, dim)
      BY <1>3, <2>3 DEF ParseResponse
    <3>8. ordered = [k \in 1 .. n |-> Vector(texts[k], dim)]
      <4> HIDE DEF found, dim, n, data
      <4> QED BY <3>6
    <3>9. Exact(ParseResponse(data, n), texts)
      <4> HIDE DEF ordered, dim, data
      <4> QED BY <3>5, <3>7, <3>8 DEF Exact, EmbedErrors, Embedded
    <3> QED BY <3>9
  <2> QED BY <2>2, <2>3
<1> QED BY <1>2, <1>3

\* So is a request, however it ends.
LEMMA RequestIsExact ==
    ASSUME NEW service \in Services, NEW T, NEW texts \in Seq(T), texts # <<>>
    PROVE  Exact(RequestBatch(service, texts), texts)
<1>1. Exact(ParseResponse(Answer(service, texts), Len(texts)), texts)
  BY ParsedIsExact
<1> QED BY <1>1 DEF RequestBatch, Exact, EmbedErrors, NotEmbedded

\* A request the service finds too large has a text.
LEMMA TooLargeIsNotEmpty ==
    ASSUME NEW service \in Services, NEW T, NEW texts \in Seq(T),
           RequestBatch(service, texts).error = "too_large"
    PROVE  Len(texts) > 0
<1>1. service.accepts \in Nat
  BY DEF Services
<1>2. ParseResponse(Answer(service, texts), Len(texts)).error # "too_large"
  BY DEF ParseResponse, NotEmbedded, Embedded
<1>3. Len(texts) > service.accepts
  BY <1>2 DEF RequestBatch, NotEmbedded
<1>4. Len(texts) \in Nat
  BY LenProperties
<1> QED BY <1>1, <1>3, <1>4

\* The vectors of two parts are those of their texts one after the other.
LEMMA JoinIsExact ==
    ASSUME NEW T, NEW s \in Seq(T), NEW t \in Seq(T), NEW left, NEW right,
           Exact(left, s), Exact(right, t)
    PROVE  Exact(Join(left, right), s \o t)
<1> DEFINE d == left.dimension
<1>1. CASE left.error # "none" \/ right.error # "none" \/ d # right.dimension
  BY <1>1 DEF Join, Exact, EmbedErrors, NotEmbedded
<1>2. CASE left.error = "none" /\ right.error = "none" /\ d = right.dimension
  <2> DEFINE V == {Vector(text, d) : text \in T}
             VectorsOf(u) == [i \in 1 .. Len(u) |-> Vector(u[i], d)]
  <2>1. left.vectors = VectorsOf(s) /\ right.vectors = VectorsOf(t) /\ d \in Nat \ {0}
    BY <1>2 DEF Exact, EmbedErrors
  <2>2. ASSUME NEW u \in Seq(T) PROVE VectorsOf(u) \in Seq(V) /\ Len(VectorsOf(u)) = Len(u)
    BY LenProperties
  <2>3. s \o t \in Seq(T) /\ Len(s \o t) = Len(s) + Len(t)
        /\ \A i \in 1 .. Len(s) + Len(t) : (s \o t)[i] = IF i <= Len(s) THEN s[i] ELSE t[i - Len(s)]
    BY ConcatProperties
  <2>4. VectorsOf(s) \o VectorsOf(t) = VectorsOf(s \o t)
    <3> DEFINE a == VectorsOf(s)
               b == VectorsOf(t)
               c == VectorsOf(s \o t)
    <3>1. a \in Seq(V) /\ b \in Seq(V) /\ c \in Seq(V) /\ Len(a) = Len(s) /\ Len(b) = Len(t)
          /\ Len(c) = Len(s) + Len(t)
      BY <2>2, <2>3
    <3>2. /\ a \o b \in Seq(V) /\ Len(a \o b) = Len(s) + Len(t)
          /\ \A i \in 1 .. Len(s) + Len(t) :
                 (a \o b)[i] = IF i <= Len(s) THEN a[i] ELSE b[i - Len(s)]
      <4> HIDE DEF a, b, c, V
      <4>1. /\ a \o b \in Seq(V) /\ Len(a \o b) = Len(a) + Len(b)
            /\ \A i \in 1 .. Len(a) + Len(b) :
                 (a \o b)[i] = IF i <= Len(a) THEN a[i] ELSE b[i - Len(a)]
        <5>1. a \in Seq(V) /\ b \in Seq(V)
          BY <3>1
        <5> QED BY <5>1, ConcatProperties
      <4> QED BY <3>1, <4>1
    <3>3. ASSUME NEW i \in 1 .. Len(s) + Len(t) PROVE (a \o b)[i] = c[i]
      <4>1. Len(s) \in Nat /\ Len(t) \in Nat
        BY LenProperties
      <4>2. c[i] = Vector((s \o t)[i], d)
        BY <2>3
      <4>3. CASE i <= Len(s)
        <5>1. i \in 1 .. Len(s)
          BY <4>1, <4>3
        <5>2. a[i] = Vector(s[i], d)
          BY <5>1
        <5> HIDE DEF a, b, c
        <5> QED BY <2>3, <3>2, <4>2, <4>3, <5>2
      <4>4. CASE ~(i <= Len(s))
        <5>1. i - Len(s) \in 1 .. Len(t)
          BY <4>1, <4>4
        <5>2. b[i - Len(s)] = Vector(t[i - Len(s)], d)
          BY <5>1
        <5> HIDE DEF a, b, c
        <5> QED BY <2>3, <3>2, <4>2, <4>4, <5>2
      <4> QED BY <4>3, <4>4
    <3> HIDE DEF a, b, c
    <3> QED BY <3>1, <3>2, <3>3, SeqEqual
  <2>5. Join(left, right) = Embedded(left.vectors \o right.vectors, d)
    BY <1>2 DEF Join
  <2>6. Join(left, right) = Embedded(VectorsOf(s \o t), d)
    BY <2>1, <2>4, <2>5
  <2> QED BY <2>1, <2>6 DEF Exact, EmbedErrors, Embedded
<1> QED BY <1>1, <1>2

\* The body of the recursive function of EmbedAdaptive.
Part(service, texts, part, range) ==
    LET result == RequestBatch(service, SubSeq(texts, range[1], range[2]))
        middle == range[1] + ((range[2] - range[1] + 1) \div 2) - 1
    IN  IF result.error # "too_large" THEN result
        ELSE IF range[1] = range[2] THEN NotEmbedded("EMBEDDING_REQUEST_FAILED", FALSE)
        ELSE Join(part[<<range[1], middle>>], part[<<middle + 1, range[2]>>])

Ranges(texts) == (DOMAIN texts) \X (DOMAIN texts)

\* A part that is too large is halved into two parts that are shorter.
LEMMA HalvesAreShorter ==
    ASSUME NEW service \in Services, NEW T, NEW texts \in Seq(T), NEW a \in DOMAIN texts,
           NEW b \in DOMAIN texts, NEW part,
           RequestBatch(service, SubSeq(texts, a, b)).error = "too_large", a # b
    PROVE  \E middle \in a .. b - 1 :
               /\ middle \in DOMAIN texts /\ middle + 1 \in DOMAIN texts
               /\ middle = a + ((b - a + 1) \div 2) - 1
<1> DEFINE middle == a + ((b - a + 1) \div 2) - 1
<1>1. a \in 1 .. Len(texts) /\ b \in 1 .. Len(texts) /\ Len(texts) \in Nat
      /\ DOMAIN texts = 1 .. Len(texts)
  BY LenProperties
<1>2. \A i \in a .. b : texts[i] \in T
  BY <1>1, ElementOfSeq
<1>3. SubSeq(texts, a, b) \in Seq(T)
      /\ Len(SubSeq(texts, a, b)) = IF a <= b THEN b - a + 1 ELSE 0
  BY <1>1, <1>2, SubSeqProperties
<1>4. Len(SubSeq(texts, a, b)) > 0
  BY <1>3, TooLargeIsNotEmpty
<1>5. a < b
  BY <1>1, <1>3, <1>4
<1>6. middle \in a .. b - 1
  BY <1>1, <1>5
<1> QED BY <1>1, <1>6, SMTT(30)

\* The ends of a range are positions of texts.
LEMMA EndsOfRange ==
    ASSUME NEW T, NEW texts \in Seq(T), NEW range \in Ranges(texts)
    PROVE  /\ Len(texts) \in Nat /\ DOMAIN texts = 1 .. Len(texts)
           /\ range[1] \in 1 .. Len(texts) /\ range[2] \in 1 .. Len(texts)
<1>1. Len(texts) \in Nat /\ DOMAIN texts = 1 .. Len(texts)
  BY LenProperties
<1>2. range[1] \in DOMAIN texts /\ range[2] \in DOMAIN texts
  BY DEF Ranges
<1> QED BY <1>1, <1>2

\* What the body says of a part depends on shorter parts only.
LEMMA PartIsLocal ==
    ASSUME NEW service \in Services, NEW T, NEW texts \in Seq(T), NEW f, NEW g,
           NEW range \in Ranges(texts),
           \A r \in Ranges(texts) : r[2] - r[1] < range[2] - range[1] => f[r] = g[r]
    PROVE  Part(service, texts, f, range) = Part(service, texts, g, range)
<1> DEFINE a == range[1]
           b == range[2]
<1>1. a \in DOMAIN texts /\ b \in DOMAIN texts /\ a \in Int /\ b \in Int
  BY EndsOfRange
<1>2. CASE /\ RequestBatch(service, SubSeq(texts, a, b)).error = "too_large" /\ a # b
  <2>1. PICK middle \in a .. b - 1 :
             /\ middle \in DOMAIN texts /\ middle + 1 \in DOMAIN texts
             /\ middle = a + ((b - a + 1) \div 2) - 1
    <3> HIDE DEF a, b
    <3> QED BY <1>1, <1>2, HalvesAreShorter
  <2> DEFINE left == <<a, middle>>
             right == <<middle + 1, b>>
  <2>2. left \in Ranges(texts) /\ right \in Ranges(texts)
    BY <1>1, <2>1 DEF Ranges
  <2>3. left[2] - left[1] < b - a /\ right[2] - right[1] < b - a
    <3>1. left[1] = a /\ left[2] = middle /\ right[1] = middle + 1 /\ right[2] = b
      OBVIOUS
    <3>2. middle \in Int /\ a <= middle /\ middle <= b - 1 /\ a \in Int /\ b \in Int
      <4> HIDE DEF a, b
      <4> QED BY <1>1
    <3> HIDE DEF a, b, left, right
    <3> QED BY <3>1, <3>2
  <2>4. f[left] = g[left] /\ f[right] = g[right]
    BY <2>2, <2>3
  <2> QED BY <1>2, <2>1, <2>4 DEF Part
<1>3. CASE ~(RequestBatch(service, SubSeq(texts, a, b)).error = "too_large" /\ a # b)
  BY <1>3 DEF Part
<1> QED BY <1>2, <1>3

\* The recursive function of EmbedAdaptive exists.
LEMMA PartsExist ==
    ASSUME NEW service \in Services, NEW T, NEW texts \in Seq(T)
    PROVE  \E part : part = [range \in Ranges(texts) |-> Part(service, texts, part, range)]
<1> DEFINE n == Len(texts)
           Length(range) == range[2] - range[1] + n
           \* Right for the ranges up to a length.
           UpTo(part, length) ==
               part = [range \in Ranges(texts) |->
                          IF Length(range) < length THEN Part(service, texts, part, range)
                          ELSE NotEmbedded("none", FALSE)]
           S == {length \in Nat : \E part : UpTo(part, length)}
<1>1. n \in Nat
  BY LenProperties
<1>2. ASSUME NEW range \in Ranges(texts)
      PROVE  range[1] \in 1 .. n /\ range[2] \in 1 .. n /\ Length(range) \in 0 .. 2 * n - 1
  <2>1. range[1] \in 1 .. n /\ range[2] \in 1 .. n
    BY EndsOfRange
  <2> HIDE DEF n
  <2> QED BY <1>1, <2>1
<1>3. 0 \in S
  <2> DEFINE none == [range \in Ranges(texts) |-> NotEmbedded("none", FALSE)]
  <2>1. \A range \in Ranges(texts) : ~(Length(range) < 0)
    BY <1>1, <1>2
  <2>2. UpTo(none, 0)
    <3> HIDE DEF Length
    <3> QED BY <2>1
  <2> HIDE DEF UpTo, none
  <2> QED BY <2>2
<1>4. ASSUME NEW length \in Nat, length \in S PROVE length + 1 \in S
  <2>1. PICK f : UpTo(f, length)
    BY <1>4
  <2> DEFINE g == [range \in Ranges(texts) |->
                      IF Length(range) < length + 1 THEN Part(service, texts, f, range)
                      ELSE NotEmbedded("none", FALSE)]
  <2>2. \A r \in Ranges(texts) : Length(r) < length => f[r] = g[r]
    <3>1. \A r \in Ranges(texts) : Length(r) < length => Length(r) < length + 1
      BY <1>1, <1>2
    <3> HIDE DEF Length
    <3> QED BY <2>1, <3>1
  <2>3. ASSUME NEW range \in Ranges(texts), Length(range) < length + 1
        PROVE  Part(service, texts, f, range) = Part(service, texts, g, range)
    <3>1. \A r \in Ranges(texts) : r[2] - r[1] < range[2] - range[1] => f[r] = g[r]
      <4> HIDE DEF g
      <4> QED BY <1>1, <1>2, <2>2, <2>3, SMTT(30)
    <3> HIDE DEF g
    <3> QED BY <3>1, PartIsLocal
  <2>4. UpTo(g, length + 1)
    <3> DEFINE h == [range \in Ranges(texts) |->
                      IF Length(range) < length + 1 THEN Part(service, texts, g, range)
                      ELSE NotEmbedded("none", FALSE)]
    <3>1. \A range \in Ranges(texts) : g[range] = h[range]
      BY <2>3
    <3> QED BY <3>1
  <2> HIDE DEF UpTo, g
  <2> QED BY <2>4
<1>5. 2 * n \in S
  <2>1. \A m \in Nat : m \in S
    <3> HIDE DEF S
    <3> QED BY <1>3, <1>4, SetInduction
  <2>2. 2 * n \in Nat
    BY <1>1
  <2> HIDE DEF S
  <2> QED BY <2>1, <2>2
<1>6. PICK part : UpTo(part, 2 * n)
  <2> HIDE DEF UpTo
  <2> QED BY <1>5
<1>7. part = [range \in Ranges(texts) |-> Part(service, texts, part, range)]
  <2>1. \A range \in Ranges(texts) : Length(range) < 2 * n
    BY <1>1, <1>2
  <2> HIDE DEF Length
  <2> QED BY <1>6, <2>1
<1> QED BY <1>7

\* What EmbedAdaptive computes, whatever the parts were chosen to be.
LEMMA EmbedAdaptiveDef ==
    ASSUME NEW service \in Services, NEW T, NEW texts \in Seq(T)
    PROVE  \E part : /\ part = [range \in Ranges(texts) |-> Part(service, texts, part, range)]
                     /\ EmbedAdaptive(service, texts) = part[<<1, Len(texts)>>]
<1> DEFINE part == CHOOSE f : f = [range \in Ranges(texts) |-> Part(service, texts, f, range)]
<1>1. EmbedAdaptive(service, texts) = part[<<1, Len(texts)>>]
  BY DEF EmbedAdaptive, Part, Ranges
<1>2. part = [range \in Ranges(texts) |-> Part(service, texts, part, range)]
  BY PartsExist
<1> QED BY <1>1, <1>2

\* A part of the texts is a sequence of texts.
LEMMA SubSeqOfTexts ==
    ASSUME NEW T, NEW texts \in Seq(T), NEW a \in 1 .. Len(texts), NEW b \in 1 .. Len(texts),
           a <= b
    PROVE  /\ SubSeq(texts, a, b) \in Seq(T) /\ Len(SubSeq(texts, a, b)) = b - a + 1
           /\ SubSeq(texts, a, b) # <<>>
<1>1. Len(texts) \in Nat
  BY LenProperties
<1>2. \A i \in a .. b : texts[i] \in T
  BY <1>1, ElementOfSeq
<1>3. SubSeq(texts, a, b) \in Seq(T) /\ Len(SubSeq(texts, a, b)) = b - a + 1
  BY <1>1, <1>2, SubSeqProperties
<1> QED BY <1>1, <1>3, EmptySeq

\* Each part is embedded as its texts are, by induction over its length.
LEMMA PartsAreExact ==
    ASSUME NEW service \in Services, NEW T, NEW texts \in Seq(T), NEW part,
           part = [range \in Ranges(texts) |-> Part(service, texts, part, range)]
    PROVE  \A a, b \in 1 .. Len(texts) :
               a <= b => Exact(part[<<a, b>>], SubSeq(texts, a, b))
<1> DEFINE n == Len(texts)
           Right(a, b) == Exact(part[<<a, b>>], SubSeq(texts, a, b))
           S == {length \in Nat : \A a, b \in 1 .. n : a <= b /\ b - a < length => Right(a, b)}
<1>1. n \in Nat /\ DOMAIN texts = 1 .. n
  BY LenProperties
<1>2. 0 \in S
  <2> HIDE DEF n, Right
  <2> QED BY <1>1
<1>3. ASSUME NEW length \in Nat, length \in S PROVE length + 1 \in S
  <2>1. ASSUME NEW a \in 1 .. n, NEW b \in 1 .. n, a <= b, b - a < length + 1
        PROVE  Right(a, b)
    <3> DEFINE result == RequestBatch(service, SubSeq(texts, a, b))
    <3>1. part[<<a, b>>] = Part(service, texts, part, <<a, b>>)
      BY <1>1 DEF Ranges
    <3>2. SubSeq(texts, a, b) \in Seq(T) /\ SubSeq(texts, a, b) # <<>>
      BY <2>1, SubSeqOfTexts
    <3>3. Exact(result, SubSeq(texts, a, b))
      BY <3>2, RequestIsExact
    <3>4. CASE result.error # "too_large"
      BY <3>1, <3>3, <3>4 DEF Part
    <3>5. CASE result.error = "too_large" /\ a = b
      <4>1. part[<<a, b>>] = NotEmbedded("EMBEDDING_REQUEST_FAILED", FALSE)
        BY <3>1, <3>5 DEF Part
      <4> QED BY <4>1 DEF Exact, EmbedErrors, NotEmbedded
    <3>6. CASE result.error = "too_large" /\ a # b
      <4>1. PICK middle \in a .. b - 1 :
                /\ middle \in DOMAIN texts /\ middle + 1 \in DOMAIN texts
                /\ middle = a + ((b - a + 1) \div 2) - 1
        BY <1>1, <3>6, HalvesAreShorter, ZenonT(30)
      <4> DEFINE left == SubSeq(texts, a, middle)
                 right == SubSeq(texts, middle + 1, b)
      <4>2. part[<<a, b>>] = Join(part[<<a, middle>>], part[<<middle + 1, b>>])
        BY <3>1, <3>6, <4>1 DEF Part
      <4>3. Exact(part[<<a, middle>>], left) /\ Exact(part[<<middle + 1, b>>], right)
        <5>1. /\ a \in 1 .. n /\ middle \in 1 .. n /\ a <= middle /\ middle - a < length
              /\ middle + 1 \in 1 .. n /\ b \in 1 .. n /\ middle + 1 <= b
              /\ b - (middle + 1) < length
          <6> HIDE DEF n
          <6> QED BY <1>1, <2>1, <4>1
        <5>2. Right(a, middle) /\ Right(middle + 1, b)
          <6> HIDE DEF n, Right
          <6> QED BY <1>3, <5>1
        <5> QED BY <5>2
      <4>4. left \in Seq(T) /\ right \in Seq(T) /\ left \o right = SubSeq(texts, a, b)
        <5>1. left \in Seq(T)
          <6>1. middle \in 1 .. n /\ a <= middle
            BY <1>1, <2>1, <4>1
          <6> QED BY <6>1, SubSeqOfTexts
        <5>2. right \in Seq(T)
          <6>1. middle + 1 \in 1 .. n /\ middle + 1 <= b
            BY <1>1, <2>1, <4>1
          <6> QED BY <6>1, SubSeqOfTexts
        <5>3. left \o right = SubSeq(texts, a, b)
          <6>1. /\ a \in 1 .. Len(texts) + 1 /\ middle \in a - 1 .. Len(texts)
                /\ b \in middle .. Len(texts)
            <7> HIDE DEF n
            <7> QED BY <1>1, <2>1, <4>1 DEF n
          <6> QED BY <6>1, ConcatAdjacentSubSeq
        <5> QED BY <5>1, <5>2, <5>3
      <4> QED BY <4>2, <4>3, <4>4, JoinIsExact
    <3> QED BY <3>4, <3>5, <3>6
  <2> HIDE DEF Right, n
  <2> QED BY <2>1
<1>4. n \in S
  <2>1. \A m \in Nat : m \in S
    <3> HIDE DEF S
    <3> QED BY <1>2, <1>3, SetInduction
  <2> HIDE DEF S
  <2> QED BY <1>1, <2>1
<1>5. \A a, b \in 1 .. n : a <= b => Right(a, b)
  <2> HIDE DEF Right, n
  <2> QED BY <1>1, <1>4
<1> QED BY <1>5

\* _embed_batch_adaptive
LEMMA EmbedAdaptiveIsExact ==
    ASSUME NEW service \in Services, NEW T, NEW texts \in Seq(T), texts # <<>>
    PROVE  Exact(EmbedAdaptive(service, texts), texts)
<1>1. PICK part : /\ part = [range \in Ranges(texts) |-> Part(service, texts, part, range)]
                  /\ EmbedAdaptive(service, texts) = part[<<1, Len(texts)>>]
  BY EmbedAdaptiveDef
<1>2. Len(texts) \in Nat /\ Len(texts) # 0
  BY LenProperties, EmptySeq
<1>3. Exact(part[<<1, Len(texts)>>], SubSeq(texts, 1, Len(texts)))
  <2>1. 1 \in 1 .. Len(texts) /\ Len(texts) \in 1 .. Len(texts) /\ 1 <= Len(texts)
    BY <1>2
  <2> QED BY <1>1, <2>1, PartsAreExact
<1>4. SubSeq(texts, 1, Len(texts)) = texts
  BY SubSeqFull
<1> QED BY <1>1, <1>3, <1>4

----------------------------------------------------------------------------
(* embed: one batch after the other.                                       *)

Batches(texts) == (Len(texts) + ModelBatch - 1) \div ModelBatch
EndOf(texts, i) == Min({i * ModelBatch, Len(texts)})
BatchOf(texts, i) == SubSeq(texts, (i - 1) * ModelBatch + 1, EndOf(texts, i))

\* The body of the recursive function of Embed.
UpTo(service, texts, upTo, i) ==
    LET result == EmbedAdaptive(service, BatchOf(texts, i))
    IN  IF i = 1 THEN result ELSE Join(upTo[i - 1], result)

\* The number of batches.
LEMMA CeilingOfQuotient ==
    ASSUME NEW n \in Nat \ {0}, NEW size \in Nat \ {0}, NEW b, b = (n + size - 1) \div size
    PROVE  b \in Nat \ {0} /\ b * size >= n /\ (b - 1) * size < n
<1>1. b \in Nat /\ b * size >= n /\ (b - 1) * size < n
  OBVIOUS
<1> QED BY <1>1

\* Where batches begin and end.
LEMMA BatchesCover ==
    ASSUME NEW T, NEW texts \in Seq(T), texts # <<>>
    PROVE  /\ Batches(texts) \in Nat \ {0} /\ EndOf(texts, Batches(texts)) = Len(texts)
           /\ \A i \in 1 .. Batches(texts) :
                  /\ (i - 1) * ModelBatch + 1 \in 1 .. Len(texts)
                  /\ EndOf(texts, i) \in 1 .. Len(texts)
                  /\ (i - 1) * ModelBatch + 1 <= EndOf(texts, i)
                  /\ i > 1 => EndOf(texts, i - 1) = (i - 1) * ModelBatch
<1> DEFINE n == Len(texts)
           b == Batches(texts)
<1>1. n \in Nat \ {0} /\ ModelBatch \in Nat \ {0}
  BY LenProperties, EmptySeq, EmbeddingAssumption
<1>2. \A x, y \in Nat : Min({x, y}) = IF x <= y THEN x ELSE y
  BY DEF Min
<1>3. b \in Nat \ {0} /\ b * ModelBatch >= n /\ (b - 1) * ModelBatch < n
  <2>1. b = (n + ModelBatch - 1) \div ModelBatch
    BY DEF Batches
  <2> HIDE DEF b, n
  <2> QED BY <1>1, <2>1, CeilingOfQuotient
<1>4. EndOf(texts, b) = n
  <2>1. b * ModelBatch \in Nat
    <3> HIDE DEF b
    <3> QED BY <1>1, <1>3
  <2> HIDE DEF b, n
  <2> QED BY <1>1, <1>2, <1>3, <2>1 DEF EndOf, n
<1>5. ASSUME NEW i \in 1 .. b
      PROVE  /\ (i - 1) * ModelBatch + 1 \in 1 .. n
             /\ EndOf(texts, i) \in 1 .. n
             /\ (i - 1) * ModelBatch + 1 <= EndOf(texts, i)
             /\ i > 1 => EndOf(texts, i - 1) = (i - 1) * ModelBatch
  <2> HIDE DEF b, n
  <2>1. i \in Nat \ {0} /\ i * ModelBatch \in Nat /\ (i - 1) * ModelBatch \in Nat
        /\ i * ModelBatch = (i - 1) * ModelBatch + ModelBatch
    BY <1>1, <1>3
  <2>2. (i - 1) * ModelBatch <= (b - 1) * ModelBatch
    BY <1>1, <1>3
  <2>3. (i - 1) * ModelBatch < n
    BY <1>1, <1>3, <2>1, <2>2
  <2>4. EndOf(texts, i) = IF i * ModelBatch <= n THEN i * ModelBatch ELSE n
    BY <1>1, <1>2, <2>1 DEF EndOf, n
  <2>5. EndOf(texts, i - 1) = IF (i - 1) * ModelBatch <= n THEN (i - 1) * ModelBatch ELSE n
    BY <1>1, <1>2, <2>1 DEF EndOf, n
  <2> DEFINE e == i * ModelBatch
             f == (i - 1) * ModelBatch
  <2> HIDE DEF e, f
  <2> QED BY <1>1, <2>1, <2>3, <2>4, <2>5 DEF e, f
<1> QED BY <1>3, <1>4, <1>5

\* The recursive function of Embed exists.
LEMMA UpToExists ==
    ASSUME NEW service, NEW texts, NEW n \in Nat
    PROVE  \E upTo : upTo = [i \in 1 .. n |-> UpTo(service, texts, upTo, i)]
<1> DEFINE Right(upTo, m) == upTo = [i \in 1 .. m |-> UpTo(service, texts, upTo, i)]
           S == {m \in Nat : \E upTo : Right(upTo, m)}
<1>1. 0 \in S
  <2> DEFINE none == [i \in 1 .. 0 |-> 0]
  <2>1. Right(none, 0)
    OBVIOUS
  <2> HIDE DEF Right, none
  <2> QED BY <2>1
<1>2. ASSUME NEW m \in Nat, m \in S PROVE m + 1 \in S
  <2>1. PICK f : Right(f, m)
    <3> HIDE DEF Right
    <3> QED BY <1>2
  <2> DEFINE g == [i \in 1 .. m + 1 |-> UpTo(service, texts, f, i)]
  <2>2. \A i \in 1 .. m : f[i] = g[i]
    BY <2>1
  <2>3. ASSUME NEW i \in 1 .. m + 1
        PROVE  UpTo(service, texts, f, i) = UpTo(service, texts, g, i)
    <3>1. CASE i = 1
      BY <3>1 DEF UpTo
    <3>2. CASE i # 1
      <4>1. i - 1 \in 1 .. m
        BY <3>2
      <4>2. f[i - 1] = g[i - 1]
        BY <2>2, <4>1
      <4> HIDE DEF g
      <4> QED BY <4>2 DEF UpTo
    <3> QED BY <3>1, <3>2
  <2>4. Right(g, m + 1)
    <3> DEFINE h == [i \in 1 .. m + 1 |-> UpTo(service, texts, g, i)]
    <3>1. g = h
      BY <2>3
    <3> QED BY <3>1
  <2> HIDE DEF Right, g
  <2> QED BY <2>4
<1>3. n \in S
  <2>1. \A m \in Nat : m \in S
    <3> HIDE DEF S
    <3> QED BY <1>1, <1>2, SetInduction
  <2> HIDE DEF S
  <2> QED BY <2>1
<1> QED BY <1>3

\* What is embedded after each batch is exact, by induction over the batches.
LEMMA UpToIsExact ==
    ASSUME NEW service \in Services, NEW T, NEW texts \in Seq(T), texts # <<>>, NEW upTo,
           upTo = [i \in 1 .. Batches(texts) |-> UpTo(service, texts, upTo, i)]
    PROVE  Exact(upTo[Batches(texts)], texts)
<1> DEFINE b == Batches(texts)
           Done(i) == SubSeq(texts, 1, EndOf(texts, i))
           S == {i \in Nat : i \in 1 .. b => Exact(upTo[i], Done(i))}
<1>1. b \in Nat \ {0} /\ Len(texts) \in Nat
  BY BatchesCover, LenProperties
<1>2. 0 \in S
  OBVIOUS
<1>3. ASSUME NEW j \in Nat, j \in S PROVE j + 1 \in S
  <2> DEFINE i == j + 1
  <2> SUFFICES ASSUME i \in 1 .. b PROVE Exact(upTo[i], Done(i))
    <3> HIDE DEF Done, b
    <3> QED OBVIOUS
  <2> DEFINE first == (i - 1) * ModelBatch + 1
             last == EndOf(texts, i)
             result == EmbedAdaptive(service, BatchOf(texts, i))
  <2>1. first \in 1 .. Len(texts) /\ last \in 1 .. Len(texts) /\ first <= last
    BY BatchesCover
  <2>2. BatchOf(texts, i) \in Seq(T) /\ BatchOf(texts, i) # <<>>
    <3> HIDE DEF first, last
    <3> QED BY <2>1, SubSeqOfTexts DEF BatchOf, first, last
  <2>3. Exact(result, BatchOf(texts, i))
    BY <2>2, EmbedAdaptiveIsExact
  <2>4. upTo[i] = IF i = 1 THEN result ELSE Join(upTo[i - 1], result)
    BY DEF UpTo
  <2>5. CASE i = 1
    <3>1. first = 1
      BY <2>5, EmbeddingAssumption
    <3>2. BatchOf(texts, i) = Done(i)
      BY <3>1 DEF BatchOf
    <3> QED BY <2>3, <2>4, <2>5, <3>2
  <2>6. CASE i # 1
    <3>1. j \in 1 .. b /\ i > 1 /\ i - 1 = j
      BY <1>1, <2>6
    <3>2. Exact(upTo[j], Done(j))
      <4> HIDE DEF Done, b
      <4> QED BY <1>3, <3>1
    <3>3. EndOf(texts, j) \in 1 .. Len(texts) /\ EndOf(texts, j) = first - 1
      <4>1. EndOf(texts, j) \in 1 .. Len(texts)
        BY <3>1, BatchesCover
      <4>2. EndOf(texts, i - 1) = (i - 1) * ModelBatch
        BY <3>1, BatchesCover
      <4>3. EndOf(texts, j) = (i - 1) * ModelBatch
        BY <3>1, <4>2
      <4>4. first - 1 = (i - 1) * ModelBatch
        <5>1. (i - 1) * ModelBatch \in Nat
          BY EmbeddingAssumption
        <5> QED BY <5>1
      <4> QED BY <4>1, <4>3, <4>4
    <3>4. Done(j) \o BatchOf(texts, i) = Done(i)
      <4> DEFINE k == EndOf(texts, j)
      <4>1. /\ 1 \in 1 .. Len(texts) + 1 /\ k \in 1 - 1 .. Len(texts)
            /\ last \in k .. Len(texts) /\ k + 1 = first
        <5> HIDE DEF k, last, first
        <5> QED BY <1>1, <2>1, <3>3 DEF k
      <4>2. SubSeq(texts, 1, k) \o SubSeq(texts, k + 1, last) = SubSeq(texts, 1, last)
        BY <4>1, ConcatAdjacentSubSeq
      <4> HIDE DEF first, last
      <4> QED BY <4>1, <4>2 DEF BatchOf, first, last
    <3>5. Done(j) \in Seq(T)
      <4>1. 1 \in 1 .. Len(texts) /\ 1 <= EndOf(texts, j)
        BY <3>3
      <4> QED BY <3>3, <4>1, SubSeqOfTexts
    <3>6. Exact(Join(upTo[j], result), Done(j) \o BatchOf(texts, i))
      <4> HIDE DEF Done, result
      <4> QED BY <2>2, <2>3, <3>2, <3>5, JoinIsExact
    <3> HIDE DEF Done, result
    <3> QED BY <2>4, <2>6, <3>1, <3>4, <3>6
  <2> QED BY <2>5, <2>6
<1>4. b \in S
  <2>1. \A m \in Nat : m \in S
    <3> HIDE DEF S
    <3> QED BY <1>2, <1>3, SetInduction
  <2> HIDE DEF S
  <2> QED BY <1>1, <2>1
<1>5. Exact(upTo[b], Done(b))
  BY <1>1, <1>4
<1>6. Done(b) = texts
  BY BatchesCover, SubSeqFull
<1> QED BY <1>5, <1>6

\* A call of the client fails, or it returns for each text the vector of exactly
\* that text, all of one dimension: however many texts the service takes at
\* once, in which order it answers, and what is wrong in its answer (embed,
\* _embed_batch_adaptive, _request_batch and _parse_response).
THEOREM EmbedIsExact ==
    ASSUME NEW service \in Services, NEW known, NEW T, NEW texts \in Seq(T),
           NEW S, NEW sizes \in [DOMAIN texts -> S]
    PROVE  Exact(Embed(service, known, texts, sizes), texts)
<1> DEFINE upTo == CHOOSE f : f = [i \in 1 .. Batches(texts) |-> UpTo(service, texts, f, i)]
<1>1. Embed(service, known, texts, sizes) =
          IF ~known THEN NotEmbedded("EMBEDDING_MODEL_UNAVAILABLE", FALSE)
          ELSE IF ~ValidTexts(sizes) THEN NotEmbedded("EMBEDDING_INPUT_INVALID", FALSE)
          ELSE upTo[Batches(texts)]
  BY DEF Embed, UpTo, BatchOf, EndOf, Batches
<1>2. CASE ~known \/ ~ValidTexts(sizes)
  <2> HIDE DEF upTo
  <2> QED BY <1>1, <1>2 DEF Exact, EmbedErrors, NotEmbedded
<1>3. CASE known /\ ValidTexts(sizes)
  <2>1. texts # <<>>
    <3>1. sizes # <<>>
      BY <1>3 DEF ValidTexts
    <3>2. sizes \in [1 .. Len(texts) -> S] /\ Len(texts) \in Nat
      BY LenProperties
    <3>3. sizes \in Seq(S) /\ Len(sizes) = Len(texts)
      BY <3>2
    <3>4. Len(sizes) # 0
      BY <3>1, <3>3, EmptySeq
    <3> QED BY <3>3, <3>4
  <2>2. Batches(texts) \in Nat
    BY <2>1, BatchesCover
  <2>3. upTo = [i \in 1 .. Batches(texts) |-> UpTo(service, texts, upTo, i)]
    BY <2>2, UpToExists
  <2>4. Exact(upTo[Batches(texts)], texts)
    <3> HIDE DEF upTo
    <3> QED BY <2>1, <2>3, UpToIsExact
  <2> HIDE DEF upTo
  <2> QED BY <1>1, <1>3, <2>4
<1> QED BY <1>2, <1>3

(***************************************************************************)
(* The segments of a document and the records of an execution.             *)
(***************************************************************************)

----------------------------------------------------------------------------
(* Which records wait.                                                      *)

IsSequence(s) == Len(s) \in Nat /\ DOMAIN s = 1 .. Len(s)

\* The body of the recursive function of Waiting.
Selected(records, upTo, n) ==
    IF n = 0 THEN <<>>
    ELSE IF Waits(records[n]) THEN Append(upTo[n - 1], records[n])
    ELSE upTo[n - 1]

\* The recursive function of Waiting exists.
LEMMA SelectedExists ==
    ASSUME NEW records, NEW n \in Nat
    PROVE  \E upTo : upTo = [i \in 0 .. n |-> Selected(records, upTo, i)]
<1> DEFINE Right(upTo, m) == upTo = [i \in 0 .. m |-> Selected(records, upTo, i)]
           S == {m \in Nat : \E upTo : Right(upTo, m)}
<1>1. 0 \in S
  <2> DEFINE none == [i \in 0 .. 0 |-> <<>>]
  <2>1. Right(none, 0)
    BY DEF Selected
  <2> HIDE DEF Right, none
  <2> QED BY <2>1
<1>2. ASSUME NEW m \in Nat, m \in S PROVE m + 1 \in S
  <2>1. PICK f : Right(f, m)
    <3> HIDE DEF Right
    <3> QED BY <1>2
  <2> DEFINE g == [i \in 0 .. m + 1 |-> Selected(records, f, i)]
  <2>2. \A i \in 0 .. m : f[i] = g[i]
    BY <2>1
  <2>3. ASSUME NEW i \in 0 .. m + 1
        PROVE  Selected(records, f, i) = Selected(records, g, i)
    <3>1. CASE i = 0
      BY <3>1 DEF Selected
    <3>2. CASE i # 0
      <4>1. i - 1 \in 0 .. m
        BY <3>2
      <4>2. f[i - 1] = g[i - 1]
        BY <2>2, <4>1
      <4> HIDE DEF g
      <4> QED BY <4>2 DEF Selected
    <3> QED BY <3>1, <3>2
  <2>4. Right(g, m + 1)
    <3> DEFINE h == [i \in 0 .. m + 1 |-> Selected(records, g, i)]
    <3>1. g = h
      BY <2>3
    <3> QED BY <3>1
  <2> HIDE DEF Right, g
  <2> QED BY <2>4
<1>3. n \in S
  <2>1. \A m \in Nat : m \in S
    <3> HIDE DEF S
    <3> QED BY <1>1, <1>2, SetInduction
  <2> HIDE DEF S
  <2> QED BY <2>1
<1> QED BY <1>3

\* Waiting lists the records that wait, and no others.
LEMMA WaitingIs ==
    ASSUME NEW records, IsSequence(records)
    PROVE  /\ Waiting(records) \in Seq(ToSet(records))
           /\ \A k \in 1 .. Len(Waiting(records)) :
                  \E i \in DOMAIN records : Waits(records[i]) /\ Waiting(records)[k] = records[i]
           /\ \A i \in DOMAIN records :
                  Waits(records[i]) =>
                      \E k \in 1 .. Len(Waiting(records)) : Waiting(records)[k] = records[i]
<1> DEFINE n == Len(records)
           upTo == CHOOSE f : f = [i \in 0 .. n |-> Selected(records, f, i)]
           R == ToSet(records)
           Lists(s, m) ==
               /\ s \in Seq(R)
               /\ \A k \in 1 .. Len(s) : \E i \in 1 .. m : Waits(records[i]) /\ s[k] = records[i]
               /\ \A i \in 1 .. m : Waits(records[i]) => \E k \in 1 .. Len(s) : s[k] = records[i]
           S == {m \in Nat : m <= n => Lists(upTo[m], m)}
<1>1. n \in Nat /\ DOMAIN records = 1 .. n
  BY DEF IsSequence
<1>2. Waiting(records) = upTo[n]
  BY DEF Waiting, Selected
<1>3. upTo = [i \in 0 .. n |-> Selected(records, upTo, i)]
  BY <1>1, SelectedExists
<1>4. \A i \in 0 .. n : upTo[i] = Selected(records, upTo, i)
  <2> HIDE DEF upTo
  <2> QED BY <1>3
<1>5. 0 \in S
  <2>1. upTo[0] = <<>>
    BY <1>1, <1>4 DEF Selected
  <2>2. Lists(<<>>, 0)
    BY EmptySeq
  <2> HIDE DEF upTo, Lists
  <2> QED BY <2>1, <2>2
<1>6. ASSUME NEW m \in Nat, m \in S PROVE m + 1 \in S
  <2> DEFINE s == upTo[m]
  <2> SUFFICES ASSUME m + 1 <= n PROVE Lists(upTo[m + 1], m + 1)
    <3> HIDE DEF Lists, upTo
    <3> QED OBVIOUS
  <2>1. m \in 0 .. n /\ m + 1 \in 1 .. n /\ m + 1 \in 0 .. n /\ (m + 1) - 1 = m
    <3> HIDE DEF n
    <3> QED BY <1>1
  <2>2. Lists(s, m)
    <3> HIDE DEF Lists, upTo
    <3> QED BY <1>6, <2>1
  <2>3. upTo[m + 1] = IF Waits(records[m + 1]) THEN Append(s, records[m + 1]) ELSE s
    <3> HIDE DEF upTo
    <3> QED BY <1>4, <2>1 DEF Selected
  <2>4. records[m + 1] \in R
    BY <1>1, <2>1 DEF ToSet
  <2> DEFINE t == Append(s, records[m + 1])
  <2>5. CASE Waits(records[m + 1])
    <3>1. /\ t \in Seq(R) /\ Len(t) = Len(s) + 1 /\ Len(s) \in Nat
          /\ \A k \in 1 .. Len(s) : t[k] = s[k]
          /\ t[Len(s) + 1] = records[m + 1]
      <4>1. s \in Seq(R)
        BY <2>2
      <4> HIDE DEF s, R
      <4> QED BY <2>4, <4>1, AppendProperties, LenProperties
    <3>2. ASSUME NEW k \in 1 .. Len(t)
          PROVE  \E i \in 1 .. m + 1 : Waits(records[i]) /\ t[k] = records[i]
      <4>1. CASE k = Len(s) + 1
        <5> HIDE DEF s, t
        <5> QED BY <2>5, <3>1, <4>1
      <4>2. CASE k # Len(s) + 1
        <5>1. k \in 1 .. Len(s)
          <6> HIDE DEF s, t
          <6> QED BY <3>1, <4>2
        <5>2. PICK i \in 1 .. m : Waits(records[i]) /\ s[k] = records[i]
          <6> HIDE DEF s
          <6> QED BY <2>2, <5>1
        <5> HIDE DEF s, t
        <5> QED BY <3>1, <5>1, <5>2
      <4> QED BY <4>1, <4>2
    <3>3. ASSUME NEW i \in 1 .. m + 1, Waits(records[i])
          PROVE  \E k \in 1 .. Len(t) : t[k] = records[i]
      <4>1. CASE i = m + 1
        <5> HIDE DEF s, t
        <5> QED BY <3>1, <4>1
      <4>2. CASE i # m + 1
        <5>1. PICK k \in 1 .. Len(s) : s[k] = records[i]
          <6> HIDE DEF s
          <6> QED BY <2>2, <3>3, <4>2
        <5> HIDE DEF s, t
        <5> QED BY <3>1, <5>1
      <4> QED BY <4>1, <4>2
    <3>4. Lists(t, m + 1)
      <4> HIDE DEF t, R
      <4> QED BY <3>1, <3>2, <3>3
    <3>5. upTo[m + 1] = t
      <4> HIDE DEF upTo
      <4> QED BY <2>3, <2>5
    <3> HIDE DEF Lists, t, upTo
    <3> QED BY <3>4, <3>5
  <2>6. CASE ~Waits(records[m + 1])
    <3> HIDE DEF upTo, R
    <3>1. upTo[m + 1] = upTo[m]
      BY <2>3, <2>6
    <3> QED BY <2>2, <2>6, <3>1
  <2> QED BY <2>5, <2>6
<1>7. n \in S
  <2>1. \A m \in Nat : m \in S
    <3> HIDE DEF S
    <3> QED BY <1>5, <1>6, SetInduction
  <2> HIDE DEF S
  <2> QED BY <1>1, <2>1
<1>8. Lists(upTo[n], n)
  <2> HIDE DEF Lists, upTo
  <2> QED BY <1>1, <1>7
<1> HIDE DEF upTo
<1> QED BY <1>1, <1>2, <1>8, ZenonT(30)

----------------------------------------------------------------------------
(* What a document is staged as.                                            *)

ParentIdOf(d, namespace, segments, s) ==
    IF s.type # "child" THEN <<>>
    ELSE LET q == CHOOSE q \in ToSet(segments) : q.local = s.parent
         IN  <<StableId(d, <<>>, q.position, ContentHash(q.content, <<q.source, namespace>>))>>
CandidateOf(d, technique, namespace, segments, s) ==
    LET hash == ContentHash(s.content, <<s.source, namespace>>)
    IN  [id |-> StableId(d, ParentIdOf(d, namespace, segments, s), s.position, hash),
         document |-> d, parent |-> ParentIdOf(d, namespace, segments, s), position |-> s.position,
         content |-> Normalized(s.content), metadata |-> <<s.source, namespace>>,
         type |-> s.type, keywords |-> s.keywords,
         embedding |-> IF s.type = "parent" \/ technique = "economy"
                       THEN "not_required" ELSE "waiting"]

\* Segments that BuildCandidates accepts.
Acceptable(d, technique, namespace, segments) ==
    /\ \A i \in DOMAIN segments : segments[i].type \in SegmentTypes
    /\ \A i, j \in DOMAIN segments : segments[i].local = segments[j].local => i = j
    /\ \A i \in DOMAIN segments : ValidParent(segments[i], segments)
    /\ \A i, j \in DOMAIN segments :
           CandidateOf(d, technique, namespace, segments, segments[i]).id
               = CandidateOf(d, technique, namespace, segments, segments[j]).id => i = j

\* What BuildCandidates returns.
LEMMA BuiltCandidates ==
    ASSUME NEW d, NEW technique, NEW namespace, NEW segments
    PROVE  LET list == [i \in DOMAIN segments |->
                           CandidateOf(d, technique, namespace, segments, segments[i])]
           IN  BuildCandidates(d, technique, namespace, segments) =
                   IF Acceptable(d, technique, namespace, segments)
                   THEN [error |-> "none", list |-> list] ELSE Invalid
<1> DEFINE list == [i \in DOMAIN segments |->
                           CandidateOf(d, technique, namespace, segments, segments[i])]
           locals == [i \in DOMAIN segments |-> segments[i].local]
           ids == [i \in DOMAIN list |-> list[i].id]
           bad == \/ \E i \in DOMAIN segments : segments[i].type \notin SegmentTypes
                  \/ ~IsInjective(locals)
                  \/ \E i \in DOMAIN segments : ~ValidParent(segments[i], segments)
<1>1. BuildCandidates(d, technique, namespace, segments) =
          IF bad THEN Invalid ELSE IF ~IsInjective(ids) THEN Invalid
          ELSE [error |-> "none", list |-> list]
  BY DEF BuildCandidates, CandidateOf, ParentIdOf
<1>2. IsInjective(locals) <=>
          \A i, j \in DOMAIN segments : segments[i].local = segments[j].local => i = j
  BY DEF IsInjective
<1>3. IsInjective(ids) <=>
          \A i, j \in DOMAIN segments :
              CandidateOf(d, technique, namespace, segments, segments[i]).id
                  = CandidateOf(d, technique, namespace, segments, segments[j]).id => i = j
  <2> HIDE DEF CandidateOf
  <2> QED BY DEF IsInjective
<1>4. Acceptable(d, technique, namespace, segments) <=> ~bad /\ IsInjective(ids)
  <2> HIDE DEF locals, ids
  <2> QED BY <1>2, <1>3 DEF Acceptable
<1> HIDE DEF list, ids, bad
<1> QED BY <1>1, <1>4 DEF list

\* The candidates of a document are a sequence of its segments, each with an id
\* of its own that tells the document, and children with the id of a candidate.
LEMMA ListedIs ==
    ASSUME NEW p \in Plans, NEW d \in DOMAIN p.documents
    PROVE  /\ Len(Listed(p, d)) \in Nat /\ DOMAIN Listed(p, d) = 1 .. Len(Listed(p, d))
           /\ \A i \in DOMAIN Listed(p, d) :
                  LET c == Listed(p, d)[i]
                      s == p.documents[d].segments[i]
                  IN  /\ i \in DOMAIN p.documents[d].segments
                      /\ c.document = d /\ c.id[1] = d /\ c.type \in SegmentTypes
                      /\ c.keywords = s.keywords
                      /\ c.embedding = IF c.type = "parent" \/ p.technique = "economy"
                                       THEN "not_required" ELSE "waiting"
                      /\ \A id \in ToSet(c.parent) :
                             \E j \in DOMAIN Listed(p, d) : Listed(p, d)[j].id = id
           /\ \A i, j \in DOMAIN Listed(p, d) : Listed(p, d)[i].id = Listed(p, d)[j].id => i = j
<1> DEFINE segments == p.documents[d].segments
           C(s) == CandidateOf(d, p.technique, p.namespace, segments, s)
           list == [i \in DOMAIN segments |-> C(segments[i])]
<1>1. Len(segments) \in Nat /\ DOMAIN segments = 1 .. Len(segments)
  <2>1. segments \in Seq(ToSet(segments))
    BY PipelineAssumption
  <2> HIDE DEF segments
  <2> QED BY <2>1, LenProperties
<1>2. CASE ~Acceptable(d, p.technique, p.namespace, segments)
  <2>1. Listed(p, d) = <<>>
    <3> HIDE DEF C
    <3> QED BY <1>2, BuiltCandidates DEF Listed, Invalid
  <2> QED BY <2>1
<1>3. CASE Acceptable(d, p.technique, p.namespace, segments)
  <2>1. Listed(p, d) = list
    <3> HIDE DEF C, list
    <3> QED BY <1>3, BuiltCandidates DEF Listed, C, list
  <2>2. DOMAIN list = 1 .. Len(segments) /\ Len(list) = Len(segments)
    <3> HIDE DEF segments, C
    <3> QED BY <1>1
  <2>3. ASSUME NEW i \in DOMAIN segments
        PROVE  /\ C(segments[i]).document = d /\ C(segments[i]).id[1] = d
               /\ C(segments[i]).type \in SegmentTypes
               /\ C(segments[i]).keywords = segments[i].keywords
               /\ C(segments[i]).embedding =
                      IF C(segments[i]).type = "parent" \/ p.technique = "economy"
                      THEN "not_required" ELSE "waiting"
    <3> HIDE DEF segments
    <3> QED BY <1>3 DEF CandidateOf, StableId, Acceptable
  <2>4. ASSUME NEW i \in DOMAIN segments, NEW id \in ToSet(C(segments[i]).parent)
        PROVE  \E j \in DOMAIN segments : C(segments[j]).id = id
    <3> DEFINE q == CHOOSE q \in ToSet(segments) : q.local = segments[i].parent
    <3> HIDE DEF segments
    <3>1. C(segments[i]).parent = ParentIdOf(d, p.namespace, segments, segments[i])
      BY DEF CandidateOf
    <3>2. CASE segments[i].type # "child"
      <4>1. C(segments[i]).parent = <<>>
        BY <3>1, <3>2 DEF ParentIdOf
      <4>2. ToSet(<<>>) = {}
        BY DEF ToSet
      <4> HIDE DEF C
      <4> QED BY <2>4, <4>1, <4>2
    <3>3. CASE segments[i].type = "child"
      <4>1. PICK j \in DOMAIN segments : segments[j].local = segments[i].parent
                                         /\ segments[j].type = "parent"
        BY <1>3, <3>3 DEF Acceptable, ValidParent
      <4>2. q \in ToSet(segments) /\ q.local = segments[i].parent
        BY <4>1 DEF ToSet
      <4>3. q = segments[j]
        <5>1. PICK k \in DOMAIN segments : q = segments[k]
          BY <4>2 DEF ToSet
        <5>2. k = j
          BY <1>3, <4>1, <4>2, <5>1 DEF Acceptable
        <5> QED BY <5>1, <5>2
      <4>4. C(segments[i]).parent = <<C(segments[j]).id>>
        <5>1. ParentIdOf(d, p.namespace, segments, segments[j]) = <<>>
          BY <4>1 DEF ParentIdOf
        <5>2. C(segments[j]).id =
                  StableId(d, <<>>, segments[j].position,
                           ContentHash(segments[j].content, <<segments[j].source, p.namespace>>))
          BY <5>1 DEF CandidateOf
        <5> HIDE DEF C
        <5> QED BY <3>1, <3>3, <4>3, <5>2 DEF ParentIdOf
      <4>5. ToSet(<<C(segments[j]).id>>) = {C(segments[j]).id}
        <5> DEFINE x == C(segments[j]).id
        <5> HIDE DEF C, x
        <5> QED BY DEF ToSet, x
      <4> HIDE DEF C
      <4> QED BY <2>4, <4>4, <4>5
    <3> QED BY <3>2, <3>3
  <2>5. \A i, j \in DOMAIN segments : C(segments[i]).id = C(segments[j]).id => i = j
    <3> HIDE DEF segments
    <3> QED BY <1>3 DEF Acceptable, C
  <2> DEFINE L == Listed(p, d)
  <2>6. Len(L) \in Nat /\ DOMAIN L = 1 .. Len(L) /\ DOMAIN L = DOMAIN segments
        /\ \A i \in DOMAIN L : L[i] = C(segments[i])
    <3> HIDE DEF C, segments, L
    <3> QED BY <1>1, <2>1, <2>2 DEF L
  <2>7. ASSUME NEW i \in DOMAIN L
        PROVE  LET c == L[i]
                   s == segments[i]
               IN  /\ i \in DOMAIN segments
                   /\ c.document = d /\ c.id[1] = d /\ c.type \in SegmentTypes
                   /\ c.keywords = s.keywords
                   /\ c.embedding = IF c.type = "parent" \/ p.technique = "economy"
                                       THEN "not_required" ELSE "waiting"
                   /\ \A id \in ToSet(c.parent) : \E j \in DOMAIN L : L[j].id = id
    <3>1. L[i] = C(segments[i]) /\ i \in DOMAIN segments
      BY <2>6
    <3>2. \A id \in ToSet(C(segments[i]).parent) : \E j \in DOMAIN L : L[j].id = id
      <4> HIDE DEF C, segments, L
      <4> QED BY <2>4, <2>6
    <3> HIDE DEF C, segments, L
    <3> QED BY <2>3, <3>1, <3>2
  <2>8. \A i, j \in DOMAIN L : L[i].id = L[j].id => i = j
    <3> HIDE DEF C, segments, L
    <3> QED BY <2>5, <2>6
  <2> QED BY <2>6, <2>7, <2>8
<1> QED BY <1>2, <1>3

\* The parent of a candidate is a candidate.
LEMMA ParentsAreListed ==
    ASSUME NEW p \in Plans, NEW d \in DOMAIN p.documents, NEW i \in DOMAIN Listed(p, d)
    PROVE  \A id \in ToSet(Listed(p, d)[i].parent) :
              \E j \in DOMAIN Listed(p, d) : Listed(p, d)[j].id = id
<1>1. \A k \in DOMAIN Listed(p, d) :
         LET c == Listed(p, d)[k]
             s == p.documents[d].segments[k]
         IN  /\ k \in DOMAIN p.documents[d].segments
             /\ c.document = d /\ c.id[1] = d /\ c.type \in SegmentTypes
             /\ c.keywords = s.keywords
             /\ c.embedding = IF c.type = "parent" \/ p.technique = "economy"
                              THEN "not_required" ELSE "waiting"
             /\ \A id \in ToSet(c.parent) :
                    \E j \in DOMAIN Listed(p, d) : Listed(p, d)[j].id = id
  BY ONLY ListedIs, p \in Plans, d \in DOMAIN p.documents
<1> QED BY ONLY <1>1, i \in DOMAIN Listed(p, d)

\* Rows are added, and marks are not taken back.
Grows(rs, new) ==
    \A id \in DOMAIN rs :
        id \in DOMAIN new /\ (rs[id].embedding = "completed" => new[id].embedding = "completed")

\* The members of a listing.
LEMMA ListingIs ==
    ASSUME NEW p \in Plans, NEW d \in DOMAIN p.documents, NEW c \in Listing(p, d)
    PROVE  /\ \E i \in DOMAIN Listed(p, d) : c = Listed(p, d)[i]
           /\ c.document = d /\ c.id[1] = d /\ c.type \in SegmentTypes
           /\ c.embedding = IF c.type = "parent" \/ p.technique = "economy"
                            THEN "not_required" ELSE "waiting"
           /\ \A id \in ToSet(c.parent) : \E e \in Listing(p, d) : e.id = id
<1>1. PICK i \in DOMAIN Listed(p, d) : c = Listed(p, d)[i]
  BY DEF Listing, ToSet
<1>2. \A id \in ToSet(c.parent) : \E e \in Listing(p, d) : e.id = id
  <2>1. \A j \in DOMAIN Listed(p, d) : Listed(p, d)[j] \in Listing(p, d)
    BY DEF Listing, ToSet
  <2>2. \A id \in ToSet(Listed(p, d)[i].parent) :
            \E j \in DOMAIN Listed(p, d) : Listed(p, d)[j].id = id
    BY ONLY ParentsAreListed, p \in Plans, d \in DOMAIN p.documents, i \in DOMAIN Listed(p, d)
  <2>3. \A id \in ToSet(c.parent) : \E j \in DOMAIN Listed(p, d) : Listed(p, d)[j].id = id
    BY <1>1, <2>2
  <2> QED BY <2>1, <2>3
<1> QED BY <1>1, <1>2, ListedIs

\* The elements of the list of candidates are what a document is staged as.
LEMMA ListedIsListing ==
    ASSUME NEW p, NEW d, NEW i \in DOMAIN Listed(p, d)
    PROVE  Listed(p, d)[i] \in Listing(p, d)
BY DEF Listing, ToSet

\* An id is the id of one candidate only, of all the documents of a plan.
LEMMA OneCandidate ==
    ASSUME NEW p \in Plans, NEW d \in DOMAIN p.documents, NEW f \in DOMAIN p.documents,
           NEW c \in Listing(p, d), NEW e \in Listing(p, f), c.id = e.id
    PROVE  d = f /\ c = e
<1>1. d = f
  BY ListingIs
<1>2. PICK i \in DOMAIN Listed(p, d) : c = Listed(p, d)[i]
  BY ListingIs
<1>3. PICK j \in DOMAIN Listed(p, d) : e = Listed(p, d)[j]
  BY <1>1, ListingIs
<1>4. i = j
  BY <1>2, <1>3, ListedIs
<1> QED BY <1>1, <1>2, <1>3, <1>4

\* The row with the id of a candidate is its row.
LEMMA RowOfCandidate ==
    ASSUME NEW p \in Plans, NEW rs, RowsOK(p, rs), NEW d \in DOMAIN p.documents,
           NEW c \in Listing(p, d), c.id \in DOMAIN rs
    PROVE  StagedAs(rs[c.id], c)
<1>1. PICK f \in DOMAIN p.documents : \E e \in Listing(p, f) :
          e.id = c.id /\ StagedAs(rs[c.id], e)
  BY DEF RowsOK
<1>2. PICK e \in Listing(p, f) : e.id = c.id /\ StagedAs(rs[c.id], e)
  BY <1>1
<1>3. c = e
  BY <1>2, OneCandidate
<1> QED BY <1>2, <1>3

\* stage adds the rows of the candidates that have none and touches no other.
LEMMA InsertedRows ==
    ASSUME NEW p \in Plans, NEW d \in DOMAIN p.documents, NEW rs, NEW new,
           new = InsertMissing(Listed(p, d), rs), RowsOK(p, rs)
    PROVE  /\ DOMAIN new = DOMAIN rs \cup {c.id : c \in Listing(p, d)}
           /\ \A id \in DOMAIN rs : new[id] = rs[id]
           /\ \A c \in Listing(p, d) : c.id \notin DOMAIN rs => new[c.id] = Row(c)
           /\ \A c \in Listing(p, d) : StagedAs(new[c.id], c)
           /\ RowsOK(p, new)
<1> DEFINE missing == {c \in Listing(p, d) : c.id \notin DOMAIN rs}
           R(id) == CHOOSE c \in missing : c.id = id
<1>1. new = [id \in DOMAIN rs \cup {c.id : c \in missing} |->
                IF id \in DOMAIN rs THEN rs[id] ELSE Row(R(id))]
  BY DEF InsertMissing, Listing
<1>2. DOMAIN new = DOMAIN rs \cup {c.id : c \in Listing(p, d)}
  BY <1>1
<1>3. \A id \in DOMAIN rs : new[id] = rs[id]
  BY <1>1
<1>4. ASSUME NEW c \in Listing(p, d), c.id \notin DOMAIN rs
      PROVE  new[c.id] = Row(c)
  <2>1. c \in missing
    BY <1>4
  <2>2. R(c.id) \in missing /\ R(c.id).id = c.id
    BY <2>1
  <2>3. R(c.id) = c
    <3> HIDE DEF R
    <3> QED BY <2>2, OneCandidate
  <2> HIDE DEF R
  <2> QED BY <1>1, <1>4, <2>1, <2>3
<1>5. ASSUME NEW c \in Listing(p, d) PROVE StagedAs(Row(c), c)
  <2>1. c.embedding \in {"waiting", "not_required"}
    BY ListingIs
  <2> QED BY <2>1 DEF StagedAs, Row, RowFields
<1>6. \A c \in Listing(p, d) : StagedAs(new[c.id], c)
  <2> TAKE c \in Listing(p, d)
  <2>1. CASE c.id \in DOMAIN rs
    BY <1>3, <2>1, RowOfCandidate
  <2>2. CASE c.id \notin DOMAIN rs
    BY <1>4, <1>5, <2>2
  <2> QED BY <2>1, <2>2
<1>7. RowsOK(p, new)
  <2> SUFFICES ASSUME NEW id \in DOMAIN new
               PROVE  \E f \in DOMAIN p.documents : \E c \in Listing(p, f) :
                          c.id = id /\ StagedAs(new[id], c)
    BY DEF RowsOK
  <2>1. CASE id \in DOMAIN rs
    BY <1>3, <2>1 DEF RowsOK
  <2>2. CASE id \notin DOMAIN rs
    <3>1. PICK c \in Listing(p, d) : c.id = id
      BY <1>2, <2>2
    <3> QED BY <1>6, <3>1
  <2> QED BY <2>1, <2>2
<1> QED BY <1>2, <1>3, <1>4, <1>6, <1>7

\* What an execution remembers of the rows it staged.
LEMMA StagedRecords ==
    ASSUME NEW p \in Plans, NEW d \in DOMAIN p.documents, NEW rs, NEW new,
           new = InsertMissing(Listed(p, d), rs), RowsOK(p, rs), NEW records,
           records = [i \in DOMAIN Listed(p, d) |-> new[Listed(p, d)[i].id]],
           \A i \in DOMAIN records : records[i].type \in ModeTypes(p)
    PROVE  RecordsOK(p, d, records, new)
<1>1. DOMAIN records = DOMAIN Listed(p, d) /\ Len(records) \in Nat
      /\ DOMAIN records = 1 .. Len(records)
  <2>1. Len(Listed(p, d)) \in Nat /\ DOMAIN Listed(p, d) = 1 .. Len(Listed(p, d))
    BY ListedIs
  <2> QED BY <2>1
<1>2. /\ DOMAIN new = DOMAIN rs \cup {c.id : c \in Listing(p, d)}
      /\ \A c \in Listing(p, d) : StagedAs(new[c.id], c)
  BY InsertedRows
<1>3. ASSUME NEW i \in DOMAIN records
      PROVE  /\ StagedAs(records[i], Listed(p, d)[i])
             /\ records[i].id \in DOMAIN new /\ records[i] = new[records[i].id]
  <2> DEFINE c == Listed(p, d)[i]
  <2>1. c \in Listing(p, d)
    BY <1>1, ListedIsListing
  <2>2. records[i] = new[c.id]
    BY <1>1
  <2>3. StagedAs(new[c.id], c) /\ c.id \in DOMAIN new
    BY <1>2, <2>1
  <2>4. records[i].id = c.id
    BY <2>2, <2>3 DEF StagedAs
  <2> QED BY <2>2, <2>3, <2>4
<1> QED BY <1>1, <1>3 DEF RecordsOK

----------------------------------------------------------------------------
(* Rows that change.                                                       *)

\* What a step may do to a row.
RowStep(old, new) ==
    \/ new = old
    \/ \E k : new = [old EXCEPT !.keywords = k]
    \/ new = [old EXCEPT !.status = "completed"]
    \/ /\ old.embedding \in {"waiting", "completed"}
       /\ new = [old EXCEPT !.embedding = "completed"]

\* Rows with other keywords, marks or status are still those of their candidates.
LEMMA ChangedRows ==
    ASSUME NEW p \in Plans, NEW rs, NEW new, RowsOK(p, rs), DOMAIN new = DOMAIN rs,
           \A id \in DOMAIN rs : RowStep(rs[id], new[id])
    PROVE  /\ RowsOK(p, new) /\ Grows(rs, new)
           /\ \A id \in DOMAIN rs : new[id].content = rs[id].content
                                    /\ new[id].document = rs[id].document
                                    /\ new[id].parent = rs[id].parent
                                    /\ new[id].position = rs[id].position
<1>1. ASSUME NEW id \in DOMAIN rs, NEW c, StagedAs(rs[id], c)
      PROVE  /\ StagedAs(new[id], c)
             /\ rs[id].embedding = "completed" => new[id].embedding = "completed"
  <2> DEFINE r == rs[id]
             n == new[id]
  <2> DEFINE Goal == StagedAs(n, c) /\ (r.embedding = "completed" => n.embedding = "completed")
  <2>1. StagedAs(r, c) /\ RowStep(r, n)
    BY <1>1
  <2>2. Goal
    <3> HIDE DEF r, n
    <3>1. CASE n = r
      BY <2>1, <3>1
    <3>2. CASE \E k : n = [r EXCEPT !.keywords = k]
      BY <2>1, <3>2 DEF StagedAs, RowFields
    <3>3. CASE n = [r EXCEPT !.status = "completed"]
      BY <2>1, <3>3 DEF StagedAs, RowFields
    <3>4. CASE /\ r.embedding \in {"waiting", "completed"}
               /\ n = [r EXCEPT !.embedding = "completed"]
      BY <2>1, <3>4 DEF StagedAs, RowFields
    <3> QED BY <2>1, <3>1, <3>2, <3>3, <3>4 DEF RowStep
  <2> QED BY <2>2
<1>2. \A id \in DOMAIN rs : \E d \in DOMAIN p.documents : \E c \in Listing(p, d) :
          c.id = id /\ StagedAs(rs[id], c)
  BY DEF RowsOK
<1>3. RowsOK(p, new)
  <2> SUFFICES ASSUME NEW id \in DOMAIN rs
               PROVE  \E d \in DOMAIN p.documents : \E c \in Listing(p, d) :
                          c.id = id /\ StagedAs(new[id], c)
    BY DEF RowsOK
  <2>0. PICK d \in DOMAIN p.documents : \E c \in Listing(p, d) : c.id = id /\ StagedAs(rs[id], c)
    BY <1>2
  <2>1. PICK c \in Listing(p, d) : c.id = id /\ StagedAs(rs[id], c)
    BY <2>0
  <2> QED BY <1>1, <2>1
<1>4. Grows(rs, new)
  <2> SUFFICES ASSUME NEW id \in DOMAIN rs
               PROVE  rs[id].embedding = "completed" => new[id].embedding = "completed"
    BY DEF Grows
  <2> QED BY <1>1, <1>2
<1>5. ASSUME NEW id \in DOMAIN rs
      PROVE  /\ new[id].content = rs[id].content /\ new[id].document = rs[id].document
             /\ new[id].parent = rs[id].parent /\ new[id].position = rs[id].position
  <2>0. PICK d \in DOMAIN p.documents : \E c \in Listing(p, d) : c.id = id /\ StagedAs(rs[id], c)
    BY <1>2
  <2>1. PICK c \in Listing(p, d) : c.id = id /\ StagedAs(rs[id], c)
    BY <2>0
  <2>2. StagedAs(new[id], c)
    BY <1>1, <2>1
  <2> QED BY <2>1, <2>2 DEF StagedAs
<1> QED BY <1>3, <1>4, <1>5

----------------------------------------------------------------------------
(* The batches of an execution.                                             *)

\* Which records wait, and in which order, of those an execution staged.
LEMMA WaitingOf ==
    ASSUME NEW p, NEW d, NEW records, NEW rs, RecordsOK(p, d, records, rs)
    PROVE  /\ Len(Waiting(records)) \in Nat
           /\ DOMAIN Waiting(records) = 1 .. Len(Waiting(records))
           /\ Waiting(records) \in Seq(ToSet(records))
           /\ \A k \in 1 .. Len(Waiting(records)) :
                  \E i \in DOMAIN records : Waits(records[i]) /\ Waiting(records)[k] = records[i]
           /\ \A i \in DOMAIN records :
                  Waits(records[i]) =>
                      \E k \in 1 .. Len(Waiting(records)) : Waiting(records)[k] = records[i]
<1>1. IsSequence(records)
  BY DEF IsSequence, RecordsOK
<1>2. Waiting(records) \in Seq(ToSet(records))
  BY <1>1, WaitingIs
<1>3. Len(Waiting(records)) \in Nat /\ DOMAIN Waiting(records) = 1 .. Len(Waiting(records))
  BY <1>2, LenProperties
<1> QED BY <1>1, <1>2, <1>3, WaitingIs

\* An execution that staged nothing has nothing to embed.
LEMMA NothingWaits == Waiting(<<>>) = <<>> /\ NextBatch(<<>>, 0) = <<>>
<1>1. IsSequence(<<>>)
  BY DEF IsSequence
<1>2. Waiting(<<>>) \in Seq(ToSet(<<>>))
      /\ \A k \in 1 .. Len(Waiting(<<>>)) : \E i \in DOMAIN <<>> : Waiting(<<>>)[k] = <<>>[i]
  BY <1>1, WaitingIs
<1>3. Len(Waiting(<<>>)) \in Nat
  BY <1>2, LenProperties
<1>4. Len(Waiting(<<>>)) = 0
  <2>1. SUFFICES ASSUME Len(Waiting(<<>>)) # 0 PROVE FALSE
    OBVIOUS
  <2>2. 1 \in 1 .. Len(Waiting(<<>>))
    BY <1>3, <2>1
  <2>3. DOMAIN <<>> = {}
    OBVIOUS
  <2> QED BY <1>2, <2>2, <2>3
<1>5. Waiting(<<>>) = <<>>
  BY <1>2, <1>4, EmptySeq
<1>6. NextBatch(<<>>, 0) = <<>>
  <2>1. BatchSize \in Nat \ {0}
    BY PipelineAssumption
  <2>2. Min({0 + BatchSize, 0}) = 0
    BY <2>1 DEF Min
  <2>3. NextBatch(<<>>, 0)
            = SubSeq(Waiting(<<>>), 0 + 1, Min({0 + BatchSize, Len(Waiting(<<>>))}))
    BY DEF NextBatch
  <2>4. Min({0 + BatchSize, Len(Waiting(<<>>))}) = 0
    BY <1>4, <2>2
  <2>5. NextBatch(<<>>, 0) = SubSeq(Waiting(<<>>), 0 + 1, 0)
    BY <2>3, <2>4
  <2> QED BY <2>5, SubSeqEmpty
<1> QED BY <1>5, <1>6

\* The batch an execution embeds next is the part of its waiting records after
\* those that are done.
LEMMA NextBatchIs ==
    ASSUME NEW p, NEW d, NEW records, NEW rs, RecordsOK(p, d, records, rs),
           NEW done \in Nat, done <= Len(Waiting(records))
    PROVE  LET waiting == Waiting(records)
               batch == NextBatch(records, done)
           IN  /\ batch \in Seq(ToSet(records))
               /\ Len(batch) \in Nat /\ DOMAIN batch = 1 .. Len(batch)
               /\ done + Len(batch) <= Len(waiting)
               /\ \A i \in 1 .. Len(batch) : done + i \in 1 .. Len(waiting)
                                             /\ batch[i] = waiting[done + i]
<1> DEFINE waiting == Waiting(records)
           m == Len(waiting)
           e == Min({done + BatchSize, m})
           batch == NextBatch(records, done)
<1>1. m \in Nat /\ waiting \in Seq(ToSet(records))
  BY WaitingOf
<1>2. BatchSize \in Nat \ {0}
  BY PipelineAssumption
<1>3. e = IF done + BatchSize <= m THEN done + BatchSize ELSE m
  <2> HIDE DEF m
  <2> QED BY <1>1, <1>2 DEF Min
<1>4. batch = SubSeq(waiting, done + 1, e)
  BY DEF NextBatch
<1>5. e \in Nat /\ done <= e /\ e <= m
  <2> HIDE DEF m, e
  <2> QED BY <1>1, <1>2, <1>3 DEF m
<1>6. \A i \in done + 1 .. e : waiting[i] \in ToSet(records)
  <2> HIDE DEF waiting, e
  <2> QED BY <1>1, <1>5, ElementOfSeq
<1>7. /\ batch \in Seq(ToSet(records))
      /\ Len(batch) = IF done + 1 <= e THEN e - (done + 1) + 1 ELSE 0
      /\ \A i \in 1 .. e - (done + 1) + 1 : batch[i] = waiting[done + 1 + i - 1]
  <2> HIDE DEF waiting, e, batch
  <2>1. done + 1 \in Int /\ e \in Int
    BY <1>5
  <2> QED BY <1>4, <1>6, <2>1, SubSeqProperties
<1>8. Len(batch) = e - done
  <2> HIDE DEF waiting, e, batch
  <2> QED BY <1>5, <1>7
<1>9. DOMAIN batch = 1 .. Len(batch)
  BY <1>7, LenProperties
<1> HIDE DEF waiting, e, batch
<1>10. \A i \in 1 .. Len(batch) : done + i \in 1 .. m /\ batch[i] = waiting[done + i]
  <2> TAKE i \in 1 .. Len(batch)
  <2>1. i \in 1 .. e - (done + 1) + 1 /\ done + 1 + i - 1 = done + i /\ done + i \in 1 .. m
    <3> HIDE DEF m
    <3> QED BY <1>1, <1>5, <1>8
  <2> QED BY <1>7, <2>1
<1>11. done + Len(batch) <= m /\ Len(batch) \in Nat
  <2> HIDE DEF m
  <2> QED BY <1>1, <1>5, <1>8
<1> QED BY <1>7, <1>9, <1>10, <1>11 DEF waiting, batch

\* The records of a batch are those of candidates that need a vector.
LEMMA BatchIsStaged ==
    ASSUME NEW p \in Plans, NEW d \in DOMAIN p.documents, NEW records, NEW rs,
           RecordsOK(p, d, records, rs),
           NEW done \in Nat, done <= Len(Waiting(records)),
           NEW i \in 1 .. Len(NextBatch(records, done))
    PROVE  \E c \in Listing(p, d) :
               /\ StagedAs(NextBatch(records, done)[i], c)
               /\ c.embedding = "waiting" /\ c.id \in DOMAIN rs
<1> DEFINE r == NextBatch(records, done)[i]
<1>1. done + i \in 1 .. Len(Waiting(records)) /\ r = Waiting(records)[done + i]
  BY NextBatchIs
<1>2. PICK j \in DOMAIN records : Waits(records[j]) /\ Waiting(records)[done + i] = records[j]
  BY <1>1, WaitingOf
<1>3. StagedAs(records[j], Listed(p, d)[j]) /\ records[j].id \in DOMAIN rs
      /\ DOMAIN records = DOMAIN Listed(p, d)
  BY DEF RecordsOK
<1>4. Listed(p, d)[j] \in Listing(p, d)
  BY <1>3, ListedIsListing
<1>5. Listed(p, d)[j].embedding = "waiting" /\ Listed(p, d)[j].id \in DOMAIN rs
  BY <1>2, <1>3 DEF StagedAs, Waits
<1> HIDE DEF r
<1>6. r = records[j]
  BY <1>1, <1>2
<1> QED BY <1>3, <1>4, <1>5, <1>6 DEF r

\* An idle execution, one that has left its records, and one about to begin.
LEMMA WithoutRecords ==
    ASSUME NEW p, NEW s, NEW rs, NEW es,
           DOMAIN s = DOMAIN Idle, s.pc \in {"idle", "read", "stage", "failing"},
           s.seen \in Nat, s.dimension \in Nat,
           s.pc # "idle" => s.document \in DOMAIN p.documents,
           s.records = <<>>, s.done = 0
    PROVE  WorkerOK(p, s, rs, es)
BY DEF WorkerOK, Stages, Working, Embeds, Carrying

\* What others do leaves an execution as it was.
LEMMA WorkerKept ==
    ASSUME NEW p, NEW s, NEW rs, NEW es, WorkerOK(p, s, rs, es),
           NEW new, Grows(rs, new), NEW written, DOMAIN es \subseteq DOMAIN written
    PROVE  WorkerOK(p, s, new, written)
<1>1. ASSUME RecordsOK(p, s.document, s.records, rs)
      PROVE  RecordsOK(p, s.document, s.records, new)
  BY <1>1 DEF RecordsOK, Grows
<1>2. ASSUME NEW n, MarkedUpTo(s.records, n, rs)
      PROVE  MarkedUpTo(s.records, n, new)
  BY <1>2 DEF MarkedUpTo, Grows
<1>3. ASSUME Whole(p, s.document, rs)
      PROVE  Whole(p, s.document, new)
  BY <1>3 DEF Whole, Grows
<1> QED BY <1>1, <1>2, <1>3 DEF WorkerOK

(***************************************************************************)
(* Executions.                                                             *)
(***************************************************************************)

----------------------------------------------------------------------------
(* Steps of an execution.                                                   *)

\* The execution that takes a step is in its new state, the others in theirs.
LEMMA GoIs ==
    ASSUME DOMAIN work = Workers, NEW w \in Workers, NEW state, Go(w, state)
    PROVE  /\ DOMAIN work' = Workers /\ work'[w] = state
           /\ \A v \in Workers \ {w} : work'[v] = work[v]
BY DEF Go

ClaimTypes(p, o, a, own) ==
    /\ o \in [DOMAIN p.documents -> {"open", "completed", "failed"}]
    /\ a \in [DOMAIN p.documents -> 0..MaxAttempts]
    /\ own \in [DOMAIN p.documents -> Workers \cup {NoWorker}]

\* A step of an execution keeps the invariant if what it writes is right, its
\* new state too, and a document that it completes is whole.
LEMMA StepOfWorker ==
    ASSUME PipelineInv, NEW w \in Workers, NEW state, Go(w, state),
           plan' = plan, job' = job, dimension' \in Nat, collection' \in Nat,
           deaths' \in 0..MaxDeaths,
           RowsOK(plan, rows'), StatusOK(job, rows'), Grows(rows, rows'),
           EntitiesOK(rows', collection', entities', unrecorded'),
           DOMAIN entities \subseteq DOMAIN entities',
           WorkerOK(plan, state, rows', entities'),
           ClaimTypes(plan, outcome', attempts', owner'),
           \A d \in Targets : outcome[d] = "completed" => outcome'[d] = "completed",
           \A d \in Targets : outcome'[d] = "completed" =>
               outcome[d] = "completed" \/ Whole(plan, d, rows')
    PROVE  PipelineInv' /\ Grows(rows, rows')
<1>1. DOMAIN work' = Workers /\ \A v \in Workers : WorkerOK(plan, work'[v], rows', entities')
  <2>1. DOMAIN work = Workers /\ \A v \in Workers : WorkerOK(plan, work[v], rows, entities)
    BY DEF PipelineInv
  <2>2. DOMAIN work' = Workers /\ work'[w] = state /\ \A v \in Workers \ {w} : work'[v] = work[v]
    BY <2>1, GoIs
  <2>3. ASSUME NEW v \in Workers \ {w} PROVE WorkerOK(plan, work'[v], rows', entities')
    <3>1. WorkerOK(plan, work[v], rows', entities')
      BY <2>1, WorkerKept
    <3> QED BY <2>2, <3>1
  <2> QED BY <2>2, <2>3
<1>2. ClaimsOK'
  <2>1. \A d \in Targets : outcome'[d] = "completed" => Whole(plan, d, rows')
    <3>1. \A d \in Targets : Whole(plan, d, rows) => Whole(plan, d, rows')
      BY DEF Whole, Grows
    <3> QED BY <3>1 DEF PipelineInv, ClaimsOK
  <2> QED BY <2>1 DEF PipelineInv, ClaimsOK, ClaimTypes, Targets
<1> QED BY <1>1, <1>2 DEF PipelineInv

\* Rows that do not change grow.
LEMMA RowsAsTheyAre ==
    ASSUME PipelineInv
    PROVE  Grows(rows, rows)
BY DEF Grows

\* Claims that do not change have their types, and complete no document.
LEMMA ClaimsAsTheyAre ==
    ASSUME PipelineInv, UNCHANGED claims
    PROVE  /\ ClaimTypes(plan, outcome', attempts', owner')
           /\ \A d \in Targets : outcome[d] = "completed" => outcome'[d] = "completed"
           /\ \A d \in Targets : outcome'[d] = "completed" => outcome[d] = "completed"
BY DEF PipelineInv, ClaimsOK, ClaimTypes, Targets, claims

\* A step that changes its execution only.
LEMMA StepWithoutWrites ==
    ASSUME PipelineInv, NEW w \in Workers, NEW state, Go(w, state),
           UNCHANGED <<plan, stored, milvus, claims, deaths>>,
           WorkerOK(plan, state, rows, entities)
    PROVE  PipelineInv' /\ Grows(rows, rows')
<1>1. /\ plan' = plan /\ job' = job /\ dimension' = dimension /\ rows' = rows
      /\ collection' = collection /\ entities' = entities /\ unrecorded' = unrecorded
      /\ deaths' = deaths
  BY DEF stored, milvus
<1>2. /\ dimension' \in Nat /\ collection' \in Nat /\ deaths' \in 0..MaxDeaths
      /\ RowsOK(plan, rows') /\ StatusOK(job, rows')
      /\ EntitiesOK(rows', collection', entities', unrecorded')
  BY <1>1 DEF PipelineInv
<1>3. Grows(rows, rows')
  BY <1>1, RowsAsTheyAre
<1> QED BY <1>1, <1>2, <1>3, ClaimsAsTheyAre, StepOfWorker

\* The shape of an execution.
LEMMA ShapeOf ==
    ASSUME PipelineInv, NEW w \in Workers
    PROVE  /\ WorkerOK(plan, work[w], rows, entities)
           /\ DOMAIN work[w] = DOMAIN Idle /\ work[w].pc \in Stages
           /\ work[w].seen \in Nat /\ work[w].dimension \in Nat
           /\ work[w].pc # "idle" => work[w].document \in DOMAIN plan.documents
BY DEF PipelineInv, WorkerOK

\* The fields of the state of an execution.
LEMMA IdleFields ==
    DOMAIN Idle = {"pc", "document", "seen", "dimension", "records", "done", "vectors", "error",
                   "retryable", "interrupted"}
BY DEF Idle

\* An execution without work.
LEMMA IdleOK ==
    ASSUME NEW p, NEW rs, NEW es
    PROVE  WorkerOK(p, Idle, rs, es)
<1>1. /\ Idle.pc = "idle" /\ Idle.seen \in Nat /\ Idle.dimension \in Nat
      /\ Idle.records = <<>> /\ Idle.done = 0
  BY DEF Idle, Unknown
<1> QED BY <1>1, WithoutRecords

\* An execution that fails.
LEMMA FailingOK ==
    ASSUME PipelineInv, NEW w \in Workers, work[w].pc # "idle", NEW code, NEW retryable,
           NEW rs, NEW es
    PROVE  WorkerOK(plan, [Leave(w, "failing") EXCEPT !.error = code, !.retryable = retryable],
                    rs, es)
<1> DEFINE s == [Leave(w, "failing") EXCEPT !.error = code, !.retryable = retryable]
<1>1. work[w].document \in DOMAIN plan.documents
  BY ShapeOf
<1>2. /\ DOMAIN s = DOMAIN Idle /\ s.pc = "failing" /\ s.seen \in Nat /\ s.dimension \in Nat
      /\ s.document \in DOMAIN plan.documents /\ s.records = <<>> /\ s.done = 0
  BY <1>1 DEF Leave, Idle, Unknown
<1>3. WorkerOK(plan, s, rs, es)
  <2> HIDE DEF s
  <2> QED BY <1>2, WithoutRecords
<1> QED BY <1>3

\* A step that fails and writes nothing.
LEMMA StepFails ==
    ASSUME PipelineInv, NEW w \in Workers, work[w].pc # "idle", NEW code, NEW retryable,
           FailWith(w, code, retryable), UNCHANGED <<plan, stored, milvus, claims, deaths>>
    PROVE  PipelineInv' /\ Grows(rows, rows')
<1>1. Go(w, [Leave(w, "failing") EXCEPT !.error = code, !.retryable = retryable])
  BY DEF FailWith
<1>2. WorkerOK(plan, [Leave(w, "failing") EXCEPT !.error = code, !.retryable = retryable],
               rows, entities)
  BY FailingOK
<1> QED BY <1>1, <1>2, StepWithoutWrites

----------------------------------------------------------------------------
\* The claim of a document starts an execution without records.
LEMMA BeginKeeps ==
    ASSUME PipelineInv, NEW w \in Workers, NEW d \in Targets, Begin(w, d)
    PROVE  PipelineInv' /\ Grows(rows, rows')
<1> DEFINE s == [Idle EXCEPT !.pc = "read", !.document = d, !.seen = dimension,
                             !.dimension = dimension]
<1>1. Go(w, s)
  BY DEF Begin
<1>2. WorkerOK(plan, s, rows, entities)
  <2>1. dimension \in Nat
    BY DEF PipelineInv
  <2>2. /\ DOMAIN s = DOMAIN Idle /\ s.pc = "read" /\ s.seen \in Nat /\ s.dimension \in Nat
        /\ s.document \in DOMAIN plan.documents /\ s.records = <<>> /\ s.done = 0
    BY <2>1 DEF Idle, Unknown, Targets
  <2> HIDE DEF s
  <2> QED BY <2>2, WithoutRecords
<1>3. /\ plan' = plan /\ job' = job /\ dimension' = dimension /\ rows' = rows
      /\ collection' = collection /\ entities' = entities /\ unrecorded' = unrecorded
      /\ deaths' = deaths /\ outcome' = outcome
  BY DEF Begin, stored, milvus
<1>4. /\ dimension' \in Nat /\ collection' \in Nat /\ deaths' \in 0..MaxDeaths
      /\ RowsOK(plan, rows') /\ StatusOK(job, rows')
      /\ EntitiesOK(rows', collection', entities', unrecorded')
  BY <1>3 DEF PipelineInv
<1>5. Grows(rows, rows')
  BY <1>3, RowsAsTheyAre
<1>6. ClaimTypes(plan, outcome', attempts', owner')
  <2>1. /\ outcome \in [Targets -> {"open", "completed", "failed"}]
        /\ attempts \in [Targets -> 0..MaxAttempts]
        /\ owner \in [Targets -> Workers \cup {NoWorker}]
    BY DEF PipelineInv, ClaimsOK
  <2>2. attempts' \in [Targets -> 0..MaxAttempts]
    <3>1. attempts' = [attempts EXCEPT ![d] = attempts[d] + 1] /\ attempts[d] < MaxAttempts
      BY DEF Begin
    <3>2. MaxAttempts \in Nat
      BY PipelineAssumption
    <3> QED BY <2>1, <3>1, <3>2
  <2>3. owner' \in [Targets -> Workers \cup {NoWorker}]
    <3>1. owner' = [owner EXCEPT ![d] = w]
      BY DEF Begin
    <3> QED BY <2>1, <3>1
  <2> QED BY <1>3, <2>1, <2>2, <2>3 DEF ClaimTypes, Targets
<1>7. WorkerOK(plan, s, rows', entities')
  BY <1>2, <1>3
<1> HIDE DEF s
<1> QED BY <1>1, <1>3, <1>4, <1>5, <1>6, <1>7, StepOfWorker

\* A command that is refused, a document without text, and one that was read.
LEMMA ReadDocumentKeeps ==
    ASSUME PipelineInv, NEW w \in Workers, ReadDocument(w)
    PROVE  PipelineInv' /\ Grows(rows, rows')
<1>1. work[w].pc = "read" /\ UNCHANGED <<plan, stored, milvus, claims, deaths>>
  BY DEF ReadDocument
<1>2. CASE FailWith(w, "INDEX_COMMAND_INVALID", FALSE)
  BY <1>1, <1>2, StepFails
<1>3. CASE FailWith(w, "NO_EXTRACTABLE_TEXT", FALSE)
  BY <1>1, <1>3, StepFails
<1>4. CASE Continue(w, "stage")
  <2> DEFINE s == [work[w] EXCEPT !.pc = "stage"]
  <2>1. WorkerOK(plan, s, rows, entities)
    <3>1. work[w].records = <<>> /\ work[w].done = 0
      BY <1>1, ShapeOf DEF WorkerOK, Working
    <3>2. /\ DOMAIN s = DOMAIN Idle /\ s.pc = "stage" /\ s.seen \in Nat /\ s.dimension \in Nat
          /\ s.document \in DOMAIN plan.documents /\ s.records = <<>> /\ s.done = 0
      BY <1>1, <3>1, ShapeOf, IdleFields
    <3> HIDE DEF s
    <3> QED BY <3>2, WithoutRecords
  <2> QED BY <1>1, <1>4, <2>1, StepWithoutWrites DEF Continue
<1> QED BY <1>2, <1>3, <1>4 DEF ReadDocument

\* The object storage or a parser fails.
LEMMA ReadFailsKeeps ==
    ASSUME PipelineInv, NEW w \in Workers, ReadFails(w)
    PROVE  PipelineInv' /\ Grows(rows, rows')
BY StepFails DEF ReadFails, FailUnknown

----------------------------------------------------------------------------
(* Staging.                                                                 *)

\* Without the mode that embeds, nothing waits.
LEMMA EconomyNeverWaits ==
    ASSUME NEW p \in Plans, NEW d \in DOMAIN p.documents, NEW records, NEW rs,
           RecordsOK(p, d, records, rs), p.technique # "high_quality"
    PROVE  Len(Waiting(records)) = 0
<1>1. p.technique = "economy"
  BY PipelineAssumption
<1>2. ASSUME NEW i \in DOMAIN records PROVE ~Waits(records[i])
  <2>1. StagedAs(records[i], Listed(p, d)[i]) /\ i \in DOMAIN Listed(p, d)
    BY DEF RecordsOK
  <2>2. Listed(p, d)[i].embedding = "not_required"
    BY <1>1, <2>1, ListedIsListing, ListingIs
  <2>3. records[i].embedding # "waiting"
    BY <2>1, <2>2 DEF StagedAs
  <2> QED BY <2>3 DEF Waits
<1>3. Len(Waiting(records)) \in Nat
      /\ \A k \in 1 .. Len(Waiting(records)) : \E i \in DOMAIN records : Waits(records[i])
  BY WaitingOf
<1> QED BY <1>2, <1>3

\* An execution that has staged its document works with the records of it.
LEMMA AfterStagingOK ==
    ASSUME PipelineInv, NEW w \in Workers, work[w].pc = "stage", NEW records, NEW new,
           RecordsOK(plan, work[w].document, records, new), NEW es
    PROVE  WorkerOK(plan, [work[w] EXCEPT !.pc = AfterStaging(records), !.records = records],
                    new, es)
<1> DEFINE s == [work[w] EXCEPT !.pc = AfterStaging(records), !.records = records]
           d == work[w].document
           m == Len(Waiting(records))
<1>1. work[w].done = 0 /\ d \in DOMAIN plan.documents /\ plan \in Plans
  BY ShapeOf DEF WorkerOK, Working, PipelineInv
<1>2. /\ DOMAIN s = DOMAIN Idle /\ s.pc = AfterStaging(records) /\ s.seen \in Nat
      /\ s.dimension \in Nat /\ s.document = d /\ s.records = records /\ s.done = 0
  BY <1>1, ShapeOf, IdleFields
<1>3. m \in Nat /\ (Waiting(records) = <<>> <=> m = 0)
  <2>1. Waiting(records) \in Seq(ToSet(records)) /\ m \in Nat
    BY WaitingOf
  <2> QED BY <2>1, EmptySeq
<1>4. MarkedUpTo(records, 0, new)
  BY <1>3 DEF MarkedUpTo
<1>5. CASE m # 0 /\ HighQuality
  <2>1. s.pc = "embed"
    BY <1>2, <1>3, <1>5 DEF AfterStaging
  <2>2. 0 < m
    BY <1>3, <1>5
  <2>3. WorkerOK(plan, s, new, es)
    <3> HIDE DEF s
    <3> QED BY <1>1, <1>2, <1>4, <2>1, <2>2 DEF WorkerOK, Working, Embeds, Carrying, Stages
  <2> QED BY <2>3
<1>6. CASE m = 0 \/ ~HighQuality
  <2>1. s.pc = "keywords"
    BY <1>2, <1>3, <1>6 DEF AfterStaging
  <2>2. m = 0
    BY <1>1, <1>6, EconomyNeverWaits DEF HighQuality
  <2>3. WorkerOK(plan, s, new, es)
    <3> HIDE DEF s
    <3> QED BY <1>1, <1>2, <1>4, <2>1, <2>2 DEF WorkerOK, Working, Embeds, Carrying, Stages
  <2> QED BY <2>3
<1> QED BY <1>5, <1>6

\* What stage writes is right, also once the job has ended.
LEMMA StagedRowsOK ==
    ASSUME PipelineInv, NEW d \in DOMAIN plan.documents, NEW new,
           new = InsertMissing(Listed(plan, d), rows)
    PROVE  /\ RowsOK(plan, new) /\ StatusOK(job, new) /\ Grows(rows, new)
           /\ EntitiesOK(new, collection, entities, unrecorded)
<1>1. plan \in Plans /\ RowsOK(plan, rows) /\ StatusOK(job, rows)
      /\ EntitiesOK(rows, collection, entities, unrecorded)
  BY DEF PipelineInv
<1>2. /\ DOMAIN new = DOMAIN rows \cup {c.id : c \in Listing(plan, d)}
      /\ \A id \in DOMAIN rows : new[id] = rows[id]
      /\ \A c \in Listing(plan, d) : c.id \notin DOMAIN rows => new[c.id] = Row(c)
      /\ RowsOK(plan, new)
  BY <1>1, InsertedRows
<1>3. ASSUME NEW id \in DOMAIN new, id \notin DOMAIN rows
      PROVE  \E c \in Listing(plan, d) : c.id = id /\ new[id] = Row(c)
  BY <1>2, <1>3
<1>4. StatusOK(job, new)
  <2> SUFFICES ASSUME NEW id \in DOMAIN new
               PROVE  new[id].status = IF job = "completed" THEN "completed" ELSE "indexing"
    BY DEF StatusOK
  <2>1. CASE id \in DOMAIN rows
    BY <1>1, <1>2, <2>1 DEF StatusOK
  <2>2. CASE id \notin DOMAIN rows
    <3>1. PICK c \in Listing(plan, d) : c.id = id /\ new[id] = Row(c)
      BY <1>3, <2>2
    <3>2. job # "completed"
      <4> SUFFICES ASSUME job = "completed" PROVE FALSE
        OBVIOUS
      <4>1. Whole(plan, d, rows)
        BY DEF PipelineInv, ClaimsOK, Targets
      <4> QED BY <2>2, <3>1, <4>1 DEF Whole
    <3> QED BY <3>1, <3>2 DEF Row
  <2> QED BY <2>1, <2>2
<1>5. Grows(rows, new)
  BY <1>2 DEF Grows
<1>6. EntitiesOK(new, collection, entities, unrecorded)
  <2>1. ASSUME NEW id \in DOMAIN new, new[id].embedding = "completed"
        PROVE  id \in DOMAIN rows
    <3> SUFFICES ASSUME id \notin DOMAIN rows PROVE FALSE
      OBVIOUS
    <3>1. PICK c \in Listing(plan, d) : c.id = id /\ new[id] = Row(c)
      BY <1>3
    <3>2. c.embedding \in {"waiting", "not_required"}
      BY <1>1, ListingIs
    <3> QED BY <2>1, <3>1, <3>2 DEF Row
  <2> QED BY <1>1, <1>2, <2>1 DEF EntitiesOK
<1> QED BY <1>2, <1>4, <1>5, <1>6

\* stage leaves rows of candidates, and an execution whose records they are.
LEMMA StageKeeps ==
    ASSUME PipelineInv, NEW w \in Workers, Stage(w)
    PROVE  PipelineInv' /\ Grows(rows, rows')
<1> DEFINE d == work[w].document
           list == Listed(plan, d)
           new == InsertMissing(list, rows)
           records == [i \in DOMAIN list |-> new[list[i].id]]
<1>1. Candidates(d).list = list
  BY DEF Candidates, Listed
<1>2. /\ work[w].pc = "stage" /\ UNCHANGED <<plan, job, dimension, milvus, claims, deaths>>
      /\ \/ FailUnknown(w, "invalid_segments") /\ rows' = rows
         \/ FailUnknown(w, "conflict") /\ rows' = rows
         \/ /\ rows' = new
            /\ IF StagingError(records) # "none" THEN FailWith(w, StagingError(records), FALSE)
               ELSE Go(w, [work[w] EXCEPT !.pc = AfterStaging(records), !.records = records])
  <2> HIDE DEF list
  <2> QED BY <1>1 DEF Stage
<1>3. CASE rows' = rows /\ (FailUnknown(w, "invalid_segments") \/ FailUnknown(w, "conflict"))
  BY <1>2, <1>3, StepFails DEF FailUnknown, stored
<1>4. CASE /\ rows' = new
           /\ IF StagingError(records) # "none" THEN FailWith(w, StagingError(records), FALSE)
              ELSE Go(w, [work[w] EXCEPT !.pc = AfterStaging(records), !.records = records])
  <2> HIDE DEF new, list
  <2>1. d \in DOMAIN plan.documents /\ plan \in Plans
    BY <1>2, ShapeOf DEF PipelineInv
  <2>2. /\ RowsOK(plan, new) /\ StatusOK(job, new) /\ Grows(rows, new)
        /\ EntitiesOK(new, collection, entities, unrecorded)
    BY <2>1, StagedRowsOK DEF new, list
  <2>3. /\ plan' = plan /\ job' = job /\ dimension' = dimension /\ collection' = collection
        /\ entities' = entities /\ unrecorded' = unrecorded /\ deaths' = deaths
        /\ dimension' \in Nat /\ collection' \in Nat /\ deaths' \in 0..MaxDeaths
    BY <1>2 DEF milvus, PipelineInv
  <2>4. ASSUME NEW state, Go(w, state), WorkerOK(plan, state, new, entities)
        PROVE  PipelineInv' /\ Grows(rows, rows')
    <3>1. UNCHANGED claims
      BY <1>2
    <3> QED BY <1>4, <2>2, <2>3, <2>4, <3>1, ClaimsAsTheyAre, StepOfWorker
  <2>5. CASE StagingError(records) # "none"
    BY <1>2, <1>4, <2>4, <2>5, FailingOK DEF FailWith
  <2>6. CASE StagingError(records) = "none"
    <3>1. \A i \in DOMAIN records : records[i].type \in ModeTypes(plan)
      <4> HIDE DEF records
      <4> QED BY <2>6 DEF StagingError, TypesOfMode, HighQuality, ModeTypes
    <3>2. RecordsOK(plan, d, records, new)
      <4>1. RowsOK(plan, rows)
        BY DEF PipelineInv
      <4> QED BY <2>1, <3>1, <4>1, StagedRecords DEF new, list
    <3>3. WorkerOK(plan, [work[w] EXCEPT !.pc = AfterStaging(records), !.records = records],
                   new, entities)
      <4> HIDE DEF records
      <4> QED BY <1>2, <3>2, AfterStagingOK
    <3> HIDE DEF records
    <3> QED BY <1>4, <2>4, <2>6, <3>3
  <2> QED BY <2>5, <2>6
<1> QED BY <1>2, <1>3, <1>4

----------------------------------------------------------------------------
(* Embedding, and the vector store.                                         *)

\* The batch of an execution, as an operator of its records.
LEMMA BatchIsNext ==
    ASSUME NEW w
    PROVE  Batch(w) = NextBatch(work[w].records, work[w].done)
BY DEF Batch, NextBatch

\* The records of an execution that works with them, and its next batch.
LEMMA WorkIs ==
    ASSUME PipelineInv, NEW w \in Workers, work[w].pc \in Working
    PROVE  /\ plan \in Plans /\ work[w].document \in DOMAIN plan.documents
           /\ RecordsOK(plan, work[w].document, work[w].records, rows)
           /\ MarkedUpTo(work[w].records, work[w].done, rows)
           /\ work[w].done \in Nat /\ work[w].done <= Len(Waiting(work[w].records))
           /\ Batch(w) \in Seq(ToSet(work[w].records))
           /\ Len(Batch(w)) \in Nat /\ DOMAIN Batch(w) = 1 .. Len(Batch(w))
<1>1. /\ plan \in Plans /\ work[w].document \in DOMAIN plan.documents
      /\ RecordsOK(plan, work[w].document, work[w].records, rows)
      /\ MarkedUpTo(work[w].records, work[w].done, rows)
  BY ShapeOf DEF WorkerOK, PipelineInv, Working
<1>2. work[w].done \in Nat /\ work[w].done <= Len(Waiting(work[w].records))
  BY <1>1 DEF MarkedUpTo
<1>3. /\ Batch(w) \in Seq(ToSet(work[w].records))
      /\ Len(Batch(w)) \in Nat /\ DOMAIN Batch(w) = 1 .. Len(Batch(w))
  BY <1>1, <1>2, NextBatchIs, BatchIsNext
<1> QED BY <1>1, <1>2, <1>3

\* An execution carries its vectors from step to step.
LEMMA CarriesOn ==
    ASSUME NEW p, NEW rs, NEW es, NEW s, WorkerOK(p, s, rs, es), s.pc \in Carrying,
           NEW t, DOMAIN t = DOMAIN Idle, t.pc \in {"resolve", "ensure", "create", "upsert"},
           t.seen \in Nat, t.document = s.document, t.dimension = s.dimension,
           t.records = s.records, t.done = s.done, t.vectors = s.vectors
    PROVE  WorkerOK(p, t, rs, es)
<1>1. /\ s.document \in DOMAIN p.documents /\ s.dimension \in Nat
      /\ RecordsOK(p, s.document, s.records, rs) /\ MarkedUpTo(s.records, s.done, rs)
      /\ s.done < Len(Waiting(s.records)) /\ CarriesOK(s)
  BY DEF WorkerOK, Working, Embeds, Carrying
<1>2. CarriesOK(t)
  BY <1>1 DEF CarriesOK
<1> QED BY <1>1, <1>2 DEF WorkerOK, Working, Embeds, Carrying, Stages

----------------------------------------------------------------------------
\* What an execution does with the answer to its batch.
Answered(w, result) ==
    IF result.error # "none" THEN FailWith(w, result.error, result.retryable)
    ELSE IF work[w].dimension \notin {Unknown, result.dimension}
    THEN FailWith(w, "EMBEDDING_DIMENSION_MISMATCH", FALSE)
    ELSE Go(w, [work[w] EXCEPT
            !.pc = IF work[w].dimension = Unknown THEN "resolve" ELSE "upsert",
            !.dimension = result.dimension, !.vectors = result.vectors])

\* The answer to a batch is exact.
LEMMA BatchIsExact ==
    ASSUME PipelineInv, NEW w \in Workers, EmbedBatch(w)
    PROVE  \E texts, result :
               /\ Exact(result, texts) /\ Len(texts) = Len(Batch(w))
               /\ \A i \in 1 .. Len(Batch(w)) : texts[i] = Batch(w)[i].content
               /\ Answered(w, result)
<1> DEFINE batch == Batch(w)
           texts == [i \in DOMAIN batch |-> batch[i].content]
           sizes == [i \in DOMAIN texts |-> TextSize(texts[i])]
           T == {r.content : r \in ToSet(work[w].records)}
           S == {TextSize(t) : t \in T}
<1>1. work[w].pc = "embed"
  BY DEF EmbedBatch
<1>2. /\ plan \in Plans /\ work[w].document \in DOMAIN plan.documents
      /\ RecordsOK(plan, work[w].document, work[w].records, rows)
      /\ MarkedUpTo(work[w].records, work[w].done, rows)
      /\ work[w].done \in Nat /\ work[w].done <= Len(Waiting(work[w].records))
      /\ batch \in Seq(ToSet(work[w].records))
      /\ Len(batch) \in Nat /\ DOMAIN batch = 1 .. Len(batch)
  BY <1>1, WorkIs DEF Working
<1>3. texts \in Seq(T) /\ Len(texts) = Len(batch)
  <2>1. \A i \in 1 .. Len(batch) : batch[i] \in ToSet(work[w].records)
    <3> HIDE DEF batch
    <3> QED BY <1>2, ElementOfSeq
  <2>2. texts \in [1 .. Len(batch) -> T]
    <3> HIDE DEF batch
    <3> QED BY <1>2, <2>1
  <2> HIDE DEF batch, T, texts
  <2> QED BY <1>2, <2>2
<1>4. sizes \in [DOMAIN texts -> S]
  <2>1. \A i \in DOMAIN texts : texts[i] \in T
    <3> HIDE DEF T, texts
    <3> QED BY <1>3, LenProperties, ElementOfSeq
  <2> HIDE DEF texts, T
  <2> QED BY <2>1
<1>5. PICK service \in Providers :
          Answered(w, Embed(service, plan.model_known, texts, sizes))
  BY DEF EmbedBatch, Answered
<1> DEFINE result == Embed(service, plan.model_known, texts, sizes)
<1>6. Exact(result, texts)
  <2>1. service \in Services
    BY PipelineAssumption
  <2> HIDE DEF texts, sizes, T, S
  <2> QED BY <1>3, <1>4, <2>1, EmbedIsExact
<1>7. \A i \in 1 .. Len(batch) : texts[i] = batch[i].content
  BY <1>2
<1>8. Answered(w, result)
  BY <1>5
<1> HIDE DEF result, texts, sizes
<1> QED BY <1>3, <1>6, <1>7, <1>8

\* An execution takes the vectors of its batch from the embedding client.
LEMMA EmbedBatchKeeps ==
    ASSUME PipelineInv, NEW w \in Workers, EmbedBatch(w)
    PROVE  PipelineInv' /\ Grows(rows, rows')
<1>1. work[w].pc = "embed" /\ UNCHANGED <<plan, stored, milvus, claims, deaths>>
  BY DEF EmbedBatch
<1>2. /\ plan \in Plans /\ work[w].document \in DOMAIN plan.documents
      /\ RecordsOK(plan, work[w].document, work[w].records, rows)
      /\ MarkedUpTo(work[w].records, work[w].done, rows)
      /\ work[w].done \in Nat /\ work[w].done <= Len(Waiting(work[w].records))
      /\ Len(Batch(w)) \in Nat /\ DOMAIN Batch(w) = 1 .. Len(Batch(w))
  BY <1>1, WorkIs DEF Working
<1>3. PICK texts, result :
          /\ Exact(result, texts) /\ Len(texts) = Len(Batch(w))
          /\ \A i \in 1 .. Len(Batch(w)) : texts[i] = Batch(w)[i].content
          /\ Answered(w, result)
  BY BatchIsExact
<1> DEFINE batch == Batch(w)
<1> HIDE DEF batch
<1>7. CASE result.error # "none"
  BY <1>1, <1>3, <1>7, StepFails DEF Answered
<1>8. CASE result.error = "none" /\ work[w].dimension \notin {Unknown, result.dimension}
  BY <1>1, <1>3, <1>8, StepFails DEF Answered
<1>9. CASE result.error = "none" /\ work[w].dimension \in {Unknown, result.dimension}
  <2> DEFINE pc == IF work[w].dimension = Unknown THEN "resolve" ELSE "upsert"
             s == [work[w] EXCEPT !.pc = pc, !.dimension = result.dimension,
                                  !.vectors = result.vectors]
  <2>1. Go(w, s)
    BY <1>3, <1>9 DEF Answered
  <2>2. /\ DOMAIN s = DOMAIN Idle /\ s.pc = pc /\ s.seen \in Nat
        /\ s.dimension = result.dimension /\ s.document = work[w].document
        /\ s.records = work[w].records /\ s.done = work[w].done /\ s.vectors = result.vectors
    BY ShapeOf, IdleFields
  <2>3. /\ result.dimension \in Nat \ {0}
        /\ result.vectors = [i \in 1 .. Len(texts) |-> Vector(texts[i], result.dimension)]
    BY <1>3, <1>9 DEF Exact
  <2>4. CarriesOK(s)
    <3>1. NextBatch(s.records, s.done) = batch
      BY <2>2, BatchIsNext DEF batch
    <3>2. Len(result.vectors) = Len(batch)
      BY <1>2, <1>3, <2>3 DEF batch
    <3>3. \A i \in 1 .. Len(batch) : result.vectors[i] = Vector(batch[i].content, result.dimension)
      BY <1>2, <1>3, <2>3 DEF batch
    <3> HIDE DEF s
    <3> QED BY <2>2, <2>3, <3>1, <3>2, <3>3 DEF CarriesOK, Unknown
  <2>5. work[w].done < Len(Waiting(work[w].records))
    BY <1>1, ShapeOf DEF WorkerOK, Embeds
  <2>6. s.pc \in {"resolve", "upsert"}
    BY <2>2
  <2>7. WorkerOK(plan, s, rows, entities)
    <3> HIDE DEF s, pc
    <3> QED BY <1>2, <2>2, <2>3, <2>4, <2>5, <2>6 DEF WorkerOK, Working, Embeds, Carrying, Stages
  <2> HIDE DEF s
  <2> QED BY <1>1, <2>1, <2>7, StepWithoutWrites
<1> QED BY <1>7, <1>8, <1>9

\* resolve commits the dimension of the execution to the index.
LEMMA ResolveKeeps ==
    ASSUME PipelineInv, NEW w \in Workers, Resolve(w)
    PROVE  PipelineInv' /\ Grows(rows, rows')
<1>1. work[w].pc = "resolve" /\ UNCHANGED <<plan, job, rows, milvus, claims, deaths>>
  BY DEF Resolve
<1>2. CASE FailWith(w, "EMBEDDING_DIMENSION_MISMATCH", FALSE) /\ dimension' = dimension
  BY <1>1, <1>2, StepFails DEF stored
<1>3. CASE /\ dimension' = work[w].dimension
           /\ Go(w, [work[w] EXCEPT !.pc = "ensure", !.seen = work[w].dimension])
  <2> DEFINE s == [work[w] EXCEPT !.pc = "ensure", !.seen = work[w].dimension]
  <2>1. WorkerOK(plan, s, rows, entities)
    <3>1. /\ DOMAIN s = DOMAIN Idle /\ s.pc = "ensure" /\ s.seen \in Nat
          /\ s.document = work[w].document /\ s.dimension = work[w].dimension
          /\ s.records = work[w].records /\ s.done = work[w].done /\ s.vectors = work[w].vectors
      BY ShapeOf, IdleFields
    <3>2. work[w].pc \in Carrying
      BY <1>1 DEF Carrying
    <3> HIDE DEF s
    <3> QED BY <3>1, <3>2, ShapeOf, CarriesOn
  <2>2. /\ plan' = plan /\ job' = job /\ rows' = rows /\ collection' = collection
        /\ entities' = entities /\ unrecorded' = unrecorded /\ deaths' = deaths
    BY <1>1 DEF milvus
  <2>3. /\ dimension' \in Nat /\ collection' \in Nat /\ deaths' \in 0..MaxDeaths
        /\ RowsOK(plan, rows') /\ StatusOK(job, rows')
        /\ EntitiesOK(rows', collection', entities', unrecorded')
    BY <1>3, <2>2, ShapeOf DEF PipelineInv
  <2>4. Grows(rows, rows')
    BY <2>2, RowsAsTheyAre
  <2>5. UNCHANGED claims
    BY <1>1
  <2> HIDE DEF s
  <2> QED BY <1>3, <2>1, <2>2, <2>3, <2>4, <2>5, ClaimsAsTheyAre, StepOfWorker DEF s
<1> QED BY <1>2, <1>3 DEF Resolve

\* An execution that goes on with the next step of its batch.
LEMMA ContinueKeeps ==
    ASSUME PipelineInv, NEW w \in Workers, work[w].pc \in Carrying,
           NEW pc \in {"create", "upsert"}
    PROVE  WorkerOK(plan, [work[w] EXCEPT !.pc = pc], rows, entities)
<1> DEFINE s == [work[w] EXCEPT !.pc = pc]
<1>1. /\ DOMAIN s = DOMAIN Idle /\ s.pc = pc /\ s.seen \in Nat
      /\ s.document = work[w].document /\ s.dimension = work[w].dimension
      /\ s.records = work[w].records /\ s.done = work[w].done /\ s.vectors = work[w].vectors
  BY ShapeOf, IdleFields
<1>2. WorkerOK(plan, s, rows, entities)
  <2> HIDE DEF s
  <2> QED BY <1>1, ShapeOf, CarriesOn
<1> QED BY <1>2

\* ensure_collection finds a collection, or none.
LEMMA EnsureCollectionKeeps ==
    ASSUME PipelineInv, NEW w \in Workers, EnsureCollection(w)
    PROVE  PipelineInv' /\ Grows(rows, rows')
<1>1. work[w].pc = "ensure" /\ UNCHANGED <<plan, stored, milvus, claims, deaths>>
  BY DEF EnsureCollection
<1>2. CASE FailUnknown(w, "VECTOR_SCHEMA_MISMATCH")
  BY <1>1, <1>2, StepFails DEF FailUnknown
<1>3. ASSUME NEW pc \in {"create", "upsert"}, Continue(w, pc)
      PROVE  PipelineInv' /\ Grows(rows, rows')
  <2>1. WorkerOK(plan, [work[w] EXCEPT !.pc = pc], rows, entities)
    BY <1>1, ContinueKeeps DEF Carrying
  <2> QED BY <1>1, <1>3, <2>1, StepWithoutWrites DEF Continue
<1> QED BY <1>2, <1>3 DEF EnsureCollection

\* A collection is created while there are no vectors.
LEMMA CreateCollectionKeeps ==
    ASSUME PipelineInv, NEW w \in Workers, CreateCollection(w)
    PROVE  PipelineInv' /\ Grows(rows, rows')
<1>1. work[w].pc = "create" /\ UNCHANGED <<plan, stored, entities, unrecorded, claims, deaths>>
  BY DEF CreateCollection
<1>2. CASE FailUnknown(w, "VECTOR_STORE_OPERATION_FAILED") /\ collection' = collection
  BY <1>1, <1>2, StepFails DEF FailUnknown, milvus
<1>3. CASE /\ collection \in {Unknown, work[w].dimension} /\ collection' = work[w].dimension
           /\ Continue(w, "upsert")
  <2> DEFINE s == [work[w] EXCEPT !.pc = "upsert"]
  <2>1. WorkerOK(plan, s, rows, entities)
    BY <1>1, ContinueKeeps DEF Carrying
  <2>2. /\ plan' = plan /\ job' = job /\ dimension' = dimension /\ rows' = rows
        /\ entities' = entities /\ unrecorded' = unrecorded /\ deaths' = deaths
    BY <1>1 DEF stored
  <2>3. EntitiesOK(rows', collection', entities', unrecorded')
    <3>1. EntitiesOK(rows, collection, entities, unrecorded)
      BY DEF PipelineInv
    <3>2. CASE collection = Unknown
      BY <2>2, <3>1, <3>2 DEF EntitiesOK
    <3>3. CASE collection = work[w].dimension
      BY <1>3, <2>2, <3>1, <3>3
    <3> QED BY <1>3, <3>2, <3>3
  <2>4. /\ dimension' \in Nat /\ collection' \in Nat /\ deaths' \in 0..MaxDeaths
        /\ RowsOK(plan, rows') /\ StatusOK(job, rows')
    BY <1>3, <2>2, ShapeOf DEF PipelineInv
  <2>5. Grows(rows, rows')
    BY <2>2, RowsAsTheyAre
  <2>6. UNCHANGED claims /\ Go(w, s)
    BY <1>1, <1>3 DEF Continue
  <2> HIDE DEF s
  <2> QED BY <2>1, <2>2, <2>3, <2>4, <2>5, <2>6, ClaimsAsTheyAre, StepOfWorker
<1> QED BY <1>2, <1>3 DEF CreateCollection

\* The ids of a batch, by its positions.
LEMMA BatchIdsAre ==
    ASSUME PipelineInv, NEW w \in Workers, work[w].pc \in Working
    PROVE  BatchIds(w) = {Batch(w)[i].id : i \in 1 .. Len(Batch(w))}
<1>1. DOMAIN Batch(w) = 1 .. Len(Batch(w))
  BY WorkIs
<1>2. ToSet(Batch(w)) = {Batch(w)[i] : i \in 1 .. Len(Batch(w))}
  BY <1>1 DEF ToSet
<1> DEFINE b == Batch(w)
           n == Len(Batch(w))
<1> HIDE DEF b, n
<1>3. {r.id : r \in {b[i] : i \in 1 .. n}} = {b[i].id : i \in 1 .. n}
  OBVIOUS
<1> QED BY <1>2, <1>3 DEF BatchIds, b, n

\* The rows of a batch need a vector, and have the text the batch has.
LEMMA BatchRowsAre ==
    ASSUME PipelineInv, NEW w \in Workers, work[w].pc \in Working,
           NEW i \in 1 .. Len(Batch(w))
    PROVE  LET r == Batch(w)[i]
           IN  /\ r.id \in DOMAIN rows /\ rows[r.id].embedding \in {"waiting", "completed"}
               /\ rows[r.id].id = r.id
               /\ rows[r.id].document = work[w].document /\ r.document = work[w].document
               /\ rows[r.id].content = r.content /\ rows[r.id].parent = r.parent
               /\ rows[r.id].position = r.position
<1> DEFINE r == Batch(w)[i]
           d == work[w].document
<1>1. PICK c \in Listing(plan, d) :
          StagedAs(r, c) /\ c.embedding = "waiting" /\ c.id \in DOMAIN rows
  <2>1. i \in 1 .. Len(NextBatch(work[w].records, work[w].done))
    BY BatchIsNext
  <2> QED BY <2>1, WorkIs, BatchIsStaged, BatchIsNext
<1>2. StagedAs(rows[c.id], c)
  <2>1. RowsOK(plan, rows)
    BY DEF PipelineInv
  <2> QED BY <1>1, <2>1, WorkIs, RowOfCandidate
<1>3. c.document = d
  BY WorkIs, ListingIs
<1> HIDE DEF r, d
<1>4. r.id = c.id
  BY <1>1 DEF StagedAs
<1>5. /\ r.id \in DOMAIN rows /\ rows[r.id].embedding \in {"waiting", "completed"}
      /\ rows[r.id].id = r.id /\ rows[r.id].document = d /\ r.document = d
      /\ rows[r.id].content = r.content /\ rows[r.id].parent = r.parent
      /\ rows[r.id].position = r.position
  BY <1>1, <1>2, <1>3, <1>4 DEF StagedAs
<1> QED BY <1>5 DEF r, d

\* What upsert writes: the vectors of the rows of its batch.
LEMMA WrittenIs ==
    ASSUME PipelineInv, NEW w \in Workers, work[w].pc = "upsert",
           collection = work[w].dimension,
           NEW un, un \subseteq DOMAIN entities \cup BatchIds(w)
    PROVE  /\ DOMAIN Written(w) = DOMAIN entities \cup BatchIds(w)
           /\ EntitiesOK(rows, collection, Written(w), un)
<1> DEFINE b == Batch(w)
           of(id) == CHOOSE i \in DOMAIN b : b[i].id = id
           vectors == work[w].vectors
           new == Written(w)
<1>1. new = [id \in DOMAIN entities \cup BatchIds(w) |->
                IF id \in BatchIds(w) THEN Entity(b[of(id)], vectors[of(id)]) ELSE entities[id]]
  BY DEF Written
<1>2. work[w].pc \in Working /\ work[w].pc \in Carrying
  BY DEF Working, Carrying
<1>3. DOMAIN b = 1 .. Len(b)
  BY <1>2, WorkIs
<1>4. BatchIds(w) = {b[i].id : i \in 1 .. Len(b)}
  BY <1>2, BatchIdsAre
<1>5. /\ work[w].dimension # Unknown
      /\ \A i \in 1 .. Len(b) : vectors[i] = Vector(b[i].content, work[w].dimension)
  <2>1. CarriesOK(work[w])
    BY <1>2, ShapeOf DEF WorkerOK
  <2> QED BY <2>1, BatchIsNext DEF CarriesOK
<1>6. EntitiesOK(rows, collection, entities, unrecorded)
  BY DEF PipelineInv
<1>7. DOMAIN new = DOMAIN entities \cup BatchIds(w)
  <2> HIDE DEF of
  <2> QED BY <1>1
<1>8. ASSUME NEW id \in DOMAIN new
      PROVE  /\ id \in DOMAIN rows /\ rows[id].embedding \in {"waiting", "completed"}
             /\ new[id] = Entity(rows[id], Vector(rows[id].content, collection))
  <2>1. CASE id \in BatchIds(w)
    <3> DEFINE i == of(id)
               r == b[i]
    <3>1. i \in 1 .. Len(b) /\ r.id = id
      <4> HIDE DEF b
      <4> QED BY <1>3, <1>4, <2>1
    <3>2. /\ r.id \in DOMAIN rows /\ rows[r.id].embedding \in {"waiting", "completed"}
          /\ rows[r.id].document = work[w].document /\ r.document = work[w].document
          /\ rows[r.id].content = r.content /\ rows[r.id].parent = r.parent
          /\ rows[r.id].position = r.position
      <4> HIDE DEF i
      <4> QED BY <1>2, <3>1, BatchRowsAre
    <3>3. new[id] = Entity(r, vectors[i])
      <4> HIDE DEF of, b, new
      <4> QED BY <1>1, <1>7, <1>8, <2>1
    <3>4. vectors[i] = Vector(r.content, collection)
      <4> HIDE DEF i, b
      <4> QED BY <1>5, <3>1
    <3> HIDE DEF i, r, new, b
    <3>5. Entity(r, vectors[i]) = Entity(rows[id], vectors[i])
      BY <3>1, <3>2 DEF Entity
    <3> QED BY <3>1, <3>2, <3>3, <3>4, <3>5
  <2>2. CASE id \notin BatchIds(w)
    <3>1. id \in DOMAIN entities /\ new[id] = entities[id]
      <4> HIDE DEF of, b, new
      <4> QED BY <1>1, <1>7, <1>8, <2>2
    <3> HIDE DEF new
    <3> QED BY <1>6, <3>1 DEF EntitiesOK
  <2> QED BY <2>1, <2>2
<1> HIDE DEF new
<1>9. EntitiesOK(rows, collection, new, un)
  BY <1>5, <1>6, <1>7, <1>8 DEF EntitiesOK
<1> QED BY <1>7, <1>9 DEF new

\* upsert writes the vectors the execution carries, and only to their dimension.
LEMMA UpsertKeeps ==
    ASSUME PipelineInv, NEW w \in Workers, Upsert(w)
    PROVE  PipelineInv' /\ Grows(rows, rows')
<1>1. work[w].pc = "upsert" /\ UNCHANGED <<plan, stored, collection, unrecorded, claims, deaths>>
  BY DEF Upsert
<1>2. CASE /\ \/ FailUnknown(w, "VECTOR_STORE_OPERATION_FAILED")
              \/ FailUnknown(w, "VECTOR_INPUT_INVALID")
           /\ UNCHANGED entities
  BY <1>1, <1>2, StepFails DEF FailUnknown, milvus
<1>3. CASE collection = work[w].dimension /\ entities' = Written(w) /\ Continue(w, "mark")
  <2> DEFINE s == [work[w] EXCEPT !.pc = "mark"]
  <2>1. /\ plan' = plan /\ job' = job /\ dimension' = dimension /\ rows' = rows
        /\ collection' = collection /\ unrecorded' = unrecorded /\ deaths' = deaths
    BY <1>1 DEF stored
  <2>2. unrecorded \subseteq DOMAIN entities \cup BatchIds(w)
    BY DEF PipelineInv, EntitiesOK
  <2>3. /\ DOMAIN Written(w) = DOMAIN entities \cup BatchIds(w)
        /\ EntitiesOK(rows, collection, Written(w), unrecorded)
    BY <1>1, <1>3, <2>2, WrittenIs
  <2>4. WorkerOK(plan, s, rows, entities')
    <3>1. /\ DOMAIN s = DOMAIN Idle /\ s.pc = "mark" /\ s.seen \in Nat
          /\ s.document = work[w].document /\ s.dimension = work[w].dimension
          /\ s.records = work[w].records /\ s.done = work[w].done /\ s.vectors = work[w].vectors
      BY ShapeOf, IdleFields
    <3>2. /\ work[w].document \in DOMAIN plan.documents
          /\ RecordsOK(plan, work[w].document, work[w].records, rows)
          /\ MarkedUpTo(work[w].records, work[w].done, rows)
          /\ work[w].done < Len(Waiting(work[w].records)) /\ CarriesOK(work[w])
          /\ work[w].dimension \in Nat
      BY <1>1, ShapeOf DEF WorkerOK, Working, Embeds, Carrying
    <3>3. \A i \in 1 .. Len(Batch(w)) : Batch(w)[i].id \in DOMAIN entities'
      BY <1>1, <1>3, <2>3, BatchIdsAre DEF Working
    <3>4. \A i \in 1 .. Len(NextBatch(s.records, s.done)) :
              NextBatch(s.records, s.done)[i].id \in DOMAIN entities'
      BY <3>1, <3>3, BatchIsNext
    <3>5. CarriesOK(s)
      <4> HIDE DEF s
      <4> QED BY <3>1, <3>2 DEF CarriesOK
    <3> HIDE DEF s
    <3> QED BY <3>1, <3>2, <3>4, <3>5 DEF WorkerOK, Working, Embeds, Carrying, Stages
  <2>5. /\ EntitiesOK(rows', collection', entities', unrecorded')
        /\ DOMAIN entities \subseteq DOMAIN entities'
    BY <1>3, <2>1, <2>3
  <2>6. /\ dimension' \in Nat /\ collection' \in Nat /\ deaths' \in 0..MaxDeaths
        /\ RowsOK(plan, rows') /\ StatusOK(job, rows')
    BY <2>1 DEF PipelineInv
  <2>7. Grows(rows, rows') /\ WorkerOK(plan, s, rows', entities')
    BY <2>1, <2>4, RowsAsTheyAre
  <2>8. UNCHANGED claims /\ Go(w, s)
    BY <1>1, <1>3 DEF Continue
  <2> HIDE DEF s
  <2> QED BY <2>1, <2>5, <2>6, <2>7, <2>8, ClaimsAsTheyAre, StepOfWorker
<1> QED BY <1>2, <1>3 DEF Upsert

\* A write that fails has written the batch or nothing.
LEMMA MilvusFailsKeeps ==
    ASSUME PipelineInv, NEW w \in Workers, MilvusFails(w)
    PROVE  PipelineInv' /\ Grows(rows, rows')
<1>1. /\ work[w].pc \in {"ensure", "create", "upsert"}
      /\ UNCHANGED <<plan, stored, collection, claims, deaths>>
      /\ FailUnknown(w, "VECTOR_STORE_OPERATION_FAILED")
  BY DEF MilvusFails
<1>2. CASE UNCHANGED <<entities, unrecorded>>
  BY <1>1, <1>2, StepFails DEF FailUnknown, milvus
<1>3. CASE /\ work[w].pc = "upsert" /\ collection = work[w].dimension
           /\ entities' = Written(w) /\ unrecorded' = unrecorded \cup BatchIds(w)
  <2> DEFINE s == [Leave(w, "failing") EXCEPT !.error = "VECTOR_STORE_OPERATION_FAILED",
                                              !.retryable = TRUE]
  <2>1. /\ plan' = plan /\ job' = job /\ dimension' = dimension /\ rows' = rows
        /\ collection' = collection /\ deaths' = deaths
    BY <1>1 DEF stored
  <2>2. unrecorded' \subseteq DOMAIN entities \cup BatchIds(w)
    BY <1>3 DEF PipelineInv, EntitiesOK
  <2>3. /\ DOMAIN Written(w) = DOMAIN entities \cup BatchIds(w)
        /\ EntitiesOK(rows, collection, Written(w), unrecorded')
    BY <1>3, <2>2, WrittenIs
  <2>4. WorkerOK(plan, s, rows', entities')
    BY <1>1, FailingOK
  <2>5. /\ EntitiesOK(rows', collection', entities', unrecorded')
        /\ DOMAIN entities \subseteq DOMAIN entities'
    BY <1>3, <2>1, <2>3
  <2>6. /\ dimension' \in Nat /\ collection' \in Nat /\ deaths' \in 0..MaxDeaths
        /\ RowsOK(plan, rows') /\ StatusOK(job, rows') /\ Grows(rows, rows')
    BY <2>1, RowsAsTheyAre DEF PipelineInv
  <2>7. UNCHANGED claims /\ Go(w, s)
    BY <1>1 DEF FailUnknown, FailWith
  <2> HIDE DEF s
  <2> QED BY <2>1, <2>4, <2>5, <2>6, <2>7, ClaimsAsTheyAre, StepOfWorker
<1> QED BY <1>2, <1>3 DEF MilvusFails

----------------------------------------------------------------------------
(* Marks.                                                                   *)

\* Changed replaces rows that are there.
LEMMA ChangedIs ==
    ASSUME NEW new, DOMAIN new \subseteq DOMAIN rows
    PROVE  /\ DOMAIN Changed(new) = DOMAIN rows
           /\ \A id \in DOMAIN rows :
                  Changed(new)[id] = IF id \in DOMAIN new THEN new[id] ELSE rows[id]
BY DEF Changed

\* Rows have the fields of a row.
LEMMA FieldsOfRows ==
    ASSUME NEW p, NEW rs, RowsOK(p, rs), NEW id \in DOMAIN rs
    PROVE  DOMAIN rs[id] = RowFields /\ rs[id].id = id
BY DEF RowsOK, StagedAs

\* What an execution may do to a row: its keywords, or its mark once it has its vector.
RowWritten(old, new, id, es) ==
    \/ new = old
    \/ \E k : new = [old EXCEPT !.keywords = k]
    \/ /\ old.embedding \in {"waiting", "completed"} /\ id \in DOMAIN es
       /\ new = [old EXCEPT !.embedding = "completed"]

\* Keywords and marks leave the rows right, if what is marked has its vector.
LEMMA ChangeKeeps ==
    ASSUME PipelineInv, NEW new, DOMAIN new = DOMAIN rows, NEW un, un \subseteq DOMAIN entities,
           \A id \in DOMAIN rows : RowWritten(rows[id], new[id], id, entities)
    PROVE  /\ RowsOK(plan, new) /\ StatusOK(job, new) /\ Grows(rows, new)
           /\ EntitiesOK(new, collection, entities, un)
<1>1. plan \in Plans /\ RowsOK(plan, rows) /\ StatusOK(job, rows)
      /\ EntitiesOK(rows, collection, entities, unrecorded)
  BY DEF PipelineInv
<1>2. /\ RowsOK(plan, new) /\ Grows(rows, new)
      /\ \A id \in DOMAIN rows : new[id].content = rows[id].content
                                 /\ new[id].document = rows[id].document
                                 /\ new[id].parent = rows[id].parent
                                 /\ new[id].position = rows[id].position
  <2>1. \A id \in DOMAIN rows : RowStep(rows[id], new[id])
    BY DEF RowWritten, RowStep
  <2> QED BY <1>1, <2>1, ChangedRows
<1>3. ASSUME NEW id \in DOMAIN rows
      PROVE  /\ new[id].status = rows[id].status
             /\ rows[id].embedding \in {"waiting", "completed"} =>
                    new[id].embedding \in {"waiting", "completed"}
             /\ new[id].embedding = "completed" => id \in DOMAIN entities
  <2>1. DOMAIN rows[id] = RowFields
    BY <1>1, FieldsOfRows
  <2>2. rows[id].embedding = "completed" => id \in DOMAIN entities
    BY <1>1 DEF EntitiesOK
  <2> DEFINE r == rows[id]
             n == new[id]
  <2>3. \/ n = r
        \/ \E k : n = [r EXCEPT !.keywords = k]
        \/ id \in DOMAIN entities /\ n = [r EXCEPT !.embedding = "completed"]
    BY DEF RowWritten
  <2> HIDE DEF r, n
  <2>4. CASE n = r
    BY <2>2, <2>4 DEF r, n
  <2>5. CASE \E k : n = [r EXCEPT !.keywords = k]
    <3>1. n.status = r.status /\ n.embedding = r.embedding
      BY <2>1, <2>5 DEF RowFields, r
    <3> QED BY <2>2, <3>1 DEF r, n
  <2>6. CASE id \in DOMAIN entities /\ n = [r EXCEPT !.embedding = "completed"]
    <3>1. n.status = r.status /\ n.embedding = "completed"
      BY <2>1, <2>6 DEF RowFields, r
    <3> QED BY <2>6, <3>1 DEF r, n
  <2> QED BY <2>3, <2>4, <2>5, <2>6
<1>4. StatusOK(job, new)
  BY <1>1, <1>3 DEF StatusOK
<1>5. EntitiesOK(new, collection, entities, un)
  <2>1. ASSUME NEW id \in DOMAIN entities
        PROVE  Entity(new[id], Vector(new[id].content, collection))
                   = Entity(rows[id], Vector(rows[id].content, collection))
    <3>1. id \in DOMAIN rows
      BY <1>1 DEF EntitiesOK
    <3> QED BY <1>2, <3>1 DEF Entity
  <2> QED BY <1>1, <1>3, <2>1 DEF EntitiesOK
<1> QED BY <1>2, <1>4, <1>5

\* A step that changes rows that way, and its execution.
LEMMA StepWithChanges ==
    ASSUME PipelineInv, NEW w \in Workers, NEW state, Go(w, state),
           UNCHANGED <<plan, job, dimension, collection, entities, claims>>,
           deaths' \in 0..MaxDeaths, unrecorded' \subseteq DOMAIN entities,
           DOMAIN rows' = DOMAIN rows,
           \A id \in DOMAIN rows : RowWritten(rows[id], rows'[id], id, entities),
           WorkerOK(plan, state, rows', entities)
    PROVE  PipelineInv' /\ Grows(rows, rows')
<1>1. /\ RowsOK(plan, rows') /\ StatusOK(job, rows') /\ Grows(rows, rows')
      /\ EntitiesOK(rows', collection, entities, unrecorded')
  BY ChangeKeeps
<1>2. /\ plan' = plan /\ job' = job /\ dimension' = dimension /\ collection' = collection
      /\ entities' = entities /\ UNCHANGED claims
  OBVIOUS
<1>3. dimension' \in Nat /\ collection' \in Nat
  BY <1>2 DEF PipelineInv
<1> QED BY <1>1, <1>2, <1>3, ClaimsAsTheyAre, StepOfWorker

\* The vectors of a batch that waits for its marks are written.
LEMMA BatchIsWritten ==
    ASSUME PipelineInv, NEW w \in Workers, work[w].pc = "mark"
    PROVE  BatchIds(w) \subseteq DOMAIN entities /\ BatchIds(w) \subseteq DOMAIN rows
<1>1. work[w].pc \in Working
  BY DEF Working
<1>2. \A i \in 1 .. Len(Batch(w)) : Batch(w)[i].id \in DOMAIN entities
  BY ShapeOf, BatchIsNext DEF WorkerOK
<1>3. \A i \in 1 .. Len(Batch(w)) : Batch(w)[i].id \in DOMAIN rows
  BY <1>1, BatchRowsAre
<1> QED BY <1>1, <1>2, <1>3, BatchIdsAre

\* An execution that has marked a batch goes on with the next one, or with the keywords.
LEMMA MarkedOK ==
    ASSUME PipelineInv, NEW w \in Workers, work[w].pc = "mark", NEW new, Grows(rows, new),
           \A id \in BatchIds(w) : new[id].embedding = "completed",
           NEW done, done = work[w].done + Len(Batch(w)), NEW es
    PROVE  WorkerOK(plan, [work[w] EXCEPT
                             !.pc = IF done = Len(Waiting(work[w].records)) THEN "keywords"
                                    ELSE "embed",
                             !.done = done, !.vectors = <<>>], new, es)
<1> DEFINE records == work[w].records
           d == work[w].document
           m == Len(Waiting(records))
           pc == IF done = m THEN "keywords" ELSE "embed"
           s == [work[w] EXCEPT !.pc = pc, !.done = done, !.vectors = <<>>]
<1>1. work[w].pc \in Working
  BY DEF Working
<1>2. /\ plan \in Plans /\ d \in DOMAIN plan.documents /\ RecordsOK(plan, d, records, rows)
      /\ MarkedUpTo(records, work[w].done, rows) /\ work[w].done \in Nat /\ work[w].done <= m
  BY <1>1, WorkIs
<1>3. RecordsOK(plan, d, records, new)
  BY <1>2 DEF RecordsOK, Grows
<1>4. /\ Len(Batch(w)) \in Nat /\ done <= m
      /\ \A i \in 1 .. Len(Batch(w)) : Batch(w)[i] = Waiting(records)[work[w].done + i]
  BY <1>2, NextBatchIs, BatchIsNext
<1>5. done \in Nat /\ m \in Nat
  BY <1>2, <1>4, WaitingOf
<1>6. MarkedUpTo(records, done, new)
  <2> SUFFICES ASSUME NEW k \in 1 .. done
               PROVE  /\ Waiting(records)[k].id \in DOMAIN new
                      /\ new[Waiting(records)[k].id].embedding = "completed"
    BY <1>4, <1>5 DEF MarkedUpTo
  <2>1. CASE k <= work[w].done
    <3>1. k \in 1 .. work[w].done
      BY <1>2, <1>5, <2>1
    <3> HIDE DEF records
    <3> QED BY <1>2, <3>1 DEF MarkedUpTo, Grows
  <2>2. CASE ~(k <= work[w].done)
    <3>1. k - work[w].done \in 1 .. Len(Batch(w)) /\ work[w].done + (k - work[w].done) = k
      BY <1>2, <1>4, <1>5, <2>2
    <3>2. Batch(w)[k - work[w].done] = Waiting(records)[k]
      BY <1>4, <3>1
    <3>3. Batch(w)[k - work[w].done].id \in BatchIds(w)
      BY <1>1, <3>1, BatchIdsAre
    <3>4. Waiting(records)[k].id \in BatchIds(w)
      BY <3>2, <3>3
    <3> HIDE DEF records
    <3> QED BY <3>4, BatchIsWritten DEF Grows
  <2> QED BY <2>1, <2>2
<1>7. /\ DOMAIN s = DOMAIN Idle /\ s.pc = pc /\ s.seen \in Nat /\ s.dimension \in Nat
      /\ s.document = d /\ s.records = records /\ s.done = done
  BY ShapeOf, IdleFields
<1>8. WorkerOK(plan, s, new, es)
  <2>1. CASE done = m
    <3>1. s.pc = "keywords"
      BY <1>7, <2>1
    <3> HIDE DEF s, pc, d, records
    <3> QED BY <1>2, <1>3, <1>6, <1>7, <2>1, <3>1
            DEF WorkerOK, Working, Embeds, Carrying, Stages
  <2>2. CASE done # m
    <3>1. s.pc = "embed" /\ done < m
      BY <1>4, <1>5, <1>7, <2>2
    <3> HIDE DEF s, pc, d, records
    <3> QED BY <1>2, <1>3, <1>6, <1>7, <3>1 DEF WorkerOK, Working, Embeds, Carrying, Stages
  <2> QED BY <2>1, <2>2
<1> QED BY <1>8

\* mark_embeddings_completed marks the rows of the batch that was written.
LEMMA MarkEmbeddedKeeps ==
    ASSUME PipelineInv, NEW w \in Workers, MarkEmbedded(w)
    PROVE  PipelineInv' /\ Grows(rows, rows')
<1> DEFINE done == work[w].done + Len(Batch(w))
           new == [id \in BatchIds(w) |-> Embedding(rows[id])]
           s == [work[w] EXCEPT !.pc = IF done = Len(Waiting(work[w].records)) THEN "keywords"
                                       ELSE "embed",
                                !.done = done, !.vectors = <<>>]
<1>1. /\ work[w].pc = "mark"
      /\ UNCHANGED <<plan, job, dimension, collection, entities, claims, deaths>>
  BY DEF MarkEmbedded
<1>2. BatchIds(w) \subseteq DOMAIN entities /\ BatchIds(w) \subseteq DOMAIN rows
  BY <1>1, BatchIsWritten
<1>3. deaths' \in 0..MaxDeaths /\ unrecorded \subseteq DOMAIN entities
  BY <1>1 DEF PipelineInv, EntitiesOK
<1>4. CASE /\ FailUnknown(w, "conflict") /\ unrecorded' = unrecorded \cup BatchIds(w)
           /\ rows' = rows
  <2> DEFINE f == [Leave(w, "failing") EXCEPT !.error = "conflict", !.retryable = TRUE]
  <2>1. Go(w, f) /\ WorkerOK(plan, f, rows', entities)
    BY <1>1, <1>4, FailingOK DEF FailUnknown, FailWith
  <2>2. unrecorded' \subseteq DOMAIN entities
    BY <1>2, <1>3, <1>4
  <2>3. \A id \in DOMAIN rows : RowWritten(rows[id], rows'[id], id, entities)
    BY <1>4 DEF RowWritten
  <2> HIDE DEF f
  <2> QED BY <1>1, <1>3, <1>4, <2>1, <2>2, <2>3, StepWithChanges
<1>5. CASE /\ rows' = Changed(new) /\ unrecorded' = unrecorded
           /\ IF work[w].interrupted THEN Go(w, Idle) ELSE Go(w, s)
  <2>1. /\ DOMAIN rows' = DOMAIN rows
        /\ \A id \in DOMAIN rows :
               rows'[id] = IF id \in BatchIds(w) THEN Embedding(rows[id]) ELSE rows[id]
    <3>1. DOMAIN new = BatchIds(w) /\ \A id \in BatchIds(w) : new[id] = Embedding(rows[id])
      OBVIOUS
    <3> HIDE DEF new
    <3> QED BY <1>2, <1>5, <3>1, ChangedIs
  <2>2. ASSUME NEW id \in DOMAIN rows
        PROVE  RowWritten(rows[id], rows'[id], id, entities) /\ RowStep(rows[id], rows'[id])
    <3>1. CASE id \in BatchIds(w)
      <4>1. id \in DOMAIN entities /\ rows[id].embedding \in {"waiting", "completed"}
        BY <1>2, <3>1 DEF PipelineInv, EntitiesOK
      <4> QED BY <2>1, <3>1, <4>1 DEF Embedding, RowWritten, RowStep
    <3>2. CASE id \notin BatchIds(w)
      BY <2>1, <3>2 DEF RowWritten, RowStep
    <3> QED BY <3>1, <3>2
  <2>3. Grows(rows, rows')
    <3>1. RowsOK(plan, rows) /\ plan \in Plans
      BY DEF PipelineInv
    <3> QED BY <2>1, <2>2, <3>1, ChangedRows
  <2>4. \A id \in BatchIds(w) : rows'[id].embedding = "completed"
    <3> TAKE id \in BatchIds(w)
    <3>1. DOMAIN rows[id] = RowFields
      BY <1>2, FieldsOfRows DEF PipelineInv
    <3>2. rows'[id] = [rows[id] EXCEPT !.embedding = "completed"]
      BY <1>2, <2>1 DEF Embedding
    <3> QED BY <3>1, <3>2 DEF RowFields
  <2>5. WorkerOK(plan, s, rows', entities)
    <3> HIDE DEF done
    <3> QED BY <1>1, <2>3, <2>4, MarkedOK DEF done
  <2>6. ASSUME NEW state, Go(w, state), WorkerOK(plan, state, rows', entities)
        PROVE  PipelineInv' /\ Grows(rows, rows')
    <3>1. unrecorded' \subseteq DOMAIN entities
      BY <1>3, <1>5
    <3> QED BY <1>1, <1>3, <2>1, <2>2, <2>6, <3>1, StepWithChanges
  <2> HIDE DEF s
  <2> QED BY <1>5, <2>5, <2>6, IdleOK
<1> QED BY <1>1, <1>4, <1>5 DEF MarkEmbedded

----------------------------------------------------------------------------
(* Keywords, and the end of an execution and of the job.                    *)

\* A document whose waiting records are all marked is whole.
LEMMA MarkedIsWhole ==
    ASSUME NEW p \in Plans, NEW d \in DOMAIN p.documents, NEW records, NEW rs,
           RecordsOK(p, d, records, rs), MarkedUpTo(records, Len(Waiting(records)), rs)
    PROVE  Whole(p, d, rs)
<1> SUFFICES ASSUME NEW c \in Listing(p, d)
             PROVE  c.id \in DOMAIN rs
                    /\ (c.embedding = "waiting" => rs[c.id].embedding = "completed")
  BY DEF Whole
<1>1. PICK i \in DOMAIN Listed(p, d) : c = Listed(p, d)[i]
  BY ListingIs
<1>2. /\ i \in DOMAIN records /\ StagedAs(records[i], c) /\ records[i].id \in DOMAIN rs
      /\ records[i].embedding = "completed" => rs[records[i].id].embedding = "completed"
  BY <1>1 DEF RecordsOK
<1>3. records[i].id = c.id
  BY <1>2 DEF StagedAs
<1>4. ASSUME c.embedding = "waiting" PROVE rs[c.id].embedding = "completed"
  <2>1. CASE records[i].embedding = "completed"
    BY <1>2, <1>3, <2>1
  <2>2. CASE records[i].embedding # "completed"
    <3>1. c.type # "parent"
      BY <1>4, ListingIs
    <3>2. Waits(records[i])
      BY <1>2, <1>4, <2>2, <3>1 DEF StagedAs, Waits
    <3>3. PICK k \in 1 .. Len(Waiting(records)) : Waiting(records)[k] = records[i]
      BY <1>2, <3>2, WaitingOf
    <3>4. rs[Waiting(records)[k].id].embedding = "completed"
      BY DEF MarkedUpTo
    <3> QED BY <1>3, <3>3, <3>4
  <2> QED BY <2>1, <2>2
<1> QED BY <1>2, <1>3, <1>4

\* Keywords are written to rows that are there.
LEMMA KeywordsWritten ==
    ASSUME NEW ids, ids \subseteq DOMAIN rows, NEW new,
           new = Changed([id \in ids |-> WithKeywords(rows[id])])
    PROVE  /\ DOMAIN new = DOMAIN rows
           /\ \A id \in DOMAIN rows : RowWritten(rows[id], new[id], id, entities)
           /\ \A id \in DOMAIN rows : RowStep(rows[id], new[id])
           /\ \A id \in DOMAIN rows :
                  new[id] = IF id \in ids THEN WithKeywords(rows[id]) ELSE rows[id]
<1> DEFINE written == [id \in ids |-> WithKeywords(rows[id])]
<1>1. DOMAIN written = ids /\ \A id \in ids : written[id] = WithKeywords(rows[id])
  OBVIOUS
<1>2. /\ DOMAIN new = DOMAIN rows
      /\ \A id \in DOMAIN rows : new[id] = IF id \in ids THEN WithKeywords(rows[id]) ELSE rows[id]
  <2> HIDE DEF written
  <2> QED BY <1>1, ChangedIs DEF written
<1>3. \A id \in DOMAIN rows : RowWritten(rows[id], new[id], id, entities)
  BY <1>2 DEF WithKeywords, RowWritten
<1>4. \A id \in DOMAIN rows : RowStep(rows[id], new[id])
  BY <1>2 DEF WithKeywords, RowStep
<1> QED BY <1>2, <1>3, <1>4

\* update_keywords, after which the document is whole.
LEMMA SaveKeywordsKeeps ==
    ASSUME PipelineInv, NEW w \in Workers, SaveKeywords(w)
    PROVE  PipelineInv' /\ Grows(rows, rows')
<1> DEFINE ids == KeywordTargets(work[w].records)
           d == work[w].document
<1>1. /\ work[w].pc = "keywords" /\ UNCHANGED <<plan, job, dimension, milvus, claims, deaths>>
  BY DEF SaveKeywords
<1>2. CASE rows' = rows /\ FailUnknown(w, "conflict")
  BY <1>1, <1>2, StepFails DEF FailUnknown, stored
<1>3. CASE /\ TakeKeywords(ids, d) /\ Go(w, Leave(w, "complete"))
           /\ rows' = Changed([id \in ids |-> WithKeywords(rows[id])])
  <2>1. ids \subseteq DOMAIN rows
    BY <1>3 DEF TakeKeywords, Mutable
  <2>2. /\ DOMAIN rows' = DOMAIN rows
        /\ \A id \in DOMAIN rows : RowWritten(rows[id], rows'[id], id, entities)
        /\ \A id \in DOMAIN rows : RowStep(rows[id], rows'[id])
    <3> HIDE DEF ids
    <3> QED BY <1>3, <2>1, KeywordsWritten
  <2>3. /\ plan \in Plans /\ RowsOK(plan, rows) /\ d \in DOMAIN plan.documents
        /\ RecordsOK(plan, d, work[w].records, rows)
        /\ MarkedUpTo(work[w].records, Len(Waiting(work[w].records)), rows)
    BY <1>1, ShapeOf DEF WorkerOK, Working, PipelineInv
  <2>4. Whole(plan, d, rows) /\ Grows(rows, rows')
    BY <2>2, <2>3, MarkedIsWhole, ChangedRows
  <2>5. Whole(plan, d, rows')
    BY <2>4 DEF Whole, Grows
  <2> DEFINE s == Leave(w, "complete")
  <2>6. WorkerOK(plan, s, rows', entities)
    <3>1. /\ DOMAIN s = DOMAIN Idle /\ s.pc = "complete" /\ s.seen \in Nat /\ s.dimension \in Nat
          /\ s.document = d /\ s.records = <<>> /\ s.done = 0
      BY DEF Leave, Idle, Unknown
    <3> HIDE DEF s, d
    <3> QED BY <2>3, <2>5, <3>1 DEF WorkerOK, Working, Embeds, Carrying, Stages
  <2>7. UNCHANGED <<plan, job, dimension, collection, entities, claims>>
        /\ deaths' \in 0..MaxDeaths /\ unrecorded' \subseteq DOMAIN entities
    BY <1>1 DEF milvus, PipelineInv, EntitiesOK
  <2> HIDE DEF s
  <2> QED BY <1>3, <2>2, <2>6, <2>7, StepWithChanges DEF s
<1> QED BY <1>2, <1>3 DEF SaveKeywords

\* A step that only ends its execution, or none, and may settle its document.
LEMMA CompleteKeeps ==
    ASSUME PipelineInv, NEW w \in Workers, Complete(w)
    PROVE  PipelineInv' /\ Grows(rows, rows')
<1>1. /\ work[w].pc = "complete" /\ Go(w, Idle)
      /\ plan' = plan /\ job' = job /\ dimension' = dimension /\ rows' = rows
      /\ collection' = collection /\ entities' = entities /\ unrecorded' = unrecorded
      /\ deaths' = deaths /\ attempts' = attempts /\ owner' = owner
  BY DEF Complete, stored, milvus
<1>2. /\ work[w].document \in Targets /\ Whole(plan, work[w].document, rows)
  BY <1>1, ShapeOf DEF WorkerOK, Targets
<1>3. \/ outcome' = outcome
      \/ outcome' = [outcome EXCEPT ![work[w].document] = "completed"]
  BY DEF Complete
<1>4. outcome \in [Targets -> {"open", "completed", "failed"}]
  BY DEF PipelineInv, ClaimsOK
<1>5. ClaimTypes(plan, outcome', attempts', owner')
  BY <1>1, <1>2, <1>3, <1>4 DEF PipelineInv, ClaimsOK, ClaimTypes, Targets
<1>6. /\ \A d \in Targets : outcome[d] = "completed" => outcome'[d] = "completed"
      /\ \A d \in Targets : outcome'[d] = "completed" =>
             outcome[d] = "completed" \/ Whole(plan, d, rows')
  BY <1>1, <1>2, <1>3, <1>4
<1>7. /\ dimension' \in Nat /\ collection' \in Nat /\ deaths' \in 0..MaxDeaths
      /\ RowsOK(plan, rows') /\ StatusOK(job, rows')
      /\ EntitiesOK(rows', collection', entities', unrecorded')
  BY <1>1 DEF PipelineInv
<1>8. Grows(rows, rows') /\ WorkerOK(plan, Idle, rows', entities')
  BY <1>1, RowsAsTheyAre, IdleOK
<1> QED BY <1>1, <1>5, <1>6, <1>7, <1>8, StepOfWorker

\* fail_job_document settles a document as failed, or leaves it to a retry.
LEMMA FailKeeps ==
    ASSUME PipelineInv, NEW w \in Workers, Fail(w)
    PROVE  PipelineInv' /\ Grows(rows, rows')
<1>1. /\ work[w].pc = "failing" /\ Go(w, Idle)
      /\ plan' = plan /\ job' = job /\ dimension' = dimension /\ rows' = rows
      /\ collection' = collection /\ entities' = entities /\ unrecorded' = unrecorded
      /\ deaths' = deaths /\ attempts' = attempts /\ owner' = owner
  BY DEF Fail, stored, milvus
<1>2. \/ outcome' = outcome
      \/ /\ outcome[work[w].document] = "open"
         /\ outcome' = [outcome EXCEPT ![work[w].document] = "failed"]
  BY DEF Fail
<1>3. outcome \in [Targets -> {"open", "completed", "failed"}]
  BY DEF PipelineInv, ClaimsOK
<1>4. ClaimTypes(plan, outcome', attempts', owner')
  BY <1>1, <1>2, <1>3 DEF PipelineInv, ClaimsOK, ClaimTypes, Targets
<1>5. /\ \A d \in Targets : outcome[d] = "completed" => outcome'[d] = "completed"
      /\ \A d \in Targets : outcome'[d] = "completed" => outcome[d] = "completed"
  BY <1>2, <1>3
<1>6. /\ dimension' \in Nat /\ collection' \in Nat /\ deaths' \in 0..MaxDeaths
      /\ RowsOK(plan, rows') /\ StatusOK(job, rows')
      /\ EntitiesOK(rows', collection', entities', unrecorded')
  BY <1>1 DEF PipelineInv
<1>7. Grows(rows, rows') /\ WorkerOK(plan, Idle, rows', entities')
  BY <1>1, RowsAsTheyAre, IdleOK
<1> QED BY <1>1, <1>4, <1>5, <1>6, <1>7, StepOfWorker

\* A death leaves the rows and the vectors as they are.
LEMMA DieKeeps ==
    ASSUME PipelineInv, NEW w \in Workers, Die(w)
    PROVE  PipelineInv' /\ Grows(rows, rows')
<1>1. /\ Go(w, Idle) /\ deaths < MaxDeaths /\ deaths' = deaths + 1
      /\ unrecorded' = IF work[w].pc = "mark" THEN unrecorded \cup BatchIds(w) ELSE unrecorded
      /\ plan' = plan /\ job' = job /\ dimension' = dimension /\ rows' = rows
      /\ collection' = collection /\ entities' = entities /\ UNCHANGED claims
  BY DEF Die, stored
<1>2. deaths' \in 0..MaxDeaths
  <2>1. deaths \in 0..MaxDeaths /\ MaxDeaths \in Nat
    BY PipelineAssumption DEF PipelineInv
  <2> QED BY <1>1, <2>1
<1>3. unrecorded' \subseteq DOMAIN entities
  BY <1>1, BatchIsWritten DEF PipelineInv, EntitiesOK
<1>4. \A id \in DOMAIN rows : RowWritten(rows[id], rows'[id], id, entities)
  BY <1>1 DEF RowWritten
<1>5. WorkerOK(plan, Idle, rows', entities)
  BY IdleOK
<1>6. DOMAIN rows' = DOMAIN rows /\ UNCHANGED <<plan, job, dimension, collection, entities, claims>>
  BY <1>1
<1> QED BY <1>1, <1>2, <1>3, <1>4, <1>5, <1>6, StepWithChanges

\* The rows of the keyword batches an interrupted execution has flushed are there.
LEMMA FlushedRows ==
    ASSUME NEW w \in Workers, NEW n \in FlushedKeywords(w)
    PROVE  FirstTargets(work[w].records, n) \subseteq DOMAIN rows
<1>1. CASE n = 0
  <2>1. SubSeq(work[w].records, 1, n) = <<>>
    BY <1>1, SubSeqEmpty
  <2>2. Indexable(<<>>) = {}
    BY DEF Indexable
  <2>3. FirstTargets(work[w].records, n) = {}
    BY <2>1, <2>2 DEF FirstTargets, KeywordTargets
  <2> QED BY <2>3
<1>2. CASE n # 0
  BY <1>2 DEF FlushedKeywords, TakeKeywords, Mutable
<1> QED BY <1>1, <1>2

\* A cancellation waits for the marks, or leaves the keywords of whole batches.
LEMMA InterruptKeeps ==
    ASSUME PipelineInv, NEW w \in Workers, Interrupt(w)
    PROVE  PipelineInv' /\ Grows(rows, rows')
<1>1. /\ work[w].pc # "idle" /\ deaths < MaxDeaths /\ deaths' = deaths + 1
      /\ UNCHANGED <<plan, job, dimension, collection, entities, claims>>
  BY DEF Interrupt
<1>2. deaths' \in 0..MaxDeaths /\ unrecorded \subseteq DOMAIN entities
  <2>1. deaths \in 0..MaxDeaths /\ MaxDeaths \in Nat
    BY PipelineAssumption DEF PipelineInv
  <2> QED BY <1>1, <2>1 DEF PipelineInv, EntitiesOK
<1>3. CASE HeldBack(w)
  <2> DEFINE s == [work[w] EXCEPT !.interrupted = TRUE]
  <2>1. Go(w, s) /\ UNCHANGED <<rows, unrecorded>>
    BY <1>3 DEF Interrupt
  <2>2. WorkerOK(plan, s, rows', entities)
    <3>1. WorkerOK(plan, work[w], rows, entities)
      BY ShapeOf
    <3>2. /\ DOMAIN s = DOMAIN Idle /\ s.pc = work[w].pc /\ s.seen = work[w].seen
          /\ s.document = work[w].document /\ s.dimension = work[w].dimension
          /\ s.records = work[w].records /\ s.done = work[w].done /\ s.vectors = work[w].vectors
      BY ShapeOf, IdleFields
    <3> HIDE DEF s
    <3>3. WorkerOK(plan, s, rows, entities)
      BY <3>1, <3>2 DEF WorkerOK, CarriesOK
    <3> QED BY <2>1, <3>3
  <2>3. \A id \in DOMAIN rows : RowWritten(rows[id], rows'[id], id, entities)
    BY <2>1 DEF RowWritten
  <2>4. DOMAIN rows' = DOMAIN rows /\ unrecorded' \subseteq DOMAIN entities
    BY <1>2, <2>1
  <2> HIDE DEF s
  <2> QED BY <1>1, <1>2, <2>1, <2>2, <2>3, <2>4, StepWithChanges
<1>4. CASE ~HeldBack(w)
  <2>1. PICK n \in FlushedKeywords(w) :
            rows' = Changed([id \in FirstTargets(work[w].records, n) |-> WithKeywords(rows[id])])
    BY <1>4 DEF Interrupt
  <2>2. Go(w, Idle) /\ unrecorded' = unrecorded
    BY <1>4 DEF Interrupt
  <2> DEFINE ids == FirstTargets(work[w].records, n)
  <2>3. ids \subseteq DOMAIN rows
    BY FlushedRows
  <2>4. /\ DOMAIN rows' = DOMAIN rows
        /\ \A id \in DOMAIN rows : RowWritten(rows[id], rows'[id], id, entities)
    <3> HIDE DEF ids
    <3> QED BY <2>1, <2>3, KeywordsWritten DEF ids
  <2>5. WorkerOK(plan, Idle, rows', entities) /\ unrecorded' \subseteq DOMAIN entities
    BY <1>2, <2>2, IdleOK
  <2> QED BY <1>1, <1>2, <2>2, <2>4, <2>5, StepWithChanges
<1> QED BY <1>3, <1>4

\* finalize_indexing_job completes all rows, or none.
LEMMA FinalizeKeeps ==
    ASSUME PipelineInv, Finalize
    PROVE  PipelineInv' /\ Grows(rows, rows')
<1>1. /\ job = "running"
      /\ plan' = plan /\ dimension' = dimension /\ collection' = collection
      /\ entities' = entities /\ unrecorded' = unrecorded /\ work' = work /\ deaths' = deaths
      /\ outcome' = outcome /\ attempts' = attempts /\ owner' = owner
  BY DEF Finalize, milvus, claims
<1>2. /\ plan \in Plans /\ RowsOK(plan, rows) /\ StatusOK(job, rows)
      /\ EntitiesOK(rows, collection, entities, unrecorded)
      /\ \A w \in Workers : WorkerOK(plan, work[w], rows, entities)
  BY DEF PipelineInv
<1>3. CASE rows' = rows /\ job' = "failed"
  <2>1. StatusOK(job', rows')
    BY <1>1, <1>2, <1>3 DEF StatusOK
  <2>2. ClaimsOK'
    BY <1>1, <1>3 DEF PipelineInv, ClaimsOK, Targets
  <2>3. Grows(rows, rows')
    BY <1>3, RowsAsTheyAre
  <2> QED BY <1>1, <1>2, <1>3, <2>1, <2>2, <2>3 DEF PipelineInv
<1>4. CASE /\ \A d \in Targets : outcome[d] = "completed"
           /\ rows' = Changed([id \in DOMAIN rows |-> Served(rows[id])]) /\ job' = "completed"
  <2>1. /\ DOMAIN rows' = DOMAIN rows
        /\ \A id \in DOMAIN rows : rows'[id] = [rows[id] EXCEPT !.status = "completed"]
    BY <1>4, ChangedIs DEF Served
  <2>2. /\ RowsOK(plan, rows') /\ Grows(rows, rows')
        /\ \A id \in DOMAIN rows : rows'[id].content = rows[id].content
                                   /\ rows'[id].document = rows[id].document
                                   /\ rows'[id].parent = rows[id].parent
                                   /\ rows'[id].position = rows[id].position
    <3>1. \A id \in DOMAIN rows : RowStep(rows[id], rows'[id])
      BY <2>1 DEF RowStep
    <3> QED BY <1>2, <2>1, <3>1, ChangedRows
  <2>3. \A id \in DOMAIN rows : /\ rows'[id].status = "completed"
                                /\ rows'[id].embedding = rows[id].embedding
    <3> TAKE id \in DOMAIN rows
    <3>1. DOMAIN rows[id] = RowFields
      BY <1>2, FieldsOfRows
    <3>2. rows'[id] = [rows[id] EXCEPT !.status = "completed"]
      BY <2>1
    <3> QED BY <3>1, <3>2 DEF RowFields
  <2>4. StatusOK(job', rows')
    BY <1>4, <2>1, <2>3 DEF StatusOK
  <2>5. EntitiesOK(rows', collection', entities', unrecorded')
    <3>1. \A id \in DOMAIN rows : Entity(rows'[id], Vector(rows'[id].content, collection))
                                      = Entity(rows[id], Vector(rows[id].content, collection))
      BY <2>2 DEF Entity
    <3> QED BY <1>1, <1>2, <2>1, <2>3, <3>1 DEF EntitiesOK
  <2>6. \A w \in Workers : WorkerOK(plan, work[w], rows', entities)
    BY <1>2, <2>2, WorkerKept
  <2>7. ClaimsOK'
    <3>1. \A d \in Targets : Whole(plan, d, rows) => Whole(plan, d, rows')
      BY <2>2 DEF Whole, Grows
    <3> QED BY <1>1, <1>4, <3>1 DEF PipelineInv, ClaimsOK, Targets
  <2> QED BY <1>1, <1>2, <1>4, <2>2, <2>4, <2>5, <2>6, <2>7 DEF PipelineInv
<1> QED BY <1>3, <1>4 DEF Finalize

\* A job begins without rows and vectors.
LEMMA InitPipeline ==
    ASSUME Init
    PROVE  PipelineInv
<1>1. /\ rows = <<>> /\ entities = <<>> /\ DOMAIN rows = {} /\ DOMAIN entities = {}
      /\ plan \in Plans
  BY DEF Init
<1>2. dimension \in Nat /\ collection \in Nat /\ deaths \in 0..MaxDeaths
  BY PipelineAssumption DEF Init, Unknown, ActiveDimension
<1>3. DOMAIN work = Workers /\ \A w \in Workers : WorkerOK(plan, work[w], rows, entities)
  BY IdleOK DEF Init
<1>4. RowsOK(plan, rows) /\ StatusOK(job, rows)
  BY <1>1 DEF RowsOK, StatusOK
<1>5. EntitiesOK(rows, collection, entities, unrecorded)
  BY <1>1 DEF Init, EntitiesOK
<1>6. ClaimsOK
  BY PipelineAssumption DEF Init, ClaimsOK
<1> QED BY <1>1, <1>2, <1>3, <1>4, <1>5, <1>6 DEF Init, PipelineInv

\* Every step keeps the invariant, and rows and marks.
LEMMA NextPipeline ==
    ASSUME PipelineInv, [Next]_vars
    PROVE  PipelineInv' /\ Grows(rows, rows')
<1>1. CASE Finalize
  BY <1>1, FinalizeKeeps
<1>2. ASSUME NEW w \in Workers, Step(w) PROVE PipelineInv' /\ Grows(rows, rows')
  BY <1>2, ReadDocumentKeeps, StageKeeps, EmbedBatchKeeps, ResolveKeeps, EnsureCollectionKeeps,
     CreateCollectionKeeps, UpsertKeeps, MarkEmbeddedKeeps, SaveKeywordsKeeps, CompleteKeeps,
     FailKeeps DEF Step
<1>3. ASSUME NEW w \in Workers, Fault(w) PROVE PipelineInv' /\ Grows(rows, rows')
  BY <1>3, ReadFailsKeeps, MilvusFailsKeeps, DieKeeps, InterruptKeeps DEF Fault
<1>4. ASSUME NEW w \in Workers, NEW d \in Targets, Begin(w, d)
      PROVE  PipelineInv' /\ Grows(rows, rows')
  BY <1>4, BeginKeeps
<1>5. CASE UNCHANGED vars
  <2>1. Grows(rows, rows')
    BY <1>5, RowsAsTheyAre DEF vars
  <2> QED BY <1>5, <2>1 DEF vars, stored, milvus, claims, PipelineInv, ClaimsOK, Targets
<1> QED BY <1>1, <1>2, <1>3, <1>4, <1>5 DEF Next

\* The inductive invariant of the pipeline: the rows are those of the
\* segments, the vectors those of the rows, the records of an execution those of
\* its document, and completed documents are whole.
THEOREM PipelineInvariant == Spec => []PipelineInv
BY InitPipeline, NextPipeline, PTL DEF Spec

----------------------------------------------------------------------------
(* What follows from the invariant.                                         *)

\* The database, the collection and the executions keep the shape their
\* readers expect (run SegmentPipeline).
THEOREM PipelineTypesCorrect == Spec => []PipelineTypeOK
<1>1. ASSUME PipelineInv PROVE PipelineTypeOK
  <2>1. plan \in Plans /\ RowsOK(plan, rows) /\ StatusOK(job, rows)
        /\ EntitiesOK(rows, collection, entities, unrecorded)
    BY <1>1 DEF PipelineInv
  <2>2. ASSUME NEW id \in DOMAIN rows
        PROVE  /\ rows[id].id = id /\ rows[id].document \in Targets
               /\ rows[id].embedding \in {"waiting", "completed", "not_required"}
               /\ rows[id].status \in {"indexing", "completed"}
    <3>1. PICK d \in DOMAIN plan.documents :
              \E c \in Listing(plan, d) : c.id = id /\ StagedAs(rows[id], c)
      BY <2>1 DEF RowsOK
    <3>2. PICK c \in Listing(plan, d) : c.id = id /\ StagedAs(rows[id], c)
      BY <3>1
    <3>3. c.document = d /\ c.embedding \in {"waiting", "not_required"}
      BY <2>1, ListingIs
    <3> QED BY <3>2, <3>3 DEF StagedAs, Targets
  <2>3. \A id \in DOMAIN entities : entities[id].document \in Targets
    <3> TAKE id \in DOMAIN entities
    <3>1. id \in DOMAIN rows /\ entities[id].document = rows[id].document
      BY <2>1 DEF EntitiesOK, Entity
    <3> QED BY <2>2, <3>1
  <2>4. ASSUME NEW w \in Workers
        PROVE  /\ work[w].pc \in Stages
               /\ work[w].done <= Len(Waiting(work[w].records))
               /\ BatchIds(w) \subseteq DOMAIN rows
               /\ work[w].pc \in {"upsert", "mark"} => Len(work[w].vectors) = Len(Batch(w))
    <3>1. work[w].pc \in Stages
      BY <1>1, ShapeOf
    <3>2. CASE work[w].pc \in Working
      <4>1. work[w].done <= Len(Waiting(work[w].records))
        BY <1>1, <3>2, WorkIs
      <4>2. BatchIds(w) \subseteq DOMAIN rows
        BY <1>1, <3>2, BatchIdsAre, BatchRowsAre
      <4>3. work[w].pc \in {"upsert", "mark"} => Len(work[w].vectors) = Len(Batch(w))
        BY <1>1, ShapeOf, BatchIsNext DEF WorkerOK, Carrying, CarriesOK
      <4> QED BY <3>1, <4>1, <4>2, <4>3
    <3>3. CASE work[w].pc \notin Working
      <4>1. work[w].records = <<>> /\ work[w].done = 0
        BY <1>1, <3>3, ShapeOf DEF WorkerOK
      <4>2. Batch(w) = <<>> /\ Waiting(work[w].records) = <<>>
        BY <4>1, BatchIsNext, NothingWaits
      <4>3. ToSet(<<>>) = {} /\ Len(<<>>) = 0
        BY DEF ToSet
      <4>4. BatchIds(w) = {}
        BY <4>2, <4>3 DEF BatchIds
      <4>5. work[w].done <= Len(Waiting(work[w].records))
        BY <4>1, <4>2, <4>3
      <4>6. work[w].pc \notin {"upsert", "mark"}
        BY <3>3 DEF Working
      <4> QED BY <3>1, <4>4, <4>5, <4>6
    <3> QED BY <3>2, <3>3
  <2>5. unrecorded \subseteq DOMAIN entities
    BY <2>1 DEF EntitiesOK
  <2> QED BY <1>1, <2>2, <2>3, <2>4, <2>5 DEF PipelineInv, PipelineTypeOK, ClaimsOK
<1> QED BY <1>1, PipelineInvariant, PTL

\* Whatever the service answers, whoever dies and however many executions work
\* on a document: a row that says it is embedded has the vector of its own text
\* (run SegmentPipeline).
THEOREM MarkedVectorsAreTheirOwn == Spec => []MarkedHaveTheirVectors
<1>1. ASSUME PipelineInv PROVE MarkedHaveTheirVectors
  BY <1>1 DEF PipelineInv, EntitiesOK, MarkedHaveTheirVectors
<1> QED BY <1>1, PipelineInvariant, PTL

----------------------------------------------------------------------------
\* The ids of the batch an execution is at.
IdsOf(s) == {r.id : r \in ToSet(NextBatch(s.records, s.done))}

\* Why a vector may have a row that does not say so.
Excused(id, rs, un, wk) ==
    \/ id \in DOMAIN rs /\ rs[id].embedding = "completed"
    \/ id \in un
    \/ \E w \in Workers : wk[w].pc = "mark" /\ id \in IdsOf(wk[w])

\* UnmarkedVectorsAreCaused says that each vector is excused.
LEMMA ExcusedIs ==
    UnmarkedVectorsAreCaused <=> \A id \in DOMAIN entities : Excused(id, rows, unrecorded, work)
BY DEF UnmarkedVectorsAreCaused, Excused, IdsOf, BatchIds, Batch, NextBatch

\* So it does of the next state.
LEMMA ExcusedIsPrimed ==
    UnmarkedVectorsAreCaused'
        <=> \A id \in DOMAIN entities' : Excused(id, rows', unrecorded', work')
BY DEF UnmarkedVectorsAreCaused, Excused, IdsOf, BatchIds, Batch, NextBatch

\* The ids of a batch, as an operator of the state of its execution.
LEMMA BatchIdsOf ==
    ASSUME NEW w
    PROVE  BatchIds(w) = IdsOf(work[w])
BY BatchIsNext DEF BatchIds, IdsOf

\* A step excuses what it writes, and what it was about to mark.
LEMMA ExcusesKept ==
    ASSUME PipelineInv, UnmarkedVectorsAreCaused, Grows(rows, rows'),
           NEW w \in Workers, NEW state, Go(w, state), unrecorded \subseteq unrecorded',
           \A id \in DOMAIN entities' : id \notin DOMAIN entities =>
               Excused(id, rows', unrecorded', work'),
           work[w].pc = "mark" => \A id \in IdsOf(work[w]) : Excused(id, rows', unrecorded', work')
    PROVE  UnmarkedVectorsAreCaused'
<1> SUFFICES ASSUME NEW id \in DOMAIN entities' PROVE Excused(id, rows', unrecorded', work')
  BY ExcusedIsPrimed
<1>1. CASE id \notin DOMAIN entities
  BY <1>1
<1>2. CASE id \in DOMAIN entities
  <2>1. Excused(id, rows, unrecorded, work)
    BY <1>2, ExcusedIs
  <2>2. CASE id \in DOMAIN rows /\ rows[id].embedding = "completed"
    BY <2>2 DEF Excused, Grows
  <2>3. CASE id \in unrecorded
    BY <2>3 DEF Excused
  <2>4. ASSUME NEW v \in Workers, work[v].pc = "mark", id \in IdsOf(work[v])
        PROVE  Excused(id, rows', unrecorded', work')
    <3>1. CASE v = w
      BY <2>4, <3>1
    <3>2. CASE v # w
      <4>1. work'[v] = work[v]
        BY <3>2, GoIs DEF PipelineInv
      <4> QED BY <2>4, <4>1 DEF Excused
    <3> QED BY <3>1, <3>2
  <2> QED BY <2>1, <2>2, <2>3, <2>4 DEF Excused
<1> QED BY <1>1, <1>2

\* No step leaves a vector without an excuse.
LEMMA NextExcuses ==
    ASSUME PipelineInv, UnmarkedVectorsAreCaused, [Next]_vars, Grows(rows, rows')
    PROVE  UnmarkedVectorsAreCaused'
<1>1. ASSUME UNCHANGED <<entities, unrecorded, work>> PROVE UnmarkedVectorsAreCaused'
  <2> SUFFICES ASSUME NEW id \in DOMAIN entities PROVE Excused(id, rows', unrecorded', work')
    BY <1>1, ExcusedIsPrimed
  <2> QED BY <1>1, ExcusedIs DEF Excused, Grows
<1>2. CASE Finalize \/ UNCHANGED vars
  BY <1>1, <1>2 DEF Finalize, vars, milvus
<1>3. ASSUME NEW w \in Workers, NEW state, Go(w, state), work[w].pc # "mark",
             UNCHANGED <<entities, unrecorded>>
      PROVE  UnmarkedVectorsAreCaused'
  BY <1>3, ExcusesKept
<1>4. ASSUME NEW w \in Workers, NEW d \in Targets, Begin(w, d) PROVE UnmarkedVectorsAreCaused'
  BY <1>3, <1>4 DEF Begin, milvus
<1>5. ASSUME NEW w \in Workers,
             \/ ReadDocument(w) \/ Stage(w) \/ EmbedBatch(w) \/ Resolve(w) \/ EnsureCollection(w)
             \/ CreateCollection(w) \/ SaveKeywords(w) \/ Complete(w) \/ Fail(w) \/ ReadFails(w)
      PROVE  UnmarkedVectorsAreCaused'
  <2>1. work[w].pc # "mark" /\ UNCHANGED <<entities, unrecorded>>
    BY <1>5 DEF ReadDocument, Stage, EmbedBatch, Resolve, EnsureCollection, CreateCollection,
                SaveKeywords, Complete, Fail, ReadFails, milvus
  <2>2. \E state : Go(w, state)
    BY <1>5 DEF ReadDocument, Stage, EmbedBatch, Resolve, EnsureCollection, CreateCollection,
                SaveKeywords, Complete, Fail, ReadFails, FailWith, FailUnknown, Continue
  <2> QED BY <1>3, <2>1, <2>2
<1>6. ASSUME NEW w \in Workers, Upsert(w) PROVE UnmarkedVectorsAreCaused'
  <2>1. work[w].pc = "upsert" /\ unrecorded' = unrecorded
    BY <1>6 DEF Upsert
  <2>2. CASE UNCHANGED entities
    <3>1. \E state : Go(w, state)
      BY <1>6 DEF Upsert, FailUnknown, FailWith, Continue
    <3> QED BY <1>3, <2>1, <2>2, <3>1
  <2>3. CASE entities' = Written(w) /\ Continue(w, "mark")
    <3> DEFINE s == [work[w] EXCEPT !.pc = "mark"]
    <3>1. Go(w, s) /\ work'[w] = s
      BY <2>3, GoIs DEF Continue, PipelineInv
    <3>2. s.pc = "mark" /\ s.records = work[w].records /\ s.done = work[w].done
      BY ShapeOf, IdleFields
    <3> HIDE DEF s
    <3>3. \A id \in BatchIds(w) : Excused(id, rows', unrecorded', work')
      BY <3>1, <3>2, BatchIdsOf DEF Excused, IdsOf
    <3>4. DOMAIN entities' = DOMAIN entities \cup BatchIds(w)
      BY <2>3 DEF Written
    <3> QED BY <2>1, <3>1, <3>3, <3>4, ExcusesKept
  <2> QED BY <1>6, <2>2, <2>3 DEF Upsert
<1>7. ASSUME NEW w \in Workers, MilvusFails(w) PROVE UnmarkedVectorsAreCaused'
  <2>1. work[w].pc # "mark" /\ \E state : Go(w, state)
    BY <1>7 DEF MilvusFails, FailUnknown, FailWith
  <2>2. CASE UNCHANGED <<entities, unrecorded>>
    BY <1>3, <2>1, <2>2
  <2>3. CASE entities' = Written(w) /\ unrecorded' = unrecorded \cup BatchIds(w)
    <3>1. DOMAIN entities' = DOMAIN entities \cup BatchIds(w)
      BY <2>3 DEF Written
    <3>2. \A id \in BatchIds(w) : Excused(id, rows', unrecorded', work')
      BY <2>3 DEF Excused
    <3> QED BY <2>1, <2>3, <3>1, <3>2, ExcusesKept
  <2> QED BY <1>7, <2>2, <2>3 DEF MilvusFails
<1>8. ASSUME NEW w \in Workers, MarkEmbedded(w) PROVE UnmarkedVectorsAreCaused'
  <2>1. work[w].pc = "mark" /\ entities' = entities /\ \E state : Go(w, state)
    BY <1>8 DEF MarkEmbedded, FailUnknown, FailWith
  <2>2. BatchIds(w) \subseteq DOMAIN rows
    BY <2>1, BatchIsWritten
  <2>3. CASE unrecorded' = unrecorded \cup BatchIds(w)
    <3>1. \A id \in BatchIds(w) : Excused(id, rows', unrecorded', work')
      BY <2>3 DEF Excused
    <3> QED BY <2>1, <2>3, <3>1, BatchIdsOf, ExcusesKept
  <2>4. CASE /\ rows' = Changed([id \in BatchIds(w) |-> Embedding(rows[id])])
             /\ unrecorded' = unrecorded
    <3> DEFINE new == [id \in BatchIds(w) |-> Embedding(rows[id])]
    <3>1. DOMAIN new = BatchIds(w) /\ \A id \in BatchIds(w) : new[id] = Embedding(rows[id])
      OBVIOUS
    <3> HIDE DEF new
    <3>2. DOMAIN rows' = DOMAIN rows /\ \A id \in BatchIds(w) : rows'[id] = Embedding(rows[id])
      BY <2>2, <2>4, <3>1, ChangedIs DEF new
    <3>3. ASSUME NEW id \in BatchIds(w) PROVE Excused(id, rows', unrecorded', work')
      <4>1. DOMAIN rows[id] = RowFields
        BY <2>2, FieldsOfRows DEF PipelineInv
      <4>2. rows'[id] = [rows[id] EXCEPT !.embedding = "completed"]
        BY <3>2 DEF Embedding
      <4>3. rows'[id].embedding = "completed"
        BY <4>1, <4>2 DEF RowFields
      <4> QED BY <2>2, <3>2, <4>3 DEF Excused
    <3> QED BY <2>1, <2>4, <3>3, BatchIdsOf, ExcusesKept
  <2> QED BY <1>8, <2>3, <2>4 DEF MarkEmbedded
<1>9. ASSUME NEW w \in Workers, Die(w) PROVE UnmarkedVectorsAreCaused'
  <2>1. entities' = entities /\ Go(w, Idle) /\ unrecorded \subseteq unrecorded'
        /\ (work[w].pc = "mark" => BatchIds(w) \subseteq unrecorded')
    BY <1>9 DEF Die
  <2>2. work[w].pc = "mark" => \A id \in IdsOf(work[w]) : Excused(id, rows', unrecorded', work')
    BY <2>1, BatchIdsOf DEF Excused
  <2> QED BY <2>1, <2>2, ExcusesKept
<1>10. ASSUME NEW w \in Workers, Interrupt(w) PROVE UnmarkedVectorsAreCaused'
  <2>1. entities' = entities /\ unrecorded' = unrecorded
    BY <1>10 DEF Interrupt
  <2>2. CASE ~HeldBack(w)
    BY <1>3, <1>10, <2>1, <2>2 DEF Interrupt, HeldBack
  <2>3. CASE HeldBack(w)
    <3> DEFINE s == [work[w] EXCEPT !.interrupted = TRUE]
    <3>1. Go(w, s) /\ work'[w] = s
      BY <1>10, <2>3, GoIs DEF Interrupt, PipelineInv
    <3>2. s.pc = work[w].pc /\ s.records = work[w].records /\ s.done = work[w].done
      BY ShapeOf, IdleFields
    <3> HIDE DEF s
    <3>3. work[w].pc = "mark" => \A id \in IdsOf(work[w]) : Excused(id, rows', unrecorded', work')
      BY <3>1, <3>2 DEF Excused, IdsOf
    <3> QED BY <2>1, <3>1, <3>3, ExcusesKept
  <2> QED BY <2>2, <2>3
<1> QED BY <1>2, <1>4, <1>5, <1>6, <1>7, <1>8, <1>9, <1>10 DEF Next, Step, Fault

\* A vector without its mark comes from a death or a failed write, never from a
\* cancellation (run SegmentPipeline; _run_sync_deferred_cancellation).
THEOREM UnmarkedVectorsExcused == Spec => []UnmarkedVectorsAreCaused
<1>1. ASSUME Init PROVE UnmarkedVectorsAreCaused
  BY <1>1 DEF Init, UnmarkedVectorsAreCaused
<1>2. ASSUME PipelineInv, UnmarkedVectorsAreCaused, [Next]_vars PROVE UnmarkedVectorsAreCaused'
  BY <1>2, NextPipeline, NextExcuses
<1> QED BY <1>1, <1>2, PipelineInvariant, PTL DEF Spec

----------------------------------------------------------------------------
(* The pipeline as readers of the index see it.                             *)

\* What VectorBackedSegments sees of the rows.
NeedVectors(rs) == {id \in DOMAIN rs : rs[id].embedding # "not_required"}
Marked(rs) == {id \in DOMAIN rs : rs[id].embedding = "completed"}
Unseen == UNCHANGED <<NeedVectors(rows), DOMAIN entities, Marked(rows), job = "completed">>

\* Rows that keep their embeddings are not seen to change.
LEMMA UnseenRows ==
    ASSUME DOMAIN rows' = DOMAIN rows, DOMAIN entities' = DOMAIN entities,
           \A id \in DOMAIN rows : rows'[id].embedding = rows[id].embedding, job' = job
    PROVE  Unseen
BY DEF Unseen, NeedVectors, Marked

\* Neither do keywords.
LEMMA UnseenKeywords ==
    ASSUME PipelineInv, NEW ids,
           rows' = Changed([id \in ids |-> WithKeywords(rows[id])]), ids \subseteq DOMAIN rows,
           entities' = entities, job' = job
    PROVE  Unseen
<1>1. /\ DOMAIN rows' = DOMAIN rows
      /\ \A id \in DOMAIN rows :
             rows'[id] = IF id \in ids THEN WithKeywords(rows[id]) ELSE rows[id]
  BY KeywordsWritten
<1>2. \A id \in DOMAIN rows : DOMAIN rows[id] = RowFields
  BY FieldsOfRows DEF PipelineInv
<1>3. \A id \in DOMAIN rows : rows'[id].embedding = rows[id].embedding
  BY <1>1, <1>2 DEF WithKeywords, RowFields
<1> QED BY <1>1, <1>3, UnseenRows

\* Staging adds segments without a mark, and none once the job is completed.
LEMMA StageIsSeen ==
    ASSUME PipelineInv, NEW w \in Workers, Stage(w)
    PROVE  Unseen \/ Store!Stage
<1> DEFINE d == work[w].document
           new == InsertMissing(Listed(plan, d), rows)
<1>1. work[w].pc = "stage" /\ job' = job /\ entities' = entities
      /\ (rows' = rows \/ rows' = new)
  BY DEF Stage, milvus, Candidates, Listed
<1>2. CASE rows' = rows
  BY <1>1, <1>2, UnseenRows
<1>3. CASE rows' = new
  <2>1. d \in DOMAIN plan.documents /\ plan \in Plans /\ RowsOK(plan, rows)
    BY <1>1, ShapeOf DEF PipelineInv
  <2>2. /\ DOMAIN rows' = DOMAIN rows \cup {c.id : c \in Listing(plan, d)}
        /\ \A id \in DOMAIN rows : rows'[id] = rows[id]
        /\ \A c \in Listing(plan, d) : c.id \notin DOMAIN rows => rows'[c.id] = Row(c)
    <3>1. new = InsertMissing(Listed(plan, d), rows)
      OBVIOUS
    <3> HIDE DEF d, new
    <3>2. /\ DOMAIN new = DOMAIN rows \cup {c.id : c \in Listing(plan, d)}
          /\ \A id \in DOMAIN rows : new[id] = rows[id]
          /\ \A c \in Listing(plan, d) : c.id \notin DOMAIN rows => new[c.id] = Row(c)
      BY <2>1, <3>1, InsertedRows
    <3> QED BY <1>3, <3>2
  <2> HIDE DEF d
  <2>3. Marked(rows') = Marked(rows)
    <3>1. ASSUME NEW id \in DOMAIN rows', rows'[id].embedding = "completed"
          PROVE  id \in DOMAIN rows
      <4> SUFFICES ASSUME id \notin DOMAIN rows PROVE FALSE
        OBVIOUS
      <4>1. PICK c \in Listing(plan, d) : c.id = id /\ rows'[id] = Row(c)
        BY <2>2
      <4>2. c.embedding \in {"waiting", "not_required"}
        BY <2>1, ListingIs
      <4> QED BY <3>1, <4>1, <4>2 DEF Row
    <3> QED BY <2>2, <3>1 DEF Marked
  <2>4. NeedVectors(rows) \subseteq NeedVectors(rows')
    BY <2>2 DEF NeedVectors
  <2>5. CASE job # "completed"
    BY <1>1, <2>3, <2>4, <2>5 DEF Store!Stage, NeedVectors, Marked, NeedsVector
  <2>6. CASE job = "completed"
    <3>1. Whole(plan, d, rows)
      BY <2>1, <2>6 DEF PipelineInv, ClaimsOK, Targets
    <3>2. DOMAIN rows' = DOMAIN rows
      BY <2>2, <3>1 DEF Whole
    <3> QED BY <1>1, <2>2, <3>2, UnseenRows
  <2> QED BY <2>5, <2>6
<1> QED BY <1>1, <1>2, <1>3

\* Vectors are written for segments that need one.
LEMMA WriteIsSeen ==
    ASSUME PipelineInv, PipelineInv', NEW w \in Workers, Upsert(w) \/ MilvusFails(w)
    PROVE  Unseen \/ Store!Write
<1>1. /\ rows' = rows /\ job' = job
      /\ DOMAIN entities' = DOMAIN entities \/ entities' = Written(w)
  BY DEF Upsert, MilvusFails, stored
<1>2. DOMAIN entities \subseteq DOMAIN entities'
  BY <1>1 DEF Written
<1>3. DOMAIN entities' \subseteq NeedVectors(rows)
  <2>1. EntitiesOK(rows, collection', entities', unrecorded')
    BY <1>1 DEF PipelineInv
  <2> QED BY <2>1 DEF EntitiesOK, NeedVectors
<1> QED BY <1>1, <1>2, <1>3 DEF Store!Write, NeedVectors, Marked, NeedsVector

\* A mark follows its write, and none comes once the job is completed.
LEMMA MarkIsSeen ==
    ASSUME PipelineInv, PipelineInv', NEW w \in Workers, MarkEmbedded(w)
    PROVE  Unseen \/ Store!Mark
<1> DEFINE new == [id \in BatchIds(w) |-> Embedding(rows[id])]
<1>1. work[w].pc = "mark" /\ job' = job /\ entities' = entities
  BY DEF MarkEmbedded
<1>2. CASE rows' = rows
  BY <1>1, <1>2, UnseenRows
<1>3. CASE rows' = Changed(new) /\ Mutable(BatchIds(w), work[w].document, rows)
  <2>1. BatchIds(w) \subseteq DOMAIN rows /\ BatchIds(w) \subseteq DOMAIN entities
    BY <1>1, BatchIsWritten
  <2>2. /\ DOMAIN rows' = DOMAIN rows
        /\ \A id \in DOMAIN rows :
               rows'[id] = IF id \in BatchIds(w) THEN Embedding(rows[id]) ELSE rows[id]
    <3>1. DOMAIN new = BatchIds(w) /\ \A id \in BatchIds(w) : new[id] = Embedding(rows[id])
      OBVIOUS
    <3> HIDE DEF new
    <3> QED BY <1>3, <2>1, <3>1, ChangedIs
  <2>3. ASSUME NEW id \in BatchIds(w)
        PROVE  rows[id].embedding # "not_required" /\ rows'[id].embedding = "completed"
    <3>1. id \in DOMAIN rows /\ rows[id].embedding \in {"waiting", "completed"}
      BY <2>1 DEF PipelineInv, EntitiesOK
    <3>2. DOMAIN rows[id] = RowFields
      BY <3>1, FieldsOfRows DEF PipelineInv
    <3> QED BY <2>2, <3>1, <3>2 DEF Embedding, RowFields
  <2>4. NeedVectors(rows') = NeedVectors(rows) /\ Marked(rows) \subseteq Marked(rows')
    BY <2>2, <2>3 DEF NeedVectors, Marked
  <2>5. Marked(rows') \subseteq DOMAIN entities
    BY <1>1 DEF PipelineInv, EntitiesOK, Marked
  <2>6. CASE job # "completed"
    BY <1>1, <2>4, <2>5, <2>6 DEF Store!Mark, NeedVectors, Marked, NeedsVector
  <2>7. CASE job = "completed"
    <3>1. \A id \in BatchIds(w) : rows[id].status = "completed"
      BY <2>1, <2>7 DEF PipelineInv, StatusOK
    <3>2. BatchIds(w) = {}
      BY <1>3, <3>1 DEF Mutable
    <3> QED BY <1>1, <2>2, <3>2, UnseenRows
  <2> QED BY <2>6, <2>7
<1> QED BY <1>2, <1>3 DEF MarkEmbedded

\* A job completes only when every segment that needs a vector has its mark.
LEMMA FinalizeIsSeen ==
    ASSUME PipelineInv, Finalize
    PROVE  Unseen \/ Store!Serve
<1>1. entities' = entities /\ job = "running"
  BY DEF Finalize, milvus
<1>2. CASE rows' = rows /\ job' = "failed"
  BY <1>1, <1>2 DEF Unseen
<1>3. CASE /\ \A id \in DOMAIN rows : Ready(rows[id])
           /\ rows' = Changed([id \in DOMAIN rows |-> Served(rows[id])])
           /\ job' = "completed"
  <2>1. NeedVectors(rows) = Marked(rows)
    BY <1>3 DEF Ready, NeedVectors, Marked
  <2>2. /\ DOMAIN rows' = DOMAIN rows
        /\ \A id \in DOMAIN rows : rows'[id] = [rows[id] EXCEPT !.status = "completed"]
    BY <1>3, ChangedIs DEF Served
  <2>3. \A id \in DOMAIN rows : rows'[id].embedding = rows[id].embedding
    <3>1. \A id \in DOMAIN rows : DOMAIN rows[id] = RowFields
      BY FieldsOfRows DEF PipelineInv
    <3> QED BY <2>2, <3>1 DEF RowFields
  <2>4. NeedVectors(rows') = NeedVectors(rows) /\ Marked(rows') = Marked(rows)
    BY <2>2, <2>3 DEF NeedVectors, Marked
  <2> QED BY <1>1, <1>3, <2>1, <2>4 DEF Store!Serve, NeedVectors, Marked, NeedsVector
<1> QED BY <1>2, <1>3 DEF Finalize

\* Every step is one of VectorBackedSegments, or not seen there.
LEMMA StoreStep ==
    ASSUME PipelineInv, PipelineInv', [Next]_vars
    PROVE  Unseen \/ Store!Next
<1>1. CASE Finalize
  BY <1>1, FinalizeIsSeen DEF Store!Next
<1>2. ASSUME NEW w \in Workers, Stage(w) \/ Upsert(w) \/ MilvusFails(w) \/ MarkEmbedded(w)
      PROVE  Unseen \/ Store!Next
  BY <1>2, StageIsSeen, WriteIsSeen, MarkIsSeen DEF Store!Next
<1>3. ASSUME rows' = rows, entities' = entities, job' = job PROVE Unseen
  BY <1>3, UnseenRows
<1>4. ASSUME NEW w \in Workers,
             \/ ReadDocument(w) \/ EmbedBatch(w) \/ Resolve(w) \/ EnsureCollection(w)
             \/ CreateCollection(w) \/ Complete(w) \/ Fail(w) \/ ReadFails(w) \/ Die(w)
             \/ \E d \in Targets : Begin(w, d)
      PROVE  Unseen
  BY <1>3, <1>4 DEF ReadDocument, EmbedBatch, Resolve, EnsureCollection, CreateCollection,
                    Complete, Fail, ReadFails, Die, Begin, stored, milvus
<1>5. ASSUME NEW w \in Workers, SaveKeywords(w) PROVE Unseen
  <2>1. entities' = entities /\ job' = job
    BY <1>5 DEF SaveKeywords, milvus
  <2>2. CASE rows' = rows
    BY <1>3, <2>1, <2>2
  <2>3. CASE rows' # rows
    <3> DEFINE ids == KeywordTargets(work[w].records)
    <3>1. /\ TakeKeywords(ids, work[w].document)
          /\ rows' = Changed([id \in ids |-> WithKeywords(rows[id])])
      BY <1>5, <2>3 DEF SaveKeywords
    <3>2. ids \subseteq DOMAIN rows
      BY <3>1 DEF TakeKeywords, Mutable
    <3> HIDE DEF ids
    <3> QED BY <2>1, <3>1, <3>2, UnseenKeywords
  <2> QED BY <2>2, <2>3
<1>6. ASSUME NEW w \in Workers, Interrupt(w) PROVE Unseen
  <2>1. entities' = entities /\ job' = job
    BY <1>6 DEF Interrupt
  <2>2. CASE HeldBack(w)
    BY <1>3, <1>6, <2>1, <2>2 DEF Interrupt
  <2>3. CASE ~HeldBack(w)
    <3>1. PICK n \in FlushedKeywords(w) :
              rows' = Changed([id \in FirstTargets(work[w].records, n) |->
                                 WithKeywords(rows[id])])
      BY <1>6, <2>3 DEF Interrupt
    <3> DEFINE ids == FirstTargets(work[w].records, n)
    <3>2. ids \subseteq DOMAIN rows
      BY FlushedRows
    <3> HIDE DEF ids
    <3> QED BY <2>1, <3>1, <3>2, UnseenKeywords DEF ids
  <2> QED BY <2>2, <2>3
<1>7. CASE UNCHANGED vars
  BY <1>3, <1>7 DEF vars, stored
<1> QED BY <1>1, <1>2, <1>4, <1>5, <1>6, <1>7 DEF Next, Step, Fault

\* A job begins as VectorBackedSegments does.
LEMMA StoreInit ==
    ASSUME Init
    PROVE  Store!Init
<1>1. DOMAIN rows = {} /\ DOMAIN entities = {} /\ job = "running"
  BY DEF Init
<1> QED BY <1>1 DEF Store!Init

\* The pipeline implements VectorBackedSegments, for every plan, number of
\* workers, service and batch size (run SegmentPipeline).
THEOREM SegmentsAreBackedByVectors == Spec => StoreSpec
<1>1. Init => Store!Init
  BY StoreInit
<1>2. PipelineInv /\ PipelineInv' /\ [Next]_vars => [Store!Next]_(Store!vars)
  BY StoreStep DEF Unseen, NeedVectors, Marked, NeedsVector, Store!vars
<1> QED BY <1>1, <1>2, PipelineInvariant, PTL DEF Spec, StoreSpec, Store!Spec

----------------------------------------------------------------------------
(* The keywords of the segments: a retry finds what it would stage, and a    *)
(* completed document is whole.  Both need that an editor gives no keywords  *)
(* to segments of an economy index: _extract_and_persist_keywords writes     *)
(* over those of every record, and a row with other keywords than its        *)
(* candidate brings is no exact retry (run segment_pipeline_edited).         *)

\* Keywords change to the final ones only.
KeywordsGrow(p, rs, new) ==
    \A d \in DOMAIN p.documents : \A c \in Listing(p, d) :
        c.id \in DOMAIN rs =>
            c.id \in DOMAIN new /\ new[c.id].keywords \in {rs[c.id].keywords, Final(c)}

\* A step of an execution keeps the keywords in order, under conditions on what it
\* writes and on its new state.
LEMMA KeywordStep ==
    ASSUME PipelineInv, KeywordsInv, NEW w \in Workers, NEW state, Go(w, state),
           plan' = plan, job' = job,
           KeywordsGrow(plan, rows, rows'), KeywordRowsOK(plan, rows'),
           KeywordRecordsOK(plan, state, rows'),
           state.pc = "complete" => Worded(plan, state.document, rows'),
           job = "running" /\ state.pc = "failing" => state.error # "conflict",
           \A d \in Targets : outcome'[d] = "completed" =>
               outcome[d] = "completed" \/ Worded(plan, d, rows')
    PROVE  KeywordsInv'
<1>1. ASSUME NEW d \in DOMAIN plan.documents, Whole(plan, d, rows), Worded(plan, d, rows)
      PROVE  Worded(plan, d, rows')
  <2> SUFFICES ASSUME NEW c \in Listing(plan, d), c.type # "parent"
               PROVE  rows'[c.id].keywords = Final(c)
    BY DEF Worded
  <2>1. c.id \in DOMAIN rows /\ rows[c.id].keywords = Final(c)
    BY <1>1 DEF Whole, Worded
  <2> QED BY <2>1 DEF KeywordsGrow
<1>2. ASSUME NEW v \in Workers, v # w
      PROVE  /\ KeywordRecordsOK(plan, work'[v], rows')
             /\ work'[v].pc = "complete" => Worded(plan, work'[v].document, rows')
             /\ job = "running" /\ work'[v].pc = "failing" => work'[v].error # "conflict"
  <2>1. work'[v] = work[v]
    BY <1>2, GoIs DEF PipelineInv
  <2>2. KeywordRecordsOK(plan, work[v], rows')
    <3> SUFFICES ASSUME work[v].pc \in Working, NEW i \in DOMAIN work[v].records
                 PROVE  LET c == Listed(plan, work[v].document)[i]
                        IN  /\ work[v].records[i].keywords \in {c.keywords, Final(c)}
                            /\ work[v].records[i].keywords # <<>> => rows'[c.id].keywords = Final(c)
      BY DEF KeywordRecordsOK
    <3> DEFINE c == Listed(plan, work[v].document)[i]
    <3>1. /\ work[v].records[i].keywords \in {c.keywords, Final(c)}
          /\ work[v].records[i].keywords # <<>> => rows[c.id].keywords = Final(c)
      BY DEF KeywordsInv, KeywordRecordsOK
    <3>2. /\ work[v].document \in DOMAIN plan.documents
          /\ RecordsOK(plan, work[v].document, work[v].records, rows)
      BY WorkIs
    <3>3. c \in Listing(plan, work[v].document) /\ c.id \in DOMAIN rows
      <4>1. i \in DOMAIN Listed(plan, work[v].document) /\ StagedAs(work[v].records[i], c)
            /\ work[v].records[i].id \in DOMAIN rows
        BY <3>2 DEF RecordsOK
      <4> QED BY <4>1, ListedIsListing DEF StagedAs
    <3> HIDE DEF c
    <3>4. work[v].records[i].keywords # <<>> => rows'[c.id].keywords = Final(c)
      BY <3>1, <3>2, <3>3 DEF KeywordsGrow
    <3> QED BY <3>1, <3>4 DEF c
  <2>3. work[v].pc = "complete" => Worded(plan, work[v].document, rows')
    <3> SUFFICES ASSUME work[v].pc = "complete" PROVE Worded(plan, work[v].document, rows')
      OBVIOUS
    <3>1. Whole(plan, work[v].document, rows) /\ work[v].document \in DOMAIN plan.documents
      BY ShapeOf DEF WorkerOK
    <3> QED BY <1>1, <3>1 DEF KeywordsInv
  <2> QED BY <2>1, <2>2, <2>3 DEF KeywordsInv
<1>3. work'[w] = state
  BY GoIs DEF PipelineInv
<1>4. \A d \in Targets : outcome'[d] = "completed" => Worded(plan, d, rows')
  <2>1. \A d \in Targets : outcome[d] = "completed" => Worded(plan, d, rows')
    BY <1>1 DEF PipelineInv, ClaimsOK, KeywordsInv, Targets
  <2> QED BY <2>1
<1> QED BY <1>2, <1>3, <1>4 DEF KeywordsInv, Targets

\* Keywords that do not change are in order.
LEMMA KeywordsAsTheyAre ==
    ASSUME PipelineInv, KeywordsInv
    PROVE  KeywordsGrow(plan, rows, rows) /\ KeywordRowsOK(plan, rows)
BY DEF KeywordsGrow, KeywordsInv

\* A step that writes no row, and settles no document.
LEMMA KeywordStepWithoutWrites ==
    ASSUME PipelineInv, KeywordsInv, NEW w \in Workers, NEW state, Go(w, state),
           plan' = plan, job' = job, rows' = rows,
           \A d \in Targets : outcome'[d] = "completed" =>
               outcome[d] = "completed" \/ Worded(plan, d, rows),
           KeywordRecordsOK(plan, state, rows), state.pc # "complete",
           job = "running" /\ state.pc = "failing" => state.error # "conflict"
    PROVE  KeywordsInv'
<1>1. KeywordsGrow(plan, rows, rows') /\ KeywordRowsOK(plan, rows')
  BY KeywordsAsTheyAre
<1> QED BY <1>1, KeywordStep

\* One that fails, and one that ends its execution.
LEMMA KeywordsOfFailure ==
    ASSUME PipelineInv, KeywordsInv, NEW w \in Workers, work[w].pc # "idle",
           NEW code, NEW retryable, FailWith(w, code, retryable),
           job = "running" => code # "conflict",
           plan' = plan, job' = job, rows' = rows, outcome' = outcome
    PROVE  KeywordsInv'
<1> DEFINE s == [Leave(w, "failing") EXCEPT !.error = code, !.retryable = retryable]
<1>1. Go(w, s)
  BY DEF FailWith
<1>2. s.pc = "failing" /\ s.error = code
  BY DEF Leave, Idle
<1> HIDE DEF s
<1>3. KeywordRecordsOK(plan, s, rows)
  BY <1>2 DEF KeywordRecordsOK, Working
<1> QED BY <1>1, <1>2, <1>3, KeywordStepWithoutWrites

\* One that ends its execution.
LEMMA KeywordsOfEnd ==
    ASSUME PipelineInv, KeywordsInv, NEW w \in Workers, Go(w, Idle),
           plan' = plan, job' = job, rows' = rows,
           \A d \in Targets : outcome'[d] = "completed" =>
               outcome[d] = "completed" \/ Worded(plan, d, rows)
    PROVE  KeywordsInv'
<1>1. Idle.pc = "idle" /\ KeywordRecordsOK(plan, Idle, rows)
  BY DEF Idle, KeywordRecordsOK, Working
<1> QED BY <1>1, KeywordStepWithoutWrites

\* One that goes on with the records it has.
LEMMA KeywordsOfContinuing ==
    ASSUME PipelineInv, KeywordsInv, NEW w \in Workers, NEW state, Go(w, state),
           work[w].pc \in Working, state.pc \in Working, state.records = work[w].records,
           state.document = work[w].document,
           plan' = plan, job' = job, rows' = rows, outcome' = outcome
    PROVE  KeywordsInv'
<1>1. KeywordRecordsOK(plan, state, rows)
  BY DEF KeywordsInv, KeywordRecordsOK
<1>2. state.pc # "complete" /\ state.pc # "failing"
  BY DEF Working
<1> QED BY <1>1, <1>2, KeywordStepWithoutWrites

----------------------------------------------------------------------------
\* What a retry finds is what it would stage.
LEMMA RetriesAreExact ==
    ASSUME PipelineInv, KeywordsInv, job = "running", NEW d \in DOMAIN plan.documents
    PROVE  ~Conflicts(Listed(plan, d), rows)
<1> SUFFICES ASSUME NEW i \in DOMAIN Listed(plan, d), Listed(plan, d)[i].id \in DOMAIN rows
             PROVE  ExactRetry(Listed(plan, d)[i], rows[Listed(plan, d)[i].id])
  BY DEF Conflicts
<1> DEFINE c == Listed(plan, d)[i]
           r == rows[c.id]
<1>1. plan \in Plans /\ RowsOK(plan, rows) /\ StatusOK(job, rows)
  BY DEF PipelineInv
<1>2. c \in Listing(plan, d)
  BY ListedIsListing
<1>3. StagedAs(r, c)
  <2> HIDE DEF c
  <2> QED BY <1>1, <1>2, RowOfCandidate DEF c
<1>4. r.keywords \in {c.keywords, Final(c)}
  <2> HIDE DEF c
  <2> QED BY <1>2 DEF KeywordsInv, KeywordRowsOK, c
<1>5. r.status = "indexing" /\ c.embedding \in {"waiting", "not_required"}
  <2>1. c.embedding \in {"waiting", "not_required"}
    <3> HIDE DEF c
    <3> QED BY <1>1, <1>2, ListingIs
  <2> QED BY <1>1, <2>1 DEF StatusOK
<1> HIDE DEF c, r
<1>6. ExactRetry(c, r)
  <2>1. c.keywords # <<>> => r.keywords = c.keywords
    BY <1>4 DEF Final
  <2>2. \A f \in {"document", "parent", "position", "content", "metadata", "type"} : c[f] = r[f]
    BY <1>3 DEF StagedAs
  <2>3. IF c.embedding = "waiting" THEN r.embedding \in {"waiting", "completed"}
        ELSE r.embedding = "not_required"
    BY <1>3, <1>5 DEF StagedAs
  <2> QED BY <1>3, <1>5, <2>1, <2>2, <2>3 DEF ExactRetry, StagedAs
<1> QED BY <1>6 DEF c, r

\* stage never finds a conflict while the job runs, and records the keywords of
\* the rows.
LEMMA StageKeywords ==
    ASSUME PipelineInv, KeywordsInv, NEW w \in Workers, Stage(w)
    PROVE  KeywordsInv'
<1> DEFINE d == work[w].document
           list == Listed(plan, d)
           new == InsertMissing(list, rows)
           records == [i \in DOMAIN list |-> new[list[i].id]]
<1>1. Candidates(d).list = list
  BY DEF Candidates, Listed
<1>2. /\ work[w].pc = "stage" /\ UNCHANGED <<plan, job, dimension, milvus, claims, deaths>>
      /\ \/ FailUnknown(w, "invalid_segments") /\ rows' = rows
         \/ Conflicts(list, rows) /\ FailUnknown(w, "conflict") /\ rows' = rows
         \/ /\ rows' = new
            /\ IF StagingError(records) # "none" THEN FailWith(w, StagingError(records), FALSE)
               ELSE Go(w, [work[w] EXCEPT !.pc = AfterStaging(records), !.records = records])
  <2> HIDE DEF list
  <2> QED BY <1>1 DEF Stage
<1>3. d \in DOMAIN plan.documents /\ plan \in Plans /\ RowsOK(plan, rows)
  BY <1>2, ShapeOf DEF PipelineInv
<1>4. plan' = plan /\ job' = job /\ outcome' = outcome
  BY <1>2 DEF claims
<1>5. CASE FailUnknown(w, "invalid_segments") /\ rows' = rows
  BY <1>2, <1>4, <1>5, KeywordsOfFailure DEF FailUnknown
<1>6. CASE Conflicts(list, rows) /\ FailUnknown(w, "conflict") /\ rows' = rows
  <2>1. job # "running"
    BY <1>3, <1>6, RetriesAreExact
  <2> QED BY <1>2, <1>4, <1>6, <2>1, KeywordsOfFailure DEF FailUnknown
<1>7. CASE /\ rows' = new
           /\ IF StagingError(records) # "none" THEN FailWith(w, StagingError(records), FALSE)
              ELSE Go(w, [work[w] EXCEPT !.pc = AfterStaging(records), !.records = records])
  <2>0. new = InsertMissing(Listed(plan, d), rows)
    OBVIOUS
  <2> HIDE DEF new, list
  <2>1. /\ DOMAIN new = DOMAIN rows \cup {c.id : c \in Listing(plan, d)}
        /\ \A id \in DOMAIN rows : new[id] = rows[id]
        /\ \A c \in Listing(plan, d) : c.id \notin DOMAIN rows => new[c.id] = Row(c)
    <3> HIDE DEF records, d
    <3> QED BY <1>3, <2>0, InsertedRows
  <2>2. KeywordsGrow(plan, rows, rows')
    BY <1>7, <2>1 DEF KeywordsGrow
  <2>3. KeywordRowsOK(plan, rows')
    <3> SUFFICES ASSUME NEW f \in DOMAIN plan.documents, NEW c \in Listing(plan, f),
                        c.id \in DOMAIN new
                 PROVE  new[c.id].keywords \in {c.keywords, Final(c)}
      BY <1>7 DEF KeywordRowsOK
    <3>1. CASE c.id \in DOMAIN rows
      BY <2>1, <3>1 DEF KeywordsInv, KeywordRowsOK
    <3>2. CASE c.id \notin DOMAIN rows
      <4>1. PICK e \in Listing(plan, d) : e.id = c.id
        BY <2>1, <3>2
      <4>2. e = c
        BY <1>3, <4>1, OneCandidate
      <4>3. new[c.id] = Row(c)
        BY <2>1, <3>2, <4>2
      <4>4. Row(c).keywords = c.keywords
        BY DEF Row
      <4> QED BY <4>3, <4>4
    <3> QED BY <3>1, <3>2
  <2>4. \A e \in Targets : outcome'[e] = "completed" => outcome[e] = "completed"
    BY <1>4
  <2>5. CASE StagingError(records) # "none"
    <3> DEFINE s == [Leave(w, "failing") EXCEPT !.error = StagingError(records),
                                                !.retryable = FALSE]
    <3>1. Go(w, s)
      BY <1>7, <2>5 DEF FailWith
    <3>2. s.pc = "failing" /\ s.error = StagingError(records)
      BY DEF Leave, Idle
    <3>3. StagingError(records) # "conflict"
      BY DEF StagingError
    <3> HIDE DEF s, records
    <3>4. KeywordRecordsOK(plan, s, rows')
      BY <3>2 DEF KeywordRecordsOK, Working
    <3> QED BY <1>4, <2>2, <2>3, <2>4, <3>1, <3>2, <3>3, <3>4, KeywordStep
  <2>6. CASE StagingError(records) = "none"
    <3> DEFINE s == [work[w] EXCEPT !.pc = AfterStaging(records), !.records = records]
    <3>1. Go(w, s)
      BY <1>7, <2>6
    <3>2. s.pc \in {"embed", "keywords"} /\ s.records = records /\ s.document = d
      <4> HIDE DEF records
      <4> QED BY ShapeOf, IdleFields DEF AfterStaging
    <3>3. KeywordRecordsOK(plan, s, rows')
      <4> SUFFICES ASSUME NEW i \in DOMAIN list
                   PROVE  /\ new[list[i].id].keywords \in {list[i].keywords, Final(list[i])}
                          /\ new[list[i].id].keywords # <<>> =>
                                 new[list[i].id].keywords = Final(list[i])
        <5> HIDE DEF s
        <5> QED BY <1>7, <3>2 DEF KeywordRecordsOK, list
      <4>1. list[i] \in Listing(plan, d)
        BY ListedIsListing DEF list
      <4>2. list[i].id \in DOMAIN new
        BY <2>1, <4>1
      <4>3. new[list[i].id].keywords \in {list[i].keywords, Final(list[i])}
        BY <1>3, <1>7, <2>3, <4>1, <4>2 DEF KeywordRowsOK
      <4> QED BY <4>3 DEF Final
    <3> HIDE DEF s, records
    <3> QED BY <1>4, <2>2, <2>3, <2>4, <3>1, <3>2, <3>3, KeywordStep
  <2> QED BY <2>5, <2>6
<1> QED BY <1>2, <1>5, <1>6, <1>7

\* The keywords of a prefix of the records are some of all.
LEMMA FirstTargetsAre ==
    ASSUME NEW records, DOMAIN records = 1 .. Len(records), Len(records) \in Nat,
           NEW n \in 0 .. Len(records)
    PROVE  FirstTargets(records, n) \subseteq KeywordTargets(records)
<1> DEFINE first == SubSeq(records, 1, n)
<1>1. n \in Nat /\ n <= Len(records)
  OBVIOUS
<1>2. \A i \in 1 .. n : records[i] \in ToSet(records)
  BY <1>1 DEF ToSet
<1>3. /\ first \in Seq(ToSet(records))
      /\ Len(first) = IF 1 <= n THEN n - 1 + 1 ELSE 0
      /\ \A i \in 1 .. n - 1 + 1 : first[i] = records[1 + i - 1]
  <2> HIDE DEF first
  <2>1. 1 \in Int /\ n \in Int
    BY <1>1
  <2> QED BY <1>2, <2>1, SubSeqProperties DEF first
<1>4. DOMAIN first = 1 .. Len(first)
  BY <1>3, LenProperties
<1> HIDE DEF first
<1>5. Len(first) = n
  BY <1>1, <1>3
<1>6. \A i \in DOMAIN first : i \in DOMAIN records /\ first[i] = records[i]
  BY <1>1, <1>3, <1>4, <1>5
<1>7. KeywordTargets(first) \subseteq KeywordTargets(records)
  BY <1>6 DEF KeywordTargets, Indexable
<1> QED BY <1>7 DEF FirstTargets, first

\* A record of an execution, and its candidate.
LEMMA RecordIs ==
    ASSUME PipelineInv, KeywordsInv, NEW w \in Workers, work[w].pc \in Working,
           NEW i \in DOMAIN work[w].records
    PROVE  LET d == work[w].document
               c == Listed(plan, d)[i]
               r == work[w].records[i]
           IN  /\ plan \in Plans /\ d \in DOMAIN plan.documents
               /\ i \in DOMAIN Listed(plan, d) /\ c \in Listing(plan, d)
               /\ StagedAs(r, c) /\ r.id = c.id /\ r.type = c.type /\ r.type \in ModeTypes(plan)
               /\ c.id \in DOMAIN rows /\ StagedAs(rows[c.id], c)
               /\ r.keywords \in {c.keywords, Final(c)}
               /\ r.keywords # <<>> => rows[c.id].keywords = Final(c)
<1> DEFINE d == work[w].document
           c == Listed(plan, d)[i]
           r == work[w].records[i]
<1>1. plan \in Plans /\ d \in DOMAIN plan.documents /\ RecordsOK(plan, d, work[w].records, rows)
  BY WorkIs
<1>2. /\ i \in DOMAIN Listed(plan, d) /\ StagedAs(r, c) /\ r.id \in DOMAIN rows
      /\ r.type \in ModeTypes(plan)
  BY <1>1 DEF RecordsOK
<1>3. c \in Listing(plan, d)
  BY <1>2, ListedIsListing
<1>4. r.keywords \in {c.keywords, Final(c)} /\ (r.keywords # <<>> => rows[c.id].keywords = Final(c))
  BY DEF KeywordsInv, KeywordRecordsOK
<1>5. r.id = c.id /\ r.type = c.type
  BY <1>2 DEF StagedAs
<1>6. StagedAs(rows[c.id], c)
  <2>1. RowsOK(plan, rows) /\ c.id \in DOMAIN rows
    BY <1>2, <1>5 DEF PipelineInv
  <2> HIDE DEF c, d
  <2> QED BY <1>1, <1>3, <2>1, RowOfCandidate
<1> HIDE DEF c, d, r
<1>7. /\ plan \in Plans /\ d \in DOMAIN plan.documents
      /\ i \in DOMAIN Listed(plan, d) /\ c \in Listing(plan, d)
      /\ StagedAs(r, c) /\ r.id = c.id /\ r.type = c.type /\ r.type \in ModeTypes(plan)
      /\ c.id \in DOMAIN rows /\ StagedAs(rows[c.id], c)
      /\ r.keywords \in {c.keywords, Final(c)}
      /\ r.keywords # <<>> => rows[c.id].keywords = Final(c)
  BY <1>1, <1>2, <1>3, <1>4, <1>5, <1>6
<1> QED BY <1>7 DEF c, d, r

\* What keywords are extracted for is a segment that brought none.
LEMMA TargetIs ==
    ASSUME PipelineInv, KeywordsInv, NoKeywordsInEconomy,
           NEW w \in Workers, work[w].pc = "keywords",
           NEW id \in KeywordTargets(work[w].records)
    PROVE  \E c \in Listing(plan, work[w].document) :
               /\ c.id = id /\ c.type # "parent" /\ c.type \in ModeTypes(plan)
               /\ c.keywords = <<>> /\ id \in DOMAIN rows /\ StagedAs(rows[id], c)
<1> DEFINE d == work[w].document
           records == work[w].records
<1>1. PICK i \in DOMAIN records :
          /\ records[i].id = id /\ records[i].type # "parent"
          /\ HighQuality => records[i].keywords = <<>>
  BY DEF KeywordTargets, Indexable
<1> DEFINE c == Listed(plan, d)[i]
           r == records[i]
<1>2. work[w].pc \in Working
  BY DEF Working
<1>3. /\ plan \in Plans /\ d \in DOMAIN plan.documents
      /\ i \in DOMAIN Listed(plan, d) /\ c \in Listing(plan, d)
      /\ r.id = c.id /\ r.type = c.type /\ r.type \in ModeTypes(plan)
      /\ c.id \in DOMAIN rows /\ StagedAs(rows[c.id], c)
      /\ r.keywords \in {c.keywords, Final(c)}
  BY <1>2, RecordIs
<1>4. c.keywords = <<>>
  <2>1. CASE HighQuality
    <3>1. r.keywords = <<>>
      BY <1>1, <2>1
    <3> HIDE DEF r, c
    <3> QED BY <1>3, <3>1 DEF Final
  <2>2. CASE ~HighQuality
    <3>1. plan.technique = "economy"
      BY <1>3, <2>2, PipelineAssumption DEF HighQuality
    <3>2. c.keywords = plan.documents[d].segments[i].keywords
          /\ i \in DOMAIN plan.documents[d].segments
      <4> HIDE DEF d
      <4> QED BY <1>3, ListedIs
    <3> HIDE DEF c, d
    <3> QED BY <1>3, <3>1, <3>2 DEF NoKeywordsInEconomy
  <2> QED BY <2>1, <2>2
<1>5. r.id = id /\ r.type # "parent"
  BY <1>1
<1> HIDE DEF c, d, r
<1>6. c \in Listing(plan, d) /\ c.id = id /\ c.type # "parent" /\ c.type \in ModeTypes(plan)
      /\ c.keywords = <<>> /\ id \in DOMAIN rows /\ StagedAs(rows[id], c)
  BY <1>3, <1>4, <1>5
<1> QED BY <1>6 DEF d

\* Keywords that are written are the final ones.
LEMMA WordsWritten ==
    ASSUME PipelineInv, KeywordsInv, NoKeywordsInEconomy,
           NEW w \in Workers, work[w].pc = "keywords",
           NEW ids, ids \subseteq KeywordTargets(work[w].records), NEW new,
           new = Changed([id \in ids |-> WithKeywords(rows[id])])
    PROVE  /\ KeywordsGrow(plan, rows, new) /\ KeywordRowsOK(plan, new)
           /\ ids \subseteq DOMAIN rows
           /\ \A c \in Listing(plan, work[w].document) :
                  c.id \in ids => new[c.id].keywords = Final(c)
<1> DEFINE d == work[w].document
<1>1. plan \in Plans /\ d \in DOMAIN plan.documents /\ RowsOK(plan, rows)
  BY ShapeOf DEF PipelineInv
<1>2. ids \subseteq DOMAIN rows
  BY TargetIs
<1>3. /\ DOMAIN new = DOMAIN rows
      /\ \A id \in DOMAIN rows : new[id] = IF id \in ids THEN WithKeywords(rows[id]) ELSE rows[id]
  BY <1>2, KeywordsWritten
<1>4. ASSUME NEW f \in DOMAIN plan.documents, NEW c \in Listing(plan, f), c.id \in ids
      PROVE  new[c.id].keywords = Final(c)
  <2>1. PICK e \in Listing(plan, d) :
            /\ e.id = c.id /\ e.keywords = <<>> /\ c.id \in DOMAIN rows
            /\ StagedAs(rows[c.id], e)
    BY <1>4, TargetIs
  <2>2. e = c
    <3> HIDE DEF d
    <3> QED BY <1>1, <2>1, OneCandidate
  <2>3. DOMAIN rows[c.id] = RowFields /\ rows[c.id].content = c.content
    BY <2>1, <2>2 DEF StagedAs
  <2>4. new[c.id] = WithKeywords(rows[c.id])
    BY <1>3, <1>4, <2>1
  <2>5. WithKeywords(rows[c.id]).keywords = Extract(c.content, KeywordLimit)
    BY <2>3 DEF WithKeywords, RowFields
  <2> QED BY <2>1, <2>2, <2>4, <2>5 DEF Final
<1>5. ASSUME NEW f \in DOMAIN plan.documents, NEW c \in Listing(plan, f), c.id \in DOMAIN rows
      PROVE  /\ c.id \in DOMAIN new
             /\ new[c.id].keywords \in {rows[c.id].keywords, Final(c)}
             /\ new[c.id].keywords \in {c.keywords, Final(c)}
  <2>1. rows[c.id].keywords \in {c.keywords, Final(c)}
    BY <1>5 DEF KeywordsInv, KeywordRowsOK
  <2>2. CASE c.id \in ids
    BY <1>3, <1>4, <1>5, <2>2
  <2>3. CASE c.id \notin ids
    BY <1>3, <1>5, <2>1, <2>3
  <2> QED BY <2>2, <2>3
<1>6. KeywordsGrow(plan, rows, new) /\ KeywordRowsOK(plan, new)
  BY <1>3, <1>5 DEF KeywordsGrow, KeywordRowsOK
<1> QED BY <1>1, <1>2, <1>4, <1>6

----------------------------------------------------------------------------
\* An execution without records says nothing of keywords.
LEMMA BeginKeywords ==
    ASSUME PipelineInv, KeywordsInv, NEW w \in Workers, NEW d \in Targets, Begin(w, d)
    PROVE  KeywordsInv'
<1> DEFINE s == [Idle EXCEPT !.pc = "read", !.document = d, !.seen = dimension,
                             !.dimension = dimension]
<1>1. Go(w, s) /\ plan' = plan /\ job' = job /\ rows' = rows /\ outcome' = outcome
  BY DEF Begin, stored
<1>2. s.pc = "read"
  BY DEF Idle
<1> HIDE DEF s
<1>3. KeywordRecordsOK(plan, s, rows) /\ s.pc # "complete" /\ s.pc # "failing"
  BY <1>2 DEF KeywordRecordsOK, Working
<1> QED BY <1>1, <1>3, KeywordStepWithoutWrites

\* Nor does one that reads its document,
LEMMA ReadDocumentKeywords ==
    ASSUME PipelineInv, KeywordsInv, NEW w \in Workers, ReadDocument(w)
    PROVE  KeywordsInv'
<1>1. /\ work[w].pc = "read" /\ plan' = plan /\ job' = job /\ rows' = rows /\ outcome' = outcome
  BY DEF ReadDocument, stored, claims
<1>2. CASE FailWith(w, "INDEX_COMMAND_INVALID", FALSE)
  BY <1>1, <1>2, KeywordsOfFailure
<1>3. CASE FailWith(w, "NO_EXTRACTABLE_TEXT", FALSE)
  BY <1>1, <1>3, KeywordsOfFailure
<1>4. CASE Continue(w, "stage")
  <2> DEFINE s == [work[w] EXCEPT !.pc = "stage"]
  <2>1. Go(w, s)
    BY <1>4 DEF Continue
  <2>2. s.pc = "stage"
    BY ShapeOf, IdleFields
  <2> HIDE DEF s
  <2>3. KeywordRecordsOK(plan, s, rows) /\ s.pc # "complete" /\ s.pc # "failing"
    BY <2>2 DEF KeywordRecordsOK, Working
  <2> QED BY <1>1, <2>1, <2>3, KeywordStepWithoutWrites
<1> QED BY <1>2, <1>3, <1>4 DEF ReadDocument

\* or fails to.
LEMMA ReadFailsKeywords ==
    ASSUME PipelineInv, KeywordsInv, NEW w \in Workers, ReadFails(w)
    PROVE  KeywordsInv'
<1>1. /\ work[w].pc = "read" /\ plan' = plan /\ job' = job /\ rows' = rows /\ outcome' = outcome
      /\ FailWith(w, "storage", TRUE)
  BY DEF ReadFails, stored, claims, FailUnknown
<1> QED BY <1>1, KeywordsOfFailure

\* The errors of the embedding client are its own.
LEMMA EmbedBatchKeywords ==
    ASSUME PipelineInv, KeywordsInv, NEW w \in Workers, EmbedBatch(w)
    PROVE  KeywordsInv'
<1>1. /\ work[w].pc = "embed" /\ plan' = plan /\ job' = job /\ rows' = rows /\ outcome' = outcome
  BY DEF EmbedBatch, stored, claims
<1>2. PICK texts, result : Exact(result, texts) /\ Answered(w, result)
  BY BatchIsExact
<1>3. result.error # "conflict"
  BY <1>2 DEF Exact, EmbedErrors
<1>4. CASE \/ FailWith(w, result.error, result.retryable)
           \/ FailWith(w, "EMBEDDING_DIMENSION_MISMATCH", FALSE)
  BY <1>1, <1>3, <1>4, KeywordsOfFailure
<1> DEFINE s == [work[w] EXCEPT
                    !.pc = IF work[w].dimension = Unknown THEN "resolve" ELSE "upsert",
                    !.dimension = result.dimension, !.vectors = result.vectors]
<1>5. CASE Go(w, s)
  <2>1. /\ s.pc \in {"resolve", "upsert"} /\ s.records = work[w].records
        /\ s.document = work[w].document
    BY ShapeOf, IdleFields
  <2> HIDE DEF s
  <2>2. s.pc \in Working /\ work[w].pc \in Working
    BY <1>1, <2>1 DEF Working
  <2> QED BY <1>1, <1>5, <2>1, <2>2, KeywordsOfContinuing
<1> QED BY <1>2, <1>4, <1>5 DEF Answered

\* resolve touches no row.
LEMMA ResolveKeywords ==
    ASSUME PipelineInv, KeywordsInv, NEW w \in Workers, Resolve(w)
    PROVE  KeywordsInv'
<1>1. /\ work[w].pc = "resolve" /\ plan' = plan /\ job' = job /\ rows' = rows
      /\ outcome' = outcome
  BY DEF Resolve, claims
<1>2. CASE FailWith(w, "EMBEDDING_DIMENSION_MISMATCH", FALSE)
  BY <1>1, <1>2, KeywordsOfFailure
<1> DEFINE s == [work[w] EXCEPT !.pc = "ensure", !.seen = work[w].dimension]
<1>3. CASE Go(w, s)
  <2>1. s.pc = "ensure" /\ s.records = work[w].records /\ s.document = work[w].document
    BY ShapeOf, IdleFields
  <2> HIDE DEF s
  <2>2. s.pc \in Working /\ work[w].pc \in Working
    BY <1>1, <2>1 DEF Working
  <2> QED BY <1>1, <1>3, <2>1, <2>2, KeywordsOfContinuing
<1> QED BY <1>2, <1>3 DEF Resolve

\* A step from one stage with records to another.
LEMMA ContinueKeywords ==
    ASSUME PipelineInv, KeywordsInv, NEW w \in Workers, work[w].pc \in Working,
           NEW pc \in Working, Continue(w, pc),
           plan' = plan, job' = job, rows' = rows, outcome' = outcome
    PROVE  KeywordsInv'
<1> DEFINE s == [work[w] EXCEPT !.pc = pc]
<1>1. s.pc = pc /\ s.records = work[w].records /\ s.document = work[w].document
  BY ShapeOf, IdleFields
<1>2. Go(w, s)
  BY DEF Continue
<1> HIDE DEF s
<1> QED BY <1>1, <1>2, KeywordsOfContinuing

\* Milvus touches no row either.
LEMMA VectorStoreKeywords ==
    ASSUME PipelineInv, KeywordsInv, NEW w \in Workers,
           EnsureCollection(w) \/ CreateCollection(w) \/ Upsert(w) \/ MilvusFails(w)
    PROVE  KeywordsInv'
<1>1. /\ work[w].pc \in {"ensure", "create", "upsert"}
      /\ plan' = plan /\ job' = job /\ rows' = rows /\ outcome' = outcome
  BY DEF EnsureCollection, CreateCollection, Upsert, MilvusFails, stored, claims
<1>2. {"ensure", "create", "upsert", "mark"} \subseteq Working /\ work[w].pc # "idle"
  BY <1>1 DEF Working
<1>3. ASSUME NEW pc \in {"create", "upsert", "mark"}, Continue(w, pc) PROVE KeywordsInv'
  BY <1>1, <1>2, <1>3, ContinueKeywords
<1>4. ASSUME NEW code \in {"VECTOR_SCHEMA_MISMATCH", "VECTOR_STORE_OPERATION_FAILED",
                           "VECTOR_INPUT_INVALID"}, FailUnknown(w, code)
      PROVE  KeywordsInv'
  BY <1>1, <1>2, <1>4, KeywordsOfFailure DEF FailUnknown
<1> QED BY <1>3, <1>4 DEF EnsureCollection, CreateCollection, Upsert, MilvusFails

\* While the job runs a batch can be marked.
LEMMA BatchIsMutable ==
    ASSUME PipelineInv, NEW w \in Workers, work[w].pc = "mark", job = "running"
    PROVE  Mutable(BatchIds(w), work[w].document, rows)
<1> SUFFICES ASSUME NEW id \in BatchIds(w)
             PROVE  id \in DOMAIN rows /\ rows[id].document = work[w].document
                    /\ rows[id].status = "indexing" /\ ~rows[id].deleted
  BY DEF Mutable
<1>1. work[w].pc \in Working
  BY DEF Working
<1>2. PICK i \in 1 .. Len(Batch(w)) : id = Batch(w)[i].id
  BY <1>1, BatchIdsAre
<1>3. id \in DOMAIN rows /\ rows[id].document = work[w].document
  BY <1>1, <1>2, BatchRowsAre
<1>4. rows[id].status = "indexing" /\ rows[id].deleted = FALSE
  BY <1>3 DEF PipelineInv, RowsOK, StatusOK, StagedAs
<1> QED BY <1>3, <1>4

\* Marks leave the keywords, and meet no conflict while the job runs.
LEMMA MarkEmbeddedKeywords ==
    ASSUME PipelineInv, KeywordsInv, NEW w \in Workers, MarkEmbedded(w)
    PROVE  KeywordsInv'
<1> DEFINE done == work[w].done + Len(Batch(w))
           new == [id \in BatchIds(w) |-> Embedding(rows[id])]
           pc == IF done = Len(Waiting(work[w].records)) THEN "keywords" ELSE "embed"
           s == [work[w] EXCEPT !.pc = pc, !.done = done, !.vectors = <<>>]
<1>1. /\ work[w].pc = "mark" /\ plan' = plan /\ job' = job /\ outcome' = outcome
  BY DEF MarkEmbedded, claims
<1>2. CASE /\ ~Mutable(BatchIds(w), work[w].document, rows)
           /\ FailUnknown(w, "conflict") /\ rows' = rows
  BY <1>1, <1>2, BatchIsMutable, KeywordsOfFailure DEF FailUnknown
<1>3. CASE /\ rows' = Changed(new)
           /\ IF work[w].interrupted THEN Go(w, Idle) ELSE Go(w, s)
  <2>1. BatchIds(w) \subseteq DOMAIN rows
    BY <1>1, BatchIsWritten
  <2>2. /\ DOMAIN rows' = DOMAIN rows
        /\ \A id \in DOMAIN rows :
               rows'[id] = IF id \in BatchIds(w) THEN Embedding(rows[id]) ELSE rows[id]
    <3>1. DOMAIN new = BatchIds(w) /\ \A id \in BatchIds(w) : new[id] = Embedding(rows[id])
      OBVIOUS
    <3> HIDE DEF new
    <3> QED BY <1>3, <2>1, <3>1, ChangedIs
  <2>3. ASSUME NEW id \in DOMAIN rows PROVE rows'[id].keywords = rows[id].keywords
    <3>1. DOMAIN rows[id] = RowFields
      BY FieldsOfRows DEF PipelineInv
    <3> QED BY <2>2, <3>1 DEF Embedding, RowFields
  <2>4. KeywordsGrow(plan, rows, rows') /\ KeywordRowsOK(plan, rows')
    BY <2>2, <2>3 DEF KeywordsGrow, KeywordRowsOK, KeywordsInv
  <2>5. CASE Go(w, Idle)
    <3>1. KeywordRecordsOK(plan, Idle, rows') /\ Idle.pc = "idle"
      BY DEF KeywordRecordsOK, Idle, Working
    <3> QED BY <1>1, <2>4, <2>5, <3>1, KeywordStep
  <2>6. CASE Go(w, s)
    <3>1. /\ s.pc \in {"keywords", "embed"} /\ s.records = work[w].records
          /\ s.document = work[w].document
      BY ShapeOf, IdleFields
    <3> HIDE DEF s
    <3>2. KeywordRecordsOK(plan, s, rows')
      <4> SUFFICES ASSUME NEW i \in DOMAIN work[w].records
                   PROVE  LET c == Listed(plan, work[w].document)[i]
                          IN  /\ work[w].records[i].keywords \in {c.keywords, Final(c)}
                              /\ work[w].records[i].keywords # <<>> =>
                                     rows'[c.id].keywords = Final(c)
        BY <3>1 DEF KeywordRecordsOK
      <4>1. work[w].pc \in Working
        BY <1>1 DEF Working
      <4> QED BY <2>3, <4>1, RecordIs
    <3> QED BY <1>1, <2>4, <2>6, <3>1, <3>2, KeywordStep
  <2> QED BY <1>3, <2>5, <2>6
<1> QED BY <1>2, <1>3 DEF MarkEmbedded

----------------------------------------------------------------------------
(* The end of an execution, and of the job.                                 *)

\* While the job runs the keywords of an execution can be saved.
LEMMA KeywordsAreTaken ==
    ASSUME PipelineInv, KeywordsInv, NoKeywordsInEconomy,
           NEW w \in Workers, work[w].pc = "keywords", job = "running"
    PROVE  TakeKeywords(KeywordTargets(work[w].records), work[w].document)
<1> DEFINE ids == KeywordTargets(work[w].records)
           d == work[w].document
<1>1. /\ plan \in Plans /\ d \in DOMAIN plan.documents /\ StatusOK(job, rows)
      /\ Whole(plan, d, rows)
  <2>1. /\ RecordsOK(plan, d, work[w].records, rows)
        /\ MarkedUpTo(work[w].records, Len(Waiting(work[w].records)), rows)
        /\ plan \in Plans /\ d \in DOMAIN plan.documents
    BY ShapeOf DEF WorkerOK, Working, PipelineInv
  <2>2. StatusOK(job, rows)
    BY DEF PipelineInv
  <2> HIDE DEF d
  <2> QED BY <2>1, <2>2, MarkedIsWhole
<1>2. ASSUME NEW id \in ids
      PROVE  /\ id \in DOMAIN rows /\ rows[id].document = d
             /\ rows[id].status = "indexing" /\ ~rows[id].deleted
             /\ TakesKeywords(rows[id])
  <2>1. PICK c \in Listing(plan, d) :
            /\ c.id = id /\ c.type # "parent" /\ c.type \in ModeTypes(plan)
            /\ id \in DOMAIN rows /\ StagedAs(rows[id], c)
    BY TargetIs
  <2> HIDE DEF d, ids
  <2>2. /\ c.document = d
        /\ c.embedding = IF c.type = "parent" \/ plan.technique = "economy"
                         THEN "not_required" ELSE "waiting"
    BY <1>1, ListingIs
  <2>3. /\ rows[id].document = d /\ rows[id].deleted = FALSE /\ rows[id].type = c.type
        /\ rows[id].embedding \in {c.embedding, "completed"}
        /\ rows[id].embedding = "completed" => c.embedding = "waiting"
    BY <2>1, <2>2 DEF StagedAs
  <2>4. rows[id].status = "indexing"
    BY <1>1, <2>1 DEF StatusOK
  <2>5. TakesKeywords(rows[id])
    <3>1. CASE plan.technique = "economy"
      <4>1. c.type = "general" /\ c.embedding = "not_required"
        BY <2>1, <2>2, <3>1 DEF ModeTypes
      <4> QED BY <2>3, <4>1 DEF TakesKeywords
    <3>2. CASE plan.technique # "economy"
      <4>1. c.type \in {"general", "child"}
        BY <2>1 DEF ModeTypes
      <4>2. rows[id].embedding = "completed"
        BY <1>1, <2>1, <2>2, <3>2 DEF Whole
      <4> QED BY <2>3, <4>1, <4>2 DEF TakesKeywords
    <3> QED BY <3>1, <3>2
  <2> QED BY <2>1, <2>3, <2>4, <2>5
<1> QED BY <1>2 DEF TakeKeywords, Mutable

\* update_keywords leaves all segments of the document with the final keywords.
LEMMA SaveKeywordsKeywords ==
    ASSUME PipelineInv, KeywordsInv, NoKeywordsInEconomy, NEW w \in Workers, SaveKeywords(w)
    PROVE  KeywordsInv'
<1> DEFINE records == work[w].records
           ids == KeywordTargets(records)
           d == work[w].document
<1>1. work[w].pc = "keywords" /\ plan' = plan /\ job' = job /\ outcome' = outcome
  BY DEF SaveKeywords, claims
<1>2. CASE /\ ~TakeKeywords(ids, d)
           /\ rows' = rows /\ FailUnknown(w, "conflict")
  BY <1>1, <1>2, KeywordsAreTaken, KeywordsOfFailure DEF FailUnknown
<1>3. CASE /\ Go(w, Leave(w, "complete"))
           /\ rows' = Changed([id \in ids |-> WithKeywords(rows[id])])
  <2> DEFINE s == Leave(w, "complete")
  <2>1. s.pc = "complete" /\ s.document = d
    BY DEF Leave, Idle
  <2>2. /\ KeywordsGrow(plan, rows, rows') /\ KeywordRowsOK(plan, rows')
        /\ \A c \in Listing(plan, d) : c.id \in ids => rows'[c.id].keywords = Final(c)
    <3> HIDE DEF ids
    <3> QED BY <1>1, <1>3, WordsWritten DEF ids
  <2>3. KeywordRecordsOK(plan, s, rows')
    BY <2>1 DEF KeywordRecordsOK, Working
  <2>4. Worded(plan, d, rows')
    <3> SUFFICES ASSUME NEW c \in Listing(plan, d), c.type # "parent"
                 PROVE  rows'[c.id].keywords = Final(c)
      BY DEF Worded
    <3>1. /\ plan \in Plans /\ d \in DOMAIN plan.documents
          /\ DOMAIN records = DOMAIN Listed(plan, d)
      BY <1>1, WorkIs DEF Working, RecordsOK
    <3>2. PICK i \in DOMAIN Listed(plan, d) : c = Listed(plan, d)[i]
      BY <3>1, ListingIs
    <3>3. /\ records[i].id = c.id /\ records[i].type = c.type /\ c.id \in DOMAIN rows
          /\ records[i].keywords # <<>> => rows[c.id].keywords = Final(c)
      BY <1>1, <3>1, <3>2, RecordIs DEF Working
    <3>4. i \in Indexable(records)
      BY <3>1, <3>2, <3>3 DEF Indexable
    <3>5. CASE c.id \in ids
      BY <2>2, <3>5
    <3>6. CASE c.id \notin ids
      <4>1. records[i].keywords # <<>>
        BY <3>3, <3>4, <3>6 DEF KeywordTargets
      <4> QED BY <2>2, <3>1, <3>3, <4>1 DEF KeywordsGrow
    <3> QED BY <3>5, <3>6
  <2> HIDE DEF s
  <2> QED BY <1>1, <1>3, <2>1, <2>2, <2>3, <2>4, KeywordStep DEF s
<1> QED BY <1>2, <1>3 DEF SaveKeywords

\* The document that is completed has its keywords.
LEMMA CompleteKeywords ==
    ASSUME PipelineInv, KeywordsInv, NEW w \in Workers, Complete(w)
    PROVE  KeywordsInv'
<1>1. /\ work[w].pc = "complete" /\ Go(w, Idle)
      /\ plan' = plan /\ job' = job /\ rows' = rows
      /\ outcome' \in {outcome, [outcome EXCEPT ![work[w].document] = "completed"]}
  BY DEF Complete, stored
<1>2. outcome \in [Targets -> {"open", "completed", "failed"}]
  BY DEF PipelineInv, ClaimsOK
<1>3. Worded(plan, work[w].document, rows)
  BY <1>1 DEF KeywordsInv
<1>4. \A d \in Targets : outcome'[d] = "completed" =>
          outcome[d] = "completed" \/ Worded(plan, d, rows)
  BY <1>1, <1>2, <1>3
<1> QED BY <1>1, <1>4, KeywordsOfEnd

\* fail_job_document completes no document.
LEMMA FailKeywords ==
    ASSUME PipelineInv, KeywordsInv, NEW w \in Workers, Fail(w)
    PROVE  KeywordsInv'
<1>1. /\ Go(w, Idle) /\ plan' = plan /\ job' = job /\ rows' = rows
      /\ outcome' \in {outcome, [outcome EXCEPT ![work[w].document] = "failed"]}
  BY DEF Fail, stored
<1>2. outcome \in [Targets -> {"open", "completed", "failed"}]
  BY DEF PipelineInv, ClaimsOK
<1>3. \A d \in Targets : outcome'[d] = "completed" => outcome[d] = "completed"
  BY <1>1, <1>2
<1> QED BY <1>1, <1>3, KeywordsOfEnd

\* A death changes no row.
LEMMA DieKeywords ==
    ASSUME PipelineInv, KeywordsInv, NEW w \in Workers, Die(w)
    PROVE  KeywordsInv'
<1>1. Go(w, Idle) /\ plan' = plan /\ job' = job /\ rows' = rows /\ outcome' = outcome
  BY DEF Die, stored, claims
<1> QED BY <1>1, KeywordsOfEnd

\* The keyword batches an interrupted execution has flushed are final.
LEMMA InterruptKeywords ==
    ASSUME PipelineInv, KeywordsInv, NoKeywordsInEconomy, NEW w \in Workers, Interrupt(w)
    PROVE  KeywordsInv'
<1>1. plan' = plan /\ job' = job /\ outcome' = outcome
  BY DEF Interrupt, claims
<1>2. CASE HeldBack(w)
  <2> DEFINE s == [work[w] EXCEPT !.interrupted = TRUE]
  <2>1. Go(w, s) /\ rows' = rows /\ work[w].pc \in Working
    BY <1>2 DEF Interrupt, HeldBack, Working
  <2>2. s.pc = work[w].pc /\ s.records = work[w].records /\ s.document = work[w].document
    BY ShapeOf, IdleFields
  <2> HIDE DEF s
  <2> QED BY <1>1, <2>1, <2>2, KeywordsOfContinuing
<1>3. CASE ~HeldBack(w)
  <2>1. PICK n \in FlushedKeywords(w) :
            rows' = Changed([id \in FirstTargets(work[w].records, n) |-> WithKeywords(rows[id])])
    BY <1>3 DEF Interrupt
  <2>2. Go(w, Idle)
    BY <1>3 DEF Interrupt
  <2> DEFINE ids == FirstTargets(work[w].records, n)
  <2>3. KeywordsGrow(plan, rows, rows') /\ KeywordRowsOK(plan, rows')
    <3>1. CASE work[w].pc = "keywords" /\ HighQuality
      <4>1. DOMAIN work[w].records = 1 .. Len(work[w].records) /\ Len(work[w].records) \in Nat
        BY <3>1, WorkIs DEF Working, RecordsOK
      <4>2. n \in 0 .. Len(work[w].records)
        BY <3>1 DEF FlushedKeywords
      <4>3. ids \subseteq KeywordTargets(work[w].records)
        BY <4>1, <4>2, FirstTargetsAre
      <4> HIDE DEF ids
      <4> QED BY <2>1, <3>1, <4>3, WordsWritten DEF ids
    <3>2. CASE ~(work[w].pc = "keywords" /\ HighQuality)
      <4>1. n = 0
        BY <3>2 DEF FlushedKeywords
      <4>2. SubSeq(work[w].records, 1, n) = <<>>
        BY <4>1, SubSeqEmpty
      <4>3. Indexable(<<>>) = {}
        BY DEF Indexable
      <4>4. ids = {}
        BY <4>2, <4>3 DEF FirstTargets, KeywordTargets
      <4>5. DOMAIN rows' = DOMAIN rows /\ \A id \in DOMAIN rows : rows'[id] = rows[id]
        BY <2>1, <4>4 DEF Changed
      <4> QED BY <4>5 DEF KeywordsGrow, KeywordRowsOK, KeywordsInv
    <3> QED BY <3>1, <3>2
  <2>4. KeywordRecordsOK(plan, Idle, rows') /\ Idle.pc = "idle"
    BY DEF KeywordRecordsOK, Idle, Working
  <2> QED BY <1>1, <2>2, <2>3, <2>4, KeywordStep
<1> QED BY <1>2, <1>3

\* finalize_indexing_job leaves the keywords.
LEMMA FinalizeKeywords ==
    ASSUME PipelineInv, KeywordsInv, Finalize
    PROVE  KeywordsInv'
<1>1. plan' = plan /\ work' = work /\ outcome' = outcome /\ job' # "running"
  BY DEF Finalize, claims
<1>2. DOMAIN rows' = DOMAIN rows /\ \A id \in DOMAIN rows : rows'[id].keywords = rows[id].keywords
  <2>1. CASE rows' = rows
    BY <2>1
  <2>2. CASE rows' = Changed([id \in DOMAIN rows |-> Served(rows[id])])
    <3>1. /\ DOMAIN rows' = DOMAIN rows
          /\ \A id \in DOMAIN rows : rows'[id] = [rows[id] EXCEPT !.status = "completed"]
      BY <2>2, ChangedIs DEF Served
    <3>2. \A id \in DOMAIN rows : DOMAIN rows[id] = RowFields
      BY FieldsOfRows DEF PipelineInv
    <3> QED BY <3>1, <3>2 DEF RowFields
  <2> QED BY <2>1, <2>2 DEF Finalize
<1>3. KeywordRowsOK(plan, rows')
  BY <1>2 DEF KeywordsInv, KeywordRowsOK
<1>4. ASSUME NEW d, d \in DOMAIN plan.documents, Whole(plan, d, rows), Worded(plan, d, rows)
      PROVE  Worded(plan, d, rows')
  BY <1>2, <1>4 DEF Whole, Worded
<1>5. ASSUME NEW w \in Workers
      PROVE  /\ KeywordRecordsOK(plan, work[w], rows')
             /\ work[w].pc = "complete" => Worded(plan, work[w].document, rows')
  <2>1. KeywordRecordsOK(plan, work[w], rows')
    <3> SUFFICES ASSUME work[w].pc \in Working, NEW i \in DOMAIN work[w].records
                 PROVE  LET c == Listed(plan, work[w].document)[i]
                        IN  /\ work[w].records[i].keywords \in {c.keywords, Final(c)}
                            /\ work[w].records[i].keywords # <<>> => rows'[c.id].keywords = Final(c)
      BY DEF KeywordRecordsOK
    <3> QED BY <1>2, RecordIs
  <2>2. work[w].pc = "complete" =>
            Whole(plan, work[w].document, rows) /\ work[w].document \in DOMAIN plan.documents
    BY ShapeOf DEF WorkerOK
  <2> QED BY <1>4, <2>1, <2>2 DEF KeywordsInv
<1>6. \A d \in Targets : outcome[d] = "completed" => Worded(plan, d, rows')
  BY <1>4 DEF PipelineInv, ClaimsOK, KeywordsInv, Targets
<1> QED BY <1>1, <1>3, <1>5, <1>6 DEF KeywordsInv, Targets

\* A job begins without keywords.
LEMMA InitKeywords ==
    ASSUME Init
    PROVE  KeywordsInv
<1>1. rows = <<>> /\ DOMAIN rows = {} /\ \A w \in Workers : work[w] = Idle
  BY DEF Init
<1>2. \A d \in Targets : outcome[d] # "completed"
  BY DEF Init
<1> QED BY <1>1, <1>2 DEF KeywordsInv, KeywordRowsOK, KeywordRecordsOK, Idle, Working

\* Every step keeps the keywords in order.
LEMMA NextKeywords ==
    ASSUME PipelineInv, KeywordsInv, NoKeywordsInEconomy, [Next]_vars
    PROVE  KeywordsInv'
<1>1. CASE Finalize
  BY <1>1, FinalizeKeywords
<1>2. ASSUME NEW w \in Workers, Step(w) PROVE KeywordsInv'
  BY <1>2, ReadDocumentKeywords, StageKeywords, EmbedBatchKeywords, ResolveKeywords,
     VectorStoreKeywords, MarkEmbeddedKeywords, SaveKeywordsKeywords, CompleteKeywords,
     FailKeywords DEF Step
<1>3. ASSUME NEW w \in Workers, Fault(w) PROVE KeywordsInv'
  BY <1>3, ReadFailsKeywords, VectorStoreKeywords, DieKeywords, InterruptKeywords DEF Fault
<1>4. ASSUME NEW w \in Workers, NEW d \in Targets, Begin(w, d) PROVE KeywordsInv'
  BY <1>4, BeginKeywords
<1>5. CASE UNCHANGED vars
  BY <1>5 DEF vars, stored, claims, KeywordsInv, Targets
<1> QED BY <1>1, <1>2, <1>3, <1>4, <1>5 DEF Next

\* The inductive invariant of the keywords, on top of PipelineInv.
THEOREM KeywordsInvariant ==
    ASSUME NoKeywordsInEconomy
    PROVE  Spec => []KeywordsInv
<1>1. Init => KeywordsInv
  BY InitKeywords
<1>2. PipelineInv /\ KeywordsInv /\ [Next]_vars => KeywordsInv'
  BY NextKeywords
<1> QED BY <1>1, <1>2, PipelineInvariant, PTL DEF Spec

\* While the job runs no attempt finds the rows of an earlier one in its way,
\* unless an editor gives keywords to a segment of an economy index (runs
\* SegmentPipeline and, for the condition, SegmentPipelineEdited).
THEOREM RetriesFindTheirSegments ==
    ASSUME NoKeywordsInEconomy
    PROVE  Spec => []RetryFindsItsSegments
<1>1. KeywordsInv => RetryFindsItsSegments
  BY DEF KeywordsInv, RetryFindsItsSegments
<1> QED BY <1>1, KeywordsInvariant, PTL

\* The rows of a document that is whole and worded are those of its segments.
LEMMA WholeDocument ==
    ASSUME PipelineInv, NEW d \in Targets, Whole(plan, d, rows), Worded(plan, d, rows)
    PROVE  LET list == Candidates(d).list
               mine == {id \in DOMAIN rows : rows[id].document = d}
           IN  /\ mine = {list[i].id : i \in DOMAIN list}
               /\ \A i \in DOMAIN list :
                      LET row == rows[list[i].id] IN
                      /\ ToSet(row.parent) \subseteq mine
                      /\ row.type # "parent" =>
                             /\ row.embedding # "waiting"
                             /\ row.keywords = IF list[i].keywords # <<>> THEN list[i].keywords
                                               ELSE Extract(row.content, KeywordLimit)
<1> DEFINE list == Listed(plan, d)
           mine == {id \in DOMAIN rows : rows[id].document = d}
<1>1. Candidates(d).list = list
  BY DEF Candidates, Listed
<1>2. plan \in Plans /\ d \in DOMAIN plan.documents /\ RowsOK(plan, rows)
  BY DEF PipelineInv, Targets
<1>3. ASSUME NEW c \in Listing(plan, d)
      PROVE  /\ c.id \in mine /\ StagedAs(rows[c.id], c)
             /\ c.embedding = IF c.type = "parent" \/ plan.technique = "economy"
                              THEN "not_required" ELSE "waiting"
             /\ c.embedding = "waiting" => rows[c.id].embedding = "completed"
  <2>1. c.id \in DOMAIN rows /\ (c.embedding = "waiting" => rows[c.id].embedding = "completed")
    BY DEF Whole
  <2>2. StagedAs(rows[c.id], c)
    BY <1>2, <2>1, RowOfCandidate
  <2>3. /\ c.document = d
        /\ c.embedding = IF c.type = "parent" \/ plan.technique = "economy"
                         THEN "not_required" ELSE "waiting"
    BY <1>2, ListingIs
  <2> QED BY <2>1, <2>2, <2>3 DEF StagedAs
<1>4. mine = {c.id : c \in Listing(plan, d)}
  <2>1. ASSUME NEW id \in mine PROVE \E c \in Listing(plan, d) : c.id = id
    <3>1. PICK f \in DOMAIN plan.documents :
              \E c \in Listing(plan, f) : c.id = id /\ StagedAs(rows[id], c)
      BY <1>2 DEF RowsOK
    <3>2. PICK c \in Listing(plan, f) : c.id = id /\ StagedAs(rows[id], c)
      BY <3>1
    <3>3. f = d
      <4>1. c.document = f
        BY <1>2, ListingIs
      <4> QED BY <3>2, <4>1 DEF StagedAs
    <3> QED BY <3>2, <3>3
  <2> HIDE DEF mine
  <2> QED BY <1>3, <2>1
<1>5. mine = {list[i].id : i \in DOMAIN list}
  <2>1. \A c \in Listing(plan, d) : \E i \in DOMAIN list : c = list[i]
    BY <1>2, ListingIs
  <2>2. \A i \in DOMAIN list : list[i] \in Listing(plan, d)
    BY ListedIsListing
  <2> HIDE DEF mine, list
  <2> QED BY <1>4, <2>1, <2>2
<1>6. ASSUME NEW i \in DOMAIN list
      PROVE  LET row == rows[list[i].id] IN
             /\ ToSet(row.parent) \subseteq mine
             /\ row.type # "parent" =>
                    /\ row.embedding # "waiting"
                    /\ row.keywords = IF list[i].keywords # <<>> THEN list[i].keywords
                                      ELSE Extract(row.content, KeywordLimit)
  <2> DEFINE c == list[i]
             row == rows[c.id]
  <2>1. c \in Listing(plan, d)
    BY ListedIsListing
  <2> HIDE DEF c, list
  <2>2. /\ StagedAs(row, c)
        /\ c.embedding = "waiting" => row.embedding = "completed"
        /\ c.embedding \in {"not_required", "waiting"}
    <3> HIDE DEF mine
    <3> QED BY <1>3, <2>1
  <2>3. \A id \in ToSet(c.parent) : \E e \in Listing(plan, d) : e.id = id
    BY <1>2, <2>1, ListingIs
  <2>4. ToSet(row.parent) \subseteq mine
    <3>1. row.parent = c.parent
      BY <2>2 DEF StagedAs
    <3> HIDE DEF mine, row
    <3> QED BY <1>4, <2>3, <3>1
  <2>5. row.type # "parent" => row.keywords = Final(c)
    <3>1. row.type = c.type
      BY <2>2 DEF StagedAs
    <3> QED BY <2>1, <3>1 DEF Worded
  <2>6. row.embedding # "waiting" /\ row.content = c.content
    BY <2>2 DEF StagedAs
  <2> HIDE DEF row, mine
  <2> QED BY <2>4, <2>5, <2>6 DEF Final, c, row
<1> HIDE DEF list, mine
<1> QED BY <1>1, <1>5, <1>6 DEF mine

\* A completed document has exactly the rows of its segments, embedded and with
\* their keywords, whatever its attempts left half done (run SegmentPipeline).
THEOREM CompletedDocumentsAreWhole ==
    ASSUME NoKeywordsInEconomy
    PROVE  Spec => []CompletedIsWhole
<1>1. PipelineInv /\ KeywordsInv => CompletedIsWhole
  <2> SUFFICES ASSUME PipelineInv, KeywordsInv PROVE CompletedIsWhole
    OBVIOUS
  <2>1. \A d \in Targets : outcome[d] = "completed" =>
            Whole(plan, d, rows) /\ Worded(plan, d, rows)
    BY DEF PipelineInv, ClaimsOK, KeywordsInv
  <2> QED BY <2>1, WholeDocument DEF CompletedIsWhole
<1> QED BY <1>1, PipelineInvariant, KeywordsInvariant, PTL
===============================================================================
