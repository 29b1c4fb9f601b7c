------------------------------- MODULE Retrieval -------------------------------
(***************************************************************************)
(* RetrievalService.retrieve between its queries: what the vector store    *)
(* and the keyword query found is filtered by the rows the database still  *)
(* serves, scored, sorted, collapsed to contexts and cut.                  *)
(*                                                                         *)
(* Similarities are in tenths, a keyword score is the number of tokens a   *)
(* segment shares with the query, weights and thresholds are in tenths, so *)
(* that every comparison is one of integers.  The reranker is never        *)
(* configured by the API, and graph retrieval belongs to another store.    *)
(***************************************************************************)
EXTENDS Integers, FiniteSets, SequencesExt, FiniteSetsExt

OverFetch == 4   \* hits asked for per item wanted

\* Ids are sequences of numbers of one length: their order is some total one.
IdLess(a, b) == \E i \in DOMAIN a : a[i] < b[i] /\ \A k \in 1..(i - 1) : a[k] = b[k]

SemanticModes == {"vector", "hybrid"}
KeywordModes == {"full_text", "hybrid"}

\* Mutant of HitLimit: as many hits as items.
HitLimitTopK(topK) == topK

\* How many hits are asked for.
HitLimit(topK) == OverFetch * topK

\* How many ids have a higher score, or the same and come first.
Rank(scores, id) ==
    Cardinality({x \in DOMAIN scores :
                    scores[x] > scores[id] \/ (scores[x] = scores[id] /\ IdLess(x, id))})
Ranked(scores) ==
    [i \in 1..Cardinality(DOMAIN scores) |->
        CHOOSE id \in DOMAIN scores : Rank(scores, id) = i - 1]

\* The hits of a vector search: the nearest of the entities of one index.
Nearest(similarities, limit) ==
    {id \in DOMAIN similarities : Rank(similarities, id) < limit}

\* max(..., default=1.0) or 1.0
Highest(scores) == IF scores \subseteq {0} THEN 1 ELSE Max(scores)

(***************************************************************************)
(* semantic and keyword map what was found to its scores.  The maxima are  *)
(* those of everything found, of rows that are not served as well.         *)
(***************************************************************************)
ScoreOf(scores, id) == IF id \in DOMAIN scores THEN scores[id] ELSE 0
BestOf(scores) == Highest({scores[id] : id \in DOMAIN scores})

Score(query, semantic, keyword, id) ==
    LET s == ScoreOf(semantic, id)
        k == ScoreOf(keyword, id)
    IN  CASE query.mode = "vector"    -> 10 * s
          [] query.mode = "full_text" -> 100 * k
          [] query.mode = "hybrid"    -> 10 * (query.semantic * s * BestOf(keyword)
                                               + query.keyword * k * BestOf(semantic))

Threshold(query, semantic, keyword) ==
    CASE query.mode = "vector"    -> 10 * query.threshold
      [] query.mode = "full_text" -> 10 * query.threshold * BestOf(keyword)
      [] query.mode = "hybrid"    -> 10 * query.threshold * BestOf(keyword) * BestOf(semantic)

Found(semantic, keyword) == DOMAIN semantic \cup DOMAIN keyword

Candidates(query, semantic, keyword, rows) ==
    LET Of(id) == Score(query, semantic, keyword, id)
        kept == {id \in Found(semantic, keyword) \cap rows :
                     Of(id) >= Threshold(query, semantic, keyword)}
    IN  Ranked([id \in kept |-> Of(id)])

\* The context of a hit: its parent's text if the parent was found.
Context(id, parent, parents) == IF parent \in parents THEN parent ELSE id

\* A candidate becomes an item if there is room, and none of its context yet.
Offered(items, id, context, topK) ==
    IF Len(items) = topK \/ \E i \in DOMAIN items : items[i].context = context
    THEN items
    ELSE Append(items, [segment |-> id, context |-> context])

\* The first candidate of each context, topK of them.
Items(candidates, contexts, topK) ==
    LET upTo[n \in 0..Len(candidates)] ==
            IF n = 0 THEN <<>>
            ELSE Offered(upTo[n - 1], candidates[n], contexts[candidates[n]], topK)
    IN  upTo[Len(candidates)]
================================================================================
