------------------------------- MODULE Embedding -------------------------------
(***************************************************************************)
(* The OpenAI compatible embedding client: a call embeds a sequence of     *)
(* texts in batches, halves a batch the service finds too large, repeats a *)
(* request that failed for a while, and puts the vectors of an answer in   *)
(* the order of the texts.  The vector of a text is the text and the       *)
(* number of its components.                                               *)
(***************************************************************************)
EXTENDS Integers, Sequences, SequencesExt, FiniteSetsExt

CONSTANTS MaxRetries,        \* embedding.max_retries
          ModelBatch,        \* batch_size of the model
          MaxInput           \* max_input_characters of the model

ASSUME EmbeddingAssumption ==
    /\ MaxRetries \in Nat /\ ModelBatch \in Nat \ {0} /\ MaxInput \in Nat \ {0}

(***************************************************************************)
(* The service (external): how many texts a request may have, how many     *)
(* times in a row it is unavailable, how it refuses, in which order it     *)
(* answers, the dimension of its vectors, and what is wrong in its answer. *)
(***************************************************************************)
Services ==
    [accepts : Nat, unavailable : Nat, refuses : {"no", "auth", "other"},
     order : {"same", "reversed"}, dimension : Nat \ {0}, fault : {"none", "twice", "short", "mixed"}]

Vector(text, dimension) == [of |-> text, dimension |-> dimension]

Answer(service, texts) ==
    LET n == Len(texts)
        Item(i) == [index |-> IF service.fault = "twice" THEN 0 ELSE i - 1,
                    vector |-> Vector(texts[i], IF service.fault = "mixed" /\ i = 1
                                                THEN service.dimension + 1
                                                ELSE service.dimension)]
        items == [i \in 1..(IF service.fault = "short" THEN n - 1 ELSE n) |-> Item(i)]
    IN  IF service.order = "reversed" THEN Reverse(items) ELSE items

Embedded(vectors, dimension) ==
    [error |-> "none", retryable |-> FALSE, vectors |-> vectors, dimension |-> dimension]
NotEmbedded(code, retryable) ==
    [error |-> code, retryable |-> retryable, vectors |-> <<>>, dimension |-> 0]

\* Mutant of ParseResponse: the items are taken in the order of the answer.
ParseInOrderOfAnswer(data, n) ==
    IF Len(data) # n THEN NotEmbedded("EMBEDDING_RESPONSE_INVALID", FALSE)
    ELSE Embedded([i \in 1..n |-> data[i].vector], data[1].vector.dimension)

\* _parse_response: the items are taken one after the other, so that the first
\* faulty one decides on the error.
ParseResponse(data, n) ==
    LET Twice(i) == \E j \in 1 .. i - 1 : data[j].index = data[i].index
        Mixed(i) == data[i].vector.dimension # data[1].vector.dimension
        faulty == {i \in DOMAIN data : Twice(i) \/ Mixed(i)}
        ordered == [k \in 1..n |-> data[CHOOSE i \in DOMAIN data : data[i].index = k - 1].vector]
    IN  IF Len(data) # n THEN NotEmbedded("EMBEDDING_RESPONSE_INVALID", FALSE)
        ELSE IF faulty = {} THEN Embedded(ordered, data[1].vector.dimension)
        ELSE NotEmbedded(IF Twice(Min(faulty)) THEN "EMBEDDING_RESPONSE_INVALID"
                         ELSE "EMBEDDING_DIMENSION_MISMATCH", FALSE)

\* _request_batch, its attempts at once.
RequestBatch(service, texts) ==
    IF service.unavailable > MaxRetries THEN NotEmbedded("EMBEDDING_REQUEST_FAILED", TRUE)
    ELSE IF Len(texts) > service.accepts THEN NotEmbedded("too_large", FALSE)
    ELSE IF service.refuses = "auth" THEN NotEmbedded("EMBEDDING_AUTH_FAILED", FALSE)
    ELSE IF service.refuses = "other" THEN NotEmbedded("EMBEDDING_REQUEST_FAILED", FALSE)
    ELSE ParseResponse(Answer(service, texts), Len(texts))

\* Mutant of Join: the vectors of the second part replace those of the first.
JoinKeepsLast(left, right) == IF left.error # "none" THEN left ELSE right

\* The vectors of one part after those of the part before it.
Join(left, right) ==
    IF left.error # "none" THEN left
    ELSE IF right.error # "none" THEN right
    ELSE IF left.dimension # right.dimension
    THEN NotEmbedded("EMBEDDING_DIMENSION_MISMATCH", FALSE)
    ELSE Embedded(left.vectors \o right.vectors, left.dimension)

\* _embed_batch_adaptive, over the part from the a-th to the b-th text.
EmbedAdaptive(service, texts) ==
    LET part[range \in (DOMAIN texts) \X (DOMAIN texts)] ==
            LET a == range[1]
                b == range[2]
                result == RequestBatch(service, SubSeq(texts, a, b))
                middle == a + ((b - a + 1) \div 2) - 1
            IN  IF result.error # "too_large" THEN result
                ELSE IF a = b THEN NotEmbedded("EMBEDDING_REQUEST_FAILED", FALSE)
                ELSE Join(part[<<a, middle>>], part[<<middle + 1, b>>])
    IN  part[<<1, Len(texts)>>]

\* _validate_texts, from the lengths of the texts, 0 for a blank one.
ValidTexts(sizes) == sizes # <<>> /\ \A i \in DOMAIN sizes : sizes[i] \in 1..MaxInput

\* embed
Embed(service, known, texts, sizes) ==
    LET batches == (Len(texts) + ModelBatch - 1) \div ModelBatch
        Batch(i) == SubSeq(texts, (i - 1) * ModelBatch + 1, Min({i * ModelBatch, Len(texts)}))
        upTo[i \in 1..batches] ==
            LET result == EmbedAdaptive(service, Batch(i))
            IN  IF i = 1 THEN result ELSE Join(upTo[i - 1], result)
    IN  IF ~known THEN NotEmbedded("EMBEDDING_MODEL_UNAVAILABLE", FALSE)
        ELSE IF ~ValidTexts(sizes) THEN NotEmbedded("EMBEDDING_INPUT_INVALID", FALSE)
        ELSE upTo[batches]
================================================================================
