----------------------- MODULE SegmentPipelineProperties -----------------------
(***************************************************************************)
(* What the pipeline of SegmentPipeline must not get wrong.                *)
(***************************************************************************)
EXTENDS SegmentPipeline

\* The type invariant: the rows, the vectors and the executions have the shape
\* their readers expect, rows and vectors are kept under their own ids, and
\* what an execution embeds next is a part of what it staged.
PipelineTypeOK ==
    /\ job \in {"running", "completed", "failed"}
    /\ dimension \in Nat /\ collection \in Nat /\ deaths \in 0..MaxDeaths
    /\ outcome \in [Targets -> {"open", "completed", "failed"}]
    /\ attempts \in [Targets -> 0..MaxAttempts]
    /\ owner \in [Targets -> Workers \cup {NoWorker}]
    /\ \A id \in DOMAIN rows :
           /\ rows[id].id = id /\ rows[id].document \in Targets
           /\ rows[id].embedding \in {"waiting", "completed", "not_required"}
           /\ rows[id].status \in {"indexing", "completed"}
    /\ \A id \in DOMAIN entities : entities[id].document \in Targets
    /\ unrecorded \subseteq DOMAIN entities
    /\ \A w \in Workers :
           /\ work[w].pc \in Stages
           /\ work[w].done <= Len(Waiting(work[w].records))
           /\ BatchIds(w) \subseteq DOMAIN rows
           /\ work[w].pc \in {"upsert", "mark"} => Len(work[w].vectors) = Len(Batch(w))

\* A row that says it is embedded has, in the collection, the vector of exactly
\* its own text, of the dimension of the collection, under its own document,
\* parent and position: whatever the service answered in which order, and in
\* however many parts (embed, _parse_response, upsert, mark_embeddings_completed).
MarkedHaveTheirVectors ==
    \A id \in DOMAIN rows :
        rows[id].embedding = "completed" =>
            /\ id \in DOMAIN entities
            /\ entities[id] = Entity(rows[id], Vector(rows[id].content, collection))

\* A vector whose row does not say so belongs to a batch on its way, or to one
\* whose process died or whose write failed in between; the cancellation of a
\* task never leaves one (_run_sync_deferred_cancellation).
UnmarkedVectorsAreCaused ==
    \A id \in DOMAIN entities :
        \/ id \in DOMAIN rows /\ rows[id].embedding = "completed"
        \/ id \in unrecorded
        \/ \E w \in Workers : work[w].pc = "mark" /\ id \in BatchIds(w)

\* A completed document has exactly the rows of its segments, whatever its
\* attempts left half done: each indexable one embedded or needing none, each
\* child with the row of its parent, and with the keywords an editor gave it or
\* those of its text (run and what it calls).
CompletedIsWhole ==
    \A d \in Targets : outcome[d] = "completed" =>
        LET list == Candidates(d).list
            mine == {id \in DOMAIN rows : rows[id].document = d}
        IN  /\ mine = {list[i].id : i \in DOMAIN list}
            /\ \A i \in DOMAIN list :
                   LET row == rows[list[i].id] IN
                   /\ ToSet(row.parent) \subseteq mine
                   /\ row.type # "parent" =>
                          /\ row.embedding # "waiting"
                          /\ row.keywords = IF list[i].keywords # <<>> THEN list[i].keywords
                                            ELSE Extract(row.content, KeywordLimit)

\* While the job runs, no attempt finds the rows of an earlier
\* one, or of another execution of the document, in its way (stage: a retry
\* returns the records that are there).
RetryFindsItsSegments ==
    job = "running" =>
        \A w \in Workers : work[w].pc = "failing" => work[w].error # "conflict"

NeedsVector(id) == rows[id].embedding # "not_required"

Store == INSTANCE VectorBackedSegments WITH
    staged <- {id \in DOMAIN rows : NeedsVector(id)},
    written <- DOMAIN entities,
    embedded <- {id \in DOMAIN rows : rows[id].embedding = "completed"},
    served <- job = "completed"

\* The pipeline keeps the promise of VectorBackedSegments: marks follow writes,
\* and what is served has every vector and gets no segment afterwards, also
\* from executions that outlive their lease.
StoreSpec == Store!Spec
================================================================================
