---------------------------- MODULE SegmentPipeline ----------------------------
(***************************************************************************)
(* DocumentIndexingEngine.run over the documents of one job: the           *)
(* executions of several documents, and of one document twice once a lease *)
(* has expired, stage segments in the database, discover the dimension of  *)
(* the index, create its collection, and write vectors and keywords.       *)
(*                                                                         *)
(* The database keeps what a heartbeat has committed; Milvus keeps every   *)
(* write.  An execution may die between any two steps.  A failing database *)
(* ends it the same way: the transaction of its session is aborted, so     *)
(* that fail_job_document fails too and the row stays running.             *)
(***************************************************************************)
EXTENDS Embedding, SegmentStaging

CONSTANTS Workers, NoWorker, Documents,
          Plans,           \* the jobs: [technique, mode, full, namespace, model_known, documents]
          Providers,       \* what the embedding service may do in a call
          BatchSize,       \* the smallest of the three batch sizes
          KeywordLimit, MaxAttempts,
          MaxDeaths        \* bound on crashes and interruptions

ASSUME PipelineAssumption ==
    /\ NoWorker \notin Workers
    /\ Providers \subseteq Services
    /\ {BatchSize, KeywordLimit, MaxAttempts} \subseteq Nat \ {0} /\ MaxDeaths \in Nat
    /\ \A p \in Plans :
           /\ p.technique \in {"high_quality", "economy"} /\ p.mode \in {"general", "parent_child"}
           /\ DOMAIN p.documents \subseteq Documents
           /\ \A d \in DOMAIN p.documents :
                  p.documents[d].segments \in Seq(ToSet(p.documents[d].segments))

VARIABLES plan,
          job,          \* "running", or what finalize_indexing_job made of the job
          dimension,    \* embedding_dimension of the index the job writes to; 0 is unknown
          rows,         \* document_segments: ids to rows
          collection,   \* the dimension of the Milvus collection, 0 while there is none
          entities,     \* what the collection holds: ids to [vector, document, parent, position]
          outcome,      \* of a job document: "open", "completed", "failed"
          attempts,     \* its claims
          owner,        \* the worker that claimed it last
          work,         \* the executions
          deaths,
          unrecorded    \* history: ids written by an upsert that was not followed by its mark

vars == <<plan, job, dimension, rows, collection, entities, outcome, attempts, owner, work, deaths,
          unrecorded>>
stored == <<job, dimension, rows>>
milvus == <<collection, entities, unrecorded>>
claims == <<outcome, attempts, owner>>

Unknown == 0
Idle == [pc |-> "idle", document |-> "none", seen |-> Unknown, dimension |-> Unknown,
         records |-> <<>>, done |-> 0, vectors |-> <<>>, error |-> "none",
         retryable |-> FALSE, interrupted |-> FALSE]
Stages == {"idle", "read", "stage", "embed", "resolve", "ensure", "create", "upsert", "mark",
           "keywords", "complete", "failing"}

HighQuality == plan.technique = "high_quality"
Targets == DOMAIN plan.documents

\* An incremental job writes to the active index; the segments other jobs have
\* there, and their vectors, have other ids and are left out.
ActiveDimension == 2

Init ==
    /\ plan \in Plans
    /\ job = "running"
    /\ dimension = IF plan.full \/ ~HighQuality THEN Unknown ELSE ActiveDimension
    /\ collection = dimension
    /\ rows = <<>> /\ entities = <<>>
    /\ outcome = [d \in Targets |-> "open"]
    /\ attempts = [d \in Targets |-> 0]
    /\ owner = [d \in Targets |-> NoWorker]
    /\ work = [w \in Workers |-> Idle]
    /\ deaths = 0 /\ unrecorded = {}

Source(w) == plan.documents[work[w].document]

Go(w, state) == work' = [work EXCEPT ![w] = state]
Continue(w, pc) == Go(w, [work[w] EXCEPT !.pc = pc])

\* What the engine worked with is not looked at again.
Leave(w, pc) == [Idle EXCEPT !.pc = pc, !.document = work[w].document]
FailWith(w, code, retryable) ==
    Go(w, [Leave(w, "failing") EXCEPT !.error = code, !.retryable = retryable])

\* What no except clause of the runner knows: INDEXING_WORKER_ERROR.
FailUnknown(w, code) == FailWith(w, code, TRUE)

----------------------------------------------------------------------------
(* Claim, read and stage.                                                  *)

\* The row is free or its lease has expired; the session loads the index.
Begin(w, d) ==
    /\ work[w].pc = "idle"
    /\ outcome[d] = "open" /\ attempts[d] < MaxAttempts
    /\ attempts' = [attempts EXCEPT ![d] = @ + 1]
    /\ owner' = [owner EXCEPT ![d] = w]
    /\ Go(w, [Idle EXCEPT !.pc = "read", !.document = d, !.seen = dimension, !.dimension = dimension])
    /\ UNCHANGED <<plan, stored, milvus, outcome, deaths>>

\* _validate_command, then download, parse and split unless a revision brings
\* its segments.
ReadDocument(w) ==
    /\ work[w].pc = "read"
    /\ IF ~Source(w).supported THEN FailWith(w, "INDEX_COMMAND_INVALID", FALSE)
       ELSE IF ~Source(w).blocks THEN FailWith(w, "NO_EXTRACTABLE_TEXT", FALSE)
       ELSE Continue(w, "stage")
    /\ UNCHANGED <<plan, stored, milvus, claims, deaths>>

\* The object storage or a parser fails.
ReadFails(w) ==
    /\ work[w].pc = "read" /\ ~Source(w).revision
    /\ FailUnknown(w, "storage")
    /\ UNCHANGED <<plan, stored, milvus, claims, deaths>>

Candidates(d) ==
    BuildCandidates(d, plan.technique, plan.namespace, plan.documents[d].segments)

\* _validated_indexable_records: the types of the mode, and the positions of
\* the children, or all.  A revision may bring other types.
TypesOfMode ==
    IF HighQuality /\ plan.mode = "parent_child" THEN {"parent", "child"} ELSE {"general"}
Indexable(records) == {i \in DOMAIN records : records[i].type # "parent"}

\* The indexable records that wait for an embedding, in their order: a SelectSeq,
\* written as a recursive function for the proofs.
Waits(record) == record.type # "parent" /\ record.embedding = "waiting"
Waiting(records) ==
    LET upTo[n \in 0 .. Len(records)] ==
            IF n = 0 THEN <<>>
            ELSE IF Waits(records[n]) THEN Append(upTo[n - 1], records[n])
            ELSE upTo[n - 1]
    IN  upTo[Len(records)]

\* What run does with the records it staged, or why it gives up.  The statuses
\* and embeddings it checks too are those stage has just compared or inserted.
StagingError(records) ==
    IF \E i \in DOMAIN records : records[i].type \notin TypesOfMode
    THEN "STAGED_SEGMENT_STATE_INVALID"
    ELSE IF HighQuality /\ Indexable(records) = {} THEN "NO_INDEXABLE_SEGMENTS" ELSE "none"
AfterStaging(records) == IF HighQuality /\ Waiting(records) # <<>> THEN "embed" ELSE "keywords"

\* stage and the heartbeat that commits it.
Stage(w) ==
    LET candidates == Candidates(work[w].document)
        staged == InsertMissing(candidates.list, rows)
        records == [i \in DOMAIN candidates.list |-> staged[candidates.list[i].id]]
    IN  /\ work[w].pc = "stage"
        /\ IF candidates.error # "none"
           THEN FailUnknown(w, "invalid_segments") /\ rows' = rows
           ELSE IF Conflicts(candidates.list, rows)
           THEN FailUnknown(w, "conflict") /\ rows' = rows
           ELSE /\ rows' = staged
                /\ IF StagingError(records) # "none"
                   THEN FailWith(w, StagingError(records), FALSE)
                   ELSE Go(w, [work[w] EXCEPT !.pc = AfterStaging(records), !.records = records])
        /\ UNCHANGED <<plan, job, dimension, milvus, claims, deaths>>

----------------------------------------------------------------------------
(* _index_high_quality: one batch after the other.                         *)

Batch(w) == LET waiting == Waiting(work[w].records)
            IN  SubSeq(waiting, work[w].done + 1, Min({work[w].done + BatchSize, Len(waiting)}))
BatchIds(w) == {r.id : r \in ToSet(Batch(w))}

TextSize(text) == Len(text.words)

\* embed and _validate_embedding_batch, and the comparison with the dimension
\* the execution works with.
EmbedBatch(w) ==
    /\ work[w].pc = "embed"
    /\ \E service \in Providers :
           LET texts == [i \in DOMAIN Batch(w) |-> Batch(w)[i].content]
               sizes == [i \in DOMAIN texts |-> TextSize(texts[i])]
               result == Embed(service, plan.model_known, texts, sizes)
           IN  IF result.error # "none" THEN FailWith(w, result.error, result.retryable)
               ELSE IF work[w].dimension \notin {Unknown, result.dimension}
               THEN FailWith(w, "EMBEDDING_DIMENSION_MISMATCH", FALSE)
               ELSE Go(w, [work[w] EXCEPT
                      !.pc = IF work[w].dimension = Unknown THEN "resolve" ELSE "upsert",
                      !.dimension = result.dimension, !.vectors = result.vectors])
    /\ UNCHANGED <<plan, stored, milvus, claims, deaths>>

\* IndexTargetCoordinator.resolve up to its commit.  The row is locked, but
\* what is compared is the dimension the session loaded.
Resolve(w) ==
    /\ work[w].pc = "resolve"
    /\ IF work[w].seen \notin {Unknown, work[w].dimension}
       THEN /\ FailWith(w, "EMBEDDING_DIMENSION_MISMATCH", FALSE)
            /\ dimension' = dimension
       ELSE /\ dimension' = work[w].dimension
            /\ Go(w, [work[w] EXCEPT !.pc = "ensure", !.seen = work[w].dimension])
    /\ UNCHANGED <<plan, job, rows, milvus, claims, deaths>>

\* ensure_collection: has_collection, then inspection or creation.
EnsureCollection(w) ==
    /\ work[w].pc = "ensure"
    /\ IF collection = Unknown THEN Continue(w, "create")
       ELSE IF collection # work[w].dimension THEN FailUnknown(w, "VECTOR_SCHEMA_MISMATCH")
       ELSE Continue(w, "upsert")
    /\ UNCHANGED <<plan, stored, milvus, claims, deaths>>

\* Milvus takes the creation of a collection it has if the schemas are equal.
CreateCollection(w) ==
    /\ work[w].pc = "create"
    /\ IF collection \notin {Unknown, work[w].dimension}
       THEN FailUnknown(w, "VECTOR_STORE_OPERATION_FAILED") /\ collection' = collection
       ELSE collection' = work[w].dimension /\ Continue(w, "upsert")
    /\ UNCHANGED <<plan, stored, entities, unrecorded, claims, deaths>>

Entity(record, vector) ==
    [vector |-> vector, document |-> record.document, parent |-> record.parent,
     position |-> record.position]

\* Mutant of Written: the last of a batch is left out.
WrittenButLast(w) ==
    [id \in DOMAIN entities \cup {r.id : r \in ToSet(Front(Batch(w)))} |->
        IF id \in DOMAIN entities THEN entities[id]
        ELSE Entity(rows[id], Vector(rows[id].content, collection))]

Written(w) ==
    LET of(id) == CHOOSE i \in DOMAIN Batch(w) : Batch(w)[i].id = id
    IN  [id \in DOMAIN entities \cup BatchIds(w) |->
            IF id \in BatchIds(w) THEN Entity(Batch(w)[of(id)], work[w].vectors[of(id)])
            ELSE entities[id]]

Upsert(w) ==
    /\ work[w].pc = "upsert"
    /\ IF collection = Unknown
       THEN FailUnknown(w, "VECTOR_STORE_OPERATION_FAILED") /\ UNCHANGED entities
       ELSE IF collection # work[w].dimension
       THEN FailUnknown(w, "VECTOR_INPUT_INVALID") /\ UNCHANGED entities
       ELSE entities' = Written(w) /\ Continue(w, "mark")
    /\ UNCHANGED <<plan, stored, collection, unrecorded, claims, deaths>>

\* Milvus fails, after the write or before it.
MilvusFails(w) ==
    /\ work[w].pc \in {"ensure", "create", "upsert"}
    /\ IF work[w].pc = "upsert" /\ collection = work[w].dimension
       THEN \/ entities' = Written(w) /\ unrecorded' = unrecorded \cup BatchIds(w)
            \/ UNCHANGED <<entities, unrecorded>>
       ELSE UNCHANGED <<entities, unrecorded>>
    /\ FailUnknown(w, "VECTOR_STORE_OPERATION_FAILED")
    /\ UNCHANGED <<plan, stored, collection, claims, deaths>>

\* The rows with those of some ids replaced.
Changed(new) ==
    [id \in DOMAIN rows \cup DOMAIN new |-> IF id \in DOMAIN new THEN new[id] ELSE rows[id]]
Embedding(row) == [row EXCEPT !.embedding = "completed"]

\* mark_embeddings_completed and the heartbeat; an interruption that came
\* since the upsert began is raised only now.
MarkEmbedded(w) ==
    LET done == work[w].done + Len(Batch(w))
    IN  /\ work[w].pc = "mark"
        /\ IF ~Mutable(BatchIds(w), work[w].document, rows)
           THEN /\ FailUnknown(w, "conflict")
                /\ unrecorded' = unrecorded \cup BatchIds(w)
                /\ rows' = rows
           ELSE /\ rows' = Changed([id \in BatchIds(w) |-> Embedding(rows[id])])
                /\ unrecorded' = unrecorded
                /\ IF work[w].interrupted THEN Go(w, Idle)
                   ELSE Go(w, [work[w] EXCEPT
                          !.pc = IF done = Len(Waiting(work[w].records)) THEN "keywords"
                                 ELSE "embed",
                          !.done = done, !.vectors = <<>>])
        /\ UNCHANGED <<plan, job, dimension, collection, entities, claims, deaths>>

----------------------------------------------------------------------------
(* Keywords, and the end of an execution.                                  *)

\* Mutant of KeywordTargets: only for what this attempt has embedded.
KeywordTargetsOfAttempt(records) ==
    {records[i].id : i \in {j \in Indexable(records) :
                              HighQuality => records[j].embedding = "waiting"}}

\* The economy technique extracts for every record, the other one for those
\* that have no keywords.
KeywordTargets(records) ==
    {records[i].id : i \in {j \in Indexable(records) : HighQuality => records[j].keywords = <<>>}}

WithKeywords(row) == [row EXCEPT !.keywords = Extract(row.content, KeywordLimit)]

\* update_keywords takes a batch whole or not at all.
TakeKeywords(ids, document) ==
    Mutable(ids, document, rows) /\ \A id \in ids : TakesKeywords(rows[id])

\* The targets among the first n of the records, and where batches end.
FirstTargets(records, n) == KeywordTargets(SubSeq(records, 1, n))
FlushedKeywords(w) ==
    IF work[w].pc = "keywords" /\ HighQuality
    THEN {n \in 0..Len(work[w].records) :
              /\ Cardinality(FirstTargets(work[w].records, n)) % BatchSize = 0
              /\ TakeKeywords(FirstTargets(work[w].records, n), work[w].document)}
    ELSE {0}

\* All the batches, with the heartbeat that commits them.
SaveKeywords(w) ==
    LET ids == KeywordTargets(work[w].records)
    IN  /\ work[w].pc = "keywords"
        /\ IF TakeKeywords(ids, work[w].document)
           THEN rows' = Changed([id \in ids |-> WithKeywords(rows[id])]) /\ Go(w, Leave(w, "complete"))
           ELSE rows' = rows /\ FailUnknown(w, "conflict")
        /\ UNCHANGED <<plan, job, dimension, milvus, claims, deaths>>

\* complete_job_document: for the owner only.
Complete(w) ==
    /\ work[w].pc = "complete"
    /\ outcome' = IF owner[work[w].document] = w /\ outcome[work[w].document] = "open"
                  THEN [outcome EXCEPT ![work[w].document] = "completed"] ELSE outcome
    /\ Go(w, Idle)
    /\ UNCHANGED <<plan, stored, milvus, attempts, owner, deaths>>

\* fail_job_document, the same.
Fail(w) ==
    LET d == work[w].document
        again == work[w].retryable /\ attempts[d] < MaxAttempts
    IN  /\ work[w].pc = "failing"
        /\ outcome' = IF owner[d] = w /\ outcome[d] = "open" /\ ~again
                      THEN [outcome EXCEPT ![d] = "failed"] ELSE outcome
        /\ Go(w, Idle)
        /\ UNCHANGED <<plan, stored, milvus, attempts, owner, deaths>>

\* The process, or the database under its session, is gone.
Die(w) ==
    /\ work[w].pc # "idle" /\ deaths < MaxDeaths
    /\ deaths' = deaths + 1
    /\ unrecorded' = IF work[w].pc = "mark" THEN unrecorded \cup BatchIds(w) ELSE unrecorded
    /\ Go(w, Idle)
    /\ UNCHANGED <<plan, stored, collection, entities, claims>>

\* Mutant of HeldBack: the cancellation is raised at once.
NeverHeldBack(w) == FALSE

\* _wait_task holds a cancellation back until the rows of a written batch are
\* marked.
HeldBack(w) == work[w].pc = "mark"

\* The task is cancelled by its event loop; the summary the runner refreshes
\* at its end commits the keyword batches that were flushed.
Interrupt(w) ==
    /\ work[w].pc # "idle" /\ ~work[w].interrupted /\ deaths < MaxDeaths
    /\ deaths' = deaths + 1
    /\ IF HeldBack(w)
       THEN Go(w, [work[w] EXCEPT !.interrupted = TRUE]) /\ UNCHANGED <<rows, unrecorded>>
       ELSE /\ Go(w, Idle)
            /\ unrecorded' = unrecorded
            /\ \E n \in FlushedKeywords(w) :
                   rows' = Changed([id \in FirstTargets(work[w].records, n) |->
                                      WithKeywords(rows[id])])
    /\ UNCHANGED <<plan, job, dimension, collection, entities, claims>>

----------------------------------------------------------------------------
(* finalize_indexing_job, once every document is settled: a full build     *)
(* activates its index with the job, an incremental job only completes its *)
(* segments.                                                               *)
Ready(row) ==
    /\ row.status = "indexing"
    /\ row.embedding = IF HighQuality /\ row.type # "parent" THEN "completed"
                       ELSE "not_required"
Served(row) == [row EXCEPT !.status = "completed"]

Finalize ==
    /\ job = "running" /\ \A d \in Targets : outcome[d] # "open"
    /\ IF /\ \A d \in Targets : outcome[d] = "completed"
          /\ IF plan.full
             THEN \A d \in Targets : \E id \in DOMAIN rows : rows[id].document = d
             ELSE rows # <<>>
          /\ \A id \in DOMAIN rows : Ready(rows[id])
       THEN rows' = Changed([id \in DOMAIN rows |-> Served(rows[id])]) /\ job' = "completed"
       ELSE rows' = rows /\ job' = "failed"
    /\ UNCHANGED <<plan, dimension, milvus, claims, work, deaths>>

Step(w) ==
    \/ ReadDocument(w) \/ Stage(w) \/ EmbedBatch(w) \/ Resolve(w) \/ EnsureCollection(w)
    \/ CreateCollection(w) \/ Upsert(w) \/ MarkEmbedded(w) \/ SaveKeywords(w) \/ Complete(w)
    \/ Fail(w)
Fault(w) == ReadFails(w) \/ MilvusFails(w) \/ Die(w) \/ Interrupt(w)

Next ==
    \/ Finalize
    \/ \E w \in Workers : Step(w) \/ Fault(w) \/ \E d \in Targets : Begin(w, d)

Spec == Init /\ [][Next]_vars
================================================================================
