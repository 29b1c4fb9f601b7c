# Verification of the ALL-RAG indexing system

ALL-RAG is a retrieval service: users upload documents to a knowledge base,
background workers parse, split, embed and index them, and retrieval answers
from the index version that is active. This directory holds TLA+ models of the
part of it that is hard to get right:

- durable jobs whose rows are worked on under leases by Celery workers that
  crash, stall and receive messages twice, and the switch from one index version
  to the next under the eyes of readers (`IndexingLease`, `IndexActivation`);
- the pipeline that turns a document into segments, vectors and keywords in two
  stores without a common transaction (`SegmentPipeline`);
- parsing and splitting, with the preview that runs them (`Preview`);
- what requests do to the documents of a knowledge base while its jobs run:
  upload, ingest, compensation, editing, deletion and search (`KnowledgeBase`).

All paths below are relative to the repository; `rm/` stands for `rag_modules/`.

## 1. Inventory

| Component | State | Operations | What makes it correct |
|---|---|---|---|
| Row leases and attempts: `rm/repositories/indexing_repository.py`, `rm/tasks/indexing_tasks.py`, `rm/tasks/runtime.py`, `rm/indexing/progress.py` | `indexing_job_documents`: status, attempt, worker_id, lease_expires_at, available_at; `documents.indexing_status` | claim, heartbeat, cancellation check, complete, cancel, fail | one writer per row, the newest; budget of attempts; finished rows final; the document tells the outcome |
| Dispatch and recovery: `rm/tasks/maintenance_tasks.py`, `rm/tasks/publisher.py` | the same rows; messages at RabbitMQ | publish due rows every 30 s; requeue or fail expired rows every 60 s | every row is brought to rest; no row waits for a message that is gone |
| Job requests: `rm/api/indexing_jobs_api.py` | `indexing_jobs.status`, `cancel_requested_at` | create and publish, cancel, retry | a cancelled job stops; a retried job serves its index |
| Summary and activation: `finalize_indexing_job`, `_refresh_job_summary` | `indexing_jobs`, `dataset_indexes.status`, `document_segments` | refresh, finalize (full and incremental) | one active version, whole, switched in one step |
| Process rules, rebuilds: `rm/services/process_rule_service.py`, `rm/repositories/{process_rule,knowledge_base}_repository.py` | the same tables | create a job, its rows and its target index | one job per rebuild |
| Engine: `rm/indexing/*`, `rm/repositories/segment_repository.py` | segments, embedding status, Milvus vectors, embedding dimension | stage, embed, upsert, mark, keywords | a retry finds its rows and completes them; a mark means the right vector; one dimension per index |
| Revisions: `rm/services/document_revision_service.py` | `document_revisions` | token, content, save: a revision and an incremental job | an edit knows what it replaces; its outcome is told; readers see one revision |
| Upload, cleanup: `rm/services/document_service.py`, `rm/api/{ingest,file}_api.py`, `rm/tasks/document_cleanup_tasks.py` | `documents`, objects in MinIO | upload, ingest, compensate, govern, soft-delete, cleanup | rows and objects agree; a failed ingest undoes its own and nothing else |
| Embedding client: `rm/embeddings/openai_compatible.py` | none | embed with retries and bisection of rejected batches | one vector per text, in order |
| Segmentation: `rm/segmentation/segmenter.py` | a work budget per document | split with overlap, parents and children, delimiters, source places | the pieces cover the text within the limits and name its exact place |
| Parsing: `rm/parsing/*` | bounded warnings, table budgets | text, Markdown, XLSX and other formats | headings enclose, rows keep their cells, accepted files are bounded |
| Preview: `rm/services/preview_service.py`, `rm/api/indexing_preview_api.py` | one request | validate, load, read, parse and segment, collect | the answer accounts for every document, within the limits |
| Retrieval: `rm/retrieval.py` | none | vector, keyword and hybrid search over the active version, in five queries | answers show one version and miss nothing |
| Knowledge bases and archive | `datasets` | CRUD, export, import | - |
| Graph extraction, settings, migrations, frontend | - | external services, static configuration, client | - |

**How they interact.** The API commits rows to PostgreSQL and then publishes
their ids to RabbitMQ; nothing else is in a message. Beat publishes whatever is
due and was not published. A worker process takes one message at a time (late
acknowledgement, prefetch 1), loads the row, its job, document and target index
in one SQLAlchemy session, claims the row, works under a lease of 300 s that
heartbeats renew, writes one outcome, and in a `finally` block refreshes the
summary of the job and tries to finalize it. Retrieval reads whatever index is
active. So all actors share the database and meet nowhere else, but for two
stores that know no transaction: MinIO holds the source of a document, Milvus the
vectors of its segments, and both are written before or after the commit that
makes them count.

**What is hard about it.** Messages are delivered at least once; processes die
between any two commits; leases expire under living workers; API requests fall
between a worker's reads and writes; and the session of an execution keeps the
objects it loaded (`expire_on_commit=False`, objects held by the command
factory), so that `SELECT ... FOR UPDATE` locks a row but does not refresh what
the code then reads. The complete list of hazards, each at its line with the
properties that watch it, is in `PROJECT.json`.

## 2. Modules

| Module | Models | Role |
|---|---|---|
| `IndexingLease` | rows, messages, executions, Beat, requests | base component |
| `IndexActivation` | the same handlers with what they do to the job, the target index and the segments, for full builds (`initial_index`, `reindex_dataset`) | composed with `IndexingLease` by extending each of its actions |
| `ServedVersion` | what readers of a knowledge base are promised | abstract specification that `IndexActivation` implements |
| `Lists` | list comprehensions with a condition | operators |
| `Segmentation` | `Segmenter`: the splitting algorithm | operators |
| `Parsing` | registry, text, Markdown and XLSX parsers, tables, warnings | operators |
| `Preview` | a preview request among deletions | component over `Parsing` and `Segmentation` |
| `Embedding` | the OpenAI-compatible client | operators |
| `SegmentStaging` | segment ids, candidates, exact retries, keywords | operators |
| `SegmentPipeline` | executions of the engine on the documents of one job | component over `Embedding` and `SegmentStaging` |
| `VectorBackedSegments` | what a high-quality job promises of its segments | abstract specification that `SegmentPipeline` implements |
| `Retrieval` | hits, scores, fusion, contexts | operators |
| `Uploads` | the validation of a file | operators |
| `KnowledgeBase` | requests, jobs and cleanup over one knowledge base | component over `Retrieval` and `Uploads` |
| `PreviewProperties`, `SegmentPipelineProperties`, `KnowledgeBaseProperties` | - | properties |
| `MCIndexingLease`, `MCIndexActivation`, `MCPreview`, `MCSegmentPipeline`, `MCKnowledgeBase` | small instances | model checking |
| `SegmentPipelineInvariant`, `KnowledgeBaseInvariant` | - | the inductive invariants of `SegmentPipeline` and of `KnowledgeBase` |
| `IndexActivationProofs`, `SegmentPipelineProofs`, `KnowledgeBaseProofs`, `KnowledgeBaseSearchProofs`, `PreviewProofs` | - | theorems and proofs |
| `SplittingProofs`, `SegmentationProofs`, `ParsingProofs` | - | what the operators of `Segmentation` and `Parsing` compute, for `PreviewProofs` |

### IndexingLease

An action is one database transaction or one broker operation.

| Code | Action |
|---|---|
| publish in `create_job`, `retry_job` (API) | `ApiPublish`, `ApiPublishFails` |
| `dispatch_pending_indexing` | `Dispatch` (any non-empty subset of the due rows is accepted by the broker), `DispatchCrash` (published, not committed) |
| `recover_stale_indexing` | `Recover` |
| delivery, `execution_context` | `Receive` (the message may remain: duplicate or redelivery), `DropMessage` (no runner for a deleted document), `RaiseBeforeClaim` |
| `claim_job_document` | `Claim`, `SkipClaim` |
| `heartbeat` | `Heartbeat` |
| `cancellation_requested` | `PassCheck` (passed) and the guard of `CancelDocument` |
| `complete_`, `cancel_`, `fail_job_document` | `Complete`, `CancelDocument`, `FailDocument`, all through `Settle`, which is guarded by `_owned_running_row` |
| the `finally` block | `RefreshSummary`, `Finalize` |
| loss of a process, time limit | `Crash` |
| clock | `LeaseExpires` (the owner is gone), `OwnerStalls` (it lives), `BecomesDue` |
| `request_job_cancel`, `retry_job`, `soft_delete` | `RequestCancel`, `RetryJob`, `DeleteDocument` |

State: a row's `status`, `attempt`, `owner` (worker_id), `lease` (NULL, future,
past) and `due` (available_at) are the columns; time itself is abstracted to the
three values of `lease` and the two of `due`. `docStatus` is the document's
indexing_status with its stage names collapsed to "running". `queue` is the set
of rows with a message: how many copies there are does not matter, because
`Receive` may leave the message. Per worker process: `phase`, `task`, `token`
(the attempt it claimed), and the two cached objects that are read after the
claim, `sawCancel` (the job) and `sawDoc` (the document: assigning a value equal
to the cached one emits no UPDATE).

### IndexActivation

Adds `jobStatus`, `indexStatus`, the segments `seg` of each row (none, staged,
ready to activate, completed, deleted) and the cached row, job and target index
of an execution. Each action is the conjunction of the lease action with the
rest of the same handler: `ReportProgress` is `Heartbeat` with the segment work
it commits and the job status it writes, `Summarise` is `RefreshSummary` with
`_refresh_job_summary`, and the outcomes of `finalize_indexing_job` are
`FinalizeNothing` (not terminal, or the idempotency guards), `FinalizeFailed`,
`FinalizeInvalid`, `FinalizeSwitch` and `FinalizeConflict` (the partial unique
index `uq_dataset_indexes_one_active` rejects the second active version).
`CleanupDocument` is the cleanup of a deleted document.

### ServedVersion

A version is served only once it is built, in one step that retires its
predecessor; a retired version never returns; something stays served. The
refinement maps `served` to the active index, `built` to the targets of jobs
whose rows are all completed, and `past` to the retired indexes.

### Preview, Parsing, Segmentation

A character is a pair of a class (letter, stop, space, newline, ...: what the
boundary rules tell apart) and an origin, the place in the source it was read
from. The code never looks at an origin; the properties compare origins to say
that nothing is lost, moved or attributed to another place. `Parse` maps a source
to blocks (`ParserRegistry.parse`): text by lines, Markdown by the tokens
markdown-it emits, a workbook by the elements of its sheet XML, first in the
`Preflight` and then as rows under their header. `SegmentDocument` is
`Segmenter.segment`: `General` and `ParentChild` with their fallback to blocks,
the allocation of delimiters between blocks (`Allocation`, a dynamic program over
hosts), the merging of source places and the work budget (`Emit`, `Charge`).

`Preview` runs one request. Each action is what happens between two awaits:
`Start` (validation), `LoadDataset`, `LoadRecords`, `ReadSource`,
`ParseAndSegment`, `Collect`, `Render`, and the failures `Timeout`,
`DatabaseFails`, `StorageFails`. Beside it, other requests delete documents
(`DeleteDocument`, `CleanObject`) or the knowledge base.

### SegmentPipeline

One execution is a worker with a program counter; an action is one transaction,
one call of Milvus or one call of the embedding service.

| Code | Action |
|---|---|
| `claim_job_document` | `Begin` (a row whose lease expired may be claimed while its execution lives) |
| `_validate_command`, download, parse, split | `ReadDocument`, `ReadFails` |
| `SegmentRepository.stage` and the heartbeat that commits it | `Stage` |
| `embed`, `_validate_embedding_batch` | `EmbedBatch`, for every behaviour of the service |
| `IndexTargetCoordinator.resolve`, `ensure_collection` | `Resolve`, `EnsureCollection`, `CreateCollection` |
| `MilvusVectorStore.upsert` | `Upsert`, `MilvusFails` (before or after the write) |
| `mark_embeddings_completed` | `MarkEmbedded` |
| `update_keywords` of either technique | `SaveKeywords` |
| `complete_job_document`, `fail_job_document` | `Complete`, `Fail` |
| loss of the process, cancellation of the task | `Die`, `Interrupt` (held back while a write is not marked) |
| `finalize_indexing_job` | `Finalize` |

`rows` are the segments, by id; an id is the tuple `stable_segment_id` hashes.
What an execution does with the records it staged depends on the segmentation
`mode` of its plan (`StagingError`): records of a type the mode does not know end
it with STAGED_SEGMENT_STATE_INVALID, a document without indexable segments with
NO_INDEXABLE_SEGMENTS. `Waiting` are the records an execution embeds, in their
order, as a recursive function, because the provers know no `SelectSeq`.
`update_keywords` takes a batch whole or not at all (`TakeKeywords`).
`entities` is the collection, which no rollback reaches. `unrecorded` is a history
variable: the ids written by an upsert that no mark followed.

### KnowledgeBase

A client is one request with a program counter; an action is one transaction or
one call of a store or the broker. `CheckFile`, `PutObject`, `CreateDocument`,
`UndoPut` and their failures are `upload_one`; `Confirm` is
`ProcessRuleService.confirm`; `Compensate`, `RemoveCompensated` are
`compensate_upload`; `Delete`, `DispatchCleanup`, `Cleanup` the deletion of a
document and its task; `ReadToken`, `ReadContent`, `Save` the segment editor;
`Reindex` `ensure_compatibility_job_document`; `ReadIndex`, `SearchVectors`,
`SearchKeywords`, `ReadRows`, `ReadParents` a search. A job is loaded, staged and
embedded in one step each (`Load`, `Stage`, `Embed`), since `IndexingLease` and
`SegmentPipeline` have the steps in between; it may fail, be retried, or lose its
finalization. `FinalizeIncremental`, `FinalizeInvalid` and `FinalizeFailed` are
the branches of `finalize_indexing_job` for incremental builds (lines 356-415),
`FinalizeFull` a full build.

Of a segment the model keeps its ids, type, parent, and how similar it is to the
queries; of a revision its status and, as history, what the editor had seen.
"pending" stands for pending and indexing, which every reader treats alike.
`unclean`, `unpublished` and `mixed` are history variables that name the
documents and jobs a fault or a second job interfered with, so that the
properties can say what must hold of all others. `excused` is what an editor's
token could not tell: the revisions older than the token that were not published
when it was read. `Accepted` is what the models of the API let through: an edit has
segments (`rm/api/dto/document.py:62`), a confirmation names documents
(`rm/api/dto/indexing_preview.py:40`), a search asks for an item at least. A similarity
is a natural number because the client of the store cuts it to the range from 0 to 1
(`rm/vector_stores/milvus.py:187`), and a keyword score because it is a count. A parent
has neither vector nor keywords (`rm/repositories/segment_repository.py:134` and `:170`).

### VectorBackedSegments

Nobody counts on a vector before it is written, nothing that was counted on is
taken back, the segments are served only when every one of them that needs a vector
counts on one, and none is added afterwards.

## 3. Runs

| Run | Instance | Shows |
|---|---|---|
| `lease_safety` | 1 row, 2 workers, 2 attempts, all six faults, at most 4 of them | types, fencing, budget of attempts, finished rows final, document shows the outcome |
| `lease_liveness` | 1 row, 2 workers, crash, stall, cancel, retry, at most 2 | no queued row without message; every row settles |
| `activation_served` | 1 job over 2 documents, 1 worker process, all faults, at most 2 | one whole version served at all times; `IndexActivation` implements `ServedVersion` |
| `activation_two_jobs` | 2 jobs over 1 document, 2 workers, deletions | competing activations |
| `preview_pipeline` | one document of every kind under several configurations: all texts of up to 4 lines out of 4, Markdown outlines and mixtures of up to 4 elements, workbooks of one or two sheets; requests for several documents, deleted meanwhile | nothing lost, exact sources, headings, the fewest delimiters omitted and the others kept, budgets, the whole answer |
| `segment_pipeline` | 9 jobs (both techniques, families, twins, revisions, bad documents), 2 workers, 2 attempts, batches of 2, 6 behaviours of the service, 1 death or cancellation, Milvus failures without bound | marks have their vectors, completed documents are whole, retries find their rows; `SegmentPipeline` implements `VectorBackedSegments` |
| `knowledge_base` | 23 scenarios of up to 4 concurrent requests over at most 2 documents, with their jobs and up to 3 faults | editing, storage, compensation, revisions, answers |
| `segment_pipeline_edited` | a revision with keywords in an economy index | finding: `RetryFindsItsSegments` |
| `lease_cancel` | 1 row, one cancel request | finding: `ChecksSeeCancel` |
| `lease_lost_message` | 1 row, one failure before a claim | finding: `QueuedRowsMoveOn` |
| `activation_two_workers` | 1 job over 2 documents, 2 workers, no fault | finding: `NeverUnserved` |
| `activation_retry` | 1 job over 2 documents, one retry | finding: `CompletedJobWasServed` |

**Bounds and why they are enough.** `MaxFaults` bounds the crashes, stalls,
failures and requests of a behaviour; everything else (duplicates, refused
messages, conflicts, retryable failures, expired leases of dead executions) is
unbounded. Two executions of a row is the smallest number that race; a third adds
no kind of step, and the theorems hold for any number. Two attempts have a
first, a last and, with faults, one too many. With four faults a lease can be
lost, the row retried by an operator, lost again and cancelled. One worker in `activation_served` is what
`docker-compose.yml:218` starts (`--concurrency=1`); with more workers the
property fails, which is the finding of `activation_two_workers`. In
`activation_two_jobs` each job has one row, so that each finalization is called
by one execution and the races are between jobs.

In `preview_pipeline` the limits (`MaxRows`, `MaxPhysicalCells`, `MaxChunks`, ...)
are between 2 and 12, and `MaxBoundaryScan` is 200, so that the inputs lie on both sides of each; four blocks
are enough to have an interior delimiter with neighbours on both sides, and
maxima from 2 to 6 with texts of up to 5 characters put every boundary rule at
the edge of a piece. `segment_pipeline` has documents of three segments with
batches of two, so that a batch is full, a batch is partial and a crash falls
between them; two attempts are one that leaves something and one that finds it;
two equal segments test that ids depend on positions; one death suffices because
failures of Milvus and the service and lost leases are unbounded and leave the
same traces. `knowledge_base` combines the requests that share state in pairs
and triples instead of all at once; three faults allow a storage failure, a
failure of its compensation and a third of the cleanup. A search for one item
asks for four hits, and the longest revision has five segments, so that stale
vectors do crowd out live ones in it.

Symmetry is used over workers only, in runs without liveness. `CHECK_DEADLOCK FALSE` stands in every
configuration because a system whose rows are all settled and whose messages
are consumed, or whose requests are answered, has nothing left to do.

**Fairness** (`LeaseFairness`). Beat fires the dispatcher and the recovery on a
fixed schedule: weak fairness of `Dispatch` and `Recover`. Clocks advance: weak
fairness of `BecomesDue` and `LeaseExpires`. RabbitMQ keeps persistent messages
in a durable queue, and hands them out whenever a worker is free, which it is now
and again: strong fairness of `Receive`. Celery's time limits (3500 s soft, 3600 s hard) end
every execution: weak fairness of the steps of a worker. Nothing obliges an
execution to heartbeat, a fault to occur or an operator to act. A row that waits
for a retry has no message and a stalled owner may come back at any time, so
`EveryRowSettles` depends on dispatcher, recovery and claim together.

**Conditions on the properties.** `QueuedRowHasMessage` and `EveryRowSettles` are
checked without failures before the claim and without deletions, because those
lose the message (the finding of `lease_lost_message`). `DocumentShowsOutcome`
assumes one row per document, and excepts writes of an execution whose attempt
was superseded: the heartbeat does not ask the database who owns the row.
`RetryFindsItsSegments` is checked in `segment_pipeline` with jobs that bring no
keywords into economy indexes; the other case is the finding of
`segment_pipeline_edited`. The properties of `KnowledgeBase` except what a fault
or a second job interfered with, by name: `SourcesMatchDocuments` and
`FailedIngestsUndoTheirOwn` the documents in `unclean`,
`RevisionsTellTheOutcome` and `AnswersShowOneVersion` the documents in `mixed`
(two jobs staged them side by side), the former also documents that are deleted and
indexes that are retired meanwhile, `SavedEditsKnowTheirContent` a revision older
than the token that was published after the token was read: it had failed and was
retried, or its finalization came late. `ShortAnswersAreComplete` speaks of answers for which
the vector store returned fewer hits than it was asked for; otherwise the stale
vectors of replaced segments, which nothing removes, may have taken the place of
live ones.

The three component runs state safety only: a request, an execution or a job may
stop anywhere, and what brings a stopped row back to rest is the subject of
`lease_liveness`.

## 4. Findings

1. `ChecksSeeCancel`: cancelling a job does not stop a running document. The
   check reads the cached job (`indexing_repository.py:119`);
   `docs/architecture.md:496` says that workers check between batches.
2. `QueuedRowsMoveOn`: a row whose message is lost before the claim stays queued
   for ever (`maintenance_tasks.py:46`), which plan 05, line 238, rules out.
3. `NeverUnserved` with two worker processes: the second finalization of a job
   marks the index failed that the first one activated, because the guards at
   `indexing_repository.py:417` read cached objects.
4. `CompletedJobWasServed`: a retried job ends completed although its target
   stays failed and is never served (`indexing_repository.py:281` and `:419`);
   plan 05, line 418, says that the target goes back to building.
5. `RetryFindsItsSegments` in an economy index: the keywords an editor gave a
   segment are overwritten by extracted ones (`engine.py:228`), so they are lost,
   and the next attempt at the document conflicts with its own rows
   (`segment_repository.py:500`). `engine.py:241` says that explicit keywords of a
   revision are preserved; only the high-quality technique does so.

## 5. Proofs

Each theorem holds for all constants that satisfy the assumption of its module:
any number of rows, jobs, documents, workers and attempts, any plans, batch size
and behaviour of the embedding service, any texts, workbooks and limits of the
parsers and the segmenter. Every invariant below was checked by TLC
on a run's instance before it was proved.

### The lease protocol

`IndexActivationProofs`, first part, under `LeaseAssumption`:

| Theorem | States |
|---|---|
| `LeaseTypesCorrect` | `[]LeaseTypeOK` |
| `OwnersAreFenced` | `[]OwnerHoldsNewestAttempt` |
| `AttemptsAreBudgeted` | `[]ExtraAttemptsAreCaused` |
| `FinishedRowsAreFinal` | `FinishedRowsStayFinished` |
| `RunningRowsAreSafe` | `RunningRowsAreFenced` |
| `DocumentsShowOutcomes` | `DocumentShowsOutcome`, if no two rows share a document |
| `QueuedRowsAreCarried` | `[]QueuedRowHasMessage`, if neither "raise" nor "delete" is in `Faults` |

The properties are not inductive alone. That the owner holds the newest attempt
survives a claim only if no other execution holds an attempt from the future and
no two hold the same one (`TokensFenced`), and that survives a claim of an
expired row because the previous owner's token stays strictly below the new
attempt. A finished row stays finished because its newest attempt has ended and
because `RunningHasLease` keeps a row with a NULL lease from being claimed under
a live owner. The budget of attempts needs `ClaimIsAffordable`: a row that can
be claimed now, or once its lease runs out, has an attempt left in
`MaxAttempts` plus the faults already spent. A queued row stays claimable
because it is due (`QueuedRowIsDue`). What a document shows depends on what
executions remember of it (`OutcomesAreReal`). The conjunctions are `FenceInv`,
`AttemptInv`, `DocumentInv` and `MessageInv`, each inductive relative to the
types.

### Full builds

`IndexActivationProofs`, second part, under the assumptions of `IndexActivation`:

| Theorem | States |
|---|---|
| `ActivationRefinesLease` | `LeaseSpec`: what is added to the handlers takes nothing away, so the theorems above carry over |
| `ActivationTypesCorrect` | `[]ActivationTypeOK` |
| `AtMostOneActive` | `[]OneActive` |
| `ServedVersionsAreWhole` | `[]ServedIsWhole` |
| `ServedSegmentsUnderOneFinalizer` | `[]OnlyServedSegmentsAreCompleted`, under `[]OneFinalizer` |
| `ServesUnderOneFinalizer` | `NeverUnserved`, under `[]OneFinalizer` |
| `ReadersSeeServedVersions` | `ReadersSpec`, the refinement of `ServedVersion`, under `[]OneFinalizer` |
| `OneWorkerServesWhole` | the last three, with one worker process |
| `OneRowOneFinalizer` | `[]OneFinalizer`, if a job has one row and "retry" is not in `Faults` |
| `OneRowJobsServeWhole` | the three, under the same conditions |

`OneActive` rests on what `FinalizeSwitch` retires and `ServedIsWhole` on what it
counts; neither needs the guards of the finalization, so both hold in the
presence of finding 3. `ServedIsWhole` is not inductive: a version stays whole
because the job behind a served version has only completed rows, which stay
completed, and because an execution that still believes in another status of
such a row can no longer write to it (`WholeInv`).

The other three do need the guards, and the guards read cached objects.
`OneFinalizer` says that no two executions of one job are between the settlement
of their rows and the end of their finalizations at the same time. This is all
that goes wrong in finding 3: under it, whoever is about to finalize finds its
version not served yet (`TargetsAreUnserved`, with what a session remembers of
its row and index in `SessionInv`), and the properties follow. The condition is
a property of the deployment, so two deployments are proved to meet it: one
worker process, as `docker-compose.yml:218` starts it, and jobs of one document
each with any number of workers. There only the execution that wrote the outcome
of the row goes on to finalize, however many others a lease expiry or a duplicate
has started. An operator's retry breaks that, because the execution that failed
the row may still be on its way to the finalization when the row is claimed
again: with "retry" in `Faults`, TLC finds `NeverUnserved` violated with one row
and two workers.

### The indexing pipeline

`SegmentPipelineProofs`, over the definitions of `SegmentPipelineInvariant`:

| Theorem | States |
|---|---|
| `EmbedIsExact` | `Embed` fails or returns the vector of each text at its place, all of one dimension |
| `PipelineInvariant` | `[]PipelineInv`, the inductive invariant |
| `PipelineTypesCorrect` | `[]PipelineTypeOK` |
| `MarkedVectorsAreTheirOwn` | `[]MarkedHaveTheirVectors` |
| `UnmarkedVectorsExcused` | `[]UnmarkedVectorsAreCaused` |
| `SegmentsAreBackedByVectors` | `StoreSpec`, the refinement of `VectorBackedSegments` |
| `KeywordsInvariant` | `[]KeywordsInv`, under `NoKeywordsInEconomy` |
| `RetriesFindTheirSegments` | `[]RetryFindsItsSegments`, under `NoKeywordsInEconomy` |
| `CompletedDocumentsAreWhole` | `[]CompletedIsWhole`, under `NoKeywordsInEconomy` |

`EmbedIsExact` is about a pure function: the client validates the texts, takes
them in batches, halves a batch the service refuses, and sorts answers that come
in another order. The proof shows that halves of exact answers make an exact
answer, by induction over the length of a batch and then over the number of
batches. The library's induction theorems cannot be used, as their parameter is an
operator; `SetInduction`, an induction for a set of natural numbers, is derived
from the well-foundedness of `<` and serves all recursive functions here.

`PipelineInv` says that every row is the row of a candidate of some document but
for keywords, mark and status (`RowsOK`); that every vector is the one of its
row's text, and a marked row has one (`EntitiesOK`); that the records an
execution carries are the candidates of its document in their order, that a
record it read as marked is still marked, that the first `done` waiting records
are, and that the vectors it carries are those of the batch it is at
(`WorkerOK`); that rows change their status together, with the job
(`StatusOK`); and that a completed document is staged whole and marked
(`ClaimsOK`). Each part is needed because several executions of one document may
be alive: `MarkEmbedded` of a superseded execution is harmless only because its
records still are the rows' records and its batch was written before, and
`Complete` of the owner is right only because what it found marked cannot have
been unmarked by the other. The ids of candidates determine document and
position, which is why two documents never share a row.

`UnmarkedVectorsAreCaused` relates the invariant of one state to the next: an
execution between its upsert and its mark excuses its batch, and whatever ends it
there records the batch. For `SegmentsAreBackedByVectors` every step of the
pipeline is a step of `VectorBackedSegments` or changes nothing of it; `Finalize`
serves only rows that are marked, and no row is added afterwards because the
executions that still run find the rows of all documents there.

`KeywordsInv` follows the keywords through rows and records: what a candidate
brought, or what is extracted in the end, and once a record has keywords its row
has the final ones. The condition `NoKeywordsInEconomy`, that no editor gives
keywords to a segment of an economy index, is necessary: `segment_pipeline_edited`
violates `RetryFindsItsSegments` without it (finding 5). The theorems that do not
need it do not assume it.

### Requests, jobs and revisions of a knowledge base

`KnowledgeBaseProofs`, under `KnowledgeBaseAssumption`, over the definitions of
`KnowledgeBaseInvariant`:

| Theorem | States |
|---|---|
| `StorageInvariance` | `[]StorageInv`, the inductive invariant of requests, rows and objects |
| `StorageKeepsUp` | `[]SourcesMatchDocuments` |
| `IngestsUndo` | `[]FailedIngestsUndoTheirOwn` |
| `KnowledgeBaseInvariance` | `[](StorageInv /\ BuildInv /\ RevisionInv)` |
| `KnowledgeBaseTypes` | `[]KnowledgeBaseTypeOK` |
| `SavedEditsAreInformed` | `[]SavedEditsKnowTheirContent` |
| `OutcomesAreToldOf` | `[]RevisionsTellTheOutcome` |

They hold for any set of scenarios of any number of requests, files, documents,
contents, jobs and faults; a scenario is only required to be one the API accepts.

`StorageInv` gives every object somebody who will look after it
(`ObjectsAreAttended`): a live row, a queued cleanup, the request that has just put
it and will create its row or take it back, the compensation that has just deleted
its row and will remove it, or a fault that is known (`unclean`). That an upload may
take back an object needs that no row was created for it (`UploadsKnowTheirObject`),
and that needs the ids it is still going to give to be free (`IdsAreFree`). That a
cleanup may remove an object needs that nothing undeletes a document
(`CleanupsAreOfDeleted`). What a compensation has undone so far is what lies before
its counter (`UndoneSoFar`).

`BuildInv` follows segments to the jobs that staged them. A segment belongs to the
index and the documents of its job (`SegmentsOK`), a row that was staged has segments
and a completed one has them ready (`OwnSegmentsOK`), and one is deleted before it
is published only with its document or its index (`DeletedEarlyAreGone`). Two jobs
whose segments lie beside each other unpublished are known to be mixed, and so is a
job whose segments another one published. From that follows `ShownIsOneBuild`: what
a document shows in an index are segments of one job.

`RevisionInv` binds a revision and its job to each other. `EditorsKnow` is the part
that makes `SavedEditsKnowTheirContent` inductive: between the two reads of an editor,
and until it saves, every version up to its token was either published or excused.
A publication between the reads only adds to what is published, because a completed
revision never changes; a publication before saving makes a token stale only if its
version is newer, which is why older ones have to be excused.

The proof changed the properties. Neither `SavedEditsKnowTheirContent` nor
`RevisionsTellTheOutcome` was inductive as it had been stated, and no strengthening
helped: an edit could be saved over a revision that was published late, not only after
a retry, and a completed revision could have lost segments to the cleanup of its
document or to a retired index. Three scenarios were added in which TLC finds the
former statements violated; the present ones name these exceptions.

### Searches

`KnowledgeBaseSearchProofs`, under the same assumption and over the same definitions:

| Theorem | States |
|---|---|
| `SearchInvariance` | `[]SearchInv`, the inductive invariant of searches |
| `AnswersAreOfOneVersion` | `[]AnswersShowOneVersion` |
| `ShortAnswersMissNothing` | `[]ShortAnswersAreComplete` |

The first half is about the operators of `Retrieval`. Ids are compared place by place,
which is a strict total order, and with the scores it is one again. So the ranks of n
things are 0 to n - 1, each taken once (`RanksAreTaken`): by counting, because a rank is
the size of the set of those before, and no two of them are equal. It follows that the
candidates are exactly what was found, is served, and scores enough
(`CandidatesAreRight`), that `Nearest` returns everything if it returns fewer than it
was asked for (`FewAreAll`), and by induction over the candidates that the items have
each context once and, if there is room left, the context of every candidate
(`ItemsAreRight`).

The second half is about time. The five queries of a search see five states, and what
they returned is combined at the end. `SearchInv` says what stays true in between:
segments and vectors are only added, and a published one keeps what a search has read of
it (`SegmentsGrow`); every published segment that needs a vector has it, and none gets
one late (`VectorsOK`); and of the segments that were retrievable from the first query
until now (`steady`), those with a vector are among the hits if the hits are fewer than
asked for, those with keywords among the keyword hits, and the rows that were read have
all that was found and is still there (`SearchOK`). That rows of one document are of one
job is `ShownIsOneBuild` at the moment of `ReadRows`, and jobs never change; that an
item's context is of its own job follows from the ids, because the parent of a segment
has the job in its id. A parent that is deleted between `ReadRows` and `ReadParents`
leaves the item with its own text as its context, which the properties allow.

### Previews

`PreviewProofs`, over `ParsingProofs`, `SegmentationProofs` and `SplittingProofs`,
under the assumptions of `Parsing`, `Segmentation` and `Preview`:

| Theorem | States |
|---|---|
| `PreviewInvHolds` | `[]PreviewInv`, the inductive invariant |
| `PreviewIsTyped` | `[]PreviewTypeOK` |
| `TextIsKept` | `[]NoTextIsLost` |
| `ProjectionHolds` | `[]ProjectionIsUpperBound` |
| `WorkbooksAreBounded` | `[]AcceptedWorkbookIsBounded` |
| `AnswersAccountForAll` | `[]AnswerAccountsForAll` |
| `LeastDelimitersAreTaken` | `[]DelimitersAreBest` |

Contents are arbitrary: any lines of characters of the classes, any sequence of
Markdown tokens (not only those markdown-it can emit: closing tokens without opening
ones included), any workbook whose coordinates and ranges lie in the format, any
configuration with integers in it, any set of documents of which any may be deleted.
`PreviewAssumption` says so (`IsContent`, `IsRequest`, `AreDocuments`); the bounds of
the format are constants because `_validate_physical_cell_coordinate` and
`_validated_range` refuse everything else.

Most of the work is about the operators. Python's loops are folds here, and the
library defines a fold by a `CHOOSE` over functions on sets of positions.
`FoldExists` and `FoldSteps` show once, by `SetInduction`, that there is such a
function and that it goes through its accumulators one position after the other.
Every loop then has a lemma that restates it as a sequence of steps (`...Steps`),
and a lemma with the invariant of the loop (`...Is`, `...Are`). The recursive
functions (`SplitRanges`, `Allocation`, `Kept`) are treated alike.

- *Text* (`TextIsKept`). A cut of a text is a list of ranges that start in or at the
  end of the one before, advance, and reach the end; `SplitRanges` gives one
  (`RangesAreRight`), because a boundary is only taken behind the least advance
  (`BoundaryEndType`, `PieceType`). Combining blocks keeps the text of each
  (`CombineIs`), slicing a source keeps the text of the slice (`SliceSource`), and a
  segment that is emitted stays (`Grows`). So what is emitted shows every visible
  character unless a budget was exceeded, and then there is an error and no result.
  For a document that is too long for one parent, the decisions about delimiters must
  be ones the blocks can host, or their text would be cut away: `AllocationIs` shows
  that the dynamic program always finds a plan and that it is such a one.
- *Projection* (`ProjectionHolds`). By the same recursion: a text longer than the
  maximum is projected to at least one piece more than its rest after the least
  advance (`ProjectionStep`).
- *Workbooks* (`WorkbooksAreBounded`). The scan counts, sheet by sheet, at least the
  cells that its elements and its ranges create. A range that was counted is in
  `materializing`, so not counting it again is right; a range counted for a merge
  alone would not be in it (mutant `MaterializeUnmerged`). The area of a range is the
  number of its cells (`AreaIs`), and overlaps only make the sum larger than the union.
- *Warnings* (`AnswersAccountForAll`). `Represented` is the number of warnings a
  collector stands for, `Counted` that of a list. Adding a warning adds its weight,
  whether it is kept or counted and also if it is a summary of a parser
  (`AddWarningIs`), so the counts of any chain of collectors add up.
- *Delimiters* (`LeastDelimitersAreTaken`). The blank lines between two blocks hang on
  the one before, on the one after, on both, or are omitted; a way to hang them all is a
  function from boundaries to these four (`Ways`), with the omitted boundaries
  (`OmittedBy`) and extra parts (`ExtraBy`) as its price. The table keeps one plan for a
  block and the newlines that come before it, and the cheapest of those compared
  (`BestIsCheapest`). By induction from the last block to the first: what a way has
  spent up to a block, and the plan in the table from there on, is together no more than
  the whole way (`Within`, `StepWithin`); at the first block it has spent nothing
  (`AllocationIsBest`). Cutting a tail out of a way is sound because its price is a sum
  over blocks that depend on the decisions beside them only. The third component of the
  cost, where parts of different lengths are preferred, is not compared: a way has none.

`PreviewInv` then is short: the request and the records are what they were given as
(`GivenInv`), the phases go through the unique ids in order (`FlowInv`), the document in
hand is parsed and split from what is stored (`HandInv`), the results are those of the
documents before it (`ResultInv`), and an answer without an error is given after the
last one (`ResponseInv`). It needs that what is stored never changes. Deletions do not
disturb it: they take away records and objects, which makes later reads fail, but not
what was read.

### Only model-checked

- Liveness (`EveryRowSettles`): fairness and ENABLED are out of the provers'
  reach.
- `SourcesAreExact` and `RowsKeepTheirCells`: that every segment names its exact place
  compares origins, so it needs that no two characters of a document share one, for
  every parser, and the merging of metadata, which the proofs only follow as far as
  its type.
- `HeadingPathsEnclose`: it holds of the token streams markdown-it emits, not of all,
  and that grammar is not part of the model.
- `DelimitersAreKept`: that the parents hold exactly the newlines the plan did not
  omit counts characters over the fallback's slices, which the proofs follow only as
  far as visible characters. That the plan is legal and the best is proved.

## 6. Abstractions and what is not modelled

- A worker process stands for the worker_id of its current execution.
- The engine is collapsed to the state of a document's segments and its last
  cancellation check; failures inside it are `FailDocument` with either
  retryability. Progress numbers, stage names, counts and messages are left out.
- `Dispatch` and `Recover` run beside the workers, although in the shipped
  deployment they share one process with them: an over-approximation. Their
  batch limits of 100 rows are left out.
- Database errors in the middle of a settle, a refresh or a finalization are not
  told apart from a crash of the process at that point.
- A job without target index, for which no runner is built, and the
  compatibility entry of old upload messages are left out.
- Incremental builds are in `KnowledgeBase` and `SegmentPipeline`, not in
  `IndexActivation`.
- Preview and parsing: decoding and detection of encodings, front matter, links,
  the resolution of OOXML parts, the budgets of source blocks and characters, OCR
  metadata, and the CSV, XLS, PDF, DOCX and image parsers, whose work is done by
  libraries. Characters come in the classes of the boundary rules.
- Pipeline: progress numbers (which run backwards in economy builds), the graph
  stage, the splitting of SQL statements into chunks. Segments other jobs have in
  the same index have other ids and are left out. A vector store or embedding error is
  always retryable by the code, also when it can not succeed.
- Knowledge base: positions, downloads, the graph mode and the reranker (which
  reorders candidates and adds none), the rebuild of a whole knowledge base (a second
  job in `IndexActivation`), the cancellation of a revision's job, which of two
  equally old errors an upload reports. The contents of an edit are a few shapes of
  segments; similarities are given, not computed.
- The remaining components of section 1, for the reasons in `PROJECT.json`.

## 7. Plan

Done: all components that hold state or run concurrently, their runs, and the
proofs of section 5. Open, in this order:

1. Origins in the proofs of `Parsing`, for `SourcesAreExact` and `RowsKeepTheirCells`.
2. `DelimitersAreKept`: counting the newlines of the fallback's parents.
3. The knowledge base archive (export and import), if it grows concurrent parts.
