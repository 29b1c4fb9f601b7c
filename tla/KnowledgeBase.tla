----------------------------- MODULE KnowledgeBase -----------------------------
(***************************************************************************)
(* What the API does to the documents of one knowledge base while it is    *)
(* used: requests upload and ingest files, compensate a failed ingest,     *)
(* govern and delete documents, read and save their segments, ask for      *)
(* reindexing and for a new index, and search; the jobs they create stage  *)
(* segments and are finalized, incrementally or by a switch of the index.  *)
(*                                                                         *)
(* A request is a sequence of statements and calls; any other request, a   *)
(* job and the cleanup task may come between two of them.  Jobs are those  *)
(* of IndexingLease and SegmentPipeline with their rows and batches folded *)
(* into the steps the requests can tell apart.                             *)
(***************************************************************************)
EXTENDS Retrieval, Uploads

CONSTANTS Clients,
          Scenarios,     \* [technique, documents, requests] the system may start in
          SourceItems,   \* the segments parsing the source of a document yields, by its hash
          MaxFaults      \* bound on everything that goes wrong

\* Where a request begins, by its kind.
Entry == [ingest |-> "file", upload |-> "file", configure |-> "confirm", delete |-> "delete",
          govern |-> "govern", edit |-> "token", save |-> "save", reindex |-> "reindex",
          search |-> "index"]

\* What is measured of a segment: its place, its similarity to the queries, which
\* the store's client raises to zero, and the number of tokens it shares with them.
Measured(item) == item.id \in Nat /\ item.semantic \in Nat /\ item.keyword \in Nat

\* What the models of the API let through: a confirmation names documents, a
\* revision has segments, governance changes three columns, a search asks for an
\* item at least.
Accepted(request) ==
    /\ request.kind \in DOMAIN Entry
    /\ request.kind \in {"ingest", "upload"} =>
           /\ request.files \in Seq(ToSet(request.files))
           /\ \A i \in DOMAIN request.files : request.files[i].hash \in DOMAIN SourceItems
    /\ request.kind = "configure" =>
           request.documents # <<>> /\ request.documents \in Seq(ToSet(request.documents))
    /\ request.kind \in {"edit", "save"} =>
           /\ request.items # <<>> /\ request.items \in Seq(ToSet(request.items))
           /\ \A i \in DOMAIN request.items : Measured(request.items[i])
    /\ request.kind = "govern" =>
           /\ DOMAIN request.change \subseteq {"name", "enabled", "archived"}
           /\ \A column \in DOMAIN request.change \ {"name"} : request.change[column] \in BOOLEAN
    /\ request.kind = "search" =>
           /\ request.query.mode \in SemanticModes \cup KeywordModes
           /\ request.query.topK \in Nat \ {0} /\ request.query.threshold \in Nat
           /\ request.query.semantic \in Nat /\ request.query.keyword \in Nat

\* The id of a new document is new, and a source without text is not staged.
ASSUME KnowledgeBaseAssumption ==
    /\ Clients \subseteq Nat \ {0} /\ MaxFaults \in Nat
    /\ \A hash \in DOMAIN SourceItems :
           /\ SourceItems[hash] # <<>> /\ SourceItems[hash] \in Seq(ToSet(SourceItems[hash]))
           /\ \A i \in DOMAIN SourceItems[hash] : Measured(SourceItems[hash][i])
    /\ \A s \in Scenarios :
           /\ s.technique \in {"high_quality", "economy"}
           /\ DOMAIN s.documents \subseteq (Nat \ Clients) \X Nat
           /\ IsFiniteSet(DOMAIN s.documents)
           /\ \A d \in DOMAIN s.documents : s.documents[d].hash \in DOMAIN SourceItems
           /\ DOMAIN s.requests \subseteq Clients
           /\ \A c \in DOMAIN s.requests : Accepted(s.requests[c])

VARIABLES technique,
          documents,   \* the rows: [name, hash, deleted, enabled, archived]
          objects,     \* documents whose source is in object storage
          cleanups,    \* messages of the cleanup task
          indexes,     \* statuses, by the job that created the index
          jobs,        \* a sequence of jobs, each with its documents and its row
          segments,    \* ids to rows
          vectors,     \* ids in the Milvus collections
          revisions,   \* of a document: a sequence of [status, job, ...]
          client,      \* requests in progress
          faults,
          unclean,     \* history: documents a fault kept from being cleaned up
          unpublished, \* history: jobs whose finalization was lost
          mixed        \* history: documents staged twice in one index

vars == <<technique, documents, objects, cleanups, indexes, jobs, segments, vectors, revisions,
          client, faults, unclean, unpublished, mixed>>
library == <<documents, objects, cleanups, unclean>>
build == <<indexes, jobs, segments, vectors, revisions, unpublished, mixed>>

NoToken == -1
NoParent == 0

Live(d) == d \in DOMAIN documents /\ ~documents[d].deleted
Active == {i \in DOMAIN indexes : indexes[i] = "active"}

\* The segments list_segments and the retrieval queries may show.
Completed(index) ==
    {id \in DOMAIN segments : /\ segments[id].index = index /\ ~segments[id].deleted
                              /\ segments[id].status = "completed"}
Shown == UNION {Completed(i) : i \in Active}

Begun(request) ==
    [request |-> request, pc |-> Entry[request.kind], next |-> 1, items |-> <<>>, rejected |-> <<>>,
     token |-> NoToken, knew |-> {}, excused |-> {}, index |-> 0, semantic |-> <<>>,
     keyword |-> <<>>, rows |-> {}, steady |-> {}, answer |-> <<>>, code |-> 0]

Row(document) == [name |-> document.name, hash |-> document.hash, deleted |-> FALSE,
                  enabled |-> TRUE, archived |-> FALSE]

Id(j, d, item) == <<j, d[1], d[2], item>>

\* The rows job j stages for d: a parent and, in economy indexes, everything
\* needs no vector.
Staging(j, index, d, items, general) ==
    [id \in {Id(j, d, items[i].id) : i \in DOMAIN items} |->
        LET item == items[CHOOSE i \in DOMAIN items : Id(j, d, items[i].id) = id]
        IN  [document |-> d, index |-> index, job |-> j, type |-> item.type,
             parent |-> IF item.parent = NoParent THEN <<>> ELSE Id(j, d, item.parent),
             semantic |-> item.semantic, keyword |-> item.keyword, keyed |-> FALSE,
             ready |-> general \/ item.type = "parent",
             status |-> "indexing", deleted |-> FALSE]]

Together(functions) ==
    [x \in UNION {DOMAIN f : f \in functions} |->
        (CHOOSE f \in functions : x \in DOMAIN f)[x]]

\* A function with those values of another that it has none for.
Joined(f, g) == [x \in DOMAIN f \cup DOMAIN g |-> IF x \in DOMAIN f THEN f[x] ELSE g[x]]
With(f, x, value) == Joined(f, [y \in {x} |-> value])

Init ==
    \E s \in Scenarios :
        LET present == DOMAIN s.documents
            staged == Together({Staging(1, 1, d, SourceItems[s.documents[d].hash], TRUE) :
                                    d \in present})
        IN  /\ technique = s.technique
            /\ documents = [d \in present |-> Row(s.documents[d])]
            /\ objects = present /\ cleanups = {}
            /\ indexes = IF present = {} THEN <<>> ELSE <<"active">>
            /\ jobs = IF present = {} THEN <<>>
                      ELSE <<[full |-> TRUE, documents |-> present, target |-> 1, version |-> 0,
                              items |-> <<>>, row |-> "completed", status |-> "completed",
                              due |-> FALSE]>>
            /\ segments = [id \in DOMAIN staged |->
                             [staged[id] EXCEPT !.status = "completed",
                                                !.keyed = staged[id].type # "parent"]]
            /\ vectors = IF s.technique = "economy" THEN {}
                         ELSE {id \in DOMAIN staged : staged[id].type # "parent"}
            /\ revisions = [d \in present |-> <<>>]
            /\ client = [c \in DOMAIN s.requests |-> Begun(s.requests[c])]
            /\ faults = 0 /\ unclean = {} /\ unpublished = {} /\ mixed = {}

Request(c) == client[c].request
Go(c, state) == client' = [client EXCEPT ![c] = state]
Continue(c, pc) == Go(c, [client[c] EXCEPT !.pc = pc])
Finish(c, code) == Go(c, [client[c] EXCEPT !.pc = "done", !.code = code])
At(c, pc) == client[c].pc = pc

Fault == faults < MaxFaults /\ faults' = faults + 1
NoFault == faults' = faults

----------------------------------------------------------------------------
(* upload_one, file after file.                                            *)

File(c) == Request(c).files[client[c].next]
NewId(c) == <<c, client[c].next>>
NextFile(c, state) == [state EXCEPT !.pc = "file", !.next = @ + 1]
Item(d, duplicate) == [document |-> d, duplicate |-> duplicate]

\* find_duplicate: live, and of the same name and content.
Duplicates(file) ==
    {d \in DOMAIN documents : /\ Live(d) /\ documents[d].name = file.name
                              /\ documents[d].hash = file.hash}

CheckFile(c) ==
    /\ At(c, "file") /\ client[c].next <= Len(Request(c).files)
    /\ IF Rejection(File(c)) # "none"
       THEN Go(c, NextFile(c, [client[c] EXCEPT !.rejected = Append(@, Rejection(File(c)))]))
       ELSE IF Duplicates(File(c)) # {}
       THEN \E d \in Duplicates(File(c)) :
                Go(c, NextFile(c, [client[c] EXCEPT !.items = Append(@, Item(d, TRUE))]))
       ELSE Continue(c, "put")
    /\ NoFault /\ UNCHANGED <<technique, library, build>>

PutObject(c) ==
    /\ At(c, "put")
    /\ objects' = objects \cup {NewId(c)}
    /\ Continue(c, "create")
    /\ NoFault /\ UNCHANGED <<technique, documents, cleanups, unclean, build>>

\* A whole batch ends with the failure of one file: an ingest undoes what it
\* created, an upload leaves it.
Aborted(c) ==
    IF Request(c).kind = "ingest"
    THEN [client[c] EXCEPT !.pc = "compensate", !.next = 1, !.code = 503]
    ELSE [client[c] EXCEPT !.pc = "done", !.code = 503]

\* The storage may have kept the object although it reported a failure.
PutFails(c) ==
    /\ At(c, "put") /\ Fault
    /\ \/ UNCHANGED <<objects, unclean>>
       \/ objects' = objects \cup {NewId(c)} /\ unclean' = unclean \cup {NewId(c)}
    /\ Go(c, Aborted(c))
    /\ UNCHANGED <<technique, documents, cleanups, build>>

Created(c) ==
    /\ documents' = With(documents, NewId(c), Row(File(c)))
    /\ revisions' = With(revisions, NewId(c), <<>>)

CreateDocument(c) ==
    /\ At(c, "create")
    /\ Created(c)
    /\ Go(c, NextFile(c, [client[c] EXCEPT !.items = Append(@, Item(NewId(c), FALSE))]))
    /\ NoFault
    /\ UNCHANGED <<technique, objects, cleanups, unclean, indexes, jobs, segments, vectors,
                   unpublished, mixed>>

\* The commit fails, or its answer is lost.
CreateFails(c) ==
    /\ At(c, "create") /\ Fault
    /\ \/ UNCHANGED <<documents, revisions, unclean>>
       \/ Created(c) /\ unclean' = unclean \cup {NewId(c)}
    /\ Continue(c, "undo")
    /\ UNCHANGED <<technique, objects, cleanups, indexes, jobs, segments, vectors, unpublished,
                   mixed>>

\* Mutant of UndoPut: the object is left to the cleanup of a document that
\* does not exist.
UndoNothing(c) == At(c, "undo") /\ Go(c, Aborted(c)) /\ NoFault /\ UNCHANGED <<technique, library, build>>

\* The object of this upload only is removed again, if the storage lets it.
UndoPut(c) ==
    /\ At(c, "undo")
    /\ \/ objects' = objects \ {NewId(c)} /\ NoFault /\ UNCHANGED unclean
       \/ Fault /\ unclean' = unclean \cup {NewId(c)} /\ UNCHANGED objects
    /\ Go(c, Aborted(c))
    /\ UNCHANGED <<technique, documents, cleanups, build>>

FilesDone(c) ==
    /\ At(c, "file") /\ client[c].next > Len(Request(c).files)
    /\ IF Request(c).kind = "upload" THEN Finish(c, 200)
       ELSE IF client[c].items = <<>> THEN Finish(c, 201)
       ELSE Continue(c, "confirm")
    /\ NoFault /\ UNCHANGED <<technique, library, build>>

----------------------------------------------------------------------------
(* ProcessRuleService.confirm, and the compensation of an ingest.          *)

Confirmed(c) ==
    IF Request(c).kind = "ingest" THEN [i \in DOMAIN client[c].items |-> client[c].items[i].document]
    ELSE Request(c).documents

\* As many live documents as ids: an id may not come twice.
AllConfirmable(c) ==
    Cardinality({d \in ToSet(Confirmed(c)) : Live(d)}) = Len(Confirmed(c))

Job(full, docs, target, version, items) ==
    [full |-> full, documents |-> docs, target |-> target, version |-> version, items |-> items,
     row |-> "pending", status |-> "unfinished", due |-> FALSE]
NewJob == Len(jobs) + 1
FullJob(docs) ==
    /\ jobs' = Append(jobs, Job(TRUE, docs, NewJob, 0, <<>>))
    /\ indexes' = With(indexes, NewJob, "building")

\* A new index over these documents alone.
Confirm(c) ==
    /\ At(c, "confirm")
    /\ IF AllConfirmable(c)
       THEN FullJob(ToSet(Confirmed(c))) /\ Finish(c, 201)
       ELSE /\ UNCHANGED <<jobs, indexes>>
            /\ IF Request(c).kind = "ingest"
               THEN Go(c, [client[c] EXCEPT !.pc = "compensate", !.next = 1, !.code = 500])
               ELSE Finish(c, 422)
    /\ NoFault /\ UNCHANGED <<technique, library, segments, vectors, revisions, unpublished, mixed>>

\* The transaction fails, or its answer is lost.
ConfirmFails(c) ==
    /\ At(c, "confirm") /\ Fault
    /\ \/ UNCHANGED <<jobs, indexes>>
       \/ AllConfirmable(c) /\ FullJob(ToSet(Confirmed(c)))
    /\ IF Request(c).kind = "ingest" THEN Go(c, Aborted(c)) ELSE Finish(c, 503)
    /\ UNCHANGED <<technique, library, segments, vectors, revisions, unpublished, mixed>>

Compensated(c) == client[c].items[client[c].next]
NextItem(c) == [client[c] EXCEPT !.pc = "compensate", !.next = @ + 1]

\* Mutant of Skipped: duplicates are compensated as well.
SkippedNone(c) == ~Live(Compensated(c).document)

\* Nothing is undone for a duplicate or a document deleted meanwhile.
Skipped(c) == Compensated(c).duplicate \/ ~Live(Compensated(c).document)

\* compensate_upload commits the soft delete before it removes the object.
Compensate(c) ==
    /\ At(c, "compensate")
    /\ IF client[c].next > Len(client[c].items)
       THEN Continue(c, "done") /\ UNCHANGED documents
       ELSE IF Skipped(c) THEN Go(c, NextItem(c)) /\ UNCHANGED documents
       ELSE /\ documents' = [documents EXCEPT ![Compensated(c).document].deleted = TRUE]
            /\ Continue(c, "remove")
    /\ NoFault /\ UNCHANGED <<technique, objects, cleanups, unclean, build>>

CompensateFails(c) ==
    /\ At(c, "compensate") /\ client[c].next <= Len(client[c].items) /\ ~Skipped(c)
    /\ Fault
    /\ unclean' = unclean \cup {Compensated(c).document}
    /\ Go(c, NextItem(c))
    /\ UNCHANGED <<technique, documents, objects, cleanups, build>>

\* A storage failure leaves the object to the cleanup task, if its message is
\* taken.
RemoveCompensated(c) ==
    LET d == Compensated(c).document
    IN  /\ At(c, "remove")
        /\ \/ objects' = objects \ {d} /\ NoFault /\ UNCHANGED <<cleanups, unclean>>
           \/ Fault /\ cleanups' = cleanups \cup {d} /\ UNCHANGED <<objects, unclean>>
           \/ Fault /\ unclean' = unclean \cup {d} /\ UNCHANGED <<objects, cleanups>>
        /\ Go(c, NextItem(c))
        /\ UNCHANGED <<technique, documents, build>>

----------------------------------------------------------------------------
(* Governance, deletion and its cleanup.                                   *)

Govern(c) ==
    LET d == Request(c).document
    IN  /\ At(c, "govern")
        /\ IF Live(d)
           THEN /\ documents' = [documents EXCEPT ![d] = Joined(Request(c).change, @)]
                /\ Finish(c, 200)
           ELSE Finish(c, 404) /\ UNCHANGED documents
        /\ NoFault /\ UNCHANGED <<technique, objects, cleanups, unclean, build>>

Delete(c) ==
    LET d == Request(c).document
    IN  /\ At(c, "delete")
        /\ IF Live(d)
           THEN documents' = [documents EXCEPT ![d].deleted = TRUE] /\ Continue(c, "dispatch")
           ELSE Finish(c, 404) /\ UNCHANGED documents
        /\ NoFault /\ UNCHANGED <<technique, objects, cleanups, unclean, build>>

\* A refused message is logged, and that is all.
DispatchCleanup(c) ==
    LET d == Request(c).document
    IN  /\ At(c, "dispatch")
        /\ \/ cleanups' = cleanups \cup {d} /\ NoFault /\ UNCHANGED unclean
           \/ Fault /\ unclean' = unclean \cup {d} /\ UNCHANGED cleanups
        /\ Finish(c, 200)
        /\ UNCHANGED <<technique, documents, objects, build>>

\* The segments when some are deleted and others published.
Updated(deleted, published) ==
    [id \in DOMAIN segments |->
        IF id \in deleted THEN [segments[id] EXCEPT !.deleted = TRUE]
        ELSE IF id \in published THEN [segments[id] EXCEPT !.status = "completed"]
        ELSE segments[id]]

\* The object first; if that works, the segments.
Cleanup(d) ==
    /\ d \in cleanups
    /\ cleanups' = cleanups \ {d}
    /\ objects' = objects \ {d}
    /\ segments' = Updated({id \in DOMAIN segments : segments[id].document = d}, {})
    /\ NoFault
    /\ UNCHANGED <<technique, documents, unclean, indexes, jobs, vectors, revisions, client,
                   unpublished, mixed>>

\* The storage fails and the task returns, or the database fails after it.
CleanupFails(d) ==
    /\ d \in cleanups /\ Fault
    /\ cleanups' = cleanups \ {d}
    /\ objects' \in {objects, objects \ {d}}
    /\ unclean' = unclean \cup {d}
    /\ UNCHANGED <<technique, documents, build, client>>

----------------------------------------------------------------------------
(* The segment editor: token, content, save.                               *)

Latest(d) == Len(revisions[d])
Settled == {"completed", "failed", "cancelled"}
Published(d) == {v \in DOMAIN revisions[d] : revisions[d][v].status = "completed"}

\* get_segment_revision
ReadToken(c) ==
    LET d == Request(c).document
    IN  /\ At(c, "token")
        /\ IF ~Live(d) THEN Finish(c, 404)
           ELSE IF Latest(d) > 0 /\ revisions[d][Latest(d)].status \notin Settled
           THEN Finish(c, 409)
           ELSE Go(c, [client[c] EXCEPT
                  !.pc = "content", !.token = Latest(d),
                  !.excused = DOMAIN revisions[d] \ Published(d)])
        /\ NoFault /\ UNCHANGED <<technique, library, build>>

\* list_segments; what matters of it is which revisions it may show.
ReadContent(c) ==
    LET d == Request(c).document
    IN  /\ At(c, "content")
        /\ IF ~Live(d) THEN Finish(c, 404)
           ELSE IF \A id \in Shown : segments[id].document # d THEN Finish(c, 200)
           ELSE Go(c, [client[c] EXCEPT !.pc = "save", !.knew = Published(d)])
        /\ NoFault /\ UNCHANGED <<technique, library, build>>

\* The checks of create_revision_and_job on the items it is sent.
BadItems(items) ==
    \/ \E i \in DOMAIN items :
           \/ items[i].blank
           \/ \E k \in 1..(i - 1) : items[k].id = items[i].id
           \/ items[i].parent # NoParent /\ \A k \in 1..i : items[k].id # items[i].parent
    \/ \E i \in DOMAIN items : items[i].type = "child" /\ items[i].parent = NoParent

\* Mutant of Stale: a token from the past is good enough.
StaleInFuture(c) == client[c].token # NoToken /\ client[c].token > Latest(Request(c).document)

Stale(c) == client[c].token # NoToken /\ client[c].token # Latest(Request(c).document)

Editing(d) ==
    \E j \in DOMAIN jobs : /\ jobs[j].version > 0 /\ jobs[j].status = "unfinished"
                           /\ d \in jobs[j].documents

\* One transaction under the lock of the document row.
Save(c) ==
    LET d == Request(c).document
        items == Request(c).items
    IN  /\ At(c, "save")
        /\ IF ~Live(d) THEN Finish(c, 404) /\ UNCHANGED <<jobs, revisions>>
           ELSE IF Stale(c) THEN Finish(c, 409) /\ UNCHANGED <<jobs, revisions>>
           ELSE IF BadItems(items) \/ Active = {}
           THEN Finish(c, 422) /\ UNCHANGED <<jobs, revisions>>
           ELSE IF Editing(d) THEN Finish(c, 409) /\ UNCHANGED <<jobs, revisions>>
           ELSE /\ jobs' = Append(jobs, Job(FALSE, {d}, CHOOSE i \in Active : TRUE,
                                            Latest(d) + 1, items))
                /\ revisions' = [revisions EXCEPT ![d] = Append(@,
                     [status |-> "pending", job |-> NewJob, token |-> client[c].token,
                      knew |-> client[c].knew, excused |-> client[c].excused,
                      published |-> Published(d)])]
                /\ Finish(c, 202)
        /\ NoFault /\ UNCHANGED <<technique, library, indexes, segments, vectors, unpublished, mixed>>

\* ensure_compatibility_job_document: an unfinished row of the document is
\* reused; without an active index the job builds one.
Reindex(c) ==
    LET d == Request(c).document
        waiting == \E j \in DOMAIN jobs : /\ d \in jobs[j].documents
                                          /\ jobs[j].row \notin {"completed", "failed"}
    IN  /\ At(c, "reindex")
        /\ IF ~Live(d) THEN Finish(c, 404) /\ UNCHANGED <<jobs, indexes>>
           ELSE /\ Finish(c, 202)
                /\ IF waiting THEN UNCHANGED <<jobs, indexes>>
                   ELSE IF Active = {} THEN FullJob({d})
                   ELSE /\ jobs' = Append(jobs, Job(FALSE, {d}, CHOOSE i \in Active : TRUE, 0, <<>>))
                        /\ UNCHANGED indexes
        /\ NoFault
        /\ UNCHANGED <<technique, library, segments, vectors, revisions, unpublished, mixed>>

----------------------------------------------------------------------------
(* Jobs.                                                                   *)

SetJob(j, state) == jobs' = [jobs EXCEPT ![j] = state]

\* Mutant of RowFails: a status outside the vocabulary of jobs.
RowFailsUnknown(j) ==
    SetJob(j, [jobs[j] EXCEPT !.row = "failed", !.status = "error", !.due = TRUE])

RowFails(j) ==
    SetJob(j, [jobs[j] EXCEPT !.row = "failed", !.status = "failed", !.due = TRUE])

\* execution_context refuses a deleted document: its row waits for ever.
Load(j) ==
    /\ jobs[j].row = "pending" /\ \A d \in jobs[j].documents : Live(d)
    /\ SetJob(j, [jobs[j] EXCEPT !.row = "loaded"])
    /\ NoFault
    /\ UNCHANGED <<technique, library, client, indexes, segments, vectors, revisions, unpublished,
                   mixed>>

ItemsOf(j, d) == IF jobs[j].version > 0 THEN jobs[j].items ELSE SourceItems[documents[d].hash]
OwnSegments(j) == {id \in DOMAIN segments : segments[id].job = j}
Mutable(ids) == \A id \in ids : segments[id].status = "indexing" /\ ~segments[id].deleted

\* Staged by another job for the same document and index, and still there.
StagedBeside(j, d) ==
    \E id \in DOMAIN segments :
        /\ segments[id].job # j /\ segments[id].document = d
        /\ segments[id].index = jobs[j].target
        /\ segments[id].status = "indexing" /\ ~segments[id].deleted

\* A retry finds its rows, or conflicts with what became of them.
Stage(j) ==
    LET new == Together({Staging(j, jobs[j].target, d, ItemsOf(j, d), technique = "economy") :
                            d \in jobs[j].documents})
    IN  /\ jobs[j].row = "loaded"
        /\ IF Mutable(OwnSegments(j))
           THEN /\ segments' = Joined(segments, new)
                /\ SetJob(j, [jobs[j] EXCEPT !.row = "staged"])
                /\ mixed' = mixed \cup {d \in jobs[j].documents : StagedBeside(j, d)}
           ELSE RowFails(j) /\ UNCHANGED <<segments, mixed>>
        /\ NoFault
        /\ UNCHANGED <<technique, library, client, indexes, vectors, revisions, unpublished>>

\* The revision of the job, if it has one, becomes status.
Revised(j, status) ==
    IF jobs[j].version = 0 THEN revisions
    ELSE LET d == CHOOSE d \in jobs[j].documents : TRUE
         IN  [revisions EXCEPT ![d][jobs[j].version].status = status]

\* The vectors, the marks and the keywords of what is no parent; the row is
\* completed, which opens a revision that an earlier attempt had failed again.
Embed(j) ==
    LET own == {id \in OwnSegments(j) : segments[id].type # "parent"}
    IN  /\ jobs[j].row = "staged"
        /\ vectors' = IF technique = "economy" THEN vectors ELSE vectors \cup own
        /\ IF Mutable(own)
           THEN /\ segments' = [id \in DOMAIN segments |->
                     IF id \in own THEN [segments[id] EXCEPT !.ready = TRUE, !.keyed = TRUE]
                     ELSE segments[id]]
                /\ SetJob(j, [jobs[j] EXCEPT !.row = "completed", !.status = "completed",
                                             !.due = TRUE])
                /\ revisions' = Revised(j, "pending")
           ELSE RowFails(j) /\ UNCHANGED <<segments, revisions>>
        /\ NoFault
        /\ UNCHANGED <<technique, library, client, indexes, unpublished, mixed>>

\* The engine fails for good.
FailJob(j) ==
    /\ jobs[j].row \in {"loaded", "staged"} /\ Fault
    /\ RowFails(j)
    /\ UNCHANGED <<technique, library, client, indexes, segments, vectors, revisions, unpublished,
                   mixed>>

\* retry_job, of an incremental job: the revision keeps its status.
Retry(j) ==
    /\ ~jobs[j].full /\ jobs[j].row = "failed" /\ Fault
    /\ SetJob(j, [jobs[j] EXCEPT !.row = "pending", !.status = "unfinished", !.due = FALSE])
    /\ UNCHANGED <<technique, library, client, indexes, segments, vectors, revisions, unpublished,
                   mixed>>

\* The process dies between the refresh of the summary and the finalization.
LoseFinalization(j) ==
    /\ jobs[j].due /\ Fault
    /\ SetJob(j, [jobs[j] EXCEPT !.due = FALSE])
    /\ unpublished' = unpublished \cup {j}
    /\ UNCHANGED <<technique, library, client, indexes, segments, vectors, revisions, mixed>>

Due(j) == jobs[j].due /\ jobs[j].row \in {"completed", "failed"}
Finalized(j, status) == SetJob(j, [jobs[j] EXCEPT !.status = status, !.due = FALSE])

InTarget(j) == {id \in DOMAIN segments : /\ segments[id].index = jobs[j].target
                                         /\ segments[id].document \in jobs[j].documents
                                         /\ ~segments[id].deleted}
Staged(j) == {id \in InTarget(j) : segments[id].status = "indexing"}

\* Mutant of FinalizeFailed: the revision is forgotten.
FinalizeFailedJobOnly(j) ==
    /\ Due(j) /\ ~jobs[j].full /\ jobs[j].row = "failed"
    /\ Finalized(j, "failed")
    /\ NoFault
    /\ UNCHANGED <<technique, library, client, indexes, segments, vectors, revisions, unpublished,
                   mixed>>

FinalizeFailed(j) ==
    /\ Due(j) /\ ~jobs[j].full /\ jobs[j].row = "failed"
    /\ revisions' = Revised(j, "failed")
    /\ Finalized(j, "failed")
    /\ NoFault
    /\ UNCHANGED <<technique, library, client, indexes, segments, vectors, unpublished, mixed>>

\* The job fails, its revision stays as it is.
FinalizeInvalid(j) ==
    /\ Due(j) /\ ~jobs[j].full /\ jobs[j].row = "completed"
    /\ Staged(j) = {} \/ \E id \in Staged(j) : ~segments[id].ready
    /\ Finalized(j, "failed")
    /\ NoFault
    /\ UNCHANGED <<technique, library, client, indexes, segments, vectors, revisions, unpublished,
                   mixed>>

\* What the document had in the index.
Replaced(j) == {id \in InTarget(j) : segments[id].status = "completed"}

\* Whatever is staged for the document is published.
FinalizeIncremental(j) ==
    /\ Due(j) /\ ~jobs[j].full /\ jobs[j].row = "completed"
    /\ Staged(j) # {} /\ \A id \in Staged(j) : segments[id].ready
    /\ segments' = Updated(Replaced(j), Staged(j))
    /\ revisions' = Revised(j, "completed")
    /\ Finalized(j, "completed")
    /\ NoFault
    /\ UNCHANGED <<technique, library, client, indexes, vectors, unpublished, mixed>>

\* A full build switches the index, or fails (IndexActivation has the details).
FinalizeFull(j) ==
    LET whole == /\ jobs[j].row = "completed"
                 /\ \A d \in jobs[j].documents :
                        \E id \in InTarget(j) : segments[id].document = d
                 /\ \A id \in InTarget(j) : segments[id].status = "indexing" /\ segments[id].ready
        old == Active \ {jobs[j].target}
    IN  /\ Due(j) /\ jobs[j].full
        /\ IF whole
           THEN /\ indexes' = [i \in DOMAIN indexes |->
                                 IF i = jobs[j].target THEN "active"
                                 ELSE IF i \in old THEN "retired" ELSE indexes[i]]
                /\ segments' = Updated({id \in DOMAIN segments : segments[id].index \in old},
                                       InTarget(j))
                /\ Finalized(j, "completed")
           ELSE /\ indexes' = [indexes EXCEPT ![jobs[j].target] = "failed"]
                /\ Finalized(j, "failed")
                /\ UNCHANGED segments
        /\ NoFault
        /\ UNCHANGED <<technique, library, client, vectors, revisions, unpublished, mixed>>

----------------------------------------------------------------------------
(* RetrievalService.retrieve, query by query.                              *)

Query(c) == Request(c).query
Parent(id) == segments[id].parent

\* What the rows query would return now.
Retrievable(index) ==
    {id \in Completed(index) : LET d == segments[id].document
                               IN  Live(d) /\ documents[d].enabled /\ ~documents[d].archived}

ReadIndex(c) ==
    /\ At(c, "index")
    /\ IF Active = {} THEN Finish(c, 200)
       ELSE \E i \in Active :
                Go(c, [client[c] EXCEPT !.pc = "hits", !.index = i, !.steady = Retrievable(i)])
    /\ NoFault /\ UNCHANGED <<technique, library, build>>

\* The vectors of an index, of segments that are deleted as well.
SearchVectors(c) ==
    LET ofIndex == {id \in vectors : segments[id].index = client[c].index}
        hits == Nearest([id \in ofIndex |-> segments[id].semantic], HitLimit(Query(c).topK))
    IN  /\ At(c, "hits")
        /\ Go(c, [client[c] EXCEPT !.pc = "keywords", !.semantic =
             IF Query(c).mode \in SemanticModes /\ technique = "high_quality"
             THEN [id \in hits |-> segments[id].semantic] ELSE <<>>])
        /\ NoFault /\ UNCHANGED <<technique, library, build>>

SearchFails(c) ==
    /\ At(c, "hits") /\ Query(c).mode \in SemanticModes /\ technique = "high_quality"
    /\ Fault
    /\ Finish(c, 503)
    /\ UNCHANGED <<technique, library, build>>

\* _keyword_rows looks at the segments only, not at their documents.
SearchKeywords(c) ==
    LET matching == {id \in Completed(client[c].index) :
                        segments[id].keyed /\ segments[id].keyword > 0}
        keyword == IF Query(c).mode \in KeywordModes
                   THEN [id \in matching |-> segments[id].keyword] ELSE <<>>
    IN  /\ At(c, "keywords")
        /\ IF Found(client[c].semantic, keyword) = {}
           THEN Go(c, [client[c] EXCEPT !.pc = "done", !.code = 200,
                                        !.steady = @ \cap Retrievable(client[c].index)])
           ELSE Go(c, [client[c] EXCEPT !.pc = "rows", !.keyword = keyword])
        /\ NoFault /\ UNCHANGED <<technique, library, build>>

\* Mutant of ReadRows: segments are not looked up again.
ReadRowsUnfiltered(c) ==
    /\ At(c, "rows")
    /\ Go(c, [client[c] EXCEPT
         !.pc = "parents", !.rows = Found(client[c].semantic, client[c].keyword)])
    /\ NoFault /\ UNCHANGED <<technique, library, build>>

ReadRows(c) ==
    LET found == Found(client[c].semantic, client[c].keyword)
    IN  /\ At(c, "rows")
        /\ Go(c, [client[c] EXCEPT
             !.pc = "parents", !.rows = Retrievable(client[c].index) \cap found,
             !.steady = @ \cap Retrievable(client[c].index)])
        /\ NoFault /\ UNCHANGED <<technique, library, build>>

\* The parents, and the answer.
ReadParents(c) ==
    LET wanted == {Parent(id) : id \in client[c].rows}
        parents == {id \in Completed(client[c].index) \cap wanted : segments[id].type = "parent"}
        candidates == Candidates(Query(c), client[c].semantic, client[c].keyword, client[c].rows)
        contexts == [id \in client[c].rows |-> Context(id, Parent(id), parents)]
    IN  /\ At(c, "parents")
        /\ Go(c, [client[c] EXCEPT
             !.pc = "done", !.code = 200,
             !.answer = Items(candidates, contexts, Query(c).topK)])
        /\ NoFault /\ UNCHANGED <<technique, library, build>>

----------------------------------------------------------------------------
\* The API process dies: what an upload or a deletion had begun stays.
Die(c) ==
    /\ client[c].pc \in {"create", "undo", "compensate", "remove", "dispatch", "confirm", "file"}
    /\ Fault
    /\ unclean' = unclean
         \cup (IF client[c].pc \in {"create", "undo"} THEN {NewId(c)} ELSE {})
         \cup (IF client[c].pc = "dispatch" THEN {Request(c).document} ELSE {})
         \cup {client[c].items[i].document : i \in DOMAIN client[c].items}
    /\ Continue(c, "done")
    /\ UNCHANGED <<technique, documents, objects, cleanups, build>>

Uploading(c) ==
    \/ CheckFile(c) \/ PutObject(c) \/ PutFails(c) \/ CreateDocument(c) \/ CreateFails(c)
    \/ UndoPut(c) \/ FilesDone(c) \/ Confirm(c) \/ ConfirmFails(c) \/ Compensate(c)
    \/ CompensateFails(c) \/ RemoveCompensated(c)
Governing(c) == Govern(c) \/ Delete(c) \/ DispatchCleanup(c)
Revising(c) == ReadToken(c) \/ ReadContent(c) \/ Save(c) \/ Reindex(c)
Searching(c) ==
    \/ ReadIndex(c) \/ SearchVectors(c) \/ SearchFails(c) \/ SearchKeywords(c) \/ ReadRows(c)
    \/ ReadParents(c)
Working(j) ==
    \/ Load(j) \/ Stage(j) \/ Embed(j) \/ FailJob(j) \/ Retry(j) \/ LoseFinalization(j)
    \/ FinalizeFailed(j) \/ FinalizeInvalid(j) \/ FinalizeIncremental(j) \/ FinalizeFull(j)

Next ==
    \/ \E c \in DOMAIN client :
           Uploading(c) \/ Governing(c) \/ Revising(c) \/ Searching(c) \/ Die(c)
    \/ \E j \in DOMAIN jobs : Working(j)
    \/ \E d \in DOMAIN documents : Cleanup(d) \/ CleanupFails(d)

Spec == Init /\ [][Next]_vars
================================================================================
