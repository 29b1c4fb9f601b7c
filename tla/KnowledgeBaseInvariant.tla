------------------------- MODULE KnowledgeBaseInvariant -------------------------
(***************************************************************************)
(* The inductive invariants of KnowledgeBase: of its requests, of storage  *)
(* and database, of the jobs with their segments, of the revisions, and of *)
(* searches.                                                               *)
(***************************************************************************)
EXTENDS KnowledgeBaseProperties

\* A sequence, of whatever it holds.
IsSeq(s) == s \in Seq(ToSet(s))

----------------------------------------------------------------------------
(* Requests and documents.                                                 *)

StagesOf ==
    [ingest |-> {"file", "put", "create", "undo", "confirm", "compensate", "remove", "done"},
     upload |-> {"file", "put", "create", "undo", "done"},
     configure |-> {"confirm", "done"},
     delete |-> {"delete", "dispatch", "done"},
     govern |-> {"govern", "done"},
     edit |-> {"token", "content", "save", "done"},
     save |-> {"save", "done"},
     reindex |-> {"reindex", "done"},
     search |-> {"index", "hits", "keywords", "rows", "parents", "done"}]

ClientFields == {"request", "pc", "next", "items", "rejected", "token", "knew", "excused", "index",
                 "semantic", "keyword", "rows", "steady", "answer", "code"}

\* A request is at a stage of its kind; the documents it collected exist; it
\* has an error code while it compensates.
ClientOK(c, s, ds) ==
    /\ DOMAIN s = ClientFields /\ Accepted(s.request) /\ s.pc \in StagesOf[s.request.kind]
    /\ s.next \in Nat \ {0} /\ s.code \in Nat /\ IsSeq(s.items)
    /\ s.pc \in {"put", "create", "undo"} => s.next <= Len(s.request.files)
    /\ \A i \in DOMAIN s.items : /\ s.items[i].document \in DOMAIN ds
                                 /\ s.items[i].duplicate \in BOOLEAN
                                 /\ ~s.items[i].duplicate => s.items[i].document[1] = c
    /\ s.pc \in {"file", "put", "create", "undo", "confirm"} => s.code = 0
    /\ s.pc \in {"compensate", "remove"} => s.code >= 500
    /\ s.pc = "dispatch" => s.request.document \in DOMAIN ds /\ ds[s.request.document].deleted
    /\ s.pc = "remove" =>
           /\ s.next \in DOMAIN s.items /\ ~s.items[s.next].duplicate
           /\ ds[s.items[s.next].document].deleted

DocumentFields == {"name", "hash", "deleted", "enabled", "archived"}
DocumentsOK ==
    \A d \in DOMAIN documents :
        /\ d \in Nat \X Nat /\ DOMAIN documents[d] = DocumentFields
        /\ documents[d].hash \in DOMAIN SourceItems
        /\ {documents[d].deleted, documents[d].enabled, documents[d].archived} \subseteq BOOLEAN

RequestInv ==
    /\ DOMAIN client \subseteq Clients /\ faults \in 0..MaxFaults
    /\ \A c \in DOMAIN client : ClientOK(c, client[c], documents)
    /\ DocumentsOK

----------------------------------------------------------------------------
(* Storage.                                                                *)

\* The ids an upload is going to give are free.
IdsAreFree ==
    \A c \in DOMAIN client : client[c].pc \in {"file", "put", "create"} =>
        \A i \in Nat : i >= client[c].next => <<c, i>> \notin DOMAIN documents

\* An upload has put the object of the row it is about to create; one it takes
\* back has no row, unless an answer was lost.
UploadsKnowTheirObject ==
    \A c \in DOMAIN client :
        /\ client[c].pc = "create" => NewId(c) \in objects
        /\ client[c].pc = "undo" => NewId(c) \notin DOMAIN documents \/ NewId(c) \in unclean

CleanupsAreOfDeleted ==
    \A d \in cleanups : d \in DOMAIN documents /\ documents[d].deleted

\* The request that is going to remove an object, or to have it removed.
Attends(s, c, d) ==
    \/ s.pc \in {"create", "undo"} /\ d = <<c, s.next>>
    \/ s.pc = "remove" /\ d = s.items[s.next].document
    \/ s.pc = "dispatch" /\ d = s.request.document

ObjectsAreAttended ==
    \A d \in objects : \/ Live(d) \/ d \in unclean \/ d \in cleanups
                       \/ \E c \in DOMAIN client : Attends(client[c], c, d)
LiveHaveSources == \A d \in DOMAIN documents : ~documents[d].deleted => d \in objects \cup unclean

\* What a failing ingest has undone so far.
UndoneSoFar ==
    \A c \in DOMAIN client :
        LET s == client[c]
        IN  s.request.kind = "ingest" /\ s.code >= 500 =>
                \A i \in DOMAIN s.items : s.pc = "done" \/ i < s.next =>
                    \/ s.items[i].duplicate
                    \/ documents[s.items[i].document].deleted
                    \/ s.items[i].document \in unclean

DeletionsHaveReasons ==
    \A d \in DOMAIN documents : documents[d].deleted =>
        \/ \E c \in DOMAIN client : Request(c).kind = "delete" /\ Request(c).document = d
        \/ d[1] \in DOMAIN client /\ FailedIngest(d[1])

FilesAreKnown == \A d \in objects \cup unclean : d \in DOMAIN documents \/ d[1] \in DOMAIN client

StorageInv ==
    /\ RequestInv /\ IdsAreFree /\ UploadsKnowTheirObject /\ CleanupsAreOfDeleted
    /\ ObjectsAreAttended /\ LiveHaveSources /\ UndoneSoFar /\ DeletionsHaveReasons /\ FilesAreKnown

----------------------------------------------------------------------------
(* Jobs, indexes and segments.                                             *)

JobFields == {"full", "documents", "target", "version", "items", "row", "status", "due"}

\* A full build has its own index, an incremental one works on one document in
\* an index that was active when it began.
JobOK(j, job) ==
    /\ DOMAIN job = JobFields /\ job.full \in BOOLEAN /\ job.due \in BOOLEAN
    /\ job.row \in {"pending", "loaded", "staged", "completed", "failed"}
    /\ job.status \in {"unfinished", "completed", "failed"}
    /\ job.row \in {"completed", "failed"} \/ ~job.due
    /\ job.version \in Nat /\ job.documents \subseteq DOMAIN documents
    /\ job.target \in DOMAIN indexes
    /\ job.full => /\ job.version = 0 /\ job.target = j
                   /\ job.row \notin {"completed", "failed"} \/ job.due => indexes[j] = "building"
    /\ ~job.full => /\ \E d \in DOMAIN documents : job.documents = {d}
                    /\ indexes[job.target] \in {"active", "retired"}
    /\ job.version > 0 => ~job.full /\ job.items # <<>> /\ IsSeq(job.items)

JobsOK ==
    /\ IsSeq(jobs) /\ \A j \in DOMAIN jobs : JobOK(j, jobs[j])
    /\ DOMAIN indexes = {j \in DOMAIN jobs : jobs[j].full}
    /\ \A i \in DOMAIN indexes : indexes[i] \in {"building", "active", "failed", "retired"}

SegmentFields == {"document", "index", "job", "type", "parent", "semantic", "keyword", "keyed",
                  "ready", "status", "deleted"}

\* A segment is of the job that staged it.
SegmentOK(id, row) ==
    /\ DOMAIN row = SegmentFields /\ row.job \in DOMAIN jobs
    /\ row.index = jobs[row.job].target /\ row.document \in jobs[row.job].documents
    /\ id = Id(row.job, row.document, id[4])
    /\ row.parent = <<>> \/ row.parent = Id(row.job, row.document, row.parent[4])
    /\ row.status \in {"indexing", "completed"}
    /\ {row.ready, row.keyed, row.deleted} \subseteq BOOLEAN
    /\ row.type = "parent" => row.ready

\* The document was deleted, or the index replaced.
Gone(d, index) == documents[d].deleted \/ indexes[index] = "retired"

SegmentsOK ==
    /\ \A id \in DOMAIN segments : SegmentOK(id, segments[id])
    /\ vectors \subseteq DOMAIN segments

\* A row that was staged has its segments, a completed one has them ready.
OwnSegmentsOK ==
    \A j \in DOMAIN jobs :
        /\ jobs[j].row \in {"staged", "completed"} /\ ~jobs[j].full => OwnSegments(j) # {}
        /\ jobs[j].row = "completed" => \A id \in OwnSegments(j) : segments[id].ready

\* A segment is deleted before it is published only with its document or index.
DeletedEarlyAreGone ==
    \A id \in DOMAIN segments :
        segments[id].deleted /\ segments[id].status = "indexing" =>
            Gone(segments[id].document, segments[id].index)

SameDocument(a, b) ==
    segments[a].document = segments[b].document /\ segments[a].index = segments[b].index
IsStaged(id) == segments[id].status = "indexing" /\ ~segments[id].deleted

\* What two jobs have staged at the same time is known to be mixed.
StagedTogetherAreMixed ==
    \A a, b \in DOMAIN segments :
        IsStaged(a) /\ IsStaged(b) /\ SameDocument(a, b) /\ segments[a].job # segments[b].job =>
            segments[a].document \in mixed

\* The segments of an incremental job that has not published them were
\* published by another one.
PublishedEarlyAreMixed ==
    \A id \in DOMAIN segments :
        LET j == jobs[segments[id].job]
        IN  /\ segments[id].status = "completed" /\ ~j.full
            /\ j.row # "completed" \/ j.due \/ j.status # "completed"
            => segments[id].document \in mixed \/ Gone(segments[id].document, segments[id].index)

\* What is shown of a document in an index is of one job.
ShownIsOneBuild ==
    \A a, b \in DOMAIN segments :
        /\ segments[a].status = "completed" /\ ~segments[a].deleted
        /\ segments[b].status = "completed" /\ ~segments[b].deleted
        /\ SameDocument(a, b)
        => segments[a].job = segments[b].job \/ segments[a].document \in mixed

BuildInv ==
    /\ JobsOK /\ SegmentsOK /\ OwnSegmentsOK /\ DeletedEarlyAreGone /\ StagedTogetherAreMixed
    /\ PublishedEarlyAreMixed /\ ShownIsOneBuild

----------------------------------------------------------------------------
(* Revisions and edits.                                                    *)

RevisionFields == {"status", "job", "token", "knew", "excused", "published"}

\* A revision and its job name each other; a published revision stays published.
RevisionOK(d, v, r) ==
    /\ DOMAIN r = RevisionFields /\ r.status \in {"pending", "completed", "failed"}
    /\ r.job \in DOMAIN jobs /\ jobs[r.job].version = v /\ jobs[r.job].documents = {d}
    /\ r.status = "completed" =>
           jobs[r.job].row = "completed" /\ jobs[r.job].status = "completed" /\ ~jobs[r.job].due

RevisionsOK ==
    /\ DOMAIN revisions = DOMAIN documents
    /\ \A d \in DOMAIN revisions :
           /\ IsSeq(revisions[d])
           /\ \A v \in DOMAIN revisions[d] : RevisionOK(d, v, revisions[d][v])
    /\ \A j \in DOMAIN jobs : jobs[j].version > 0 =>
           \A d \in jobs[j].documents :
               /\ jobs[j].version \in DOMAIN revisions[d]
               /\ revisions[d][jobs[j].version].job = j

\* Up to its token, an editor knows what was published when it read the token.
EditorsKnow ==
    \A c \in DOMAIN client :
        LET s == client[c]
            d == s.request.document
        IN  /\ s.pc = "content" =>
                   /\ s.token \in Nat /\ d \in DOMAIN documents
                   /\ \A v \in 1..s.token : v \in s.excused \/ v \in Published(d)
            /\ s.pc = "save" /\ s.token # NoToken =>
                   /\ s.token \in Nat
                   /\ \A v \in 1..s.token : v \in s.excused \/ v \in s.knew

\* The outcome of a revision's job.
OutcomesAreTold ==
    \A d \in DOMAIN revisions : \A v \in DOMAIN revisions[d] :
        LET j == revisions[d][v].job
        IN  ~Gone(d, jobs[j].target) =>
                /\ revisions[d][v].status = "completed" =>
                       \A id \in OwnSegments(j) : segments[id].status = "completed"
                /\ /\ revisions[d][v].status = "pending"
                   /\ jobs[j].row \in {"completed", "failed"} /\ ~jobs[j].due /\ j \notin unpublished
                   => d \in mixed

RevisionInv == RevisionsOK /\ SavedEditsKnowTheirContent /\ EditorsKnow /\ OutcomesAreTold

----------------------------------------------------------------------------
(* Searches.                                                               *)

\* There are finitely many segments, and what is compared are numbers.
MeasuresOK ==
    /\ IsFiniteSet(DOMAIN documents) /\ IsFiniteSet(DOMAIN segments)
    /\ \A id \in DOMAIN segments :
           id[4] \in Nat /\ segments[id].semantic \in Nat /\ segments[id].keyword \in Nat
    /\ \A j \in DOMAIN jobs : jobs[j].version > 0 =>
           \A i \in DOMAIN jobs[j].items : Measured(jobs[j].items[i])

\* A segment that is published is ready; a ready one has its vector, if the index
\* has vectors and it is no parent.  A parent has no vector and no keywords.
VectorsOK ==
    /\ technique \in {"high_quality", "economy"}
    /\ technique = "economy" => vectors = {}
    /\ \A id \in vectors : segments[id].type # "parent"
    /\ \A id \in DOMAIN segments :
           /\ segments[id].type = "parent" => ~segments[id].keyed
           /\ segments[id].status = "completed" => segments[id].ready
           /\ technique = "high_quality" /\ segments[id].ready /\ segments[id].type # "parent" =>
                  id \in vectors

\* The vector store returned fewer hits than it was asked for.
AllNear(s) ==
    /\ s.request.query.mode \in SemanticModes
    /\ Cardinality(DOMAIN s.semantic) < HitLimit(s.request.query.topK)

\* What a search has found so far.
SearchOK(s) ==
    /\ \A id \in DOMAIN s.semantic : id \in DOMAIN segments
                                     /\ s.semantic[id] = segments[id].semantic
    /\ \A id \in DOMAIN s.keyword : id \in DOMAIN segments
                                    /\ s.keyword[id] = segments[id].keyword
    /\ \A id \in s.steady : /\ id \in DOMAIN segments /\ segments[id].index = s.index
                            /\ segments[id].status = "completed"
    /\ s.pc \in {"index", "hits", "keywords", "rows", "parents"} => s.answer = <<>>
    /\ s.pc = "index" => s.index = 0
    /\ s.pc \in {"keywords", "rows", "parents"} /\ AllNear(s) =>
           s.steady \cap vectors \subseteq DOMAIN s.semantic
    /\ s.pc \in {"rows", "parents"} /\ s.request.query.mode \in KeywordModes =>
           \A id \in s.steady :
               /\ segments[id].keyed /\ segments[id].keyword > 0
               /\ s.pc = "rows" => ~segments[id].deleted
               => id \in DOMAIN s.keyword
    /\ s.pc = "parents" =>
           /\ s.rows \subseteq Found(s.semantic, s.keyword)
           /\ s.steady \cap Found(s.semantic, s.keyword) \subseteq s.rows
           /\ \A a, b \in s.rows : segments[a].document = segments[b].document =>
                  segments[a].job = segments[b].job \/ segments[a].document \in mixed
    /\ \A i \in DOMAIN s.answer :
           s.answer[i].segment \in DOMAIN segments /\ s.answer[i].context \in DOMAIN segments

\* The two properties of answers, said of one search.
AnsweredBy(s) == s.pc = "done" /\ s.code = 200 /\ s.request.kind = "search"

\* All of a document is of one job, its context too, and no context comes twice.
ShowsOneVersion(s) ==
    AnsweredBy(s) =>
        \A i, k \in DOMAIN s.answer :
            LET d == segments[s.answer[i].segment].document
            IN  /\ segments[s.answer[i].segment].job = segments[s.answer[i].context].job
                /\ segments[s.answer[k].segment].document = d =>
                       \/ segments[s.answer[k].segment].job = segments[s.answer[i].segment].job
                       \/ d \in mixed
                /\ i # k => s.answer[i].context # s.answer[k].context

\* A segment matches the query, scores enough, and is among the items or under
\* the context of one.
MatchesFor(s, id) ==
    \/ s.request.query.mode \in SemanticModes /\ id \in vectors
    \/ s.request.query.mode \in KeywordModes /\ segments[id].keyed /\ segments[id].keyword > 0
ReachesFor(s, id) ==
    Score(s.request.query, s.semantic, s.keyword, id)
        >= Threshold(s.request.query, s.semantic, s.keyword)
IsAnswered(s, id) ==
    \E i \in DOMAIN s.answer :
        s.answer[i].segment = id \/ s.answer[i].context = segments[id].parent

\* A short answer has everything that matches.
MissesNothing(s) ==
    /\ AnsweredBy(s) /\ s.index # 0
    /\ Len(s.answer) < s.request.query.topK
    /\ Cardinality(DOMAIN s.semantic) < HitLimit(s.request.query.topK)
    => \A id \in s.steady :
           MatchesFor(s, id) => /\ id \in Found(s.semantic, s.keyword)
                                /\ ReachesFor(s, id) => IsAnswered(s, id)

SearchGood(s) == SearchOK(s) /\ ShowsOneVersion(s) /\ MissesNothing(s)

SearchInv ==
    /\ MeasuresOK /\ VectorsOK
    /\ \A c \in DOMAIN client : Request(c).kind = "search" => SearchGood(client[c])
================================================================================
