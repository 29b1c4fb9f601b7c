------------------------ MODULE KnowledgeBaseProperties ------------------------
EXTENDS KnowledgeBase

\* The types of the rows, jobs and requests.
KnowledgeBaseTypeOK ==
    /\ \A d \in DOMAIN documents : {documents[d].deleted, documents[d].enabled,
                                    documents[d].archived} \subseteq BOOLEAN
    /\ \A d \in objects \cup cleanups \cup unclean : d \in DOMAIN documents \/ d[1] \in DOMAIN client
    /\ \A i \in DOMAIN indexes : indexes[i] \in {"building", "active", "failed", "retired"}
    /\ \A j \in DOMAIN jobs :
           /\ jobs[j].row \in {"pending", "loaded", "staged", "completed", "failed"}
           /\ jobs[j].status \in {"unfinished", "completed", "failed"}
           /\ jobs[j].target \in DOMAIN indexes /\ jobs[j].due \in BOOLEAN
    /\ \A id \in DOMAIN segments : /\ segments[id].status \in {"indexing", "completed"}
                                   /\ segments[id].job \in DOMAIN jobs
    /\ vectors \subseteq DOMAIN segments
    /\ DOMAIN revisions = DOMAIN documents
    /\ \A d \in DOMAIN documents : \A v \in DOMAIN revisions[d] :
           /\ revisions[d][v].status \in {"pending", "completed", "failed"}
           /\ revisions[d][v].job \in DOMAIN jobs
    /\ faults \in 0..MaxFaults

\* An edit that names its base was made on a content that showed every revision
\* published before it (the token is read before the content, and saving
\* rejects a stale one).  The exception is a revision older than the token that
\* was not published when the token was read and has been since, after a retry or
\* because its finalization came late: a token only compares versions.
SavedEditsKnowTheirContent ==
    \A d \in DOMAIN revisions : \A v \in DOMAIN revisions[d] :
        LET r == revisions[d][v]
        IN  r.token # NoToken => r.published \subseteq r.knew \cup r.excused

\* A live document has its source object, and once nothing is in progress an
\* object has its live document, unless a fault came between (upload_one,
\* compensate_upload and the cleanup task keep storage and database together
\* without a transaction over both).
AtRest == cleanups = {} /\ \A c \in DOMAIN client : client[c].pc = "done"
SourcesMatchDocuments ==
    /\ \A d \in DOMAIN documents : Live(d) => d \in objects \cup unclean
    /\ AtRest => \A d \in objects : Live(d) \/ d \in unclean

\* A failed ingest leaves none of the documents it created, and a document is
\* deleted by a request to delete it or by the ingest that created it, never by
\* one that found it as a duplicate (_compensate_uploads).
FailedIngest(c) == Request(c).kind = "ingest" /\ client[c].code >= 500
FailedIngestsUndoTheirOwn ==
    /\ \A c \in DOMAIN client :
           FailedIngest(c) /\ client[c].pc = "done" =>
               \A i \in DOMAIN client[c].items :
                   LET item == client[c].items[i]
                   IN  item.duplicate \/ ~Live(item.document) \/ item.document \in unclean
    /\ \A d \in DOMAIN documents :
           documents[d].deleted =>
               \/ \E c \in DOMAIN client : Request(c).kind = "delete" /\ Request(c).document = d
               \/ d[1] \in DOMAIN client /\ FailedIngest(d[1])

\* When the job of a revision is finalized the revision says how it ended, unless
\* the document was deleted or the index retired meanwhile: a completed one has
\* been published whole.  It stays pending only if its staged segments were not
\* alone: those of another job lay beside them.
RevisionsTellTheOutcome ==
    \A d \in DOMAIN revisions : \A v \in DOMAIN revisions[d] :
        LET j == revisions[d][v].job
            over == jobs[j].row \in {"completed", "failed"} /\ ~jobs[j].due /\ j \notin unpublished
        IN  Live(d) /\ jobs[j].target \in Active =>
                /\ revisions[d][v].status = "completed" =>
                       /\ OwnSegments(j) # {}
                       /\ \A id \in OwnSegments(j) : segments[id].status = "completed"
                /\ revisions[d][v].status = "pending" /\ over => d \in mixed

\* The items an answer has of one document, and their contexts, are of one
\* build, also while a finalization replaces the segments between two queries
\* and although the vector store keeps what was replaced; only documents that
\* two jobs staged side by side may show both.
Answered(c) == At(c, "done") /\ client[c].code = 200 /\ Request(c).kind = "search"
AnswersShowOneVersion ==
    \A c \in {x \in DOMAIN client : Answered(x)} :
        LET answer == client[c].answer
            JobOf(id) == segments[id].job
        IN  \A i, k \in DOMAIN answer :
                LET d == segments[answer[i].segment].document
                IN  /\ JobOf(answer[i].segment) = JobOf(answer[i].context)
                    /\ segments[answer[k].segment].document = d =>
                           \/ JobOf(answer[k].segment) = JobOf(answer[i].segment)
                           \/ d \in mixed
                    /\ i # k => answer[i].context # answer[k].context

\* An answer with fewer items than asked for misses no segment that was
\* retrievable from the first query to the last and scores enough, unless the
\* vector store returned all the hits it was asked for: four times the items.
Matches(c, id) ==
    \/ Query(c).mode \in {"vector", "hybrid"} /\ id \in vectors
    \/ /\ Query(c).mode \in {"full_text", "hybrid"}
       /\ segments[id].keyed /\ segments[id].keyword > 0
Reaches(c, id) ==
    LET semantic == client[c].semantic
        keyword == client[c].keyword
    IN  Score(Query(c), semantic, keyword, id) >= Threshold(Query(c), semantic, keyword)
ShortAnswersAreComplete ==
    \A c \in {x \in DOMAIN client : Answered(x) /\ client[x].index # 0} :
        LET answer == client[c].answer
        IN  Len(answer) < Query(c).topK /\ Cardinality(DOMAIN client[c].semantic) < 4 * Query(c).topK
                => \A id \in client[c].steady :
                       Matches(c, id) =>
                           /\ id \in Found(client[c].semantic, client[c].keyword)
                           /\ Reaches(c, id) =>
                                  \E i \in DOMAIN answer :
                                      answer[i].segment = id \/ answer[i].context = Parent(id)
================================================================================
