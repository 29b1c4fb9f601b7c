------------------------ MODULE SegmentPipelineInvariant ------------------------
(***************************************************************************)
(* The inductive invariant of SegmentPipeline.  It speaks of the plan p,   *)
(* the rows rs, the vectors es and the state s of an execution by name, so *)
(* that what a step does to one of them can be said in a lemma.            *)
(***************************************************************************)
EXTENDS SegmentPipelineProperties

\* What a document of a plan is staged as.
Listed(p, d) ==
    BuildCandidates(d, p.technique, p.namespace, p.documents[d].segments).list
Listing(p, d) == ToSet(Listed(p, d))
ModeTypes(p) ==
    IF p.technique = "high_quality" /\ p.mode = "parent_child" THEN {"parent", "child"}
    ELSE {"general"}

RowFields == {"id", "document", "parent", "position", "content", "metadata", "type", "keywords",
              "embedding", "status", "deleted"}

\* A row, or the record an execution has of it, is the candidate c but for
\* what the pipeline changes: keywords, the mark of an embedding, the status.
StagedAs(row, c) ==
    /\ DOMAIN row = RowFields
    /\ row.id = c.id /\ row.document = c.document /\ row.parent = c.parent
    /\ row.position = c.position /\ row.content = c.content
    /\ row.metadata = c.metadata /\ row.type = c.type
    /\ row.embedding \in {c.embedding, "completed"}
    /\ row.embedding = "completed" => c.embedding = "waiting"
    /\ row.status \in {"indexing", "completed"} /\ row.deleted = FALSE

\* Every row is the row of a candidate.
RowsOK(p, rs) ==
    \A id \in DOMAIN rs : \E d \in DOMAIN p.documents : \E c \in Listing(p, d) :
        c.id = id /\ StagedAs(rs[id], c)

\* Rows change their status together, with the job.
StatusOK(j, rs) ==
    \A id \in DOMAIN rs : rs[id].status = IF j = "completed" THEN "completed" ELSE "indexing"

\* Every vector is the one of its row, a marked row has one, and a collection
\* that does not exist has none.
EntitiesOK(rs, col, es, un) ==
    /\ \A id \in DOMAIN es :
           /\ id \in DOMAIN rs /\ rs[id].embedding \in {"waiting", "completed"}
           /\ es[id] = Entity(rs[id], Vector(rs[id].content, col))
    /\ \A id \in DOMAIN rs : rs[id].embedding = "completed" => id \in DOMAIN es
    /\ un \subseteq DOMAIN es
    /\ col = Unknown => DOMAIN es = {}

\* All segments of a document are staged, and those that need it embedded.
Whole(p, d, rs) ==
    \A c \in Listing(p, d) : /\ c.id \in DOMAIN rs
                             /\ c.embedding = "waiting" => rs[c.id].embedding = "completed"

\* Where an execution works with the records it staged, and where with vectors.
Working == {"embed", "resolve", "ensure", "create", "upsert", "mark", "keywords"}
Embeds == {"embed", "resolve", "ensure", "create", "upsert", "mark"}
Carrying == {"resolve", "ensure", "create", "upsert", "mark"}

\* The records of an execution are the candidates of its document, in their
\* order; a record that was marked when it was read still is.
RecordsOK(p, d, records, rs) ==
    /\ Len(records) \in Nat /\ DOMAIN records = 1 .. Len(records)
    /\ DOMAIN records = DOMAIN Listed(p, d)
    /\ \A i \in DOMAIN records :
           /\ StagedAs(records[i], Listed(p, d)[i])
           /\ records[i].id \in DOMAIN rs /\ records[i].type \in ModeTypes(p)
           /\ records[i].embedding = "completed" => rs[records[i].id].embedding = "completed"

\* The first of the waiting records are marked.
MarkedUpTo(records, n, rs) ==
    /\ n \in Nat /\ n <= Len(Waiting(records))
    /\ \A k \in 1 .. n : /\ Waiting(records)[k].id \in DOMAIN rs
                         /\ rs[Waiting(records)[k].id].embedding = "completed"

NextBatch(records, done) ==
    LET waiting == Waiting(records)
    IN  SubSeq(waiting, done + 1, Min({done + BatchSize, Len(waiting)}))

\* The vectors an execution carries are those of its batch.
CarriesOK(s) ==
    LET batch == NextBatch(s.records, s.done)
    IN  /\ s.dimension # Unknown /\ Len(s.vectors) = Len(batch)
        /\ \A i \in 1 .. Len(batch) : s.vectors[i] = Vector(batch[i].content, s.dimension)

WorkerOK(p, s, rs, es) ==
    /\ DOMAIN s = DOMAIN Idle /\ s.pc \in Stages
    /\ s.seen \in Nat /\ s.dimension \in Nat
    /\ s.pc # "idle" => s.document \in DOMAIN p.documents
    /\ s.pc \notin Working => s.records = <<>> /\ s.done = 0
    /\ s.pc \in Working =>
           RecordsOK(p, s.document, s.records, rs) /\ MarkedUpTo(s.records, s.done, rs)
    /\ s.pc \in Embeds => s.done < Len(Waiting(s.records))
    /\ s.pc \in Carrying => CarriesOK(s)
    /\ s.pc = "mark" =>
           \A i \in 1 .. Len(NextBatch(s.records, s.done)) :
               NextBatch(s.records, s.done)[i].id \in DOMAIN es
    /\ s.pc = "keywords" => MarkedUpTo(s.records, Len(Waiting(s.records)), rs)
    /\ s.pc = "complete" => Whole(p, s.document, rs)

ClaimsOK ==
    /\ outcome \in [Targets -> {"open", "completed", "failed"}]
    /\ attempts \in [Targets -> 0..MaxAttempts]
    /\ owner \in [Targets -> Workers \cup {NoWorker}]
    /\ \A d \in Targets : outcome[d] = "completed" => Whole(plan, d, rows)
    /\ job = "completed" => \A d \in Targets : outcome[d] = "completed"

PipelineInv ==
    /\ plan \in Plans
    /\ job \in {"running", "completed", "failed"}
    /\ dimension \in Nat /\ collection \in Nat /\ deaths \in 0..MaxDeaths
    /\ RowsOK(plan, rows) /\ StatusOK(job, rows)
    /\ EntitiesOK(rows, collection, entities, unrecorded)
    /\ DOMAIN work = Workers
    /\ \A w \in Workers : WorkerOK(plan, work[w], rows, entities)
    /\ ClaimsOK

----------------------------------------------------------------------------
(* The keywords of the segments.  They are kept apart, because what is said *)
(* of them needs a condition on the plans: an editor of segments in an      *)
(* economy index gives none.                                                *)
NoKeywordsInEconomy ==
    \A p \in Plans : p.technique = "economy" =>
        \A d \in DOMAIN p.documents : \A i \in DOMAIN p.documents[d].segments :
            p.documents[d].segments[i].keywords = <<>>

\* The keywords a candidate ends up with.
Final(c) == IF c.keywords # <<>> THEN c.keywords ELSE Extract(c.content, KeywordLimit)

\* A row has the keywords its candidate brought, or the final ones.
KeywordRowsOK(p, rs) ==
    \A d \in DOMAIN p.documents : \A c \in Listing(p, d) :
        c.id \in DOMAIN rs => rs[c.id].keywords \in {c.keywords, Final(c)}

\* So has a record; a row whose record has keywords has the final ones.
KeywordRecordsOK(p, s, rs) ==
    s.pc \in Working =>
        \A i \in DOMAIN s.records :
            LET c == Listed(p, s.document)[i]
            IN  /\ s.records[i].keywords \in {c.keywords, Final(c)}
                /\ s.records[i].keywords # <<>> => rs[c.id].keywords = Final(c)

\* All indexable rows of a document have the final keywords.
Worded(p, d, rs) ==
    \A c \in Listing(p, d) : c.type # "parent" => rs[c.id].keywords = Final(c)

KeywordsInv ==
    /\ KeywordRowsOK(plan, rows)
    /\ \A w \in Workers :
           /\ KeywordRecordsOK(plan, work[w], rows)
           /\ work[w].pc = "complete" => Worded(plan, work[w].document, rows)
           /\ job = "running" /\ work[w].pc = "failing" => work[w].error # "conflict"
    /\ \A d \in Targets : outcome[d] = "completed" => Worded(plan, d, rows)
================================================================================
