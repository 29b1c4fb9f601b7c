-------------------------------- MODULE Preview -------------------------------
(***************************************************************************)
(* POST /indexing/preview: PreviewService.preview and its route.  One      *)
(* request loads the knowledge base and its documents, and then reads,     *)
(* parses and segments one source after the other; every step waits for a  *)
(* database, the object storage or a thread, may fail or hit the time      *)
(* limit, and meets deletions of documents it has loaded already.          *)
(***************************************************************************)
EXTENDS Parsing, Segmentation

CONSTANTS Scenarios,         \* sets of requests with the documents they find
          Volatile,          \* the documents other requests delete meanwhile
          MaxDocuments,      \* preview.max_documents
          MaxChunks,         \* preview.max_chunks
          MaxWarnings,       \* preview.max_warnings
          MaxFileSize        \* upload.max_file_size_mb

\* What the parsers are given: the lines of a text, the tokens of markdown-it, and
\* the sheets of a workbook as they are stored.
Classes == {"letter", "space", "newline", "stop", "cjk_stop"}
Characters == Classes \X Seq(Nat)
MarkdownTokens == [type : STRING, level : Nat, map : Nat \X Nat, text : Seq(Characters)]
IsContent(content) ==
    /\ content.kind = "text" => content.lines \in Seq(Seq(Classes))
    /\ content.kind = "markdown" => content.tokens \in Seq(MarkdownTokens)
    /\ content.kind = "xlsx" =>
          /\ content.workbook \in Seq(ToSet(content.workbook))
          /\ \A sheet \in ToSet(content.workbook) :
                /\ sheet.elements \in Seq(ToSet(sheet.elements))
                /\ \A element \in ToSet(sheet.elements) : IsElement(element)

\* What the request and the records can be (PreviewRequest, SegmentationConfig).
IsRequest(r) ==
    /\ r.ids \in Seq(ToSet(r.ids))
    /\ r.config.mode \in {"general", "parent_child"}
    /\ r.config.max \in Int /\ r.config.overlap \in Int /\ r.config.separator \in Seq(Classes)
    /\ r.config.mode = "parent_child" => r.config.parent_max \in Int
AreDocuments(records) ==
    /\ records \in [DOMAIN records ->
           [active : BOOLEAN, source_valid : BOOLEAN, size : Nat, stored : Nat,
            content : {records[d].content : d \in DOMAIN records}]]
    /\ \A d \in DOMAIN records : IsContent(records[d].content)

ASSUME PreviewAssumption ==
    /\ Scenarios # <<>>
    /\ {MaxDocuments, MaxChunks, MaxWarnings, MaxFileSize} \subseteq Nat \ {0}
    /\ \A i \in DOMAIN Scenarios : \A s \in Scenarios[i] :
          IsRequest(s.request) /\ AreDocuments(s.documents)

VARIABLES request,     \* [ids, technique, model_known, config]
          dataset,     \* whether the knowledge base is active
          documents,   \* per id: [active, source_valid, size, stored, content]
          phase,       \* what the request waits for
          ids,         \* the document ids without repetitions
          next,        \* the position in ids of the document in hand
          current,     \* what parsing and segmenting it produced
          chunks, total, warnings, previewed,
          response     \* [status, code]

vars == <<request, dataset, documents, phase, ids, next, current, chunks, total, warnings,
          previewed, response>>
results == <<chunks, total, warnings, previewed>>

\* "gone" is an object that was removed, a number the bytes that are stored.
Gone == 0
NoCurrent == [parsed |-> NotParsed("none"), segmented |-> [error |-> "none", segments |-> <<>>,
                                                           warnings |-> <<>>]]

Init ==
    /\ \E i \in DOMAIN Scenarios : \E s \in Scenarios[i] :
           request = s.request /\ documents = s.documents
    /\ dataset = TRUE
    /\ phase = "new"
    /\ ids = <<>> /\ next = 1
    /\ current = NoCurrent
    /\ chunks = <<>> /\ total = 0 /\ previewed = <<>>
    /\ warnings = Collector(MaxWarnings)
    /\ response = [status |-> 0, code |-> "none"]

\* _domain_status and the handlers of the route.
Status(code) ==
    IF code = "none" THEN 200
    ELSE IF code \in {"DATASET_NOT_FOUND", "DOCUMENT_NOT_FOUND"} THEN 404
    ELSE IF code = "PREVIEW_TIMEOUT" THEN 504
    ELSE IF code \in {"OBJECT_STORAGE_UNAVAILABLE", "PREVIEW_INFRASTRUCTURE_UNAVAILABLE"} THEN 503
    ELSE 422

Answer(code) ==
    /\ phase' = "answered"
    /\ response' = [status |-> Status(code), code |-> code]
    /\ current' = NoCurrent
    /\ UNCHANGED <<request, dataset, documents, ids, next, results>>

\* _unique_document_ids
Unique(s) == FoldLeft(LAMBDA seen, id : IF id \in ToSet(seen) THEN seen ELSE Append(seen, id),
                      <<>>, s)

\* _validate_request, in its order.
RequestError ==
    IF Len(Unique(request.ids)) > MaxDocuments THEN "PREVIEW_DOCUMENT_LIMIT_EXCEEDED"
    ELSE IF request.config.mode = "parent_child" /\ request.technique = "economy"
         THEN "PARENT_CHILD_REQUIRES_HIGH_QUALITY"
    ELSE IF request.technique = "high_quality" /\ ~request.model_known
         THEN "EMBEDDING_MODEL_UNAVAILABLE"
    ELSE IF ~ValidConfig(request.config) THEN "INVALID_SEGMENTATION_CONFIG"
    ELSE "none"

Start ==
    /\ phase = "new"
    /\ IF RequestError # "none" THEN Answer(RequestError)
       ELSE /\ phase' = "dataset"
            /\ ids' = Unique(request.ids)
            /\ UNCHANGED <<request, dataset, documents, next, current, results, response>>

LoadDataset ==
    /\ phase = "dataset"
    /\ IF ~dataset THEN Answer("DATASET_NOT_FOUND")
       ELSE /\ phase' = "records"
            /\ UNCHANGED <<request, dataset, documents, ids, next, current, results, response>>

\* get_active_by_ids: all the documents must be there.
LoadRecords ==
    /\ phase = "records"
    /\ IF \E i \in DOMAIN ids : ids[i] \notin DOMAIN documents \/ ~documents[ids[i]].active
       THEN Answer("DOCUMENT_NOT_FOUND")
       ELSE /\ phase' = "read"
            /\ UNCHANGED <<request, dataset, documents, ids, next, current, results, response>>

\* _source, from the record that was loaded.
SourceError(document) ==
    IF ~document.source_valid THEN "INVALID_SOURCE_METADATA"
    ELSE IF document.size > MaxFileSize THEN "FILE_SIZE_LIMIT_EXCEEDED"
    ELSE "none"

\* _source and _read_source: at most one byte more than recorded is read.
ReadSource ==
    LET document == documents[ids[next]]
        read == Min({document.stored, document.size + 1})
    IN  /\ phase = "read" /\ next <= Len(ids)
        /\ IF SourceError(document) # "none" THEN Answer(SourceError(document))
           ELSE IF document.stored = Gone THEN Answer("OBJECT_STORAGE_UNAVAILABLE")
           ELSE IF read # document.size THEN Answer("INVALID_SOURCE_METADATA")
           ELSE /\ phase' = "parse"
                /\ UNCHANGED <<request, dataset, documents, ids, next, current, results,
                               response>>

\* _parse_and_segment, in a thread.
ParseAndSegment ==
    /\ phase = "parse"
    /\ \E parsed \in {Parse(documents[ids[next]].content)} :
       \E segmented \in {SegmentDocument(parsed, request.config)} :
          IF parsed.error # "none" THEN Answer(parsed.error)
          ELSE IF segmented.error # "none" THEN Answer(segmented.error)
          ELSE /\ phase' = "collect"
               /\ current' = [parsed |-> parsed, segmented |-> segmented]
               /\ UNCHANGED <<request, dataset, documents, ids, next, results, response>>

Chunk(id, segment) == [document_id |-> id, segment |-> segment]

\* Mutant of Available: every document may show as many.
AvailableToEach == MaxChunks

Available == MaxChunks - Len(chunks)

\* The rest of the loop: nothing is awaited.
Collect ==
    LET segments == current.segmented.segments
        shown == SubSeq(segments, 1, Min({Available, Len(segments)}))
    IN  /\ phase = "collect"
        /\ previewed' = Append(previewed, ids[next])
        /\ warnings' = AddWarnings(AddWarnings(warnings, current.parsed.warnings),
                                   current.segmented.warnings)
        /\ total' = total + Len(segments)
        /\ chunks' = chunks \o [i \in DOMAIN shown |-> Chunk(ids[next], shown[i])]
        /\ phase' = "read" /\ next' = next + 1 /\ current' = NoCurrent
        /\ UNCHANGED <<request, dataset, documents, ids, response>>

\* The response is rendered in a thread, under the same limit.
Render == phase = "read" /\ next > Len(ids) /\ Answer("none")

\* fail_after: the limit is met while the request waits.
Timeout == phase \in {"dataset", "records", "read", "parse"} /\ Answer("PREVIEW_TIMEOUT")

DatabaseFails ==
    phase \in {"dataset", "records"} /\ Answer("PREVIEW_INFRASTRUCTURE_UNAVAILABLE")
StorageFails ==
    phase = "read" /\ next <= Len(ids) /\ Answer("OBJECT_STORAGE_UNAVAILABLE")

(***************************************************************************)
(* Other requests: a document is deleted, and its cleanup removes the      *)
(* object; the knowledge base is deleted.                                  *)
(***************************************************************************)
DeleteDocument(id) ==
    /\ documents[id].active
    /\ documents' = [documents EXCEPT ![id].active = FALSE]
    /\ UNCHANGED <<request, dataset, phase, ids, next, current, results, response>>

CleanObject(id) ==
    /\ ~documents[id].active /\ documents[id].stored # Gone
    /\ documents' = [documents EXCEPT ![id].stored = Gone]
    /\ UNCHANGED <<request, dataset, phase, ids, next, current, results, response>>

DeleteDataset ==
    /\ dataset /\ Volatile \cap DOMAIN documents # {}
    /\ dataset' = FALSE
    /\ UNCHANGED <<request, documents, phase, ids, next, current, results, response>>

Service ==
    Start \/ LoadDataset \/ LoadRecords \/ ReadSource \/ ParseAndSegment \/ Collect \/ Render
Faults == Timeout \/ DatabaseFails \/ StorageFails
Others ==
    \/ \E id \in Volatile \cap DOMAIN documents : DeleteDocument(id) \/ CleanObject(id)
    \/ DeleteDataset

Next == Service \/ Faults \/ Others
Spec == Init /\ [][Next]_vars
================================================================================
