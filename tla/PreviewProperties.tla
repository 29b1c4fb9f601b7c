--------------------------- MODULE PreviewProperties ---------------------------
(* What the preview, and with it the segments that are indexed, promises    *)
(* about the text of a document.                                            *)
EXTENDS Preview

Phases == {"new", "dataset", "records", "read", "parse", "collect", "answered"}
Codes == { "none", "DATASET_NOT_FOUND", "DOCUMENT_NOT_FOUND", "PREVIEW_TIMEOUT",
           "OBJECT_STORAGE_UNAVAILABLE", "PREVIEW_INFRASTRUCTURE_UNAVAILABLE",
           "PREVIEW_DOCUMENT_LIMIT_EXCEEDED", "PARENT_CHILD_REQUIRES_HIGH_QUALITY",
           "EMBEDDING_MODEL_UNAVAILABLE", "INVALID_SEGMENTATION_CONFIG",
           "INVALID_SOURCE_METADATA", "FILE_SIZE_LIMIT_EXCEEDED", "UNSUPPORTED_FILE_TYPE",
           "NO_EXTRACTABLE_TEXT", "SEGMENTATION_LIMIT_EXCEEDED",
           "TABLE_ROW_LIMIT_EXCEEDED", "TABLE_COLUMN_LIMIT_EXCEEDED",
           "TABLE_XML_NODE_LIMIT_EXCEEDED", "TABLE_PHYSICAL_CELL_LIMIT_EXCEEDED",
           "TABLE_MERGED_CELL_LIMIT_EXCEEDED", "TABLE_TOTAL_MERGED_CELL_LIMIT_EXCEEDED" }

\* The state has the shape the request's variables have in the code, and an
\* answer that is not an error shows no more chunks and warnings than the
\* settings allow.
PreviewTypeOK ==
    /\ dataset \in BOOLEAN
    /\ phase \in Phases
    /\ next \in 1 .. Len(ids) + 1
    /\ Len(chunks) <= MaxChunks /\ Len(chunks) <= total
    /\ Len(CollectedWarnings(warnings)) <= MaxWarnings
    /\ previewed = SubSeq(ids, 1, Len(previewed))
    /\ response.code \in Codes
    /\ response.status \in {0, 200, 404, 422, 503, 504}

(***************************************************************************)
(* The document in hand, seen from what its parser produced.               *)
(***************************************************************************)
Segments == current.segmented.segments
Solid(text) == {c \in ToSet(text) : ~IsSpace(c[1])}
Blocks == VisibleBlocks(current.parsed)
Leaves == {s \in ToSet(Segments) : s.index_type # "parent"}
Limit(s) == IF s.index_type = "parent" THEN request.config.parent_max ELSE request.config.max
Touched(blocks, s) ==
    LET content == ToSet(s.content)
    IN  {i \in DOMAIN blocks : \E k \in DOMAIN blocks[i].text : blocks[i].text[k] \in content}
InHand == phase = "collect"

\* Splitting loses no text: every visible character of the document is in a
\* segment that is searched, no segment is empty or longer than its maximum,
\* and a child's text is part of its parent's (_general, _parent_child,
\* _split_ranges).
NoTextIsLost ==
    InHand =>
        /\ LET searched == UNION {ToSet(s.content) : s \in Leaves}
           IN  \A b \in ToSet(Blocks) : Solid(b.text) \subseteq searched
        /\ \A s \in ToSet(Segments) : ~Blank(s.content) /\ Len(s.content) <= Limit(s)
        /\ \A s \in Leaves : s.parent_local_id # <<>> =>
              \E p \in ToSet(Segments) : /\ p.local_id = s.parent_local_id
                                         /\ p.position < s.position
                                         /\ ToSet(s.content) \subseteq ToSet(p.content)

\* A segment names exactly the lines, rows and sheets its text was read from,
\* whatever was combined, cut, and prefixed on the way (_source_slice,
\* _combine_blocks, _merge_metadata).
SourcesAreExact ==
    InHand => LET blocks == Blocks IN \A s \in ToSet(Segments) :
        LET at == Touched(blocks, s)
            touched == {blocks[i].meta : i \in at}
        IN  /\ s.source_metadata # <<>>
            /\ s.source_metadata.lines = <<Min({m.lines[1] : m \in touched}),
                                           Max({m.lines[2] : m \in touched})>>
            /\ s.source_metadata.rows = <<Min({m.row : m \in touched}),
                                          Max({m.row : m \in touched})>>
            /\ s.source_metadata.sheets = {m.sheet : m \in touched}
            /\ s.source_metadata.heading_path = blocks[Min(at)].meta.heading_path

\* The heading path of a Markdown block consists of the headings the block
\* stands under: those before it that no later heading of the same or a higher
\* level has closed (_walk_tokens).
HeadingPathsEnclose ==
    (InHand /\ documents[ids[next]].content.kind = "markdown") =>
        LET tokens == documents[ids[next]].content.tokens
            Opens(i) == tokens[i].type = "heading_open"
            Encloses(i, line) ==
                /\ Opens(i) /\ tokens[i].map[1] <= line
                /\ \A j \in i + 1 .. Len(tokens) :
                      Opens(j) /\ tokens[j].map[1] <= line => tokens[j].level > tokens[i].level
            Path(line) ==
                LET headings == SelectSeq([i \in DOMAIN tokens |-> i],
                                          LAMBDA i : Encloses(i, line))
                IN  [k \in DOMAIN headings |-> tokens[headings[k] + 1].text]
        IN  \A i \in DOMAIN Blocks :
               Blocks[i].meta.heading_path = Path(Blocks[i].meta.lines[1])

\* A way hangs 0, 1 or 2 of the two newlines of every boundary on the block
\* before it and the rest on the one after it, or omits them (-1).
Ways(blocks) == [1 .. Len(blocks) - 1 -> {-1, 0, 1, 2}]
SuffixOf(way, blocks, i) == IF i = Len(blocks) THEN 0 ELSE Max({0, way[i]})
PrefixOf(way, i) == IF i = 1 THEN 0 ELSE IF way[i - 1] = -1 THEN 0 ELSE 2 - way[i - 1]
Hangs(way, blocks, maximum) == \A i \in 1 .. Len(blocks) :
    HostPossible(blocks[i], PrefixOf(way, i), SuffixOf(way, blocks, i), maximum)
OmittedBy(way) == Cardinality({i \in DOMAIN way : way[i] = -1})
ExtraBy(way, blocks, maximum) == FoldLeft(LAMBDA sum, i :
    sum + SplitCost(blocks[i], PrefixOf(way, i), SuffixOf(way, blocks, i), maximum),
    0, [i \in 1 .. Len(blocks) |-> i])
FallsBack == InHand /\ request.config.mode = "parent_child"
                    /\ ~IsSpreadsheet(current.parsed, Blocks) /\ TooLong(Blocks, request.config)

\* A full document that is too long keeps its blank lines as well as possible:
\* of all ways to hang them on the blocks the one taken omits the fewest, then
\* makes the fewest extra parts (_allocate_delimiters keeps one plan for every
\* prefix and block; a test compares it with a few documents).
DelimitersAreBest == FallsBack =>
    LET maximum == request.config.parent_max
        taken == Allocation(Blocks, maximum).cost
    IN  \A way \in {w \in Ways(Blocks) : Hangs(w, Blocks, maximum)} :
           \/ taken[1] < OmittedBy(way)
           \/ taken[1] = OmittedBy(way) /\ taken[2] <= ExtraBy(way, Blocks, maximum)

\* The parents of such a document hold every blank line that was not reported
\* as omitted (_split_fallback_block, _fallback_warnings).
DelimitersAreKept == FallsBack =>
    LET parents == SelectSeq(Segments, LAMBDA s : s.index_type = "parent")
        kept == FoldLeft(LAMBDA sum, s :
                    sum + Len(SelectSeq(s.content, LAMBDA c : c[2] = <<>>)), 0, parents)
        omitted == Allocation(Blocks, request.config.parent_max).cost[1]
    IN  kept = 2 * (Len(Blocks) - 1 - omitted)

\* The projection that is compared with the budget before a text is split is
\* an upper bound of the pieces that come out, for every overlap and boundary:
\* a document that passes it is not refused half way (ensure_projected_records).
ProjectionIsUpperBound ==
    InHand => \A i \in DOMAIN Blocks :
        LET text == Blocks[i].text
            config == request.config
        IN  Len(SplitRanges(text, config.max, config.overlap, config.separator))
                <= ProjectedRecords(Len(text), config.max, config.overlap)

(***************************************************************************)
(* Workbooks.                                                              *)
(***************************************************************************)
IsBook == InHand /\ documents[ids[next]].content.kind = "xlsx"
Book_ == documents[ids[next]].content.workbook
Filled(sheet) ==
    {e.at : e \in {x \in ToSet(sheet.elements) :
                      x.tag = "c" /\ x.kind \notin {"empty", "blank"}}} \ MergedAway(sheet)

\* Every value of a visible sheet below its header row is in the block of its
\* row, under a column name no other column has; a searched segment never mixes
\* rows (_worksheet_rows, table_blocks, normalize_table_headers, _child_ranges).
RowsKeepTheirCells ==
    IsBook =>
        /\ \A sheet \in ToSet(Book_) : sheet.visible =>
              LET filled == Filled(sheet)
                  own == {b \in ToSet(Blocks) : b.meta.sheet = sheet.title}
                  below == {at \in filled : at[1] > Min({x[1] : x \in filled})}
              IN  /\ {b.meta.row : b \in own} = {at[1] : at \in below}
                  /\ \A at \in below : \E b \in own :
                        /\ b.meta.row = at[1]
                        /\ <<"letter", <<sheet.title, at[1], at[2]>>>> \in ToSet(b.text)
                        /\ at[2] \in DOMAIN b.meta.headers
                        /\ \A c \in DOMAIN b.meta.headers :
                              b.meta.headers[c] = b.meta.headers[at[2]] => c = at[2]
        /\ request.config.mode = "parent_child" =>
              \A s \in Leaves : Cardinality(Touched(Blocks, s)) = 1

\* A workbook that passes the preflight makes openpyxl create no more cells
\* than the limit, however its ranges repeat and overlap
\* (_preflight_worksheet_xml).
AcceptedWorkbookIsBounded ==
    IsBook =>
        LET Created(sheet) ==
                {e.at : e \in {x \in ToSet(sheet.elements) : x.tag = "c"}}
                \cup UNION {Cells(e.range) : e \in {x \in ToSet(sheet.elements) :
                                                       x.tag \in {"mergeCell", "hyperlink"}}}
        IN  /\ FoldLeft(LAMBDA n, sheet : n + Cardinality(Created(sheet)), 0, Book_)
                   <= MaxPhysicalCells
            /\ Len(Blocks) < MaxRows

\* A preview that answers accounts for everything the documents gave: the
\* chunks are the first of their segments in the order of the request, the
\* total counts the ones left out, and every warning is shown or counted, also
\* those that the parsers had summarised (preview, BoundedWarningCollector).
AnswerAccountsForAll ==
    response.code = "none" /\ response.status = 200 =>
        \A read \in {[i \in DOMAIN ids |-> Parse(documents[ids[i]].content)]} :
        \A segmented \in {[i \in DOMAIN ids |-> SegmentDocument(read[i], request.config)]} :
            LET all == FlattenSeq([i \in DOMAIN ids |->
                           [k \in DOMAIN segmented[i].segments |->
                               Chunk(ids[i], segmented[i].segments[k])]])
                raised == FlattenSeq([i \in DOMAIN ids |->
                              read[i].warnings \o segmented[i].warnings])
                Count(list) == FoldLeft(LAMBDA n, w :
                    n + (IF w.code = "WARNINGS_TRUNCATED" THEN w.count ELSE 1), 0, list)
            IN  /\ ToSet(ids) = ToSet(request.ids) /\ previewed = ids
                /\ total = Len(all)
                /\ chunks = SubSeq(all, 1, Min({MaxChunks, Len(all)}))
                /\ Count(CollectedWarnings(warnings)) = Count(raised)
================================================================================
