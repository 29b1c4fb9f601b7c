------------------------------- MODULE Parsing --------------------------------
(***************************************************************************)
(* The parsers that decide structure themselves: plain text (paragraphs    *)
(* and their lines), Markdown (the walk over the tokens of markdown-it)    *)
(* and XLSX (the preflight of the sheet XML, the physical cells, and the   *)
(* table rows under their header), with the bounded collector of warnings. *)
(*                                                                         *)
(* A character is <<class, origin>>; the origin names the line or the cell *)
(* it was read from.  A block's meta holds the keys the segmenter merges:  *)
(* lines <<first, last>>, heading_path, sheet and row ("none" and 0 where  *)
(* the parser writes none).                                                *)
(***************************************************************************)
EXTENDS Integers, Sequences, FiniteSets, SequencesExt, Lists

CONSTANTS MaxRows, MaxColumns,          \* limits of a table
          MaxRowCoordinate,             \* rows a cell with content may stand in
          XlsxMaxRow, XlsxMaxColumn,    \* the coordinates of the format
          MaxXmlNodes, MaxPhysicalCells, MaxMergedArea, MaxTotalMergedArea,
          MaxParserWarnings             \* max_warnings_per_document

ASSUME ParserAssumption ==
    /\ {MaxRows, MaxColumns, MaxRowCoordinate, XlsxMaxRow, XlsxMaxColumn, MaxXmlNodes,
        MaxPhysicalCells, MaxMergedArea, MaxTotalMergedArea, MaxParserWarnings}
           \subseteq Nat \ {0}
    /\ MaxMergedArea <= MaxTotalMergedArea /\ MaxTotalMergedArea <= MaxPhysicalCells

(***************************************************************************)
(* BoundedWarningCollector: the first limit - 1 warnings are kept, the     *)
(* others and those that earlier summaries stand for are counted.          *)
(***************************************************************************)
Collector(limit) == [limit |-> limit, retained |-> <<>>, omitted |-> 0]

\* Mutant of AddWarning: a summary counts as one warning.
AddSummaryAsOne(collector, warning) ==
    IF warning.code # "WARNINGS_TRUNCATED" /\ Len(collector.retained) < collector.limit - 1
    THEN [collector EXCEPT !.retained = Append(@, warning)]
    ELSE [collector EXCEPT !.omitted = @ + 1]

AddWarning(collector, warning) ==
    IF warning.code = "WARNINGS_TRUNCATED"
    THEN [collector EXCEPT !.omitted = @ + warning.count]
    ELSE IF Len(collector.retained) < collector.limit - 1
         THEN [collector EXCEPT !.retained = Append(@, warning)]
         ELSE [collector EXCEPT !.omitted = @ + 1]

AddWarnings(collector, warnings) == FoldLeft(AddWarning, collector, warnings)

CollectedWarnings(collector) ==
    IF collector.omitted = 0 THEN collector.retained
    ELSE Append(collector.retained,
                [code |-> "WARNINGS_TRUNCATED", count |-> collector.omitted])

Parsed(type, blocks, warnings) ==
    [error |-> IF blocks = <<>> THEN "NO_EXTRACTABLE_TEXT" ELSE "none",
     source_type |-> type, blocks |-> blocks, warnings |-> warnings]
NotParsed(code) == [error |-> code, source_type |-> "none", blocks |-> <<>>, warnings |-> <<>>]

(***************************************************************************)
(* Plain text: lines is a sequence of sequences of character classes.      *)
(***************************************************************************)
BlankLine(line) == \A i \in DOMAIN line : line[i] = "space"

\* The text of the lines first .. last, joined by newlines.
JoinLines(lines, first, last) ==
    FlattenSeq([k \in 1 .. last - first + 1 |->
        LET n == first + k - 1
        IN  (IF k = 1 THEN <<>> ELSE <<<<"newline", <<n, 0>>>>>>)
            \o [i \in DOMAIN lines[n] |-> <<lines[n][i], <<n, i>>>>]])

TextMeta(first, last, path) ==
    [lines |-> <<first, last>>, heading_path |-> path, sheet |-> "none", row |-> 0]

\* _paragraph_blocks; start is 0 outside a paragraph.
ParseText(lines) ==
    LET Close(acc, last) ==
            IF acc.start = 0 THEN acc
            ELSE [start |-> 0,
                  blocks |-> Append(acc.blocks,
                      [type |-> "paragraph", text |-> JoinLines(lines, acc.start, last),
                       meta |-> TextMeta(acc.start, last, <<>>)])]
        Step(acc, n) ==
            IF BlankLine(lines[n]) THEN Close(acc, n - 1)
            ELSE [acc EXCEPT !.start = IF @ = 0 THEN n ELSE @]
        walked == FoldLeft(Step, [start |-> 0, blocks |-> <<>>],
                           [n \in DOMAIN lines |-> n])
    IN  Parsed("text", Close(walked, Len(lines)).blocks, <<>>)

(***************************************************************************)
(* Markdown: _walk_tokens over tokens [type, level, map, text].  level is  *)
(* 0 and cells is "none" where the code holds None.                        *)
(***************************************************************************)
BlankText(text) == \A i \in DOMAIN text : text[i][1] \in {"space", "newline"}

AppendBlock(walk, type, text) ==
    IF BlankText(text) THEN walk
    ELSE [walk EXCEPT !.blocks = Append(@,
            [type |-> type, text |-> text,
             meta |-> TextMeta(walk.map[1], walk.map[2],
                               [i \in DOMAIN walk.stack |-> walk.stack[i].title])])]

\* Mutant of EnterHeading: a heading of the same level is not left.
EnterBelowEqual(walk, level, title) ==
    [walk EXCEPT !.stack = Append(Kept(@, {i \in DOMAIN @ : @[i].level <= level}),
                                  [level |-> level, title |-> title])]

EnterHeading(walk, level, title) ==
    [walk EXCEPT !.stack = Append(Kept(@, {i \in DOMAIN @ : @[i].level < level}),
                                  [level |-> level, title |-> title])]

InlineToken(walk, text) ==
    IF walk.cells # "none" THEN [walk EXCEPT !.cells = Append(@, text)]
    ELSE IF walk.level # 0
         THEN [AppendBlock(EnterHeading(walk, walk.level, text), "heading", text)
                  EXCEPT !.level = 0]
         ELSE AppendBlock(walk, IF walk.depth > 0 THEN "list_item" ELSE "paragraph", text)

\* " | ".join(table_cells): a joint is a space, a bar and a space, which get
\* the line of the row as their origin.
JoinCells(cells, line) ==
    LET Joint(class) == <<class, <<line, 0>>>>
    IN  FlattenSeq([i \in DOMAIN cells |->
            (IF i = 1 THEN <<>> ELSE <<Joint("space"), Joint("letter"), Joint("space")>>)
            \o cells[i]])

\* A code block stands under the headings of the stack, with its own lines.
FenceToken(walk, token) ==
    IF token.text = <<>> THEN walk
    ELSE [walk EXCEPT !.blocks = Append(@,
             [type |-> "code", text |-> token.text,
              meta |-> TextMeta(token.map[1], token.map[2],
                                [i \in DOMAIN walk.stack |-> walk.stack[i].title])])]

\* The end of a table row.
CloseRow(walk) ==
    [(IF walk.cells = "none" THEN walk
      ELSE AppendBlock(walk, "table_row", JoinCells(walk.cells, walk.map[1])))
        EXCEPT !.cells = "none"]

WalkToken(walk, token) ==
    IF token.type = "heading_open"
    THEN [walk EXCEPT !.level = token.level, !.map = token.map]
    ELSE IF token.type = "paragraph_open" THEN [walk EXCEPT !.map = token.map]
    ELSE IF token.type = "list_item_open" THEN [walk EXCEPT !.depth = @ + 1]
    ELSE IF token.type = "list_item_close" THEN [walk EXCEPT !.depth = @ - 1]
    ELSE IF token.type = "tr_open" THEN [walk EXCEPT !.cells = <<>>, !.map = token.map]
    ELSE IF token.type = "tr_close" THEN CloseRow(walk)
    ELSE IF token.type = "fence" THEN FenceToken(walk, token)
    ELSE IF token.type = "inline" THEN InlineToken(walk, token.text)
    ELSE walk

ParseMarkdown(tokens) ==
    Parsed("markdown",
           FoldLeft(WalkToken,
                    [blocks |-> <<>>, stack |-> <<>>, depth |-> 0, cells |-> "none",
                     level |-> 0, map |-> <<0, 0>>],
                    tokens).blocks,
           <<>>)

(***************************************************************************)
(* XLSX.  A workbook is a sequence of sheets [title, visible, elements];   *)
(* the elements stand for the XML nodes in stream order:                   *)
(*   [tag |-> "c", at |-> <<row, column>>, kind, label]   a cell           *)
(*   [tag |-> "mergeCell" or "hyperlink", range |-> <<r1, c1, r2, c2>>]    *)
(*   [tag |-> "other"]                                                     *)
(* A cell's kind: "empty", "blank" (white space), "text", "cached" (a      *)
(* formula with its value) or "formula" (one without).                     *)
(***************************************************************************)
\* The coordinates and the ranges the preflight lets through
\* (_validate_physical_cell_coordinate, _validated_range).
SheetPlaces == (1 .. XlsxMaxRow) \X (1 .. XlsxMaxColumn)
SheetRanges == {r \in (1 .. XlsxMaxRow) \X (1 .. XlsxMaxColumn)
                 \X (1 .. XlsxMaxRow) \X (1 .. XlsxMaxColumn) :
              r[1] <= r[3] /\ r[2] <= r[4]}
IsElement(element) ==
    /\ element.tag = "c" => element.at \in SheetPlaces
    /\ element.tag \in {"mergeCell", "hyperlink"} => element.range \in SheetRanges

Area(range) == (range[3] - range[1] + 1) * (range[4] - range[2] + 1)
Cells(range) == (range[1] .. range[3]) \X (range[2] .. range[4])

Fail(scan, code) == [scan EXCEPT !.error = code]
FailIf(scan, condition, code) ==
    IF scan.error = "none" /\ condition THEN Fail(scan, code) ELSE scan

\* Mutant of Materialize: a range that was merged is taken as accounted for.
MaterializeUnmerged(scan, range) ==
    LET area == IF range \in scan.merged THEN 0 ELSE Area(range)
    IN  FailIf([scan EXCEPT !.possible = @ + area],
               scan.possible + area > MaxPhysicalCells, "TABLE_PHYSICAL_CELL_LIMIT_EXCEEDED")

\* The cells openpyxl may create for a merged or linked range, once per range.
Materialize(scan, range) ==
    LET area == IF range \in scan.materializing THEN 0 ELSE Area(range)
    IN  FailIf([scan EXCEPT !.possible = @ + area, !.materializing = @ \cup {range}],
               scan.possible + area > MaxPhysicalCells, "TABLE_PHYSICAL_CELL_LIMIT_EXCEEDED")

\* One element of _preflight_worksheet_xml; the counts run over all sheets,
\* the coordinates and the ranges belong to one sheet.
PreflightElement(scan, element) ==
    LET node == FailIf([scan EXCEPT !.nodes = @ + 1], scan.nodes + 1 > MaxXmlNodes,
                       "TABLE_XML_NODE_LIMIT_EXCEEDED")
        Merge(s, range) ==
            LET area == IF range \in s.merged THEN 0 ELSE Area(range)
                total == s.total + area
            IN  FailIf(FailIf([s EXCEPT !.total = total, !.merged = @ \cup {range}],
                              Area(range) > MaxMergedArea,
                              "TABLE_MERGED_CELL_LIMIT_EXCEEDED"),
                       total > MaxTotalMergedArea,
                       "TABLE_TOTAL_MERGED_CELL_LIMIT_EXCEEDED")
        Physical(s) ==
            LET counted == FailIf([s EXCEPT !.possible = @ + 1, !.coords = @ \cup {element.at}],
                                  s.possible + 1 > MaxPhysicalCells,
                                  "TABLE_PHYSICAL_CELL_LIMIT_EXCEEDED")
                content == element.kind # "empty"
            IN  FailIf(FailIf(counted, content /\ element.at[1] > MaxRowCoordinate,
                              "TABLE_ROW_LIMIT_EXCEEDED"),
                       content /\ element.at[2] > MaxColumns, "TABLE_COLUMN_LIMIT_EXCEEDED")
    IN  IF scan.error # "none" THEN scan
        ELSE IF element.tag = "c" THEN Physical(node)
        ELSE IF element.tag = "mergeCell"
             THEN Materialize(Merge(node, element.range), element.range)
        ELSE IF element.tag = "hyperlink" THEN Materialize(node, element.range)
        ELSE node

Preflight(workbook) ==
    LET Sheet(scan, sheet) ==
            LET read == FoldLeft(PreflightElement,
                            [scan EXCEPT !.coords = {}, !.merged = {}, !.materializing = {}],
                            sheet.elements)
            IN  [read EXCEPT !.sheets = Append(@, read.coords)]
    IN  FoldLeft(Sheet, [error |-> "none", nodes |-> 0, total |-> 0, possible |-> 0,
                         coords |-> {}, merged |-> {}, materializing |-> {},
                         sheets |-> <<>>], workbook)

\* What openpyxl makes of a merged range: every cell but the first is a
\* MergedCell, whatever the file holds there.
MergedAway(sheet) ==
    UNION {Cells(e.range) \ {<<e.range[1], e.range[2]>>} :
              e \in {x \in ToSet(sheet.elements) : x.tag = "mergeCell"}}

\* The element a coordinate shows: the last one of the file.
CellAt(sheet, at) ==
    LET showing == {i \in DOMAIN sheet.elements :
                       sheet.elements[i].tag = "c" /\ sheet.elements[i].at = at}
    IN  sheet.elements[Max(showing)]

\* _physical_cells and _worksheet_rows: the rows that hold a value, each as its
\* number and its cells from the first column to the last used one.
NoValue == [kind |-> "empty", label |-> <<>>]

WorksheetRows(sheet, coords) ==
    LET present == {at \in coords \ MergedAway(sheet) : CellAt(sheet, at).kind # "empty"}
        Columns(row) == {at[2] : at \in {x \in present : x[1] = row}}
        Value(row, column) ==
            IF column \in Columns(row)
            THEN [kind |-> CellAt(sheet, <<row, column>>).kind,
                  label |-> CellAt(sheet, <<row, column>>).label]
            ELSE NoValue
        top == Max({0} \cup {at[1] : at \in present})
        rows == Kept([r \in 1 .. top |-> r], {at[1] : at \in present})
    IN  [i \in DOMAIN rows |->
            [row |-> rows[i],
             values |-> [c \in 1 .. Max(Columns(rows[i])) |-> Value(rows[i], c)]]]

UncachedFormulas(sheet, coords) ==
    Cardinality({at \in coords \ MergedAway(sheet) : CellAt(sheet, at).kind = "formula"})

\* Mutant of Headers: repeated labels are kept.
HeadersAsWritten(values) ==
    [i \in DOMAIN values |-> IF values[i].kind \in {"empty", "blank"} THEN <<"column", i>>
                             ELSE values[i].label]

\* normalize_table_headers: a label that is used already gets the first number
\* from 2 on that makes it new; an empty header is named by its column.
Headers(values) ==
    LET Name(used, i) ==
            LET candidate == IF values[i].kind \in {"empty", "blank"} THEN <<"column", i>>
                             ELSE values[i].label
                n == CHOOSE k \in 1 .. Len(values) + 1 :
                        /\ (IF k = 1 THEN candidate ELSE Append(candidate, k))
                               \notin ToSet(used)
                        /\ \A j \in 1 .. k - 1 :
                              (IF j = 1 THEN candidate ELSE Append(candidate, j))
                                  \in ToSet(used)
            IN  Append(used, IF n = 1 THEN candidate ELSE Append(candidate, n))
    IN  FoldLeft(Name, <<>>, [i \in DOMAIN values |-> i])

\* format_table_row: "label：value" for every value, joined by "；".
TableRowText(values, sheet, row) ==
    LET used == Kept([c \in DOMAIN values |-> c],
                     {c \in DOMAIN values : values[c].kind # "empty"})
    IN  FlattenSeq([k \in DOMAIN used |->
            (IF k = 1 THEN <<>> ELSE <<<<"cjk_stop", <<sheet, row, 0>>>>>>)
            \o <<<<"letter", <<sheet, row, 0>>>>, <<"letter", <<sheet, row, used[k]>>>>>>])

\* table_blocks: the first row with a value names the columns, every later one
\* becomes a block.  budget is the rows used by the document so far.
TableBlocks(rows, sheet, budget) ==
    LET meaningful == Kept(rows, {i \in DOMAIN rows :
                          \E c \in DOMAIN rows[i].values :
                              rows[i].values[c].kind \notin {"empty", "blank"}})
        width == Max({0} \cup {Len(meaningful[i].values) : i \in DOMAIN meaningful})
        headers == Headers([c \in 1 .. width |->
                       IF c <= Len(meaningful[1].values) THEN meaningful[1].values[c]
                       ELSE NoValue])
        Block(r) == [type |-> "table_row", text |-> TableRowText(r.values, sheet, r.row),
                     meta |-> [lines |-> <<0, 0>>, heading_path |-> <<>>, sheet |-> sheet,
                               row |-> r.row, headers |-> headers]]
        failing == {i \in DOMAIN meaningful :
                       budget + i > MaxRows \/ Len(meaningful[i].values) > MaxColumns}
    IN  [budget |-> budget + Len(meaningful),
         error  |-> IF failing = {} THEN "none"
                    ELSE IF budget + Min(failing) > MaxRows THEN "TABLE_ROW_LIMIT_EXCEEDED"
                    ELSE "TABLE_COLUMN_LIMIT_EXCEEDED",
         blocks |-> IF meaningful = <<>> THEN <<>>
                    ELSE [i \in 1 .. Len(meaningful) - 1 |-> Block(meaningful[i + 1])]]

\* What reading a sheet warns of.
TableWarnings(table, formulas) ==
    (IF formulas = 0 THEN <<>>
     ELSE <<[code |-> "FORMULA_CACHE_UNAVAILABLE", count |-> formulas]>>)
    \o (IF table.blocks # <<>> THEN <<>>
        ELSE <<[code |-> "EMPTY_SHEET_SKIPPED", count |-> 1]>>)

WithTable(read, table, formulas) ==
    [error |-> table.error, budget |-> table.budget, blocks |-> read.blocks \o table.blocks,
     warnings |-> AddWarnings(read.warnings, TableWarnings(table, formulas))]

\* One sheet: a hidden one is skipped.
WithSheet(read, sheet, coords) ==
    IF read.error # "none" THEN read
    ELSE IF ~sheet.visible
    THEN [read EXCEPT !.warnings = AddWarning(@,
             [code |-> "HIDDEN_SHEET_SKIPPED", count |-> 1])]
    ELSE WithTable(read,
             TableBlocks(WorksheetRows(sheet, coords), sheet.title, read.budget),
             UncachedFormulas(sheet, coords))

NothingRead == [error |-> "none", budget |-> 0, blocks |-> <<>>,
                warnings |-> Collector(MaxParserWarnings)]

\* The sheets in their order.
SheetsRead(workbook, coords) ==
    FoldLeft(LAMBDA read, i : WithSheet(read, workbook[i], coords[i]), NothingRead,
             [i \in DOMAIN workbook |-> i])

\* XlsxParser.parse
ParseWorkbook(workbook) ==
    LET Result(read) ==
            IF read.error # "none" THEN NotParsed(read.error)
            ELSE Parsed("xlsx", read.blocks, CollectedWarnings(read.warnings))
        Checked(preflight) ==
            IF preflight.error # "none" THEN NotParsed(preflight.error)
            ELSE Result(SheetsRead(workbook, preflight.sheets))
    IN  Checked(Preflight(workbook))

\* ParserRegistry.parse over the kinds modelled; the last alternative is a
\* source its parser gives up on.
Parse(document) ==
    IF document.kind = "text" THEN ParseText(document.lines)
    ELSE IF document.kind = "markdown" THEN ParseMarkdown(document.tokens)
    ELSE IF document.kind = "xlsx" THEN ParseWorkbook(document.workbook)
    ELSE NotParsed("UNSUPPORTED_FILE_TYPE")
================================================================================
