----------------------------- MODULE Segmentation -----------------------------
(***************************************************************************)
(* Segmenter (segmentation/segmenter.py): the pure algorithm that cuts a   *)
(* parsed document into general segments, or into parents and children.    *)
(* The preview and the indexing engine call the same code.                 *)
(*                                                                         *)
(* A text is a sequence of characters <<class, origin>>: the class is what *)
(* the boundary rules tell apart, the origin says where in the document    *)
(* the character stands (the code never looks at it; the properties do).   *)
(* Delimiters the code adds have the origin <<>>.  Positions are 0-based,  *)
(* ranges half open, as in the code.                                       *)
(***************************************************************************)
EXTENDS Integers, Sequences, FiniteSets, SequencesExt, Lists

CONSTANTS MaxSegments,       \* budget of records of one document
          MaxBoundaryScan    \* budget of characters searched for boundaries

ASSUME SegmenterAssumption == MaxSegments \in Nat \ {0} /\ MaxBoundaryScan \in Nat \ {0}

Class(text, i) == text[i + 1][1]
Slice(text, start, end) == SubSeq(text, start + 1, end)
IsSpace(class) == class \in {"space", "newline"}
Blank(text) == \A i \in DOMAIN text : IsSpace(text[i][1])

(***************************************************************************)
(* Boundaries.                                                             *)
(***************************************************************************)
\* The boundary sets in order of preference; count is how many strings of the
\* code the class stands for: each of them is searched for, and paid for.
BoundarySets(separator) ==
    (IF separator = <<>> THEN <<>> ELSE <<[choice |-> separator, count |-> 1]>>)
    \o << [choice |-> <<"newline", "newline">>, count |-> 1],
          [choice |-> <<"newline">>, count |-> 1],
          [choice |-> <<"cjk_stop">>, count |-> 4],
          [choice |-> <<"stop">>, count |-> 4],
          [choice |-> <<"space">>, count |-> 2] >>

\* Where the occurrences of a boundary string within [start, limit) end.
Ends(text, choice, start, limit) ==
    {i + Len(choice) : i \in {j \in start .. limit - Len(choice) :
        \A k \in DOMAIN choice : Class(text, j + k - 1) = choice[k]}}

\* The last boundary of the first set that has one with text before it; end 0
\* when there is none.
BoundaryEnd(text, start, limit, separator) ==
    LET sets == BoundarySets(separator)
        Hits(g) == {e \in Ends(text, sets[g].choice, start, limit) :
                       ~Blank(Slice(text, start, e))}
        visited == Min({g \in DOMAIN sets : Hits(g) # {}} \cup {Len(sets)})
    IN  [end     |-> Max(Hits(visited) \cup {0}),
         scanned |-> (limit - start) * FoldLeft(LAMBDA n, s : n + s.count, 0,
                                                SubSeq(sets, 1, visited))]

MinimumAdvance(maximum, overlap) == Max({1, (maximum - overlap + 1) \div 2})

\* Mutant of ProjectedRecords: the last, shorter advance is not counted.
ProjectedRoundedDown(length, maximum, overlap) ==
    IF length <= maximum THEN 1
    ELSE 1 + (length - maximum) \div MinimumAdvance(maximum, overlap)

\* What ensure_projected_records compares with the records that are left.
ProjectedRecords(length, maximum, overlap) ==
    LET advance == MinimumAdvance(maximum, overlap)
    IN  IF length <= maximum THEN 1
        ELSE 1 + (length - maximum + advance - 1) \div advance

\* The piece that starts at start: it ends at a boundary that is not too near,
\* else at the maximum.
Piece(text, start, maximum, overlap, separator) ==
    LET limit == Min({start + maximum, Len(text)})
        UpTo(boundary) ==
            [start |-> start, scanned |-> boundary.scanned,
             end |-> IF /\ boundary.end # 0
                        /\ boundary.end - overlap - start >= MinimumAdvance(maximum, overlap)
                     THEN boundary.end ELSE limit]
    IN  IF limit = Len(text) THEN [start |-> start, end |-> limit, scanned |-> 0]
        ELSE UpTo(BoundaryEnd(text, start, limit, separator))

SplitRanges(text, maximum, overlap, separator) ==
    LET from[start \in 0 .. Len(text)] ==
            LET Onwards(piece) ==
                    <<piece>> \o (IF piece.end = Len(text) THEN <<>>
                                  ELSE from[piece.end - overlap])
            IN  Onwards(Piece(text, start, maximum, overlap, separator))
    IN  IF text = <<>> THEN <<>> ELSE from[0]

(***************************************************************************)
(* Sources: a text and the pieces of it that come from one block.          *)
(***************************************************************************)
SourceForBlock(block) ==
    [text |-> block.text,
     pieces |-> <<[start |-> 0, end |-> Len(block.text), meta |-> block.meta]>>]

Delimiter(n) == [i \in 1 .. n |-> <<"newline", <<>>>>]

\* _combine_blocks: the blocks' texts with a delimiter of n newlines between.
CombineBlocks(blocks, n) ==
    LET Add(source, block) ==
            LET text == source.text \o (IF source.text = <<>> THEN <<>> ELSE Delimiter(n))
            IN  [text |-> text \o block.text,
                 pieces |-> Append(source.pieces,
                     [start |-> Len(text), end |-> Len(text) + Len(block.text),
                      meta |-> block.meta])]
    IN  FoldLeft(Add, [text |-> <<>>, pieces |-> <<>>], blocks)

\* Mutant of SourceSlice: the pieces are not moved behind the prefix.
SliceWithoutShift(source, start, end, prefix, suffix) ==
    LET Clip(piece) == [start |-> Max({start, piece.start}) - start,
                        end |-> Min({end, piece.end}) - start, meta |-> piece.meta]
        clipped == [i \in DOMAIN source.pieces |-> Clip(source.pieces[i])]
    IN  [text |-> Delimiter(prefix) \o Slice(source.text, start, end) \o Delimiter(suffix),
         pieces |-> Kept(clipped, {i \in DOMAIN clipped :
                                      clipped[i].start < clipped[i].end})]

\* _source_slice: a part of a source between a prefix and a suffix of newlines.
SourceSlice(source, start, end, prefix, suffix) ==
    LET Clip(piece) ==
            [start |-> prefix + Max({start, piece.start}) - start,
             end   |-> prefix + Min({end, piece.end}) - start,
             meta  |-> piece.meta]
        clipped == [i \in DOMAIN source.pieces |-> Clip(source.pieces[i])]
    IN  [text |-> Delimiter(prefix) \o Slice(source.text, start, end) \o Delimiter(suffix),
         pieces |-> Kept(clipped, {i \in DOMAIN clipped :
                                      clipped[i].start < clipped[i].end})]

\* _merge_metadata for the keys with a rule of their own: the hull of the line
\* ranges and of the rows, the path of the first piece, and every sheet met.
MergeMetadata(items) ==
    LET all == {items[i] : i \in DOMAIN items}
    IN  [lines        |-> <<Min({m.lines[1] : m \in all}), Max({m.lines[2] : m \in all})>>,
         rows         |-> <<Min({m.row : m \in all}), Max({m.row : m \in all})>>,
         heading_path |-> items[1].heading_path,
         sheets       |-> {m.sheet : m \in all}]

MetadataFor(source, start, end) ==
    LET hit == Kept(source.pieces, {i \in DOMAIN source.pieces :
                        source.pieces[i].start < end /\ start < source.pieces[i].end})
    IN  IF hit = <<>> THEN <<>> ELSE MergeMetadata([i \in DOMAIN hit |-> hit[i].meta])

(***************************************************************************)
(* The delimiters of a full-document parent that is too long: for every    *)
(* boundary the two newlines go to the end of one block, to the start of   *)
(* the next, one to each, or are omitted (decision -1).                    *)
(***************************************************************************)
Protected(block, maximum) ==
    block.type \in {"code", "table_row"} /\ Len(block.text) <= maximum

CeilDiv(n, d) == (n + d - 1) \div d

\* Mutants of CanHost: any block with text takes any delimiter; a block with one
\* visible character is not treated apart.
CanHostAnywhere(block, prefix, suffix, maximum) == ~Blank(block.text)
CanHostBothApart(block, prefix, suffix, maximum) ==
    LET solid == {i \in 0 .. Len(block.text) - 1 : ~IsSpace(Class(block.text, i))}
    IN  /\ solid # {}
        /\ prefix # 0 => prefix + Min(solid) + 1 <= maximum
        /\ suffix # 0 => Len(block.text) - Max(solid) + suffix <= maximum

CanHost(block, prefix, suffix, maximum) ==
    LET solid == {i \in 0 .. Len(block.text) - 1 : ~IsSpace(Class(block.text, i))}
    IN  /\ solid # {}
        /\ prefix # 0 => prefix + Min(solid) + 1 <= maximum
        /\ suffix # 0 => Len(block.text) - Max(solid) + suffix <= maximum
        /\ (prefix # 0 /\ suffix # 0 /\ Min(solid) = Max(solid))
               => Len(block.text) + prefix + suffix <= maximum

HostPossible(block, prefix, suffix, maximum) ==
    IF Protected(block, maximum) THEN prefix = 0 /\ suffix = 0
    ELSE CanHost(block, prefix, suffix, maximum)

SplitCost(block, prefix, suffix, maximum) ==
    IF Protected(block, maximum) THEN 0
    ELSE Max({0, CeilDiv(Len(block.text) + prefix + suffix, maximum)
                   - CeilDiv(Len(block.text), maximum)})

Preference(blocks, i, prefix, suffix, maximum) ==
    LET Fits(block, p, s) == Len(block.text) + p + s <= maximum
    IN  IF suffix = 1 THEN 4
        ELSE IF suffix = 2 THEN IF Fits(blocks[i], prefix, 2) THEN 0 ELSE 2
        ELSE IF ~Protected(blocks[i + 1], maximum) /\ Fits(blocks[i + 1], 2, 0) THEN 1
        ELSE 3

\* Mutant of Less: the extra parts weigh more than the omitted delimiters.
LessByExtraFirst(a, b) ==
    \E k \in 2 .. 4 : a[k] < b[k] /\ \A j \in 2 .. k - 1 : a[j] = b[j]

\* Costs are <<delimiters omitted, extra parts, preference>>, least first.
Less(a, b) ==
    \E k \in 1 .. 4 : a[k] < b[k] /\ \A j \in 1 .. k - 1 : a[j] = b[j]

\* A decision hangs 0, 1 or 2 of the two newlines of a boundary on the block
\* before it and the rest on the block after it, or omits them: -1.
Decisions == -1 .. 2
Carried(d) == IF d = -1 THEN 0 ELSE d
Passed(d) == IF d = -1 THEN 0 ELSE 2 - d

\* The plan that decides d for block i, which carries a prefix of p newlines,
\* and goes on with plan f.
Planned(d, f, blocks, maximum, i, p) ==
    [cost |-> IF d = -1
              THEN <<1 + f.cost[1], SplitCost(blocks[i], p, 0, maximum) + f.cost[2], f.cost[3]>>
              ELSE <<f.cost[1], SplitCost(blocks[i], p, d, maximum) + f.cost[2],
                     Preference(blocks, i, p, d, maximum) + f.cost[3]>>,
     decisions |-> <<d>> \o f.decisions]

\* The plans that are compared for block i, and what they are compared by.
PlansFor(after, blocks, maximum, i, p) ==
    UNION {{Planned(d, f, blocks, maximum, i, p) : f \in after[Passed(d)]} :
              d \in {e \in Decisions : HostPossible(blocks[i], p, Carried(e), maximum)}}
KeyOf(c) == <<c.cost[1], c.cost[2], c.cost[3], c.decisions[1]>>
Least(plans) == {c \in plans : \A d \in plans : d = c \/ Less(KeyOf(c), KeyOf(d))}

\* The plan for the last block, where it can be.
LastPlans(blocks, maximum, i, p) ==
    IF HostPossible(blocks[i], p, 0, maximum)
    THEN {[cost |-> <<0, SplitCost(blocks[i], p, 0, maximum), 0>>, decisions |-> <<>>]}
    ELSE {}

\* The best plan from block i on for every prefix, in a set that is empty when
\* there is none, from those of the next block.
BestFrom(after, blocks, maximum, i) ==
    [p \in 0 .. 2 |-> IF i = Len(blocks) THEN LastPlans(blocks, maximum, i, p)
                      ELSE Least(PlansFor(after, blocks, maximum, i, p))]

\* _allocate_delimiters
Allocation(blocks, maximum) ==
    LET best[i \in 1 .. Len(blocks)] == BestFrom(best[i + 1], blocks, maximum, i)
    IN  CHOOSE a \in best[1][0] : TRUE

(***************************************************************************)
(* Parents of a document that exceeds the maximum.  A unit is a source and *)
(* whether it still has to be split.                                       *)
(***************************************************************************)
Whole(source) == [source |-> source, split |-> FALSE]
ToSplit(source) == [source |-> source, split |-> TRUE]

\* _split_fallback_block
FallbackUnits(block, prefix, suffix, maximum) ==
    LET source == SourceForBlock(block)
        length == Len(block.text)
        solid == {i \in 0 .. length - 1 : ~IsSpace(Class(block.text, i))}
        suffixStart == IF suffix # 0 THEN Max(solid) ELSE length
        prefixEnd == IF prefix = 0 THEN 0
                     ELSE Min({suffixStart,
                               Max({Min(solid) + 1, Min({length, maximum - prefix})})})
    IN  IF length + prefix + suffix <= maximum
        THEN <<Whole(SourceSlice(source, 0, length, prefix, suffix))>>
        ELSE (IF prefix = 0 THEN <<>>
              ELSE <<Whole(SourceSlice(source, 0, prefixEnd, prefix, 0))>>)
             \o (IF prefixEnd >= suffixStart THEN <<>>
                 ELSE <<ToSplit(SourceSlice(source, prefixEnd, suffixStart, 0, 0))>>)
             \o (IF suffix = 0 THEN <<>>
                 ELSE <<Whole(SourceSlice(source, suffixStart, length, 0, suffix))>>)

\* _fallback_parent_sources
FallbackParents(blocks, maximum) ==
    LET decisions == Allocation(blocks, maximum).decisions
        Suffix(i) == IF i = Len(blocks) \/ decisions[i] = -1 THEN 0 ELSE decisions[i]
        Prefix(i) == IF i = 1 \/ decisions[i - 1] = -1 THEN 0 ELSE 2 - decisions[i - 1]
    IN  FlattenSeq([i \in DOMAIN blocks |->
            IF Protected(blocks[i], maximum) THEN <<Whole(SourceForBlock(blocks[i]))>>
            ELSE FallbackUnits(blocks[i], Prefix(i), Suffix(i), maximum)])

IsSpreadsheet(parsed, blocks) ==
    \/ parsed.source_type \in {"csv", "xls", "xlsx"}
    \/ \A i \in DOMAIN blocks : blocks[i].type = "table_row" /\ blocks[i].meta.sheet # "none"

\* _spreadsheet_parent_sources: runs of adjacent rows of one sheet.
SpreadsheetParents(blocks) ==
    LET SameGroup(a, b) == a.meta.sheet = b.meta.sheet /\ b.meta.row = a.meta.row + 1
        Group(groups, block) ==
            IF groups # <<>> /\ SameGroup(Last(Last(groups)), block)
            THEN Append(Front(groups), Append(Last(groups), block))
            ELSE Append(groups, <<block>>)
        groups == FoldLeft(Group, <<>>, blocks)
    IN  [i \in DOMAIN groups |-> CombineBlocks(groups[i], 1)]

\* _general_sources: code blocks and table rows stay whole, prose is joined.
GeneralSources(blocks) ==
    LET Atomic(block) == block.type \in {"code", "table_row"}
        Group(groups, block) ==
            IF groups # <<>> /\ ~Atomic(block) /\ ~Atomic(Last(Last(groups)))
            THEN Append(Front(groups), Append(Last(groups), block))
            ELSE Append(groups, <<block>>)
        groups == FoldLeft(Group, <<>>, blocks)
    IN  [i \in DOMAIN groups |-> CombineBlocks(groups[i], 2)]

(***************************************************************************)
(* Emission under the work budget.  work is what a run of the segmenter    *)
(* has produced and consumed; over says that a budget was exceeded, after  *)
(* which nothing counts any more.                                          *)
(***************************************************************************)
NoWork == [out |-> <<>>, scanned |-> 0, over |-> FALSE]

Serial(work, type) == 1 + Cardinality({i \in DOMAIN work.out : work.out[i].index_type = type})

Emit(work, type, parent, content, meta) ==
    IF work.over \/ Len(work.out) >= MaxSegments THEN [work EXCEPT !.over = TRUE]
    ELSE [work EXCEPT !.out = Append(@,
            [local_id |-> <<type, Serial(work, type)>>, parent_local_id |-> parent,
             position |-> Len(work.out), content |-> content, source_metadata |-> meta,
             index_type |-> type])]

\* The work after the ranges of a text were asked for: the projection is
\* checked first, then every boundary search is paid for.
Charge(work, length, ranges, maximum, overlap) ==
    LET scanned == work.scanned + FoldLeft(LAMBDA n, r : n + r.scanned, 0, ranges)
    IN  [work EXCEPT !.scanned = scanned,
                     !.over = \/ @
                              \/ length > 0 /\ ProjectedRecords(length, maximum, overlap)
                                                  > MaxSegments - Len(work.out)
                              \/ scanned > MaxBoundaryScan]

\* One segment for every range of source.text[from .. to) that is not blank.
EmitRanges(work, source, from, to, maximum, overlap, separator, type, parent) ==
    LET ranges == SplitRanges(Slice(source.text, from, to), maximum, overlap, separator)
        One(acc, range) ==
            LET content == Slice(source.text, from + range.start, from + range.end)
            IN  IF Blank(content) THEN acc
                ELSE Emit(acc, type, parent, content,
                          MetadataFor(source, from + range.start, from + range.end))
    IN  FoldLeft(One, Charge(work, to - from, ranges, maximum, overlap), ranges)

General(blocks, config) ==
    FoldLeft(LAMBDA work, source :
                 EmitRanges(work, source, 0, Len(source.text), config.max, config.overlap,
                            config.separator, "general", <<>>),
             NoWork, GeneralSources(blocks))

\* A parent and its children; the rows of a spreadsheet are split one by one.
EmitFamily(work, part, config, atomicRows) ==
    LET parentId == <<"parent", Serial(work, "parent")>>
        parent == Emit(work, "parent", <<>>, part.text, MetadataFor(part, 0, Len(part.text)))
        Children(acc, piece) ==
            EmitRanges(acc, part, piece.start, piece.end, config.max, config.overlap,
                       config.separator, "child", parentId)
        pieces == IF atomicRows THEN part.pieces
                  ELSE <<[start |-> 0, end |-> Len(part.text)]>>
    IN  IF Blank(part.text) THEN work ELSE FoldLeft(Children, parent, pieces)

EmitUnit(work, unit, config, atomicRows) ==
    LET ranges == SplitRanges(unit.source.text, config.parent_max, 0, config.separator)
        parts == [i \in DOMAIN ranges |->
                     SourceSlice(unit.source, ranges[i].start, ranges[i].end, 0, 0)]
        charged == Charge(work, Len(unit.source.text), ranges, config.parent_max, 0)
    IN  FoldLeft(LAMBDA acc, part : EmitFamily(acc, part, config, atomicRows),
                 IF unit.split THEN charged ELSE work,
                 IF unit.split THEN parts ELSE <<unit.source>>)

TooLong(blocks, config) ==
    config.parent_mode = "full_document"
    /\ Len(CombineBlocks(blocks, 2).text) > config.parent_max

ParentUnits(parsed, blocks, config) ==
    IF IsSpreadsheet(parsed, blocks)
    THEN LET groups == SpreadsheetParents(blocks)
         IN  [i \in DOMAIN groups |-> ToSplit(groups[i])]
    ELSE IF TooLong(blocks, config) THEN FallbackParents(blocks, config.parent_max)
    ELSE IF config.parent_mode = "full_document"
         THEN <<ToSplit(CombineBlocks(blocks, 2))>>
    ELSE [i \in DOMAIN blocks |-> ToSplit(SourceForBlock(blocks[i]))]

ParentChild(parsed, blocks, config) ==
    FoldLeft(LAMBDA work, unit :
                 EmitUnit(work, unit, config, IsSpreadsheet(parsed, blocks)),
             NoWork, ParentUnits(parsed, blocks, config))

\* The warnings of a full document that had to be split.
FallbackWarnings(parsed, blocks, config) ==
    IF config.mode = "general" \/ IsSpreadsheet(parsed, blocks) \/ ~TooLong(blocks, config)
    THEN <<>>
    ELSE LET omitted == Allocation(blocks, config.parent_max).cost[1]
         IN  <<[code |-> "PARENT_FULL_DOCUMENT_FALLBACK", count |-> 1]>>
             \o (IF omitted = 0 THEN <<>>
                 ELSE <<[code |-> "SEGMENT_DELIMITER_OMITTED", count |-> omitted]>>)

ValidConfig(config) ==
    /\ config.max > 0 /\ config.overlap >= 0 /\ config.overlap < config.max
    /\ config.mode = "parent_child" =>
           config.parent_max > 0 /\ config.parent_mode \in {"paragraph", "full_document"}

\* The blocks with a visible character.
VisibleBlocks(parsed) ==
    Kept(parsed.blocks, {i \in DOMAIN parsed.blocks : ~Blank(parsed.blocks[i].text)})

\* Segmenter.segment: the segments, or the code of the error it raises.
SegmentDocument(parsed, config) ==
    LET blocks == VisibleBlocks(parsed)
        Failed(code) == [error |-> code, segments |-> <<>>, warnings |-> <<>>]
        Done(work) ==
            IF work.over THEN Failed("SEGMENTATION_LIMIT_EXCEEDED")
            ELSE [error |-> "none", segments |-> work.out,
                  warnings |-> FallbackWarnings(parsed, blocks, config)]
    IN  IF ~ValidConfig(config) THEN Failed("INVALID_SEGMENTATION_CONFIG")
        ELSE IF blocks = <<>> THEN Failed("none")
        ELSE Done(IF config.mode = "general" THEN General(blocks, config)
                  ELSE ParentChild(parsed, blocks, config))
================================================================================
