-------------------------- MODULE SegmentationProofs --------------------------
(***************************************************************************)
(* What the segmenter does with the blocks of a document: every visible    *)
(* character is in a segment that is searched, no segment is blank or too  *)
(* long, and a child stands in its parent.                                 *)
(***************************************************************************)
EXTENDS SplittingProofs

\* A configuration the segmenter takes: its numbers are natural, its separator
\* a sequence.
Configured(config, X) ==
    /\ config.max \in Nat /\ config.overlap \in Nat /\ config.overlap < config.max
    /\ config.separator \in Seq(X)

\* next is the work after the whole text of a source was emitted.
TextEmitted(S, work, next, source) ==
    /\ next \in Works(S) /\ Grows(work, next)
    /\ next.over = FALSE =>
          \A k \in 1 .. Len(source.text) :
              ~IsSpace(source.text[k][1]) => Shown(next, source.text[k])

\* Steps that each emit a text emit all of them.
LEMMA AllEmitted ==
    ASSUME NEW S, NEW n \in Nat, NEW g, \A i \in 0 .. n : g[i] \in Works(S), NEW s,
           \A i \in 1 .. n : TextEmitted(S, g[i - 1], g[i], s[i])
    PROVE  /\ Grows(g[0], g[n])
           /\ g[n].over = FALSE =>
                 \A i \in 1 .. n : \A k \in 1 .. Len(s[i].text) :
                     ~IsSpace(s[i].text[k][1]) => Shown(g[n], s[i].text[k])
<1>1. \A i \in 0 .. n : Grows(g[i], g[n])
  <2>1. \A i \in 1 .. n : Grows(g[i - 1], g[i])
    BY DEF TextEmitted
  <2> QED BY ONLY <2>1, TraceGrows, n \in Nat, \A i \in 0 .. n : g[i] \in Works(S)
<1>2. ASSUME g[n].over = FALSE, NEW i \in 1 .. n, NEW k \in 1 .. Len(s[i].text),
             ~IsSpace(s[i].text[k][1])
      PROVE  Shown(g[n], s[i].text[k])
  <2>1. PICK a, b, c, source : a = g[i] /\ b = g[n] /\ c = s[i].text[k] /\ source = s[i]
    OBVIOUS
  <2>2. a \in Works(S) /\ b \in Works(S) /\ Grows(a, b) /\ TextEmitted(S, g[i - 1], a, source)
    BY <1>1, <2>1
  <2>3. a.over = FALSE /\ b.over = FALSE
    BY <1>2, <2>1, <2>2 DEF Grows
  <2>4. Shown(a, c)
    BY <1>2, <2>1, <2>2, <2>3 DEF TextEmitted
  <2>5. Shown(b, c)
    BY ONLY <2>2, <2>3, <2>4, ShownStays
  <2> QED BY <2>1, <2>5
<1>3. 0 \in 0 .. n
  OBVIOUS
<1>4. Grows(g[0], g[n])
  BY <1>1, <1>3
<1> QED BY ONLY <1>2, <1>4

\* A general segment of every range of a source.
GeneralEmitted(work, source, config) ==
    EmitRanges(work, source, 0, Len(source.text), config.max, config.overlap,
               config.separator, "general", <<>>)

\* Emitting the general segments of one source.
LEMMA GeneralEmittedIs ==
    ASSUME NEW C, NEW M, NEW X, NEW config, Configured(config, X), NEW pm,
           NEW S, S = SegmentsOver(C, M, {"general"}, pm, config.max),
           NEW source \in Sources(C, M), NEW work \in Works(S), NEW next,
           next = GeneralEmitted(work, source, config)
    PROVE  TextEmitted(S, work, next, source)
<1>1. PICK types, type, parent, m, overlap, separator, to :
        /\ types = {"general"} /\ type = "general" /\ parent = <<>> /\ m = config.max
        /\ overlap = config.overlap /\ separator = config.separator /\ to = Len(source.text)
  OBVIOUS
<1>2. /\ types \in SUBSET {"general", "parent", "child"} /\ type \in types /\ type # "parent"
      /\ parent \in Ids \cup {<<>>}
  BY <1>1
<1>3. m \in Nat /\ overlap \in Nat /\ overlap < m /\ separator \in Seq(X)
  BY <1>1 DEF Configured
<1>4. 0 \in Nat /\ to \in Nat /\ 0 <= to /\ to <= Len(source.text)
  <2>1. source.text \in Seq(C)
    BY SourceFacts
  <2> QED BY <1>1, <2>1
<1>5. work \in HostSet(S, parent, source.text)
  BY <1>1 DEF HostSet, Hosted
<1>6. S = SegmentsOver(C, M, types, pm, m)
  BY <1>1
<1>7. next = EmitRanges(work, source, 0, to, m, overlap, separator, type, parent)
  BY <1>1 DEF GeneralEmitted
<1>8. PartEmitted(S, work, next, source, 0, to, parent)
  BY ONLY <1>2, <1>3, <1>4, <1>5, <1>6, <1>7, EmitRangesIs, source \in Sources(C, M)
<1> QED
  <2>1. next \in Works(S) /\ Grows(work, next)
    BY <1>8 DEF PartEmitted, HostSet
  <2>2. \A k \in 1 .. Len(source.text) : k \in 0 + 1 .. to
    BY <1>1
  <2>3. next.over = FALSE => \A k \in 0 + 1 .. to : ~IsSpace(source.text[k][1]) =>
          Shown(next, source.text[k])
    BY <1>8 DEF PartEmitted
  <2> QED BY ONLY <2>1, <2>2, <2>3 DEF TextEmitted

\* Work at the start.
LEMMA NoWorkIs == ASSUME NEW S PROVE NoWork \in Works(S)
<1>1. PICK none : none = <<>> /\ none \in Seq(S) /\ Len(none) = 0
  <2>1. <<>> \in Seq(S) /\ Len(<<>>) = 0
    OBVIOUS
  <2> QED BY ONLY <2>1
<1>2. NoWork = [out |-> none, scanned |-> 0, over |-> FALSE]
  BY <1>1 DEF NoWork
<1>3. NoWork \in WorkShape(S) /\ NoWork.out = none
  BY ONLY <1>1, <1>2 DEF WorkShape
<1>4. Families(NoWork.out)
  BY ONLY <1>1, <1>3 DEF Families
<1> QED BY <1>3, <1>4 DEF Works

\* The work after each of the sources.
GeneralTrace(S, blocks, config) ==
    \E g :
        /\ g[0] = NoWork
        /\ g[Len(GeneralSources(blocks))] = General(blocks, config)
        /\ \A i \in 0 .. Len(GeneralSources(blocks)) : g[i] \in Works(S)
        /\ \A i \in 1 .. Len(GeneralSources(blocks)) :
              /\ g[i - 1] \in Works(S)
              /\ g[i] = GeneralEmitted(g[i - 1], GeneralSources(blocks)[i], config)

\* The sources are emitted one after the other.
LEMMA GeneralSteps ==
    ASSUME NEW C, NEW M, NEW X, NEW config, Configured(config, X), NEW pm,
           NEW S, S = SegmentsOver(C, M, {"general"}, pm, config.max),
           NEW blocks, GeneralSources(blocks) \in Seq(Sources(C, M))
    PROVE  GeneralTrace(S, blocks, config)
<1> DEFINE n == Len(GeneralSources(blocks))
           step == [i \in 1 .. n |-> [a \in Works(S) |-> GeneralEmitted(a,
                     GeneralSources(blocks)[i], config)]]
           Solves(iter) == iter = [s \in SUBSET DOMAIN GeneralSources(blocks) |->
               IF s = {} THEN NoWork ELSE GeneralEmitted(iter[s \ {Max(s)}],
                    GeneralSources(blocks)[Max(s)], config)]
<1>1. n \in Nat /\ DOMAIN GeneralSources(blocks) = 1 .. n /\ NoWork \in Works(S)
  BY NoWorkIs
<1>2. \A i \in 1 .. n : \A a \in Works(S) : GeneralEmitted(a, GeneralSources(blocks)[i],
        config) \in Works(S)
  <2> SUFFICES ASSUME NEW i \in 1 .. n, NEW a \in Works(S)
               PROVE  GeneralEmitted(a, GeneralSources(blocks)[i], config) \in Works(S)
    OBVIOUS
  <2>1. PICK source, next : source = GeneralSources(blocks)[i]
               /\ next = GeneralEmitted(a, source, config)
    OBVIOUS
  <2>2. source \in Sources(C, M)
    BY <2>1
  <2>3. TextEmitted(S, a, next, source)
    BY ONLY <2>1, <2>2, GeneralEmittedIs, Configured(config, X),
       S = SegmentsOver(C, M, {"general"}, pm, config.max), a \in Works(S)
  <2> QED BY <2>1, <2>3 DEF TextEmitted
<1> HIDE DEF n
<1>3. step \in StepsOf(Works(S), n)
  BY <1>2 DEF StepsOf
<1>4. General(blocks, config) = (CHOOSE iter : Solves(iter))[1 .. n]
  BY <1>1 DEF General, GeneralEmitted, FoldLeft, MapThenFoldSet
<1>5. \E iter : Solves(iter)
  <2>1. PICK iter : FoldSolution(iter, Works(S), NoWork, step, n)
    <3> HIDE DEF step
    <3> QED BY ONLY <1>1, <1>3, FoldExists
  <2>2. \A s \in SUBSET (1 .. n) : s # {} => Max(s) \in 1 .. n /\ iter[s \ {Max(s)}] \in Works(S)
    BY ONLY <1>1, <2>1, MaxOfInitial DEF FoldSolution
  <2>3. \A s \in SUBSET (1 .. n) : s # {} =>
            step[Max(s)][iter[s \ {Max(s)}]] = GeneralEmitted(iter[s \ {Max(s)}],
              GeneralSources(blocks)[Max(s)], config)
    BY ONLY <2>2
  <2> HIDE DEF step
  <2>4. Solves(iter)
    BY ONLY <1>1, <2>1, <2>3 DEF FoldOver, FoldSolution
  <2> QED BY <2>4
<1>6. PICK iter : Solves(iter) /\ General(blocks, config) = iter[1 .. n]
  <2> HIDE DEF Solves
  <2> QED BY ONLY <1>4, <1>5
<1>7. Computes(iter, Works(S), NoWork, step, n)
  BY ONLY <1>1, <1>6, MaxOfInitial DEF Computes
<1>8. PICK g : FoldTrace(g, Works(S), NoWork, step, n) /\ g[n] = iter[1 .. n]
  <2> HIDE DEF step, Solves
  <2> QED BY ONLY <1>1, <1>3, <1>7, FoldSteps
<1>9. \A i \in 1 .. n : g[i - 1] \in Works(S)
        /\ g[i] = GeneralEmitted(g[i - 1], GeneralSources(blocks)[i], config)
  BY ONLY <1>1, <1>8 DEF FoldTrace
<1>10. \A i \in 0 .. n : g[i] \in Works(S)
  BY ONLY <1>8 DEF FoldTrace
<1>11. g[0] = NoWork /\ g[n] = General(blocks, config)
  BY ONLY <1>6, <1>8 DEF FoldTrace
<1> HIDE DEF step, Solves
<1> QED BY <1>9, <1>10, <1>11 DEF n, GeneralTrace

\* The work shows every visible character of the blocks.
ShowsAll(S, work, blocks) ==
    /\ work \in Works(S)
    /\ work.over = FALSE =>
          \A i \in 1 .. Len(blocks) : \A k \in 1 .. Len(blocks[i].text) :
              ~IsSpace(blocks[i].text[k][1]) => Shown(work, blocks[i].text[k])

\* General segments hold all the text (_general).
LEMMA GeneralIs ==
    ASSUME NEW C, Newline \in C, NEW M, NEW X, NEW config, Configured(config, X), NEW pm,
           NEW S, S = SegmentsOver(C, M, {"general"}, pm, config.max),
           NEW B, Blocky(B, C, M), NEW blocks \in Seq(B), NEW work, work = General(blocks, config)
    PROVE  ShowsAll(S, work, blocks)
<1>1. PICK sources : sources = GeneralSources(blocks)
  OBVIOUS
<1>2. /\ sources \in Seq(Sources(C, M))
      /\ \A i \in 1 .. Len(blocks) : \E j \in 1 .. Len(sources) :
            Has(sources[j].text, blocks[i].text)
  BY <1>1, GroupedSources
<1>3. PICK n \in Nat : n = Len(sources)
  BY <1>2
<1>4. GeneralTrace(S, blocks, config)
  <2>1. GeneralSources(blocks) \in Seq(Sources(C, M))
    BY <1>1, <1>2
  <2> QED BY ONLY <2>1, GeneralSteps, Configured(config, X),
             S = SegmentsOver(C, M, {"general"}, pm, config.max)
<1>5. PICK g : /\ g[0] = NoWork /\ g[n] = work
               /\ \A i \in 0 .. n : g[i] \in Works(S)
               /\ \A i \in 1 .. n : /\ g[i - 1] \in Works(S)
                                    /\ g[i] = GeneralEmitted(g[i - 1], sources[i], config)
  BY ONLY <1>1, <1>3, <1>4, work = General(blocks, config) DEF GeneralTrace
<1>6. \A i \in 1 .. n : TextEmitted(S, g[i - 1], g[i], sources[i])
  <2> SUFFICES ASSUME NEW i \in 1 .. n PROVE TextEmitted(S, g[i - 1], g[i], sources[i])
    OBVIOUS
  <2>1. PICK a, b, source : a = g[i - 1] /\ b = g[i] /\ source = sources[i]
    OBVIOUS
  <2>2. source \in Sources(C, M) /\ a \in Works(S) /\ b = GeneralEmitted(a, source, config)
    BY <1>2, <1>3, <1>5, <2>1
  <2>3. TextEmitted(S, a, b, source)
    BY ONLY <2>2, GeneralEmittedIs, Configured(config, X),
       S = SegmentsOver(C, M, {"general"}, pm, config.max)
  <2> QED BY <2>1, <2>3
<1>7. g[n].over = FALSE =>
         \A i \in 1 .. n : \A k \in 1 .. Len(sources[i].text) :
             ~IsSpace(sources[i].text[k][1]) => Shown(g[n], sources[i].text[k])
  <2>1. \A i \in 0 .. n : g[i] \in Works(S)
    BY <1>5
  <2> QED BY ONLY <1>6, <2>1, AllEmitted, n \in Nat
<1>8. work \in Works(S)
  BY <1>5
<1>9. ASSUME work.over = FALSE, NEW i \in 1 .. Len(blocks), NEW k \in 1 .. Len(blocks[i].text),
             ~IsSpace(blocks[i].text[k][1])
      PROVE  Shown(work, blocks[i].text[k])
  <2>1. PICK j \in 1 .. n : Has(sources[j].text, blocks[i].text)
    BY <1>2, <1>3
  <2>2. PICK h \in 1 .. Len(sources[j].text) : sources[j].text[h] = blocks[i].text[k]
    BY <2>1 DEF Has
  <2> QED BY <1>5, <1>7, <1>9, <2>2
<1> QED BY <1>8, <1>9 DEF ShowsAll

\* The segments of a parent-child configuration.
FamilySegments(C, M, config) ==
    SegmentsOver(C, M, {"parent", "child"}, config.parent_max, config.max)

(***************************************************************************)
(* One parent and its children.                                            *)
(***************************************************************************)
FamilyId(work) == <<"parent", Serial(work, "parent")>>
FamilyParent(work, part) ==
    Emit(work, "parent", <<>>, part.text, MetadataFor(part, 0, Len(part.text)))
FamilyPieces(part, atomicRows) ==
    IF atomicRows THEN part.pieces ELSE <<[start |-> 0, end |-> Len(part.text)]>>
Child(acc, part, piece, config, id) ==
    EmitRanges(acc, part, piece.start, piece.end, config.max, config.overlap,
               config.separator, "child", id)

\* The pieces a parent's children are cut from lie in its text and hold every
\* visible character of it.
LEMMA FamilyPiecesAre ==
    ASSUME NEW C, NEW M, NEW part \in Sources(C, M), NEW atomicRows,
           NEW pieces, pieces = FamilyPieces(part, atomicRows)
    PROVE  /\ Len(pieces) \in Nat /\ DOMAIN pieces = 1 .. Len(pieces)
           /\ \A i \in 1 .. Len(pieces) :
                 /\ pieces[i].start \in Nat /\ pieces[i].end \in Nat
                 /\ pieces[i].start <= pieces[i].end /\ pieces[i].end <= Len(part.text)
           /\ \A k \in 1 .. Len(part.text) : ~IsSpace(part.text[k][1]) =>
                 \E i \in 1 .. Len(pieces) : k \in pieces[i].start + 1 .. pieces[i].end
<1>1. /\ part.text \in Seq(C) /\ part.pieces \in Seq(Pieces(M))
      /\ Inside(part) /\ Held(part)
  BY SourceFacts
<1>2. PICK l \in Nat : l = Len(part.text)
  BY <1>1
<1>3. CASE atomicRows
  <2>1. pieces = part.pieces
    BY <1>3 DEF FamilyPieces
  <2>2. pieces \in Seq(Pieces(M))
    BY <1>1, <2>1
  <2>3. \A i \in 1 .. Len(pieces) : pieces[i] \in Pieces(M)
    BY <2>2
  <2>4. \A i \in 1 .. Len(pieces) : pieces[i].start \in Nat /\ pieces[i].end \in Nat
    BY ONLY <2>3 DEF Pieces
  <2>5. \A i \in 1 .. Len(pieces) :
            pieces[i].start <= pieces[i].end /\ pieces[i].end <= Len(part.text)
    BY ONLY <1>1, <2>1 DEF Inside
  <2>6. ASSUME NEW k \in 1 .. l, ~IsSpace(part.text[k][1])
        PROVE  \E i \in 1 .. Len(pieces) : k \in pieces[i].start + 1 .. pieces[i].end
    <3>1. PICK j : j = k - 1
      OBVIOUS
    <3>2. j \in 0 .. l - 1 /\ k = j + 1
      BY <1>2, <3>1
    <3>3. PICK i \in 1 .. Len(pieces) : pieces[i].start <= j /\ j < pieces[i].end
      BY <1>1, <1>2, <2>1, <2>6, <3>2 DEF Held
    <3>4. PICK a \in Nat, b \in Nat : a = pieces[i].start /\ b = pieces[i].end
      BY <2>4
    <3>5. a <= j /\ j < b
      BY ONLY <3>3, <3>4
    <3>6. k \in a + 1 .. b
      BY ONLY <1>2, <3>2, <3>5, a \in Nat, b \in Nat
    <3> QED BY <3>4, <3>6
  <2> QED BY <1>2, <2>2, <2>4, <2>5, <2>6
<1>4. CASE ~atomicRows
  <2>1. PICK p : p = [start |-> 0, end |-> l]
    OBVIOUS
  <2>2. p.start = 0 /\ p.end = l
    BY <2>1
  <2>3. pieces = <<p>>
    BY <1>2, <1>4, <2>1 DEF FamilyPieces
  <2>4. Len(pieces) = 1 /\ DOMAIN pieces = 1 .. 1 /\ pieces[1] = p
    BY ONLY <2>3
  <2>5. \A i \in 1 .. 1 : i = 1
    OBVIOUS
  <2>6. \A k \in 1 .. l : k \in p.start + 1 .. p.end
    BY <2>2
  <2> QED BY ONLY <1>2, <2>2, <2>4, <2>5, <2>6
<1> QED BY <1>3, <1>4

\* The parent is emitted, and its children have it.
LEMMA FamilyParentIs ==
    ASSUME NEW C, NEW M, NEW config, NEW S, S = FamilySegments(C, M, config),
           NEW part \in Sources(C, M), ~Blank(part.text), Len(part.text) <= config.parent_max,
           NEW work \in Works(S), NEW parent, parent = FamilyParent(work, part)
    PROVE  /\ parent \in HostSet(S, FamilyId(work), part.text)
           /\ Grows(work, parent) /\ FamilyId(work) \in Ids
<1>1. PICK types, pm, m, text, meta :
        /\ types = {"parent", "child"} /\ pm = config.parent_max /\ m = config.max
        /\ text = part.text /\ meta = MetadataFor(part, 0, Len(part.text))
  OBVIOUS
<1>2. types \in SUBSET {"general", "parent", "child"} /\ "parent" \in types
  BY <1>1
<1>3. S = SegmentsOver(C, M, types, pm, m)
  BY <1>1 DEF FamilySegments
<1>4. text \in Seq(C) /\ meta \in Merged(M)
  BY <1>1, SourceFacts, MetadataIs
<1>5. Has(text, text) /\ Hosted(work, <<>>, text)
  BY HasItself DEF Hosted
<1>6. parent = Emit(work, "parent", <<>>, text, meta)
  BY <1>1 DEF FamilyParent
<1>7. ~Blank(text) /\ Len(text) <= pm
  BY <1>1
<1>8. Issued(S, work, parent, "parent", text)
  <2>1. PICK type, no : type = "parent" /\ no = <<>>
    OBVIOUS
  <2>2. type \in types /\ no \in Ids \cup {<<>>} /\ (type = "parent" => Len(text) <= pm)
        /\ (type # "parent" => Len(text) <= m)
    BY <1>2, <1>7, <2>1
  <2>3. Hosted(work, no, text) /\ parent = Emit(work, type, no, text, meta)
    BY <1>5, <1>6, <2>1
  <2>4. Issued(S, work, parent, type, text)
    BY ONLY <1>2, <1>3, <1>4, <1>5, <1>7, <2>2, <2>3, EmitIs, work \in Works(S)
  <2> QED BY <2>1, <2>4
<1>9. parent \in Works(S) /\ Grows(work, parent)
  BY <1>8 DEF Issued
<1>10. Hosted(parent, FamilyId(work), text)
  <2>1. SUFFICES ASSUME parent.over = FALSE
                 PROVE  \E j \in 1 .. Len(parent.out) :
                           /\ parent.out[j].local_id = FamilyId(work)
                           /\ Has(parent.out[j].content, text)
    BY DEF Hosted
  <2>2. /\ Len(parent.out) >= 1 /\ parent.out[Len(parent.out)].local_id = FamilyId(work)
        /\ parent.out[Len(parent.out)].content = text
    BY <1>8, <2>1 DEF Issued, FamilyId
  <2>3. Len(parent.out) \in Nat
    BY <1>9, WorkFacts
  <2> QED BY <1>5, <2>2, <2>3
<1>11. FamilyId(work) \in Ids
  BY SerialIs DEF FamilyId, Ids
<1> QED BY <1>1, <1>9, <1>10, <1>11 DEF HostSet

\* The children of one piece.
LEMMA ChildIs ==
    ASSUME NEW C, NEW M, NEW X, NEW config, Configured(config, X), NEW S,
           S = FamilySegments(C, M, config), NEW part \in Sources(C, M), NEW id \in Ids,
           NEW acc \in HostSet(S, id, part.text), NEW piece, piece.start \in Nat,
           piece.end \in Nat, piece.start <= piece.end, piece.end <= Len(part.text),
           NEW next, next = Child(acc, part, piece, config, id)
    PROVE  PartEmitted(S, acc, next, part, piece.start, piece.end, id)
<1>1. PICK types, type, pm, m, overlap, separator, from, to :
        /\ types = {"parent", "child"} /\ type = "child" /\ pm = config.parent_max
        /\ m = config.max /\ overlap = config.overlap /\ separator = config.separator
        /\ from = piece.start /\ to = piece.end
  OBVIOUS
<1>2. /\ types \in SUBSET {"general", "parent", "child"} /\ type \in types /\ type # "parent"
      /\ id \in Ids \cup {<<>>}
  BY <1>1
<1>3. m \in Nat /\ overlap \in Nat /\ overlap < m /\ separator \in Seq(X)
  BY <1>1 DEF Configured
<1>4. from \in Nat /\ to \in Nat /\ from <= to /\ to <= Len(part.text)
  BY <1>1
<1>5. S = SegmentsOver(C, M, types, pm, m)
  BY <1>1 DEF FamilySegments
<1>6. next = EmitRanges(acc, part, from, to, m, overlap, separator, type, id)
  BY <1>1 DEF Child
<1>7. PartEmitted(S, acc, next, part, from, to, id)
  BY ONLY <1>2, <1>3, <1>4, <1>5, <1>6, EmitRangesIs, part \in Sources(C, M),
     acc \in HostSet(S, id, part.text)
<1> QED BY <1>1, <1>7

\* The work after the parent and each of the pieces.
FamilyTrace(S, work, part, config, atomicRows) ==
    \E g :
        /\ g[0] = FamilyParent(work, part)
        /\ g[Len(FamilyPieces(part, atomicRows))] = EmitFamily(work, part, config, atomicRows)
        /\ \A i \in 0 .. Len(FamilyPieces(part, atomicRows)) :
             g[i] \in HostSet(S, FamilyId(work), part.text)
        /\ \A i \in 1 .. Len(FamilyPieces(part, atomicRows)) :
              /\ g[i - 1] \in HostSet(S, FamilyId(work), part.text)
              /\ g[i] = Child(g[i - 1], part, FamilyPieces(part, atomicRows)[i], config,
                   FamilyId(work))

\* The pieces of a parent are emitted one after the other.
LEMMA FamilySteps ==
    ASSUME NEW C, NEW M, NEW X, NEW config, Configured(config, X), NEW S,
           S = FamilySegments(C, M, config), NEW part \in Sources(C, M), ~Blank(part.text),
           Len(part.text) <= config.parent_max, NEW work \in Works(S), NEW atomicRows
    PROVE  FamilyTrace(S, work, part, config, atomicRows)
<1> DEFINE n == Len(FamilyPieces(part, atomicRows))
           step == [i \in 1 .. n |-> [a \in HostSet(S, FamilyId(work), part.text) |-> Child(a,
                     part, FamilyPieces(part, atomicRows)[i], config, FamilyId(work))]]
           Solves(iter) == iter = [s \in SUBSET DOMAIN FamilyPieces(part, atomicRows) |->
               IF s = {} THEN FamilyParent(work, part)
                    ELSE Child(iter[s \ {Max(s)}], part,
                    FamilyPieces(part, atomicRows)[Max(s)], config, FamilyId(work))]
<1>1. n \in Nat /\ DOMAIN FamilyPieces(part, atomicRows) = 1 .. n
        /\ FamilyParent(work, part) \in HostSet(S, FamilyId(work), part.text)
  <2>1. FamilyParent(work, part) \in HostSet(S, FamilyId(work), part.text)
    BY FamilyParentIs
  <2>2. Len(FamilyPieces(part, atomicRows)) \in Nat
        /\ DOMAIN FamilyPieces(part, atomicRows) = 1 .. Len(FamilyPieces(part, atomicRows))
    BY FamilyPiecesAre
  <2> QED BY ONLY <2>1, <2>2 DEF n
<1>2. \A i \in 1 .. n : \A a \in HostSet(S, FamilyId(work), part.text) :
        Child(a, part, FamilyPieces(part, atomicRows)[i], config,
        FamilyId(work)) \in HostSet(S, FamilyId(work), part.text)
  <2> SUFFICES ASSUME NEW i \in 1 .. n, NEW a \in HostSet(S, FamilyId(work), part.text)
               PROVE  Child(a, part, FamilyPieces(part, atomicRows)[i], config, FamilyId(work))
                         \in HostSet(S, FamilyId(work), part.text)
    OBVIOUS
  <2>1. PICK pieces, piece, id, next :
           /\ pieces = FamilyPieces(part, atomicRows) /\ piece = pieces[i] /\ id = FamilyId(work)
           /\ next = Child(a, part, piece, config, id)
    OBVIOUS
  <2>2. /\ piece.start \in Nat /\ piece.end \in Nat
        /\ piece.start <= piece.end /\ piece.end <= Len(part.text)
    BY <2>1, FamilyPiecesAre
  <2>3. a \in HostSet(S, id, part.text) /\ id \in Ids
    BY <2>1, FamilyParentIs
  <2>4. PartEmitted(S, a, next, part, piece.start, piece.end, id)
    BY ONLY <2>1, <2>2, <2>3, ChildIs, Configured(config, X), S = FamilySegments(C, M, config),
       part \in Sources(C, M)
  <2> QED BY <2>1, <2>4 DEF PartEmitted
<1> HIDE DEF n
<1>3. step \in StepsOf(HostSet(S, FamilyId(work), part.text), n)
  BY <1>2 DEF StepsOf
<1>4. EmitFamily(work, part, config, atomicRows) = (CHOOSE iter : Solves(iter))[1 .. n]
  BY <1>1 DEF EmitFamily, FamilyParent, FamilyPieces, Child, FamilyId, FoldLeft, MapThenFoldSet
<1>5. \E iter : Solves(iter)
  <2>1. PICK iter : FoldSolution(iter, HostSet(S, FamilyId(work), part.text),
               FamilyParent(work, part), step, n)
    <3> HIDE DEF step
    <3> QED BY ONLY <1>1, <1>3, FoldExists
  <2>2. \A s \in SUBSET (1 .. n) : s # {} => Max(s) \in 1 .. n
          /\ iter[s \ {Max(s)}] \in HostSet(S, FamilyId(work), part.text)
    BY ONLY <1>1, <2>1, MaxOfInitial DEF FoldSolution
  <2>3. \A s \in SUBSET (1 .. n) : s # {} =>
            step[Max(s)][iter[s \ {Max(s)}]] = Child(iter[s \ {Max(s)}], part,
              FamilyPieces(part, atomicRows)[Max(s)], config, FamilyId(work))
    BY ONLY <2>2
  <2> HIDE DEF step
  <2>4. Solves(iter)
    BY ONLY <1>1, <2>1, <2>3 DEF FoldOver, FoldSolution
  <2> QED BY <2>4
<1>6. PICK iter : Solves(iter) /\ EmitFamily(work, part, config, atomicRows) = iter[1 .. n]
  <2> HIDE DEF Solves
  <2> QED BY ONLY <1>4, <1>5
<1>7. Computes(iter, HostSet(S, FamilyId(work), part.text), FamilyParent(work, part), step, n)
  BY ONLY <1>1, <1>6, MaxOfInitial DEF Computes
<1>8. PICK g : FoldTrace(g, HostSet(S, FamilyId(work), part.text), FamilyParent(work, part),
             step, n) /\ g[n] = iter[1 .. n]
  <2> HIDE DEF step, Solves
  <2> QED BY ONLY <1>1, <1>3, <1>7, FoldSteps
<1>9. \A i \in 1 .. n : g[i - 1] \in HostSet(S, FamilyId(work), part.text)
        /\ g[i] = Child(g[i - 1], part, FamilyPieces(part, atomicRows)[i], config,
        FamilyId(work))
  BY ONLY <1>1, <1>8 DEF FoldTrace
<1>10. \A i \in 0 .. n : g[i] \in HostSet(S, FamilyId(work), part.text)
  BY ONLY <1>8 DEF FoldTrace
<1>11. g[0] = FamilyParent(work, part) /\ g[n] = EmitFamily(work, part, config, atomicRows)
  BY ONLY <1>6, <1>8 DEF FoldTrace
<1> HIDE DEF step, Solves
<1> QED BY <1>9, <1>10, <1>11 DEF n, FamilyTrace

\* A parent and its children hold all the text of their source (_parent_child).
LEMMA EmitFamilyIs ==
    ASSUME NEW C, NEW M, NEW X, NEW config, Configured(config, X), NEW S,
           S = FamilySegments(C, M, config), NEW part \in Sources(C, M),
           Len(part.text) <= config.parent_max, NEW work \in Works(S), NEW atomicRows,
           NEW next, next = EmitFamily(work, part, config, atomicRows)
    PROVE  TextEmitted(S, work, next, part)
<1>1. part.text \in Seq(C)
  BY SourceFacts
<1>2. CASE Blank(part.text)
  <2>1. next = work
    BY <1>2 DEF EmitFamily
  <2>2. Grows(work, work)
    <3>1. Len(work.out) \in Nat
      BY WorkFacts
    <3> QED BY <3>1 DEF Grows
  <2>3. \A k \in 1 .. Len(part.text) : IsSpace(part.text[k][1])
    <3>1. DOMAIN part.text = 1 .. Len(part.text)
      BY <1>1
    <3> QED BY ONLY <1>2, <3>1 DEF Blank
  <2> QED BY ONLY <2>1, <2>2, <2>3, work \in Works(S) DEF TextEmitted
<1>3. CASE ~Blank(part.text)
  <2>1. PICK pieces, id : pieces = FamilyPieces(part, atomicRows) /\ id = FamilyId(work)
    OBVIOUS
  <2>2. /\ Len(pieces) \in Nat
        /\ \A i \in 1 .. Len(pieces) :
              /\ pieces[i].start \in Nat /\ pieces[i].end \in Nat
              /\ pieces[i].start <= pieces[i].end /\ pieces[i].end <= Len(part.text)
        /\ \A k \in 1 .. Len(part.text) : ~IsSpace(part.text[k][1]) =>
              \E i \in 1 .. Len(pieces) : k \in pieces[i].start + 1 .. pieces[i].end
    BY <2>1, FamilyPiecesAre
  <2>3. PICK n \in Nat : n = Len(pieces)
    BY <2>2
  <2>4. FamilyTrace(S, work, part, config, atomicRows)
    BY ONLY <1>3, FamilySteps, Configured(config, X), S = FamilySegments(C, M, config),
       part \in Sources(C, M), Len(part.text) <= config.parent_max, work \in Works(S)
  <2>5. PICK parent : parent = FamilyParent(work, part)
    OBVIOUS
  <2>6. PICK g : /\ g[0] = parent /\ g[n] = next
                 /\ \A i \in 0 .. n : g[i] \in HostSet(S, id, part.text)
                 /\ \A i \in 1 .. n : /\ g[i - 1] \in HostSet(S, id, part.text)
                                      /\ g[i] = Child(g[i - 1], part, pieces[i], config, id)
    BY ONLY <2>1, <2>3, <2>4, <2>5, next = EmitFamily(work, part, config, atomicRows)
         DEF FamilyTrace
  <2>7. Grows(work, parent) /\ id \in Ids
    BY <1>3, <2>1, <2>5, FamilyParentIs
  <2>8. \A i \in 1 .. n : PartEmitted(S, g[i - 1], g[i], part, pieces[i].start, pieces[i].end, id)
    <3> SUFFICES ASSUME NEW i \in 1 .. n
                 PROVE  PartEmitted(S, g[i - 1], g[i], part, pieces[i].start, pieces[i].end, id)
      OBVIOUS
    <3>1. PICK a, b, piece : a = g[i - 1] /\ b = g[i] /\ piece = pieces[i]
      OBVIOUS
    <3>2. a \in HostSet(S, id, part.text) /\ b = Child(a, part, piece, config, id)
      BY <2>6, <3>1
    <3>3. /\ piece.start \in Nat /\ piece.end \in Nat
          /\ piece.start <= piece.end /\ piece.end <= Len(part.text)
      BY <2>2, <2>3, <3>1
    <3>4. PartEmitted(S, a, b, part, piece.start, piece.end, id)
      BY ONLY <2>7, <3>2, <3>3, ChildIs, Configured(config, X), S = FamilySegments(C, M, config),
         part \in Sources(C, M)
    <3> QED BY <3>1, <3>4
  <2>9. \A i \in 0 .. n : g[i] \in Works(S)
    BY <2>6 DEF HostSet
  <2>10. \A i \in 0 .. n : Grows(g[i], g[n])
    <3>1. \A i \in 1 .. n : Grows(g[i - 1], g[i])
      BY <2>8 DEF PartEmitted
    <3> QED BY ONLY <2>9, <3>1, TraceGrows, n \in Nat
  <2>11. parent \in Works(S) /\ next \in Works(S) /\ Grows(parent, next)
    <3>1. 0 \in 0 .. n /\ n \in 0 .. n
      OBVIOUS
    <3> QED BY ONLY <2>6, <2>9, <2>10, <3>1
  <2>12. Grows(work, next)
    BY ONLY <2>7, <2>11, GrowsIs, work \in Works(S)
  <2>13. ASSUME next.over = FALSE, NEW k \in 1 .. Len(part.text), ~IsSpace(part.text[k][1])
         PROVE  Shown(next, part.text[k])
    <3>1. PICK i \in 1 .. n : k \in pieces[i].start + 1 .. pieces[i].end
      BY <2>2, <2>3, <2>13
    <3>2. PICK b, c, piece : b = g[i] /\ c = part.text[k] /\ piece = pieces[i]
      OBVIOUS
    <3>3. b \in Works(S) /\ Grows(b, next)
          /\ PartEmitted(S, g[i - 1], b, part, piece.start, piece.end, id)
      BY <2>6, <2>8, <2>9, <2>10, <3>2
    <3>4. b.over = FALSE
      BY <2>13, <3>3 DEF Grows
    <3>5. Shown(b, c)
      BY <2>13, <3>1, <3>2, <3>3, <3>4 DEF PartEmitted
    <3>6. Shown(next, c)
      BY ONLY <2>11, <2>13, <3>3, <3>5, ShownStays
    <3> QED BY <3>2, <3>6
  <2> QED BY <2>11, <2>12, <2>13 DEF TextEmitted
<1> QED BY <1>2, <1>3

\* A parent-child configuration the segmenter takes.
FamilyConfigured(config, X) == Configured(config, X) /\ config.parent_max \in Nat \ {0}

(***************************************************************************)
(* Units: a source that is not split any more fits into a parent.          *)
(***************************************************************************)
Fitting(C, M, pm) == {s \in Sources(C, M) : Len(s.text) <= pm}
Units(C, M, pm) ==
    {u \in [source : Sources(C, M), split : BOOLEAN] : u.split \/ u.source \in Fitting(C, M, pm)}

UnitRanges(unit, config) == SplitRanges(unit.source.text, config.parent_max, 0, config.separator)
UnitParts(unit, config) ==
    IF unit.split
    THEN [i \in DOMAIN UnitRanges(unit, config) |->
             SourceSlice(unit.source, UnitRanges(unit, config)[i].start,
                         UnitRanges(unit, config)[i].end, 0, 0)]
    ELSE <<unit.source>>
UnitBase(work, unit, config) ==
    IF unit.split
    THEN Charge(work, Len(unit.source.text), UnitRanges(unit, config), config.parent_max, 0)
    ELSE work

\* Parts that fit into a parent hold the text of the unit.
PartsOf(parts, unit, C, M, config) ==
    /\ parts \in Seq(Fitting(C, M, config.parent_max))
    /\ UnitRanges(unit, config) \in Seq(Ranges)
    /\ \A k \in 1 .. Len(unit.source.text) : \E i \in 1 .. Len(parts) :
          \E j \in 1 .. Len(parts[i].text) : parts[i].text[j] = unit.source.text[k]

\* The parts of a unit fit into a parent, and hold its text.
LEMMA UnitPartsAre ==
    ASSUME NEW C, Newline \in C, NEW M, NEW X, NEW config, FamilyConfigured(config, X),
           NEW unit \in Units(C, M, config.parent_max), NEW parts, parts = UnitParts(unit, config)
    PROVE  PartsOf(parts, unit, C, M, config)
<1>1. PICK source, text, pm, ranges, separator :
        /\ source = unit.source /\ text = source.text /\ pm = config.parent_max
        /\ ranges = UnitRanges(unit, config) /\ separator = config.separator
  OBVIOUS
<1>2. source \in Sources(C, M) /\ (unit.split \/ source \in Fitting(C, M, pm))
  BY <1>1 DEF Units
<1>3. text \in Seq(C)
  BY <1>1, <1>2, SourceFacts
<1>4. PICK l \in Nat : l = Len(text)
  BY <1>3
<1>5. pm \in Nat /\ pm > 0 /\ separator \in Seq(X)
  BY <1>1 DEF FamilyConfigured, Configured
<1>6. /\ ranges \in Seq(Ranges)
      /\ \A i \in 1 .. Len(ranges) : ranges[i].start < ranges[i].end
                                     /\ ranges[i].end <= l /\ ranges[i].end - ranges[i].start <= pm
      /\ \A k \in 0 .. l - 1 : \E i \in 1 .. Len(ranges) :
            ranges[i].start <= k /\ k < ranges[i].end
  <2>1. ranges = SplitRanges(text, pm, 0, separator)
    BY <1>1 DEF UnitRanges
  <2>2. CASE text = <<>>
    <3>1. ranges = <<>>
      BY ONLY <1>3, <1>5, <2>1, <2>2, RangesAreRight, 0 \in Nat, 0 < pm
    <3>2. l = 0
      BY <1>4, <2>2
    <3> QED BY ONLY <3>1, <3>2
  <2>3. CASE text # <<>>
    <3>0. 0 \in Nat /\ 0 < pm
      BY <1>5
    <3>1. CutFrom(ranges, 0, Len(text), pm, 0)
      BY ONLY <1>3, <1>5, <2>1, <2>3, <3>0, RangesAreRight
    <3> QED BY ONLY <1>4, <3>1 DEF CutFrom
  <2> QED BY <2>2, <2>3
<1>7. PICK n \in Nat : n = Len(ranges)
  BY <1>6
<1>8. \A i \in 1 .. n : ranges[i].start \in Nat /\ ranges[i].end \in Nat
  <2>1. \A i \in 1 .. n : ranges[i] \in Ranges
    BY <1>6, <1>7
  <2> QED BY <2>1 DEF Ranges
<1>9. CASE unit.split
  <2>1. DOMAIN ranges = 1 .. n
    BY <1>6, <1>7
  <2>2. parts = [i \in 1 .. n |-> SourceSlice(source, ranges[i].start, ranges[i].end, 0, 0)]
    BY <1>1, <1>9, <2>1 DEF UnitParts
  <2>3. \A i \in 1 .. n :
            /\ parts[i] \in Sources(C, M)
            /\ Len(parts[i].text) = ranges[i].end - ranges[i].start
            /\ \A k \in 1 .. ranges[i].end - ranges[i].start :
                  parts[i].text[k] = text[ranges[i].start + k]
    <3> SUFFICES ASSUME NEW i \in 1 .. n
                 PROVE  /\ parts[i] \in Sources(C, M)
                        /\ Len(parts[i].text) = ranges[i].end - ranges[i].start
                        /\ \A k \in 1 .. ranges[i].end - ranges[i].start :
                              parts[i].text[k] = text[ranges[i].start + k]
      OBVIOUS
    <3>1. PICK start \in Nat, end \in Nat : start = ranges[i].start /\ end = ranges[i].end
      BY <1>8
    <3>2. PICK part : part = SourceSlice(source, start, end, 0, 0)
      OBVIOUS
    <3>3. start <= end /\ end <= Len(source.text) /\ parts[i] = part
      BY <1>1, <1>4, <1>6, <1>7, <2>2, <3>1, <3>2
    <3>4. /\ part \in Sources(C, M) /\ Len(part.text) = 0 + (end - start) + 0
          /\ \A k \in 1 .. end - start : part.text[0 + k] = source.text[start + k]
      <4>1. SlicedFrom(part, C, M, source, start, end, 0, 0)
        BY ONLY <1>2, <3>2, <3>3, SliceSource, Newline \in C, start \in Nat, end \in Nat, 0 \in Nat
      <4> QED BY ONLY <4>1 DEF SlicedFrom
    <3>5. 0 + (end - start) + 0 = end - start /\ \A k \in 1 .. end - start : 0 + k = k
      OBVIOUS
    <3> QED BY ONLY <1>1, <3>1, <3>3, <3>4, <3>5
  <2>4. \A i \in 1 .. n : parts[i] \in Fitting(C, M, pm)
    BY <1>6, <1>7, <2>3 DEF Fitting
  <2>5. parts \in Seq(Fitting(C, M, pm)) /\ Len(parts) = n
    <3>1. DOMAIN parts = 1 .. n /\ parts = [i \in DOMAIN parts |-> parts[i]]
      BY <2>2
    <3> QED BY ONLY <2>4, <3>1, ListIsSeq, n \in Nat
  <2>6. ASSUME NEW k \in 1 .. l
        PROVE  \E i \in 1 .. n : \E j \in 1 .. Len(parts[i].text) : parts[i].text[j] = text[k]
    <3>1. PICK h : h = k - 1
      OBVIOUS
    <3>2. h \in 0 .. l - 1 /\ k = h + 1
      BY <3>1
    <3>3. PICK i \in 1 .. n : ranges[i].start <= h /\ h < ranges[i].end
      BY <1>6, <1>7, <3>2
    <3>4. PICK start \in Nat, end \in Nat : start = ranges[i].start /\ end = ranges[i].end
      BY <1>8
    <3>5. start <= h /\ h < end
      BY ONLY <3>3, <3>4
    <3>6. PICK j : j = k - start
      OBVIOUS
    <3>7. j \in 1 .. end - start /\ start + j = k
      BY ONLY <3>2, <3>5, <3>6, start \in Nat, end \in Nat, l \in Nat
    <3>8. Len(parts[i].text) = end - start /\ parts[i].text[j] = text[start + j]
      BY ONLY <2>3, <3>4, <3>7, i \in 1 .. n
    <3> QED BY <3>7, <3>8
  <2> QED BY ONLY <1>1, <1>4, <1>6, <2>5, <2>6 DEF PartsOf
<1>10. CASE ~unit.split
  <2>1. parts = <<source>> /\ source \in Fitting(C, M, pm)
    BY <1>1, <1>2, <1>10 DEF UnitParts
  <2>2. PICK F : F = Fitting(C, M, pm)
    OBVIOUS
  <2>3. parts \in Seq(F) /\ Len(parts) = 1 /\ parts[1] = source
    BY ONLY <2>1, <2>2, OneIsSeq
  <2>4. \A k \in 1 .. l : k \in 1 .. Len(parts[1].text) /\ parts[1].text[k] = text[k]
    BY ONLY <1>1, <1>4, <2>3
  <2>5. 1 \in 1 .. Len(parts)
    BY <2>3
  <2> QED BY ONLY <1>1, <1>4, <1>6, <2>2, <2>3, <2>4, <2>5 DEF PartsOf
<1> QED BY <1>9, <1>10

\* The work before the first part of a unit.
LEMMA UnitBaseIs ==
    ASSUME NEW C, Newline \in C, NEW M, NEW X, NEW config, FamilyConfigured(config, X),
           NEW unit \in Units(C, M, config.parent_max), NEW S, NEW work \in Works(S),
           NEW base, base = UnitBase(work, unit, config)
    PROVE  base \in Works(S) /\ Grows(work, base)
<1>1. CASE unit.split
  <2>1. PICK length, pm, ranges : /\ length = Len(unit.source.text) /\ pm = config.parent_max
                                  /\ ranges = UnitRanges(unit, config)
    OBVIOUS
  <2>2. length \in Nat
    <3>1. unit.source \in Sources(C, M)
      BY DEF Units
    <3>2. unit.source.text \in Seq(C)
      BY <3>1, SourceFacts
    <3> QED BY <2>1, <3>2
  <2>3. pm \in Nat /\ 0 \in Nat /\ 0 < pm
    BY <2>1 DEF FamilyConfigured
  <2>4. ranges \in Seq(Ranges)
    BY <2>1, UnitPartsAre DEF PartsOf
  <2>5. base = Charge(work, length, ranges, pm, 0)
    BY <1>1, <2>1 DEF UnitBase
  <2> QED BY ONLY <2>2, <2>3, <2>4, <2>5, ChargeIs, work \in Works(S)
<1>2. CASE ~unit.split
  <2>1. base = work /\ Len(work.out) \in Nat
    BY <1>2, WorkFacts DEF UnitBase
  <2> QED BY <2>1 DEF Grows
<1> QED BY <1>1, <1>2

\* The work after each of the parts of a unit.
UnitTrace(S, work, unit, config, atomicRows) ==
    \E g :
        /\ g[0] = UnitBase(work, unit, config)
        /\ g[Len(UnitParts(unit, config))] = EmitUnit(work, unit, config, atomicRows)
        /\ \A i \in 0 .. Len(UnitParts(unit, config)) : g[i] \in Works(S)
        /\ \A i \in 1 .. Len(UnitParts(unit, config)) :
              /\ g[i - 1] \in Works(S)
              /\ g[i] = EmitFamily(g[i - 1], UnitParts(unit, config)[i], config, atomicRows)

\* The parts of a unit are emitted one after the other.
LEMMA UnitSteps ==
    ASSUME NEW C, Newline \in C, NEW M, NEW X, NEW config, FamilyConfigured(config, X),
           NEW S, S = FamilySegments(C, M, config),
           NEW unit \in Units(C, M, config.parent_max), NEW work \in Works(S), NEW atomicRows
    PROVE  UnitTrace(S, work, unit, config, atomicRows)
<1> DEFINE n == Len(UnitParts(unit, config))
           step == [i \in 1 .. n |-> [a \in Works(S) |-> EmitFamily(a,
                     UnitParts(unit, config)[i], config, atomicRows)]]
           Solves(iter) == iter = [s \in SUBSET DOMAIN UnitParts(unit, config) |->
               IF s = {} THEN UnitBase(work, unit, config)
                    ELSE EmitFamily(iter[s \ {Max(s)}], UnitParts(unit, config)[Max(s)],
                    config, atomicRows)]
<1>1. n \in Nat /\ DOMAIN UnitParts(unit, config) = 1 .. n
        /\ UnitBase(work, unit, config) \in Works(S)
  <2>1. UnitBase(work, unit, config) \in Works(S)
    BY UnitBaseIs
  <2>2. UnitParts(unit, config) \in Seq(Fitting(C, M, config.parent_max))
    BY UnitPartsAre DEF PartsOf
  <2> QED BY <2>1, <2>2
<1>2. \A i \in 1 .. n : \A a \in Works(S) : EmitFamily(a, UnitParts(unit, config)[i], config,
        atomicRows) \in Works(S)
  <2> SUFFICES ASSUME NEW i \in 1 .. n, NEW a \in Works(S)
               PROVE  EmitFamily(a, UnitParts(unit, config)[i], config, atomicRows) \in Works(S)
    OBVIOUS
  <2>1. PICK part, next : /\ part = UnitParts(unit, config)[i]
                          /\ next = EmitFamily(a, part, config, atomicRows)
    OBVIOUS
  <2>2. UnitParts(unit, config) \in Seq(Fitting(C, M, config.parent_max))
    BY UnitPartsAre DEF PartsOf
  <2>3. part \in Fitting(C, M, config.parent_max)
    BY <2>1, <2>2
  <2>4. part \in Sources(C, M) /\ Len(part.text) <= config.parent_max
    BY <2>3 DEF Fitting
  <2>5. Configured(config, X)
    BY DEF FamilyConfigured
  <2>6. TextEmitted(S, a, next, part)
    BY ONLY <2>1, <2>4, <2>5, EmitFamilyIs, S = FamilySegments(C, M, config), a \in Works(S)
  <2> QED BY <2>1, <2>6 DEF TextEmitted
<1> HIDE DEF n
<1>3. step \in StepsOf(Works(S), n)
  BY <1>2 DEF StepsOf
<1>4. EmitUnit(work, unit, config, atomicRows) = (CHOOSE iter : Solves(iter))[1 .. n]
  BY <1>1 DEF EmitUnit, UnitBase, UnitParts, UnitRanges, FoldLeft, MapThenFoldSet
<1>5. \E iter : Solves(iter)
  <2>1. PICK iter : FoldSolution(iter, Works(S), UnitBase(work, unit, config), step, n)
    <3> HIDE DEF step
    <3> QED BY ONLY <1>1, <1>3, FoldExists
  <2>2. \A s \in SUBSET (1 .. n) : s # {} => Max(s) \in 1 .. n /\ iter[s \ {Max(s)}] \in Works(S)
    BY ONLY <1>1, <2>1, MaxOfInitial DEF FoldSolution
  <2>3. \A s \in SUBSET (1 .. n) : s # {} =>
            step[Max(s)][iter[s \ {Max(s)}]] = EmitFamily(iter[s \ {Max(s)}],
              UnitParts(unit, config)[Max(s)], config, atomicRows)
    BY ONLY <2>2
  <2> HIDE DEF step
  <2>4. Solves(iter)
    BY ONLY <1>1, <2>1, <2>3 DEF FoldOver, FoldSolution
  <2> QED BY <2>4
<1>6. PICK iter : Solves(iter) /\ EmitUnit(work, unit, config, atomicRows) = iter[1 .. n]
  <2> HIDE DEF Solves
  <2> QED BY ONLY <1>4, <1>5
<1>7. Computes(iter, Works(S), UnitBase(work, unit, config), step, n)
  BY ONLY <1>1, <1>6, MaxOfInitial DEF Computes
<1>8. PICK g : FoldTrace(g, Works(S), UnitBase(work, unit, config), step, n) /\ g[n] = iter[1 .. n]
  <2> HIDE DEF step, Solves
  <2> QED BY ONLY <1>1, <1>3, <1>7, FoldSteps
<1>9. \A i \in 1 .. n : g[i - 1] \in Works(S)
        /\ g[i] = EmitFamily(g[i - 1], UnitParts(unit, config)[i], config, atomicRows)
  BY ONLY <1>1, <1>8 DEF FoldTrace
<1>10. \A i \in 0 .. n : g[i] \in Works(S)
  BY ONLY <1>8 DEF FoldTrace
<1>11. g[0] = UnitBase(work, unit, config) /\ g[n] = EmitUnit(work, unit, config, atomicRows)
  BY ONLY <1>6, <1>8 DEF FoldTrace
<1> HIDE DEF step, Solves
<1> QED BY <1>9, <1>10, <1>11 DEF n, UnitTrace

\* The parents and children of a unit hold all its text.
LEMMA EmitUnitIs ==
    ASSUME NEW C, Newline \in C, NEW M, NEW X, NEW config, FamilyConfigured(config, X),
           NEW S, S = FamilySegments(C, M, config),
           NEW unit \in Units(C, M, config.parent_max), NEW work \in Works(S), NEW atomicRows,
           NEW next, next = EmitUnit(work, unit, config, atomicRows)
    PROVE  TextEmitted(S, work, next, unit.source)
<1>1. PICK parts, base, text : /\ parts = UnitParts(unit, config)
                               /\ base = UnitBase(work, unit, config) /\ text = unit.source.text
  OBVIOUS
<1>2. /\ parts \in Seq(Fitting(C, M, config.parent_max))
      /\ \A k \in 1 .. Len(text) : \E i \in 1 .. Len(parts) :
            \E j \in 1 .. Len(parts[i].text) : parts[i].text[j] = text[k]
  <2>1. PartsOf(parts, unit, C, M, config)
    BY <1>1, UnitPartsAre
  <2> QED BY ONLY <1>1, <2>1 DEF PartsOf
<1>3. PICK n \in Nat : n = Len(parts)
  BY <1>2
<1>4. UnitTrace(S, work, unit, config, atomicRows)
  BY ONLY UnitSteps, Newline \in C, FamilyConfigured(config, X), S = FamilySegments(C, M, config),
     unit \in Units(C, M, config.parent_max), work \in Works(S)
<1>5. PICK g : /\ g[0] = base /\ g[n] = next
               /\ \A i \in 0 .. n : g[i] \in Works(S)
               /\ \A i \in 1 .. n : /\ g[i - 1] \in Works(S)
                                    /\ g[i] = EmitFamily(g[i - 1], parts[i], config, atomicRows)
  BY ONLY <1>1, <1>3, <1>4, next = EmitUnit(work, unit, config, atomicRows) DEF UnitTrace
<1>6. base \in Works(S) /\ Grows(work, base)
  BY <1>1, UnitBaseIs
<1>7. \A i \in 1 .. n : TextEmitted(S, g[i - 1], g[i], parts[i])
  <2> SUFFICES ASSUME NEW i \in 1 .. n PROVE TextEmitted(S, g[i - 1], g[i], parts[i])
    OBVIOUS
  <2>1. PICK a, b, part : a = g[i - 1] /\ b = g[i] /\ part = parts[i]
    OBVIOUS
  <2>2. a \in Works(S) /\ b = EmitFamily(a, part, config, atomicRows)
    BY <1>5, <2>1
  <2>3. part \in Fitting(C, M, config.parent_max)
    BY <1>2, <1>3, <2>1
  <2>4. part \in Sources(C, M) /\ Len(part.text) <= config.parent_max
    BY <2>3 DEF Fitting
  <2>5. Configured(config, X)
    BY DEF FamilyConfigured
  <2>6. TextEmitted(S, a, b, part)
    BY ONLY <2>2, <2>4, <2>5, EmitFamilyIs, S = FamilySegments(C, M, config)
  <2> QED BY <2>1, <2>6
<1>8. /\ Grows(g[0], g[n])
      /\ g[n].over = FALSE =>
            \A i \in 1 .. n : \A k \in 1 .. Len(parts[i].text) :
                ~IsSpace(parts[i].text[k][1]) => Shown(g[n], parts[i].text[k])
  <2>1. \A i \in 0 .. n : g[i] \in Works(S)
    BY <1>5
  <2> QED BY ONLY <1>7, <2>1, AllEmitted, n \in Nat
<1>9. next \in Works(S) /\ Grows(base, next)
  BY <1>5, <1>8
<1>10. Grows(work, next)
  BY ONLY <1>6, <1>9, GrowsIs, work \in Works(S)
<1>11. ASSUME next.over = FALSE, NEW k \in 1 .. Len(text), ~IsSpace(text[k][1])
       PROVE  Shown(next, text[k])
  <2>1. PICK i \in 1 .. n : \E j \in 1 .. Len(parts[i].text) : parts[i].text[j] = text[k]
    BY <1>2, <1>3
  <2>2. PICK j \in 1 .. Len(parts[i].text) : parts[i].text[j] = text[k]
    BY <2>1
  <2> QED BY <1>5, <1>8, <1>11, <2>2
<1> QED BY ONLY <1>1, <1>9, <1>10, <1>11 DEF TextEmitted

\* The work after each of the units.
ParentTrace(S, parsed, blocks, config) ==
    \E g :
        /\ g[0] = NoWork
        /\ g[Len(ParentUnits(parsed, blocks, config))] = ParentChild(parsed, blocks, config)
        /\ \A i \in 0 .. Len(ParentUnits(parsed, blocks, config)) : g[i] \in Works(S)
        /\ \A i \in 1 .. Len(ParentUnits(parsed, blocks, config)) :
              /\ g[i - 1] \in Works(S)
              /\ g[i] = EmitUnit(g[i - 1], ParentUnits(parsed, blocks, config)[i], config,
                   IsSpreadsheet(parsed, blocks))

\* The units are emitted one after the other.
LEMMA ParentSteps ==
    ASSUME NEW C, Newline \in C, NEW M, NEW X, NEW config, FamilyConfigured(config, X),
           NEW S, S = FamilySegments(C, M, config), NEW parsed, NEW blocks,
           ParentUnits(parsed, blocks, config) \in Seq(Units(C, M, config.parent_max))
    PROVE  ParentTrace(S, parsed, blocks, config)
<1> DEFINE n == Len(ParentUnits(parsed, blocks, config))
           step == [i \in 1 .. n |-> [a \in Works(S) |-> EmitUnit(a,
                     ParentUnits(parsed, blocks, config)[i], config,
                     IsSpreadsheet(parsed, blocks))]]
           Solves(iter) == iter = [s \in SUBSET DOMAIN ParentUnits(parsed, blocks, config) |->
               IF s = {} THEN NoWork ELSE EmitUnit(iter[s \ {Max(s)}],
                    ParentUnits(parsed, blocks, config)[Max(s)], config,
                    IsSpreadsheet(parsed, blocks))]
<1>1. n \in Nat /\ DOMAIN ParentUnits(parsed, blocks, config) = 1 .. n /\ NoWork \in Works(S)
  BY NoWorkIs
<1>2. \A i \in 1 .. n : \A a \in Works(S) : EmitUnit(a, ParentUnits(parsed, blocks, config)[i],
        config, IsSpreadsheet(parsed, blocks)) \in Works(S)
  <2> SUFFICES ASSUME NEW i \in 1 .. n, NEW a \in Works(S)
               PROVE  EmitUnit(a, ParentUnits(parsed, blocks, config)[i], config,
                               IsSpreadsheet(parsed, blocks)) \in Works(S)
    OBVIOUS
  <2>1. PICK unit : unit = ParentUnits(parsed, blocks, config)[i]
    OBVIOUS
  <2>2. unit \in Units(C, M, config.parent_max)
    BY <2>1
  <2> DEFINE atomicRows == IsSpreadsheet(parsed, blocks)
             next == EmitUnit(a, unit, config, atomicRows)
  <2> HIDE DEF atomicRows
  <2>3. TextEmitted(S, a, next, unit.source)
    BY ONLY <2>2, EmitUnitIs, Newline \in C, FamilyConfigured(config, X),
       S = FamilySegments(C, M, config), a \in Works(S)
  <2> QED BY <2>1, <2>3 DEF TextEmitted, atomicRows
<1> HIDE DEF n
<1>3. step \in StepsOf(Works(S), n)
  BY <1>2 DEF StepsOf
<1>4. ParentChild(parsed, blocks, config) = (CHOOSE iter : Solves(iter))[1 .. n]
  BY <1>1 DEF ParentChild, FoldLeft, MapThenFoldSet
<1>5. \E iter : Solves(iter)
  <2>1. PICK iter : FoldSolution(iter, Works(S), NoWork, step, n)
    <3> HIDE DEF step
    <3> QED BY ONLY <1>1, <1>3, FoldExists
  <2>2. \A s \in SUBSET (1 .. n) : s # {} => Max(s) \in 1 .. n /\ iter[s \ {Max(s)}] \in Works(S)
    BY ONLY <1>1, <2>1, MaxOfInitial DEF FoldSolution
  <2>3. \A s \in SUBSET (1 .. n) : s # {} =>
            step[Max(s)][iter[s \ {Max(s)}]] = EmitUnit(iter[s \ {Max(s)}],
              ParentUnits(parsed, blocks, config)[Max(s)], config,
              IsSpreadsheet(parsed, blocks))
    BY ONLY <2>2
  <2> HIDE DEF step
  <2>4. Solves(iter)
    BY ONLY <1>1, <2>1, <2>3 DEF FoldOver, FoldSolution
  <2> QED BY <2>4
<1>6. PICK iter : Solves(iter) /\ ParentChild(parsed, blocks, config) = iter[1 .. n]
  <2> HIDE DEF Solves
  <2> QED BY ONLY <1>4, <1>5
<1>7. Computes(iter, Works(S), NoWork, step, n)
  BY ONLY <1>1, <1>6, MaxOfInitial DEF Computes
<1>8. PICK g : FoldTrace(g, Works(S), NoWork, step, n) /\ g[n] = iter[1 .. n]
  <2> HIDE DEF step, Solves
  <2> QED BY ONLY <1>1, <1>3, <1>7, FoldSteps
<1>9. \A i \in 1 .. n : g[i - 1] \in Works(S)
        /\ g[i] = EmitUnit(g[i - 1], ParentUnits(parsed, blocks, config)[i], config,
        IsSpreadsheet(parsed, blocks))
  BY ONLY <1>1, <1>8 DEF FoldTrace
<1>10. \A i \in 0 .. n : g[i] \in Works(S)
  BY ONLY <1>8 DEF FoldTrace
<1>11. g[0] = NoWork /\ g[n] = ParentChild(parsed, blocks, config)
  BY ONLY <1>6, <1>8 DEF FoldTrace
<1> HIDE DEF step, Solves
<1> QED BY <1>9, <1>10, <1>11 DEF n, ParentTrace

(***************************************************************************)
(* Allocation: the least of some keys.                                     *)
(***************************************************************************)
Keys == Nat \X Nat \X Nat \X (-1 .. 2)

\* Of two different keys one is less, and not both are.
LEMMA LessIsStrict ==
    ASSUME NEW a \in Keys, NEW b \in Keys
    PROVE  /\ ~(Less(a, b) /\ Less(b, a))
           /\ a[1] < b[1] => Less(a, b)
           /\ a[1] = b[1] /\ a[2] < b[2] => Less(a, b)
           /\ a[1] = b[1] /\ a[2] = b[2] /\ a[3] < b[3] => Less(a, b)
           /\ a[1] = b[1] /\ a[2] = b[2] /\ a[3] = b[3] /\ a[4] < b[4] => Less(a, b)
<1>1. /\ a[1] \in Nat /\ a[2] \in Nat /\ a[3] \in Nat /\ a[4] \in Int
      /\ b[1] \in Nat /\ b[2] \in Nat /\ b[3] \in Nat /\ b[4] \in Int
  BY DEF Keys
<1> DEFINE L(x, y) == \/ x[1] < y[1]
                      \/ x[1] = y[1] /\ x[2] < y[2]
                      \/ x[1] = y[1] /\ x[2] = y[2] /\ x[3] < y[3]
                      \/ x[1] = y[1] /\ x[2] = y[2] /\ x[3] = y[3] /\ x[4] < y[4]
<1>2. \A k \in 1 .. 4 : k = 1 \/ k = 2 \/ k = 3 \/ k = 4
  OBVIOUS
<1>3. ASSUME NEW x, NEW y PROVE Less(x, y) <=> L(x, y)
  <2>1. ASSUME Less(x, y) PROVE L(x, y)
    <3>1. PICK k \in 1 .. 4 : x[k] < y[k] /\ \A j \in 1 .. k - 1 : x[j] = y[j]
      BY <2>1 DEF Less
    <3>2. CASE k = 1
      BY <3>1, <3>2
    <3>3. CASE k = 2
      <4>1. 1 \in 1 .. k - 1
        BY <3>3
      <4> QED BY <3>1, <3>3, <4>1
    <3>4. CASE k = 3
      <4>1. 1 \in 1 .. k - 1 /\ 2 \in 1 .. k - 1
        BY <3>4
      <4> QED BY <3>1, <3>4, <4>1
    <3>5. CASE k = 4
      <4>1. 1 \in 1 .. k - 1 /\ 2 \in 1 .. k - 1 /\ 3 \in 1 .. k - 1
        BY <3>5
      <4> QED BY <3>1, <3>5, <4>1
    <3> QED BY <1>2, <3>2, <3>3, <3>4, <3>5
  <2>2. ASSUME L(x, y) PROVE Less(x, y)
    <3>1. CASE x[1] < y[1]
      <4>1. \A j \in 1 .. 1 - 1 : x[j] = y[j]
        OBVIOUS
      <4> QED BY <3>1, <4>1 DEF Less
    <3>2. CASE x[1] = y[1] /\ x[2] < y[2]
      <4>1. \A j \in 1 .. 2 - 1 : x[j] = y[j]
        BY <3>2
      <4> QED BY <3>2, <4>1 DEF Less
    <3>3. CASE x[1] = y[1] /\ x[2] = y[2] /\ x[3] < y[3]
      <4>1. \A j \in 1 .. 3 - 1 : x[j] = y[j]
        <5>1. \A j \in 1 .. 3 - 1 : j = 1 \/ j = 2
          OBVIOUS
        <5> QED BY <3>3, <5>1
      <4> QED BY <3>3, <4>1 DEF Less
    <3>4. CASE x[1] = y[1] /\ x[2] = y[2] /\ x[3] = y[3] /\ x[4] < y[4]
      <4>1. \A j \in 1 .. 4 - 1 : x[j] = y[j]
        <5>1. \A j \in 1 .. 4 - 1 : j = 1 \/ j = 2 \/ j = 3
          OBVIOUS
        <5> QED BY <3>4, <5>1
      <4> QED BY <3>4, <4>1 DEF Less
    <3> QED BY <2>2, <3>1, <3>2, <3>3, <3>4
  <2> QED BY <2>1, <2>2
<1>4. (Less(a, b) <=> L(a, b)) /\ (Less(b, a) <=> L(b, a))
  BY <1>3
<1> QED BY <1>1, <1>4

\* A set whose elements have different keys has one whose key is the least.
LEMMA LeastKey ==
    ASSUME NEW S, S # {}, NEW key, \A c \in S : key[c] \in Keys,
           \A c, d \in S : key[c] = key[d] => c = d
    PROVE  \E c \in S : \A d \in S : d = c \/ Less(key[c], key[d])
<1>1. \A c \in S : /\ key[c][1] \in Nat /\ key[c][2] \in Nat /\ key[c][3] \in Nat
                   /\ key[c][4] \in -1 .. 2
                   /\ key[c] = <<key[c][1], key[c][2], key[c][3], key[c][4]>>
  BY DEF Keys
<1>2. PICK m1 \in Nat : (\E c \in S : key[c][1] = m1) /\ \A c \in S : m1 <= key[c][1]
  <2> DEFINE T == {key[c][1] : c \in S}
  <2>1. T \in SUBSET Nat /\ T # {}
    BY <1>1
  <2>2. \A c \in S : key[c][1] \in T
    OBVIOUS
  <2>3. \A m \in T : \E c \in S : key[c][1] = m
    OBVIOUS
  <2> HIDE DEF T
  <2>4. PICK m \in T : \A l \in T : m <= l
    BY <2>1, LeastElement
  <2> QED BY <2>1, <2>2, <2>3, <2>4
<1>3. PICK A : A = {c \in S : key[c][1] = m1}
  OBVIOUS
<1>4. A # {} /\ A \subseteq S
  BY <1>2, <1>3
<1>5. PICK m2 \in Nat : (\E c \in A : key[c][2] = m2) /\ \A c \in A : m2 <= key[c][2]
  <2> DEFINE T == {key[c][2] : c \in A}
  <2>1. T \in SUBSET Nat /\ T # {}
    BY <1>1, <1>4
  <2>2. \A c \in A : key[c][2] \in T
    OBVIOUS
  <2>3. \A m \in T : \E c \in A : key[c][2] = m
    OBVIOUS
  <2> HIDE DEF T
  <2>4. PICK m \in T : \A l \in T : m <= l
    BY <2>1, LeastElement
  <2> QED BY <2>1, <2>2, <2>3, <2>4
<1>6. PICK B : B = {c \in A : key[c][2] = m2}
  OBVIOUS
<1>7. B # {} /\ B \subseteq A
  BY <1>5, <1>6
<1>8. PICK m3 \in Nat : (\E c \in B : key[c][3] = m3) /\ \A c \in B : m3 <= key[c][3]
  <2> DEFINE T == {key[c][3] : c \in B}
  <2>1. T \in SUBSET Nat /\ T # {}
    BY <1>1, <1>4, <1>7
  <2>2. \A c \in B : key[c][3] \in T
    OBVIOUS
  <2>3. \A m \in T : \E c \in B : key[c][3] = m
    OBVIOUS
  <2> HIDE DEF T
  <2>4. PICK m \in T : \A l \in T : m <= l
    BY <2>1, LeastElement
  <2> QED BY <2>1, <2>2, <2>3, <2>4
<1>9. PICK D : D = {c \in B : key[c][3] = m3}
  OBVIOUS
<1>10. D # {} /\ D \subseteq B
  BY <1>8, <1>9
<1>11. PICK m4 \in Nat : (\E c \in D : key[c][4] + 1 = m4) /\ \A c \in D : m4 <= key[c][4] + 1
  <2> DEFINE T == {key[c][4] + 1 : c \in D}
  <2>1. T \in SUBSET Nat /\ T # {}
    BY <1>1, <1>4, <1>7, <1>10
  <2>2. \A c \in D : key[c][4] + 1 \in T
    OBVIOUS
  <2>3. \A m \in T : \E c \in D : key[c][4] + 1 = m
    OBVIOUS
  <2> HIDE DEF T
  <2>4. PICK m \in T : \A l \in T : m <= l
    BY <2>1, LeastElement
  <2> QED BY <2>1, <2>2, <2>3, <2>4
<1>12. PICK c \in D : key[c][4] + 1 = m4
  BY <1>11
<1>13. c \in S /\ c \in A /\ c \in B /\ key[c][1] = m1 /\ key[c][2] = m2 /\ key[c][3] = m3
  BY <1>3, <1>4, <1>6, <1>7, <1>9, <1>10, <1>12
<1>14. ASSUME NEW d \in S PROVE d = c \/ Less(key[c], key[d])
  <2>1. PICK x, y : x = key[c] /\ y = key[d]
    OBVIOUS
  <2>2. x \in Keys /\ y \in Keys
    BY <1>13, <1>14, <2>1
  <2>3. /\ x[1] < y[1] => Less(x, y)
        /\ x[1] = y[1] /\ x[2] < y[2] => Less(x, y)
        /\ x[1] = y[1] /\ x[2] = y[2] /\ x[3] < y[3] => Less(x, y)
        /\ x[1] = y[1] /\ x[2] = y[2] /\ x[3] = y[3] /\ x[4] < y[4] => Less(x, y)
    BY ONLY <2>2, LessIsStrict
  <2>4. /\ x[1] \in Nat /\ x[2] \in Nat /\ x[3] \in Nat /\ x[4] \in -1 .. 2
        /\ y[1] \in Nat /\ y[2] \in Nat /\ y[3] \in Nat /\ y[4] \in -1 .. 2
    BY <2>2 DEF Keys
  <2>5. x[1] = m1 /\ x[2] = m2 /\ x[3] = m3 /\ x[4] + 1 = m4
    BY <1>12, <1>13, <2>1
  <2>6. CASE d \notin A
    BY <1>2, <1>3, <1>14, <2>1, <2>3, <2>4, <2>5, <2>6
  <2>7. CASE d \in A /\ d \notin B
    BY <1>3, <1>5, <1>6, <2>1, <2>3, <2>4, <2>5, <2>7
  <2>8. CASE d \in B /\ d \notin D
    BY <1>3, <1>6, <1>7, <1>8, <1>9, <2>1, <2>3, <2>4, <2>5, <2>8
  <2>9. CASE d \in D
    <3>1. y[1] = m1 /\ y[2] = m2 /\ y[3] = m3 /\ m4 <= y[4] + 1
      BY <1>3, <1>6, <1>7, <1>9, <1>10, <1>11, <2>1, <2>9
    <3>2. CASE x[4] < y[4]
      BY <2>1, <2>3, <2>5, <3>1, <3>2
    <3>3. CASE ~(x[4] < y[4])
      <4>1. x[4] = y[4]
        BY <2>4, <2>5, <3>1, <3>3
      <4>2. x = y
        <5>1. x = <<x[1], x[2], x[3], x[4]>> /\ y = <<y[1], y[2], y[3], y[4]>>
          BY <1>1, <1>13, <1>14, <2>1
        <5> QED BY ONLY <2>5, <3>1, <4>1, <5>1
      <4> QED BY <1>13, <1>14, <2>1, <4>2
    <3> QED BY <3>2, <3>3
  <2> QED BY <1>7, <1>10, <2>6, <2>7, <2>8, <2>9
<1> QED BY <1>13, <1>14

(***************************************************************************)
(* Plans: the decisions from block i on, when it carries p newlines.       *)
(***************************************************************************)
Plans == [cost : Nat \X Nat \X Nat, decisions : Seq(Decisions)]

\* Every block can host what the decisions hang on it.
Legal(blocks, maximum, i, p, ds) ==
    /\ ds \in Seq(Decisions) /\ Len(ds) = Len(blocks) - i
    /\ \A k \in i .. Len(blocks) :
          HostPossible(blocks[k], IF k = i THEN p ELSE Passed(ds[k - i]),
                       IF k = Len(blocks) THEN 0 ELSE Carried(ds[k - i + 1]), maximum)

\* What is known of the best plans from block i on.
GoodBest(b, blocks, maximum, i) ==
    /\ b[0] # {}
    /\ \A p \in 0 .. 2 : /\ b[p] \subseteq Plans
                         /\ \A x, y \in b[p] : x = y
                         /\ \A f \in b[p] : Legal(blocks, maximum, i, p, f.decisions)

\* A block with text the segmenter sees.
Visible(block, C) == block.text \in Seq(C) /\ ~Blank(block.text)

\* What a visible block's solid characters are.
LEMMA SolidIs ==
    ASSUME NEW C, NEW block, Visible(block, C), NEW solid,
           solid = {i \in 0 .. Len(block.text) - 1 : ~IsSpace(Class(block.text, i))}
    PROVE  /\ Len(block.text) \in Nat /\ solid # {} /\ solid \in SUBSET Nat
           /\ Min(solid) \in solid /\ Max(solid) \in solid
           /\ \A i \in solid : Min(solid) <= i /\ i <= Max(solid)
<1>1. PICK text : text = block.text
  OBVIOUS
<1>2. PICK n \in Nat : n = Len(text) /\ DOMAIN text = 1 .. n
  BY <1>1 DEF Visible
<1>3. PICK j \in 1 .. n : ~IsSpace(text[j][1])
  BY <1>1, <1>2 DEF Visible, Blank
<1>4. PICK h : h = j - 1
  OBVIOUS
<1>5. h \in 0 .. n - 1 /\ h + 1 = j
  BY <1>4
<1>6. h \in solid
  BY <1>1, <1>2, <1>3, <1>5 DEF Class
<1>7. solid \in SUBSET Nat /\ \A m \in solid : m <= n
  BY <1>1, <1>2
<1>8. solid \in SUBSET Int /\ solid # {}
  BY <1>6, <1>7
<1>9. Max(solid) \in solid /\ Max(solid) \in Nat /\ \A m \in solid : m <= Max(solid)
  BY ONLY <1>7, <1>8, MaxOfBounded, n \in Nat
<1>10. PICK m \in solid : \A k \in solid : m <= k
  BY ONLY <1>7, <1>8, LeastElement
<1>11. Min(solid) = m
  BY ONLY <1>8, <1>10, MinIs
<1> QED BY <1>1, <1>2, <1>7, <1>8, <1>9, <1>10, <1>11

\* A visible block can do without any newline.
LEMMA HostsNothing ==
    ASSUME NEW C, NEW block, Visible(block, C), NEW maximum
    PROVE  HostPossible(block, 0, 0, maximum)
<1>1. PICK solid : solid = {i \in 0 .. Len(block.text) - 1 : ~IsSpace(Class(block.text, i))}
  OBVIOUS
<1>2. solid # {}
  BY <1>1, SolidIs
<1>3. CanHost(block, 0, 0, maximum)
  BY <1>1, <1>2 DEF CanHost
<1> QED BY <1>3 DEF HostPossible

\* The parts more a block makes, and what is preferred, are numbers.
LEMMA CostsAre ==
    ASSUME NEW C, NEW block, block.text \in Seq(C), NEW p \in 0 .. 2, NEW s \in 0 .. 2,
           NEW maximum \in Nat \ {0}, NEW blocks, NEW i
    PROVE  SplitCost(block, p, s, maximum) \in Nat /\ Preference(blocks, i, p, s, maximum) \in Nat
<1>1. PICK l \in Nat : l = Len(block.text)
  OBVIOUS
<1>2. PICK a \in Int, b \in Int : a = CeilDiv(l + p + s, maximum) /\ b = CeilDiv(l, maximum)
  <2>1. \A x \in Nat : CeilDiv(x, maximum) \in Int
    BY DEF CeilDiv
  <2>2. l + p + s \in Nat
    OBVIOUS
  <2> QED BY <2>1, <2>2
<1>3. PICK e \in Int : e = a - b
  OBVIOUS
<1>4. Max({0, e}) \in Nat
  BY MaxOfTwo
<1>5. SplitCost(block, p, s, maximum) \in Nat
  BY ONLY <1>1, <1>2, <1>3, <1>4 DEF SplitCost
<1>6. Preference(blocks, i, p, s, maximum) \in Nat
  BY DEF Preference
<1> QED BY <1>5, <1>6

\* A decision before a legal plan makes a legal plan.
LEMMA LegalOnwards ==
    ASSUME NEW blocks, NEW n \in Nat, n = Len(blocks), NEW maximum, NEW i \in 1 .. n - 1,
           NEW p, NEW d \in Decisions, HostPossible(blocks[i], p, Carried(d), maximum),
           NEW es, Legal(blocks, maximum, i + 1, Passed(d), es), NEW ds, ds = <<d>> \o es
    PROVE  Legal(blocks, maximum, i, p, ds)
<1>1. PICK one : one = <<d>>
  OBVIOUS
<1>2. es \in Seq(Decisions) /\ Len(es) = n - (i + 1)
  BY DEF Legal
<1>3. one \in Seq(Decisions) /\ Len(one) = 1 /\ one[1] = d
  BY ONLY <1>1, OneIsSeq, d \in Decisions
<1>4. one \in Seq(Decisions) /\ es \in Seq(Decisions) /\ ds = one \o es
  BY <1>1, <1>2, <1>3
<1>5. /\ ds \in Seq(Decisions) /\ Len(ds) = Len(one) + Len(es)
      /\ \A k \in 1 .. Len(one) : ds[k] = one[k]
      /\ \A k \in 1 .. Len(es) : ds[Len(one) + k] = es[k]
  BY ONLY <1>4, JoinIsSeq
<1>6. Len(ds) = n - i
  <2>1. PICK m : m = Len(es)
    OBVIOUS
  <2>2. m = n - (i + 1) /\ Len(ds) = 1 + m
    BY ONLY <1>2, <1>3, <1>5, <2>1
  <2> QED BY ONLY <2>2, n \in Nat, i \in 1 .. n - 1
<1>7. ds[1] = d
  BY <1>3, <1>5
<1>8. \A k \in 1 .. n - (i + 1) : ds[1 + k] = es[k]
  BY <1>2, <1>3, <1>5
<1>9. ASSUME NEW k \in i .. n
      PROVE  HostPossible(blocks[k], IF k = i THEN p ELSE Passed(ds[k - i]),
                          IF k = n THEN 0 ELSE Carried(ds[k - i + 1]), maximum)
  <2>1. CASE k = i
    <3>1. k # n /\ k - i + 1 = 1
      BY <2>1
    <3> QED BY <1>7, <2>1, <3>1
  <2>2. CASE k # i
    <3>1. k \in i + 1 .. n /\ k \in Int /\ i \in Int /\ n \in Int
      BY <2>2
    <3>2. HostPossible(blocks[k], IF k = i + 1 THEN Passed(d) ELSE Passed(es[k - (i + 1)]),
                       IF k = n THEN 0 ELSE Carried(es[k - (i + 1) + 1]), maximum)
      BY <3>1 DEF Legal
    <3>3. k # n => ds[k - i + 1] = es[k - (i + 1) + 1]
      <4>1. k # n => k - (i + 1) + 1 \in 1 .. n - (i + 1) /\ 1 + (k - (i + 1) + 1) = k - i + 1
        BY ONLY <3>1
      <4> QED BY ONLY <1>8, <4>1
    <3>4. k = i + 1 => ds[k - i] = d
      <4>1. k = i + 1 => k - i = 1
        BY ONLY <3>1
      <4> QED BY ONLY <1>7, <4>1
    <3>5. k # i + 1 => ds[k - i] = es[k - (i + 1)]
      <4>1. k # i + 1 => k - (i + 1) \in 1 .. n - (i + 1) /\ 1 + (k - (i + 1)) = k - i
        BY ONLY <3>1
      <4> QED BY ONLY <1>8, <4>1
    <3>6. Passed(ds[k - i]) = IF k = i + 1 THEN Passed(d) ELSE Passed(es[k - (i + 1)])
      BY ONLY <3>4, <3>5
    <3>7. (IF k = n THEN 0 ELSE Carried(ds[k - i + 1]))
             = IF k = n THEN 0 ELSE Carried(es[k - (i + 1) + 1])
      BY ONLY <3>3
    <3> QED BY ONLY <2>2, <3>2, <3>6, <3>7
  <2> QED BY <2>1, <2>2
<1> QED BY ONLY <1>5, <1>6, <1>9, n = Len(blocks) DEF Legal

\* The plans that are compared are those that decide something the block can
\* host and go on with a best plan.
LEMMA PlansForAre ==
    ASSUME NEW after, NEW blocks, NEW maximum, NEW i, NEW p, NEW c
    PROVE  c \in PlansFor(after, blocks, maximum, i, p) <=>
             \E d \in Decisions : \E f \in after[Passed(d)] :
                /\ HostPossible(blocks[i], p, Carried(d), maximum)
                /\ c = Planned(d, f, blocks, maximum, i, p)
BY DEF PlansFor

\* What the recursion gives for block i.
LEMMA BestFromIs ==
    ASSUME NEW after, NEW blocks, NEW maximum, NEW i, NEW p \in 0 .. 2
    PROVE  BestFrom(after, blocks, maximum, i)[p] =
             IF i = Len(blocks) THEN LastPlans(blocks, maximum, i, p)
             ELSE Least(PlansFor(after, blocks, maximum, i, p))
BY DEF BestFrom

\* A plan before which a decision is put.
PlannedWell(c, d, blocks, maximum, i, p) ==
    /\ c \in Plans /\ KeyOf(c) \in Keys /\ KeyOf(c)[4] = d
    /\ Legal(blocks, maximum, i, p, c.decisions)

\* A decision and a plan for the blocks after it make a plan.
LEMMA PlannedIs ==
    ASSUME NEW C, NEW blocks, NEW n \in Nat, n = Len(blocks), NEW maximum \in Nat \ {0},
           NEW i \in 1 .. n - 1, Visible(blocks[i], C), NEW p \in 0 .. 2, NEW d \in Decisions,
           HostPossible(blocks[i], p, Carried(d), maximum), NEW f \in Plans,
           Legal(blocks, maximum, i + 1, Passed(d), f.decisions), NEW c,
           c = Planned(d, f, blocks, maximum, i, p)
    PROVE  PlannedWell(c, d, blocks, maximum, i, p)
<1>1. PICK es : es = f.decisions
  OBVIOUS
<1>2. PICK ds : ds = <<d>> \o es
  OBVIOUS
<1>3. Legal(blocks, maximum, i, p, ds)
  <2>1. Legal(blocks, maximum, i + 1, Passed(d), es)
    BY <1>1
  <2> QED BY ONLY n \in Nat, n = Len(blocks), i \in 1 .. n - 1, d \in Decisions, <1>2, <2>1,
                  HostPossible(blocks[i], p, Carried(d), maximum), LegalOnwards
<1>4. es \in Seq(Decisions) /\ ds \in Seq(Decisions)
  BY <1>1, <1>3 DEF Legal, Plans
<1>5. ds[1] = d
  <2>1. PICK one : one = <<d>>
    OBVIOUS
  <2>2. one \in Seq(Decisions) /\ Len(one) = 1 /\ one[1] = d
    BY ONLY <2>1, OneIsSeq, d \in Decisions
  <2>3. one \in Seq(Decisions) /\ es \in Seq(Decisions) /\ ds = one \o es
    BY <1>2, <1>4, <2>1, <2>2
  <2>4. \A k \in 1 .. Len(one) : ds[k] = one[k]
    BY ONLY <2>3, JoinIsSeq
  <2> QED BY <2>2, <2>4
<1>6. PICK a \in Nat, b \in Nat, e \in Nat : f.cost = <<a, b, e>>
  BY DEF Plans
<1>7. 0 \in 0 .. 2 /\ (d # -1 => d \in 0 .. 2)
  BY DEF Decisions
<1>8. blocks[i].text \in Seq(C)
  BY DEF Visible
<1>9. PICK s0 \in Nat : s0 = SplitCost(blocks[i], p, 0, maximum)
  BY <1>7, <1>8, CostsAre
<1>10. PICK cost \in Nat \X Nat \X Nat : c = [cost |-> cost, decisions |-> ds]
  <2>1. CASE d = -1
    <3>1. PICK cost : cost = <<1 + a, s0 + b, e>>
      OBVIOUS
    <3>2. cost \in Nat \X Nat \X Nat
      BY <3>1
    <3>3. c = [cost |-> cost, decisions |-> ds]
      BY <1>1, <1>2, <1>6, <1>9, <2>1, <3>1 DEF Planned
    <3> QED BY <3>2, <3>3
  <2>2. CASE d # -1
    <3>1. PICK sd \in Nat, q \in Nat : /\ sd = SplitCost(blocks[i], p, d, maximum)
                                       /\ q = Preference(blocks, i, p, d, maximum)
      BY <1>7, <1>8, <2>2, CostsAre
    <3>2. PICK cost : cost = <<a, sd + b, q + e>>
      OBVIOUS
    <3>3. cost \in Nat \X Nat \X Nat
      BY <3>2
    <3>4. c = [cost |-> cost, decisions |-> ds]
      BY <1>1, <1>2, <1>6, <2>2, <3>1, <3>2 DEF Planned
    <3> QED BY <3>3, <3>4
  <2> QED BY <2>1, <2>2
<1>11. c \in Plans /\ c.decisions = ds
  BY <1>4, <1>10 DEF Plans
<1>12. KeyOf(c) = <<cost[1], cost[2], cost[3], d>>
  BY <1>5, <1>10 DEF KeyOf
<1>13. KeyOf(c) \in Keys /\ KeyOf(c)[4] = d
  BY <1>12 DEF Keys, Decisions
<1> QED BY <1>3, <1>11, <1>13 DEF PlannedWell

\* The plans that are compared are legal and have keys of their own, and one of
\* them is the least.
LEMMA ComparedPlans ==
    ASSUME NEW C, NEW blocks, NEW n \in Nat, n = Len(blocks), NEW maximum \in Nat \ {0},
           NEW i \in 1 .. n - 1, Visible(blocks[i], C), NEW p \in 0 .. 2,
           NEW after, GoodBest(after, blocks, maximum, i + 1),
           NEW plans, plans = PlansFor(after, blocks, maximum, i, p)
    PROVE  /\ \A c \in plans : c \in Plans /\ KeyOf(c) \in Keys
                               /\ Legal(blocks, maximum, i, p, c.decisions)
           /\ plans # {} => Least(plans) # {}
<1>2. \A q \in 0 .. 2 : \A x, y \in after[q] : x = y
  BY DEF GoodBest
<1>3. \A d \in Decisions : Passed(d) \in 0 .. 2
  BY DEF Decisions, Passed
<1>4. ASSUME NEW c \in plans
      PROVE  \E d \in Decisions : \E f \in after[Passed(d)] :
                /\ c = Planned(d, f, blocks, maximum, i, p)
                /\ PlannedWell(c, d, blocks, maximum, i, p)
  <2>1. PICK d \in Decisions : \E f \in after[Passed(d)] :
                    /\ HostPossible(blocks[i], p, Carried(d), maximum)
                    /\ c = Planned(d, f, blocks, maximum, i, p)
    BY ONLY plans = PlansFor(after, blocks, maximum, i, p), <1>4, PlansForAre
  <2>2. PICK f \in after[Passed(d)] : /\ HostPossible(blocks[i], p, Carried(d), maximum)
                                      /\ c = Planned(d, f, blocks, maximum, i, p)
    BY <2>1
  <2>3. Passed(d) \in 0 .. 2
    BY <1>3, <2>1
  <2>4. f \in Plans /\ Legal(blocks, maximum, i + 1, Passed(d), f.decisions)
    BY <2>2, <2>3 DEF GoodBest
  <2>5. PlannedWell(c, d, blocks, maximum, i, p)
    BY <2>1, <2>2, <2>4, PlannedIs
  <2> QED BY <2>1, <2>2, <2>5
<1>5. \A c \in plans : c \in Plans /\ KeyOf(c) \in Keys /\ Legal(blocks, maximum, i, p, c.decisions)
  BY <1>4 DEF PlannedWell
<1>6. ASSUME NEW x \in plans, NEW y \in plans, KeyOf(x) = KeyOf(y)
      PROVE  x = y
  <2>1. PICK d \in Decisions : \E f \in after[Passed(d)] :
           x = Planned(d, f, blocks, maximum, i, p) /\ PlannedWell(x, d, blocks, maximum, i, p)
    BY <1>4, <1>6
  <2>2. PICK e \in Decisions : \E h \in after[Passed(e)] :
           y = Planned(e, h, blocks, maximum, i, p) /\ PlannedWell(y, e, blocks, maximum, i, p)
    BY <1>4, <1>6
  <2>3. PICK f \in after[Passed(d)], h \in after[Passed(e)] :
           /\ x = Planned(d, f, blocks, maximum, i, p)
           /\ y = Planned(e, h, blocks, maximum, i, p)
    BY <2>1, <2>2
  <2>4. d = e
    BY <1>6, <2>1, <2>2 DEF PlannedWell
  <2>5. f = h
    BY <1>2, <1>3, <2>1, <2>3, <2>4
  <2> QED BY <2>3, <2>4, <2>5
<1>7. ASSUME plans # {}
      PROVE  Least(plans) # {}
  <2>1. PICK key : key = [c \in plans |-> KeyOf(c)]
    OBVIOUS
  <2>2. \A c \in plans : key[c] = KeyOf(c)
    BY <2>1
  <2>3. (\A c \in plans : key[c] \in Keys) /\ (\A c, d \in plans : key[c] = key[d] => c = d)
    BY <1>5, <1>6, <2>2
  <2>4. \E c \in plans : \A d \in plans : d = c \/ Less(key[c], key[d])
    BY ONLY <1>7, <2>3, LeastKey
  <2>5. PICK c \in plans : \A d \in plans : d = c \/ Less(key[c], key[d])
    BY <2>4
  <2>6. c \in Least(plans)
    BY <2>2, <2>5 DEF Least
  <2> QED BY <2>6
<1> QED BY <1>5, <1>7

\* What is known of the best plans for one carried prefix.
GoodPlans(here, blocks, maximum, i, p) ==
    /\ here \subseteq Plans
    /\ \A x, y \in here : x = y
    /\ \A f \in here : Legal(blocks, maximum, i, p, f.decisions)
    /\ p = 0 => here # {}

\* The best plans from one block on, for one carried prefix.
LEMMA StepPlans ==
    ASSUME NEW C, NEW blocks, NEW n \in Nat, n = Len(blocks), NEW maximum \in Nat \ {0},
           NEW i \in 1 .. n - 1, Visible(blocks[i], C), NEW p \in 0 .. 2,
           NEW after, GoodBest(after, blocks, maximum, i + 1),
           NEW here, here = Least(PlansFor(after, blocks, maximum, i, p))
    PROVE  GoodPlans(here, blocks, maximum, i, p)
<1>1. PICK plans : plans = PlansFor(after, blocks, maximum, i, p)
  OBVIOUS
<1>2. /\ \A c \in plans : c \in Plans /\ KeyOf(c) \in Keys
                          /\ Legal(blocks, maximum, i, p, c.decisions)
      /\ plans # {} => Least(plans) # {}
  BY ONLY <1>1, ComparedPlans, n \in Nat, n = Len(blocks), maximum \in Nat \ {0},
          i \in 1 .. n - 1, Visible(blocks[i], C), p \in 0 .. 2,
          GoodBest(after, blocks, maximum, i + 1)
<1>3. here = {c \in plans : \A d \in plans : d = c \/ Less(KeyOf(c), KeyOf(d))}
  BY <1>1 DEF Least
<1>4. \A x, y \in here : x = y
  <2> SUFFICES ASSUME NEW x \in here, NEW y \in here, x # y PROVE FALSE
    OBVIOUS
  <2>1. KeyOf(x) \in Keys /\ KeyOf(y) \in Keys /\ Less(KeyOf(x), KeyOf(y))
          /\ Less(KeyOf(y), KeyOf(x))
    BY <1>2, <1>3
  <2> QED BY <2>1, LessIsStrict
<1>5. ASSUME p = 0
      PROVE  here # {}
  <2>1. PICK f \in after[0] : TRUE
    BY DEF GoodBest
  <2>2. HostPossible(blocks[i], p, 0, maximum)
    BY <1>5, HostsNothing
  <2>3. -1 \in Decisions /\ Passed(-1) = 0 /\ Carried(-1) = 0
    BY DEF Decisions, Passed, Carried
  <2>4. PICK c : c = Planned(-1, f, blocks, maximum, i, p)
    OBVIOUS
  <2>5. \E d \in Decisions : \E g \in after[Passed(d)] :
           /\ HostPossible(blocks[i], p, Carried(d), maximum)
           /\ c = Planned(d, g, blocks, maximum, i, p)
    BY <2>1, <2>2, <2>3, <2>4
  <2>6. c \in plans
    BY ONLY <1>1, <2>5, PlansForAre
  <2> QED BY <1>1, <1>2, <2>6
<1> QED BY <1>2, <1>3, <1>4, <1>5 DEF GoodPlans

\* The plan taken for a block is legal when those after it are.
LEMMA StepBest ==
    ASSUME NEW C, NEW blocks, NEW n \in Nat, n = Len(blocks),
           \A k \in 1 .. n : Visible(blocks[k], C), NEW maximum \in Nat \ {0}, NEW i \in 1 .. n,
           NEW after, i < n => GoodBest(after, blocks, maximum, i + 1)
    PROVE  GoodBest(BestFrom(after, blocks, maximum, i), blocks, maximum, i)
<1>1. PICK b : b = BestFrom(after, blocks, maximum, i)
  OBVIOUS
<1>2. Visible(blocks[i], C)
  OBVIOUS
<1>3. CASE i = n
  <2>1. ASSUME NEW p \in 0 .. 2
        PROVE  GoodPlans(b[p], blocks, maximum, i, p)
    <3>1. PICK one : one = [cost |-> <<0, SplitCost(blocks[i], p, 0, maximum), 0>>,
                            decisions |-> <<>>]
      OBVIOUS
    <3>2. b[p] = IF HostPossible(blocks[i], p, 0, maximum) THEN {one} ELSE {}
      BY <1>1, <1>3, <3>1, BestFromIs DEF LastPlans
    <3>3. SplitCost(blocks[i], p, 0, maximum) \in Nat
      <4>1. 0 \in 0 .. 2 /\ blocks[i].text \in Seq(C)
        BY <1>2 DEF Visible
      <4> QED BY <4>1, CostsAre
    <3>4. one \in Plans
      BY <3>1, <3>3 DEF Plans
    <3>5. p = 0 => HostPossible(blocks[i], p, 0, maximum)
      BY <1>2, HostsNothing
    <3>6. ASSUME HostPossible(blocks[i], p, 0, maximum)
          PROVE  Legal(blocks, maximum, i, p, one.decisions)
      <4>1. one.decisions = <<>> /\ <<>> \in Seq(Decisions) /\ Len(<<>>) = 0
        BY <3>1
      <4>2. 0 = n - i
        BY <1>3
      <4>3. \A k \in i .. n : k = i /\ k = n
        BY <1>3
      <4>4. \A k \in i .. n : HostPossible(blocks[k], IF k = i THEN p ELSE Passed(<<>>[k - i]),
                       IF k = n THEN 0 ELSE Carried(<<>>[k - i + 1]), maximum)
        BY <3>6, <4>3
      <4> QED BY <4>1, <4>2, <4>4 DEF Legal
    <3> QED BY <3>2, <3>4, <3>5, <3>6 DEF GoodPlans
  <2> QED BY <1>1, <2>1 DEF GoodBest, GoodPlans
<1>4. CASE i # n
  <2>1. i \in 1 .. n - 1 /\ GoodBest(after, blocks, maximum, i + 1)
    BY <1>4
  <2>2. ASSUME NEW p \in 0 .. 2
        PROVE  GoodPlans(b[p], blocks, maximum, i, p)
    <3>1. PICK here : here = Least(PlansFor(after, blocks, maximum, i, p))
      OBVIOUS
    <3>2. b[p] = here
      BY <1>1, <1>4, <3>1, BestFromIs
    <3>3. GoodPlans(here, blocks, maximum, i, p)
      BY ONLY <1>2, <2>1, <2>2, <3>1, StepPlans, n \in Nat, n = Len(blocks),
              maximum \in Nat \ {0}
    <3> QED BY <3>2, <3>3
  <2> QED BY <1>1, <2>2 DEF GoodBest, GoodPlans
<1> QED BY <1>3, <1>4

\* The last block's plans do not depend on any other's.
LEMMA LastAnyway ==
    ASSUME NEW a, NEW b, NEW blocks, NEW maximum, NEW i, i = Len(blocks)
    PROVE  BestFrom(a, blocks, maximum, i) = BestFrom(b, blocks, maximum, i)
<1>1. \A x : BestFrom(x, blocks, maximum, i)
                = [p \in 0 .. 2 |-> BestFrom(x, blocks, maximum, i)[p]]
  BY DEF BestFrom
<1>2. \A x : \A p \in 0 .. 2 : BestFrom(x, blocks, maximum, i)[p] = LastPlans(blocks, maximum, i, p)
  BY BestFromIs
<1>3. PICK f : f = BestFrom(a, blocks, maximum, i)
  OBVIOUS
<1>4. PICK g : g = BestFrom(b, blocks, maximum, i)
  OBVIOUS
<1>5. f = [p \in 0 .. 2 |-> f[p]] /\ g = [p \in 0 .. 2 |-> g[p]] /\ \A p \in 0 .. 2 : f[p] = g[p]
  BY <1>1, <1>2, <1>3, <1>4
<1>6. f = g
  BY ONLY <1>5
<1> QED BY <1>3, <1>4, <1>6

\* A table of the best plans from a block on to the last.
BestTable(f, blocks, maximum, first) ==
    f = [i \in first .. Len(blocks) |-> BestFrom(f[i + 1], blocks, maximum, i)]

\* There is a table from every block on.
LEMMA BestExists ==
    ASSUME NEW blocks, NEW n \in Nat \ {0}, n = Len(blocks), NEW maximum
    PROVE  \E f : BestTable(f, blocks, maximum, 1)
<1> DEFINE Best(x, i) == BestFrom(x, blocks, maximum, i)
           S == {d \in Nat : d < n => \E f : BestTable(f, blocks, maximum, n - d)}
<1>1. 0 \in S
  <2>1. PICK b : b = Best(0, n)
    OBVIOUS
  <2>2. PICK f : f = [i \in n .. n |-> b]
    OBVIOUS
  <2>3. \A i \in n .. n : i = n
    OBVIOUS
  <2>4. Best(f[n + 1], n) = b
    BY <2>1, LastAnyway
  <2> HIDE DEF Best
  <2>5. f = [i \in n .. n |-> Best(f[i + 1], i)]
    BY <2>2, <2>3, <2>4
  <2>6. n - 0 = n
    OBVIOUS
  <2>7. BestTable(f, blocks, maximum, n - 0)
    BY <2>5, <2>6 DEF BestTable, Best
  <2> QED BY <2>7
<1>2. ASSUME NEW d \in Nat, d \in S
      PROVE  d + 1 \in S
  <2> SUFFICES ASSUME d + 1 < n
               PROVE  \E f : BestTable(f, blocks, maximum, n - (d + 1))
    OBVIOUS
  <2>1. PICK f : BestTable(f, blocks, maximum, n - d)
    <3>1. d < n
      OBVIOUS
    <3> QED BY <1>2, <3>1
  <2>2. PICK s \in Nat : s = n - (d + 1)
    OBVIOUS
  <2>3. n - d = s + 1 /\ s < n
    BY ONLY <2>2, d \in Nat, n \in Nat
  <2> HIDE DEF Best
  <2>4. f = [i \in s + 1 .. n |-> Best(f[i + 1], i)]
    BY <2>1, <2>3 DEF BestTable, Best
  <2>5. PICK b : b = Best(f[s + 1], s)
    OBVIOUS
  <2>6. PICK g : g = [i \in s .. n |-> IF i = s THEN b ELSE f[i]]
    OBVIOUS
  <2>7. \A i \in s + 1 .. n : g[i] = f[i]
    BY ONLY <2>6, s \in Nat, n \in Nat
  <2>8. ASSUME NEW i \in s .. n
        PROVE  g[i] = Best(g[i + 1], i)
    <3>1. CASE i = s
      <4>1. g[i] = b
        BY <2>6, <3>1
      <4>2. g[i + 1] = f[s + 1]
        BY <2>3, <2>7, <3>1
      <4> QED BY <2>5, <3>1, <4>1, <4>2
    <3>2. CASE i \in s + 1 .. n - 1
      <4>1. g[i] = f[i] /\ g[i + 1] = f[i + 1]
        BY <2>7, <3>2
      <4>2. f[i] = Best(f[i + 1], i)
        BY <2>4, <3>2
      <4> QED BY <4>1, <4>2
    <3>3. CASE i = n
      <4>1. n \in s + 1 .. n
        BY <2>3
      <4>2. g[n] = f[n] /\ f[n] = Best(f[n + 1], n)
        BY ONLY <2>4, <2>7, <4>1
      <4>3. Best(f[n + 1], n) = Best(g[n + 1], n)
        BY LastAnyway DEF Best
      <4> QED BY <3>3, <4>2, <4>3
    <3> QED BY <2>3, <3>1, <3>2, <3>3
  <2>9. g = [i \in s .. n |-> Best(g[i + 1], i)]
    <3>1. g = [i \in s .. n |-> g[i]]
      BY <2>6
    <3> QED BY ONLY <2>8, <3>1
  <2>10. BestTable(g, blocks, maximum, s)
    BY <2>9 DEF BestTable, Best
  <2> QED BY <2>2, <2>10
<1> HIDE DEF S
<1>3. \A d \in Nat : d \in S
  BY ONLY <1>1, <1>2, SetInduction
<1>4. n - 1 \in Nat /\ n - 1 < n /\ n - (n - 1) = 1
  OBVIOUS
<1> QED BY <1>3, <1>4 DEF S

\* The table of the search for the delimiters: the best plans from every block.
LEMMA BestPlans ==
    ASSUME NEW C, NEW blocks, NEW n \in Nat \ {0}, n = Len(blocks),
           \A k \in 1 .. n : Visible(blocks[k], C), NEW maximum \in Nat \ {0}
    PROVE  \E f : /\ \A i \in 1 .. n : /\ f[i] = BestFrom(f[i + 1], blocks, maximum, i)
                                       /\ GoodBest(f[i], blocks, maximum, i)
                  /\ Allocation(blocks, maximum) \in f[1][0]
<1> DEFINE Table == CHOOSE f : BestTable(f, blocks, maximum, 1)
<1>1. BestTable(Table, blocks, maximum, 1)
  BY BestExists
<1>2. PICK f : f = Table
  OBVIOUS
<1> HIDE DEF Table
<1>3. \A i \in 1 .. n : f[i] = BestFrom(f[i + 1], blocks, maximum, i)
  <2>1. f = [i \in 1 .. n |-> BestFrom(f[i + 1], blocks, maximum, i)]
    BY <1>1, <1>2 DEF BestTable
  <2> QED BY ONLY <2>1
<1> DEFINE S == {d \in Nat : d < n => GoodBest(f[n - d], blocks, maximum, n - d)}
<1>4. 0 \in S
  <2>1. n \in 1 .. n /\ n - 0 = n
    OBVIOUS
  <2>2. GoodBest(BestFrom(f[n + 1], blocks, maximum, n), blocks, maximum, n)
    <3>1. n \in Nat /\ (n < n => GoodBest(f[n + 1], blocks, maximum, n + 1))
      OBVIOUS
    <3> QED BY ONLY n = Len(blocks), \A k \in 1 .. n : Visible(blocks[k], C), <2>1, <3>1, StepBest,
                    maximum \in Nat \ {0}
  <2> QED BY <1>3, <2>1, <2>2
<1>5. ASSUME NEW d \in Nat, d \in S
      PROVE  d + 1 \in S
  <2> SUFFICES ASSUME d + 1 < n
               PROVE  GoodBest(f[n - (d + 1)], blocks, maximum, n - (d + 1))
    OBVIOUS
  <2>1. PICK i \in 1 .. n : i = n - (d + 1) /\ n - d = i + 1 /\ d < n
    OBVIOUS
  <2>2. GoodBest(f[i + 1], blocks, maximum, i + 1)
    BY <1>5, <2>1
  <2>3. GoodBest(BestFrom(f[i + 1], blocks, maximum, i), blocks, maximum, i)
    BY <2>1, <2>2, StepBest
  <2> QED BY <1>3, <2>1, <2>3
<1>6. \A i \in 1 .. n : GoodBest(f[i], blocks, maximum, i)
  <2> SUFFICES ASSUME NEW i \in 1 .. n PROVE GoodBest(f[i], blocks, maximum, i)
    OBVIOUS
  <2>1. \A d \in Nat : d \in S
    <3> HIDE DEF S
    <3> QED BY ONLY <1>4, <1>5, SetInduction
  <2>2. n - i \in Nat /\ n - i < n /\ n - (n - i) = i
    OBVIOUS
  <2> QED BY <2>1, <2>2
<1>7. Allocation(blocks, maximum) = CHOOSE a \in f[1][0] : TRUE
  <2>1. Table = CHOOSE g : g = [i \in 1 .. Len(blocks) |->
                                  BestFrom(g[i + 1], blocks, maximum, i)]
    BY DEF Table, BestTable
  <2>2. Allocation(blocks, maximum) = CHOOSE a \in Table[1][0] : TRUE
    BY <2>1 DEF Allocation
  <2> QED BY <1>2, <2>2
<1>8. GoodBest(f[1], blocks, maximum, 1)
  BY <1>6
<1>9. Allocation(blocks, maximum) \in f[1][0]
  BY ONLY <1>7, <1>8 DEF GoodBest
<1> QED BY <1>3, <1>6, <1>9

\* What the search for the delimiters finds: a decision for every boundary
\* that the blocks can host.
LEMMA AllocationIs ==
    ASSUME NEW C, NEW blocks, NEW n \in Nat \ {0}, n = Len(blocks),
           \A k \in 1 .. n : Visible(blocks[k], C), NEW maximum \in Nat \ {0}
    PROVE  /\ Allocation(blocks, maximum) \in Plans
           /\ Legal(blocks, maximum, 1, 0, Allocation(blocks, maximum).decisions)
<1>1. PICK f : /\ \A i \in 1 .. n : GoodBest(f[i], blocks, maximum, i)
               /\ Allocation(blocks, maximum) \in f[1][0]
  BY BestPlans
<1>2. GoodBest(f[1], blocks, maximum, 1) /\ 0 \in 0 .. 2
  BY <1>1
<1> QED BY ONLY <1>1, <1>2 DEF GoodBest

\* The costs of a plan that decides d before another.
LEMMA PlannedCosts ==
    ASSUME NEW d \in Decisions, NEW g, NEW blocks, NEW maximum, NEW i, NEW p, NEW c,
           c = Planned(d, g, blocks, maximum, i, p)
    PROVE  /\ c.cost[1] = IF d = -1 THEN 1 + g.cost[1] ELSE g.cost[1]
           /\ c.cost[2] = SplitCost(blocks[i], p, Carried(d), maximum) + g.cost[2]
<1>1. CASE d = -1
  <2>1. c.cost = <<1 + g.cost[1], SplitCost(blocks[i], p, 0, maximum) + g.cost[2], g.cost[3]>>
    BY <1>1 DEF Planned
  <2>2. Carried(d) = 0
    BY <1>1 DEF Carried
  <2> QED BY ONLY <1>1, <2>1, <2>2
<1>2. CASE d # -1
  <2>1. c.cost = <<g.cost[1], SplitCost(blocks[i], p, d, maximum) + g.cost[2],
                   Preference(blocks, i, p, d, maximum) + g.cost[3]>>
    BY <1>2 DEF Planned
  <2>2. Carried(d) = d
    BY <1>2 DEF Carried
  <2> QED BY ONLY <1>2, <2>1, <2>2
<1> QED BY <1>1, <1>2

\* What is not more for the comparison has no higher first cost, and no higher
\* second when the first are equal.
LEMMA LessIsCheaper ==
    ASSUME NEW a \in Keys, NEW b \in Keys, a = b \/ Less(a, b)
    PROVE  a[1] < b[1] \/ (a[1] = b[1] /\ a[2] <= b[2])
<1>1. a[1] \in Nat /\ a[2] \in Nat /\ b[1] \in Nat /\ b[2] \in Nat
  BY DEF Keys
<1>2. CASE a = b
  BY <1>1, <1>2
<1>3. CASE Less(a, b)
  <2>1. ~Less(b, a)
    BY <1>3, LessIsStrict
  <2>2. b[1] < a[1] => Less(b, a)
    BY LessIsStrict
  <2>3. b[1] = a[1] /\ b[2] < a[2] => Less(b, a)
    BY LessIsStrict
  <2> QED BY ONLY <1>1, <2>1, <2>2, <2>3
<1> QED BY <1>2, <1>3

\* A plan is as cheap as another in omitted newlines, and then in extra parts.
Cheaper(h, c) ==
    /\ h.cost[1] \in Nat /\ h.cost[2] \in Nat
    /\ h.cost[1] < c.cost[1] \/ (h.cost[1] = c.cost[1] /\ h.cost[2] <= c.cost[2])

\* The best plan from a block on is no dearer than any that is compared.
LEMMA BestIsCheapest ==
    ASSUME NEW C, NEW blocks, NEW n \in Nat, n = Len(blocks), NEW maximum \in Nat \ {0},
           NEW i \in 1 .. n - 1, Visible(blocks[i], C), NEW p \in 0 .. 2,
           NEW after, GoodBest(after, blocks, maximum, i + 1),
           NEW d \in Decisions, HostPossible(blocks[i], p, Carried(d), maximum),
           NEW g \in after[Passed(d)], NEW c, c = Planned(d, g, blocks, maximum, i, p)
    PROVE  \E h \in BestFrom(after, blocks, maximum, i)[p] : Cheaper(h, c)
<1>1. PICK plans : plans = PlansFor(after, blocks, maximum, i, p)
  OBVIOUS
<1>2. /\ \A x \in plans : x \in Plans /\ KeyOf(x) \in Keys
                          /\ Legal(blocks, maximum, i, p, x.decisions)
      /\ plans # {} => Least(plans) # {}
  BY ONLY <1>1, ComparedPlans, n \in Nat, n = Len(blocks), maximum \in Nat \ {0},
          i \in 1 .. n - 1, Visible(blocks[i], C), p \in 0 .. 2,
          GoodBest(after, blocks, maximum, i + 1)
<1>3. \E e \in Decisions : \E f \in after[Passed(e)] :
         /\ HostPossible(blocks[i], p, Carried(e), maximum)
         /\ c = Planned(e, f, blocks, maximum, i, p)
  OBVIOUS
<1>4. c \in plans
  BY ONLY <1>1, <1>3, PlansForAre
<1>5. PICK h \in Least(plans) : TRUE
  BY <1>2, <1>4
<1>6. h \in plans /\ (h = c \/ Less(KeyOf(h), KeyOf(c)))
  BY ONLY <1>4, <1>5 DEF Least
<1>7. BestFrom(after, blocks, maximum, i)[p] = Least(plans)
  <2>1. i # Len(blocks)
    OBVIOUS
  <2> QED BY ONLY <1>1, <2>1, BestFromIs, p \in 0 .. 2
<1>8. PICK a \in Keys, b \in Keys : a = KeyOf(h) /\ b = KeyOf(c)
  BY <1>2, <1>4, <1>6
<1>9. a[1] < b[1] \/ (a[1] = b[1] /\ a[2] <= b[2])
  BY ONLY <1>6, <1>8, LessIsCheaper
<1>10. /\ a[1] = h.cost[1] /\ a[2] = h.cost[2]
       /\ b[1] = c.cost[1] /\ b[2] = c.cost[2]
  BY ONLY <1>8 DEF KeyOf
<1>11. a[1] \in Nat /\ a[2] \in Nat
  BY ONLY <1>8 DEF Keys
<1> QED BY ONLY <1>5, <1>7, <1>9, <1>10, <1>11 DEF Cheaper

\* Two lists, one after the other, have what each has.
LEMMA JoinHas ==
    ASSUME NEW T, NEW s \in Seq(T), NEW t \in Seq(T), NEW both, both = s \o t
    PROVE  both \in Seq(T) /\ Has(both, s) /\ Has(both, t)
<1>1. /\ both \in Seq(T) /\ Len(both) = Len(s) + Len(t) /\ Len(s) \in Nat /\ Len(t) \in Nat
      /\ \A i \in 1 .. Len(s) : both[i] = s[i]
      /\ \A i \in 1 .. Len(t) : both[Len(s) + i] = t[i]
  BY ONLY JoinIsSeq, s \in Seq(T), t \in Seq(T), both = s \o t
<1>2. PICK m \in Nat, n \in Nat : m = Len(s) /\ n = Len(t) /\ Len(both) = m + n
  BY <1>1
<1>3. \A i \in 1 .. m : i \in 1 .. m + n
  BY ONLY m \in Nat, n \in Nat
<1>4. \A i \in 1 .. n : m + i \in 1 .. m + n
  BY ONLY m \in Nat, n \in Nat
<1>5. Has(both, s)
  BY <1>1, <1>2, <1>3 DEF Has
<1>6. Has(both, t)
  BY <1>1, <1>2, <1>4 DEF Has
<1> QED BY <1>1, <1>5, <1>6

\* A unit with a part of a text.
UnitWith(unit, C, M, pm, text, start, end) ==
    /\ unit \in Units(C, M, pm)
    /\ \A k \in start + 1 .. end : \E j \in 1 .. Len(unit.source.text) :
          unit.source.text[j] = text[k]

\* A slice that is to be split, or is short enough.
LEMMA SlicedUnit ==
    ASSUME NEW C, Newline \in C, NEW M, NEW pm, NEW source \in Sources(C, M), NEW start \in Nat,
           NEW end \in Nat, start <= end, end <= Len(source.text),
           NEW prefix \in Nat, NEW suffix \in Nat, NEW unit,
           \/ unit = ToSplit(SourceSlice(source, start, end, prefix, suffix))
           \/ /\ unit = Whole(SourceSlice(source, start, end, prefix, suffix))
              /\ prefix + (end - start) + suffix <= pm
    PROVE  UnitWith(unit, C, M, pm, source.text, start, end)
<1>1. PICK part : part = SourceSlice(source, start, end, prefix, suffix)
  OBVIOUS
<1>2. SlicedFrom(part, C, M, source, start, end, prefix, suffix)
  BY ONLY Newline \in C, source \in Sources(C, M), start \in Nat, end \in Nat, start <= end,
          end <= Len(source.text), prefix \in Nat, suffix \in Nat, <1>1, SliceSource
<1>3. part \in Sources(C, M) /\ Len(part.text) = prefix + (end - start) + suffix
  BY <1>2 DEF SlicedFrom
<1>4. unit = ToSplit(part) \/ (unit = Whole(part) /\ prefix + (end - start) + suffix <= pm)
  BY <1>1
<1>5. unit.source = part /\ unit \in Units(C, M, pm)
  <2>1. CASE unit = ToSplit(part)
    BY <1>3, <2>1 DEF ToSplit, Units
  <2>2. CASE unit = Whole(part) /\ prefix + (end - start) + suffix <= pm
    <3>1. part \in Fitting(C, M, pm)
      BY <1>3, <2>2 DEF Fitting
    <3> QED BY <1>3, <2>2, <3>1 DEF Whole, Units
  <2> QED BY <1>4, <2>1, <2>2
<1>6. ASSUME NEW k \in start + 1 .. end
      PROVE  \E j \in 1 .. Len(unit.source.text) : unit.source.text[j] = source.text[k]
  <2>1. PICK h \in 1 .. end - start : h = k - start /\ start + h = k
    OBVIOUS
  <2>2. part.text[prefix + h] = source.text[start + h]
    BY <1>2, <2>1 DEF SlicedFrom
  <2>3. prefix + h \in 1 .. prefix + (end - start) + suffix
    BY <2>1
  <2> QED BY <1>3, <1>5, <2>1, <2>2, <2>3
<1> QED BY <1>5, <1>6 DEF UnitWith

\* Units with the whole text of a block.
UnitsOf(units, block, C, M, pm) ==
    /\ units \in Seq(Units(C, M, pm))
    /\ \A k \in 1 .. Len(block.text) : \E i \in 1 .. Len(units) :
          \E j \in 1 .. Len(units[i].source.text) : units[i].source.text[j] = block.text[k]

\* One unit with the whole text.
LEMMA OneUnit ==
    ASSUME NEW C, NEW M, NEW pm, NEW block, NEW n, n = Len(block.text), NEW unit,
           UnitWith(unit, C, M, pm, block.text, 0, n), NEW units, units = <<unit>>
    PROVE  UnitsOf(units, block, C, M, pm)
<1>1. unit \in Units(C, M, pm)
  BY DEF UnitWith
<1>2. units \in Seq(Units(C, M, pm)) /\ Len(units) = 1 /\ units[1] = unit
  BY ONLY <1>1, OneIsSeq, units = <<unit>>
<1>3. \A k \in 1 .. n : \E j \in 1 .. Len(unit.source.text) : unit.source.text[j] = block.text[k]
  BY DEF UnitWith
<1> QED BY <1>2, <1>3 DEF UnitsOf

\* A prefix and a suffix that fit.
Cuts(prefixEnd, suffixStart, length, maximum, prefix, suffix) ==
    /\ suffixStart \in 0 .. length /\ prefixEnd \in 0 .. suffixStart
    /\ suffix = 0 => suffixStart = length
    /\ prefix = 0 => prefixEnd = 0
    /\ suffix # 0 => length - suffixStart + suffix <= maximum
    /\ prefix # 0 => prefix + prefixEnd <= maximum

\* Where the text of the prefix ends and that of the suffix starts.
LEMMA CutsOf ==
    ASSUME NEW length \in Nat, NEW first \in 0 .. length - 1, NEW last \in 0 .. length - 1,
           first <= last,
           NEW maximum \in Nat, NEW prefix \in Nat, NEW suffix \in Nat,
           prefix # 0 => prefix + first + 1 <= maximum,
           suffix # 0 => length - last + suffix <= maximum,
           NEW suffixStart, suffixStart = (IF suffix # 0 THEN last ELSE length),
           NEW prefixEnd,
           prefixEnd = IF prefix = 0 THEN 0
                       ELSE Min({suffixStart, Max({first + 1, Min({length, maximum - prefix})})})
    PROVE  Cuts(prefixEnd, suffixStart, length, maximum, prefix, suffix)
<1>1. suffixStart \in 0 .. length
  OBVIOUS
<1>2. CASE prefix = 0
  BY <1>1, <1>2 DEF Cuts
<1>3. CASE prefix # 0
  <2>1. PICK room \in Nat : room = maximum - prefix /\ first + 1 <= room
    BY <1>3
  <2>2. PICK b : b = Min({length, room})
    OBVIOUS
  <2>3. b \in 0 .. length /\ b <= room
    BY ONLY <2>1, <2>2, MinOfTwo, length \in Nat
  <2>4. PICK c : c = Max({first + 1, b})
    OBVIOUS
  <2>5. c \in 0 .. length /\ c <= room
    BY <2>1, <2>3, <2>4, MaxOfTwo
  <2>6. prefixEnd = Min({suffixStart, c})
    BY <1>3, <2>1, <2>2, <2>4
  <2>7. prefixEnd \in 0 .. suffixStart /\ prefixEnd <= c
    BY ONLY <1>1, <2>5, <2>6, MinOfTwo, length \in Nat
  <2>8. prefix + prefixEnd <= maximum
    BY <1>1, <2>1, <2>5, <2>7
  <2> QED BY <1>1, <2>7, <2>8, <1>3 DEF Cuts
<1> QED BY <1>2, <1>3

\* The units of a block that can host the newlines hung on it.
LEMMA FallbackUnitsAre ==
    ASSUME NEW C, Newline \in C, NEW M, NEW pm \in Nat \ {0}, NEW block, Visible(block, C),
           block.meta \in M, NEW prefix \in 0 .. 2, NEW suffix \in 0 .. 2,
           CanHost(block, prefix, suffix, pm),
           NEW units, units = FallbackUnits(block, prefix, suffix, pm)
    PROVE  UnitsOf(units, block, C, M, pm)
<1>1. PICK text : text = block.text
  OBVIOUS
<1>2. PICK length \in Nat : length = Len(text) /\ length = Len(block.text)
  BY <1>1 DEF Visible
<1>3. PICK solid : solid = {i \in 0 .. Len(block.text) - 1 : ~IsSpace(Class(block.text, i))}
  OBVIOUS
<1>4. PICK source : source = SourceForBlock(block)
  OBVIOUS
<1>5. source \in Sources(C, M) /\ source.text = text
  <2>1. block.text \in Seq(C)
    BY DEF Visible
  <2>2. SourceForBlock(block) \in Sources(C, M) /\ SourceForBlock(block).text = block.text
    BY ONLY <2>1, block.meta \in M, BlockSource
  <2> QED BY <1>1, <1>4, <2>2
<1>6. /\ solid # {} /\ solid \in SUBSET Nat
      /\ Min(solid) \in solid /\ Max(solid) \in solid
      /\ \A i \in solid : Min(solid) <= i /\ i <= Max(solid)
  BY <1>3, SolidIs, SMTT(30)
<1>7. PICK first, last : first = Min(solid) /\ last = Max(solid)
  OBVIOUS
<1>8. first \in 0 .. length - 1 /\ last \in 0 .. length - 1 /\ first <= last
  <2>1. first \in solid /\ last \in solid /\ first <= last
    BY <1>6, <1>7
  <2>2. \A i \in solid : i \in 0 .. length - 1
    BY <1>2, <1>3
  <2> QED BY <2>1, <2>2
<1>9. /\ prefix # 0 => prefix + first + 1 <= pm
      /\ suffix # 0 => length - last + suffix <= pm
  BY <1>2, <1>3, <1>7 DEF CanHost
<1>10. PICK suffixStart : suffixStart = IF suffix # 0 THEN last ELSE length
  OBVIOUS
<1>11. PICK prefixEnd : prefixEnd = IF prefix = 0 THEN 0
                     ELSE Min({suffixStart, Max({first + 1, Min({length, pm - prefix})})})
  OBVIOUS
<1>12. /\ suffixStart \in 0 .. length /\ prefixEnd \in 0 .. suffixStart
       /\ suffix = 0 => suffixStart = length
       /\ prefix = 0 => prefixEnd = 0
       /\ suffix # 0 => length - suffixStart + suffix <= pm
       /\ prefix # 0 => prefix + prefixEnd <= pm
  <2>1. prefix \in Nat /\ suffix \in Nat /\ pm \in Nat /\ length \in Nat
    OBVIOUS
  <2>2. Cuts(prefixEnd, suffixStart, length, pm, prefix, suffix)
    BY ONLY <2>1, <1>8, <1>9, <1>10, <1>11, CutsOf
  <2> QED BY ONLY <2>2 DEF Cuts
<1>13. CASE length + prefix + suffix <= pm
  <2>1. PICK unit : unit = Whole(SourceSlice(source, 0, length, prefix, suffix))
    OBVIOUS
  <2>2. units = <<unit>>
    BY <1>2, <1>4, <1>13, <2>1 DEF FallbackUnits
  <2>3. prefix + (length - 0) + suffix <= pm /\ prefix \in Nat /\ suffix \in Nat /\ 0 \in Nat
        /\ 0 <= length /\ length <= Len(source.text)
    <3>1. Len(source.text) = length
      BY ONLY <1>2, <1>5
    <3> QED BY ONLY <1>13, <3>1, length \in Nat, prefix \in 0 .. 2, suffix \in 0 .. 2
  <2>4. UnitWith(unit, C, M, pm, source.text, 0, length)
    BY ONLY Newline \in C, <1>5, <2>1, <2>3, SlicedUnit, length \in Nat
  <2>5. UnitWith(unit, C, M, pm, block.text, 0, length)
    BY ONLY <1>1, <1>5, <2>4
  <2> QED BY ONLY <1>2, <2>2, <2>5, OneUnit
<1>14. CASE ~(length + prefix + suffix <= pm)
  <2>1. PICK ua : ua = Whole(SourceSlice(source, 0, prefixEnd, prefix, 0))
    OBVIOUS
  <2>2. PICK ub : ub = ToSplit(SourceSlice(source, prefixEnd, suffixStart, 0, 0))
    OBVIOUS
  <2>3. PICK uc : uc = Whole(SourceSlice(source, suffixStart, length, 0, suffix))
    OBVIOUS
  <2>4. PICK as : as = IF prefix = 0 THEN <<>> ELSE <<ua>>
    OBVIOUS
  <2>5. PICK bs : bs = IF prefixEnd >= suffixStart THEN <<>> ELSE <<ub>>
    OBVIOUS
  <2>6. PICK cs : cs = IF suffix = 0 THEN <<>> ELSE <<uc>>
    OBVIOUS
  <2>7. units = as \o bs \o cs
    <3> QED BY <1>2, <1>3, <1>4, <1>7, <1>10, <1>11, <1>14, <2>1, <2>2, <2>3, <2>4, <2>5, <2>6
            DEF FallbackUnits
  <2>8. /\ prefixEnd \in Nat /\ suffixStart \in Nat /\ prefix \in Nat /\ suffix \in Nat
        /\ prefixEnd <= suffixStart /\ suffixStart <= length /\ prefixEnd <= length
        /\ length <= Len(source.text) /\ prefixEnd <= Len(source.text)
        /\ suffixStart <= Len(source.text) /\ 0 \in Nat /\ 0 <= prefixEnd
    <3>1. Len(source.text) = length
      BY ONLY <1>2, <1>5
    <3> QED BY ONLY <1>12, <3>1, length \in Nat, prefix \in 0 .. 2, suffix \in 0 .. 2
  <2>9. prefix # 0 => UnitWith(ua, C, M, pm, source.text, 0, prefixEnd)
    <3>1. prefix # 0 => prefix + (prefixEnd - 0) + 0 <= pm
      BY <1>12, <2>8
    <3> QED BY ONLY Newline \in C, <1>5, <2>1, <2>8, <3>1, SlicedUnit
  <2>10. UnitWith(ub, C, M, pm, source.text, prefixEnd, suffixStart)
    BY ONLY Newline \in C, <1>5, <2>2, <2>8, SlicedUnit
  <2>11. suffix # 0 => UnitWith(uc, C, M, pm, source.text, suffixStart, length)
    <3>1. suffix # 0 => 0 + (length - suffixStart) + suffix <= pm
      BY <1>12, <2>8
    <3> QED BY ONLY Newline \in C, <1>5, <2>3, <2>8, <3>1, SlicedUnit, length \in Nat
  <2>12. PICK U : U = Units(C, M, pm)
    OBVIOUS
  <2>13. (prefix # 0 => ua \in U) /\ ub \in U /\ (suffix # 0 => uc \in U)
    BY <2>9, <2>10, <2>11, <2>12 DEF UnitWith
  <2>14. <<>> \in Seq(U) /\ \A u \in U : <<u>> \in Seq(U)
    BY OneIsSeq
  <2>15. as \in Seq(U) /\ bs \in Seq(U) /\ cs \in Seq(U)
    BY ONLY <2>4, <2>5, <2>6, <2>13, <2>14
  <2>16. PICK front : front = as \o bs
    OBVIOUS
  <2>17. front \in Seq(U) /\ Has(front, as) /\ Has(front, bs)
    BY ONLY <2>15, <2>16, JoinHas
  <2>18. units \in Seq(U) /\ Has(units, front) /\ Has(units, cs)
    <3>1. units = front \o cs
      BY <2>7, <2>16
    <3> QED BY ONLY <2>15, <2>17, <3>1, JoinHas
  <2>19. Has(units, as) /\ Has(units, bs)
    BY ONLY <2>17, <2>18, HasIs
  <2>20. ASSUME NEW k \in 1 .. length
         PROVE  \E i \in 1 .. Len(units) : \E j \in 1 .. Len(units[i].source.text) :
                   units[i].source.text[j] = text[k]
    <3>1. CASE k \in 1 .. prefixEnd
      <4>1. prefix # 0
        BY <1>12, <3>1
      <4>2. as = <<ua>> /\ Len(as) = 1 /\ as[1] = ua
        BY <2>4, <4>1
      <4>3. PICK i \in 1 .. Len(units) : units[i] = ua
        BY <2>19, <4>2 DEF Has
      <4>4. \E j \in 1 .. Len(ua.source.text) : ua.source.text[j] = text[k]
        BY <1>5, <2>9, <3>1, <4>1 DEF UnitWith
      <4> QED BY <4>3, <4>4
    <3>2. CASE k \in prefixEnd + 1 .. suffixStart
      <4>1. ~(prefixEnd >= suffixStart)
        BY <2>8, <3>2
      <4>2. bs = <<ub>> /\ Len(bs) = 1 /\ bs[1] = ub
        BY <2>5, <4>1
      <4>3. PICK i \in 1 .. Len(units) : units[i] = ub
        BY <2>19, <4>2 DEF Has
      <4>4. \E j \in 1 .. Len(ub.source.text) : ub.source.text[j] = text[k]
        BY <1>5, <2>10, <3>2 DEF UnitWith
      <4> QED BY <4>3, <4>4
    <3>3. CASE k \in suffixStart + 1 .. length
      <4>1. suffix # 0
        BY <1>12, <3>3
      <4>2. cs = <<uc>> /\ Len(cs) = 1 /\ cs[1] = uc
        BY <2>6, <4>1
      <4>3. PICK i \in 1 .. Len(units) : units[i] = uc
        BY <2>18, <4>2 DEF Has
      <4>4. \E j \in 1 .. Len(uc.source.text) : uc.source.text[j] = text[k]
        BY <1>5, <2>11, <3>3, <4>1 DEF UnitWith
      <4> QED BY <4>3, <4>4
    <3> QED BY <2>8, <3>1, <3>2, <3>3
  <2> QED BY <1>1, <1>2, <2>12, <2>18, <2>20 DEF UnitsOf
<1> QED BY <1>13, <1>14

\* Units with the whole text of every block.
Covers(units, blocks, C, M, pm) ==
    /\ units \in Seq(Units(C, M, pm))
    /\ \A i \in 1 .. Len(blocks) : \A k \in 1 .. Len(blocks[i].text) :
          \E j \in 1 .. Len(units) : \E h \in 1 .. Len(units[j].source.text) :
             units[j].source.text[h] = blocks[i].text[k]

\* The newlines the decisions hang on a block, and the units it gives with them.
HungAfter(ds, i, n) == IF i = n \/ ds[i] = -1 THEN 0 ELSE ds[i]
HungBefore(ds, i) == IF i = 1 \/ ds[i - 1] = -1 THEN 0 ELSE 2 - ds[i - 1]
BlockUnits(blocks, ds, maximum, i) ==
    IF Protected(blocks[i], maximum) THEN <<Whole(SourceForBlock(blocks[i]))>>
    ELSE FallbackUnits(blocks[i], HungBefore(ds, i), HungAfter(ds, i, Len(blocks)), maximum)

\* The units of a block show its text between its delimiters.
LEMMA BlockUnitsAre ==
    ASSUME NEW C, Newline \in C, NEW M, NEW pm \in Nat \ {0}, NEW blocks, NEW n \in Nat \ {0},
           n = Len(blocks), NEW ds, Legal(blocks, pm, 1, 0, ds), NEW i \in 1 .. n,
           Visible(blocks[i], C), blocks[i].meta \in M,
           NEW units, units = BlockUnits(blocks, ds, pm, i)
    PROVE  UnitsOf(units, blocks[i], C, M, pm)
<1>1. PICK block : block = blocks[i]
  OBVIOUS
<1>2. PICK prefix : prefix = HungBefore(ds, i)
  OBVIOUS
<1>3. PICK suffix : suffix = HungAfter(ds, i, n)
  OBVIOUS
<1>4. ds \in Seq(Decisions) /\ Len(ds) = n - 1
  BY DEF Legal
<1>5. \A k \in 1 .. n - 1 : ds[k] \in -1 .. 2
  BY <1>4 DEF Decisions
<1>6. prefix \in 0 .. 2 /\ prefix = IF i = 1 THEN 0 ELSE Passed(ds[i - 1])
  <2>1. i # 1 => i - 1 \in 1 .. n - 1
    OBVIOUS
  <2> QED BY <1>2, <1>5, <2>1 DEF HungBefore, Passed
<1>7. suffix \in 0 .. 2 /\ suffix = IF i = n THEN 0 ELSE Carried(ds[i])
  <2>1. i # n => i \in 1 .. n - 1
    OBVIOUS
  <2> QED BY <1>3, <1>5, <2>1 DEF HungAfter, Carried
<1>8. HostPossible(block, prefix, suffix, pm)
  <2>1. i - 1 + 1 = i
    OBVIOUS
  <2>2. HostPossible(blocks[i], IF i = 1 THEN 0 ELSE Passed(ds[i - 1]),
                     IF i = n THEN 0 ELSE Carried(ds[i - 1 + 1]), pm)
    BY DEF Legal
  <2> QED BY ONLY <1>1, <1>6, <1>7, <2>1, <2>2
<1>9. Visible(block, C) /\ block.meta \in M /\ block.text \in Seq(C)
  BY <1>1 DEF Visible
<1>10. CASE Protected(block, pm)
  <2>1. PICK source : source = SourceForBlock(block)
    OBVIOUS
  <2>2. source \in Sources(C, M) /\ source.text = block.text
    BY ONLY <1>9, <2>1, BlockSource
  <2>3. PICK length \in Nat : length = Len(block.text) /\ length <= pm
    BY <1>9, <1>10 DEF Protected
  <2>4. PICK unit : unit = Whole(source)
    OBVIOUS
  <2>5. unit \in Units(C, M, pm) /\ unit.source = source
    BY <2>2, <2>3, <2>4 DEF Whole, Units, Fitting
  <2>6. UnitWith(unit, C, M, pm, block.text, 0, length)
    <3>1. \A k \in 0 + 1 .. length : k \in 1 .. Len(unit.source.text)
                                     /\ unit.source.text[k] = block.text[k]
      BY <2>2, <2>3, <2>5
    <3> QED BY <2>5, <3>1 DEF UnitWith
  <2>7. units = <<unit>>
    BY <1>1, <1>10, <2>1, <2>4 DEF BlockUnits
  <2> QED BY <1>1, <2>3, <2>6, <2>7, OneUnit
<1>11. CASE ~Protected(block, pm)
  <2>1. CanHost(block, prefix, suffix, pm)
    BY <1>8, <1>11 DEF HostPossible
  <2>2. units = FallbackUnits(block, prefix, suffix, pm)
    BY <1>1, <1>2, <1>3, <1>11 DEF BlockUnits
  <2>3. UnitsOf(units, block, C, M, pm)
    BY ONLY Newline \in C, pm \in Nat \ {0}, <1>6, <1>7, <1>9, <2>1, <2>2, FallbackUnitsAre
  <2> QED BY <1>1, <2>3
<1> QED BY <1>10, <1>11

\* The parents of a document that is too long hold all its text.
LEMMA FallbackParentsAre ==
    ASSUME NEW C, Newline \in C, NEW M, NEW pm \in Nat \ {0}, NEW blocks, NEW n \in Nat \ {0},
           n = Len(blocks), DOMAIN blocks = 1 .. n,
           \A k \in 1 .. n : Visible(blocks[k], C) /\ blocks[k].meta \in M,
           NEW units, units = FallbackParents(blocks, pm)
    PROVE  Covers(units, blocks, C, M, pm)
<1>1. PICK ds : ds = Allocation(blocks, pm).decisions
  OBVIOUS
<1>2. Legal(blocks, pm, 1, 0, ds)
  BY <1>1, AllocationIs
<1>3. PICK parts : parts = [i \in DOMAIN blocks |-> BlockUnits(blocks, ds, pm, i)]
  OBVIOUS
<1>4. units = FlattenSeq(parts)
  BY <1>1, <1>3 DEF FallbackParents, BlockUnits, HungBefore, HungAfter
<1>5. PICK U : U = Units(C, M, pm)
  OBVIOUS
<1>6. ASSUME NEW i \in 1 .. n
      PROVE  UnitsOf(parts[i], blocks[i], C, M, pm)
  <2>1. parts[i] = BlockUnits(blocks, ds, pm, i)
    BY <1>3
  <2> QED BY <1>2, <2>1, BlockUnitsAre
<1>7. \A i \in 1 .. n : parts[i] \in Seq(U)
  BY <1>5, <1>6 DEF UnitsOf
<1>8. PICK SU : SU = Seq(U)
  OBVIOUS
<1>9. parts \in Seq(SU) /\ Len(parts) = n
  <2>1. \A i \in 1 .. n : parts[i] \in SU
    BY <1>7, <1>8
  <2>2. DOMAIN parts = 1 .. n /\ parts = [i \in DOMAIN parts |-> parts[i]]
    BY <1>3
  <2> QED BY ONLY <2>1, <2>2, ListIsSeq, n \in Nat \ {0}
<1>10. parts \in Seq(Seq(U))
  BY ONLY <1>8, <1>9
<1>11. /\ units \in Seq(U)
       /\ \A i \in 1 .. Len(parts) : \A k \in 1 .. Len(parts[i]) :
             \E j \in 1 .. Len(units) : units[j] = parts[i][k]
  <2>1. /\ FlattenSeq(parts) \in Seq(U)
        /\ \A i \in 1 .. Len(parts) : \A k \in 1 .. Len(parts[i]) :
              \E j \in 1 .. Len(FlattenSeq(parts)) : FlattenSeq(parts)[j] = parts[i][k]
    BY ONLY <1>10, FlattenIs
  <2> QED BY ONLY <1>4, <2>1
<1>12. ASSUME NEW i \in 1 .. n, NEW k \in 1 .. Len(blocks[i].text)
       PROVE  \E j \in 1 .. Len(units) : \E h \in 1 .. Len(units[j].source.text) :
                 units[j].source.text[h] = blocks[i].text[k]
  <2>1. PICK m \in 1 .. Len(parts[i]) : \E h \in 1 .. Len(parts[i][m].source.text) :
           parts[i][m].source.text[h] = blocks[i].text[k]
    BY <1>6 DEF UnitsOf
  <2>2. PICK j \in 1 .. Len(units) : units[j] = parts[i][m]
    BY <1>9, <1>11
  <2> QED BY <2>1, <2>2
<1> QED BY <1>5, <1>11, <1>12 DEF Covers

\* Sources that are all to be split.
LEMMA AllToSplit ==
    ASSUME NEW C, NEW M, NEW pm, NEW sources \in Seq(Sources(C, M)), NEW n \in Nat, NEW blocks,
           n = Len(blocks),
           \A i \in 1 .. n : \E j \in 1 .. Len(sources) : Has(sources[j].text, blocks[i].text),
           NEW units, units = [i \in DOMAIN sources |-> ToSplit(sources[i])]
    PROVE  Covers(units, blocks, C, M, pm)
<1>1. PICK m \in Nat : m = Len(sources) /\ DOMAIN sources = 1 .. m
  OBVIOUS
<1>2. PICK U : U = Units(C, M, pm)
  OBVIOUS
<1>3. \A i \in 1 .. m : sources[i] \in Sources(C, M) /\ units[i] = ToSplit(sources[i])
  BY <1>1
<1>4. \A s \in Sources(C, M) : ToSplit(s).source = s /\ ToSplit(s) \in U
  BY <1>2 DEF ToSplit, Units
<1>5. \A i \in 1 .. m : units[i].source = sources[i] /\ units[i] \in U
  BY <1>3, <1>4
<1>6. units \in Seq(U) /\ Len(units) = m
  <2>1. DOMAIN units = 1 .. m /\ units = [i \in DOMAIN units |-> units[i]]
    BY <1>1
  <2> QED BY ONLY <1>5, <2>1, ListIsSeq, m \in Nat
<1>7. ASSUME NEW i \in 1 .. n, NEW k \in 1 .. Len(blocks[i].text)
      PROVE  \E j \in 1 .. Len(units) : \E h \in 1 .. Len(units[j].source.text) :
                 units[j].source.text[h] = blocks[i].text[k]
  <2>1. PICK j \in 1 .. m : Has(sources[j].text, blocks[i].text)
    BY <1>1
  <2>2. PICK h \in 1 .. Len(sources[j].text) : sources[j].text[h] = blocks[i].text[k]
    BY <2>1 DEF Has
  <2> QED BY <1>5, <1>6, <2>1, <2>2, ZenonT(30)
<1> QED BY <1>2, <1>6, <1>7 DEF Covers

\* The parents' units hold all the text of the document, whatever the mode.
LEMMA ParentUnitsAre ==
    ASSUME NEW C, Newline \in C, NEW M, NEW B, Blocky(B, C, M), NEW blocks \in Seq(B),
           blocks # <<>>, \A i \in 1 .. Len(blocks) : ~Blank(blocks[i].text),
           NEW config, config.parent_max \in Nat \ {0}, NEW parsed,
           NEW units, units = ParentUnits(parsed, blocks, config)
    PROVE  Covers(units, blocks, C, M, config.parent_max)
<1>1. PICK pm \in Nat \ {0} : pm = config.parent_max
  OBVIOUS
<1>2. PICK n \in Nat \ {0} : n = Len(blocks) /\ DOMAIN blocks = 1 .. n
  OBVIOUS
<1>3. \A i \in 1 .. n : blocks[i].text \in Seq(C) /\ blocks[i].meta \in M
  BY <1>2 DEF Blocky
<1>4. CASE IsSpreadsheet(parsed, blocks)
  <2>1. PICK sources : sources = SpreadsheetParents(blocks)
    OBVIOUS
  <2>2. /\ sources \in Seq(Sources(C, M))
        /\ \A i \in 1 .. Len(blocks) : \E j \in 1 .. Len(sources) :
              Has(sources[j].text, blocks[i].text)
    BY <2>1, GroupedSources
  <2>3. units = [i \in DOMAIN sources |-> ToSplit(sources[i])]
    BY <1>4, <2>1 DEF ParentUnits
  <2> QED BY <1>2, <2>2, <2>3, AllToSplit
<1>5. CASE ~IsSpreadsheet(parsed, blocks) /\ TooLong(blocks, config)
  <2>1. units = FallbackParents(blocks, pm)
    BY <1>1, <1>5 DEF ParentUnits
  <2>2. \A k \in 1 .. n : Visible(blocks[k], C) /\ blocks[k].meta \in M
    BY <1>2, <1>3 DEF Visible
  <2>3. Covers(units, blocks, C, M, pm)
    BY ONLY Newline \in C, pm \in Nat \ {0}, <1>2, <2>1, <2>2, FallbackParentsAre
  <2> QED BY <1>1, <2>3
<1>6. CASE ~IsSpreadsheet(parsed, blocks) /\ ~TooLong(blocks, config)
           /\ config.parent_mode = "full_document"
  <2>1. PICK whole : whole = CombineBlocks(blocks, 2)
    OBVIOUS
  <2>2. whole \in Sources(C, M) /\ \A i \in 1 .. Len(blocks) : Has(whole.text, blocks[i].text)
    BY <2>1, CombineIs
  <2>3. PICK sources : sources = <<whole>>
    OBVIOUS
  <2>4. sources \in Seq(Sources(C, M)) /\ Len(sources) = 1 /\ sources[1] = whole
    BY ONLY <2>2, <2>3, OneIsSeq
  <2>5. units = [i \in DOMAIN sources |-> ToSplit(sources[i])]
    <3>1. units = <<ToSplit(whole)>>
      BY <1>6, <2>1 DEF ParentUnits
    <3> QED BY <2>3, <3>1
  <2>6. \A i \in 1 .. n : \E j \in 1 .. Len(sources) : Has(sources[j].text, blocks[i].text)
    BY <1>2, <2>2, <2>4
  <2> QED BY <1>2, <2>4, <2>5, <2>6, AllToSplit
<1>7. CASE ~IsSpreadsheet(parsed, blocks) /\ ~TooLong(blocks, config)
           /\ config.parent_mode # "full_document"
  <2>1. PICK sources : sources = [i \in DOMAIN blocks |-> SourceForBlock(blocks[i])]
    OBVIOUS
  <2>2. \A i \in 1 .. n : sources[i] \in Sources(C, M) /\ sources[i].text = blocks[i].text
    <3>1. \A i \in 1 .. n : sources[i] = SourceForBlock(blocks[i])
      BY <1>2, <2>1
    <3> QED BY ONLY <1>3, <3>1, BlockSource
  <2>3. sources \in Seq(Sources(C, M)) /\ Len(sources) = n
    <3>1. DOMAIN sources = 1 .. n /\ sources = [i \in DOMAIN sources |-> sources[i]]
      BY <1>2, <2>1
    <3>2. \A i \in 1 .. n : sources[i] \in Sources(C, M)
      BY <2>2
    <3> QED BY ONLY <3>1, <3>2, ListIsSeq, n \in Nat \ {0}
  <2>4. units = [i \in DOMAIN sources |-> ToSplit(sources[i])]
    BY <1>7, <2>1 DEF ParentUnits
  <2>5. \A i \in 1 .. n : \E j \in 1 .. Len(sources) : Has(sources[j].text, blocks[i].text)
    <3>1. \A i \in 1 .. n : Has(sources[i].text, blocks[i].text)
      BY <2>2, HasItself
    <3> QED BY <2>3, <3>1
  <2> QED BY <1>2, <2>3, <2>4, <2>5, AllToSplit
<1> QED BY <1>4, <1>5, <1>6, <1>7

\* Parents and children show every visible character of every block.
LEMMA ParentChildIs ==
    ASSUME NEW C, Newline \in C, NEW M, NEW X, NEW config, FamilyConfigured(config, X),
           NEW S, S = FamilySegments(C, M, config),
           NEW B, Blocky(B, C, M), NEW blocks \in Seq(B), blocks # <<>>,
           \A i \in 1 .. Len(blocks) : ~Blank(blocks[i].text), NEW parsed,
           NEW work, work = ParentChild(parsed, blocks, config)
    PROVE  ShowsAll(S, work, blocks)
<1>1. PICK units : units = ParentUnits(parsed, blocks, config)
  OBVIOUS
<1>2. PICK pm : pm = config.parent_max /\ pm \in Nat \ {0}
  BY DEF FamilyConfigured
<1>3. Covers(units, blocks, C, M, pm)
  BY ONLY Newline \in C, Blocky(B, C, M), blocks \in Seq(B), blocks # <<>>,
          \A i \in 1 .. Len(blocks) : ~Blank(blocks[i].text), <1>1, <1>2, ParentUnitsAre
<1>4. units \in Seq(Units(C, M, pm))
  BY <1>3 DEF Covers
<1>5. ParentTrace(S, parsed, blocks, config)
  <2>1. ParentUnits(parsed, blocks, config) \in Seq(Units(C, M, config.parent_max))
    BY <1>1, <1>2, <1>4
  <2> QED BY ONLY Newline \in C, FamilyConfigured(config, X), S = FamilySegments(C, M, config),
                  <2>1, ParentSteps
<1>6. PICK n \in Nat : n = Len(units)
  BY <1>4
<1>7. PICK g : /\ g[0] = NoWork /\ g[n] = work
               /\ \A i \in 0 .. n : g[i] \in Works(S)
               /\ \A i \in 1 .. n : g[i - 1] \in Works(S) /\
                     g[i] = EmitUnit(g[i - 1], units[i], config, IsSpreadsheet(parsed, blocks))
  BY <1>1, <1>5, <1>6 DEF ParentTrace
<1>8. PICK s : s = [i \in 1 .. n |-> units[i].source]
  OBVIOUS
<1>9. ASSUME NEW i \in 1 .. n
      PROVE  TextEmitted(S, g[i - 1], g[i], s[i])
  <2>1. PICK unit, old, next : unit = units[i] /\ old = g[i - 1] /\ next = g[i]
    OBVIOUS
  <2>2. PICK sheet : sheet = IsSpreadsheet(parsed, blocks)
    OBVIOUS
  <2>3. unit \in Units(C, M, config.parent_max) /\ old \in Works(S)
        /\ next = EmitUnit(old, unit, config, sheet)
    BY <1>2, <1>4, <1>6, <1>7, <2>1, <2>2
  <2>4. TextEmitted(S, old, next, unit.source)
    BY ONLY Newline \in C, FamilyConfigured(config, X), S = FamilySegments(C, M, config), <2>3,
            EmitUnitIs
  <2> QED BY <1>8, <2>1, <2>4
<1>10. g[n].over = FALSE =>
          \A i \in 1 .. n : \A k \in 1 .. Len(s[i].text) :
             ~IsSpace(s[i].text[k][1]) => Shown(g[n], s[i].text[k])
  BY ONLY n \in Nat, <1>7, <1>9, AllEmitted
<1>11. ASSUME work.over = FALSE, NEW i \in 1 .. Len(blocks), NEW k \in 1 .. Len(blocks[i].text),
              ~IsSpace(blocks[i].text[k][1])
       PROVE  Shown(work, blocks[i].text[k])
  <2>1. PICK j \in 1 .. n : \E h \in 1 .. Len(units[j].source.text) :
           units[j].source.text[h] = blocks[i].text[k]
    BY <1>3, <1>6 DEF Covers
  <2>2. PICK h \in 1 .. Len(s[j].text) : s[j].text[h] = blocks[i].text[k]
    BY <1>8, <2>1
  <2> QED BY <1>7, <1>10, <1>11, <2>2
<1>12. work \in Works(S)
  BY <1>6, <1>7
<1> QED BY <1>11, <1>12 DEF ShowsAll

\* The codes the segmenter gives.
SegmentErrors == {"none", "SEGMENTATION_LIMIT_EXCEEDED", "INVALID_SEGMENTATION_CONFIG"}
FallbackCodes == {"PARENT_FULL_DOCUMENT_FALLBACK", "SEGMENT_DELIMITER_OMITTED"}

\* A configuration whose fields are numbers and lists.
IsConfig(config, X) ==
    /\ config.mode \in {"general", "parent_child"}
    /\ config.max \in Int /\ config.overlap \in Int /\ config.separator \in Seq(X)
    /\ config.mode = "parent_child" => config.parent_max \in Int

\* The segments a configuration allows.
AllSegments(C, M, config) ==
    IF config.mode = "general" THEN SegmentsOver(C, M, {"general"}, 0, config.max)
    ELSE FamilySegments(C, M, config)

\* Segments of a text that show every visible character of the blocks.
SegmentsOf(segments, blocks, C, M, config) ==
    /\ segments \in Seq(AllSegments(C, M, config)) /\ Families(segments)
    /\ \A i \in 1 .. Len(blocks) : \A k \in 1 .. Len(blocks[i].text) :
          ~IsSpace(blocks[i].text[k][1]) =>
             \E j \in 1 .. Len(segments) :
                /\ segments[j].index_type # "parent"
                /\ \E h \in 1 .. Len(segments[j].content) :
                      segments[j].content[h] = blocks[i].text[k]

\* What the segmenter gives: an error, or segments that lose nothing.
SegmentedWell(result, blocks, C, M, config) ==
    /\ result.error \in SegmentErrors
    /\ result.segments \in Seq(AllSegments(C, M, config))
    /\ result.error = "none" => ValidConfig(config)
                                /\ SegmentsOf(result.segments, blocks, C, M, config)
    /\ result.warnings \in Seq([code : FallbackCodes, count : Nat])

\* The blocks the segmenter sees.
LEMMA VisibleBlocksAre ==
    ASSUME NEW B, NEW parsed, parsed.blocks \in Seq(B), NEW blocks, blocks = VisibleBlocks(parsed)
    PROVE  /\ blocks \in Seq(B)
           /\ \A i \in 1 .. Len(blocks) : ~Blank(blocks[i].text)
<1>1. PICK all : all = parsed.blocks
  OBVIOUS
<1>2. PICK positions : positions = {i \in DOMAIN all : ~Blank(all[i].text)}
  OBVIOUS
<1>3. blocks = Kept(all, positions)
  BY <1>1, <1>2 DEF VisibleBlocks
<1>4. all \in Seq(B)
  BY <1>1
<1>5. /\ Kept(all, positions) \in Seq(B)
      /\ \E at : PicksUpTo(at, Kept(all, positions), all, positions, Len(all))
  BY ONLY <1>4, KeptIs
<1>6. PICK at : PicksUpTo(at, blocks, all, positions, Len(all))
  BY <1>3, <1>5
<1>7. \A i \in 1 .. Len(blocks) : ~Blank(blocks[i].text)
  BY <1>2, <1>6 DEF PicksUpTo
<1> QED BY <1>3, <1>5, <1>7

\* The warnings of a document that was too long.
LEMMA FallbackWarningsAre ==
    ASSUME NEW C, NEW blocks, NEW n \in Nat \ {0}, n = Len(blocks),
           \A k \in 1 .. n : Visible(blocks[k], C), NEW config,
           config.mode # "general" => config.parent_max \in Nat \ {0}, NEW parsed,
           NEW list, list = FallbackWarnings(parsed, blocks, config)
    PROVE  list \in Seq([code : FallbackCodes, count : Nat])
<1>1. PICK W : W = [code : FallbackCodes, count : Nat]
  OBVIOUS
<1>2. CASE config.mode = "general" \/ IsSpreadsheet(parsed, blocks) \/ ~TooLong(blocks, config)
  <2>1. list = <<>>
    BY <1>2 DEF FallbackWarnings
  <2> QED BY <2>1
<1>3. CASE ~(config.mode = "general" \/ IsSpreadsheet(parsed, blocks) \/ ~TooLong(blocks, config))
  <2>1. PICK pm \in Nat \ {0} : pm = config.parent_max
    BY <1>3
  <2>2. PICK plan \in Plans : plan = Allocation(blocks, pm)
    BY AllocationIs
  <2>3. PICK omitted \in Nat : omitted = plan.cost[1]
    BY DEF Plans
  <2>4. PICK a : a = [code |-> "PARENT_FULL_DOCUMENT_FALLBACK", count |-> 1]
    OBVIOUS
  <2>5. PICK b : b = [code |-> "SEGMENT_DELIMITER_OMITTED", count |-> omitted]
    OBVIOUS
  <2>6. a \in W /\ b \in W
    BY <1>1, <2>4, <2>5 DEF FallbackCodes
  <2>7. PICK as, bs : as = <<a>> /\ bs = IF omitted = 0 THEN <<>> ELSE <<b>>
    OBVIOUS
  <2>8. as \in Seq(W) /\ <<b>> \in Seq(W)
    BY ONLY <2>6, <2>7, OneIsSeq
  <2>9. bs \in Seq(W)
    BY ONLY <2>7, <2>8
  <2>10. as \o bs \in Seq(W)
    BY ONLY <2>8, <2>9, JoinIsSeq
  <2>11. list = as \o bs
    BY <1>3, <2>1, <2>2, <2>3, <2>4, <2>5, <2>7 DEF FallbackWarnings
  <2> QED BY <1>1, <2>10, <2>11
<1> QED BY <1>2, <1>3

\* No segments.
LEMMA NoSegments ==
    ASSUME NEW C, NEW M, NEW config, NEW blocks, NEW code \in SegmentErrors,
           code = "none" => blocks = <<>> /\ ValidConfig(config), NEW result,
           result = [error |-> code, segments |-> <<>>, warnings |-> <<>>]
    PROVE  SegmentedWell(result, blocks, C, M, config)
<1>1. Families(<<>>)
  BY DEF Families
<1>2. code = "none" => SegmentsOf(<<>>, blocks, C, M, config)
  BY <1>1 DEF SegmentsOf
<1> QED BY <1>2 DEF SegmentedWell

\* What a run of the segmenter within the budget shows.
LEMMA SegmentsShown ==
    ASSUME NEW C, NEW M, NEW config, NEW S, S = AllSegments(C, M, config), NEW blocks, NEW work,
           ShowsAll(S, work, blocks), work.over = FALSE
    PROVE  SegmentsOf(work.out, blocks, C, M, config)
<1>1. work.out \in Seq(S) /\ Families(work.out)
  BY DEF ShowsAll, Works, WorkShape
<1>2. \A i \in 1 .. Len(blocks) : \A k \in 1 .. Len(blocks[i].text) :
          ~IsSpace(blocks[i].text[k][1]) => Shown(work, blocks[i].text[k])
  BY DEF ShowsAll
<1> QED BY <1>1, <1>2 DEF SegmentsOf, Shown

\* The segmenter loses no visible character of a document it does not refuse.
LEMMA SegmentDocumentIs ==
    ASSUME NEW C, Newline \in C, NEW M, NEW X, NEW config, IsConfig(config, X),
           NEW B, Blocky(B, C, M), NEW parsed, parsed.blocks \in Seq(B),
           NEW result, result = SegmentDocument(parsed, config)
    PROVE  SegmentedWell(result, VisibleBlocks(parsed), C, M, config)
<1>1. PICK blocks : blocks = VisibleBlocks(parsed)
  OBVIOUS
<1>2. blocks \in Seq(B) /\ \A i \in 1 .. Len(blocks) : ~Blank(blocks[i].text)
  BY ONLY <1>1, parsed.blocks \in Seq(B), VisibleBlocksAre
<1>3. CASE ~ValidConfig(config)
  <2>1. result = [error |-> "INVALID_SEGMENTATION_CONFIG", segments |-> <<>>, warnings |-> <<>>]
    BY <1>3 DEF SegmentDocument
  <2>2. "INVALID_SEGMENTATION_CONFIG" \in SegmentErrors /\ "INVALID_SEGMENTATION_CONFIG" # "none"
    BY DEF SegmentErrors
  <2> QED BY ONLY <2>1, <2>2, NoSegments
<1>4. CASE ValidConfig(config) /\ blocks = <<>>
  <2>1. result = [error |-> "none", segments |-> <<>>, warnings |-> <<>>]
    BY <1>1, <1>4 DEF SegmentDocument
  <2>2. "none" \in SegmentErrors
    BY DEF SegmentErrors
  <2>3. SegmentedWell(result, blocks, C, M, config)
    BY ONLY <1>4, <2>1, <2>2, NoSegments
  <2> QED BY <1>1, <2>3
<1>5. CASE ValidConfig(config) /\ blocks # <<>>
  <2>1. PICK work : work = IF config.mode = "general" THEN General(blocks, config)
                           ELSE ParentChild(parsed, blocks, config)
    OBVIOUS
  <2>2. PICK list : list = FallbackWarnings(parsed, blocks, config)
    OBVIOUS
  <2>3. result = IF work.over
                 THEN [error |-> "SEGMENTATION_LIMIT_EXCEEDED", segments |-> <<>>,
                       warnings |-> <<>>]
                 ELSE [error |-> "none", segments |-> work.out, warnings |-> list]
    BY <1>1, <1>5, <2>1, <2>2 DEF SegmentDocument
  <2>4. Configured(config, X)
    BY <1>5 DEF ValidConfig, IsConfig, Configured
  <2>5. config.mode # "general" => FamilyConfigured(config, X) /\ config.parent_max \in Nat \ {0}
    BY <1>5, <2>4 DEF ValidConfig, IsConfig, FamilyConfigured
  <2>6. PICK S : S = AllSegments(C, M, config)
    OBVIOUS
  <2>7. ShowsAll(S, work, blocks)
    <3>1. CASE config.mode = "general"
      <4>1. S = SegmentsOver(C, M, {"general"}, 0, config.max) /\ work = General(blocks, config)
        BY <2>1, <2>6, <3>1 DEF AllSegments
      <4> QED BY ONLY Newline \in C, <2>4, <4>1, Blocky(B, C, M), <1>2, GeneralIs
    <3>2. CASE config.mode # "general"
      <4>1. S = FamilySegments(C, M, config) /\ work = ParentChild(parsed, blocks, config)
        BY <2>1, <2>6, <3>2 DEF AllSegments
      <4>2. FamilyConfigured(config, X) /\ blocks # <<>>
        BY <1>5, <2>5, <3>2
      <4> QED BY ONLY Newline \in C, <4>2, <4>1, Blocky(B, C, M), <1>2, ParentChildIs
    <3> QED BY <3>1, <3>2
  <2>8. list \in Seq([code : FallbackCodes, count : Nat])
    <3>1. PICK n \in Nat \ {0} : n = Len(blocks)
      BY <1>2, <1>5
    <3>2. \A k \in 1 .. n : Visible(blocks[k], C)
      BY <1>2, <3>1 DEF Visible, Blocky
    <3> QED BY ONLY <2>2, <2>5, <3>1, <3>2, FallbackWarningsAre
  <2>9. CASE work.over = TRUE
    <3>1. result = [error |-> "SEGMENTATION_LIMIT_EXCEEDED", segments |-> <<>>, warnings |-> <<>>]
      BY <2>3, <2>9
    <3>2. "SEGMENTATION_LIMIT_EXCEEDED" \in SegmentErrors /\ "SEGMENTATION_LIMIT_EXCEEDED" # "none"
      BY DEF SegmentErrors
    <3>3. SegmentedWell(result, blocks, C, M, config)
      BY ONLY <3>1, <3>2, NoSegments
    <3> QED BY <1>1, <3>3
  <2>10. CASE work.over = FALSE
    <3>1. result = [error |-> "none", segments |-> work.out, warnings |-> list]
      BY <2>3, <2>10
    <3>2. SegmentsOf(work.out, blocks, C, M, config)
      BY ONLY <2>6, <2>7, <2>10, SegmentsShown
    <3>3. work.out \in Seq(AllSegments(C, M, config))
      BY <3>2 DEF SegmentsOf
    <3>4. "none" \in SegmentErrors
      BY DEF SegmentErrors
    <3>5. result.error = "none" /\ result.segments = work.out /\ result.warnings = list
      BY <3>1
    <3>6. SegmentedWell(result, blocks, C, M, config)
      BY ONLY <1>5, <2>8, <3>2, <3>3, <3>4, <3>5 DEF SegmentedWell
    <3> QED BY <1>1, <3>6
  <2>11. work.over \in BOOLEAN
    BY <2>7 DEF ShowsAll, Works, WorkShape
  <2> QED BY <2>9, <2>10, <2>11
<1> QED BY <1>3, <1>4, <1>5
===============================================================================
