--------------------------- MODULE MCSegmentPipeline ---------------------------
(***************************************************************************)
(* Small instances of SegmentPipeline: documents of up to three segments,  *)
(* of each technique and mode, and the ways the embedding service answers. *)
(***************************************************************************)
EXTENDS SegmentPipelineProperties, TLC

Word(t) == [term |-> t, identifier |-> FALSE, skipped |-> FALSE]
Identifier(t) == [term |-> t, identifier |-> TRUE, skipped |-> FALSE]
StopWord == [term |-> 9, identifier |-> FALSE, skipped |-> TRUE]

Plain == [words |-> <<Word(2), Word(1), Word(2), StopWord>>, raw |-> FALSE]
RawPlain == [Plain EXCEPT !.raw = TRUE]
Code == [words |-> <<Word(1), Word(1), Identifier(3), Word(2)>>, raw |-> TRUE]
Other == [words |-> <<Word(4)>>, raw |-> FALSE]
TooLong == [words |-> [i \in 1..6 |-> Word(i)], raw |-> FALSE]

Segment(local, parent, position, content, type, keywords) ==
    [local |-> local, parent |-> parent, position |-> position, content |-> content,
     source |-> "source", type |-> type, keywords |-> keywords]
General(local, position, content) ==
    Segment(local, NoParent, position, content, "general", <<>>)

Document(segments) ==
    [supported |-> TRUE, blocks |-> TRUE, revision |-> FALSE, segments |-> segments]
Revision(segments) == [Document(segments) EXCEPT !.revision = TRUE]
Empty == [Document(<<>>) EXCEPT !.blocks = FALSE]
Blank == Document(<<>>)
Renamed == [Document(<<General("s1", 1, Plain)>>) EXCEPT !.supported = FALSE]

FullBuild(technique, first, second) ==
    [technique |-> technique, mode |-> "general", full |-> TRUE, namespace |-> "",
     model_known |-> TRUE,
     documents |-> [d \in {"d1", "d2"} |-> IF d = "d1" THEN first ELSE second]]
Incremental(technique, document) ==
    [technique |-> technique, mode |-> "general", full |-> FALSE, namespace |-> "job",
     model_known |-> TRUE,
     documents |-> [d \in {"d1"} |-> document]]

\* Two segments of one text, and two batches.
Batches == Document(<<General("s1", 1, Plain), General("s2", 2, RawPlain),
                      General("s3", 3, Code)>>)
Family == Document(<<Segment("p1", NoParent, 1, Code, "parent", <<>>),
                     Segment("c1", "p1", 1, Plain, "child", <<>>),
                     Segment("c2", "p1", 2, Other, "child", <<>>)>>)
Single == Document(<<General("s1", 1, Other)>>)

\* A revision may name a parent that is none: the service checks its place only.
Orphan == Revision(<<General("s1", 1, Plain),
                     Segment("s2", "s1", 2, Other, "child", <<>>)>>)
Edited == Revision(<<Segment("s1", NoParent, 1, Plain, "general", <<7, 2>>),
                     General("s2", 2, Code)>>)

PipelinePlans ==
    {FullBuild("high_quality", Batches, Empty),
     [FullBuild("high_quality", Family, Blank) EXCEPT !.mode = "parent_child"],
     FullBuild("high_quality", Single, Single),
     FullBuild("high_quality", Document(<<General("s1", 1, TooLong)>>), Renamed),
     [FullBuild("high_quality", Single, Blank) EXCEPT !.model_known = FALSE],
     FullBuild("economy", Document(<<General("s1", 1, Plain), General("s2", 2, Code)>>), Blank),
     Incremental("high_quality", Edited),
     Incremental("high_quality", Orphan),
     Incremental("economy", Single),
     Incremental("economy", Revision(Family.segments))}

Provider == [accepts |-> 9, unavailable |-> 0, refuses |-> "no", order |-> "same",
             dimension |-> 2, fault |-> "none"]
PipelineProviders ==
    {[Provider EXCEPT !.order = "reversed"],
     [Provider EXCEPT !.accepts = 1, !.unavailable = 1, !.dimension = 3],
     [Provider EXCEPT !.unavailable = 2],
     [Provider EXCEPT !.accepts = 0],
     [Provider EXCEPT !.fault = "mixed"],
     [Provider EXCEPT !.fault = "twice"]}

WorkersAlike == Permutations(Workers)

\* A revision in an economy index, with the keywords its editor chose.
EditedPlans == {Incremental("economy", Edited)}
================================================================================
