--------------------------- MODULE MCKnowledgeBase ---------------------------
(***************************************************************************)
(* Small instances of KnowledgeBase: two or three requests at a time over  *)
(* at most two documents.                                                  *)
(***************************************************************************)
EXTENDS KnowledgeBaseProperties, TLC

\* Files.
Text == [size |-> 100, nul |-> 0, controls |-> 0]
Directory(entries) == [valid |-> TRUE, entries |-> entries]
Packed(size, compressed) ==
    [size |-> size, compressed |-> compressed, encrypted |-> FALSE, unsafe |-> FALSE]
File0(name, hash) ==
    [name |-> name, hash |-> hash, extension |-> ".txt", type |-> "text/plain", size |-> 3,
     signature |-> TRUE, text |-> Text, archive |-> Directory(<<>>)]
Office == [File0("b", "two") EXCEPT !.extension = ".docx", !.type = "docx",
                                    !.archive = Directory(<<Packed(2, 1), Packed(3, 2)>>)]
Note == File0("a", "one")

Rejected ==
    <<[Note EXCEPT !.extension = ".exe"], [Note EXCEPT !.type = "docx"], [Note EXCEPT !.size = 11],
      [Office EXCEPT !.signature = FALSE], [Note EXCEPT !.text.nul = 2],
      [Note EXCEPT !.text.controls = 21], [Office EXCEPT !.archive.valid = FALSE],
      [Office EXCEPT !.archive.entries = <<Packed(1, 1), Packed(1, 1), Packed(1, 1), Packed(1, 1)>>],
      [Office EXCEPT !.archive.entries[2].encrypted = TRUE],
      [Office EXCEPT !.archive.entries[1].unsafe = TRUE],
      [Office EXCEPT !.archive.entries[2].size = 7],
      [Office EXCEPT !.archive.entries[1].compressed = 0]>>

\* Segments.
Segment(id, parent, type, semantic, keyword) ==
    [id |-> id, parent |-> parent, type |-> type, blank |-> FALSE, semantic |-> semantic,
     keyword |-> keyword]
Family == <<Segment(1, 0, "parent", 0, 0), Segment(2, 1, "child", 9, 1),
            Segment(3, 1, "child", 4, 2)>>
Plain == <<Segment(1, 0, "general", 7, 1)>>
Edited == <<Segment(1, 0, "general", 8, 2)>>
Many == <<Segment(1, 0, "general", 9, 0), Segment(2, 0, "general", 9, 0),
          Segment(3, 0, "general", 9, 0), Segment(4, 0, "general", 9, 0),
          Segment(5, 0, "general", 9, 0)>>
Parsed == [one |-> Family, two |-> Plain]

\* Documents there at the start, and requests about them.
First == <<0, 1>>
Second == <<0, 2>>
One == First :> Note
Both == One @@ (Second :> Office)

Ingest(files) == [kind |-> "ingest", files |-> files]
Upload(files) == [kind |-> "upload", files |-> files]
Configure(docs) == [kind |-> "configure", documents |-> docs]
Deletion(d) == [kind |-> "delete", document |-> d]
Change(d, change) == [kind |-> "govern", document |-> d, change |-> change]
Edit(d, items) == [kind |-> "edit", document |-> d, items |-> items]
Overwrite(d, items) == [kind |-> "save", document |-> d, items |-> items]
Rebuild(d) == [kind |-> "reindex", document |-> d]
Search(mode, topK, threshold) ==
    [kind |-> "search",
     query |-> [mode |-> mode, topK |-> topK, threshold |-> threshold, semantic |-> 7,
                keyword |-> 3]]

Scenario(kind, docs, requests) == [technique |-> kind, documents |-> docs, requests |-> requests]

KnowledgeScenarios ==
    {\* uploads of the same files, deletions
     Scenario("economy", <<>>, <<Ingest(<<Note, Office>>), Ingest(<<Note>>)>>),
     Scenario("economy", One, <<Ingest(<<Note, Office, Office>>), Deletion(First)>>),
     Scenario("economy", <<>>, <<Upload(<<Note, Office>>), Deletion(<<1, 1>>)>>),
     Scenario("economy", <<>>, <<Upload(Rejected), Ingest(<<Rejected[1]>>), Rebuild(<<1, 1>>)>>),
     Scenario("economy", <<>>, <<Upload(<<Note>>), Rebuild(<<1, 1>>)>>),
     \* editors, with and without a token
     Scenario("high_quality", One, <<Edit(First, Edited), Edit(First, Plain)>>),
     Scenario("high_quality", One, <<Edit(First, Edited), Overwrite(First, Plain)>>),
     Scenario("economy", One, <<Edit(First, Edited), Rebuild(First)>>),
     Scenario("economy", One, <<Edit(First, Edited), Configure(<<First>>)>>),
     Scenario("economy", One, <<Overwrite(First, Edited), Overwrite(First, Plain),
                                Edit(First, Edited)>>),
     Scenario("economy", One, <<Overwrite(First, Edited), Rebuild(First), Deletion(First)>>),
     Scenario("economy", One, <<Overwrite(First, Edited), Rebuild(First), Configure(<<First>>)>>),
     \* what saving refuses
     Scenario("economy", Both, <<Overwrite(First, <<[Edited[1] EXCEPT !.blank = TRUE]>>),
                                 Edit(First, Edited \o Edited),
                                 Configure(<<First, First>>)>>),
     Scenario("economy", One, <<Edit(First, <<Family[2], Family[1]>>), Deletion(First)>>),
     Scenario("economy", One, <<Deletion(First), Deletion(First), Rebuild(First)>>),
     Scenario("economy", One, <<Deletion(First), Change(First, [enabled |-> FALSE]),
                                Overwrite(First, <<[Family[2] EXCEPT !.parent = 0]>>)>>),
     \* searches
     Scenario("high_quality", Both, <<Search("hybrid", 2, 0), Edit(First, Edited)>>),
     Scenario("high_quality", Both, <<Search("vector", 1, 3), Edit(First, Edited), Edit(First, Plain)>>),
     Scenario("high_quality", One,
              <<Search("vector", 1, 0), Overwrite(First, Many), Overwrite(First, Edited)>>),
     Scenario("economy", One, <<Search("full_text", 3, 0), Overwrite(First, Edited), Rebuild(First)>>),
     Scenario("high_quality", Both,
              <<Search("full_text", 2, 3), Change(First, [enabled |-> FALSE]), Deletion(Second)>>),
     Scenario("high_quality", Both,
              <<Search("hybrid", 2, 3), Change(Second, [archived |-> TRUE]),
                Change(First, [name |-> "renamed"]), Configure(<<Second>>)>>),
     Scenario("economy", Both, <<Search("vector", 1, 0), Search("hybrid", 3, 5)>>)}

Types == (".txt" :> {"text/plain"}) @@ (".docx" :> {"docx"})
================================================================================
