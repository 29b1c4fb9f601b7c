------------------------------- MODULE MCPreview -------------------------------
(* The requests and documents the preview is checked with: one document of  *)
(* every kind under many configurations, and requests for several documents *)
(* some of which are deleted while the request runs.                        *)
EXTENDS PreviewProperties, TLC

----
\* Plain text: up to four lines out of a few.
Lines == { <<>>, <<"letter", "stop", "letter">>, <<"space", "letter">>,
           <<"letter", "letter", "space", "letter">> }
Texts(n) == UNION {[1 .. k -> Lines] : k \in 1 .. n}

----
\* Markdown: what markdown-it emits for a few block elements; the element in
\* position k stands in line k.
Chars(classes, k) == [i \in DOMAIN classes |-> <<classes[i], <<k, i>>>>]
Token(type, level, k, classes) ==
    [type |-> type, level |-> level, map |-> <<k, k>>, text |-> Chars(classes, k)]
Paragraph(classes, k) ==
    <<Token("paragraph_open", 0, k, <<>>), Token("inline", 0, k, classes),
      Token("paragraph_close", 0, k, <<>>)>>
Expand(element, k) ==
    CASE element[1] = "paragraph" -> Paragraph(element[2], k)
      [] element[1] = "item" ->
             <<Token("list_item_open", 0, k, <<>>)>> \o Paragraph(element[2], k)
             \o <<Token("list_item_close", 0, k, <<>>)>>
      [] element[1] = "heading" ->
             <<Token("heading_open", element[3], k, <<>>), Token("inline", 0, k, element[2]),
               Token("heading_close", element[3], k, <<>>)>>
      [] element[1] = "code" -> <<Token("fence", 0, k, element[2])>>
      [] element[1] = "row" ->
             <<Token("tr_open", 0, k, <<>>), Token("inline", 0, k, element[2]),
               Token("inline", 0, k, element[2]), Token("tr_close", 0, k, <<>>)>>
Markdown(elements) ==
    [kind |-> "markdown",
     tokens |-> FlattenSeq([k \in DOMAIN elements |-> Expand(elements[k], k)])]

Headings == {<<"heading", <<"letter">>, level>> : level \in 1 .. 3}
Outlines == UNION {[1 .. n -> Headings \cup {<<"paragraph", <<"letter">>>>,
                                           <<"item", <<"letter">>>>}] : n \in 1 .. 4}
Elements == { <<"paragraph", <<"letter">>>>, <<"code", <<"space", "letter", "letter", "newline", "newline">>>>,
              <<"paragraph", <<"letter", "letter", "letter", "letter", "letter">>>>,
              <<"code", <<"space", "letter", "newline">>>>, <<"row", <<"letter">>>> }
Mixtures == UNION {[1 .. n -> Elements] : n \in 2 .. 4}

----
\* Workbooks: sparse cells, empty and repeated headers, formulas, merged and
\* linked ranges, hidden sheets.
Cell(row, column, kind, label) ==
    [tag |-> "c", at |-> <<row, column>>, kind |-> kind, label |-> label]
Merged(range) == [tag |-> "mergeCell", range |-> range]
Linked(range) == [tag |-> "hyperlink", range |-> range]
Sheet(title, visible, elements) == [title |-> title, visible |-> visible, elements |-> elements]
Header == { <<Cell(1, 1, "text", <<"a">>), Cell(1, 2, "text", <<"a">>)>>,
            <<Cell(1, 1, "text", <<"a", 2>>), Cell(1, 2, "text", <<"a">>),
              Cell(1, 3, "cached", <<"a">>)>>,
            <<Cell(1, 1, "blank", <<"x">>), Cell(2, 2, "text", <<"column", 1>>),
              Cell(2, 3, "empty", <<>>)>> }
Body == { <<>>, <<Cell(3, 1, "text", <<"v">>)>>,
          <<Cell(3, 2, "formula", <<"v">>), Cell(4, 1, "blank", <<"v">>)>>,
          <<Cell(3, 3, "text", <<"v">>), Cell(4, 1, "text", <<"v">>),
            Cell(5, 1, "formula", <<"v">>)>>,
          <<Cell(4, 2, "cached", <<"v">>), Cell(6, 1, "text", <<"v">>)>>,
          <<Cell(9, 1, "text", <<"v">>)>>, <<Cell(3, 4, "text", <<"v">>)>> }
Ranges == { <<>>, <<Merged(<<3, 1, 4, 1>>)>>, <<Linked(<<3, 1, 4, 2>>)>>,
            <<Merged(<<3, 1, 4, 2>>), Merged(<<3, 1, 4, 2>>), Linked(<<3, 1, 4, 2>>)>>,
            <<Merged(<<3, 1, 4, 3>>)>>,
           <<Merged(<<3, 1, 4, 1>>), Merged(<<3, 2, 4, 2>>), Merged(<<5, 1, 6, 1>>)>>,
           <<Merged(<<3, 2, 4, 2>>), Linked(<<3, 1, 3, 2>>), [tag |-> "other"]>> }
SheetOne == {Sheet("one", TRUE, h \o b \o r) : h \in Header, b \in Body, r \in Ranges}
SheetTwo == {Sheet("two", v, h \o b) : v \in BOOLEAN, h \in Header,
                b \in {<<Cell(3, 1, "text", <<"v">>)>>, <<Cell(2, 1, "formula", <<"v">>)>>}}
First == {s \in SheetOne : \E r \in Ranges : Len(r) = 1 /\ Last(s.elements) = r[1]}
Workbooks == {<<s>> : s \in SheetOne} \cup {<<s, t>> : s \in First, t \in SheetTwo}

----
Text(lines) == [kind |-> "text", lines |-> lines]
Book(workbook) == [kind |-> "xlsx", workbook |-> workbook]

General_(max, overlap, separator) ==
    [mode |-> "general", max |-> max, overlap |-> overlap, separator |-> separator]
Family(mode, parentMax, max, overlap) ==
    [mode |-> "parent_child", parent_mode |-> mode, parent_max |-> parentMax, max |-> max,
     overlap |-> overlap, separator |-> <<>>]

TextConfigs == { General_(4, 1, <<>>), General_(5, 2, <<"stop">>), General_(3, 0, <<>>),
                 General_(2, 1, <<"space">>), Family("paragraph", 4, 3, 1),
                 Family("full_document", 5, 2, 0) }
FallbackConfigs == {Family("full_document", p, 2, 0) : p \in 3 .. 6}
BookConfigs == {Family("paragraph", 5, 2, 1), General_(4, 0, <<>>)}

Stored(content) ==
    [active |-> TRUE, source_valid |-> TRUE, size |-> 2, stored |-> 2, content |-> content]
Ask(wanted, config) ==
    [ids |-> wanted, technique |-> "high_quality", model_known |-> TRUE, config |-> config]
One(contents, configs) ==
    {[request |-> Ask(<<"d1">>, config), documents |-> [d \in {"d1"} |-> Stored(content)]] :
        content \in contents, config \in configs}

\* Several documents, one of them deleted meanwhile; requests that are refused.
Many ==
    LET config == Family("full_document", 5, 2, 0)
        Doc(d) == IF d = "d2" THEN Stored(Text(<<<<"letter", "letter">>, <<>>, <<"letter">>>>))
                  ELSE Stored(Book(<<Sheet("one", TRUE,
                           <<Cell(1, 1, "text", <<"a">>), Cell(2, 1, "formula", <<"v">>)>>),
                           Sheet("two", FALSE, <<>>), Sheet("three", TRUE, <<>>),
                           Sheet("four", TRUE, <<>>)>>))
        two == [d \in {"d1", "d2"} |-> Doc(d)]
    IN  {[request |-> Ask(s, config), documents |-> two] :
            s \in {<<"d1", "d2">>, <<"d2", "d1", "d2">>, <<"d1", "d3">>}}
        \cup {[request |-> Ask(<<"d2">>, config),
               documents |-> [two EXCEPT !["d2"] = change]] :
            change \in { [two["d2"] EXCEPT !.source_valid = FALSE],
                         [two["d2"] EXCEPT !.size = 3],
                         [two["d2"] EXCEPT !.size = 1], [two["d2"] EXCEPT !.size = 9],
                         [two["d2"] EXCEPT !.content = [kind |-> "other"]] }}
        \cup {[request |-> r, documents |-> two] :
            r \in { [Ask(<<"d1">>, config) EXCEPT !.technique = "economy"],
                    [Ask(<<"d1">>, config) EXCEPT !.model_known = FALSE],
                    Ask(<<"d1">>, Family("paragraph", 5, 2, 2)),
                    Ask(<<"d1", "d2", "d3">>, config) }}

PreviewScenarios ==
    << One({Text(t) : t \in Texts(3)}, TextConfigs),
       One({Text(t) : t \in Texts(4)}, {Family("full_document", 5, 2, 0)}),
       One({Markdown(m) : m \in Mixtures}, FallbackConfigs),
       One({Markdown(m) : m \in Outlines}, {General_(9, 0, <<>>)}),
       One({Book(w) : w \in Workbooks}, BookConfigs),
       Many >>
================================================================================
