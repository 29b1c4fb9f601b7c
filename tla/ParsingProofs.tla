---------------------------- MODULE ParsingProofs -----------------------------
(***************************************************************************)
(* What the parsers give: a list of blocks over some characters, or an     *)
(* error; a bounded list of warnings that stands for all of them; and no   *)
(* more cells and rows of a workbook than the limits allow.                *)
(***************************************************************************)
EXTENDS SegmentationProofs, Parsing

(***************************************************************************)
(* What the parsers produce: blocks whose text is a list of characters.    *)
(***************************************************************************)
ListedOver(blocks, C, M, B) == Newline \in C /\ Blocky(B, C, M) /\ blocks \in Seq(B)
Listed(blocks) == \E C, M, B : ListedOver(blocks, C, M, B)

ParserCodes == {"none", "NO_EXTRACTABLE_TEXT", "UNSUPPORTED_FILE_TYPE",
                "TABLE_ROW_LIMIT_EXCEEDED", "TABLE_COLUMN_LIMIT_EXCEEDED",
                "TABLE_XML_NODE_LIMIT_EXCEEDED", "TABLE_PHYSICAL_CELL_LIMIT_EXCEEDED",
                "TABLE_MERGED_CELL_LIMIT_EXCEEDED", "TABLE_TOTAL_MERGED_CELL_LIMIT_EXCEEDED"}
WarningCodes == {"PARENT_FULL_DOCUMENT_FALLBACK", "SEGMENT_DELIMITER_OMITTED",
                 "FORMULA_CACHE_UNAVAILABLE", "EMPTY_SHEET_SKIPPED", "HIDDEN_SHEET_SKIPPED",
                 "WARNINGS_TRUNCATED"}
Warnings == [code : WarningCodes, count : Nat]
ParsedWell(parsed) ==
    parsed.error \in ParserCodes /\ Listed(parsed.blocks) /\ parsed.warnings \in Seq(Warnings)

\* No blocks.
LEMMA NothingListed == Listed(<<>>)
<1>1. ListedOver(<<>>, {Newline}, {}, {})
  BY DEF ListedOver, Blocky
<1> QED BY <1>1 DEF Listed

\* An error comes without blocks and warnings.
LEMMA NotParsedIs ==
    ASSUME NEW code \in ParserCodes
    PROVE  ParsedWell(NotParsed(code))
BY NothingListed DEF ParsedWell, NotParsed

\* A document that was parsed, with its blocks and its warnings.
LEMMA ParsedIs ==
    ASSUME NEW type, NEW blocks, Listed(blocks), NEW warnings \in Seq(Warnings)
    PROVE  ParsedWell(Parsed(type, blocks, warnings))
BY DEF ParsedWell, Parsed, ParserCodes

(***************************************************************************)
(* Plain text.                                                             *)
(***************************************************************************)
TextChars(X) == (X \cup {"newline"}) \X (Nat \X Nat)
TextMetas == [lines : Nat \X Nat, heading_path : {<<>>}, sheet : {"none"}, row : {0}]
TextBlocks(X) == [type : {"paragraph"}, text : Seq(TextChars(X)), meta : TextMetas]

\* The lines of a paragraph are joined to a list of characters.
LEMMA JoinLinesIs ==
    ASSUME NEW X, NEW lines \in Seq(Seq(X)), NEW first \in 1 .. Len(lines),
           NEW last \in 0 .. Len(lines)
    PROVE  JoinLines(lines, first, last) \in Seq(TextChars(X))
<1>1. PICK C : C = TextChars(X)
  OBVIOUS
<1>2. PICK L : L = Seq(X)
  OBVIOUS
<1>3. PICK SC : SC = Seq(C)
  OBVIOUS
<1>4. PICK m \in Nat : 1 .. m = 1 .. last - first + 1 /\ (m # 0 => m = last - first + 1)
  <2>1. PICK x \in Int : x = last - first + 1
    OBVIOUS
  <2>2. PICK m : m = IF x >= 0 THEN x ELSE 0
    OBVIOUS
  <2>3. m \in Nat /\ (m # 0 => m = x)
    BY ONLY <2>2, x \in Int
  <2>4. 1 .. m = 1 .. x
    <3>1. CASE x >= 0
      BY ONLY <2>2, <3>1
    <3>2. CASE ~(x >= 0)
      <4>1. 1 .. x = {}
        BY <3>2
      <4>2. m = 0 /\ 1 .. 0 = {}
        BY <2>2, <3>2
      <4> QED BY <4>1, <4>2
    <3> QED BY <3>1, <3>2
  <2> QED BY <2>1, <2>3, <2>4
<1> DEFINE Part(k) == (IF k = 1 THEN <<>> ELSE <<<<"newline", <<first + k - 1, 0>>>>>>)
            \o [i \in DOMAIN lines[first + k - 1] |-> <<lines[first + k - 1][i],
              <<first + k - 1, i>>>>]
<1>5. ASSUME NEW k \in 1 .. m
      PROVE  Part(k) \in Seq(C)
  <2>1. PICK n \in 1 .. Len(lines) : n = first + k - 1
    BY <1>4
  <2>2. PICK line \in Seq(X) : line = lines[n]
    <3>1. lines \in Seq(L)
      BY <1>2
    <3>2. lines[n] \in L
      BY <2>1, <3>1
    <3> QED BY <1>2, <3>2
  <2>3. PICK l \in Nat : l = Len(line) /\ DOMAIN line = 1 .. l
    OBVIOUS
  <2>4. PICK a : a = IF k = 1 THEN <<>> ELSE <<<<"newline", <<n, 0>>>>>>
    OBVIOUS
  <2>5. PICK b : b = [i \in DOMAIN line |-> <<line[i], <<n, i>>>>]
    OBVIOUS
  <2>6. b \in Seq(C)
    <3>1. \A i \in 1 .. l : b[i] \in C
      BY <1>1, <2>1, <2>2, <2>3, <2>5, SMTT(30) DEF TextChars
    <3>2. DOMAIN b = 1 .. l /\ b = [i \in DOMAIN b |-> b[i]]
      BY <2>3, <2>5
    <3> QED BY ONLY <3>1, <3>2, l \in Nat, ListIsSeq
  <2>7. a \in Seq(C)
    <3>1. <<"newline", <<n, 0>>>> \in C
      BY <1>1, <2>1 DEF TextChars
    <3>2. <<<<"newline", <<n, 0>>>>>> \in Seq(C)
      BY ONLY <3>1, OneIsSeq
    <3> QED BY ONLY <2>4, <3>2
  <2>8. a \o b \in Seq(C)
    BY ONLY <2>6, <2>7, JoinIsSeq
  <2>9. Part(k) = a \o b
    BY ONLY <2>1, <2>2, <2>4, <2>5
  <2> QED BY <2>8, <2>9
<1>6. PICK parts : parts = [k \in 1 .. m |-> Part(k)]
  <2> HIDE DEF Part
  <2> QED OBVIOUS
<1>7. parts \in Seq(SC)
  <2> HIDE DEF Part
  <2>1. \A k \in 1 .. m : parts[k] \in SC
    BY <1>3, <1>5, <1>6
  <2>2. DOMAIN parts = 1 .. m /\ parts = [k \in DOMAIN parts |-> parts[k]]
    BY <1>6
  <2> QED BY ONLY <2>1, <2>2, m \in Nat, ListIsSeq
<1>8. parts \in Seq(Seq(C))
  BY ONLY <1>3, <1>7
<1>9. FlattenSeq(parts) \in Seq(C)
  BY ONLY <1>8, FlattenIs
<1>10. JoinLines(lines, first, last) = FlattenSeq(parts)
  BY <1>4, <1>6 DEF JoinLines
<1> QED BY <1>1, <1>9, <1>10

\* The states of the walk over the lines.
TextWalks(X, n) == [start : 0 .. n, blocks : Seq(TextBlocks(X))]
TextClose(acc, last, lines) ==
    IF acc.start = 0 THEN acc
    ELSE [start |-> 0,
          blocks |-> Append(acc.blocks,
              [type |-> "paragraph", text |-> JoinLines(lines, acc.start, last),
               meta |-> TextMeta(acc.start, last, <<>>)])]
TextStep(acc, n, lines) ==
    IF BlankLine(lines[n]) THEN TextClose(acc, n - 1, lines)
    ELSE [acc EXCEPT !.start = IF @ = 0 THEN n ELSE @]
LineNumbers(lines) == [n \in DOMAIN lines |-> n]
TextWalked(lines) ==
    FoldLeft(LAMBDA acc, n : TextStep(acc, n, lines), [start |-> 0, blocks |-> <<>>],
             LineNumbers(lines))

\* A paragraph of a text is closed at its last line.
LEMMA TextCloseIs ==
    ASSUME NEW X, NEW lines \in Seq(Seq(X)), NEW n \in Nat, n = Len(lines),
           NEW acc \in TextWalks(X, n), NEW last \in 0 .. n
    PROVE  TextClose(acc, last, lines) \in TextWalks(X, n)
<1>1. CASE acc.start = 0
  BY <1>1 DEF TextClose
<1>2. CASE acc.start # 0
  <2>1. PICK start \in 1 .. n : start = acc.start
    BY <1>2 DEF TextWalks
  <2>2. PICK text : text = JoinLines(lines, start, last)
    OBVIOUS
  <2>3. text \in Seq(TextChars(X))
    BY ONLY lines \in Seq(Seq(X)), start \in 1 .. n, last \in 0 .. n, n = Len(lines), <2>2,
            JoinLinesIs
  <2>4. PICK meta : meta = TextMeta(start, last, <<>>)
    OBVIOUS
  <2>5. meta \in TextMetas
    BY <2>1, <2>4 DEF TextMeta, TextMetas
  <2>6. PICK block : block = [type |-> "paragraph", text |-> text, meta |-> meta]
    OBVIOUS
  <2>7. block \in TextBlocks(X) /\ acc.blocks \in Seq(TextBlocks(X))
    BY <2>3, <2>5, <2>6 DEF TextBlocks, TextWalks
  <2>8. PICK more : more = Append(acc.blocks, block)
    OBVIOUS
  <2>9. more \in Seq(TextBlocks(X))
    BY ONLY <2>7, <2>8, AppendIsSeq
  <2>10. TextClose(acc, last, lines) = [start |-> 0, blocks |-> more]
    BY <1>2, <2>1, <2>2, <2>4, <2>6, <2>8 DEF TextClose
  <2> QED BY <2>9, <2>10 DEF TextWalks
<1> QED BY <1>1, <1>2

\* A line of a text is taken.
LEMMA TextStepIs ==
    ASSUME NEW X, NEW lines \in Seq(Seq(X)), NEW n \in Nat, n = Len(lines),
           NEW acc \in TextWalks(X, n), NEW i \in 1 .. n
    PROVE  TextStep(acc, i, lines) \in TextWalks(X, n)
<1>1. CASE BlankLine(lines[i])
  <2>1. i - 1 \in 0 .. n
    OBVIOUS
  <2>2. TextClose(acc, i - 1, lines) \in TextWalks(X, n)
    BY <2>1, TextCloseIs
  <2> QED BY <1>1, <2>2 DEF TextStep
<1>2. CASE ~BlankLine(lines[i])
  <2>1. PICK start : start = IF acc.start = 0 THEN i ELSE acc.start
    OBVIOUS
  <2>2. start \in 0 .. n
    BY <2>1 DEF TextWalks
  <2>3. TextStep(acc, i, lines) = [acc EXCEPT !.start = start]
    BY <1>2, <2>1 DEF TextStep
  <2> QED BY <2>2, <2>3 DEF TextWalks
<1> QED BY <1>1, <1>2

\* The walk after every line.
TextTrace(lines, X) ==
    \E g :
        /\ g[0] = [start |-> 0, blocks |-> <<>>]
        /\ g[Len(LineNumbers(lines))] = TextWalked(lines)
        /\ \A i \in 0 .. Len(LineNumbers(lines)) : g[i] \in TextWalks(X, Len(lines))
        /\ \A i \in 1 .. Len(LineNumbers(lines)) :
              /\ g[i - 1] \in TextWalks(X, Len(lines))
              /\ g[i] = TextStep(g[i - 1], LineNumbers(lines)[i], lines)

\* The lines are walked one after the other.
LEMMA TextSteps ==
    ASSUME NEW X, NEW lines \in Seq(Seq(X))
    PROVE  TextTrace(lines, X)
<1> DEFINE n == Len(LineNumbers(lines))
           step == [i \in 1 .. n |-> [a \in TextWalks(X, Len(lines)) |-> TextStep(a,
                     LineNumbers(lines)[i], lines)]]
           Solves(iter) == iter = [s \in SUBSET DOMAIN LineNumbers(lines) |->
               IF s = {} THEN [start |-> 0, blocks |-> <<>>]
                    ELSE TextStep(iter[s \ {Max(s)}], LineNumbers(lines)[Max(s)], lines)]
<1>1. n \in Nat /\ DOMAIN LineNumbers(lines) = 1 .. n
        /\ [start |-> 0, blocks |-> <<>>] \in TextWalks(X, Len(lines))
  <2>1. LineNumbers(lines) \in Seq(1 .. Len(lines)) /\ Len(LineNumbers(lines)) = Len(lines)
    BY DEF LineNumbers
  <2> QED BY <2>1 DEF TextWalks
<1>2. \A i \in 1 .. n : \A a \in TextWalks(X, Len(lines)) : TextStep(a, LineNumbers(lines)[i],
        lines) \in TextWalks(X, Len(lines))
  <2> SUFFICES ASSUME NEW i \in 1 .. n, NEW a \in TextWalks(X, Len(lines))
               PROVE  TextStep(a, LineNumbers(lines)[i], lines) \in TextWalks(X, Len(lines))
    OBVIOUS
  <2>1. LineNumbers(lines)[i] \in 1 .. Len(lines)
    BY DEF LineNumbers
  <2> QED BY <2>1, TextStepIs
<1> HIDE DEF n
<1>3. step \in StepsOf(TextWalks(X, Len(lines)), n)
  BY <1>2 DEF StepsOf
<1>4. TextWalked(lines) = (CHOOSE iter : Solves(iter))[1 .. n]
  BY <1>1 DEF TextWalked, FoldLeft, MapThenFoldSet
<1>5. \E iter : Solves(iter)
  <2>1. PICK iter : FoldSolution(iter, TextWalks(X, Len(lines)),
               [start |-> 0, blocks |-> <<>>], step, n)
    <3> HIDE DEF step
    <3> QED BY ONLY <1>1, <1>3, FoldExists
  <2>2. \A s \in SUBSET (1 .. n) : s # {} => Max(s) \in 1 .. n
          /\ iter[s \ {Max(s)}] \in TextWalks(X, Len(lines))
    BY ONLY <1>1, <2>1, MaxOfInitial DEF FoldSolution
  <2>3. \A s \in SUBSET (1 .. n) : s # {} =>
            step[Max(s)][iter[s \ {Max(s)}]] = TextStep(iter[s \ {Max(s)}],
              LineNumbers(lines)[Max(s)], lines)
    BY ONLY <2>2
  <2> HIDE DEF step
  <2>4. Solves(iter)
    BY ONLY <1>1, <2>1, <2>3 DEF FoldOver, FoldSolution
  <2> QED BY <2>4
<1>6. PICK iter : Solves(iter) /\ TextWalked(lines) = iter[1 .. n]
  <2> HIDE DEF Solves
  <2> QED BY ONLY <1>4, <1>5
<1>7. Computes(iter, TextWalks(X, Len(lines)), [start |-> 0, blocks |-> <<>>], step, n)
  BY ONLY <1>1, <1>6, MaxOfInitial DEF Computes
<1>8. PICK g : FoldTrace(g, TextWalks(X, Len(lines)), [start |-> 0, blocks |-> <<>>], step, n)
             /\ g[n] = iter[1 .. n]
  <2> HIDE DEF step, Solves
  <2> QED BY ONLY <1>1, <1>3, <1>7, FoldSteps
<1>9. \A i \in 1 .. n : g[i - 1] \in TextWalks(X, Len(lines))
        /\ g[i] = TextStep(g[i - 1], LineNumbers(lines)[i], lines)
  BY ONLY <1>1, <1>8 DEF FoldTrace
<1>10. \A i \in 0 .. n : g[i] \in TextWalks(X, Len(lines))
  BY ONLY <1>8 DEF FoldTrace
<1>11. g[0] = [start |-> 0, blocks |-> <<>>] /\ g[n] = TextWalked(lines)
  BY ONLY <1>6, <1>8 DEF FoldTrace
<1> HIDE DEF step, Solves
<1> QED BY <1>9, <1>10, <1>11 DEF n, TextTrace

\* The parser of plain text gives lists of characters.
LEMMA ParseTextIs ==
    ASSUME NEW X, NEW lines \in Seq(Seq(X))
    PROVE  ParsedWell(ParseText(lines))
<1>1. PICK n \in Nat : n = Len(lines) /\ DOMAIN lines = 1 .. n
  OBVIOUS
<1>2. TextTrace(lines, X)
  BY ONLY lines \in Seq(Seq(X)), TextSteps
<1>3. Len(LineNumbers(lines)) = n
  BY <1>1 DEF LineNumbers
<1>4. TextWalked(lines) \in TextWalks(X, n)
  <2>1. PICK g : /\ g[Len(LineNumbers(lines))] = TextWalked(lines)
                 /\ \A i \in 0 .. Len(LineNumbers(lines)) : g[i] \in TextWalks(X, Len(lines))
    BY <1>2 DEF TextTrace
  <2>2. n \in 0 .. n
    OBVIOUS
  <2> QED BY <1>1, <1>3, <2>1, <2>2
<1>5. PICK walk : walk = TextClose(TextWalked(lines), n, lines)
  OBVIOUS
<1>6. walk \in TextWalks(X, n)
  <2>1. n \in 0 .. n
    OBVIOUS
  <2> QED BY <1>1, <1>4, <1>5, <2>1, TextCloseIs
<1>7. ParseText(lines) = Parsed("text", walk.blocks, <<>>)
  BY <1>1, <1>5 DEF ParseText, TextWalked, TextStep, TextClose, LineNumbers
<1>8. walk.blocks \in Seq(TextBlocks(X))
  BY <1>6 DEF TextWalks
<1>9. PICK C, B, blocks : C = TextChars(X) \cup {Newline} /\ B = TextBlocks(X)
             /\ blocks = walk.blocks
  OBVIOUS
<1>10. Blocky(B, C, TextMetas)
  BY <1>9 DEF Blocky, TextBlocks
<1>11. ListedOver(blocks, C, TextMetas, B)
  BY <1>8, <1>9, <1>10 DEF ListedOver
<1>12. Listed(blocks)
  BY <1>11 DEF Listed
<1>13. <<>> \in Seq(Warnings)
  OBVIOUS
<1>14. ParsedWell(Parsed("text", blocks, <<>>))
  BY ONLY <1>12, <1>13, ParsedIs
<1> QED BY <1>7, <1>9, <1>14

(***************************************************************************)
(* Markdown.                                                               *)
(***************************************************************************)
Joints(C) == \A class \in {"space", "letter"} : \A line \in Nat : <<class, <<line, 0>>>> \in C
Tokens(T, C) == [type : T, level : Nat, map : Nat \X Nat, text : Seq(C)]
Headed(C) == [level : Nat, title : Seq(C)]
Titles(C) == Seq(C)
ProseTypes == {"heading", "list_item", "paragraph", "table_row", "code"}
ProseMetas(C) == [lines : Nat \X Nat, heading_path : Seq(Titles(C)), sheet : {"none"}, row : {0}]
ProseBlocks(C) == [type : ProseTypes, text : Seq(C), meta : ProseMetas(C)]
Walks(C) == [blocks : Seq(ProseBlocks(C)), stack : Seq(Headed(C)), depth : Int,
             cells : {"none"} \cup Seq(Titles(C)), level : Nat, map : Nat \X Nat]

\* The headings of the stack are a path.
LEMMA PathIs ==
    ASSUME NEW C, NEW stack \in Seq(Headed(C)), NEW path,
           path = [i \in DOMAIN stack |-> stack[i].title]
    PROVE  path \in Seq(Titles(C))
<1>1. PICK n \in Nat : n = Len(stack) /\ DOMAIN stack = 1 .. n
  OBVIOUS
<1>2. \A i \in 1 .. n : path[i] \in Titles(C)
  <2>1. \A i \in 1 .. n : stack[i] \in Headed(C)
    BY <1>1
  <2>2. \A h \in Headed(C) : h.title \in Titles(C)
    BY DEF Headed, Titles
  <2> QED BY <1>1, <2>1, <2>2
<1>3. DOMAIN path = 1 .. n /\ path = [i \in DOMAIN path |-> path[i]]
  BY <1>1
<1> QED BY ONLY <1>2, <1>3, n \in Nat, ListIsSeq

\* A block that is added to the walk.
LEMMA AddedBlock ==
    ASSUME NEW C, NEW walk \in Walks(C), NEW type \in ProseTypes, NEW text \in Seq(C),
           NEW lines \in Nat \X Nat, NEW next,
           next = [walk EXCEPT !.blocks = Append(@,
                      [type |-> type, text |-> text,
                       meta |-> TextMeta(lines[1], lines[2],
                                         [i \in DOMAIN walk.stack |-> walk.stack[i].title])])]
    PROVE  next \in Walks(C)
<1>1. PICK path : path = [i \in DOMAIN walk.stack |-> walk.stack[i].title]
  OBVIOUS
<1>2. path \in Seq(Titles(C))
  <2>1. walk.stack \in Seq(Headed(C))
    BY DEF Walks
  <2> QED BY ONLY <1>1, <2>1, PathIs
<1>3. PICK meta : meta = TextMeta(lines[1], lines[2], path)
  OBVIOUS
<1>4. meta \in ProseMetas(C)
  BY <1>2, <1>3 DEF TextMeta, ProseMetas
<1>5. PICK block : block = [type |-> type, text |-> text, meta |-> meta]
  OBVIOUS
<1>6. block \in ProseBlocks(C)
  BY <1>4, <1>5 DEF ProseBlocks
<1>7. PICK more : more = Append(walk.blocks, block)
  OBVIOUS
<1>8. more \in Seq(ProseBlocks(C))
  <2>1. walk.blocks \in Seq(ProseBlocks(C))
    BY DEF Walks
  <2> QED BY ONLY <1>6, <1>7, <2>1, AppendIsSeq
<1>9. next = [walk EXCEPT !.blocks = more]
  BY <1>1, <1>3, <1>5, <1>7
<1> QED BY <1>8, <1>9 DEF Walks

\* A block is appended, unless its text is blank.
LEMMA AppendBlockIs ==
    ASSUME NEW C, NEW walk \in Walks(C), NEW type \in ProseTypes, NEW text \in Seq(C)
    PROVE  AppendBlock(walk, type, text) \in Walks(C)
<1>1. CASE BlankText(text)
  BY <1>1 DEF AppendBlock
<1>2. CASE ~BlankText(text)
  <2>1. PICK next : next = AppendBlock(walk, type, text)
    OBVIOUS
  <2>2. PICK lines \in Nat \X Nat : lines = walk.map
    BY DEF Walks
  <2>3. next = [walk EXCEPT !.blocks = Append(@,
                      [type |-> type, text |-> text,
                       meta |-> TextMeta(lines[1], lines[2],
                                         [i \in DOMAIN walk.stack |-> walk.stack[i].title])])]
    BY <1>2, <2>1, <2>2 DEF AppendBlock
  <2> QED BY <2>1, <2>3, AddedBlock
<1> QED BY <1>1, <1>2

\* A code block is taken.
LEMMA FenceTokenIs ==
    ASSUME NEW C, NEW walk \in Walks(C), NEW T, NEW token \in Tokens(T, C)
    PROVE  FenceToken(walk, token) \in Walks(C)
<1>1. CASE token.text = <<>>
  BY <1>1 DEF FenceToken
<1>2. CASE token.text # <<>>
  <2>1. PICK next : next = FenceToken(walk, token)
    OBVIOUS
  <2>2. PICK lines \in Nat \X Nat, text \in Seq(C) : lines = token.map /\ text = token.text
    BY DEF Tokens
  <2>3. next = [walk EXCEPT !.blocks = Append(@,
                      [type |-> "code", text |-> text,
                       meta |-> TextMeta(lines[1], lines[2],
                                         [i \in DOMAIN walk.stack |-> walk.stack[i].title])])]
    BY <1>2, <2>1, <2>2 DEF FenceToken
  <2>4. "code" \in ProseTypes
    BY DEF ProseTypes
  <2> QED BY <2>1, <2>3, <2>4, AddedBlock
<1> QED BY <1>1, <1>2

\* A heading closes those of its own and of lower levels.
LEMMA EnterHeadingIs ==
    ASSUME NEW C, NEW walk \in Walks(C), NEW level \in Nat, NEW title \in Seq(C)
    PROVE  EnterHeading(walk, level, title) \in Walks(C)
<1>1. PICK stack : stack = walk.stack
  OBVIOUS
<1>2. stack \in Seq(Headed(C))
  BY <1>1 DEF Walks
<1>3. PICK positions : positions = {i \in DOMAIN stack : stack[i].level < level}
  OBVIOUS
<1>4. PICK kept : kept = Kept(stack, positions)
  OBVIOUS
<1>5. kept \in Seq(Headed(C))
  BY ONLY <1>2, <1>4, KeptIs
<1>6. PICK one : one = [level |-> level, title |-> title]
  OBVIOUS
<1>7. one \in Headed(C)
  BY <1>6 DEF Headed
<1>8. PICK more : more = Append(kept, one)
  OBVIOUS
<1>9. more \in Seq(Headed(C))
  BY ONLY <1>5, <1>7, <1>8, AppendIsSeq
<1>10. EnterHeading(walk, level, title) = [walk EXCEPT !.stack = more]
  BY <1>1, <1>3, <1>4, <1>6, <1>8 DEF EnterHeading
<1> QED BY <1>9, <1>10 DEF Walks

\* The cells of a row are joined to its text.
LEMMA JoinCellsIs ==
    ASSUME NEW C, Joints(C), NEW cells \in Seq(Titles(C)), NEW line \in Nat
    PROVE  JoinCells(cells, line) \in Seq(C)
<1>1. PICK n \in Nat : n = Len(cells) /\ DOMAIN cells = 1 .. n
  OBVIOUS
<1>2. PICK a, b : a = <<"space", <<line, 0>>>> /\ b = <<"letter", <<line, 0>>>>
  OBVIOUS
<1>3. a \in C /\ b \in C
  BY <1>2 DEF Joints
<1>4. PICK joint : joint = <<a, b, a>>
  OBVIOUS
<1>5. joint \in Seq(C)
  BY ONLY <1>3, <1>4
<1> DEFINE Part(i) == (IF i = 1 THEN <<>> ELSE joint) \o cells[i]
<1>6. PICK parts : parts = [i \in DOMAIN cells |-> Part(i)]
  <2> HIDE DEF Part
  <2> QED OBVIOUS
<1>7. ASSUME NEW i \in 1 .. n
      PROVE  parts[i] \in Titles(C)
  <2>1. PICK own : own = cells[i]
    OBVIOUS
  <2>2. own \in Seq(C)
    <3>1. cells[i] \in Titles(C)
      BY <1>1
    <3> QED BY <2>1, <3>1 DEF Titles
  <2>3. PICK before : before = IF i = 1 THEN <<>> ELSE joint
    OBVIOUS
  <2>4. before \in Seq(C)
    BY ONLY <1>5, <2>3
  <2>5. before \o own \in Seq(C)
    BY ONLY <2>2, <2>4, JoinIsSeq
  <2>6. parts[i] = before \o own
    BY <1>1, <1>6, <2>1, <2>3
  <2> QED BY <2>5, <2>6 DEF Titles
<1>8. parts \in Seq(Titles(C))
  <2> HIDE DEF Part
  <2>1. DOMAIN parts = 1 .. n /\ parts = [i \in DOMAIN parts |-> parts[i]]
    BY <1>1, <1>6
  <2> QED BY ONLY <1>7, <2>1, n \in Nat, ListIsSeq
<1>9. parts \in Seq(Seq(C))
  BY <1>8 DEF Titles
<1>10. FlattenSeq(parts) \in Seq(C)
  BY ONLY <1>9, FlattenIs
<1>11. JoinCells(cells, line) = FlattenSeq(parts)
  BY <1>2, <1>4, <1>6 DEF JoinCells
<1> QED BY <1>10, <1>11

\* An inline token is a cell, a heading or a paragraph.
LEMMA InlineTokenIs ==
    ASSUME NEW C, NEW walk \in Walks(C), NEW text \in Seq(C)
    PROVE  InlineToken(walk, text) \in Walks(C)
<1>1. CASE walk.cells # "none"
  <2>1. PICK cells : cells = walk.cells
    OBVIOUS
  <2>2. cells \in Seq(Titles(C)) /\ text \in Titles(C)
    BY <1>1, <2>1 DEF Walks, Titles
  <2>3. PICK more : more = Append(cells, text)
    OBVIOUS
  <2>4. more \in Seq(Titles(C))
    BY ONLY <2>2, <2>3, AppendIsSeq
  <2>5. InlineToken(walk, text) = [walk EXCEPT !.cells = more]
    BY <1>1, <2>1, <2>3 DEF InlineToken
  <2> QED BY <2>4, <2>5 DEF Walks
<1>2. CASE walk.cells = "none" /\ walk.level # 0
  <2>1. PICK entered : entered = EnterHeading(walk, walk.level, text)
    OBVIOUS
  <2>2. entered \in Walks(C)
    <3>1. walk.level \in Nat
      BY DEF Walks
    <3> QED BY <2>1, <3>1, EnterHeadingIs
  <2>3. PICK added : added = AppendBlock(entered, "heading", text)
    OBVIOUS
  <2>4. added \in Walks(C)
    <3>1. "heading" \in ProseTypes
      BY DEF ProseTypes
    <3> QED BY <2>2, <2>3, <3>1, AppendBlockIs
  <2>5. InlineToken(walk, text) = [added EXCEPT !.level = 0]
    BY <1>2, <2>1, <2>3 DEF InlineToken
  <2>6. [added EXCEPT !.level = 0] \in Walks(C)
    BY <2>4 DEF Walks
  <2> QED BY <2>5, <2>6
<1>3. CASE walk.cells = "none" /\ walk.level = 0
  <2>1. PICK type : type = IF walk.depth > 0 THEN "list_item" ELSE "paragraph"
    OBVIOUS
  <2>2. type \in ProseTypes
    BY <2>1 DEF ProseTypes
  <2>3. InlineToken(walk, text) = AppendBlock(walk, type, text)
    BY <1>3, <2>1 DEF InlineToken
  <2> QED BY <2>2, <2>3, AppendBlockIs
<1> QED BY <1>1, <1>2, <1>3

\* The end of a row makes its cells a block.
LEMMA CloseRowIs ==
    ASSUME NEW C, Joints(C), NEW walk \in Walks(C)
    PROVE  CloseRow(walk) \in Walks(C)
<1>1. PICK left : left = IF walk.cells = "none" THEN walk
                         ELSE AppendBlock(walk, "table_row", JoinCells(walk.cells, walk.map[1]))
  OBVIOUS
<1>2. left \in Walks(C)
  <2>1. CASE walk.cells = "none"
    BY <1>1, <2>1
  <2>2. CASE walk.cells # "none"
    <3>1. PICK cells, line : cells = walk.cells /\ line = walk.map[1] /\ line \in Nat
      <4>1. walk.map \in Nat \X Nat
        BY DEF Walks
      <4> QED BY <4>1
    <3>2. cells \in Seq(Titles(C))
      BY <2>2, <3>1 DEF Walks
    <3>3. PICK text : text = JoinCells(cells, line)
      OBVIOUS
    <3>4. text \in Seq(C)
      BY ONLY Joints(C), <3>1, <3>2, <3>3, JoinCellsIs
    <3>5. "table_row" \in ProseTypes
      BY DEF ProseTypes
    <3>6. AppendBlock(walk, "table_row", text) \in Walks(C)
      BY <3>4, <3>5, AppendBlockIs
    <3> QED BY <1>1, <2>2, <3>1, <3>3, <3>6
  <2> QED BY <2>1, <2>2
<1>3. CloseRow(walk) = [left EXCEPT !.cells = "none"]
  BY <1>1 DEF CloseRow
<1> QED BY <1>2, <1>3 DEF Walks

\* Every token leads from a walk to a walk.
LEMMA WalkTokenIs ==
    ASSUME NEW C, Joints(C), NEW walk \in Walks(C), NEW T, NEW token \in Tokens(T, C)
    PROVE  WalkToken(walk, token) \in Walks(C)
<1>1. CloseRow(walk) \in Walks(C) /\ FenceToken(walk, token) \in Walks(C)
  BY CloseRowIs, FenceTokenIs
<1>2. InlineToken(walk, token.text) \in Walks(C)
  <2>1. token.text \in Seq(C)
    BY DEF Tokens
  <2> QED BY <2>1, InlineTokenIs
<1>3. PICK level \in Nat, map \in Nat \X Nat : level = token.level /\ map = token.map
  BY DEF Tokens
<1>4. /\ [walk EXCEPT !.level = level, !.map = map] \in Walks(C)
      /\ [walk EXCEPT !.map = map] \in Walks(C)
      /\ [walk EXCEPT !.depth = @ + 1] \in Walks(C)
      /\ [walk EXCEPT !.depth = @ - 1] \in Walks(C)
      /\ [walk EXCEPT !.cells = <<>>, !.map = map] \in Walks(C)
  <2>1. PICK none, up, down : none = <<>> /\ up = walk.depth + 1 /\ down = walk.depth - 1
    OBVIOUS
  <2>2. none \in Seq(Titles(C)) /\ up \in Int /\ down \in Int
    BY <2>1 DEF Walks
  <2>3. [walk EXCEPT !.level = level, !.map = map] \in Walks(C)
    BY DEF Walks
  <2>4. [walk EXCEPT !.map = map] \in Walks(C)
    BY DEF Walks
  <2>5. [walk EXCEPT !.depth = up] \in Walks(C)
    BY <2>2 DEF Walks
  <2>6. [walk EXCEPT !.depth = down] \in Walks(C)
    BY <2>2 DEF Walks
  <2>7. [walk EXCEPT !.cells = none, !.map = map] \in Walks(C)
    BY <2>2 DEF Walks
  <2> QED BY <2>1, <2>3, <2>4, <2>5, <2>6, <2>7
<1> QED BY <1>1, <1>2, <1>3, <1>4 DEF WalkToken

NoWalk == [blocks |-> <<>>, stack |-> <<>>, depth |-> 0, cells |-> "none", level |-> 0,
           map |-> <<0, 0>>]

\* The walk after every token.
WalkTrace(tokens, C) ==
    \E g :
        /\ g[0] = NoWalk
        /\ g[Len(tokens)] = FoldLeft(WalkToken, NoWalk, tokens)
        /\ \A i \in 0 .. Len(tokens) : g[i] \in Walks(C)
        /\ \A i \in 1 .. Len(tokens) :
              /\ g[i - 1] \in Walks(C)
              /\ g[i] = WalkToken(g[i - 1], tokens[i])

\* The tokens are walked one after the other.
LEMMA WalkSteps ==
    ASSUME NEW T, NEW C, Joints(C), NEW tokens \in Seq(Tokens(T, C))
    PROVE  WalkTrace(tokens, C)
<1> DEFINE n == Len(tokens)
           step == [i \in 1 .. n |-> [a \in Walks(C) |-> WalkToken(a, tokens[i])]]
           Solves(iter) == iter = [s \in SUBSET DOMAIN tokens |->
               IF s = {} THEN NoWalk ELSE WalkToken(iter[s \ {Max(s)}], tokens[Max(s)])]
<1>1. n \in Nat /\ DOMAIN tokens = 1 .. n /\ NoWalk \in Walks(C)
  BY DEF NoWalk, Walks
<1>2. \A i \in 1 .. n : \A a \in Walks(C) : WalkToken(a, tokens[i]) \in Walks(C)
  <2> SUFFICES ASSUME NEW i \in 1 .. n, NEW a \in Walks(C)
               PROVE  WalkToken(a, tokens[i]) \in Walks(C)
    OBVIOUS
  <2>1. tokens[i] \in Tokens(T, C)
    OBVIOUS
  <2> QED BY <2>1, WalkTokenIs
<1> HIDE DEF n
<1>3. step \in StepsOf(Walks(C), n)
  BY <1>2 DEF StepsOf
<1>4. FoldLeft(WalkToken, NoWalk, tokens) = (CHOOSE iter : Solves(iter))[1 .. n]
  BY <1>1 DEF FoldLeft, MapThenFoldSet
<1>5. \E iter : Solves(iter)
  <2>1. PICK iter : FoldSolution(iter, Walks(C), NoWalk, step, n)
    <3> HIDE DEF step
    <3> QED BY ONLY <1>1, <1>3, FoldExists
  <2>2. \A s \in SUBSET (1 .. n) : s # {} => Max(s) \in 1 .. n /\ iter[s \ {Max(s)}] \in Walks(C)
    BY ONLY <1>1, <2>1, MaxOfInitial DEF FoldSolution
  <2>3. \A s \in SUBSET (1 .. n) : s # {} =>
            step[Max(s)][iter[s \ {Max(s)}]] = WalkToken(iter[s \ {Max(s)}], tokens[Max(s)])
    BY ONLY <2>2
  <2> HIDE DEF step
  <2>4. Solves(iter)
    BY ONLY <1>1, <2>1, <2>3 DEF FoldOver, FoldSolution
  <2> QED BY <2>4
<1>6. PICK iter : Solves(iter) /\ FoldLeft(WalkToken, NoWalk, tokens) = iter[1 .. n]
  <2> HIDE DEF Solves
  <2> QED BY ONLY <1>4, <1>5
<1>7. Computes(iter, Walks(C), NoWalk, step, n)
  BY ONLY <1>1, <1>6, MaxOfInitial DEF Computes
<1>8. PICK g : FoldTrace(g, Walks(C), NoWalk, step, n) /\ g[n] = iter[1 .. n]
  <2> HIDE DEF step, Solves
  <2> QED BY ONLY <1>1, <1>3, <1>7, FoldSteps
<1>9. \A i \in 1 .. n : g[i - 1] \in Walks(C) /\ g[i] = WalkToken(g[i - 1], tokens[i])
  BY ONLY <1>1, <1>8 DEF FoldTrace
<1>10. \A i \in 0 .. n : g[i] \in Walks(C)
  BY ONLY <1>8 DEF FoldTrace
<1>11. g[0] = NoWalk /\ g[n] = FoldLeft(WalkToken, NoWalk, tokens)
  BY ONLY <1>6, <1>8 DEF FoldTrace
<1> HIDE DEF step, Solves
<1> QED BY <1>9, <1>10, <1>11 DEF n, WalkTrace

\* The walk over Markdown gives lists of characters.
LEMMA ParseMarkdownIs ==
    ASSUME NEW T, NEW C, Newline \in C, Joints(C), NEW tokens \in Seq(Tokens(T, C))
    PROVE  ParsedWell(ParseMarkdown(tokens))
<1>1. WalkTrace(tokens, C)
  BY ONLY Joints(C), tokens \in Seq(Tokens(T, C)), WalkSteps
<1>2. PICK walk : walk = FoldLeft(WalkToken, NoWalk, tokens)
  OBVIOUS
<1>3. walk \in Walks(C)
  <2>1. PICK g : /\ g[Len(tokens)] = FoldLeft(WalkToken, NoWalk, tokens)
                 /\ \A i \in 0 .. Len(tokens) : g[i] \in Walks(C)
    BY <1>1 DEF WalkTrace
  <2>2. Len(tokens) \in 0 .. Len(tokens)
    OBVIOUS
  <2> QED BY ONLY <1>2, <2>1, <2>2
<1>4. ParseMarkdown(tokens) = Parsed("markdown", walk.blocks, <<>>)
  BY <1>2 DEF ParseMarkdown, NoWalk
<1>5. PICK B, blocks : B = ProseBlocks(C) /\ blocks = walk.blocks
  OBVIOUS
<1>6. blocks \in Seq(B)
  BY <1>3, <1>5 DEF Walks
<1>7. Blocky(B, C, ProseMetas(C))
  BY <1>5 DEF Blocky, ProseBlocks
<1>8. ListedOver(blocks, C, ProseMetas(C), B)
  BY <1>6, <1>7 DEF ListedOver
<1>9. Listed(blocks)
  BY <1>8 DEF Listed
<1>10. <<>> \in Seq(Warnings)
  OBVIOUS
<1>11. ParsedWell(Parsed("markdown", blocks, <<>>))
  BY ONLY <1>9, <1>10, ParsedIs
<1> QED BY <1>4, <1>5, <1>11

(***************************************************************************)
(* The bounded collector of warnings.                                      *)
(***************************************************************************)
Weight(w) == IF w.code = "WARNINGS_TRUNCATED" THEN w.count ELSE 1
Counted(list) == FoldLeft(LAMBDA n, w :
                    n + (IF w.code = "WARNINGS_TRUNCATED" THEN w.count ELSE 1), 0, list)

Totals == Nat

\* The count after every warning.
CountTrace(list) ==
    \E g :
        /\ g[0] = 0
        /\ g[Len(list)] = Counted(list)
        /\ \A i \in 0 .. Len(list) : g[i] \in Totals
        /\ \A i \in 1 .. Len(list) :
              /\ g[i - 1] \in Totals
              /\ g[i] = g[i - 1] + (IF list[i].code = "WARNINGS_TRUNCATED" THEN list[i].count
                   ELSE 1)

\* The warnings are counted one after the other.
LEMMA CountSteps ==
    ASSUME NEW list \in Seq(Warnings)
    PROVE  CountTrace(list)
<1> DEFINE n == Len(list)
           step == [i \in 1 .. n |-> [a \in Totals |-> a + (IF list[i].code =
                     "WARNINGS_TRUNCATED" THEN list[i].count ELSE 1)]]
           Solves(iter) == iter = [s \in SUBSET DOMAIN list |->
               IF s = {} THEN 0 ELSE iter[s \ {Max(s)}] + (IF list[Max(s)].code =
                    "WARNINGS_TRUNCATED" THEN list[Max(s)].count ELSE 1)]
<1>1. n \in Nat /\ DOMAIN list = 1 .. n /\ 0 \in Totals
  BY DEF Totals
<1>2. \A i \in 1 .. n : \A a \in Totals : a + (IF list[i].code = "WARNINGS_TRUNCATED"
        THEN list[i].count ELSE 1) \in Totals
  <2> SUFFICES ASSUME NEW i \in 1 .. n, NEW a \in Totals
               PROVE  a + (IF list[i].code = "WARNINGS_TRUNCATED" THEN list[i].count ELSE 1)
                          \in Totals
    OBVIOUS
  <2>1. list[i] \in Warnings
    OBVIOUS
  <2> QED BY <2>1 DEF Warnings, Totals
<1> HIDE DEF n
<1>3. step \in StepsOf(Totals, n)
  BY <1>2 DEF StepsOf
<1>4. Counted(list) = (CHOOSE iter : Solves(iter))[1 .. n]
  BY <1>1 DEF Counted, FoldLeft, MapThenFoldSet
<1>5. \E iter : Solves(iter)
  <2>1. PICK iter : FoldSolution(iter, Totals, 0, step, n)
    <3> HIDE DEF step
    <3> QED BY ONLY <1>1, <1>3, FoldExists
  <2>2. \A s \in SUBSET (1 .. n) : s # {} => Max(s) \in 1 .. n /\ iter[s \ {Max(s)}] \in Totals
    BY ONLY <1>1, <2>1, MaxOfInitial DEF FoldSolution
  <2>3. \A s \in SUBSET (1 .. n) : s # {} =>
            step[Max(s)][iter[s \ {Max(s)}]] = iter[s \ {Max(s)}] + (IF list[Max(s)].code =
              "WARNINGS_TRUNCATED" THEN list[Max(s)].count ELSE 1)
    BY ONLY <2>2
  <2> HIDE DEF step
  <2>4. Solves(iter)
    BY ONLY <1>1, <2>1, <2>3 DEF FoldOver, FoldSolution
  <2> QED BY <2>4
<1>6. PICK iter : Solves(iter) /\ Counted(list) = iter[1 .. n]
  <2> HIDE DEF Solves
  <2> QED BY ONLY <1>4, <1>5
<1>7. Computes(iter, Totals, 0, step, n)
  BY ONLY <1>1, <1>6, MaxOfInitial DEF Computes
<1>8. PICK g : FoldTrace(g, Totals, 0, step, n) /\ g[n] = iter[1 .. n]
  <2> HIDE DEF step, Solves
  <2> QED BY ONLY <1>1, <1>3, <1>7, FoldSteps
<1>9. \A i \in 1 .. n : g[i - 1] \in Totals
        /\ g[i] = g[i - 1] + (IF list[i].code = "WARNINGS_TRUNCATED" THEN list[i].count ELSE 1)
  BY ONLY <1>1, <1>8 DEF FoldTrace
<1>10. \A i \in 0 .. n : g[i] \in Totals
  BY ONLY <1>8 DEF FoldTrace
<1>11. g[0] = 0 /\ g[n] = Counted(list)
  BY ONLY <1>6, <1>8 DEF FoldTrace
<1> HIDE DEF step, Solves
<1> QED BY <1>9, <1>10, <1>11 DEF n, CountTrace

\* The same in terms of the weight of a warning.
LEMMA CountedIs ==
    ASSUME NEW list \in Seq(Warnings)
    PROVE  \E g : /\ g[0] = 0 /\ g[Len(list)] = Counted(list)
                  /\ \A i \in 0 .. Len(list) : g[i] \in Nat
                  /\ \A i \in 1 .. Len(list) : g[i] = g[i - 1] + Weight(list[i])
<1>1. CountTrace(list)
  BY CountSteps
<1> QED BY <1>1 DEF CountTrace, Weight, Totals

\* A warning stands for a number of warnings.
LEMMA WeightIs ==
    ASSUME NEW w \in Warnings
    PROVE  Weight(w) \in Nat
BY DEF Weight, Warnings

\* Nothing counts as nothing.
LEMMA CountedNone == Counted(<<>>) = 0
<1>1. <<>> \in Seq(Warnings) /\ Len(<<>>) = 0
  OBVIOUS
<1>2. PICK g : g[0] = 0 /\ g[Len(<<>>)] = Counted(<<>>)
  BY <1>1, CountedIs
<1> QED BY <1>1, <1>2

\* What two lists stand for adds up.
LEMMA CountedJoin ==
    ASSUME NEW a \in Seq(Warnings), NEW b \in Seq(Warnings)
    PROVE  /\ a \o b \in Seq(Warnings)
           /\ Counted(a) \in Nat /\ Counted(b) \in Nat
           /\ Counted(a \o b) = Counted(a) + Counted(b)
<1>1. /\ a \o b \in Seq(Warnings) /\ Len(a \o b) = Len(a) + Len(b)
      /\ Len(a) \in Nat /\ Len(b) \in Nat
      /\ \A i \in 1 .. Len(a) : (a \o b)[i] = a[i]
      /\ \A i \in 1 .. Len(b) : (a \o b)[Len(a) + i] = b[i]
  BY JoinIsSeq
<1>2. PICK f : /\ f[0] = 0 /\ f[Len(a)] = Counted(a)
               /\ \A i \in 0 .. Len(a) : f[i] \in Nat
               /\ \A i \in 1 .. Len(a) : f[i] = f[i - 1] + Weight(a[i])
  BY CountedIs
<1>3. PICK g : /\ g[0] = 0 /\ g[Len(b)] = Counted(b)
               /\ \A i \in 0 .. Len(b) : g[i] \in Nat
               /\ \A i \in 1 .. Len(b) : g[i] = g[i - 1] + Weight(b[i])
  BY CountedIs
<1>4. PICK h : /\ h[0] = 0 /\ h[Len(a \o b)] = Counted(a \o b)
               /\ \A i \in 0 .. Len(a \o b) : h[i] \in Nat
               /\ \A i \in 1 .. Len(a \o b) : h[i] = h[i - 1] + Weight((a \o b)[i])
  BY <1>1, CountedIs
<1>5. PICK m \in Nat, n \in Nat : m = Len(a) /\ n = Len(b)
  BY <1>1
<1>6. \A i \in 1 .. m : Weight(a[i]) \in Nat
  BY <1>5, WeightIs
<1>7. \A i \in 1 .. n : Weight(b[i]) \in Nat
  BY <1>5, WeightIs
<1>8. \A i \in 1 .. m : h[i] = h[i - 1] + Weight(a[i])
  <2> SUFFICES ASSUME NEW i \in 1 .. m PROVE h[i] = h[i - 1] + Weight(a[i])
    OBVIOUS
  <2>1. i \in 1 .. Len(a \o b) /\ (a \o b)[i] = a[i]
    BY <1>1, <1>5
  <2> QED BY <1>4, <2>1
<1>9. \A i \in 1 .. n : h[m + i] = h[m + i - 1] + Weight(b[i])
  <2> SUFFICES ASSUME NEW i \in 1 .. n PROVE h[m + i] = h[m + i - 1] + Weight(b[i])
    OBVIOUS
  <2>1. m + i \in 1 .. Len(a \o b) /\ (a \o b)[m + i] = b[i]
    BY <1>1, <1>5
  <2> QED BY <1>4, <2>1
<1>10. PICK Good : Good = {i \in 0 .. m : h[i] = f[i]}
  OBVIOUS
<1>11. \A i \in 0 .. m : i \in Good
  <2>1. 0 \in Good
    BY <1>2, <1>4, <1>5, <1>10
  <2>2. \A i \in 1 .. m : i - 1 \in Good => i \in Good
    BY <1>2, <1>5, <1>8, <1>10
  <2> QED BY ONLY <2>1, <2>2, m \in Nat, KeptByAll
<1>12. h[m] = f[m]
  BY <1>10, <1>11
<1>13. PICK More : More = {i \in 0 .. n : h[m + i] = f[m] + g[i]}
  OBVIOUS
<1>14. \A i \in 0 .. n : i \in More
  <2>1. 0 \in More
    BY <1>2, <1>3, <1>5, <1>12, <1>13
  <2>2. ASSUME NEW i \in 1 .. n, i - 1 \in More
        PROVE  i \in More
    <3>1. h[m + (i - 1)] = f[m] + g[i - 1]
      BY <1>13, <2>2
    <3>2. m + (i - 1) = m + i - 1
      OBVIOUS
    <3>3. g[i] = g[i - 1] + Weight(b[i])
      BY <1>3, <1>5
    <3>4. f[m] \in Nat /\ g[i - 1] \in Nat /\ Weight(b[i]) \in Nat
      BY <1>2, <1>3, <1>5, <1>7
    <3>5. h[m + i] = f[m] + g[i]
      BY <1>9, <3>1, <3>2, <3>3, <3>4
    <3> QED BY <1>13, <3>5
  <2> QED BY ONLY <2>1, <2>2, n \in Nat, KeptByAll
<1>15. h[m + n] = f[m] + g[n]
  BY <1>13, <1>14
<1> QED BY <1>1, <1>2, <1>3, <1>4, <1>5, <1>15

\* One more warning.
LEMMA CountedAppend ==
    ASSUME NEW a \in Seq(Warnings), NEW w \in Warnings
    PROVE  /\ Counted(Append(a, w)) = Counted(a) + Weight(w)
           /\ Counted(a) \in Nat /\ Weight(w) \in Nat
<1>1. <<w>> \in Seq(Warnings) /\ Len(<<w>>) = 1
  BY OneIsSeq
<1>2. PICK g : /\ g[0] = 0 /\ g[Len(<<w>>)] = Counted(<<w>>)
               /\ \A i \in 1 .. Len(<<w>>) : g[i] = g[i - 1] + Weight(<<w>>[i])
  BY <1>1, CountedIs
<1>3. Weight(w) \in Nat
  BY WeightIs
<1>4. Counted(<<w>>) = Weight(w)
  <2>1. g[1] = g[0] + Weight(w)
    BY <1>1, <1>2
  <2> QED BY <1>1, <1>2, <1>3, <2>1
<1>5. Counted(a \o <<w>>) = Counted(a) + Counted(<<w>>) /\ Counted(a) \in Nat
  BY <1>1, CountedJoin
<1>6. Append(a, w) = a \o <<w>>
  OBVIOUS
<1> QED BY <1>3, <1>4, <1>5, <1>6

\* The states of a collector: it keeps fewer warnings than its limit.
Collectors(limit) ==
    {c \in [limit : {limit}, retained : Seq(Warnings), omitted : Nat] :
        Len(c.retained) <= limit - 1}

\* The number of warnings a collector stands for.
Represented(c) == Counted(c.retained) + c.omitted

\* A warning is kept or counted.
LEMMA AddWarningIs ==
    ASSUME NEW limit \in Nat \ {0}, NEW c \in Collectors(limit), NEW w \in Warnings
    PROVE  AddWarning(c, w) \in Collectors(limit) /\ Represented(AddWarning(c, w)) =
             Represented(c) + Weight(w)
<1>1. PICK retained \in Seq(Warnings), omitted \in Nat :
          retained = c.retained /\ omitted = c.omitted /\ Len(retained) <= limit - 1
  BY DEF Collectors
<1>2. c = [limit |-> limit, retained |-> retained, omitted |-> omitted]
  BY <1>1 DEF Collectors
<1>3. PICK count \in Nat : count = w.count
  BY DEF Warnings
<1>4. Counted(retained) \in Nat /\ Weight(w) \in Nat
      /\ Counted(Append(retained, w)) = Counted(retained) + Weight(w)
  BY CountedAppend
<1>5. PICK more : more = Append(retained, w)
  OBVIOUS
<1>6. more \in Seq(Warnings) /\ Len(more) = Len(retained) + 1 /\ Len(retained) \in Nat
  BY <1>5, AppendIsSeq
<1>7. CASE w.code = "WARNINGS_TRUNCATED"
  <2>1. AddWarning(c, w) = [limit |-> limit, retained |-> retained, omitted |-> omitted + count]
    BY <1>2, <1>3, <1>7 DEF AddWarning
  <2>2. Weight(w) = count
    BY <1>3, <1>7 DEF Weight
  <2>3. AddWarning(c, w) \in Collectors(limit)
    BY <1>1, <2>1 DEF Collectors
  <2>4. Represented(AddWarning(c, w)) = Represented(c) + Weight(w)
    BY <1>2, <1>4, <2>1, <2>2 DEF Represented
  <2> QED BY <2>3, <2>4
<1>8. CASE w.code # "WARNINGS_TRUNCATED" /\ Len(retained) < limit - 1
  <2>1. AddWarning(c, w) = [limit |-> limit, retained |-> more, omitted |-> omitted]
    BY <1>2, <1>5, <1>8 DEF AddWarning
  <2>2. AddWarning(c, w) \in Collectors(limit)
    BY <1>6, <1>8, <2>1 DEF Collectors
  <2>3. Represented(AddWarning(c, w)) = Represented(c) + Weight(w)
    <3>1. Counted(more) = Counted(retained) + Weight(w)
      BY ONLY <1>4, <1>5
    <3>2. Represented(AddWarning(c, w)) = Counted(more) + omitted
      BY ONLY <2>1 DEF Represented
    <3>3. Represented(c) = Counted(retained) + omitted
      BY ONLY <1>2 DEF Represented
    <3> QED BY ONLY <1>4, <3>1, <3>2, <3>3, omitted \in Nat
  <2> QED BY <2>2, <2>3
<1>9. CASE w.code # "WARNINGS_TRUNCATED" /\ ~(Len(retained) < limit - 1)
  <2>1. AddWarning(c, w) = [limit |-> limit, retained |-> retained, omitted |-> omitted + 1]
    BY <1>2, <1>9 DEF AddWarning
  <2>2. Weight(w) = 1
    BY <1>9 DEF Weight
  <2>3. AddWarning(c, w) \in Collectors(limit)
    BY <1>1, <2>1 DEF Collectors
  <2>4. Represented(AddWarning(c, w)) = Represented(c) + Weight(w)
    BY <1>2, <1>4, <2>1, <2>2 DEF Represented
  <2> QED BY <2>3, <2>4
<1> QED BY <1>7, <1>8, <1>9

\* The collector after every warning.
AddTrace(c, list, limit) ==
    \E g :
        /\ g[0] = c
        /\ g[Len(list)] = AddWarnings(c, list)
        /\ \A i \in 0 .. Len(list) : g[i] \in Collectors(limit)
        /\ \A i \in 1 .. Len(list) :
              /\ g[i - 1] \in Collectors(limit)
              /\ g[i] = AddWarning(g[i - 1], list[i])

\* The warnings are added one after the other.
LEMMA AddSteps ==
    ASSUME NEW limit \in Nat \ {0}, NEW c \in Collectors(limit), NEW list \in Seq(Warnings)
    PROVE  AddTrace(c, list, limit)
<1> DEFINE n == Len(list)
           step == [i \in 1 .. n |-> [a \in Collectors(limit) |-> AddWarning(a, list[i])]]
           Solves(iter) == iter = [s \in SUBSET DOMAIN list |->
               IF s = {} THEN c ELSE AddWarning(iter[s \ {Max(s)}], list[Max(s)])]
<1>1. n \in Nat /\ DOMAIN list = 1 .. n /\ c \in Collectors(limit)
  OBVIOUS
<1>2. \A i \in 1 .. n : \A a \in Collectors(limit) : AddWarning(a, list[i]) \in Collectors(limit)
  <2> SUFFICES ASSUME NEW i \in 1 .. n, NEW a \in Collectors(limit)
               PROVE  AddWarning(a, list[i]) \in Collectors(limit)
    OBVIOUS
  <2>1. list[i] \in Warnings
    OBVIOUS
  <2> QED BY <2>1, AddWarningIs
<1> HIDE DEF n
<1>3. step \in StepsOf(Collectors(limit), n)
  BY <1>2 DEF StepsOf
<1>4. AddWarnings(c, list) = (CHOOSE iter : Solves(iter))[1 .. n]
  BY <1>1 DEF AddWarnings, FoldLeft, MapThenFoldSet
<1>5. \E iter : Solves(iter)
  <2>1. PICK iter : FoldSolution(iter, Collectors(limit), c, step, n)
    <3> HIDE DEF step
    <3> QED BY ONLY <1>1, <1>3, FoldExists
  <2>2. \A s \in SUBSET (1 .. n) : s # {} => Max(s) \in 1 .. n
          /\ iter[s \ {Max(s)}] \in Collectors(limit)
    BY ONLY <1>1, <2>1, MaxOfInitial DEF FoldSolution
  <2>3. \A s \in SUBSET (1 .. n) : s # {} =>
            step[Max(s)][iter[s \ {Max(s)}]] = AddWarning(iter[s \ {Max(s)}], list[Max(s)])
    BY ONLY <2>2
  <2> HIDE DEF step
  <2>4. Solves(iter)
    BY ONLY <1>1, <2>1, <2>3 DEF FoldOver, FoldSolution
  <2> QED BY <2>4
<1>6. PICK iter : Solves(iter) /\ AddWarnings(c, list) = iter[1 .. n]
  <2> HIDE DEF Solves
  <2> QED BY ONLY <1>4, <1>5
<1>7. Computes(iter, Collectors(limit), c, step, n)
  BY ONLY <1>1, <1>6, MaxOfInitial DEF Computes
<1>8. PICK g : FoldTrace(g, Collectors(limit), c, step, n) /\ g[n] = iter[1 .. n]
  <2> HIDE DEF step, Solves
  <2> QED BY ONLY <1>1, <1>3, <1>7, FoldSteps
<1>9. \A i \in 1 .. n : g[i - 1] \in Collectors(limit) /\ g[i] = AddWarning(g[i - 1], list[i])
  BY ONLY <1>1, <1>8 DEF FoldTrace
<1>10. \A i \in 0 .. n : g[i] \in Collectors(limit)
  BY ONLY <1>8 DEF FoldTrace
<1>11. g[0] = c /\ g[n] = AddWarnings(c, list)
  BY ONLY <1>6, <1>8 DEF FoldTrace
<1> HIDE DEF step, Solves
<1> QED BY <1>9, <1>10, <1>11 DEF n, AddTrace

\* A collector stands for every warning it was given.
LEMMA AddWarningsIs ==
    ASSUME NEW limit \in Nat \ {0}, NEW c \in Collectors(limit), NEW list \in Seq(Warnings)
    PROVE  /\ AddWarnings(c, list) \in Collectors(limit)
           /\ Represented(AddWarnings(c, list)) = Represented(c) + Counted(list)
           /\ Represented(c) \in Nat /\ Counted(list) \in Nat
<1>1. AddTrace(c, list, limit)
  BY ONLY limit \in Nat \ {0}, c \in Collectors(limit), list \in Seq(Warnings), AddSteps
<1>2. PICK h : /\ h[0] = c /\ h[Len(list)] = AddWarnings(c, list)
               /\ \A i \in 0 .. Len(list) : h[i] \in Collectors(limit)
               /\ \A i \in 1 .. Len(list) : h[i] = AddWarning(h[i - 1], list[i])
  BY <1>1 DEF AddTrace
<1>3. PICK g : /\ g[0] = 0 /\ g[Len(list)] = Counted(list)
               /\ \A i \in 0 .. Len(list) : g[i] \in Nat
               /\ \A i \in 1 .. Len(list) : g[i] = g[i - 1] + Weight(list[i])
  BY CountedIs
<1>4. PICK n \in Nat : n = Len(list)
  OBVIOUS
<1>5. Represented(c) \in Nat
  <2>1. c.retained \in Seq(Warnings) /\ c.omitted \in Nat
    BY DEF Collectors
  <2>2. <<>> \in Seq(Warnings)
    OBVIOUS
  <2>3. Counted(c.retained) \in Nat
    BY <2>1, <2>2, CountedJoin
  <2> QED BY <2>1, <2>3 DEF Represented
<1>6. PICK Good : Good = {i \in 0 .. n : Represented(h[i]) = Represented(c) + g[i]}
  OBVIOUS
<1>7. \A i \in 0 .. n : i \in Good
  <2>1. 0 \in Good
    BY <1>2, <1>3, <1>4, <1>5, <1>6
  <2>2. ASSUME NEW i \in 1 .. n, i - 1 \in Good
        PROVE  i \in Good
    <3>1. Represented(h[i - 1]) = Represented(c) + g[i - 1] /\ h[i - 1] \in Collectors(limit)
      BY <1>2, <1>4, <1>6, <2>2
    <3>2. list[i] \in Warnings
      BY <1>4
    <3>3. Represented(AddWarning(h[i - 1], list[i])) = Represented(h[i - 1]) + Weight(list[i])
      BY <3>1, <3>2, AddWarningIs
    <3>4. Weight(list[i]) \in Nat
      BY <3>2, WeightIs
    <3>5. g[i] = g[i - 1] + Weight(list[i]) /\ g[i - 1] \in Nat
            /\ h[i] = AddWarning(h[i - 1], list[i])
      BY <1>2, <1>3, <1>4
    <3>6. Represented(h[i]) = Represented(c) + g[i]
      BY <1>5, <3>1, <3>3, <3>4, <3>5
    <3> QED BY <1>6, <3>6
  <2> QED BY ONLY <2>1, <2>2, n \in Nat, KeptByAll
<1>8. n \in 0 .. n
  OBVIOUS
<1> QED BY <1>2, <1>3, <1>4, <1>5, <1>6, <1>7, <1>8

\* A new collector.
LEMMA CollectorIs ==
    ASSUME NEW limit \in Nat \ {0}
    PROVE  Collector(limit) \in Collectors(limit) /\ Represented(Collector(limit)) = 0
BY CountedNone DEF Collector, Collectors, Represented

\* The warnings that are shown stand for all of them, within the limit.
LEMMA CollectedWarningsAre ==
    ASSUME NEW limit \in Nat \ {0}, NEW c \in Collectors(limit)
    PROVE  /\ CollectedWarnings(c) \in Seq(Warnings)
           /\ Len(CollectedWarnings(c)) <= limit
           /\ Counted(CollectedWarnings(c)) = Represented(c)
<1>1. PICK retained \in Seq(Warnings), omitted \in Nat :
          retained = c.retained /\ omitted = c.omitted /\ Len(retained) <= limit - 1
  BY DEF Collectors
<1>2. PICK w : w = [code |-> "WARNINGS_TRUNCATED", count |-> omitted]
  OBVIOUS
<1>3. w \in Warnings /\ Weight(w) = omitted
  BY <1>2 DEF Warnings, WarningCodes, Weight
<1>4. Counted(retained) \in Nat /\ Counted(Append(retained, w)) = Counted(retained) + Weight(w)
  BY <1>3, CountedAppend
<1>5. PICK more : more = Append(retained, w)
  OBVIOUS
<1>6. more \in Seq(Warnings) /\ Len(more) = Len(retained) + 1 /\ Len(retained) \in Nat
  BY <1>3, <1>5, AppendIsSeq
<1>7. CollectedWarnings(c) = IF omitted = 0 THEN retained ELSE more
  BY <1>1, <1>2, <1>5 DEF CollectedWarnings
<1>8. Represented(c) = Counted(retained) + omitted
  BY <1>1 DEF Represented
<1> QED BY <1>1, <1>3, <1>4, <1>5, <1>6, <1>7, <1>8

(***************************************************************************)
(* The preflight of a workbook.                                            *)
(***************************************************************************)
PlaceSets == SUBSET SheetPlaces
Scans == [error : ParserCodes, nodes : Nat, total : Nat, possible : Nat, coords : PlaceSets,
          merged : SUBSET SheetRanges, materializing : SUBSET SheetRanges, sheets : Seq(PlaceSets)]

\* The limits are numbers.
LEMMA LimitsAre ==
    /\ MaxRows \in Nat \ {0} /\ MaxColumns \in Nat /\ MaxRowCoordinate \in Nat
    /\ XlsxMaxRow \in Nat /\ XlsxMaxColumn \in Nat /\ MaxXmlNodes \in Nat
    /\ MaxPhysicalCells \in Nat /\ MaxMergedArea \in Nat /\ MaxTotalMergedArea \in Nat
    /\ MaxParserWarnings \in Nat \ {0}
BY ParserAssumption

\* What a failure changes.
Failed(scan, condition, out) ==
    /\ out \in Scans
    /\ scan.error # "none" => out = scan
    /\ out.error = "none" => scan.error = "none" /\ ~condition /\ out = scan
    /\ out.possible = scan.possible /\ out.coords = scan.coords /\ out.merged = scan.merged
    /\ out.materializing = scan.materializing /\ out.sheets = scan.sheets
    /\ out.total = scan.total

\* A scan fails on a condition, or stays as it is.
LEMMA FailIfIs ==
    ASSUME NEW scan \in Scans, NEW condition \in BOOLEAN, NEW code \in ParserCodes \ {"none"},
           NEW out, out = FailIf(scan, condition, code)
    PROVE  Failed(scan, condition, out)
<1>1. CASE scan.error = "none" /\ condition
  <2>1. out = [scan EXCEPT !.error = code]
    BY <1>1 DEF FailIf, Fail
  <2>2. out \in Scans
    BY <2>1 DEF Scans
  <2>3. /\ out.error = code /\ out.possible = scan.possible /\ out.coords = scan.coords
        /\ out.merged = scan.merged /\ out.materializing = scan.materializing
        /\ out.sheets = scan.sheets /\ out.total = scan.total
    BY <2>1 DEF Scans
  <2> QED BY <1>1, <2>2, <2>3 DEF Failed
<1>2. CASE ~(scan.error = "none" /\ condition)
  <2>1. out = scan
    BY <1>2 DEF FailIf
  <2> QED BY <1>2, <2>1 DEF Failed
<1> QED BY <1>1, <1>2

\* The area of a range is the number of its cells.
LEMMA AreaIs ==
    ASSUME NEW r \in SheetRanges
    PROVE  /\ Area(r) \in Nat /\ IsFiniteSet(Cells(r)) /\ Cardinality(Cells(r)) = Area(r)
           /\ Cells(r) \subseteq SheetPlaces
<1>1. PICK a \in Nat, b \in Nat, c \in Nat, d \in Nat :
          /\ r[1] = a /\ r[2] = b /\ r[3] = c /\ r[4] = d /\ a <= c /\ b <= d
          /\ 1 <= a /\ 1 <= b /\ c <= XlsxMaxRow /\ d <= XlsxMaxColumn
  BY LimitsAre DEF SheetRanges
<1>2. IsFiniteSet(a .. c) /\ Cardinality(a .. c) = c - a + 1
  <2>1. a \in Int /\ c \in Int /\ ~(a > c)
    BY <1>1
  <2> QED BY ONLY <2>1, FS_Interval
<1>3. IsFiniteSet(b .. d) /\ Cardinality(b .. d) = d - b + 1
  <2>1. b \in Int /\ d \in Int /\ ~(b > d)
    BY <1>1
  <2> QED BY ONLY <2>1, FS_Interval
<1>4. /\ IsFiniteSet((a .. c) \X (b .. d))
      /\ Cardinality((a .. c) \X (b .. d)) = Cardinality(a .. c) * Cardinality(b .. d)
  BY <1>2, <1>3, FS_Product
<1>5. PICK h \in Nat, w \in Nat : h = c - a + 1 /\ w = d - b + 1
  BY <1>1
<1>6. h * w \in Nat
  OBVIOUS
<1>7. Area(r) = h * w
  BY <1>1, <1>5 DEF Area
<1>8. Cells(r) = (a .. c) \X (b .. d)
  BY <1>1 DEF Cells
<1>9. a .. c \subseteq 1 .. XlsxMaxRow /\ b .. d \subseteq 1 .. XlsxMaxColumn
  BY <1>1, LimitsAre
<1>10. Cells(r) \subseteq SheetPlaces
  BY <1>8, <1>9 DEF SheetPlaces
<1> QED BY <1>2, <1>3, <1>4, <1>5, <1>6, <1>7, <1>8, <1>10

\* The cells that are accounted for, and those an element stands for.
Accounted(scan) == scan.coords \cup (UNION {Cells(r) : r \in scan.materializing})
CellsOf(e) == IF e.tag = "c" THEN {e.at}
              ELSE IF e.tag \in {"mergeCell", "hyperlink"} THEN Cells(e.range) ELSE {}

\* A step that accounts for some cells: the count grows by the new ones.
Counts(scan, cells, out) ==
    /\ out \in Scans /\ out.sheets = scan.sheets
    /\ scan.error # "none" => out.error # "none"
    /\ out.error = "none" =>
          \E extra : \E n \in Nat :
             /\ IsFiniteSet(extra) /\ Cardinality(extra) = n
             /\ Accounted(out) = Accounted(scan) \cup extra
             /\ cells \subseteq Accounted(out)
             /\ out.possible = scan.possible + n
             /\ n = 0 \/ out.possible <= MaxPhysicalCells

\* A step that creates no cell.
Same(scan, out) ==
    /\ out \in Scans /\ out.sheets = scan.sheets
    /\ scan.error # "none" => out.error # "none"
    /\ out.possible = scan.possible /\ out.coords = scan.coords
    /\ out.materializing = scan.materializing

\* A failure creates no cell.
LEMMA FailedIsSame ==
    ASSUME NEW scan \in Scans, NEW condition \in BOOLEAN, NEW code \in ParserCodes \ {"none"},
           NEW out, out = FailIf(scan, condition, code)
    PROVE  Same(scan, out)
BY FailIfIs DEF Failed, Same

\* What is counted after a step that counts nothing.
LEMMA SameThenCounts ==
    ASSUME NEW a, NEW b, NEW c, NEW cells, Same(a, b), Counts(b, cells, c)
    PROVE  Counts(a, cells, c)
<1>1. Accounted(b) = Accounted(a)
  BY DEF Same, Accounted
<1>2. b.possible = a.possible /\ b.sheets = a.sheets /\ (a.error # "none" => b.error # "none")
  BY DEF Same
<1> HIDE DEF Accounted
<1> QED BY <1>1, <1>2 DEF Counts

\* What is counted before a step that counts nothing.
LEMMA CountsThenSame ==
    ASSUME NEW a, NEW b, NEW c, NEW cells, Counts(a, cells, b), Same(b, c)
    PROVE  Counts(a, cells, c)
<1>1. Accounted(c) = Accounted(b)
  BY DEF Same, Accounted
<1>2. /\ c.possible = b.possible /\ c.sheets = b.sheets /\ (b.error # "none" => c.error # "none")
      /\ c \in Scans
  BY DEF Same
<1> QED BY <1>1, <1>2 DEF Counts

\* A step that counts nothing counts no cells.
LEMMA SameIsNothing ==
    ASSUME NEW a \in Scans, NEW b, Same(a, b)
    PROVE  Counts(a, {}, b)
<1>1. Accounted(b) = Accounted(a) \cup {}
  BY DEF Same, Accounted
<1>2. /\ b \in Scans /\ b.sheets = a.sheets /\ (a.error # "none" => b.error # "none")
      /\ b.possible = a.possible /\ a.possible \in Nat
  BY DEF Same, Scans
<1>3. b.possible = a.possible + 0 /\ 0 \in Nat
  BY <1>2
<1>4. IsFiniteSet({}) /\ Cardinality({}) = 0
  BY FS_EmptySet
<1>5. {} \subseteq Accounted(b)
  OBVIOUS
<1> QED BY ONLY <1>1, <1>2, <1>3, <1>4, <1>5 DEF Counts

\* A range that is materialized.
LEMMA MaterializeIs ==
    ASSUME NEW scan \in Scans, NEW range \in SheetRanges, NEW out,
           out = Materialize(scan, range)
    PROVE  Counts(scan, Cells(range), out)
<1>1. PICK n \in Nat : n = IF range \in scan.materializing THEN 0 ELSE Area(range)
  BY AreaIs
<1>2a. PICK possible : possible = scan.possible + n
  OBVIOUS
<1>2b. PICK ranges : ranges = scan.materializing \cup {range}
  OBVIOUS
<1>2. /\ possible = scan.possible + n /\ ranges = scan.materializing \cup {range}
      /\ possible \in Nat /\ ranges \in SUBSET SheetRanges
  <2>1. scan.possible \in Nat /\ scan.materializing \in SUBSET SheetRanges
    BY DEF Scans
  <2>2. possible \in Nat
    BY ONLY <1>2a, <2>1, n \in Nat
  <2> QED BY <1>2a, <1>2b, <2>1, <2>2
<1>3. PICK s : s = [scan EXCEPT !.possible = possible, !.materializing = ranges]
  OBVIOUS
<1>4. s \in Scans
  BY <1>2, <1>3 DEF Scans
<1>5. /\ s.error = scan.error /\ s.possible = possible /\ s.materializing = ranges
      /\ s.coords = scan.coords /\ s.sheets = scan.sheets
  BY <1>3 DEF Scans
<1>6. PICK over \in BOOLEAN : over <=> possible > MaxPhysicalCells
  OBVIOUS
<1>7. out = FailIf(s, over, "TABLE_PHYSICAL_CELL_LIMIT_EXCEEDED")
  BY <1>1, <1>2, <1>3, <1>6 DEF Materialize
<1>8. Failed(s, over, out)
  <2>1. "TABLE_PHYSICAL_CELL_LIMIT_EXCEEDED" \in ParserCodes \ {"none"}
    BY DEF ParserCodes
  <2> QED BY <1>4, <1>7, <2>1, FailIfIs
<1>9. /\ out \in Scans /\ out.sheets = scan.sheets
      /\ scan.error # "none" => out.error # "none"
  BY <1>5, <1>8 DEF Failed
<1>10. CASE out.error = "none"
  <2>1. out = s /\ ~over
    BY <1>8, <1>10 DEF Failed
  <2>2. possible <= MaxPhysicalCells
    BY <1>2, <1>6, <2>1, LimitsAre
  <2>3. Cells(range) \subseteq Accounted(out)
    BY <1>2, <1>5, <2>1 DEF Accounted
  <2>4. PICK extra : extra = IF range \in scan.materializing THEN {} ELSE Cells(range)
    OBVIOUS
  <2>5. IsFiniteSet(extra) /\ Cardinality(extra) = n
    BY <1>1, <2>4, AreaIs, FS_EmptySet
  <2>6. Accounted(out) = Accounted(scan) \cup extra
    <3>1. Accounted(out) = scan.coords \cup (UNION {Cells(r) : r \in ranges})
      BY <1>5, <2>1 DEF Accounted
    <3>2. Accounted(scan) = scan.coords \cup (UNION {Cells(r) : r \in scan.materializing})
      BY DEF Accounted
    <3>3. CASE range \in scan.materializing
      <4>1. ranges = scan.materializing
        BY <1>2, <3>3
      <4> QED BY <2>4, <3>1, <3>2, <3>3, <4>1
    <3>4. CASE range \notin scan.materializing
      <4>1. UNION {Cells(r) : r \in ranges}
              = (UNION {Cells(r) : r \in scan.materializing}) \cup Cells(range)
        BY <1>2
      <4> QED BY <2>4, <3>1, <3>2, <3>4, <4>1
    <3> QED BY <3>3, <3>4
  <2>7. out.possible = scan.possible + n /\ out.possible <= MaxPhysicalCells
    BY <1>2, <1>5, <2>1, <2>2
  <2> QED BY ONLY <1>9, <2>3, <2>5, <2>6, <2>7, n \in Nat DEF Counts
<1> QED BY <1>9, <1>10 DEF Counts

\* The parts of PreflightElement.
NodeScan(scan) == FailIf([scan EXCEPT !.nodes = @ + 1], scan.nodes + 1 > MaxXmlNodes,
                         "TABLE_XML_NODE_LIMIT_EXCEEDED")
MergeScan(s, range) ==
    LET area == IF range \in s.merged THEN 0 ELSE Area(range)
        total == s.total + area
    IN  FailIf(FailIf([s EXCEPT !.total = total, !.merged = @ \cup {range}],
                      Area(range) > MaxMergedArea,
                      "TABLE_MERGED_CELL_LIMIT_EXCEEDED"),
               total > MaxTotalMergedArea,
               "TABLE_TOTAL_MERGED_CELL_LIMIT_EXCEEDED")
CellScan(s, element) ==
    LET counted == FailIf([s EXCEPT !.possible = @ + 1, !.coords = @ \cup {element.at}],
                          s.possible + 1 > MaxPhysicalCells,
                          "TABLE_PHYSICAL_CELL_LIMIT_EXCEEDED")
        content == element.kind # "empty"
    IN  FailIf(FailIf(counted, content /\ element.at[1] > MaxRowCoordinate,
                      "TABLE_ROW_LIMIT_EXCEEDED"),
               content /\ element.at[2] > MaxColumns, "TABLE_COLUMN_LIMIT_EXCEEDED")

\* Two steps that count nothing.
LEMMA SameTwice ==
    ASSUME NEW a, NEW b, NEW c, Same(a, b), Same(b, c)
    PROVE  Same(a, c)
BY DEF Same

\* A node is counted.
LEMMA NodeScanIs ==
    ASSUME NEW scan \in Scans, NEW out, out = NodeScan(scan)
    PROVE  Same(scan, out)
<1>1. PICK nodes \in Nat : nodes = scan.nodes + 1
  BY DEF Scans
<1>2. PICK s : s = [scan EXCEPT !.nodes = nodes]
  OBVIOUS
<1>3. s \in Scans
  BY <1>2 DEF Scans
<1>4. /\ s.error = scan.error /\ s.possible = scan.possible /\ s.coords = scan.coords
      /\ s.materializing = scan.materializing /\ s.sheets = scan.sheets
  BY <1>2 DEF Scans
<1>5. Same(scan, s)
  BY <1>3, <1>4 DEF Same
<1>6. PICK over \in BOOLEAN : over <=> nodes > MaxXmlNodes
  OBVIOUS
<1>7. out = FailIf(s, over, "TABLE_XML_NODE_LIMIT_EXCEEDED")
  BY <1>1, <1>2, <1>6 DEF NodeScan
<1>8. "TABLE_XML_NODE_LIMIT_EXCEEDED" \in ParserCodes \ {"none"}
  BY DEF ParserCodes
<1>9. Same(s, out)
  BY <1>3, <1>7, <1>8, FailedIsSame
<1> QED BY ONLY <1>5, <1>9, SameTwice

\* The area of merged cells is counted.
LEMMA MergeScanIs ==
    ASSUME NEW scan \in Scans, NEW range \in SheetRanges, NEW out, out = MergeScan(scan, range)
    PROVE  Same(scan, out)
<1>1a. PICK merged : merged = scan.merged \cup {range}
  OBVIOUS
<1>1b. PICK n \in Nat : n = IF range \in scan.merged THEN 0 ELSE Area(range)
  BY AreaIs
<1>1c. PICK total : total = scan.total + n
  OBVIOUS
<1>1. /\ total \in Nat /\ merged \in SUBSET SheetRanges /\ merged = scan.merged \cup {range}
      /\ total = scan.total + (IF range \in scan.merged THEN 0 ELSE Area(range))
  <2>1. scan.total \in Nat /\ scan.merged \in SUBSET SheetRanges
    BY DEF Scans
  <2>2. total \in Nat
    BY ONLY <1>1c, <2>1, n \in Nat
  <2> QED BY <1>1a, <1>1b, <1>1c, <2>1, <2>2
<1>2. PICK s : s = [scan EXCEPT !.total = total, !.merged = merged]
  OBVIOUS
<1>3. s \in Scans
  BY <1>1, <1>2 DEF Scans
<1>4. /\ s.error = scan.error /\ s.possible = scan.possible /\ s.coords = scan.coords
      /\ s.materializing = scan.materializing /\ s.sheets = scan.sheets
  BY <1>2 DEF Scans
<1>5. Same(scan, s)
  BY <1>3, <1>4 DEF Same
<1>6. PICK big \in BOOLEAN, over \in BOOLEAN :
          (big <=> Area(range) > MaxMergedArea) /\ (over <=> total > MaxTotalMergedArea)
  OBVIOUS
<1>7. PICK t : t = FailIf(s, big, "TABLE_MERGED_CELL_LIMIT_EXCEEDED")
  OBVIOUS
<1>8. out = FailIf(t, over, "TABLE_TOTAL_MERGED_CELL_LIMIT_EXCEEDED")
  BY <1>1, <1>2, <1>6, <1>7 DEF MergeScan
<1>9. /\ "TABLE_MERGED_CELL_LIMIT_EXCEEDED" \in ParserCodes \ {"none"}
      /\ "TABLE_TOTAL_MERGED_CELL_LIMIT_EXCEEDED" \in ParserCodes \ {"none"}
  BY DEF ParserCodes
<1>10. Same(s, t)
  BY <1>3, <1>7, <1>9, FailedIsSame
<1>11. t \in Scans
  BY <1>10 DEF Same
<1>12. Same(t, out)
  BY <1>8, <1>9, <1>11, FailedIsSame
<1>13. Same(scan, t)
  BY ONLY <1>5, <1>10, SameTwice
<1> QED BY ONLY <1>12, <1>13, SameTwice

\* A cell is counted.
LEMMA CellScanIs ==
    ASSUME NEW scan \in Scans, NEW e, e.at \in SheetPlaces, NEW out, out = CellScan(scan, e)
    PROVE  Counts(scan, {e.at}, out)
<1>1. PICK at \in SheetPlaces : at = e.at
  OBVIOUS
<1>2a. PICK possible : possible = scan.possible + 1
  OBVIOUS
<1>2b. PICK coords : coords = scan.coords \cup {at}
  OBVIOUS
<1>2. /\ possible \in Nat /\ coords \in PlaceSets
      /\ possible = scan.possible + 1 /\ coords = scan.coords \cup {at}
  <2>1. scan.possible \in Nat /\ scan.coords \in PlaceSets
    BY DEF Scans
  <2>2. possible \in Nat
    BY ONLY <1>2a, <2>1
  <2> QED BY <1>2a, <1>2b, <2>1, <2>2 DEF PlaceSets
<1>3. PICK s : s = [scan EXCEPT !.possible = possible, !.coords = coords]
  OBVIOUS
<1>4. s \in Scans
  BY <1>2, <1>3 DEF Scans
<1>5. /\ s.error = scan.error /\ s.possible = possible /\ s.coords = coords
      /\ s.materializing = scan.materializing /\ s.sheets = scan.sheets
  BY <1>3 DEF Scans
<1>6a. PICK over \in BOOLEAN : over <=> possible > MaxPhysicalCells
  OBVIOUS
<1>6b. PICK low \in BOOLEAN : low <=> (e.kind # "empty" /\ at[1] > MaxRowCoordinate)
  OBVIOUS
<1>6c. PICK far \in BOOLEAN : far <=> (e.kind # "empty" /\ at[2] > MaxColumns)
  OBVIOUS
<1>6. over \in BOOLEAN /\ low \in BOOLEAN /\ far \in BOOLEAN
  OBVIOUS
<1>7. PICK t : t = FailIf(s, over, "TABLE_PHYSICAL_CELL_LIMIT_EXCEEDED")
  OBVIOUS
<1>8. PICK u : u = FailIf(t, low, "TABLE_ROW_LIMIT_EXCEEDED")
  OBVIOUS
<1>9. out = FailIf(u, far, "TABLE_COLUMN_LIMIT_EXCEEDED")
  BY <1>1, <1>2, <1>3, <1>6a, <1>6b, <1>6c, <1>7, <1>8 DEF CellScan
<1>10. /\ "TABLE_PHYSICAL_CELL_LIMIT_EXCEEDED" \in ParserCodes \ {"none"}
       /\ "TABLE_ROW_LIMIT_EXCEEDED" \in ParserCodes \ {"none"}
       /\ "TABLE_COLUMN_LIMIT_EXCEEDED" \in ParserCodes \ {"none"}
  BY DEF ParserCodes
<1>11. Failed(s, over, t)
  BY <1>4, <1>6, <1>7, <1>10, FailIfIs
<1>12. t \in Scans /\ t.sheets = scan.sheets /\ (scan.error # "none" => t.error # "none")
  BY <1>5, <1>11 DEF Failed
<1>13. Counts(scan, {at}, t)
  <2>1. CASE t.error = "none"
    <3>1. t = s /\ possible <= MaxPhysicalCells
      BY <1>2, <1>6a, <1>11, <2>1, LimitsAre DEF Failed
    <3>2. Accounted(t) = Accounted(scan) \cup {at}
      BY <1>2, <1>5, <3>1 DEF Accounted
    <3>3. PICK extra : extra = {at}
      OBVIOUS
    <3>4. PICK n \in Nat : IsFiniteSet(extra) /\ Cardinality(extra) = n /\ n = 1
      BY <3>3, FS_Singleton
    <3>5. t.possible = scan.possible + n /\ t.possible <= MaxPhysicalCells
      BY <1>2, <1>5, <3>1, <3>4
    <3>6. {at} \subseteq Accounted(t) /\ Accounted(t) = Accounted(scan) \cup extra
      BY <3>2, <3>3
    <3> QED BY ONLY <1>12, <3>4, <3>5, <3>6 DEF Counts
  <2>2. CASE t.error # "none"
    BY <1>12, <2>2 DEF Counts
  <2> QED BY <2>1, <2>2
<1>14. Same(t, u)
  BY <1>6, <1>8, <1>10, <1>12, FailedIsSame
<1>15. u \in Scans
  BY <1>14 DEF Same
<1>16. Same(u, out)
  BY <1>6, <1>9, <1>10, <1>15, FailedIsSame
<1>17. Counts(scan, {at}, u)
  BY ONLY <1>13, <1>14, CountsThenSame
<1>18. Counts(scan, {at}, out)
  BY ONLY <1>16, <1>17, CountsThenSame
<1> QED BY <1>1, <1>18

\* One element of a sheet.
LEMMA PreflightElementIs ==
    ASSUME NEW scan \in Scans, NEW e, IsElement(e), NEW out, out = PreflightElement(scan, e)
    PROVE  Counts(scan, CellsOf(e), out)
<1>1. PICK node : node = NodeScan(scan)
  OBVIOUS
<1>2. Same(scan, node) /\ node \in Scans
  <2>1. Same(scan, node)
    BY <1>1, NodeScanIs
  <2> QED BY <2>1 DEF Same
<1>3. out = IF scan.error # "none" THEN scan
            ELSE IF e.tag = "c" THEN CellScan(node, e)
            ELSE IF e.tag = "mergeCell" THEN Materialize(MergeScan(node, e.range), e.range)
            ELSE IF e.tag = "hyperlink" THEN Materialize(node, e.range)
            ELSE node
  BY <1>1 DEF PreflightElement, NodeScan, CellScan, MergeScan
<1>4. CASE scan.error # "none"
  BY <1>3, <1>4 DEF Counts
<1>5. CASE scan.error = "none" /\ e.tag = "c"
  <2>1. e.at \in SheetPlaces
    BY <1>5 DEF IsElement
  <2>2. out = CellScan(node, e)
    BY <1>3, <1>5
  <2>3. Counts(node, {e.at}, out)
    BY ONLY <1>2, <2>1, <2>2, CellScanIs
  <2>4. Counts(scan, {e.at}, out)
    BY ONLY <1>2, <2>3, SameThenCounts
  <2> QED BY <1>5, <2>4 DEF CellsOf
<1>6. CASE scan.error = "none" /\ e.tag \in {"mergeCell", "hyperlink"}
  <2>1. PICK range \in SheetRanges : range = e.range
    BY <1>6 DEF IsElement
  <2>2. PICK s : s = IF e.tag = "mergeCell" THEN MergeScan(node, range) ELSE node
    OBVIOUS
  <2>3. out = Materialize(s, range)
    BY <1>3, <1>6, <2>1, <2>2
  <2>4. Same(scan, s) /\ s \in Scans
    <3>1. CASE e.tag = "mergeCell"
      <4>1. s = MergeScan(node, range)
        BY <2>2, <3>1
      <4>2. Same(node, s)
        BY ONLY <1>2, <4>1, range \in SheetRanges, MergeScanIs
      <4>3. Same(scan, s)
        BY ONLY <1>2, <4>2, SameTwice
      <4> QED BY <4>3 DEF Same
    <3>2. CASE e.tag # "mergeCell"
      BY <1>2, <2>2, <3>2
    <3> QED BY <3>1, <3>2
  <2>5. Counts(s, Cells(range), out)
    BY ONLY <2>3, <2>4, range \in SheetRanges, MaterializeIs
  <2>6. Counts(scan, Cells(range), out)
    BY ONLY <2>4, <2>5, SameThenCounts
  <2>7. CellsOf(e) = Cells(range)
    BY <1>6, <2>1 DEF CellsOf
  <2> QED BY <2>6, <2>7
<1>7. CASE scan.error = "none" /\ e.tag \notin {"c", "mergeCell", "hyperlink"}
  <2>1. out = node
    BY <1>3, <1>7
  <2>2. CellsOf(e) = {}
    BY <1>7 DEF CellsOf
  <2>3. Counts(scan, {}, node)
    BY <1>2, SameIsNothing
  <2> QED BY <2>1, <2>2, <2>3
<1> QED BY <1>4, <1>5, <1>6, <1>7

(***************************************************************************)
(* The preflight of a sheet, and of all sheets.                            *)
(***************************************************************************)
\* The scan after every element.
ElementTrace(start, elements) ==
    \E g :
        /\ g[0] = start
        /\ g[Len(elements)] = FoldLeft(PreflightElement, start, elements)
        /\ \A i \in 0 .. Len(elements) : g[i] \in Scans
        /\ \A i \in 1 .. Len(elements) :
              /\ g[i - 1] \in Scans
              /\ g[i] = PreflightElement(g[i - 1], elements[i])

\* The elements of a sheet are read one after the other.
LEMMA ElementSteps ==
    ASSUME NEW start \in Scans, NEW E, \A e \in E : IsElement(e), NEW elements \in Seq(E)
    PROVE  ElementTrace(start, elements)
<1> DEFINE n == Len(elements)
           step == [i \in 1 .. n |-> [a \in Scans |-> PreflightElement(a, elements[i])]]
           Solves(iter) == iter = [s \in SUBSET DOMAIN elements |->
               IF s = {} THEN start ELSE PreflightElement(iter[s \ {Max(s)}], elements[Max(s)])]
<1>1. n \in Nat /\ DOMAIN elements = 1 .. n /\ start \in Scans
  OBVIOUS
<1>2. \A i \in 1 .. n : \A a \in Scans : PreflightElement(a, elements[i]) \in Scans
  <2> SUFFICES ASSUME NEW i \in 1 .. n, NEW a \in Scans
               PROVE  PreflightElement(a, elements[i]) \in Scans
    OBVIOUS
  <2>1. IsElement(elements[i])
    OBVIOUS
  <2>2. Counts(a, CellsOf(elements[i]), PreflightElement(a, elements[i]))
    BY <2>1, PreflightElementIs
  <2> QED BY <2>2 DEF Counts
<1> HIDE DEF n
<1>3. step \in StepsOf(Scans, n)
  BY <1>2 DEF StepsOf
<1>4. FoldLeft(PreflightElement, start, elements) = (CHOOSE iter : Solves(iter))[1 .. n]
  BY <1>1 DEF FoldLeft, MapThenFoldSet
<1>5. \E iter : Solves(iter)
  <2>1. PICK iter : FoldSolution(iter, Scans, start, step, n)
    <3> HIDE DEF step
    <3> QED BY ONLY <1>1, <1>3, FoldExists
  <2>2. \A s \in SUBSET (1 .. n) : s # {} => Max(s) \in 1 .. n /\ iter[s \ {Max(s)}] \in Scans
    BY ONLY <1>1, <2>1, MaxOfInitial DEF FoldSolution
  <2>3. \A s \in SUBSET (1 .. n) : s # {} =>
            step[Max(s)][iter[s \ {Max(s)}]] = PreflightElement(iter[s \ {Max(s)}],
              elements[Max(s)])
    BY ONLY <2>2
  <2> HIDE DEF step
  <2>4. Solves(iter)
    BY ONLY <1>1, <2>1, <2>3 DEF FoldOver, FoldSolution
  <2> QED BY <2>4
<1>6. PICK iter : Solves(iter) /\ FoldLeft(PreflightElement, start, elements) = iter[1 .. n]
  <2> HIDE DEF Solves
  <2> QED BY ONLY <1>4, <1>5
<1>7. Computes(iter, Scans, start, step, n)
  BY ONLY <1>1, <1>6, MaxOfInitial DEF Computes
<1>8. PICK g : FoldTrace(g, Scans, start, step, n) /\ g[n] = iter[1 .. n]
  <2> HIDE DEF step, Solves
  <2> QED BY ONLY <1>1, <1>3, <1>7, FoldSteps
<1>9. \A i \in 1 .. n : g[i - 1] \in Scans /\ g[i] = PreflightElement(g[i - 1], elements[i])
  BY ONLY <1>1, <1>8 DEF FoldTrace
<1>10. \A i \in 0 .. n : g[i] \in Scans
  BY ONLY <1>8 DEF FoldTrace
<1>11. g[0] = start /\ g[n] = FoldLeft(PreflightElement, start, elements)
  BY ONLY <1>6, <1>8 DEF FoldTrace
<1> HIDE DEF step, Solves
<1> QED BY <1>9, <1>10, <1>11 DEF n, ElementTrace

\* The first j elements are accounted for.
Upto(start, elements, j, scan) ==
    /\ scan \in Scans /\ scan.sheets = start.sheets
    /\ start.error # "none" => scan.error # "none"
    /\ scan.error = "none" =>
          /\ IsFiniteSet(Accounted(scan))
          /\ start.possible + Cardinality(Accounted(scan)) <= scan.possible
          /\ start.possible <= MaxPhysicalCells => scan.possible <= MaxPhysicalCells
          /\ \A k \in 1 .. j : CellsOf(elements[k]) \subseteq Accounted(scan)

\* One element more is accounted for.
LEMMA OneMoreElement ==
    ASSUME NEW start, start \in Scans, NEW elements, NEW j \in Nat \ {0}, NEW a, NEW b,
           Upto(start, elements, j - 1, a), Counts(a, CellsOf(elements[j]), b)
    PROVE  Upto(start, elements, j, b)
<1>1. /\ b \in Scans /\ b.sheets = start.sheets
      /\ start.error # "none" => b.error # "none"
  BY DEF Upto, Counts
<1>2. CASE b.error # "none"
  BY <1>1, <1>2 DEF Upto
<1>3. CASE b.error = "none"
  <2>1. a.error = "none"
    BY <1>3 DEF Counts
  <2>2. PICK extra : \E n \in Nat :
             /\ IsFiniteSet(extra) /\ Cardinality(extra) = n
             /\ Accounted(b) = Accounted(a) \cup extra
             /\ CellsOf(elements[j]) \subseteq Accounted(b)
             /\ b.possible = a.possible + n
             /\ n = 0 \/ b.possible <= MaxPhysicalCells
    BY <1>3 DEF Counts
  <2>3. PICK n \in Nat :
             /\ IsFiniteSet(extra) /\ Cardinality(extra) = n
             /\ Accounted(b) = Accounted(a) \cup extra
             /\ CellsOf(elements[j]) \subseteq Accounted(b)
             /\ b.possible = a.possible + n
             /\ n = 0 \/ b.possible <= MaxPhysicalCells
    BY <2>2
  <2>4. PICK S, T, c : S = Accounted(a) /\ T = Accounted(b) /\ c = CellsOf(elements[j])
    OBVIOUS
  <2>5. /\ IsFiniteSet(S) /\ start.possible + Cardinality(S) <= a.possible
        /\ start.possible <= MaxPhysicalCells => a.possible <= MaxPhysicalCells
        /\ \A k \in 1 .. j - 1 : CellsOf(elements[k]) \subseteq S
    BY <2>1, <2>4 DEF Upto
  <2>6. T = S \cup extra /\ c \subseteq T
    BY <2>3, <2>4
  <2>7. /\ IsFiniteSet(S \cup extra)
        /\ Cardinality(S \cup extra) =
             Cardinality(S) + Cardinality(extra) - Cardinality(S \cap extra)
    BY ONLY <2>3, <2>5, FS_Union
  <2>8. Cardinality(S \cap extra) \in Nat /\ Cardinality(S) \in Nat
    BY ONLY <2>5, FS_Intersection, FS_CardinalityType
  <2>9. PICK x \in Nat, y \in Nat, p \in Nat, q \in Nat :
            /\ x = Cardinality(S) /\ y = Cardinality(S \cap extra)
            /\ p = start.possible /\ q = a.possible
    <3>1. start.possible \in Nat /\ a.possible \in Nat
      BY DEF Upto, Scans
    <3> QED BY <2>8, <3>1
  <2>10. Cardinality(T) = x + n - y /\ IsFiniteSet(T)
    BY ONLY <2>3, <2>6, <2>7, <2>9
  <2>11. p + Cardinality(T) <= q + n /\ b.possible = q + n
    <3>1. p + x <= q
      BY <2>5, <2>9
    <3>2. p + (x + n - y) <= q + n
      BY ONLY <3>1, x \in Nat, y \in Nat, p \in Nat, q \in Nat, n \in Nat
    <3> QED BY <2>3, <2>9, <2>10, <3>2
  <2>12. p <= MaxPhysicalCells => b.possible <= MaxPhysicalCells
    BY <2>3, <2>5, <2>9
  <2>13. \A k \in 1 .. j : CellsOf(elements[k]) \subseteq T
    BY <2>4, <2>5, <2>6
  <2> QED BY ONLY <1>1, <1>3, <2>4, <2>9, <2>10, <2>11, <2>12, <2>13 DEF Upto
<1> QED BY <1>2, <1>3

\* A sheet starts without cells.
SheetStart(scan) == [scan EXCEPT !.coords = {}, !.merged = {}, !.materializing = {}]
SheetRead(scan, sheet) == FoldLeft(PreflightElement, SheetStart(scan), sheet.elements)
SheetScan(scan, sheet) ==
    [SheetRead(scan, sheet) EXCEPT !.sheets = Append(@, SheetRead(scan, sheet).coords)]

\* The elements of a sheet are a list the preflight accepts the coordinates of.
IsSheet(sheet) ==
    \E E : (\A e \in E : IsElement(e)) /\ sheet.elements \in Seq(E)

\* A sheet is read.
LEMMA SheetReadIs ==
    ASSUME NEW scan \in Scans, NEW sheet, IsSheet(sheet)
    PROVE  Upto(scan, sheet.elements, Len(sheet.elements), SheetRead(scan, sheet))
<1>1. PICK E : (\A e \in E : IsElement(e)) /\ sheet.elements \in Seq(E)
  BY DEF IsSheet
<1>2. PICK elements \in Seq(E) : elements = sheet.elements
  BY <1>1
<1>3. PICK start : start = SheetStart(scan)
  OBVIOUS
<1>4. start \in Scans
  <2>1. {} \in PlaceSets /\ {} \in SUBSET SheetRanges
    BY DEF PlaceSets
  <2> QED BY <1>3, <2>1 DEF SheetStart, Scans
<1>5. /\ start.error = scan.error /\ start.possible = scan.possible /\ start.sheets = scan.sheets
      /\ start.coords = {} /\ start.materializing = {}
  BY <1>3 DEF SheetStart, Scans
<1>6. ElementTrace(start, elements)
  BY ONLY <1>1, <1>4, elements \in Seq(E), ElementSteps
<1>7. PICK g : /\ g[0] = start
               /\ g[Len(elements)] = FoldLeft(PreflightElement, start, elements)
               /\ \A i \in 0 .. Len(elements) : g[i] \in Scans
               /\ \A i \in 1 .. Len(elements) : g[i] = PreflightElement(g[i - 1], elements[i])
  BY <1>6 DEF ElementTrace
<1>8. PICK n \in Nat : n = Len(elements)
  OBVIOUS
<1>9. PICK Good : Good = {i \in 0 .. n : Upto(start, elements, i, g[i])}
  OBVIOUS
<1>10. \A i \in 0 .. n : i \in Good
  <2>1. 0 \in Good
    <3>1. Accounted(start) = {}
      BY <1>5 DEF Accounted
    <3>2. IsFiniteSet(Accounted(start)) /\ Cardinality(Accounted(start)) = 0
      BY <3>1, FS_EmptySet
    <3>3. start.possible \in Nat
      BY <1>4 DEF Scans
    <3>4. start.possible + Cardinality(Accounted(start)) <= start.possible
      BY <3>2, <3>3
    <3>5. \A k \in 1 .. 0 : CellsOf(elements[k]) \subseteq Accounted(start)
      OBVIOUS
    <3>6. Upto(start, elements, 0, start)
      BY ONLY <1>4, <3>2, <3>4, <3>5 DEF Upto
    <3> QED BY <1>7, <1>9, <3>6
  <2>2. ASSUME NEW i \in 1 .. n, i - 1 \in Good
        PROVE  i \in Good
    <3>1. Upto(start, elements, i - 1, g[i - 1])
      BY <1>9, <2>2
    <3>2. g[i - 1] \in Scans /\ g[i] = PreflightElement(g[i - 1], elements[i])
      BY <1>7, <1>8
    <3>3. IsElement(elements[i])
      BY <1>1, <1>8
    <3>4. Counts(g[i - 1], CellsOf(elements[i]), g[i])
      BY ONLY <3>2, <3>3, PreflightElementIs
    <3>5. i \in Nat \ {0}
      OBVIOUS
    <3>6. Upto(start, elements, i, g[i])
      BY ONLY <1>4, <3>1, <3>4, <3>5, OneMoreElement
    <3> QED BY <1>9, <3>6
  <2> QED BY ONLY <2>1, <2>2, n \in Nat, KeptByAll
<1>11. n \in 0 .. n
  OBVIOUS
<1>12. Upto(start, elements, n, g[n])
  BY <1>9, <1>10, <1>11
<1>13. g[n] = SheetRead(scan, sheet)
  BY <1>2, <1>3, <1>7, <1>8 DEF SheetRead
<1>14. Upto(scan, elements, n, g[n])
  BY ONLY <1>5, <1>12 DEF Upto
<1> QED BY <1>2, <1>8, <1>13, <1>14

\* The cells openpyxl creates for a sheet.
CreatedCells(sheet) ==
    {e.at : e \in {x \in ToSet(sheet.elements) : x.tag = "c"}}
    \cup UNION {Cells(e.range) : e \in {x \in ToSet(sheet.elements) :
                                           x.tag \in {"mergeCell", "hyperlink"}}}

\* What the scan of a sheet tells.
SheetScanned(scan, sheet, out) ==
    /\ out \in Scans
    /\ \E coords \in PlaceSets : out.sheets = Append(scan.sheets, coords)
    /\ out.error = "none" =>
          /\ scan.error = "none" /\ IsFiniteSet(CreatedCells(sheet))
          /\ scan.possible + Cardinality(CreatedCells(sheet)) <= out.possible
          /\ scan.possible <= MaxPhysicalCells => out.possible <= MaxPhysicalCells

\* A sheet that passes accounts for all the cells that are created for it.
LEMMA SheetScanIs ==
    ASSUME NEW scan \in Scans, NEW sheet, IsSheet(sheet), NEW out, out = SheetScan(scan, sheet)
    PROVE  SheetScanned(scan, sheet, out)
<1>1. PICK read : read = SheetRead(scan, sheet)
  OBVIOUS
<1>2. PICK elements, n : elements = sheet.elements /\ n = Len(elements)
  OBVIOUS
<1>3. Upto(scan, elements, n, read)
  BY <1>1, <1>2, SheetReadIs
<1>4. read \in Scans /\ read.sheets = scan.sheets
  BY <1>3 DEF Upto
<1>5. PICK coords \in PlaceSets : coords = read.coords
  BY <1>4 DEF Scans
<1>6. PICK sheets : sheets = Append(scan.sheets, coords)
  OBVIOUS
<1>7. out = [read EXCEPT !.sheets = sheets]
  BY <1>1, <1>4, <1>5, <1>6 DEF SheetScan
<1>8. sheets \in Seq(PlaceSets)
  <2>1. scan.sheets \in Seq(PlaceSets)
    BY DEF Scans
  <2> QED BY ONLY <1>6, <2>1, coords \in PlaceSets, AppendIsSeq
<1>9. out \in Scans
  BY <1>4, <1>7, <1>8 DEF Scans
<1>10. out.sheets = sheets /\ out.error = read.error /\ out.possible = read.possible
  BY <1>4, <1>7 DEF Scans
<1>11. CASE out.error = "none"
  <2>1. PICK S : S = Accounted(read)
    OBVIOUS
  <2>2. /\ scan.error = "none" /\ IsFiniteSet(S)
        /\ scan.possible + Cardinality(S) <= read.possible
        /\ scan.possible <= MaxPhysicalCells => read.possible <= MaxPhysicalCells
        /\ \A k \in 1 .. n : CellsOf(elements[k]) \subseteq S
    BY <1>3, <1>10, <1>11, <2>1 DEF Upto
  <2>3. PICK C : C = CreatedCells(sheet)
    OBVIOUS
  <2>4. C \subseteq S
    <3>1. \A e \in ToSet(elements) : CellsOf(e) \subseteq S
      <4>1. PICK E : elements \in Seq(E)
        BY <1>2 DEF IsSheet
      <4>2. DOMAIN elements = 1 .. n
        BY <1>2, <4>1
      <4> QED BY <2>2, <4>2 DEF ToSet
    <3>2. \A e \in ToSet(elements) : e.tag = "c" => e.at \in S
      BY <3>1 DEF CellsOf
    <3>3. \A e \in ToSet(elements) : e.tag \in {"mergeCell", "hyperlink"} =>
            Cells(e.range) \subseteq S
      BY <3>1 DEF CellsOf
    <3> QED BY <1>2, <2>3, <3>2, <3>3 DEF CreatedCells
  <2>5. IsFiniteSet(C) /\ Cardinality(C) <= Cardinality(S)
    BY ONLY <2>2, <2>4, FS_Subset
  <2>6. Cardinality(C) \in Nat /\ Cardinality(S) \in Nat
    BY ONLY <2>2, <2>5, FS_CardinalityType
  <2>7. scan.possible \in Nat /\ read.possible \in Nat
    BY <1>4 DEF Scans
  <2>8. scan.possible + Cardinality(C) <= read.possible
    BY ONLY <2>2, <2>5, <2>6, <2>7
  <2> QED BY ONLY <1>6, <1>9, <1>10, coords \in PlaceSets, <2>2, <2>3, <2>5, <2>8 DEF SheetScanned
<1>12. CASE out.error # "none"
  BY ONLY <1>6, <1>9, <1>10, <1>12, coords \in PlaceSets DEF SheetScanned
<1> QED BY <1>11, <1>12

NoScan == [error |-> "none", nodes |-> 0, total |-> 0, possible |-> 0,
           coords |-> {}, merged |-> {}, materializing |-> {}, sheets |-> <<>>]

\* The sheets of a workbook.
AllSheets(workbook, S) == workbook \in Seq(S) /\ \A s \in S : IsSheet(s)

\* The scan after every sheet.
WorkbookTrace(workbook) ==
    \E g :
        /\ g[0] = NoScan
        /\ g[Len(workbook)] = FoldLeft(SheetScan, NoScan, workbook)
        /\ \A i \in 0 .. Len(workbook) : g[i] \in Scans
        /\ \A i \in 1 .. Len(workbook) :
              /\ g[i - 1] \in Scans
              /\ g[i] = SheetScan(g[i - 1], workbook[i])

\* The sheets are read one after the other.
LEMMA WorkbookSteps ==
    ASSUME NEW S, \A s \in S : IsSheet(s), NEW workbook \in Seq(S)
    PROVE  WorkbookTrace(workbook)
<1> DEFINE n == Len(workbook)
           step == [i \in 1 .. n |-> [a \in Scans |-> SheetScan(a, workbook[i])]]
           Solves(iter) == iter = [s \in SUBSET DOMAIN workbook |->
               IF s = {} THEN NoScan ELSE SheetScan(iter[s \ {Max(s)}], workbook[Max(s)])]
<1>1. n \in Nat /\ DOMAIN workbook = 1 .. n /\ NoScan \in Scans
  <2>1. <<>> \in Seq(PlaceSets) /\ {} \in PlaceSets /\ {} \in SUBSET SheetRanges
    BY DEF PlaceSets
  <2>2. "none" \in ParserCodes
    BY DEF ParserCodes
  <2>3. NoScan \in Scans
    BY <2>1, <2>2 DEF NoScan, Scans
  <2> QED BY <2>3
<1>2. \A i \in 1 .. n : \A a \in Scans : SheetScan(a, workbook[i]) \in Scans
  <2> SUFFICES ASSUME NEW i \in 1 .. n, NEW a \in Scans
               PROVE  SheetScan(a, workbook[i]) \in Scans
    OBVIOUS
  <2>1. IsSheet(workbook[i])
    OBVIOUS
  <2>2. SheetScanned(a, workbook[i], SheetScan(a, workbook[i]))
    BY <2>1, SheetScanIs
  <2> QED BY <2>2 DEF SheetScanned
<1> HIDE DEF n
<1>3. step \in StepsOf(Scans, n)
  BY <1>2 DEF StepsOf
<1>4. FoldLeft(SheetScan, NoScan, workbook) = (CHOOSE iter : Solves(iter))[1 .. n]
  BY <1>1 DEF FoldLeft, MapThenFoldSet
<1>5. \E iter : Solves(iter)
  <2>1. PICK iter : FoldSolution(iter, Scans, NoScan, step, n)
    <3> HIDE DEF step
    <3> QED BY ONLY <1>1, <1>3, FoldExists
  <2>2. \A s \in SUBSET (1 .. n) : s # {} => Max(s) \in 1 .. n /\ iter[s \ {Max(s)}] \in Scans
    BY ONLY <1>1, <2>1, MaxOfInitial DEF FoldSolution
  <2>3. \A s \in SUBSET (1 .. n) : s # {} =>
            step[Max(s)][iter[s \ {Max(s)}]] = SheetScan(iter[s \ {Max(s)}], workbook[Max(s)])
    BY ONLY <2>2
  <2> HIDE DEF step
  <2>4. Solves(iter)
    BY ONLY <1>1, <2>1, <2>3 DEF FoldOver, FoldSolution
  <2> QED BY <2>4
<1>6. PICK iter : Solves(iter) /\ FoldLeft(SheetScan, NoScan, workbook) = iter[1 .. n]
  <2> HIDE DEF Solves
  <2> QED BY ONLY <1>4, <1>5
<1>7. Computes(iter, Scans, NoScan, step, n)
  BY ONLY <1>1, <1>6, MaxOfInitial DEF Computes
<1>8. PICK g : FoldTrace(g, Scans, NoScan, step, n) /\ g[n] = iter[1 .. n]
  <2> HIDE DEF step, Solves
  <2> QED BY ONLY <1>1, <1>3, <1>7, FoldSteps
<1>9. \A i \in 1 .. n : g[i - 1] \in Scans /\ g[i] = SheetScan(g[i - 1], workbook[i])
  BY ONLY <1>1, <1>8 DEF FoldTrace
<1>10. \A i \in 0 .. n : g[i] \in Scans
  BY ONLY <1>8 DEF FoldTrace
<1>11. g[0] = NoScan /\ g[n] = FoldLeft(SheetScan, NoScan, workbook)
  BY ONLY <1>6, <1>8 DEF FoldTrace
<1> HIDE DEF step, Solves
<1> QED BY <1>9, <1>10, <1>11 DEF n, WorkbookTrace

\* The preflight in these terms.
LEMMA PreflightIs ==
    ASSUME NEW workbook
    PROVE  Preflight(workbook) = FoldLeft(SheetScan, NoScan, workbook)
BY DEF Preflight, SheetScan, SheetRead, SheetStart, NoScan

\* The scan after i sheets.
Sheetwise(workbook, h, i) ==
    /\ h[i] \in Scans /\ Len(h[i].sheets) = i
    /\ h[i].error = "none" =>
          /\ h[i].possible <= MaxPhysicalCells
          /\ \A k \in 1 .. i :
                /\ IsFiniteSet(CreatedCells(workbook[k]))
                /\ h[k - 1].possible + Cardinality(CreatedCells(workbook[k])) <= h[k].possible

\* One more sheet is scanned.
LEMMA OneMoreSheet ==
    ASSUME NEW workbook, NEW h, NEW i \in Nat \ {0}, Sheetwise(workbook, h, i - 1),
           SheetScanned(h[i - 1], workbook[i], h[i])
    PROVE  Sheetwise(workbook, h, i)
<1>1. h[i] \in Scans /\ Len(h[i].sheets) = i
  <2>1. PICK coords \in PlaceSets : h[i].sheets = Append(h[i - 1].sheets, coords)
    BY DEF SheetScanned
  <2>2. PICK before : before = h[i - 1].sheets
    OBVIOUS
  <2>3. before \in Seq(PlaceSets) /\ Len(before) = i - 1
    BY <2>2 DEF Sheetwise, Scans
  <2>4. before \in Seq(PlaceSets)
    BY <2>3
  <2>5. Len(Append(before, coords)) = Len(before) + 1
    BY ONLY <2>4, coords \in PlaceSets, AppendIsSeq
  <2>6. Len(Append(before, coords)) = i
    BY ONLY <2>3, <2>5, i \in Nat \ {0}
  <2> QED BY <2>1, <2>2, <2>6 DEF SheetScanned
<1>2. CASE h[i].error # "none"
  BY <1>1, <1>2 DEF Sheetwise
<1>3. CASE h[i].error = "none"
  <2>1. /\ h[i - 1].error = "none" /\ IsFiniteSet(CreatedCells(workbook[i]))
        /\ h[i - 1].possible + Cardinality(CreatedCells(workbook[i])) <= h[i].possible
        /\ h[i - 1].possible <= MaxPhysicalCells => h[i].possible <= MaxPhysicalCells
    BY <1>3 DEF SheetScanned
  <2>2. /\ h[i - 1].possible <= MaxPhysicalCells
        /\ \A k \in 1 .. i - 1 :
                /\ IsFiniteSet(CreatedCells(workbook[k]))
                /\ h[k - 1].possible + Cardinality(CreatedCells(workbook[k])) <= h[k].possible
    BY <2>1 DEF Sheetwise
  <2>3. \A k \in 1 .. i : k \in 1 .. i - 1 \/ k = i
    OBVIOUS
  <2>4. \A k \in 1 .. i :
                /\ IsFiniteSet(CreatedCells(workbook[k]))
                /\ h[k - 1].possible + Cardinality(CreatedCells(workbook[k])) <= h[k].possible
    BY <2>1, <2>2, <2>3
  <2> QED BY ONLY <1>1, <1>3, <2>1, <2>2, <2>4 DEF Sheetwise
<1> QED BY <1>2, <1>3

\* The cells created after every sheet.
CreatedTrace(workbook) ==
    \E g :
        /\ g[0] = 0
        /\ g[Len(workbook)] = FoldLeft(LAMBDA m, sheet : m + Cardinality(CreatedCells(sheet)),
             0, workbook)
        /\ \A i \in 0 .. Len(workbook) : g[i] \in Totals
        /\ \A i \in 1 .. Len(workbook) :
              /\ g[i - 1] \in Totals
              /\ g[i] = g[i - 1] + Cardinality(CreatedCells(workbook[i]))

\* The cells of the sheets add up.
LEMMA CreatedSteps ==
    ASSUME NEW S, NEW workbook \in Seq(S), \A k \in 1 .. Len(workbook) :
             IsFiniteSet(CreatedCells(workbook[k]))
    PROVE  CreatedTrace(workbook)
<1> DEFINE n == Len(workbook)
           step == [i \in 1 .. n |-> [a \in Totals |-> a + Cardinality(CreatedCells(workbook[i]))]]
           Solves(iter) == iter = [s \in SUBSET DOMAIN workbook |->
               IF s = {} THEN 0 ELSE iter[s \ {Max(s)}] + Cardinality(CreatedCells(workbook[Max(s)]))]
<1>1. n \in Nat /\ DOMAIN workbook = 1 .. n /\ 0 \in Totals
  BY DEF Totals
<1>2. \A i \in 1 .. n : \A a \in Totals : a + Cardinality(CreatedCells(workbook[i])) \in Totals
  <2> SUFFICES ASSUME NEW i \in 1 .. n, NEW a \in Totals
               PROVE  a + Cardinality(CreatedCells(workbook[i])) \in Totals
    OBVIOUS
  <2>1. Cardinality(CreatedCells(workbook[i])) \in Nat
    BY FS_CardinalityType
  <2> QED BY <2>1 DEF Totals
<1> HIDE DEF n
<1>3. step \in StepsOf(Totals, n)
  BY <1>2 DEF StepsOf
<1>4. FoldLeft(LAMBDA m, sheet : m + Cardinality(CreatedCells(sheet)), 0, workbook) =
        (CHOOSE iter : Solves(iter))[1 .. n]
  BY <1>1 DEF FoldLeft, MapThenFoldSet
<1>5. \E iter : Solves(iter)
  <2>1. PICK iter : FoldSolution(iter, Totals, 0, step, n)
    <3> HIDE DEF step
    <3> QED BY ONLY <1>1, <1>3, FoldExists
  <2>2. \A s \in SUBSET (1 .. n) : s # {} => Max(s) \in 1 .. n /\ iter[s \ {Max(s)}] \in Totals
    BY ONLY <1>1, <2>1, MaxOfInitial DEF FoldSolution
  <2>3. \A s \in SUBSET (1 .. n) : s # {} =>
            step[Max(s)][iter[s \ {Max(s)}]] =
              iter[s \ {Max(s)}] + Cardinality(CreatedCells(workbook[Max(s)]))
    BY ONLY <2>2
  <2> HIDE DEF step
  <2>4. Solves(iter)
    BY ONLY <1>1, <2>1, <2>3 DEF FoldOver, FoldSolution
  <2> QED BY <2>4
<1>6. PICK iter : Solves(iter) /\ FoldLeft(LAMBDA m, sheet :
             m + Cardinality(CreatedCells(sheet)), 0, workbook) = iter[1 .. n]
  <2> HIDE DEF Solves
  <2> QED BY ONLY <1>4, <1>5
<1>7. Computes(iter, Totals, 0, step, n)
  BY ONLY <1>1, <1>6, MaxOfInitial DEF Computes
<1>8. PICK g : FoldTrace(g, Totals, 0, step, n) /\ g[n] = iter[1 .. n]
  <2> HIDE DEF step, Solves
  <2> QED BY ONLY <1>1, <1>3, <1>7, FoldSteps
<1>9. \A i \in 1 .. n : g[i - 1] \in Totals
        /\ g[i] = g[i - 1] + Cardinality(CreatedCells(workbook[i]))
  BY ONLY <1>1, <1>8 DEF FoldTrace
<1>10. \A i \in 0 .. n : g[i] \in Totals
  BY ONLY <1>8 DEF FoldTrace
<1>11. g[0] = 0 /\ g[n] = FoldLeft(LAMBDA m, sheet : m + Cardinality(CreatedCells(sheet)), 0,
         workbook)
  BY ONLY <1>6, <1>8 DEF FoldTrace
<1> HIDE DEF step, Solves
<1> QED BY <1>9, <1>10, <1>11 DEF n, CreatedTrace

\* What the preflight of a workbook tells.
Preflighted(workbook, out) ==
    /\ out \in Scans /\ Len(out.sheets) = Len(workbook)
    /\ out.error = "none" =>
          FoldLeft(LAMBDA m, sheet : m + Cardinality(CreatedCells(sheet)), 0, workbook)
              <= MaxPhysicalCells

\* A workbook that passes has no more cells created than the limit allows.
LEMMA PreflightBounds ==
    ASSUME NEW S, NEW workbook, AllSheets(workbook, S), NEW out, out = Preflight(workbook)
    PROVE  Preflighted(workbook, out)
<1>1. workbook \in Seq(S) /\ \A s \in S : IsSheet(s)
  BY DEF AllSheets
<1>2. WorkbookTrace(workbook)
  BY ONLY <1>1, WorkbookSteps
<1>3. PICK h : /\ h[0] = NoScan /\ h[Len(workbook)] = FoldLeft(SheetScan, NoScan, workbook)
               /\ \A i \in 0 .. Len(workbook) : h[i] \in Scans
               /\ \A i \in 1 .. Len(workbook) : h[i] = SheetScan(h[i - 1], workbook[i])
  BY <1>2 DEF WorkbookTrace
<1>4. PICK n \in Nat : n = Len(workbook)
  BY <1>1
<1>5. out = h[n]
  BY <1>3, <1>4, PreflightIs
<1>6. PICK Good : Good = {i \in 0 .. n : Sheetwise(workbook, h, i)}
  OBVIOUS
<1>7. \A i \in 0 .. n : i \in Good
  <2>1. 0 \in Good
    <3>1. h[0].possible = 0 /\ Len(h[0].sheets) = 0 /\ h[0] \in Scans
      BY <1>3, <1>4 DEF NoScan
    <3>2. \A k \in 1 .. 0 : FALSE
      OBVIOUS
    <3>3. 0 <= MaxPhysicalCells
      BY LimitsAre
    <3>4. Sheetwise(workbook, h, 0)
      BY <3>1, <3>2, <3>3 DEF Sheetwise
    <3> QED BY <1>6, <3>4
  <2>2. ASSUME NEW i \in 1 .. n, i - 1 \in Good
        PROVE  i \in Good
    <3>1. Sheetwise(workbook, h, i - 1)
      BY <1>6, <2>2
    <3>2. h[i - 1] \in Scans /\ h[i] = SheetScan(h[i - 1], workbook[i]) /\ IsSheet(workbook[i])
      BY <1>1, <1>3, <1>4
    <3>3. SheetScanned(h[i - 1], workbook[i], h[i])
      BY ONLY <3>2, SheetScanIs
    <3>4. i \in Nat \ {0}
      OBVIOUS
    <3>5. Sheetwise(workbook, h, i)
      BY ONLY <3>1, <3>3, <3>4, OneMoreSheet
    <3> QED BY <1>6, <3>5
  <2> QED BY ONLY <2>1, <2>2, n \in Nat, KeptByAll
<1>8. Sheetwise(workbook, h, n) /\ n \in 0 .. n
  BY <1>6, <1>7
<1>9. out \in Scans /\ Len(out.sheets) = Len(workbook)
  BY <1>4, <1>5, <1>8 DEF Sheetwise
<1>10. CASE out.error = "none"
  <2>1. /\ h[n].possible <= MaxPhysicalCells
        /\ \A k \in 1 .. n :
                /\ IsFiniteSet(CreatedCells(workbook[k]))
                /\ h[k - 1].possible + Cardinality(CreatedCells(workbook[k])) <= h[k].possible
    BY <1>5, <1>8, <1>10 DEF Sheetwise
  <2>2. CreatedTrace(workbook)
    <3>1. \A k \in 1 .. Len(workbook) : IsFiniteSet(CreatedCells(workbook[k]))
      BY <1>4, <2>1
    <3> QED BY ONLY <1>1, <3>1, CreatedSteps
  <2>3. PICK g : /\ g[0] = 0
                 /\ g[Len(workbook)]
                       = FoldLeft(LAMBDA m, sheet : m + Cardinality(CreatedCells(sheet)), 0,
                         workbook)
                 /\ \A i \in 0 .. Len(workbook) : g[i] \in Totals
                 /\ \A i \in 1 .. Len(workbook) :
                       g[i] = g[i - 1] + Cardinality(CreatedCells(workbook[i]))
    BY <2>2 DEF CreatedTrace
  <2>4. PICK Below : Below = {i \in 0 .. n : g[i] <= h[i].possible}
    OBVIOUS
  <2>5. \A i \in 0 .. n : i \in Below
    <3>1. 0 \in Below
      <4>1. h[0].possible = 0
        BY ONLY <1>3 DEF NoScan
      <4>2. g[0] = 0
        BY ONLY <2>3
      <4>4. 0 \in 0 .. n
        BY ONLY n \in Nat
      <4>3. g[0] <= h[0].possible
        BY ONLY <4>1, <4>2
      <4> QED BY ONLY <2>4, <4>3, <4>4
    <3>2. ASSUME NEW i \in 1 .. n, i - 1 \in Below
          PROVE  i \in Below
      <4>1. PICK c \in Nat : c = Cardinality(CreatedCells(workbook[i]))
        BY <2>1, FS_CardinalityType
      <4>0. i \in 0 .. Len(workbook) /\ i - 1 \in 0 .. Len(workbook)
        BY <1>4
      <4>2. PICK a \in Nat, b \in Nat : a = h[i - 1].possible /\ b = h[i].possible
        <5>1. h[i - 1] \in Scans /\ h[i] \in Scans
          BY <1>3, <4>0
        <5>2. h[i - 1].possible \in Nat /\ h[i].possible \in Nat
          BY <5>1 DEF Scans
        <5> QED BY <5>2
      <4>3. PICK x \in Nat : x = g[i - 1]
        <5>1. g[i - 1] \in Totals
          BY <2>3, <4>0
        <5> QED BY <5>1 DEF Totals
      <4>4. x <= a /\ a + c <= b
        BY <2>1, <2>4, <3>2, <4>1, <4>2, <4>3
      <4>5. g[i] = x + c
        BY <1>4, <2>3, <4>1, <4>3
      <4>6. g[i] <= b
        BY <4>4, <4>5
      <4> QED BY <2>4, <4>2, <4>6
    <3> QED BY ONLY <3>1, <3>2, n \in Nat, KeptByAll
  <2>6. g[n] <= h[n].possible /\ h[n].possible \in Nat /\ g[n] \in Nat
    BY <1>3, <1>4, <1>8, <2>3, <2>4, <2>5 DEF Scans, Totals
  <2>7. g[n] <= MaxPhysicalCells
    BY <2>1, <2>6, LimitsAre
  <2> QED BY <1>4, <1>9, <2>3, <2>7 DEF Preflighted
<1> QED BY <1>9, <1>10 DEF Preflighted

(***************************************************************************)
(* The rows of a sheet.                                                    *)
(***************************************************************************)
IsRow(r) == r.row \in Nat /\ \E V : r.values \in Seq(V)
IsRows(rows) == \E R : rows \in Seq(R) /\ \A r \in R : IsRow(r)

\* A non-empty set of coordinates up to a limit has a greatest.
LEMMA GreatestIs ==
    ASSUME NEW b \in Nat, NEW s, s \subseteq 1 .. b, s # {}
    PROVE  Max(s) \in Nat /\ Max(s) \in s
<1>1. s \in SUBSET Nat /\ \A m \in s : m <= b
  OBVIOUS
<1> QED BY ONLY <1>1, b \in Nat, s # {}, MaxOfBounded

\* The parts of WorksheetRows.
Present(sheet, coords) ==
    {at \in coords \ MergedAway(sheet) : CellAt(sheet, at).kind # "empty"}
UsedColumns(sheet, coords, row) == {at[2] : at \in {x \in Present(sheet, coords) : x[1] = row}}
ValueAt(sheet, coords, row, column) ==
    IF column \in UsedColumns(sheet, coords, row)
    THEN [kind |-> CellAt(sheet, <<row, column>>).kind,
          label |-> CellAt(sheet, <<row, column>>).label]
    ELSE NoValue
UsedRows(sheet, coords) == {at[1] : at \in Present(sheet, coords)}
RowNumbers(sheet, coords) ==
    Kept([r \in 1 .. Max({0} \cup UsedRows(sheet, coords)) |-> r], UsedRows(sheet, coords))
RowOf(sheet, coords, row) ==
    [row |-> row,
     values |-> [c \in 1 .. Max(UsedColumns(sheet, coords, row)) |->
                    ValueAt(sheet, coords, row, c)]]

\* The rows of a sheet in terms of its used rows and columns.
LEMMA WorksheetRowsInParts ==
    ASSUME NEW sheet, NEW coords
    PROVE  WorksheetRows(sheet, coords)
              = [i \in DOMAIN RowNumbers(sheet, coords) |->
                    RowOf(sheet, coords, RowNumbers(sheet, coords)[i])]
BY DEF WorksheetRows, RowOf, RowNumbers, ValueAt, UsedRows, UsedColumns, Present

\* The rows that hold a value are a list of rows.
LEMMA WorksheetRowsAre ==
    ASSUME NEW sheet, NEW coords \in PlaceSets
    PROVE  IsRows(WorksheetRows(sheet, coords))
<1>1. Present(sheet, coords) \subseteq (1 .. XlsxMaxRow) \X (1 .. XlsxMaxColumn)
  BY DEF Present, PlaceSets, SheetPlaces
<1>2. PICK present : present = Present(sheet, coords)
  OBVIOUS
<1>3. PICK used : used = UsedRows(sheet, coords)
  OBVIOUS
<1>4. used \subseteq 1 .. XlsxMaxRow
  BY <1>1, <1>3 DEF UsedRows
<1>5. PICK top \in Nat : top = Max({0} \cup used)
  <2>1. PICK s : s = {0} \cup used
    OBVIOUS
  <2>2. s \in SUBSET Nat /\ s # {} /\ (\A m \in s : m <= XlsxMaxRow) /\ XlsxMaxRow \in Nat
    BY <1>4, <2>1, LimitsAre
  <2>3. Max(s) \in Nat
    BY ONLY <2>2, MaxOfBounded
  <2> QED BY <2>1, <2>3
<1>6. PICK list : list = [r \in 1 .. top |-> r]
  OBVIOUS
<1>7. list \in Seq(1 .. top) /\ Len(list) = top
  <2>1. DOMAIN list = 1 .. top /\ list = [i \in DOMAIN list |-> list[i]]
    BY <1>6
  <2>2. \A i \in 1 .. top : list[i] \in 1 .. top
    BY <1>6
  <2> QED BY ONLY <2>1, <2>2, top \in Nat, ListIsSeq
<1>8. PICK rows : rows = Kept(list, used)
  OBVIOUS
<1>9. rows \in Seq(1 .. top) /\ \E at : PicksUpTo(at, rows, list, used, Len(list))
  <2>1. PICK T : T = 1 .. top
    OBVIOUS
  <2>2. list \in Seq(T)
    BY <1>7, <2>1
  <2>3. Kept(list, used) \in Seq(T) /\ \E at : PicksUpTo(at, Kept(list, used), list, used,
          Len(list))
    BY ONLY <2>2, KeptIs
  <2> QED BY <1>8, <2>1, <2>3
<1>10. PICK n \in Nat : n = Len(rows) /\ DOMAIN rows = 1 .. n
  BY <1>9
<1>11. ASSUME NEW i \in 1 .. n
       PROVE  rows[i] \in used /\ rows[i] \in Nat
  <2>1. PICK at : PicksUpTo(at, rows, list, used, Len(list))
    BY <1>9
  <2>2. at[i] \in 1 .. top /\ at[i] \in used /\ rows[i] = list[at[i]]
    BY <1>7, <1>10, <2>1 DEF PicksUpTo
  <2> QED BY <1>6, <2>2
<1>12. ASSUME NEW row \in used, row \in Nat
       PROVE  IsRow(RowOf(sheet, coords, row))
  <2>1. PICK columns : columns = UsedColumns(sheet, coords, row)
    OBVIOUS
  <2>2. columns \subseteq 1 .. XlsxMaxColumn
    BY <1>1, <2>1 DEF UsedColumns
  <2>3. columns # {}
    <3>1. PICK at \in present : at[1] = row
      BY <1>2, <1>3, <1>12 DEF UsedRows
    <3>2. at[2] \in columns
      BY <1>2, <2>1, <3>1 DEF UsedColumns
    <3> QED BY <3>2
  <2>4. PICK m \in Nat : m = Max(columns)
    <3>1. XlsxMaxColumn \in Nat
      BY LimitsAre
    <3> QED BY ONLY <2>2, <2>3, <3>1, GreatestIs
  <2>5. PICK values : values = [c \in 1 .. m |-> ValueAt(sheet, coords, row, c)]
    OBVIOUS
  <2>6. PICK V : V = {values[c] : c \in 1 .. m}
    OBVIOUS
  <2>7. DOMAIN values = 1 .. m /\ values = [c \in DOMAIN values |-> values[c]]
    BY <2>5
  <2>8. \A c \in 1 .. m : values[c] \in V
    BY <2>6
  <2>9. values \in Seq(V)
    BY ONLY <2>7, <2>8, m \in Nat, ListIsSeq
  <2>10. RowOf(sheet, coords, row) = [row |-> row, values |-> values]
    BY <2>1, <2>4, <2>5 DEF RowOf
  <2> QED BY <1>12, <2>9, <2>10 DEF IsRow
<1>13. PICK made : made = [i \in 1 .. n |-> RowOf(sheet, coords, rows[i])]
  OBVIOUS
<1>14. PICK R : R = {made[i] : i \in 1 .. n}
  OBVIOUS
<1>15. made \in Seq(R)
  <2>1. DOMAIN made = 1 .. n /\ made = [i \in DOMAIN made |-> made[i]]
    BY <1>13
  <2>2. \A i \in 1 .. n : made[i] \in R
    BY <1>14
  <2> QED BY ONLY <2>1, <2>2, n \in Nat, ListIsSeq
<1>16. \A r \in R : IsRow(r)
  <2>1. \A i \in 1 .. n : IsRow(RowOf(sheet, coords, rows[i]))
    BY <1>11, <1>12
  <2> QED BY <1>13, <1>14, <2>1
<1>17. WorksheetRows(sheet, coords) = made
  <2>1. RowNumbers(sheet, coords) = rows
    BY <1>3, <1>5, <1>6, <1>8 DEF RowNumbers
  <2> QED BY <1>10, <1>13, <2>1, WorksheetRowsInParts
<1> QED BY <1>15, <1>16, <1>17 DEF IsRows

\* A selection is no longer than what it is taken from.
LEMMA SelectionIsShorter ==
    ASSUME NEW n \in Nat, NEW m \in Nat, NEW at \in [1 .. m -> 1 .. n],
           \A k, l \in 1 .. m : k < l => at[k] < at[l]
    PROVE  m <= n
<1>1. PICK Good : Good = {k \in 0 .. m : k = 0 \/ k <= at[k]}
  OBVIOUS
<1>2. \A k \in 0 .. m : k \in Good
  <2>1. 0 \in Good
    BY <1>1
  <2>2. ASSUME NEW k \in 1 .. m, k - 1 \in Good
        PROVE  k \in Good
    <3>1. at[k] \in 1 .. n
      OBVIOUS
    <3>2. CASE k = 1
      BY <1>1, <3>1, <3>2
    <3>3. CASE k # 1
      <4>1. k - 1 \in 1 .. m /\ k - 1 < k /\ at[k - 1] \in 1 .. n
        BY <3>3
      <4>2. k - 1 <= at[k - 1] /\ at[k - 1] < at[k]
        BY <1>1, <2>2, <4>1
      <4> QED BY <1>1, <3>1, <4>1, <4>2
    <3> QED BY <3>2, <3>3
  <2> QED BY ONLY <2>1, <2>2, m \in Nat, KeptByAll
<1>3. CASE m = 0
  BY <1>3
<1>4. CASE m # 0
  <2>1. m \in 0 .. m /\ m \in 1 .. m
    BY <1>4
  <2>2. m <= at[m] /\ at[m] \in 1 .. n
    BY <1>1, <1>2, <1>4, <2>1
  <2> QED BY <2>2
<1> QED BY <1>3, <1>4

\* A selection of a list is no longer than the list.
LEMMA KeptIsShorter ==
    ASSUME NEW S, NEW s \in Seq(S), NEW positions
    PROVE  Len(Kept(s, positions)) <= Len(s)
<1>1. PICK kept : kept = Kept(s, positions)
  OBVIOUS
<1>2. kept \in Seq(S) /\ \E at : PicksUpTo(at, kept, s, positions, Len(s))
  BY <1>1, KeptIs
<1>3. PICK at : PicksUpTo(at, kept, s, positions, Len(s))
  BY <1>2
<1>4. PICK m \in Nat, n \in Nat : m = Len(kept) /\ n = Len(s)
  BY <1>2
<1>5. at \in [1 .. m -> 1 .. n] /\ \A k, l \in 1 .. m : k < l => at[k] < at[l]
  BY <1>3, <1>4 DEF PicksUpTo
<1>6. m <= n
  BY ONLY <1>5, m \in Nat, n \in Nat, SelectionIsShorter
<1> QED BY <1>1, <1>4, <1>6

(***************************************************************************)
(* The blocks of a table.                                                  *)
(***************************************************************************)
TableChars(T) == {"letter", "cjk_stop"} \X (T \X Nat \X Nat)

\* The text of a row is a list of characters.
LEMMA TableRowTextIs ==
    ASSUME NEW T, NEW title \in T, NEW row \in Nat, NEW V, NEW values \in Seq(V)
    PROVE  TableRowText(values, title, row) \in Seq(TableChars(T))
<1>1. PICK C : C = TableChars(T)
  OBVIOUS
<1>2. PICK SC : SC = Seq(C)
  OBVIOUS
<1>3. PICK n \in Nat : n = Len(values) /\ DOMAIN values = 1 .. n
  OBVIOUS
<1>4. PICK list : list = [c \in DOMAIN values |-> c]
  OBVIOUS
<1>5. list \in Seq(Nat)
  <2>1. DOMAIN list = 1 .. n /\ list = [c \in DOMAIN list |-> list[c]]
    BY <1>3, <1>4
  <2>2. \A c \in 1 .. n : list[c] \in Nat
    BY <1>3, <1>4
  <2> QED BY ONLY <2>1, <2>2, n \in Nat, ListIsSeq
<1>6. PICK used : used = Kept(list, {c \in DOMAIN values : values[c].kind # "empty"})
  OBVIOUS
<1>7. used \in Seq(Nat)
  BY <1>5, <1>6, KeptIs
<1>8. PICK m \in Nat : m = Len(used) /\ DOMAIN used = 1 .. m
  BY <1>7
<1> DEFINE Part(k) ==
      (IF k = 1 THEN <<>> ELSE <<<<"cjk_stop", <<title, row, 0>>>>>>)
      \o <<<<"letter", <<title, row, 0>>>>, <<"letter", <<title, row, used[k]>>>>>>
<1>9. ASSUME NEW k \in 1 .. m
      PROVE  Part(k) \in Seq(C)
  <2>1. PICK c \in Nat : c = used[k]
    BY <1>7, <1>8
  <2>2. PICK joint, x, y : /\ joint = <<"cjk_stop", <<title, row, 0>>>>
                           /\ x = <<"letter", <<title, row, 0>>>>
                           /\ y = <<"letter", <<title, row, c>>>>
    OBVIOUS
  <2>3. joint \in C /\ x \in C /\ y \in C
    BY <1>1, <2>2 DEF TableChars
  <2>4. <<joint>> \in Seq(C) /\ <<x, y>> \in Seq(C)
    BY ONLY <2>3, OneIsSeq, TwoIsSeq
  <2>5. PICK a, b : a = (IF k = 1 THEN <<>> ELSE <<joint>>) /\ b = <<x, y>>
    OBVIOUS
  <2>6. a \in Seq(C) /\ b \in Seq(C)
    BY ONLY <2>4, <2>5
  <2>7. a \o b \in Seq(C)
    BY ONLY <2>6, JoinIsSeq
  <2>8. Part(k) = a \o b
    BY <2>1, <2>2, <2>5
  <2> QED BY <2>7, <2>8
<1>10. PICK parts : parts = [k \in 1 .. m |-> Part(k)]
  <2> HIDE DEF Part
  <2> QED OBVIOUS
<1>11. parts \in Seq(SC)
  <2> HIDE DEF Part
  <2>1. \A k \in 1 .. m : parts[k] \in SC
    BY <1>2, <1>9, <1>10
  <2>2. DOMAIN parts = 1 .. m /\ parts = [k \in DOMAIN parts |-> parts[k]]
    BY <1>10
  <2> QED BY ONLY <2>1, <2>2, m \in Nat, ListIsSeq
<1>12. parts \in Seq(Seq(C))
  BY ONLY <1>2, <1>11
<1>13. FlattenSeq(parts) \in Seq(C)
  BY ONLY <1>12, FlattenIs
<1>14. TableRowText(values, title, row) = FlattenSeq(parts)
  BY <1>4, <1>6, <1>8, <1>10 DEF TableRowText
<1> QED BY <1>1, <1>13, <1>14

\* The parts of TableBlocks.
Meaningful(rows) ==
    Kept(rows, {i \in DOMAIN rows : \E c \in DOMAIN rows[i].values :
                                       rows[i].values[c].kind \notin {"empty", "blank"}})
TableHeaders(rows) ==
    LET meaningful == Meaningful(rows)
        width == Max({0} \cup {Len(meaningful[i].values) : i \in DOMAIN meaningful})
    IN  Headers([c \in 1 .. width |->
            IF c <= Len(meaningful[1].values) THEN meaningful[1].values[c] ELSE NoValue])
RowBlock(r, sheet, headers) ==
    [type |-> "table_row", text |-> TableRowText(r.values, sheet, r.row),
     meta |-> [lines |-> <<0, 0>>, heading_path |-> <<>>, sheet |-> sheet,
               row |-> r.row, headers |-> headers]]
FailingRows(rows, budget) ==
    {i \in DOMAIN Meaningful(rows) :
        budget + i > MaxRows \/ Len(Meaningful(rows)[i].values) > MaxColumns}
BlocksOfRows(rows, sheet) ==
    IF Meaningful(rows) = <<>> THEN <<>>
    ELSE [i \in 1 .. Len(Meaningful(rows)) - 1 |->
             RowBlock(Meaningful(rows)[i + 1], sheet, TableHeaders(rows))]

\* The blocks of a table in terms of its meaningful rows.
LEMMA TableBlocksInParts ==
    ASSUME NEW rows, NEW sheet, NEW budget
    PROVE  TableBlocks(rows, sheet, budget)
              = [budget |-> budget + Len(Meaningful(rows)),
                 error |-> IF FailingRows(rows, budget) = {} THEN "none"
                           ELSE IF budget + Min(FailingRows(rows, budget)) > MaxRows
                                THEN "TABLE_ROW_LIMIT_EXCEEDED"
                           ELSE "TABLE_COLUMN_LIMIT_EXCEEDED",
                 blocks |-> BlocksOfRows(rows, sheet)]
BY DEF TableBlocks, BlocksOfRows, FailingRows, RowBlock, TableHeaders, Meaningful

TableMetas(T, H) ==
    [lines : {<<0, 0>>}, heading_path : {<<>>}, sheet : T, row : Nat, headers : H]
TableRows(T, H) ==
    [type : {"table_row"}, text : Seq(TableChars(T)), meta : TableMetas(T, H)]

\* The blocks of a table: one for every row with a value but the first, and a
\* table that does not fail stays within the rows of the document.
IsTable(table, T, H, budget) ==
    /\ table.error \in ParserCodes /\ table.blocks \in Seq(TableRows(T, H))
    /\ \E n \in Nat : /\ table.budget = budget + n
                      /\ n = 0 => Len(table.blocks) = 0
                      /\ n # 0 => Len(table.blocks) = n - 1
                      /\ table.error = "none" => n = 0 \/ budget + n <= MaxRows

\* The blocks of a table are table rows, as many as its budget grows by.
LEMMA TableBlocksAre ==
    ASSUME NEW T, NEW title \in T, NEW rows, IsRows(rows), NEW H, TableHeaders(rows) \in H,
           NEW budget \in Nat
    PROVE  IsTable(TableBlocks(rows, title, budget), T, H, budget)
<1>1. PICK R : rows \in Seq(R) /\ \A r \in R : IsRow(r)
  BY DEF IsRows
<1>2. PICK meaningful : meaningful = Meaningful(rows)
  OBVIOUS
<1>3. meaningful \in Seq(R)
  BY <1>1, <1>2, KeptIs DEF Meaningful
<1>4. PICK n \in Nat : n = Len(meaningful) /\ DOMAIN meaningful = 1 .. n
  BY <1>3
<1>5. PICK headers \in H : headers = TableHeaders(rows)
  OBVIOUS
<1>6. PICK B : B = TableRows(T, H)
  OBVIOUS
<1>7. ASSUME NEW r \in R
      PROVE  RowBlock(r, title, headers) \in B
  <2>1. PICK row, values : row = r.row /\ values = r.values /\ row \in Nat
    BY <1>1 DEF IsRow
  <2>2. PICK V : values \in Seq(V)
    BY <1>1, <2>1 DEF IsRow
  <2>3. PICK text : text = TableRowText(values, title, row)
    OBVIOUS
  <2>4. text \in Seq(TableChars(T))
    BY ONLY <2>2, <2>3, title \in T, <2>1, TableRowTextIs
  <2>5. PICK meta : meta = [lines |-> <<0, 0>>, heading_path |-> <<>>, sheet |-> title,
                            row |-> row, headers |-> headers]
    OBVIOUS
  <2>6. meta \in TableMetas(T, H)
    BY <2>1, <2>5 DEF TableMetas
  <2>7. RowBlock(r, title, headers) = [type |-> "table_row", text |-> text, meta |-> meta]
    BY <2>1, <2>3, <2>5 DEF RowBlock
  <2> QED BY <1>6, <2>4, <2>6, <2>7 DEF TableRows
<1>8. PICK blocks : blocks = BlocksOfRows(rows, title)
  OBVIOUS
<1>9. /\ blocks \in Seq(B)
      /\ n = 0 => Len(blocks) = 0
      /\ n # 0 => Len(blocks) = n - 1
  <2>1. CASE n = 0
    <3>1. meaningful = <<>>
      BY <1>3, <1>4, <2>1, EmptyIs
    <3>2. blocks = <<>>
      BY <1>2, <1>8, <3>1 DEF BlocksOfRows
    <3> QED BY <2>1, <3>2
  <2>2. CASE n # 0
    <3>1. meaningful # <<>>
      BY <1>4, <2>2
    <3>2. PICK m \in Nat : m = n - 1
      BY <2>2
    <3>3. blocks = [i \in 1 .. m |-> RowBlock(meaningful[i + 1], title, headers)]
      BY <1>2, <1>4, <1>5, <1>8, <3>1, <3>2 DEF BlocksOfRows
    <3>4. \A i \in 1 .. m : blocks[i] \in B
      <4> SUFFICES ASSUME NEW i \in 1 .. m PROVE blocks[i] \in B
        OBVIOUS
      <4>1. i + 1 \in 1 .. n
        BY <3>2
      <4>2. meaningful[i + 1] \in R
        BY <1>3, <1>4, <4>1
      <4> QED BY <1>7, <3>3, <4>2
    <3>5. DOMAIN blocks = 1 .. m /\ blocks = [i \in DOMAIN blocks |-> blocks[i]]
      BY <3>3
    <3>6. blocks \in Seq(B) /\ Len(blocks) = m
      BY ONLY <3>4, <3>5, m \in Nat, ListIsSeq
    <3> QED BY <2>2, <3>2, <3>6
  <2> QED BY <2>1, <2>2
<1>10. PICK failing : failing = FailingRows(rows, budget)
  OBVIOUS
<1>11. failing = {} => n = 0 \/ budget + n <= MaxRows
  <2>1. SUFFICES ASSUME failing = {}, n # 0 PROVE budget + n <= MaxRows
    OBVIOUS
  <2>2. n \in DOMAIN meaningful
    BY <1>4, <2>1
  <2>3. ~(budget + n > MaxRows)
    BY <1>2, <1>10, <2>1, <2>2 DEF FailingRows
  <2> QED BY <2>3, LimitsAre
<1>12. PICK table : table = TableBlocks(rows, title, budget)
  OBVIOUS
<1>13. PICK code : code = IF failing = {} THEN "none"
                          ELSE IF budget + Min(failing) > MaxRows THEN "TABLE_ROW_LIMIT_EXCEEDED"
                          ELSE "TABLE_COLUMN_LIMIT_EXCEEDED"
  OBVIOUS
<1>14. code \in ParserCodes /\ (code = "none" => failing = {})
  BY <1>13 DEF ParserCodes
<1>15. table = [budget |-> budget + n, error |-> code, blocks |-> blocks]
  BY <1>2, <1>4, <1>8, <1>10, <1>12, <1>13, TableBlocksInParts
<1>16. table.error = code /\ table.blocks = blocks /\ table.budget = budget + n
  BY <1>15
<1>17. IsTable(table, T, H, budget)
  BY ONLY <1>6, <1>9, <1>11, <1>14, <1>16, n \in Nat DEF IsTable
<1> QED BY <1>12, <1>17

(***************************************************************************)
(* The sheets of a workbook one after the other.                           *)
(***************************************************************************)
Fits(read) ==
    read.error = "none" =>
       /\ read.budget <= MaxRows
       /\ Len(read.blocks) = 0 \/ Len(read.blocks) < read.budget
AllReads(T, H) == [error : ParserCodes, budget : Nat, blocks : Seq(TableRows(T, H)),
                   warnings : Collectors(MaxParserWarnings)]
Reads(T, H) == {r \in AllReads(T, H) : Fits(r)}

SheetNumbers(workbook) == [i \in DOMAIN workbook |-> i]

\* The formulas without a value are finitely many.
LEMMA UncachedFormulasAre ==
    ASSUME NEW sheet, NEW coords \in PlaceSets
    PROVE  UncachedFormulas(sheet, coords) \in Nat
<1>1. IsFiniteSet(1 .. XlsxMaxRow) /\ IsFiniteSet(1 .. XlsxMaxColumn)
  <2>1. 1 \in Int /\ XlsxMaxRow \in Int /\ XlsxMaxColumn \in Int
    BY LimitsAre
  <2> QED BY ONLY <2>1, FS_Interval
<1>2. IsFiniteSet(SheetPlaces)
  BY <1>1, FS_Product DEF SheetPlaces
<1>3. PICK U : U = {at \in coords \ MergedAway(sheet) : CellAt(sheet, at).kind = "formula"}
  OBVIOUS
<1>4. U \in SUBSET SheetPlaces
  BY <1>3 DEF PlaceSets
<1>5. IsFiniteSet(U)
  BY ONLY <1>2, <1>4, FS_Subset
<1>6. Cardinality(U) \in Nat
  BY ONLY <1>5, FS_CardinalityType
<1> QED BY <1>3, <1>6 DEF UncachedFormulas

\* The warnings of a table.
LEMMA TableWarningsAre ==
    ASSUME NEW table, NEW formulas \in Nat
    PROVE  TableWarnings(table, formulas) \in Seq(Warnings)
<1>1. PICK x : x = [code |-> "FORMULA_CACHE_UNAVAILABLE", count |-> formulas]
  OBVIOUS
<1>2. PICK y : y = [code |-> "EMPTY_SHEET_SKIPPED", count |-> 1]
  OBVIOUS
<1>3. x \in Warnings /\ y \in Warnings
  BY <1>1, <1>2 DEF Warnings, WarningCodes
<1>4. <<x>> \in Seq(Warnings) /\ <<y>> \in Seq(Warnings)
  BY ONLY <1>3, OneIsSeq
<1>5. PICK a, b : /\ a = IF formulas = 0 THEN <<>> ELSE <<x>>
                  /\ b = IF table.blocks # <<>> THEN <<>> ELSE <<y>>
  OBVIOUS
<1>6. a \in Seq(Warnings) /\ b \in Seq(Warnings)
  BY ONLY <1>4, <1>5
<1>7. a \o b \in Seq(Warnings)
  BY ONLY <1>6, JoinIsSeq
<1> QED BY <1>1, <1>2, <1>5, <1>7 DEF TableWarnings

\* A table is added.
LEMMA WithTableIs ==
    ASSUME NEW T, NEW H, NEW acc \in Reads(T, H), acc.error = "none", NEW table,
           IsTable(table, T, H, acc.budget), NEW formulas \in Nat
    PROVE  WithTable(acc, table, formulas) \in Reads(T, H)
<1>1. PICK B : B = TableRows(T, H)
  OBVIOUS
<1>2. PICK old, new : old = acc.blocks /\ new = table.blocks
  OBVIOUS
<1>3. old \in Seq(B) /\ new \in Seq(B) /\ table.error \in ParserCodes
  BY <1>1, <1>2 DEF IsTable, Reads, AllReads
<1>4. PICK blocks : blocks = old \o new
  OBVIOUS
<1>5. /\ blocks \in Seq(B) /\ Len(blocks) = Len(old) + Len(new)
      /\ Len(old) \in Nat /\ Len(new) \in Nat
  BY ONLY <1>3, <1>4, JoinIsSeq
<1>6. PICK warnings : warnings = AddWarnings(acc.warnings, TableWarnings(table, formulas))
  OBVIOUS
<1>7. warnings \in Collectors(MaxParserWarnings)
  <2>1. acc.warnings \in Collectors(MaxParserWarnings)
    BY DEF Reads, AllReads
  <2>2. TableWarnings(table, formulas) \in Seq(Warnings)
    BY TableWarningsAre
  <2>3. MaxParserWarnings \in Nat \ {0}
    BY LimitsAre
  <2> QED BY ONLY <1>6, <2>1, <2>2, <2>3, AddWarningsIs
<1>8. PICK b \in Nat : b = acc.budget
  BY DEF Reads, AllReads
<1>9. PICK n \in Nat : /\ table.budget = b + n
                       /\ n = 0 => Len(new) = 0
                       /\ n # 0 => Len(new) = n - 1
                       /\ table.error = "none" => n = 0 \/ b + n <= MaxRows
  BY <1>2, <1>8 DEF IsTable
<1>10. PICK budget \in Nat, error \in ParserCodes : budget = b + n /\ error = table.error
  BY <1>3
<1>11. PICK out : out = [error |-> error, budget |-> budget, blocks |-> blocks,
                         warnings |-> warnings]
  OBVIOUS
<1>12. WithTable(acc, table, formulas) = out
  BY <1>2, <1>4, <1>6, <1>9, <1>10, <1>11 DEF WithTable
<1>13. out \in AllReads(T, H)
  BY <1>1, <1>5, <1>7, <1>11 DEF AllReads
<1>14. out.error = error /\ out.budget = budget /\ out.blocks = blocks
  BY <1>11
<1>15. /\ b <= MaxRows
       /\ Len(old) = 0 \/ Len(old) < b
  BY <1>2, <1>8 DEF Reads, Fits
<1>16. error = "none" => budget <= MaxRows /\ (Len(blocks) = 0 \/ Len(blocks) < budget)
  <2>1. PICK x \in Nat, y \in Nat : x = Len(old) /\ y = Len(new)
    BY <1>5
  <2>2. x = 0 \/ x < b
    BY <1>15, <2>1
  <2>3. (n = 0 => y = 0) /\ (n # 0 => y = n - 1)
    BY <1>9, <2>1
  <2>4. x + y = 0 \/ x + y < b + n
    BY ONLY <2>2, <2>3, x \in Nat, y \in Nat, b \in Nat, n \in Nat
  <2>5. Len(blocks) = x + y
    BY <1>5, <2>1
  <2>6. error = "none" => budget <= MaxRows
    BY <1>9, <1>10, <1>15
  <2> QED BY <1>10, <2>4, <2>5, <2>6
<1>17. Fits(out)
  BY ONLY <1>14, <1>16 DEF Fits
<1> QED BY <1>12, <1>13, <1>17 DEF Reads

\* The sheets and the coordinates that were read for them.
Sheeted(workbook, coords, T, H) ==
    \A i \in 1 .. Len(workbook) :
        /\ coords[i] \in PlaceSets /\ workbook[i].title \in T
        /\ TableHeaders(WorksheetRows(workbook[i], coords[i])) \in H

\* A sheet is added.
LEMMA WithSheetIs ==
    ASSUME NEW T, NEW H, NEW acc \in Reads(T, H), NEW sheet, sheet.title \in T,
           NEW coords \in PlaceSets, TableHeaders(WorksheetRows(sheet, coords)) \in H
    PROVE  WithSheet(acc, sheet, coords) \in Reads(T, H)
<1>1. CASE acc.error # "none"
  BY <1>1 DEF WithSheet
<1>2. CASE acc.error = "none" /\ ~sheet.visible
  <2>1. PICK w : w = [code |-> "HIDDEN_SHEET_SKIPPED", count |-> 1]
    OBVIOUS
  <2>2. PICK old : old = acc.warnings
    OBVIOUS
  <2>3. PICK new : new = AddWarning(old, w)
    OBVIOUS
  <2>4. new \in Collectors(MaxParserWarnings)
    <3>1. w \in Warnings
      BY <2>1 DEF Warnings, WarningCodes
    <3>2. old \in Collectors(MaxParserWarnings)
      BY <2>2 DEF Reads, AllReads
    <3>3. MaxParserWarnings \in Nat \ {0}
      BY LimitsAre
    <3> QED BY ONLY <2>3, <3>1, <3>2, <3>3, AddWarningIs
  <2>5. PICK out : out = [acc EXCEPT !.warnings = new]
    OBVIOUS
  <2>6. out \in AllReads(T, H)
    BY <2>4, <2>5 DEF Reads, AllReads
  <2>7. out.error = acc.error /\ out.budget = acc.budget /\ out.blocks = acc.blocks
    BY <2>5 DEF Reads, AllReads
  <2>8. Fits(out)
    BY <2>7 DEF Reads, Fits
  <2>9. WithSheet(acc, sheet, coords) = out
    BY <1>2, <2>1, <2>2, <2>3, <2>5 DEF WithSheet
  <2> QED BY <2>6, <2>8, <2>9 DEF Reads
<1>3. CASE acc.error = "none" /\ sheet.visible
  <2>1. PICK rows, title, budget : /\ rows = WorksheetRows(sheet, coords)
                                   /\ title = sheet.title /\ budget = acc.budget
    OBVIOUS
  <2>2. IsRows(rows)
    BY <2>1, WorksheetRowsAre
  <2>3. title \in T /\ TableHeaders(rows) \in H /\ budget \in Nat
    BY <2>1 DEF Reads, AllReads
  <2>4. PICK table : table = TableBlocks(rows, title, budget)
    OBVIOUS
  <2>5. IsTable(table, T, H, budget)
    BY ONLY <2>2, <2>3, <2>4, TableBlocksAre
  <2>6. PICK formulas \in Nat : formulas = UncachedFormulas(sheet, coords)
    BY UncachedFormulasAre
  <2>7. WithTable(acc, table, formulas) \in Reads(T, H)
    BY <1>3, <2>1, <2>5, WithTableIs
  <2>8. WithSheet(acc, sheet, coords) = WithTable(acc, table, formulas)
    BY <1>3, <2>1, <2>4, <2>6 DEF WithSheet
  <2> QED BY <2>7, <2>8
<1> QED BY <1>1, <1>2, <1>3

\* What is read after every sheet.
SheetsTrace(workbook, coords, T, H) ==
    \E g :
        /\ g[0] = NothingRead
        /\ g[Len(SheetNumbers(workbook))] = SheetsRead(workbook, coords)
        /\ \A i \in 0 .. Len(SheetNumbers(workbook)) : g[i] \in Reads(T, H)
        /\ \A i \in 1 .. Len(SheetNumbers(workbook)) :
              /\ g[i - 1] \in Reads(T, H)
              /\ g[i] = WithSheet(g[i - 1], workbook[SheetNumbers(workbook)[i]],
                   coords[SheetNumbers(workbook)[i]])

\* The sheets are added one after the other.
LEMMA SheetsSteps ==
    ASSUME NEW T, NEW H, NEW S, NEW workbook \in Seq(S), NEW coords, Sheeted(workbook, coords, T, H)
    PROVE  SheetsTrace(workbook, coords, T, H)
<1> DEFINE n == Len(SheetNumbers(workbook))
           step == [i \in 1 .. n |-> [a \in Reads(T, H) |-> WithSheet(a,
                     workbook[SheetNumbers(workbook)[i]], coords[SheetNumbers(workbook)[i]])]]
           Solves(iter) == iter = [s \in SUBSET DOMAIN SheetNumbers(workbook) |->
               IF s = {} THEN NothingRead ELSE WithSheet(iter[s \ {Max(s)}],
                    workbook[SheetNumbers(workbook)[Max(s)]],
                    coords[SheetNumbers(workbook)[Max(s)]])]
<1>1. n \in Nat /\ DOMAIN SheetNumbers(workbook) = 1 .. n /\ NothingRead \in Reads(T, H)
  <2>1. SheetNumbers(workbook) \in Seq(1 .. Len(workbook))
    BY DEF SheetNumbers
  <2>2. MaxRows \in Nat /\ MaxParserWarnings \in Nat \ {0}
    BY LimitsAre
  <2>3. PICK none : none = Collector(MaxParserWarnings)
    OBVIOUS
  <2>4. none \in Collectors(MaxParserWarnings)
    BY <2>2, <2>3, CollectorIs
  <2>5. NothingRead \in AllReads(T, H)
    BY <2>3, <2>4 DEF NothingRead, AllReads, ParserCodes
  <2>6. Fits(NothingRead)
    BY <2>2 DEF Fits, NothingRead
  <2> QED BY <2>1, <2>5, <2>6 DEF Reads
<1>2. \A i \in 1 .. n : \A a \in Reads(T, H) :
        WithSheet(a, workbook[SheetNumbers(workbook)[i]], coords[SheetNumbers(workbook)[i]])
        \in Reads(T, H)
  <2> SUFFICES ASSUME NEW i \in 1 .. n, NEW a \in Reads(T, H)
               PROVE  WithSheet(a, workbook[SheetNumbers(workbook)[i]],
                                coords[SheetNumbers(workbook)[i]]) \in Reads(T, H)
    OBVIOUS
  <2>1. PICK k \in 1 .. Len(workbook) : k = SheetNumbers(workbook)[i]
    BY DEF SheetNumbers
  <2>2. /\ coords[k] \in PlaceSets /\ workbook[k].title \in T
        /\ TableHeaders(WorksheetRows(workbook[k], coords[k])) \in H
    BY <2>1 DEF Sheeted
  <2>3. WithSheet(a, workbook[k], coords[k]) \in Reads(T, H)
    BY ONLY a \in Reads(T, H), <2>2, WithSheetIs
  <2> QED BY <2>1, <2>3
<1> HIDE DEF n
<1>3. step \in StepsOf(Reads(T, H), n)
  BY <1>2 DEF StepsOf
<1>4. SheetsRead(workbook, coords) = (CHOOSE iter : Solves(iter))[1 .. n]
  BY <1>1 DEF SheetsRead, SheetNumbers, FoldLeft, MapThenFoldSet
<1>5. \E iter : Solves(iter)
  <2>1. PICK iter : FoldSolution(iter, Reads(T, H), NothingRead, step, n)
    <3> HIDE DEF step
    <3> QED BY ONLY <1>1, <1>3, FoldExists
  <2>2. \A s \in SUBSET (1 .. n) : s # {} => Max(s) \in 1 .. n /\ iter[s \ {Max(s)}] \in Reads(T, H)
    BY ONLY <1>1, <2>1, MaxOfInitial DEF FoldSolution
  <2>3. \A s \in SUBSET (1 .. n) : s # {} =>
            step[Max(s)][iter[s \ {Max(s)}]] = WithSheet(iter[s \ {Max(s)}],
              workbook[SheetNumbers(workbook)[Max(s)]], coords[SheetNumbers(workbook)[Max(s)]])
    BY ONLY <2>2
  <2> HIDE DEF step
  <2>4. Solves(iter)
    BY ONLY <1>1, <2>1, <2>3 DEF FoldOver, FoldSolution
  <2> QED BY <2>4
<1>6. PICK iter : Solves(iter) /\ SheetsRead(workbook, coords) = iter[1 .. n]
  <2> HIDE DEF Solves
  <2> QED BY ONLY <1>4, <1>5
<1>7. Computes(iter, Reads(T, H), NothingRead, step, n)
  BY ONLY <1>1, <1>6, MaxOfInitial DEF Computes
<1>8. PICK g : FoldTrace(g, Reads(T, H), NothingRead, step, n) /\ g[n] = iter[1 .. n]
  <2> HIDE DEF step, Solves
  <2> QED BY ONLY <1>1, <1>3, <1>7, FoldSteps
<1>9. \A i \in 1 .. n : g[i - 1] \in Reads(T, H)
        /\ g[i] = WithSheet(g[i - 1], workbook[SheetNumbers(workbook)[i]],
        coords[SheetNumbers(workbook)[i]])
  BY ONLY <1>1, <1>8 DEF FoldTrace
<1>10. \A i \in 0 .. n : g[i] \in Reads(T, H)
  BY ONLY <1>8 DEF FoldTrace
<1>11. g[0] = NothingRead /\ g[n] = SheetsRead(workbook, coords)
  BY ONLY <1>6, <1>8 DEF FoldTrace
<1> HIDE DEF step, Solves
<1> QED BY <1>9, <1>10, <1>11 DEF n, SheetsTrace

\* What a workbook that is parsed tells.
BookParsed(workbook, parsed) ==
    /\ ParsedWell(parsed)
    /\ parsed.error = "none" =>
          /\ FoldLeft(LAMBDA m, sheet : m + Cardinality(CreatedCells(sheet)), 0, workbook)
                <= MaxPhysicalCells
          /\ Len(parsed.blocks) < MaxRows

\* A workbook is parsed within its limits, or refused.
LEMMA ParseWorkbookIs ==
    ASSUME NEW S, NEW workbook, AllSheets(workbook, S), NEW parsed,
           parsed = ParseWorkbook(workbook)
    PROVE  BookParsed(workbook, parsed)
<1>1. PICK scan : scan = Preflight(workbook)
  OBVIOUS
<1>2. Preflighted(workbook, scan)
  BY <1>1, PreflightBounds
<1>3. PICK coords : coords = scan.sheets
  OBVIOUS
<1>4. PICK read : read = SheetsRead(workbook, coords)
  OBVIOUS
<1>5. parsed = IF scan.error # "none" THEN NotParsed(scan.error)
               ELSE IF read.error # "none" THEN NotParsed(read.error)
               ELSE Parsed("xlsx", read.blocks, CollectedWarnings(read.warnings))
  BY <1>1, <1>3, <1>4 DEF ParseWorkbook
<1>6. workbook \in Seq(S)
  BY DEF AllSheets
<1>7. PICK n \in Nat : n = Len(workbook)
  BY <1>6
<1>8. coords \in Seq(PlaceSets) /\ Len(coords) = n /\ scan.error \in ParserCodes
  BY <1>2, <1>3, <1>7 DEF Preflighted, Scans
<1>9. PICK T, H : /\ T = {workbook[i].title : i \in 1 .. n}
                  /\ H = {TableHeaders(WorksheetRows(workbook[i], coords[i])) : i \in 1 .. n}
  OBVIOUS
<1>10. Sheeted(workbook, coords, T, H)
  <2>1. \A i \in 1 .. n : coords[i] \in PlaceSets
    BY <1>8
  <2> QED BY <1>7, <1>9, <2>1 DEF Sheeted
<1>11. SheetsTrace(workbook, coords, T, H)
  BY ONLY <1>6, <1>10, SheetsSteps
<1>12. read \in Reads(T, H)
  <2>1. PICK g : /\ g[Len(SheetNumbers(workbook))] = SheetsRead(workbook, coords)
                 /\ \A i \in 0 .. Len(SheetNumbers(workbook)) : g[i] \in Reads(T, H)
    BY <1>11 DEF SheetsTrace
  <2>2. SheetNumbers(workbook) \in Seq(1 .. n)
    BY <1>6, <1>7 DEF SheetNumbers
  <2>3. Len(SheetNumbers(workbook)) \in 0 .. Len(SheetNumbers(workbook))
    BY <2>2
  <2> QED BY <1>4, <2>1, <2>3
<1>13. CASE scan.error # "none"
  <2>1. ParsedWell(NotParsed(scan.error))
    BY <1>8, NotParsedIs
  <2>2. parsed.error # "none"
    BY <1>5, <1>13 DEF NotParsed
  <2> QED BY <1>5, <1>13, <2>1, <2>2 DEF BookParsed
<1>14. CASE scan.error = "none" /\ read.error # "none"
  <2>0. read.error \in ParserCodes
    BY <1>12 DEF Reads, AllReads
  <2>1. ParsedWell(NotParsed(read.error))
    BY <2>0, NotParsedIs
  <2>2. parsed.error # "none"
    BY <1>5, <1>14 DEF NotParsed
  <2> QED BY <1>5, <1>14, <2>1, <2>2 DEF BookParsed
<1>15. CASE scan.error = "none" /\ read.error = "none"
  <2>1. PICK blocks, warnings : /\ blocks = read.blocks
                                /\ warnings = CollectedWarnings(read.warnings)
    OBVIOUS
  <2>2. parsed = Parsed("xlsx", blocks, warnings)
    BY <1>5, <1>15, <2>1
  <2>3. warnings \in Seq(Warnings)
    <3>1. read.warnings \in Collectors(MaxParserWarnings)
      BY <1>12 DEF Reads, AllReads
    <3> QED BY <2>1, <3>1, LimitsAre, CollectedWarningsAre
  <2>4. PICK B : B = TableRows(T, H)
    OBVIOUS
  <2>5. blocks \in Seq(B)
    BY <1>12, <2>1, <2>4 DEF Reads, AllReads
  <2>6. PICK C : C = TableChars(T) \cup {Newline}
    OBVIOUS
  <2>7. Blocky(B, C, TableMetas(T, H))
    BY <2>4, <2>6 DEF Blocky, TableRows
  <2>8. ListedOver(blocks, C, TableMetas(T, H), B)
    BY <2>5, <2>6, <2>7 DEF ListedOver
  <2>9. Listed(blocks)
    BY <2>8 DEF Listed
  <2>10. ParsedWell(Parsed("xlsx", blocks, warnings))
    BY ONLY <2>3, <2>9, ParsedIs
  <2>11. Len(blocks) < MaxRows
    <3>1. /\ read.budget <= MaxRows /\ read.budget \in Nat
          /\ Len(blocks) = 0 \/ Len(blocks) < read.budget
      BY <1>12, <1>15, <2>1 DEF Reads, AllReads, Fits
    <3>2. Len(blocks) \in Nat /\ MaxRows \in Nat \ {0}
      BY <2>5, LimitsAre
    <3> QED BY ONLY <3>1, <3>2
  <2>12. parsed.blocks = blocks
    BY <2>2 DEF Parsed
  <2>13. FoldLeft(LAMBDA m, sheet : m + Cardinality(CreatedCells(sheet)), 0, workbook)
            <= MaxPhysicalCells
    BY <1>2, <1>15 DEF Preflighted
  <2> QED BY <2>2, <2>10, <2>11, <2>12, <2>13 DEF BookParsed
<1> QED BY <1>13, <1>14, <1>15
===============================================================================
