---------------------------- MODULE PreviewProofs -----------------------------
(***************************************************************************)
(* The preview: the inductive invariant of a request, and the properties   *)
(* that follow from it.                                                    *)
(***************************************************************************)
EXTENDS ParsingProofs, PreviewProperties

(***************************************************************************)
(* What the parsers and the segmenter give for a document of a request.    *)
(***************************************************************************)
BookBounds(content, parsed) ==
    parsed.error = "none" /\ content.kind = "xlsx" =>
       /\ FoldLeft(LAMBDA m, sheet : m + Cardinality(CreatedCells(sheet)), 0, content.workbook)
             <= MaxPhysicalCells
       /\ Len(parsed.blocks) < MaxRows

\* Every parser gives a list of blocks or an error.
LEMMA ParseIs ==
    ASSUME NEW content, IsContent(content), NEW parsed, parsed = Parse(content)
    PROVE  ParsedWell(parsed) /\ BookBounds(content, parsed)
<1>1. CASE content.kind = "text"
  <2>1. PICK lines : lines = content.lines
    OBVIOUS
  <2>2. lines \in Seq(Seq(Classes))
    BY <1>1, <2>1 DEF IsContent
  <2>3. ParsedWell(ParseText(lines))
    BY ONLY <2>2, ParseTextIs
  <2>4. parsed = ParseText(lines)
    BY <1>1, <2>1 DEF Parse
  <2> QED BY <1>1, <2>3, <2>4 DEF BookBounds
<1>2. CASE content.kind = "markdown"
  <2>1. PICK tokens : tokens = content.tokens
    OBVIOUS
  <2>2. PICK C : C = Characters
    OBVIOUS
  <2>3. tokens \in Seq(Tokens(STRING, C))
    BY <1>2, <2>1, <2>2 DEF IsContent, MarkdownTokens, Tokens
  <2>4. \A line \in Nat : <<line, 0>> \in Seq(Nat)
    OBVIOUS
  <2>5. Newline \in C /\ Joints(C)
    <3>1. <<>> \in Seq(Nat)
      OBVIOUS
    <3> QED BY <2>2, <2>4, <3>1 DEF Newline, Joints, Characters, Classes
  <2>6. ParsedWell(ParseMarkdown(tokens))
    BY ONLY <2>3, <2>5, ParseMarkdownIs
  <2>7. parsed = ParseMarkdown(tokens)
    BY <1>2, <2>1 DEF Parse
  <2> QED BY <1>2, <2>6, <2>7 DEF BookBounds
<1>3. CASE content.kind = "xlsx"
  <2>1. PICK workbook, S : workbook = content.workbook /\ S = ToSet(workbook)
    OBVIOUS
  <2>2. /\ workbook \in Seq(S)
        /\ \A sheet \in S :
              /\ sheet.elements \in Seq(ToSet(sheet.elements))
              /\ \A element \in ToSet(sheet.elements) : IsElement(element)
    BY <1>3, <2>1 DEF IsContent
  <2>3. \A sheet \in S : IsSheet(sheet)
    BY <2>2 DEF IsSheet
  <2>4. AllSheets(workbook, S)
    BY <2>2, <2>3 DEF AllSheets
  <2>5. parsed = ParseWorkbook(workbook)
    BY <1>3, <2>1 DEF Parse
  <2>6. BookParsed(workbook, parsed)
    BY ONLY <2>4, <2>5, ParseWorkbookIs
  <2> QED BY <2>1, <2>6 DEF BookParsed, BookBounds
<1>4. CASE content.kind \notin {"text", "markdown", "xlsx"}
  <2>1. parsed = NotParsed("UNSUPPORTED_FILE_TYPE")
    BY <1>4 DEF Parse
  <2>2. "UNSUPPORTED_FILE_TYPE" \in ParserCodes
    BY DEF ParserCodes
  <2>3. ParsedWell(parsed)
    BY ONLY <2>1, <2>2, NotParsedIs
  <2> QED BY <1>4, <2>3 DEF BookBounds
<1> QED BY <1>1, <1>2, <1>3, <1>4

\* The segments of a document, whatever its characters are.
Segmented(parsed, config, result) ==
    \E C, M : SegmentedWell(result, VisibleBlocks(parsed), C, M, config)
VisibleText(parsed) ==
    \E C, M, B : /\ Blocky(B, C, M) /\ VisibleBlocks(parsed) \in Seq(B)
                 /\ \A i \in 1 .. Len(VisibleBlocks(parsed)) : ~Blank(VisibleBlocks(parsed)[i].text)

\* The segments of a document that was parsed.
LEMMA SegmentedIs ==
    ASSUME NEW parsed, ParsedWell(parsed), NEW X, NEW config, IsConfig(config, X),
           NEW result, result = SegmentDocument(parsed, config)
    PROVE  Segmented(parsed, config, result) /\ VisibleText(parsed)
<1>1. PICK C, M, B : ListedOver(parsed.blocks, C, M, B)
  BY DEF ParsedWell, Listed
<1>2. Newline \in C /\ Blocky(B, C, M) /\ parsed.blocks \in Seq(B)
  BY <1>1 DEF ListedOver
<1>3. SegmentedWell(result, VisibleBlocks(parsed), C, M, config)
  BY ONLY <1>2, IsConfig(config, X), result = SegmentDocument(parsed, config), SegmentDocumentIs
<1>4. PICK blocks : blocks = VisibleBlocks(parsed)
  OBVIOUS
<1>5. /\ blocks \in Seq(B)
      /\ \A i \in 1 .. Len(blocks) : ~Blank(blocks[i].text)
  BY ONLY <1>2, <1>4, VisibleBlocksAre
<1>6. VisibleText(parsed)
  BY <1>2, <1>4, <1>5 DEF VisibleText
<1>7. Segmented(parsed, config, result)
  BY <1>3 DEF Segmented
<1> QED BY <1>6, <1>7

(***************************************************************************)
(* Lists the request is built from.                                        *)
(***************************************************************************)
\* One sequence more is joined last.
LEMMA FlattenAppend ==
    ASSUME NEW S, NEW seqs \in Seq(Seq(S)), NEW s \in Seq(S)
    PROVE  FlattenSeq(Append(seqs, s)) = FlattenSeq(seqs) \o s
<1>1. PICK T : T = Seq(S)
  OBVIOUS
<1>2. PICK more : more = Append(seqs, s)
  OBVIOUS
<1>3. PICK n \in Nat : n = Len(seqs)
  OBVIOUS
<1>4. /\ more \in Seq(T) /\ Len(more) = n + 1 /\ more[n + 1] = s
      /\ \A i \in 1 .. n : more[i] = seqs[i]
  <2>1. seqs \in Seq(T) /\ s \in T
    BY <1>1
  <2> QED BY ONLY <1>2, <1>3, <2>1, AppendIsSeq
<1>5. PICK f : FlattenTrace(f, S, seqs)
  BY FlattenSteps
<1>6. more \in Seq(Seq(S))
  BY ONLY <1>1, <1>4
<1>7. PICK g : FlattenTrace(g, S, more)
  BY ONLY <1>6, FlattenSteps
<1>8. /\ f[0] = <<>> /\ f[n] = FlattenSeq(seqs)
      /\ \A i \in 1 .. n : f[i] = f[i - 1] \o seqs[i]
  BY ONLY <1>3, <1>5 DEF FlattenTrace
<1>9. /\ g[0] = <<>> /\ g[n + 1] = FlattenSeq(more)
      /\ \A i \in 1 .. n + 1 : g[i] = g[i - 1] \o more[i]
  BY ONLY <1>4, <1>7 DEF FlattenTrace
<1>10. PICK Good : Good = {i \in 0 .. n : g[i] = f[i]}
  OBVIOUS
<1>11. 0 \in Good
  BY ONLY <1>8, <1>9, <1>10, n \in Nat
<1>12. ASSUME NEW i \in 1 .. n, i - 1 \in Good
       PROVE  i \in Good
  <2>1. g[i - 1] = f[i - 1]
    BY <1>10, <1>12
  <2>2. i \in 1 .. n + 1 /\ more[i] = seqs[i]
    BY <1>4
  <2>3. g[i] = f[i]
    BY ONLY <1>8, <1>9, <2>1, <2>2, i \in 1 .. n
  <2> QED BY <1>10, <2>3
<1>13. n \in Good
  <2>1. \A i \in 0 .. n : i \in Good
    BY ONLY <1>11, <1>12, n \in Nat, KeptByAll
  <2> QED BY <2>1
<1>14. g[n] = f[n]
  BY <1>10, <1>13
<1>15. PICK k \in 1 .. n + 1 : k = n + 1 /\ k - 1 = n
  OBVIOUS
<1>16. g[k] = g[k - 1] \o more[k]
  BY <1>9
<1> QED BY <1>2, <1>4, <1>8, <1>9, <1>14, <1>15, <1>16

\* Nothing joined is nothing.
LEMMA FlattenNone == FlattenSeq(<<>>) = <<>>
<1>1. PICK S : S = Nat
  OBVIOUS
<1>2. PICK none : none = <<>>
  OBVIOUS
<1>3. none \in Seq(Seq(S)) /\ Len(none) = 0
  BY <1>2
<1>4. PICK f : FlattenTrace(f, S, none)
  BY <1>3, FlattenSteps
<1> QED BY <1>2, <1>3, <1>4 DEF FlattenTrace

\* Sequences with the same elements are the same.
LEMMA SameElements ==
    ASSUME NEW S, NEW n, NEW s \in Seq(S), NEW t \in Seq(S), Len(s) = n, Len(t) = n,
           \A k \in 1 .. n : s[k] = t[k]
    PROVE  s = t
OBVIOUS

\* The first elements of a sequence, at most limit of them.
Head_(s, limit) == SubSeq(s, 1, Min({limit, Len(s)}))

\* The first elements of a sequence are one.
LEMMA HeadIs ==
    ASSUME NEW S, NEW s \in Seq(S), NEW limit \in Nat
    PROVE  /\ Head_(s, limit) \in Seq(S) /\ Len(s) \in Nat
           /\ Len(Head_(s, limit)) = IF limit <= Len(s) THEN limit ELSE Len(s)
           /\ \A k \in 1 .. Len(Head_(s, limit)) : Head_(s, limit)[k] = s[k]
<1>1. PICK n \in Nat : n = Len(s)
  OBVIOUS
<1>2. PICK m : m = IF limit <= n THEN limit ELSE n
  OBVIOUS
<1>3. m \in 0 .. n
  BY <1>2
<1>4. Min({limit, n}) = m
  BY ONLY <1>2, limit \in Nat, n \in Nat, MinOfTwo
<1>5. Head_(s, limit) = SubSeq(s, 1, m)
  BY <1>1, <1>4 DEF Head_
<1>6. /\ SubSeq(s, 1, m) \in Seq(S) /\ Len(SubSeq(s, 1, m)) = m - 1 + 1
      /\ \A k \in 1 .. m - 1 + 1 : SubSeq(s, 1, m)[k] = s[1 + k - 1]
  <2>1. 1 \in 1 .. Len(s) + 1 /\ m \in 1 - 1 .. Len(s)
    BY <1>1, <1>3
  <2> QED BY ONLY <2>1, s \in Seq(S), SliceIsSeq
<1>7. m - 1 + 1 = m /\ \A k \in 1 .. m : 1 + k - 1 = k
  BY <1>3
<1> QED BY <1>1, <1>2, <1>5, <1>6, <1>7

\* A list grows by as much of another as is left of its limit.
LEMMA HeadOfJoin ==
    ASSUME NEW S, NEW s \in Seq(S), NEW t \in Seq(S), NEW limit \in Nat
    PROVE  /\ limit - Len(Head_(s, limit)) \in Nat
           /\ Head_(s \o t, limit)
                = Head_(s, limit) \o Head_(t, limit - Len(Head_(s, limit)))
<1>1. PICK a : a = Head_(s, limit)
  OBVIOUS
<1>2. PICK n \in Nat : n = Len(s)
  OBVIOUS
<1>3. PICK m \in Nat : m = Len(t)
  OBVIOUS
<1>4. a \in Seq(S) /\ Len(a) = (IF limit <= n THEN limit ELSE n)
      /\ \A k \in 1 .. Len(a) : a[k] = s[k]
  BY ONLY <1>1, <1>2, s \in Seq(S), limit \in Nat, HeadIs
<1>5. PICK la \in Nat : la = Len(a)
  BY <1>4
<1>6. PICK left \in Nat : left = limit - la
  BY <1>2, <1>4, <1>5, SMTT(30)
<1>7. PICK b : b = Head_(t, left)
  OBVIOUS
<1>8. b \in Seq(S) /\ Len(b) = (IF left <= m THEN left ELSE m)
      /\ \A k \in 1 .. Len(b) : b[k] = t[k]
  BY ONLY <1>3, <1>7, t \in Seq(S), left \in Nat, HeadIs
<1>9. PICK lb \in Nat : lb = Len(b)
  BY <1>8
<1>10. PICK j : j = s \o t
  OBVIOUS
<1>11. /\ j \in Seq(S) /\ Len(j) = n + m
       /\ \A i \in 1 .. n : j[i] = s[i]
       /\ \A i \in 1 .. m : j[n + i] = t[i]
  BY ONLY <1>2, <1>3, <1>10, s \in Seq(S), t \in Seq(S), JoinIsSeq
<1>12. PICK h : h = Head_(j, limit)
  OBVIOUS
<1>13. h \in Seq(S) /\ Len(h) = (IF limit <= n + m THEN limit ELSE n + m)
       /\ \A k \in 1 .. Len(h) : h[k] = j[k]
  BY ONLY <1>11, <1>12, limit \in Nat, HeadIs
<1>14. PICK c : c = a \o b
  OBVIOUS
<1>15. /\ c \in Seq(S) /\ Len(c) = la + lb
       /\ \A i \in 1 .. la : c[i] = a[i]
       /\ \A i \in 1 .. lb : c[la + i] = b[i]
  <2>1. a \in Seq(S) /\ b \in Seq(S)
    BY <1>4, <1>8
  <2> QED BY ONLY <1>5, <1>9, <1>14, <2>1, JoinIsSeq
<1>16. PICK lh \in Nat : lh = Len(h)
  BY <1>13
<1>17. lh = la + lb /\ la <= n /\ lb <= m /\ (la < n => lb = 0)
  BY ONLY <1>4, <1>5, <1>6, <1>8, <1>9, <1>13, <1>16, n \in Nat, m \in Nat, la \in Nat, lb \in Nat,
          lh \in Nat, left \in Nat, limit \in Nat
<1>18. \A k \in 1 .. lh : h[k] = c[k]
  <2> SUFFICES ASSUME NEW k \in 1 .. lh PROVE h[k] = c[k]
    OBVIOUS
  <2>1. h[k] = j[k]
    BY <1>13, <1>16
  <2>2. CASE k <= la
    <3>1. k \in 1 .. la /\ k \in 1 .. n
      BY <1>17, <2>2
    <3>2. a[k] = s[k] /\ c[k] = a[k] /\ j[k] = s[k]
      BY ONLY <1>4, <1>5, <1>11, <1>15, <3>1
    <3> QED BY <2>1, <3>2
  <2>3. CASE ~(k <= la)
    <3>1. PICK i \in Nat : i = k - la
      BY <2>3
    <3>2. i \in 1 .. lb /\ i \in 1 .. m /\ la = n /\ k = la + i
      BY ONLY <1>17, <2>3, <3>1, k \in 1 .. lh, n \in Nat, m \in Nat, la \in Nat, lb \in Nat,
              lh \in Nat, i \in Nat
    <3>3. c[la + i] = b[i] /\ b[i] = t[i] /\ j[n + i] = t[i]
      BY ONLY <1>8, <1>9, <1>11, <1>15, <3>2
    <3> QED BY <2>1, <3>2, <3>3
  <2> QED BY <2>2, <2>3
<1>19. h = c
  <2>1. Len(c) = lh /\ c \in Seq(S)
    BY <1>15, <1>17
  <2>2. h \in Seq(S) /\ Len(h) = lh
    BY <1>13, <1>16
  <2> QED BY ONLY <1>18, <2>1, <2>2, SameElements
<1> QED BY <1>1, <1>5, <1>6, <1>7, <1>10, <1>12, <1>14, <1>19

(***************************************************************************)
(* The document ids without repetitions.                                   *)
(***************************************************************************)
IdLists(list) == Seq(ToSet(list))

\* The ids that were seen after every id.
UniqueTrace(list) ==
    \E g :
        /\ g[0] = <<>>
        /\ g[Len(list)] = Unique(list)
        /\ \A i \in 0 .. Len(list) : g[i] \in IdLists(list)
        /\ \A i \in 1 .. Len(list) :
              /\ g[i - 1] \in IdLists(list)
              /\ g[i] = (IF list[i] \in ToSet(g[i - 1]) THEN g[i - 1]
                   ELSE Append(g[i - 1], list[i]))

\* The ids are looked at one after the other.
LEMMA UniqueSteps ==
    ASSUME NEW list, list \in Seq(ToSet(list))
    PROVE  UniqueTrace(list)
<1> DEFINE n == Len(list)
           step == [i \in 1 .. n |-> [a \in IdLists(list) |-> (IF list[i] \in ToSet(a) THEN a
                     ELSE Append(a, list[i]))]]
           Solves(iter) == iter = [s \in SUBSET DOMAIN list |->
               IF s = {} THEN <<>> ELSE (IF list[Max(s)] \in ToSet(iter[s \ {Max(s)}])
                    THEN iter[s \ {Max(s)}] ELSE Append(iter[s \ {Max(s)}], list[Max(s)]))]
<1>1. n \in Nat /\ DOMAIN list = 1 .. n /\ <<>> \in IdLists(list)
  BY DEF IdLists
<1>2. \A i \in 1 .. n : \A a \in IdLists(list) : (IF list[i] \in ToSet(a) THEN a
        ELSE Append(a, list[i])) \in IdLists(list)
  <2> SUFFICES ASSUME NEW i \in 1 .. n, NEW a \in IdLists(list)
               PROVE  (IF list[i] \in ToSet(a) THEN a ELSE Append(a, list[i])) \in IdLists(list)
    OBVIOUS
  <2>1. list[i] \in ToSet(list)
    BY <1>1 DEF ToSet
  <2>2. a \in Seq(ToSet(list))
    BY DEF IdLists
  <2>3. Append(a, list[i]) \in Seq(ToSet(list))
    BY ONLY <2>1, <2>2, AppendIsSeq
  <2> QED BY <2>2, <2>3 DEF IdLists
<1> HIDE DEF n
<1>3. step \in StepsOf(IdLists(list), n)
  BY <1>2 DEF StepsOf
<1>4. Unique(list) = (CHOOSE iter : Solves(iter))[1 .. n]
  BY <1>1 DEF Unique, FoldLeft, MapThenFoldSet
<1>5. \E iter : Solves(iter)
  <2>1. PICK iter : FoldSolution(iter, IdLists(list), <<>>, step, n)
    <3> HIDE DEF step
    <3> QED BY ONLY <1>1, <1>3, FoldExists
  <2>2. \A s \in SUBSET (1 .. n) : s # {} => Max(s) \in 1 .. n
          /\ iter[s \ {Max(s)}] \in IdLists(list)
    BY ONLY <1>1, <2>1, MaxOfInitial DEF FoldSolution
  <2>3. \A s \in SUBSET (1 .. n) : s # {} =>
            step[Max(s)][iter[s \ {Max(s)}]] = (IF list[Max(s)] \in ToSet(iter[s \ {Max(s)}])
              THEN iter[s \ {Max(s)}] ELSE Append(iter[s \ {Max(s)}], list[Max(s)]))
    BY ONLY <2>2
  <2> HIDE DEF step
  <2>4. Solves(iter)
    BY ONLY <1>1, <2>1, <2>3 DEF FoldOver, FoldSolution
  <2> QED BY <2>4
<1>6. PICK iter : Solves(iter) /\ Unique(list) = iter[1 .. n]
  <2> HIDE DEF Solves
  <2> QED BY ONLY <1>4, <1>5
<1>7. Computes(iter, IdLists(list), <<>>, step, n)
  BY ONLY <1>1, <1>6, MaxOfInitial DEF Computes
<1>8. PICK g : FoldTrace(g, IdLists(list), <<>>, step, n) /\ g[n] = iter[1 .. n]
  <2> HIDE DEF step, Solves
  <2> QED BY ONLY <1>1, <1>3, <1>7, FoldSteps
<1>9. \A i \in 1 .. n : g[i - 1] \in IdLists(list) /\ g[i] = (IF list[i] \in ToSet(g[i - 1])
        THEN g[i - 1] ELSE Append(g[i - 1], list[i]))
  BY ONLY <1>1, <1>8 DEF FoldTrace
<1>10. \A i \in 0 .. n : g[i] \in IdLists(list)
  BY ONLY <1>8 DEF FoldTrace
<1>11. g[0] = <<>> /\ g[n] = Unique(list)
  BY ONLY <1>6, <1>8 DEF FoldTrace
<1> HIDE DEF step, Solves
<1> QED BY <1>9, <1>10, <1>11 DEF n, UniqueTrace

\* Every id of the request is kept.
LEMMA UniqueIs ==
    ASSUME NEW list, list \in Seq(ToSet(list))
    PROVE  Unique(list) \in Seq(ToSet(list)) /\ ToSet(Unique(list)) = ToSet(list)
<1>1. UniqueTrace(list)
  BY ONLY list \in Seq(ToSet(list)), UniqueSteps
<1>2. PICK g : /\ g[0] = <<>> /\ g[Len(list)] = Unique(list)
               /\ \A i \in 0 .. Len(list) : g[i] \in IdLists(list)
               /\ \A i \in 1 .. Len(list) :
                     /\ g[i - 1] \in IdLists(list)
                     /\ g[i] = IF list[i] \in ToSet(g[i - 1]) THEN g[i - 1]
                          ELSE Append(g[i - 1], list[i])
  BY <1>1 DEF UniqueTrace
<1>3. PICK n \in Nat : n = Len(list)
  OBVIOUS
<1>4. PICK Good : Good = {i \in 0 .. n : \A k \in 1 .. i : list[k] \in ToSet(g[i])}
  OBVIOUS
<1>5. 0 \in Good
  BY <1>3, <1>4
<1>6. ASSUME NEW i \in 1 .. n, i - 1 \in Good
      PROVE  i \in Good
  <2>1. \A k \in 1 .. i - 1 : list[k] \in ToSet(g[i - 1])
    BY <1>4, <1>6
  <2>2. PICK a : a = g[i - 1]
    OBVIOUS
  <2>3. a \in Seq(ToSet(list)) /\ g[i] = IF list[i] \in ToSet(a) THEN a ELSE Append(a, list[i])
    BY <1>2, <1>3, <2>2 DEF IdLists
  <2>4. CASE list[i] \in ToSet(a)
    BY <1>4, <2>1, <2>2, <2>3, <2>4
  <2>5. CASE list[i] \notin ToSet(a)
    <3>1. list[i] \in ToSet(list)
      BY <1>3 DEF ToSet
    <3>2. PICK m \in Nat : m = Len(a)
      BY <2>3
    <3>3. PICK b : b = Append(a, list[i])
      OBVIOUS
    <3>4. /\ b \in Seq(ToSet(list)) /\ Len(b) = m + 1 /\ b[m + 1] = list[i]
          /\ \A k \in 1 .. m : b[k] = a[k]
      BY ONLY <2>3, <3>1, <3>2, <3>3, AppendIsSeq
    <3>5. list[i] \in ToSet(b)
      BY <3>4 DEF ToSet
    <3>6. \A x \in ToSet(a) : x \in ToSet(b)
      <4> SUFFICES ASSUME NEW x \in ToSet(a) PROVE x \in ToSet(b)
        OBVIOUS
      <4>1. PICK k \in 1 .. m : a[k] = x
        BY <2>3, <3>2 DEF ToSet
      <4>2. b[k] = x /\ k \in 1 .. m + 1
        BY <3>4, <4>1
      <4>3. DOMAIN b = 1 .. m + 1
        BY <3>4
      <4> QED BY <4>2, <4>3 DEF ToSet
    <3>7. \A k \in 1 .. i : list[k] \in ToSet(b)
      <4>1. \A k \in 1 .. i : k \in 1 .. i - 1 \/ k = i
        OBVIOUS
      <4> QED BY <2>1, <2>2, <3>5, <3>6, <4>1
    <3>8. g[i] = b
      BY <2>3, <2>5, <3>3
    <3>9. i \in 0 .. n
      OBVIOUS
    <3> QED BY ONLY <1>4, <3>7, <3>8, <3>9
  <2> QED BY <2>4, <2>5
<1>7. \A i \in 0 .. n : i \in Good
  BY ONLY <1>5, <1>6, n \in Nat, KeptByAll
<1>8. \A k \in 1 .. n : list[k] \in ToSet(Unique(list))
  <2>1. n \in Good
    BY <1>7
  <2> QED BY <1>2, <1>3, <1>4, <2>1
<1>9. Unique(list) \in Seq(ToSet(list))
  BY <1>2, <1>3 DEF IdLists
<1>10. \A x \in ToSet(Unique(list)) : x \in ToSet(list)
  <2> SUFFICES ASSUME NEW x \in ToSet(Unique(list)) PROVE x \in ToSet(list)
    OBVIOUS
  <2>1. PICK k \in DOMAIN Unique(list) : Unique(list)[k] = x
    BY DEF ToSet
  <2> QED BY <1>9, <2>1
<1>11. \A x \in ToSet(list) : x \in ToSet(Unique(list))
  <2> SUFFICES ASSUME NEW x \in ToSet(list) PROVE x \in ToSet(Unique(list))
    OBVIOUS
  <2>1. PICK k \in 1 .. n : list[k] = x
    BY <1>3 DEF ToSet
  <2> QED BY <1>8, <2>1
<1> QED BY <1>9, <1>10, <1>11

(***************************************************************************)
(* What the documents of a request give: contents maps each to what is     *)
(* stored of it, order is the list of their ids.                           *)
(***************************************************************************)
ReadFrom(contents, d) == Parse(contents[d])
SplitInto(contents, config, d) == SegmentDocument(ReadFrom(contents, d), config)
ChunkList(d, segments) == [k \in DOMAIN segments |-> Chunk(d, segments[k])]
ChunksFrom(contents, config, d) == ChunkList(d, SplitInto(contents, config, d).segments)
RaisedFrom(contents, config, d) ==
    ReadFrom(contents, d).warnings \o SplitInto(contents, config, d).warnings
FirstChunks(contents, config, order, n) ==
    FlattenSeq([i \in 1 .. n |-> ChunksFrom(contents, config, order[i])])
FirstRaised(contents, config, order, n) ==
    FlattenSeq([i \in 1 .. n |-> RaisedFrom(contents, config, order[i])])

\* A list: a sequence over its elements.
IsList(s) == s \in Seq(ToSet(s))

\* The results of the first n documents.
AccountsFor(contents, config, order, n, shown, count, collector, done) ==
    /\ IsList(FirstChunks(contents, config, order, n))
    /\ shown = Head_(FirstChunks(contents, config, order, n), MaxChunks)
    /\ count = Len(FirstChunks(contents, config, order, n))
    /\ collector \in Collectors(MaxWarnings)
    /\ Represented(collector) = Counted(FirstRaised(contents, config, order, n))
    /\ done = SubSeq(order, 1, n)

\* Documents that can be parsed, and a configuration.
Readable(contents, config, order) ==
    /\ IsConfig(config, Classes) /\ order \in Seq(DOMAIN contents)
    /\ \A d \in DOMAIN contents : IsContent(contents[d])

\* A sequence over a set is one over a larger set.
LEMMA SeqOfMore ==
    ASSUME NEW S, NEW T, \A x \in S : x \in T, NEW s \in Seq(S)
    PROVE  s \in Seq(T)
OBVIOUS

\* Every sequence is a list.
LEMMA ListIs ==
    ASSUME NEW S, NEW s \in Seq(S)
    PROVE  IsList(s)
<1>1. PICK n \in Nat : n = Len(s) /\ DOMAIN s = 1 .. n
  OBVIOUS
<1>2. PICK T : T = ToSet(s)
  OBVIOUS
<1>3. \A i \in 1 .. n : s[i] \in T
  BY <1>1, <1>2 DEF ToSet
<1>4. s = [i \in DOMAIN s |-> s[i]]
  OBVIOUS
<1>5. s \in Seq(T)
  BY ONLY <1>1, <1>3, <1>4, n \in Nat, ListIsSeq
<1> QED BY <1>2, <1>5 DEF IsList

\* The chunks and the warnings of a document.
LEMMA DocumentGives ==
    ASSUME NEW contents, NEW config, IsConfig(config, Classes), NEW d, IsContent(contents[d]),
           NEW parsed, parsed = ReadFrom(contents, d),
           NEW segmented, segmented = SplitInto(contents, config, d)
    PROVE  /\ ParsedWell(parsed) /\ Segmented(parsed, config, segmented)
           /\ VisibleText(parsed) /\ BookBounds(contents[d], parsed)
           /\ parsed.warnings \in Seq(Warnings) /\ segmented.warnings \in Seq(Warnings)
           /\ segmented.error \in SegmentErrors
           /\ \E Q : segmented.segments \in Seq(Q)
<1>1. PICK content : content = contents[d] /\ IsContent(content)
  OBVIOUS
<1>2. parsed = Parse(content)
  BY <1>1 DEF ReadFrom
<1>3. ParsedWell(parsed) /\ BookBounds(content, parsed)
  BY ONLY <1>1, <1>2, ParseIs
<1>4. segmented = SegmentDocument(parsed, config)
  BY DEF SplitInto
<1>5. Segmented(parsed, config, segmented) /\ VisibleText(parsed)
  BY ONLY <1>3, <1>4, IsConfig(config, Classes), SegmentedIs
<1>6. PICK blocks : blocks = VisibleBlocks(parsed)
  OBVIOUS
<1>7. PICK C, M : SegmentedWell(segmented, blocks, C, M, config)
  BY <1>5, <1>6 DEF Segmented
<1>8. PICK Q : Q = AllSegments(C, M, config)
  OBVIOUS
<1>9. /\ segmented.error \in SegmentErrors /\ segmented.segments \in Seq(Q)
      /\ segmented.warnings \in Seq([code : FallbackCodes, count : Nat])
  BY <1>7, <1>8 DEF SegmentedWell
<1>10. segmented.warnings \in Seq(Warnings)
  <2>1. PICK W : W = [code : FallbackCodes, count : Nat]
    OBVIOUS
  <2>2. \A w \in W : w \in Warnings
    BY <2>1 DEF Warnings, FallbackCodes, WarningCodes
  <2>3. PICK list : list = segmented.warnings
    OBVIOUS
  <2>4. list \in Seq(W)
    BY <1>9, <2>1, <2>3
  <2>5. list \in Seq(Warnings)
    BY ONLY <2>2, <2>4, SeqOfMore
  <2> QED BY <2>3, <2>5
<1>11. parsed.warnings \in Seq(Warnings)
  BY <1>3 DEF ParsedWell
<1> QED BY <1>1, <1>3, <1>5, <1>9, <1>10, <1>11

\* A list of chunks is as long as the list of segments, and a first part of it shows
\* a first part of the segments.
LEMMA ChunksOfSegments ==
    ASSUME NEW Q, NEW segments \in Seq(Q), NEW d, NEW limit \in Nat,
           NEW list, list = ChunkList(d, segments),
           NEW some, some = Head_(segments, limit), NEW T, T = ToSet(list)
    PROVE  /\ list \in Seq(T) /\ Len(list) = Len(segments)
           /\ ChunkList(d, some) = Head_(list, limit)
<1>1. PICK n \in Nat : n = Len(segments)
  OBVIOUS
<1>2. DOMAIN list = 1 .. n /\ DOMAIN segments = 1 .. n
  BY <1>1 DEF ChunkList
<1>3. \A i \in 1 .. n : list[i] \in T
  BY <1>2 DEF ToSet
<1>4. list = [i \in DOMAIN list |-> list[i]]
  BY <1>2 DEF ChunkList
<1>5. list \in Seq(T) /\ Len(list) = n
  BY ONLY <1>2, <1>3, <1>4, n \in Nat, ListIsSeq
<1>6. some = Head_(segments, limit)
  OBVIOUS
<1>7. PICK m \in 0 .. n : m = IF limit <= n THEN limit ELSE n
  OBVIOUS
<1>8. /\ some \in Seq(Q) /\ Len(some) = m
      /\ \A k \in 1 .. Len(some) : some[k] = segments[k]
  BY ONLY <1>1, <1>6, <1>7, segments \in Seq(Q), limit \in Nat, HeadIs
<1>9. PICK first : first = Head_(list, limit)
  OBVIOUS
<1>10. /\ first \in Seq(T) /\ Len(first) = m
       /\ \A k \in 1 .. Len(first) : first[k] = list[k]
  BY ONLY <1>5, <1>7, <1>9, limit \in Nat, HeadIs
<1>11. \A k \in 1 .. m : k \in 1 .. n
  OBVIOUS
<1>12. \A k \in 1 .. n : list[k] = Chunk(d, segments[k])
  BY <1>2 DEF ChunkList
<1>13. DOMAIN some = 1 .. m /\ DOMAIN first = 1 .. m /\ \A k \in 1 .. m : some[k] = segments[k]
  <2>1. some \in Seq(Q) /\ Len(some) = m /\ first \in Seq(T) /\ Len(first) = m
    BY <1>8, <1>10
  <2>2. DOMAIN some = 1 .. m /\ DOMAIN first = 1 .. m
    BY ONLY <2>1
  <2> QED BY <1>8, <2>1, <2>2
<1>14. \A k \in 1 .. m : first[k] = Chunk(d, some[k])
  BY <1>10, <1>11, <1>12, <1>13
<1>15. first = [k \in DOMAIN first |-> first[k]]
  BY <1>10
<1>16. first = [k \in DOMAIN some |-> Chunk(d, some[k])]
  BY ONLY <1>13, <1>14, <1>15
<1> QED BY <1>1, <1>5, <1>9, <1>16 DEF ChunkList

\* Before the first document there is nothing to account for.
LEMMA AccountsForNone ==
    ASSUME NEW contents, NEW config, NEW S, NEW order \in Seq(S)
    PROVE  AccountsFor(contents, config, order, 0, <<>>, 0, Collector(MaxWarnings), <<>>)
<1>1. PICK a : a = [i \in 1 .. 0 |-> ChunksFrom(contents, config, order[i])]
  OBVIOUS
<1>2. PICK b : b = [i \in 1 .. 0 |-> RaisedFrom(contents, config, order[i])]
  OBVIOUS
<1>3. a = <<>> /\ b = <<>>
  BY <1>1, <1>2
<1>4. /\ FirstChunks(contents, config, order, 0) = <<>>
      /\ FirstRaised(contents, config, order, 0) = <<>>
  BY <1>1, <1>2, <1>3, FlattenNone DEF FirstChunks, FirstRaised
<1>5. MaxChunks \in Nat /\ MaxWarnings \in Nat \ {0}
  BY PreviewAssumption
<1>6. Collector(MaxWarnings) \in Collectors(MaxWarnings) /\ Represented(Collector(MaxWarnings)) = 0
  BY ONLY <1>5, CollectorIs
<1>7. Head_(<<>>, MaxChunks) = <<>>
  <2>0. PICK none : none = <<>>
    OBVIOUS
  <2>1. none = <<>> /\ none \in Seq(Nat) /\ Len(none) = 0
    BY <2>0
  <2>2. PICK h : h = Head_(none, MaxChunks)
    OBVIOUS
  <2>3. h \in Seq(Nat) /\ Len(h) = IF MaxChunks <= 0 THEN MaxChunks ELSE 0
    BY ONLY <1>5, <2>1, <2>2, HeadIs
  <2>4. Len(h) = 0
    BY <1>5, <2>3
  <2> QED BY <2>1, <2>2, <2>3, <2>4
<1>8. SubSeq(order, 1, 0) = <<>>
  OBVIOUS
<1>9. Len(<<>>) = 0 /\ IsList(<<>>)
  BY DEF IsList
<1> QED BY <1>4, <1>6, <1>7, <1>8, <1>9, CountedNone DEF AccountsFor

\* Before the first document the order says nothing.
LEMMA SameAtFirst ==
    ASSUME NEW contents, NEW config, NEW S, NEW S2, NEW order \in Seq(S), NEW other \in Seq(S2),
           NEW shown, NEW count, NEW collector, NEW done,
           AccountsFor(contents, config, order, 0, shown, count, collector, done)
    PROVE  AccountsFor(contents, config, other, 0, shown, count, collector, done)
<1>1. /\ [i \in 1 .. 0 |-> ChunksFrom(contents, config, order[i])] = <<>>
      /\ [i \in 1 .. 0 |-> ChunksFrom(contents, config, other[i])] = <<>>
      /\ [i \in 1 .. 0 |-> RaisedFrom(contents, config, order[i])] = <<>>
      /\ [i \in 1 .. 0 |-> RaisedFrom(contents, config, other[i])] = <<>>
  OBVIOUS
<1>2. /\ FirstChunks(contents, config, order, 0) = FirstChunks(contents, config, other, 0)
      /\ FirstRaised(contents, config, order, 0) = FirstRaised(contents, config, other, 0)
  BY <1>1 DEF FirstChunks, FirstRaised
<1>3. SubSeq(order, 1, 0) = <<>> /\ SubSeq(other, 1, 0) = <<>>
  OBVIOUS
<1> QED BY <1>2, <1>3 DEF AccountsFor

\* The lists of the first n + 1 documents.
LEMMA OneMoreGiven ==
    ASSUME NEW n \in Nat, NEW list, DOMAIN list = 1 .. n + 1, list = [i \in 1 .. n + 1 |-> list[i]],
           NEW S, \A i \in 1 .. n + 1 : list[i] \in Seq(S),
           NEW less, less = [i \in 1 .. n |-> list[i]]
    PROVE  /\ FlattenSeq(less) \in Seq(S)
           /\ FlattenSeq(list) = FlattenSeq(less) \o list[n + 1]
<1>1. PICK T : T = Seq(S)
  OBVIOUS
<1>2. DOMAIN less = 1 .. n /\ less = [i \in DOMAIN less |-> less[i]]
  OBVIOUS
<1>3. \A i \in 1 .. n : less[i] \in T /\ less[i] = list[i]
  BY <1>1
<1>4. less \in Seq(T) /\ Len(less) = n
  BY ONLY <1>2, <1>3, n \in Nat, ListIsSeq
<1>5. PICK last : last = list[n + 1]
  OBVIOUS
<1>6. last \in T
  BY <1>1, <1>5
<1>7. PICK more : more = Append(less, last)
  OBVIOUS
<1>8. /\ more \in Seq(T) /\ Len(more) = n + 1 /\ more[n + 1] = last
      /\ \A i \in 1 .. n : more[i] = less[i]
  BY ONLY <1>4, <1>6, <1>7, AppendIsSeq
<1>9. \A i \in 1 .. n + 1 : list[i] \in T
  BY <1>1
<1>10. list = [i \in DOMAIN list |-> list[i]]
  OBVIOUS
<1>11. n + 1 \in Nat
  OBVIOUS
<1>12. list \in Seq(T) /\ Len(list) = n + 1
  BY ONLY <1>9, <1>10, <1>11, DOMAIN list = 1 .. n + 1, ListIsSeq
<1>13. \A i \in 1 .. n + 1 : more[i] = list[i]
  <2>1. \A i \in 1 .. n + 1 : i \in 1 .. n \/ i = n + 1
    OBVIOUS
  <2> QED BY <1>3, <1>5, <1>8, <2>1
<1>14. more = list
  <2>1. more \in Seq(T) /\ Len(more) = n + 1
    BY <1>8
  <2> QED BY ONLY <1>12, <1>13, <2>1, SameElements
<1>15. less \in Seq(Seq(S)) /\ last \in Seq(S)
  BY <1>1, <1>4, <1>6
<1>16. FlattenSeq(Append(less, last)) = FlattenSeq(less) \o last
  BY ONLY <1>15, FlattenAppend
<1>17. FlattenSeq(less) \in Seq(S)
  BY ONLY <1>15, FlattenIs
<1> QED BY <1>5, <1>7, <1>14, <1>16, <1>17

\* The chunks of the first n + 1 documents are those of the first n and then those of
\* the next.
LEMMA OneMoreOfChunks ==
    ASSUME NEW contents, NEW config, NEW order, Readable(contents, config, order),
           NEW n \in Nat, n + 1 <= Len(order)
    PROVE  \E S : /\ FirstChunks(contents, config, order, n) \in Seq(S)
                  /\ ChunksFrom(contents, config, order[n + 1]) \in Seq(S)
                  /\ FirstChunks(contents, config, order, n + 1)
                       = FirstChunks(contents, config, order, n)
                         \o ChunksFrom(contents, config, order[n + 1])
<1>1. PICK list : list = [i \in 1 .. n + 1 |-> ChunksFrom(contents, config, order[i])]
  OBVIOUS
<1>2. PICK less : less = [i \in 1 .. n |-> list[i]]
  OBVIOUS
<1>3. PICK S : S = UNION {ToSet(list[i]) : i \in 1 .. n + 1}
  OBVIOUS
<1>4. ASSUME NEW i \in 1 .. n + 1
      PROVE  list[i] \in Seq(S)
  <2>1. PICK d : d = order[i]
    OBVIOUS
  <2>2. IsConfig(config, Classes) /\ IsContent(contents[d])
    BY <2>1 DEF Readable
  <2>3. PICK parsed, segmented : parsed = ReadFrom(contents, d)
                                 /\ segmented = SplitInto(contents, config, d)
    OBVIOUS
  <2>4. \E Q : segmented.segments \in Seq(Q)
    BY ONLY <2>2, <2>3, DocumentGives
  <2>5. PICK Q : segmented.segments \in Seq(Q)
    BY <2>4
  <2>6. PICK segments : segments = segmented.segments
    OBVIOUS
  <2>7. PICK chunked : chunked = ChunkList(d, segments)
    OBVIOUS
  <2>8. PICK limit \in Nat : limit = 0
    OBVIOUS
  <2>9. PICK some : some = Head_(segments, limit)
    OBVIOUS
  <2>10. PICK T : T = ToSet(chunked)
    OBVIOUS
  <2>11. chunked \in Seq(T)
    BY ONLY <2>5, <2>6, <2>7, <2>9, <2>10, limit \in Nat, ChunksOfSegments
  <2>12. list[i] = chunked
    BY <1>1, <2>1, <2>3, <2>6, <2>7 DEF ChunksFrom
  <2>13. \A x \in T : x \in S
    BY <1>3, <2>10, <2>12
  <2> QED BY ONLY <2>11, <2>12, <2>13, SeqOfMore
<1>5. /\ DOMAIN list = 1 .. n + 1 /\ list = [i \in 1 .. n + 1 |-> list[i]]
      /\ n + 1 \in 1 .. n + 1 /\ \A i \in 1 .. n : i \in 1 .. n + 1
  BY <1>1
<1>6. /\ FlattenSeq(less) \in Seq(S)
      /\ FlattenSeq(list) = FlattenSeq(less) \o list[n + 1]
  BY ONLY <1>2, <1>4, <1>5, n \in Nat, OneMoreGiven
<1>7. FirstChunks(contents, config, order, n + 1) = FlattenSeq(list)
  BY <1>1 DEF FirstChunks
<1>8. less = [i \in 1 .. n |-> ChunksFrom(contents, config, order[i])]
  BY <1>1, <1>2, <1>5
<1>9. FirstChunks(contents, config, order, n) = FlattenSeq(less)
  BY <1>8 DEF FirstChunks
<1>10. list[n + 1] = ChunksFrom(contents, config, order[n + 1])
  BY <1>1, <1>5
<1>11. list[n + 1] \in Seq(S)
  BY <1>4, <1>5
<1> QED BY <1>6, <1>7, <1>9, <1>10, <1>11

\* The same of their warnings.
LEMMA OneMoreOfWarnings ==
    ASSUME NEW contents, NEW config, NEW order, Readable(contents, config, order),
           NEW n \in Nat, n + 1 <= Len(order)
    PROVE  /\ FirstRaised(contents, config, order, n) \in Seq(Warnings)
           /\ FirstRaised(contents, config, order, n + 1)
                = FirstRaised(contents, config, order, n)
                  \o RaisedFrom(contents, config, order[n + 1])
<1>1. PICK list : list = [i \in 1 .. n + 1 |-> RaisedFrom(contents, config, order[i])]
  OBVIOUS
<1>2. PICK less : less = [i \in 1 .. n |-> list[i]]
  OBVIOUS
<1>3. ASSUME NEW i \in 1 .. n + 1
      PROVE  list[i] \in Seq(Warnings)
  <2>1. PICK d : d = order[i]
    OBVIOUS
  <2>2. IsConfig(config, Classes) /\ IsContent(contents[d])
    BY <2>1 DEF Readable
  <2>3. PICK parsed, segmented : parsed = ReadFrom(contents, d)
                                 /\ segmented = SplitInto(contents, config, d)
    OBVIOUS
  <2>4. parsed.warnings \in Seq(Warnings) /\ segmented.warnings \in Seq(Warnings)
    BY ONLY <2>2, <2>3, DocumentGives
  <2>5. PICK a, b : a = parsed.warnings /\ b = segmented.warnings
    OBVIOUS
  <2>6. a \o b \in Seq(Warnings)
    BY ONLY <2>4, <2>5, JoinIsSeq
  <2>7. list[i] = a \o b
    BY <1>1, <2>1, <2>3, <2>5 DEF RaisedFrom
  <2> QED BY <2>6, <2>7
<1>4. /\ DOMAIN list = 1 .. n + 1 /\ list = [i \in 1 .. n + 1 |-> list[i]]
      /\ n + 1 \in 1 .. n + 1 /\ \A i \in 1 .. n : i \in 1 .. n + 1
  BY <1>1
<1>5. /\ FlattenSeq(less) \in Seq(Warnings)
      /\ FlattenSeq(list) = FlattenSeq(less) \o list[n + 1]
  BY ONLY <1>2, <1>3, <1>4, n \in Nat, OneMoreGiven
<1>6. FirstRaised(contents, config, order, n + 1) = FlattenSeq(list)
  BY <1>1 DEF FirstRaised
<1>7. less = [i \in 1 .. n |-> RaisedFrom(contents, config, order[i])]
  BY <1>1, <1>2, <1>4
<1>8. FirstRaised(contents, config, order, n) = FlattenSeq(less)
  BY <1>7 DEF FirstRaised
<1>9. list[n + 1] = RaisedFrom(contents, config, order[n + 1])
  BY <1>1, <1>4
<1> QED BY <1>5, <1>6, <1>8, <1>9

\* The chunks and warnings of one more document are accounted for.
LEMMA AccountsForOneMore ==
    ASSUME NEW contents, NEW config, NEW order, Readable(contents, config, order),
           NEW n \in Nat, n + 1 <= Len(order), NEW shown, NEW count, NEW collector, NEW done,
           AccountsFor(contents, config, order, n, shown, count, collector, done),
           NEW d, d = order[n + 1], NEW parsed, parsed = ReadFrom(contents, d),
           NEW segmented, segmented = SplitInto(contents, config, d),
           NEW segments, segments = segmented.segments,
           NEW some, some = Head_(segments, MaxChunks - Len(shown)),
           NEW collected, collected = AddWarnings(AddWarnings(collector, parsed.warnings),
                                                  segmented.warnings)
    PROVE  AccountsFor(contents, config, order, n + 1,
               shown \o ChunkList(d, some), count + Len(segments),
               collected, Append(done, d))
<1>1. MaxChunks \in Nat /\ MaxWarnings \in Nat \ {0}
  BY PreviewAssumption
<1>2. PICK all : all = FirstChunks(contents, config, order, n)
  OBVIOUS
<1>3. PICK given : given = ChunksFrom(contents, config, d)
  OBVIOUS
<1>4. PICK S : /\ all \in Seq(S) /\ given \in Seq(S)
               /\ FirstChunks(contents, config, order, n + 1) = all \o given
  <2>1. \E S : /\ FirstChunks(contents, config, order, n) \in Seq(S)
               /\ ChunksFrom(contents, config, order[n + 1]) \in Seq(S)
               /\ FirstChunks(contents, config, order, n + 1)
                    = FirstChunks(contents, config, order, n)
                      \o ChunksFrom(contents, config, order[n + 1])
    BY ONLY Readable(contents, config, order), n \in Nat, n + 1 <= Len(order), OneMoreOfChunks
  <2> QED BY <1>2, <1>3, <2>1
<1>5. PICK raised : raised = FirstRaised(contents, config, order, n)
  OBVIOUS
<1>6. /\ raised \in Seq(Warnings)
      /\ FirstRaised(contents, config, order, n + 1) = raised \o RaisedFrom(contents, config, d)
  <2>1. /\ FirstRaised(contents, config, order, n) \in Seq(Warnings)
        /\ FirstRaised(contents, config, order, n + 1)
             = FirstRaised(contents, config, order, n)
               \o RaisedFrom(contents, config, order[n + 1])
    BY ONLY Readable(contents, config, order), n \in Nat, n + 1 <= Len(order), OneMoreOfWarnings
  <2> QED BY <1>5, <2>1
<1>7. /\ shown = Head_(all, MaxChunks) /\ count = Len(all)
      /\ collector \in Collectors(MaxWarnings) /\ Represented(collector) = Counted(raised)
      /\ done = SubSeq(order, 1, n)
  BY <1>2, <1>5 DEF AccountsFor
<1>8. /\ parsed.warnings \in Seq(Warnings) /\ segmented.warnings \in Seq(Warnings)
      /\ \E Q : segmented.segments \in Seq(Q)
  <2>1. IsConfig(config, Classes) /\ IsContent(contents[d])
    BY DEF Readable
  <2> QED BY ONLY <2>1, parsed = ReadFrom(contents, d), DocumentGives,
                  segmented = SplitInto(contents, config, d)
<1>9. PICK Q : segments \in Seq(Q)
  BY <1>8
\* The chunks.
<1>10. PICK limit : limit = MaxChunks - Len(shown)
  OBVIOUS
<1>11. limit \in Nat /\ Head_(all \o given, MaxChunks) = shown \o Head_(given, limit)
  <2>1. /\ MaxChunks - Len(Head_(all, MaxChunks)) \in Nat
        /\ Head_(all \o given, MaxChunks)
             = Head_(all, MaxChunks) \o Head_(given, MaxChunks - Len(Head_(all, MaxChunks)))
    BY ONLY <1>1, <1>4, HeadOfJoin, ZenonT(30)
  <2> QED BY <1>7, <1>10, <2>1
<1>12. given = ChunkList(d, segments)
  BY <1>3 DEF ChunksFrom
<1>13. PICK T : T = ToSet(given)
  OBVIOUS
<1>14. some = Head_(segments, limit)
  BY <1>10
<1>15. /\ Len(given) = Len(segments)
       /\ ChunkList(d, some) = Head_(given, limit)
  BY ONLY <1>9, <1>11, <1>12, <1>13, <1>14, ChunksOfSegments
<1>16. shown \o ChunkList(d, some)
         = Head_(FirstChunks(contents, config, order, n + 1), MaxChunks)
  BY <1>4, <1>11, <1>15
<1>17. count + Len(segments) = Len(FirstChunks(contents, config, order, n + 1))
  <2>1. Len(all \o given) = Len(all) + Len(given)
    BY ONLY <1>4, JoinIsSeq
  <2> QED BY <1>4, <1>7, <1>15, <2>1
\* The warnings.
<1>18. PICK a, b : a = parsed.warnings /\ b = segmented.warnings
  OBVIOUS
<1>19. a \in Seq(Warnings) /\ b \in Seq(Warnings)
  BY <1>8, <1>18
<1>20. PICK ca, cb : ca = AddWarnings(collector, a) /\ cb = AddWarnings(ca, b)
  OBVIOUS
<1>21. /\ ca \in Collectors(MaxWarnings) /\ Represented(ca) = Represented(collector) + Counted(a)
  BY ONLY <1>1, <1>7, <1>19, <1>20, AddWarningsIs
<1>22. /\ cb \in Collectors(MaxWarnings) /\ Represented(cb) = Represented(ca) + Counted(b)
  BY ONLY <1>1, <1>19, <1>20, <1>21, AddWarningsIs
<1>23. a \o b \in Seq(Warnings) /\ Counted(a \o b) = Counted(a) + Counted(b)
       /\ Counted(a) \in Nat /\ Counted(b) \in Nat
  BY ONLY <1>19, CountedJoin
<1>24. Counted(raised \o (a \o b)) = Counted(raised) + Counted(a \o b) /\ Counted(raised) \in Nat
  BY ONLY <1>6, <1>23, CountedJoin
<1>25. RaisedFrom(contents, config, d) = a \o b
  BY <1>18 DEF RaisedFrom
<1>26. collected = cb
  BY <1>18, <1>20
<1>27. Counted(FirstRaised(contents, config, order, n + 1)) = Counted(raised \o (a \o b))
  BY ONLY <1>6, <1>25
<1>28. Represented(collected) = Counted(FirstRaised(contents, config, order, n + 1))
  BY ONLY <1>7, <1>21, <1>22, <1>23, <1>24, <1>26, <1>27
<1>29. collected \in Collectors(MaxWarnings)
  BY <1>22, <1>26
\* The documents.
<1>30. Append(done, d) = SubSeq(order, 1, n + 1)
  <2>1. order \in Seq(DOMAIN contents)
    BY DEF Readable
  <2>2. 1 \in 1 .. Len(order) + 1 /\ n \in 1 - 1 .. Len(order) /\ n + 1 \in 1 - 1 .. Len(order)
    BY <2>1
  <2>3. PICK D : D = DOMAIN contents /\ order \in Seq(D)
    BY <2>1
  <2>4. /\ done \in Seq(D) /\ Len(done) = n - 1 + 1
        /\ \A k \in 1 .. n - 1 + 1 : done[k] = order[1 + k - 1]
    BY ONLY <1>7, <2>2, <2>3, SliceIsSeq
  <2>5. PICK longer : longer = SubSeq(order, 1, n + 1)
    OBVIOUS
  <2>6. /\ longer \in Seq(D) /\ Len(longer) = n + 1 - 1 + 1
        /\ \A k \in 1 .. n + 1 - 1 + 1 : longer[k] = order[1 + k - 1]
    BY ONLY <2>2, <2>3, <2>5, SliceIsSeq
  <2>7. n - 1 + 1 = n /\ n + 1 - 1 + 1 = n + 1 /\ \A k \in 1 .. n + 1 : 1 + k - 1 = k
    OBVIOUS
  <2>8. d \in D
    BY <2>1, <2>2, <2>3
  <2>9. PICK more : more = Append(done, d)
    OBVIOUS
  <2>10. /\ more \in Seq(D) /\ Len(more) = Len(done) + 1 /\ more[Len(done) + 1] = d
         /\ \A i \in 1 .. Len(done) : more[i] = done[i]
    BY ONLY <2>4, <2>8, <2>9, AppendIsSeq
  <2>11. more \in Seq(D) /\ Len(more) = n + 1
    BY <2>4, <2>7, <2>10
  <2>12. longer \in Seq(D) /\ Len(longer) = n + 1
    BY <2>6, <2>7
  <2>13. \A k \in 1 .. n + 1 : more[k] = longer[k]
    <3> SUFFICES ASSUME NEW k \in 1 .. n + 1 PROVE more[k] = longer[k]
      OBVIOUS
    <3>1. longer[k] = order[k]
      BY <2>6, <2>7
    <3>2. CASE k = n + 1
      BY <2>4, <2>7, <2>10, <3>1, <3>2
    <3>3. CASE k # n + 1
      <4>1. k \in 1 .. n
        BY <3>3
      <4> QED BY <2>4, <2>7, <2>10, <3>1, <4>1
    <3> QED BY <3>2, <3>3
  <2>14. more = longer
    BY ONLY <2>11, <2>12, <2>13, SameElements
  <2> QED BY <2>5, <2>9, <2>14
<1>31. IsList(FirstChunks(contents, config, order, n + 1))
  <2>1. all \o given \in Seq(S)
    BY ONLY <1>4, JoinIsSeq
  <2>2. IsList(all \o given)
    BY ONLY <2>1, ListIs
  <2> QED BY <1>4, <2>2
<1> QED BY <1>16, <1>17, <1>28, <1>29, <1>30, <1>31 DEF AccountsFor

(***************************************************************************)
(* The inductive invariant of a preview request.                           *)
(***************************************************************************)
Running == {"dataset", "records", "read", "parse", "collect"}
Loaded == {"read", "parse", "collect"}
Statuses == {0, 200, 404, 422, 503, 504}

\* What is stored of every document never changes.
Contents == [d \in DOMAIN documents |-> documents[d].content]

\* The request and the records are what they were given as.
GivenInv == IsRequest(request) /\ AreDocuments(documents)

\* The request works on the unique ids, one after the other, all of which are records.
FlowInv ==
    /\ dataset \in BOOLEAN /\ phase \in Phases
    /\ ids \in Seq(ToSet(request.ids)) /\ next \in 1 .. Len(ids) + 1
    /\ phase = "new" => ids = <<>> /\ next = 1
    /\ phase \in Running => ids = Unique(request.ids)
    /\ phase \in Loaded => \A i \in 1 .. Len(ids) : ids[i] \in DOMAIN documents
    /\ phase \in {"parse", "collect"} => next <= Len(ids)

\* The document in hand was parsed and segmented without an error.
HandInv ==
    phase = "collect" =>
        /\ current.parsed = ReadFrom(Contents, ids[next])
        /\ current.segmented = SplitInto(Contents, request.config, ids[next])
        /\ current.parsed.error = "none" /\ current.segmented.error = "none"

\* The results account for the documents before the one in hand.
ResultInv == AccountsFor(Contents, request.config, ids, next - 1,
                         chunks, total, warnings, previewed)

\* All documents of the request were gone through.
Ended ==
    /\ ids = Unique(request.ids) /\ next = Len(ids) + 1
    /\ \A i \in 1 .. Len(ids) : ids[i] \in DOMAIN documents

\* An answer without an error is given at the end.
ResponseInv ==
    /\ response \in [status : Statuses, code : Codes]
    /\ phase # "answered" => response = [status |-> 0, code |-> "none"]
    /\ response.status = 200 /\ response.code = "none" => Ended

PreviewInv == GivenInv /\ FlowInv /\ HandInv /\ ResultInv /\ ResponseInv

\* The settings of the preview are positive.
LEMMA SettingsAre == MaxChunks \in Nat /\ MaxWarnings \in Nat \ {0}
BY PreviewAssumption

\* The codes of the parsers and of the segmenter are codes of the preview.
LEMMA CodesAre == ParserCodes \subseteq Codes /\ SegmentErrors \subseteq Codes
BY DEF ParserCodes, SegmentErrors, Codes

\* A request starts with nothing done.
LEMMA PreviewStarts == Init => PreviewInv
<1> SUFFICES ASSUME Init PROVE PreviewInv
  OBVIOUS
<1>1. PICK i \in DOMAIN Scenarios : \E s \in Scenarios[i] :
          request = s.request /\ documents = s.documents
  BY DEF Init
<1>2. PICK s \in Scenarios[i] : request = s.request /\ documents = s.documents
  BY <1>1
<1>3. GivenInv
  BY <1>2, PreviewAssumption DEF GivenInv
<1>4. /\ dataset = TRUE /\ phase = "new" /\ ids = <<>> /\ next = 1
      /\ chunks = <<>> /\ total = 0 /\ previewed = <<>> /\ warnings = Collector(MaxWarnings)
      /\ response = [status |-> 0, code |-> "none"]
  BY DEF Init
<1>5. FlowInv
  BY <1>4 DEF FlowInv, Phases, Running, Loaded
<1>6. HandInv
  BY <1>4 DEF HandInv
<1>7. ResultInv
  <2>1. PICK order : order = ids
    OBVIOUS
  <2>2. order \in Seq(Nat)
    BY <1>4, <2>1
  <2>3. AccountsFor(Contents, request.config, order, 0, <<>>, 0, Collector(MaxWarnings), <<>>)
    BY ONLY <2>2, AccountsForNone
  <2>4. next - 1 = 0
    BY <1>4
  <2> QED BY <1>4, <2>1, <2>3, <2>4 DEF ResultInv
<1>8. ResponseInv
  BY <1>4 DEF ResponseInv, Statuses, Codes
<1> QED BY <1>3, <1>5, <1>6, <1>7, <1>8 DEF PreviewInv

\* What stays when the request, the records and their contents do.
LEMMA GivenStays ==
    ASSUME GivenInv, UNCHANGED <<request, documents>>
    PROVE  GivenInv' /\ Contents' = Contents
BY DEF GivenInv, Contents

\* What stays when the results do.
LEMMA ResultStays ==
    ASSUME ResultInv, Contents' = Contents,
           UNCHANGED <<request, ids, next, chunks, total, warnings, previewed>>
    PROVE  ResultInv'
BY DEF ResultInv

\* The status of an answer.
LEMMA StatusIs == \A code : Status(code) \in Statuses
BY DEF Status, Statuses

\* An answer ends the request; one without an error is given at its end.
LEMMA AnswerKeeps ==
    ASSUME PreviewInv, NEW code \in Codes, Answer(code),
           code = "none" => Ended
    PROVE  PreviewInv'
<1>1. /\ phase' = "answered" /\ response' = [status |-> Status(code), code |-> code]
      /\ UNCHANGED <<request, dataset, documents, ids, next, chunks, total, warnings, previewed>>
  BY DEF Answer, results
<1>2. GivenInv' /\ Contents' = Contents
  BY <1>1, GivenStays DEF PreviewInv
<1>3. FlowInv'
  BY <1>1 DEF PreviewInv, FlowInv, Phases, Running, Loaded
<1>4. HandInv'
  BY <1>1 DEF HandInv
<1>5. ResultInv'
  BY <1>1, <1>2, ResultStays DEF PreviewInv
<1>6. ResponseInv'
  <2>1. Status(code) \in Statuses
    BY StatusIs
  <2>2. response' \in [status : Statuses, code : Codes]
    BY <1>1, <2>1
  <2>3. response'.code = code
    BY <1>1
  <2>4. Ended => Ended'
    BY <1>1 DEF Ended
  <2> QED BY <1>1, <2>2, <2>3, <2>4 DEF ResponseInv
<1> QED BY <1>2, <1>3, <1>4, <1>5, <1>6 DEF PreviewInv

\* A step that only waits for the next thing.
LEMMA PhaseKeeps ==
    ASSUME PreviewInv, FlowInv', HandInv', phase # "answered", phase' # "answered",
           UNCHANGED <<request, documents, ids, next, chunks, total, warnings, previewed, response>>
    PROVE  PreviewInv'
<1>1. GivenInv' /\ Contents' = Contents
  BY GivenStays DEF PreviewInv
<1>2. ResultInv'
  BY <1>1, ResultStays DEF PreviewInv
<1>3. ResponseInv'
  BY DEF PreviewInv, ResponseInv
<1> QED BY <1>1, <1>2, <1>3 DEF PreviewInv

\* The codes a refused request is answered with.
LEMMA RequestErrorIs == RequestError \in Codes
BY DEF RequestError, Codes

\* The request is checked, and its ids are made unique.
LEMMA StartKeeps == ASSUME PreviewInv, Start PROVE PreviewInv'
<1>1. CASE RequestError # "none"
  <2>1. Answer(RequestError)
    BY <1>1 DEF Start
  <2> QED BY <1>1, <2>1, RequestErrorIs, AnswerKeeps
<1>2. CASE RequestError = "none"
  <2>1. /\ phase = "new" /\ phase' = "dataset" /\ ids' = Unique(request.ids)
        /\ UNCHANGED <<request, dataset, documents, next, current, chunks, total, warnings,
                       previewed, response>>
    BY <1>2 DEF Start, results
  <2>2. GivenInv' /\ Contents' = Contents
    BY <2>1, GivenStays DEF PreviewInv
  <2>3. PICK wanted : wanted = request.ids /\ wanted \in Seq(ToSet(wanted))
    BY DEF PreviewInv, GivenInv, IsRequest
  <2>4. ids' \in Seq(ToSet(request.ids))
    BY <2>1, <2>3, UniqueIs
  <2>5. next = 1 /\ ids = <<>> /\ dataset \in BOOLEAN
    BY <2>1 DEF PreviewInv, FlowInv
  <2>6. FlowInv'
    <3>1. Len(ids') \in Nat
      BY <2>4
    <3>2. next' \in 1 .. Len(ids') + 1
      BY <2>1, <2>5, <3>1
    <3> QED BY <2>1, <2>4, <2>5, <3>2 DEF FlowInv, Phases, Running, Loaded
  <2>7. HandInv'
    BY <2>1 DEF HandInv
  <2>8. ResultInv'
    <3>1. next - 1 = 0 /\ next' - 1 = 0
      BY <2>1, <2>5
    <3>2. AccountsFor(Contents, request.config, ids, 0, chunks, total, warnings, previewed)
      BY <3>1 DEF PreviewInv, ResultInv
    <3>3. PICK order : order = ids' /\ order \in Seq(ToSet(request.ids))
      BY <2>4
    <3>4. ids \in Seq(Nat)
      BY <2>5
    <3>5. AccountsFor(Contents, request.config, order, 0, chunks, total, warnings, previewed)
      BY ONLY <3>2, <3>3, <3>4, SameAtFirst
    <3> QED BY <2>1, <2>2, <3>1, <3>3, <3>5 DEF ResultInv
  <2>9. ResponseInv'
    BY <2>1 DEF PreviewInv, ResponseInv
  <2> QED BY <2>2, <2>6, <2>7, <2>8, <2>9 DEF PreviewInv
<1> QED BY <1>1, <1>2

\* The knowledge base is loaded.
LEMMA LoadDatasetKeeps == ASSUME PreviewInv, LoadDataset PROVE PreviewInv'
<1>1. CASE ~dataset
  <2>1. Answer("DATASET_NOT_FOUND")
    BY <1>1 DEF LoadDataset
  <2>2. "DATASET_NOT_FOUND" \in Codes /\ "DATASET_NOT_FOUND" # "none"
    BY DEF Codes
  <2> QED BY ONLY PreviewInv, <2>1, <2>2, AnswerKeeps
<1>2. CASE dataset
  <2>1. /\ phase = "dataset" /\ phase' = "records"
        /\ UNCHANGED <<request, dataset, documents, ids, next, current, chunks, total, warnings,
                       previewed, response>>
    BY <1>2 DEF LoadDataset, results
  <2>2. FlowInv'
    BY <2>1 DEF PreviewInv, FlowInv, Phases, Running, Loaded
  <2>3. HandInv'
    BY <2>1 DEF HandInv
  <2> QED BY <2>1, <2>2, <2>3, PhaseKeeps
<1> QED BY <1>1, <1>2

\* The records are loaded: from here on every id is a document.
LEMMA LoadRecordsKeeps == ASSUME PreviewInv, LoadRecords PROVE PreviewInv'
<1>1. CASE \E i \in DOMAIN ids : ids[i] \notin DOMAIN documents \/ ~documents[ids[i]].active
  <2>1. Answer("DOCUMENT_NOT_FOUND")
    BY <1>1 DEF LoadRecords
  <2>2. "DOCUMENT_NOT_FOUND" \in Codes /\ "DOCUMENT_NOT_FOUND" # "none"
    BY DEF Codes
  <2> QED BY ONLY PreviewInv, <2>1, <2>2, AnswerKeeps
<1>2. CASE ~\E i \in DOMAIN ids : ids[i] \notin DOMAIN documents \/ ~documents[ids[i]].active
  <2>1. /\ phase = "records" /\ phase' = "read"
        /\ UNCHANGED <<request, dataset, documents, ids, next, current, chunks, total, warnings,
                       previewed, response>>
    BY <1>2 DEF LoadRecords, results
  <2>2. ids \in Seq(ToSet(request.ids))
    BY DEF PreviewInv, FlowInv
  <2>3. \A i \in 1 .. Len(ids) : ids[i] \in DOMAIN documents
    BY <1>2, <2>2
  <2>4. FlowInv'
    BY <2>1, <2>3 DEF PreviewInv, FlowInv, Phases, Running, Loaded
  <2>5. HandInv'
    BY <2>1 DEF HandInv
  <2> QED BY <2>1, <2>4, <2>5, PhaseKeeps
<1> QED BY <1>1, <1>2

\* The codes a bad source is answered with.
LEMMA SourceErrorIs == \A document : SourceError(document) \in Codes
BY DEF SourceError, Codes

\* A source is read.
LEMMA ReadSourceKeeps == ASSUME PreviewInv, ReadSource PROVE PreviewInv'
<1>1. PICK document : document = documents[ids[next]]
  OBVIOUS
<1>2. CASE SourceError(document) # "none"
  <2>1. Answer(SourceError(document))
    BY <1>1, <1>2 DEF ReadSource
  <2>2. SourceError(document) \in Codes
    BY SourceErrorIs
  <2> QED BY ONLY PreviewInv, <1>2, <2>1, <2>2, AnswerKeeps
<1>3. CASE Answer("OBJECT_STORAGE_UNAVAILABLE")
  <2>1. "OBJECT_STORAGE_UNAVAILABLE" \in Codes /\ "OBJECT_STORAGE_UNAVAILABLE" # "none"
    BY DEF Codes
  <2> QED BY ONLY PreviewInv, <1>3, <2>1, AnswerKeeps
<1>4. CASE Answer("INVALID_SOURCE_METADATA")
  <2>1. "INVALID_SOURCE_METADATA" \in Codes /\ "INVALID_SOURCE_METADATA" # "none"
    BY DEF Codes
  <2> QED BY ONLY PreviewInv, <1>4, <2>1, AnswerKeeps
<1>5. CASE /\ phase = "read" /\ next <= Len(ids) /\ phase' = "parse"
           /\ UNCHANGED <<request, dataset, documents, ids, next, current, results, response>>
  <2>1. UNCHANGED <<request, dataset, documents, ids, next, current, chunks, total, warnings,
                    previewed, response>>
    BY <1>5 DEF results
  <2>2. FlowInv'
    BY <1>5, <2>1 DEF PreviewInv, FlowInv, Phases, Running, Loaded
  <2>3. HandInv'
    BY <1>5 DEF HandInv
  <2> QED BY <1>5, <2>1, <2>2, <2>3, PhaseKeeps
<1> QED BY <1>1, <1>2, <1>3, <1>4, <1>5 DEF ReadSource

\* The response is rendered after the last document.
LEMMA RenderKeeps == ASSUME PreviewInv, Render PROVE PreviewInv'
<1>1. phase = "read" /\ next > Len(ids) /\ Answer("none")
  BY DEF Render
<1>2. ids = Unique(request.ids) /\ next \in 1 .. Len(ids) + 1 /\ ids \in Seq(ToSet(request.ids))
  BY <1>1 DEF PreviewInv, FlowInv, Running
<1>3. next = Len(ids) + 1
  BY <1>1, <1>2
<1>4. "none" \in Codes
  BY DEF Codes
<1>5. Ended
  BY <1>1, <1>2, <1>3 DEF PreviewInv, FlowInv, Loaded, Ended
<1> QED BY ONLY PreviewInv, <1>1, <1>4, <1>5, AnswerKeeps

\* A timeout or a failing service ends the request with an error.
LEMMA FaultsKeep == ASSUME PreviewInv, Faults PROVE PreviewInv'
<1>1. PICK code \in {"PREVIEW_TIMEOUT", "PREVIEW_INFRASTRUCTURE_UNAVAILABLE",
                     "OBJECT_STORAGE_UNAVAILABLE"} : Answer(code)
  BY DEF Faults, Timeout, DatabaseFails, StorageFails
<1>2. code \in Codes /\ code # "none"
  BY DEF Codes
<1> QED BY ONLY PreviewInv, <1>1, <1>2, AnswerKeeps

\* What can be read of the documents of a request that has loaded them.
LEMMA ContentsAreReadable ==
    ASSUME GivenInv, FlowInv, phase \in Loaded
    PROVE  /\ Readable(Contents, request.config, ids)
           /\ DOMAIN Contents = DOMAIN documents
           /\ \A d \in DOMAIN documents : Contents[d] = documents[d].content
<1>1. DOMAIN Contents = DOMAIN documents
      /\ \A d \in DOMAIN documents : Contents[d] = documents[d].content
  BY DEF Contents
<1>2. \A d \in DOMAIN documents : IsContent(documents[d].content)
  BY DEF GivenInv, AreDocuments
<1>3. IsConfig(request.config, Classes)
  BY DEF GivenInv, IsRequest, IsConfig
<1>4. ids \in Seq(ToSet(request.ids)) /\ \A i \in 1 .. Len(ids) : ids[i] \in DOMAIN documents
  BY DEF FlowInv
<1>5. PICK D : D = DOMAIN documents
  OBVIOUS
<1>6. ids \in Seq(D)
  BY <1>4, <1>5
<1> QED BY <1>1, <1>2, <1>3, <1>5, <1>6 DEF Readable

\* The document in hand is parsed and segmented.
LEMMA ParseAndSegmentKeeps == ASSUME PreviewInv, ParseAndSegment PROVE PreviewInv'
<1>1. PICK d : d = ids[next]
  OBVIOUS
<1>2. PICK parsed, segmented :
          /\ parsed = Parse(documents[d].content)
          /\ segmented = SegmentDocument(parsed, request.config)
          /\ IF parsed.error # "none" THEN Answer(parsed.error)
             ELSE IF segmented.error # "none" THEN Answer(segmented.error)
             ELSE /\ phase' = "collect"
                  /\ current' = [parsed |-> parsed, segmented |-> segmented]
                  /\ UNCHANGED <<request, dataset, documents, ids, next, results, response>>
  BY <1>1 DEF ParseAndSegment
<1>3. phase = "parse"
  BY DEF ParseAndSegment
<1>4. /\ Readable(Contents, request.config, ids)
      /\ \A e \in DOMAIN documents : Contents[e] = documents[e].content
  BY <1>3, ContentsAreReadable DEF PreviewInv, Loaded
<1>5. /\ next \in 1 .. Len(ids) /\ \A i \in 1 .. Len(ids) : ids[i] \in DOMAIN documents
  BY <1>3 DEF PreviewInv, FlowInv, Loaded
<1>6. d \in DOMAIN documents
  BY <1>1, <1>5
<1>7. parsed = ReadFrom(Contents, d)
  BY <1>2, <1>4, <1>6 DEF ReadFrom
<1>8. segmented = SplitInto(Contents, request.config, d)
  BY <1>2, <1>7 DEF SplitInto
<1>9. ParsedWell(parsed) /\ segmented.error \in SegmentErrors
  <2>1. IsConfig(request.config, Classes) /\ IsContent(Contents[d])
    <3>1. d \in DOMAIN Contents
      BY <1>6 DEF Contents
    <3> QED BY <1>4, <3>1 DEF Readable
  <2> QED BY ONLY <1>7, <1>8, <2>1, DocumentGives
<1>10. parsed.error \in Codes /\ segmented.error \in Codes
  BY <1>9, CodesAre DEF ParsedWell
<1>11. CASE parsed.error # "none"
  BY <1>2, <1>10, <1>11, AnswerKeeps
<1>12. CASE parsed.error = "none" /\ segmented.error # "none"
  BY <1>2, <1>10, <1>12, AnswerKeeps
<1>13. CASE parsed.error = "none" /\ segmented.error = "none"
  <2>1. /\ phase' = "collect" /\ current' = [parsed |-> parsed, segmented |-> segmented]
        /\ UNCHANGED <<request, dataset, documents, ids, next, chunks, total, warnings,
                       previewed, response>>
    BY <1>2, <1>13 DEF results
  <2>2. FlowInv'
    BY <1>3, <1>5, <2>1 DEF PreviewInv, FlowInv, Phases, Running, Loaded
  <2>3. Contents' = Contents
    BY <2>1 DEF Contents
  <2>4. current'.parsed = parsed /\ current'.segmented = segmented
    BY <2>1
  <2>5. ids[next] = d /\ ids'[next'] = d /\ request' = request
    BY <1>1, <2>1
  <2>6. HandInv'
    BY ONLY <1>7, <1>8, <1>13, <2>3, <2>4, <2>5 DEF HandInv
  <2> QED BY <1>3, <2>1, <2>2, <2>6, PhaseKeeps
<1> QED BY <1>11, <1>12, <1>13

\* The chunks and the warnings of the document in hand are taken over.
LEMMA CollectKeeps == ASSUME PreviewInv, Collect PROVE PreviewInv'
<1>1. PICK d, parsed, segmented, segments, some, collected :
          /\ d = ids[next] /\ parsed = current.parsed /\ segmented = current.segmented
          /\ segments = segmented.segments
          /\ some = SubSeq(segments, 1, Min({MaxChunks - Len(chunks), Len(segments)}))
          /\ collected = AddWarnings(AddWarnings(warnings, parsed.warnings), segmented.warnings)
  OBVIOUS
<1>2. /\ phase = "collect" /\ phase' = "read" /\ next' = next + 1
      /\ previewed' = Append(previewed, d) /\ warnings' = collected
      /\ total' = total + Len(segments)
      /\ chunks' = chunks \o [i \in DOMAIN some |-> Chunk(d, some[i])]
      /\ UNCHANGED <<request, dataset, documents, ids, response>>
  BY <1>1 DEF Collect, Available
<1>3. Readable(Contents, request.config, ids)
  BY <1>2, ContentsAreReadable DEF PreviewInv, Loaded
<1>4. next \in 1 .. Len(ids)
  BY <1>2 DEF PreviewInv, FlowInv
<1>5. PICK n \in Nat : n = next - 1
  BY <1>4
<1>6. n + 1 = next /\ n + 1 <= Len(ids) /\ next' - 1 = n + 1
  <2>1. Len(ids) \in Nat
    BY DEF PreviewInv, FlowInv
  <2> QED BY <1>2, <1>4, <1>5, <2>1
<1>7. /\ parsed = ReadFrom(Contents, d) /\ segmented = SplitInto(Contents, request.config, d)
  BY <1>1, <1>2 DEF PreviewInv, HandInv
<1>8. PICK contents, config, order :
          contents = Contents /\ config = request.config /\ order = ids
  OBVIOUS
<1>9. AccountsFor(contents, config, order, n, chunks, total, warnings, previewed)
  BY <1>5, <1>8 DEF PreviewInv, ResultInv
<1>10. d = order[n + 1]
  BY <1>1, <1>6, <1>8
<1>11. some = Head_(segments, MaxChunks - Len(chunks))
  BY <1>1 DEF Head_
<1>12. /\ Readable(contents, config, order) /\ n + 1 <= Len(order)
       /\ parsed = ReadFrom(contents, d) /\ segmented = SplitInto(contents, config, d)
       /\ segments = segmented.segments
       /\ collected = AddWarnings(AddWarnings(warnings, parsed.warnings), segmented.warnings)
  BY <1>1, <1>3, <1>6, <1>7, <1>8
<1>13. AccountsFor(contents, config, order, n + 1, chunks \o ChunkList(d, some),
                   total + Len(segments), collected, Append(previewed, d))
  BY ONLY <1>9, <1>10, <1>11, <1>12, n \in Nat, AccountsForOneMore
<1>14. chunks' = chunks \o ChunkList(d, some)
  BY <1>2 DEF ChunkList
<1>15. GivenInv' /\ Contents' = Contents
  BY <1>2, GivenStays DEF PreviewInv
<1>16. ResultInv'
  <2>1. AccountsFor(contents, config, order, n + 1, chunks', total', warnings', previewed')
    BY ONLY <1>2, <1>13, <1>14
  <2>2. contents = Contents' /\ config = request'.config /\ order = ids' /\ n + 1 = next' - 1
    BY <1>2, <1>6, <1>8, <1>15
  <2> QED BY ONLY <2>1, <2>2 DEF ResultInv
<1>17. FlowInv'
  <2>1. next' \in 1 .. Len(ids') + 1
    <3>1. Len(ids) \in Nat
      BY DEF PreviewInv, FlowInv
    <3> QED BY <1>2, <1>4, <3>1
  <2> QED BY <1>2, <2>1 DEF PreviewInv, FlowInv, Phases, Running, Loaded
<1>18. HandInv'
  BY <1>2 DEF HandInv
<1>19. ResponseInv'
  BY <1>2 DEF PreviewInv, ResponseInv
<1> QED BY <1>15, <1>16, <1>17, <1>18, <1>19 DEF PreviewInv

(***************************************************************************)
(* Other requests.                                                         *)
(***************************************************************************)
\* The records after one of them changed.
Altered(records, id, active, stored) ==
    [records EXCEPT ![id] = [records[id] EXCEPT !.active = active, !.stored = stored]]

\* A record changes but for its content.
LEMMA RecordsKeep ==
    ASSUME NEW records, AreDocuments(records), NEW id \in DOMAIN records,
           NEW active \in BOOLEAN, NEW stored \in Nat,
           NEW changed, changed = Altered(records, id, active, stored)
    PROVE  /\ AreDocuments(changed) /\ DOMAIN changed = DOMAIN records
           /\ \A d \in DOMAIN records : changed[d].content = records[d].content
<1>1. PICK D : D = DOMAIN records
  OBVIOUS
<1>2. PICK K : K = {records[d].content : d \in D}
  OBVIOUS
<1>3. PICK R : R = [active : BOOLEAN, source_valid : BOOLEAN, size : Nat, stored : Nat, content : K]
  OBVIOUS
<1>4. records \in [D -> R] /\ \A d \in D : IsContent(records[d].content)
  BY <1>1, <1>2, <1>3 DEF AreDocuments
<1>5. PICK r : r = [records[id] EXCEPT !.active = active, !.stored = stored]
  OBVIOUS
<1>6. records[id] \in R
  BY <1>1, <1>4
<1>7. r \in R /\ r.content = records[id].content
  BY <1>3, <1>5, <1>6
<1>8. changed = [records EXCEPT ![id] = r]
  BY <1>5 DEF Altered
<1>9. changed \in [D -> R]
  BY <1>1, <1>4, <1>7, <1>8
<1>10. DOMAIN changed = D
  BY <1>9
<1>11. \A d \in D : changed[d].content = records[d].content
  BY <1>1, <1>4, <1>7, <1>8
<1>12. K = {changed[d].content : d \in D}
  BY <1>2, <1>11
<1>13. AreDocuments(changed)
  BY <1>3, <1>4, <1>9, <1>10, <1>11, <1>12 DEF AreDocuments
<1> QED BY <1>1, <1>10, <1>11, <1>13

\* Deletions touch neither the request nor what its documents contain.
LEMMA OthersKeep == ASSUME PreviewInv, Others PROVE PreviewInv'
<1>1. /\ UNCHANGED <<request, phase, ids, next, current, chunks, total, warnings, previewed,
                     response>>
      /\ dataset' \in BOOLEAN
  BY DEF Others, DeleteDocument, CleanObject, DeleteDataset, results, PreviewInv, FlowInv
<1>2. AreDocuments(documents)
  BY DEF PreviewInv, GivenInv
<1>3. /\ AreDocuments(documents') /\ DOMAIN documents' = DOMAIN documents
      /\ \A d \in DOMAIN documents : documents'[d].content = documents[d].content
  <2>1. CASE \E id \in DOMAIN documents : DeleteDocument(id) \/ CleanObject(id)
    <3>1. PICK id \in DOMAIN documents : DeleteDocument(id) \/ CleanObject(id)
      BY <2>1
    <3>2. documents[id].active \in BOOLEAN /\ documents[id].stored \in Nat
      BY <1>2 DEF AreDocuments
    <3>3. PICK active \in BOOLEAN, stored \in Nat :
              documents' = [documents EXCEPT ![id] =
                  [documents[id] EXCEPT !.active = active, !.stored = stored]]
      <4>1. CASE DeleteDocument(id)
        <5>1. documents' = [documents EXCEPT ![id] =
                  [documents[id] EXCEPT !.active = FALSE, !.stored = documents[id].stored]]
          BY <1>2, <3>2, <4>1 DEF DeleteDocument, AreDocuments
        <5> QED BY <3>2, <5>1
      <4>2. CASE CleanObject(id)
        <5>1. documents' = [documents EXCEPT ![id] =
                  [documents[id] EXCEPT !.active = documents[id].active, !.stored = 0]]
          BY <1>2, <3>2, <4>2 DEF CleanObject, AreDocuments, Gone
        <5> QED BY <3>2, <5>1
      <4> QED BY <3>1, <4>1, <4>2
    <3>4. PICK records, changed : records = documents /\ changed = documents'
      OBVIOUS
    <3>5. /\ AreDocuments(records) /\ id \in DOMAIN records
          /\ changed = Altered(records, id, active, stored)
      BY <1>2, <3>3, <3>4 DEF Altered
    <3>6. /\ AreDocuments(changed) /\ DOMAIN changed = DOMAIN records
          /\ \A d \in DOMAIN records : changed[d].content = records[d].content
      BY ONLY <3>5, active \in BOOLEAN, stored \in Nat, RecordsKeep
    <3> QED BY <3>4, <3>6
  <2>2. CASE documents' = documents
    BY <1>2, <2>2
  <2> QED BY <2>1, <2>2 DEF Others, DeleteDataset
<1>4. GivenInv' /\ Contents' = Contents
  BY <1>1, <1>3 DEF PreviewInv, GivenInv, Contents
<1>5. ResultInv'
  BY <1>1, <1>4, ResultStays DEF PreviewInv
<1>6. FlowInv'
  BY <1>1, <1>3 DEF PreviewInv, FlowInv
<1>7. HandInv'
  BY <1>1, <1>4 DEF PreviewInv, HandInv
<1>8. ResponseInv'
  <2>1. Ended => Ended'
    BY <1>1, <1>3 DEF Ended
  <2> QED BY <1>1, <2>1 DEF PreviewInv, ResponseInv
<1> QED BY <1>4, <1>5, <1>6, <1>7, <1>8 DEF PreviewInv

\* The invariant holds in every reachable state of a preview request.
THEOREM PreviewInvHolds == Spec => []PreviewInv
<1>1. Init => PreviewInv
  BY PreviewStarts
<1>2. PreviewInv /\ [Next]_vars => PreviewInv'
  <2> SUFFICES ASSUME PreviewInv, [Next]_vars PROVE PreviewInv'
    OBVIOUS
  <2>1. CASE Service
    BY <2>1, StartKeeps, LoadDatasetKeeps, LoadRecordsKeeps, ReadSourceKeeps,
       ParseAndSegmentKeeps, CollectKeeps, RenderKeeps DEF Service
  <2>2. CASE Faults
    BY <2>2, FaultsKeep
  <2>3. CASE Others
    BY <2>3, OthersKeep
  <2>4. CASE UNCHANGED vars
    BY <2>4 DEF vars, PreviewInv, GivenInv, FlowInv, HandInv, ResultInv, ResponseInv, Contents,
         Ended
  <2> QED BY <2>1, <2>2, <2>3, <2>4 DEF Next
<1> QED BY <1>1, <1>2, PTL DEF Spec

(***************************************************************************)
(* The document in hand.                                                   *)
(***************************************************************************)
\* What the parsers and the segmenter gave for it.
HandWell(content, parsed, segmented, config) ==
    /\ IsConfig(config, Classes) /\ VisibleText(parsed) /\ Segmented(parsed, config, segmented)
    /\ BookBounds(content, parsed) /\ Listed(parsed.blocks)
    /\ parsed.error = "none" /\ segmented.error = "none"

\* What was made of the document in hand is what the parsers and the segmenter give.
LEMMA HandIsWell ==
    ASSUME PreviewInv, InHand
    PROVE  HandWell(documents[ids[next]].content, current.parsed, current.segmented,
                    request.config)
<1>1. phase = "collect"
  BY DEF InHand
<1>2. /\ Readable(Contents, request.config, ids) /\ DOMAIN Contents = DOMAIN documents
      /\ \A e \in DOMAIN documents : Contents[e] = documents[e].content
  BY <1>1, ContentsAreReadable DEF PreviewInv, Loaded
<1>3. /\ next \in 1 .. Len(ids) /\ \A i \in 1 .. Len(ids) : ids[i] \in DOMAIN documents
  BY <1>1 DEF PreviewInv, FlowInv, Loaded
<1>4. PICK d, parsed, segmented, config : /\ d = ids[next] /\ parsed = current.parsed
                                          /\ segmented = current.segmented
                                          /\ config = request.config
  OBVIOUS
<1>5. PICK contents : contents = Contents
  OBVIOUS
<1>6. /\ parsed = ReadFrom(contents, d) /\ segmented = SplitInto(contents, config, d)
      /\ parsed.error = "none" /\ segmented.error = "none"
  BY <1>1, <1>4, <1>5 DEF PreviewInv, HandInv
<1>7. IsConfig(config, Classes) /\ IsContent(contents[d])
  BY <1>2, <1>3, <1>4, <1>5 DEF Readable
<1>8. /\ ParsedWell(parsed) /\ Segmented(parsed, config, segmented)
      /\ VisibleText(parsed) /\ BookBounds(contents[d], parsed)
  BY ONLY <1>6, <1>7, DocumentGives
<1>9. contents[d] = documents[ids[next]].content
  BY <1>2, <1>3, <1>4, <1>5
<1>10. Listed(parsed.blocks)
  BY <1>8 DEF ParsedWell
<1> QED BY <1>4, <1>6, <1>7, <1>8, <1>9, <1>10 DEF HandWell

\* The numbers of a configuration that is valid.
LEMMA ValidConfigIs ==
    ASSUME NEW config, NEW X, IsConfig(config, X), ValidConfig(config)
    PROVE  /\ config.max \in Nat \ {0} /\ config.overlap \in Nat /\ config.overlap < config.max
           /\ config.separator \in Seq(X)
BY DEF ValidConfig, IsConfig

\* The blocks in hand and their segments.
LEMMA HandShows ==
    ASSUME PreviewInv, InHand, NEW blocks, blocks = Blocks, NEW segments, segments = Segments,
           NEW config, config = request.config
    PROVE  /\ IsConfig(config, Classes) /\ ValidConfig(config)
           /\ \E C, M, B : /\ Blocky(B, C, M) /\ blocks \in Seq(B)
                           /\ \A i \in 1 .. Len(blocks) : ~Blank(blocks[i].text)
           /\ \E C, M : SegmentsOf(segments, blocks, C, M, config)
<1>1. PICK parsed, segmented : parsed = current.parsed /\ segmented = current.segmented
  OBVIOUS
<1>2. /\ IsConfig(config, Classes) /\ VisibleText(parsed) /\ Segmented(parsed, config, segmented)
      /\ segmented.error = "none"
  BY <1>1, HandIsWell DEF HandWell
<1>3. blocks = VisibleBlocks(parsed) /\ segments = segmented.segments
  BY <1>1 DEF Blocks, Segments
<1>4. PICK C, M : SegmentedWell(segmented, blocks, C, M, config)
  BY <1>2, <1>3 DEF Segmented
<1>5. ValidConfig(config) /\ SegmentsOf(segments, blocks, C, M, config)
  BY <1>2, <1>3, <1>4 DEF SegmentedWell
<1>6. \E D, N, B : /\ Blocky(B, D, N) /\ blocks \in Seq(B)
                   /\ \A i \in 1 .. Len(blocks) : ~Blank(blocks[i].text)
  BY <1>2, <1>3 DEF VisibleText
<1> QED BY <1>2, <1>5, <1>6

\* The projection of a text bounds its pieces.
LEMMA ProjectionBounds == PreviewInv => ProjectionIsUpperBound
<1> SUFFICES ASSUME PreviewInv, InHand PROVE
        \A i \in DOMAIN Blocks :
            Len(SplitRanges(Blocks[i].text, request.config.max, request.config.overlap,
                            request.config.separator))
              <= ProjectedRecords(Len(Blocks[i].text), request.config.max,
                                  request.config.overlap)
  BY DEF ProjectionIsUpperBound
<1>1. PICK blocks, segments, config :
          blocks = Blocks /\ segments = Segments /\ config = request.config
  OBVIOUS
<1>2. /\ IsConfig(config, Classes) /\ ValidConfig(config)
      /\ \E C, M, B : /\ Blocky(B, C, M) /\ blocks \in Seq(B)
                      /\ \A i \in 1 .. Len(blocks) : ~Blank(blocks[i].text)
  BY ONLY <1>1, PreviewInv, InHand, HandShows
<1>3. PICK C, M, B : /\ Blocky(B, C, M) /\ blocks \in Seq(B)
                     /\ \A i \in 1 .. Len(blocks) : ~Blank(blocks[i].text)
  BY <1>2
<1>4. /\ config.max \in Nat \ {0} /\ config.overlap \in Nat /\ config.overlap < config.max
      /\ config.separator \in Seq(Classes)
  BY ONLY <1>2, ValidConfigIs
<1>5. ASSUME NEW i \in DOMAIN blocks
      PROVE  Len(SplitRanges(blocks[i].text, config.max, config.overlap, config.separator))
               <= ProjectedRecords(Len(blocks[i].text), config.max, config.overlap)
  <2>1. PICK text, max, overlap, separator :
            /\ text = blocks[i].text /\ max = config.max /\ overlap = config.overlap
            /\ separator = config.separator
    OBVIOUS
  <2>2. text \in Seq(C) /\ text # <<>>
    <3>1. i \in 1 .. Len(blocks) /\ blocks[i] \in B
      BY <1>3
    <3>2. text \in Seq(C) /\ ~Blank(text)
      BY <1>3, <2>1, <3>1 DEF Blocky
    <3> QED BY <3>2 DEF Blank
  <2>3. max \in Nat /\ overlap \in Nat /\ overlap < max /\ separator \in Seq(Classes)
    BY <1>4, <2>1
  <2>4. PICK ranges : ranges = SplitRanges(text, max, overlap, separator)
    OBVIOUS
  <2>5. CutFrom(ranges, 0, Len(text), max, overlap)
    BY ONLY <2>2, <2>3, <2>4, RangesAreRight
  <2>6. Len(text) - 0 = Len(text)
    BY <2>2
  <2>7. Len(ranges) <= ProjectedRecords(Len(text), max, overlap)
    BY <2>5, <2>6 DEF CutFrom
  <2> QED BY <2>1, <2>4, <2>7
<1> QED BY <1>1, <1>5

\* A visible character of a block is in a searched segment.
LEMMA SolidIsSearched ==
    ASSUME NEW segments, NEW blocks, NEW C, NEW M, NEW B, NEW config, blocks \in Seq(B),
           Blocky(B, C, M), NEW C2, NEW M2, SegmentsOf(segments, blocks, C2, M2, config),
           NEW b \in ToSet(blocks), NEW c \in Solid(b.text)
    PROVE  \E s \in {x \in ToSet(segments) : x.index_type # "parent"} : c \in ToSet(s.content)
<1>1. PICK Q : Q = AllSegments(C2, M2, config)
  OBVIOUS
<1>2. /\ segments \in Seq(Q)
      /\ \A i \in 1 .. Len(blocks) : \A k \in 1 .. Len(blocks[i].text) :
            ~IsSpace(blocks[i].text[k][1]) =>
               \E j \in 1 .. Len(segments) :
                  /\ segments[j].index_type # "parent"
                  /\ \E h \in 1 .. Len(segments[j].content) :
                        segments[j].content[h] = blocks[i].text[k]
  BY <1>1 DEF SegmentsOf
<1>3. PICK i \in 1 .. Len(blocks) : b = blocks[i]
  BY DEF ToSet
<1>4. b.text \in Seq(C)
  BY <1>3 DEF Blocky
<1>5. PICK k \in 1 .. Len(b.text) : c = b.text[k]
  BY <1>4 DEF Solid, ToSet
<1>6. ~IsSpace(c[1])
  BY DEF Solid
<1>7. PICK j \in 1 .. Len(segments) :
          /\ segments[j].index_type # "parent"
          /\ \E h \in 1 .. Len(segments[j].content) : segments[j].content[h] = c
  BY <1>2, <1>3, <1>5, <1>6
<1>8. PICK s : s = segments[j]
  OBVIOUS
<1>9. s \in ToSet(segments) /\ s \in Q
  BY <1>2, <1>8 DEF ToSet
<1>10. \E D : s.content \in Seq(D)
  BY <1>1, <1>9 DEF AllSegments, FamilySegments, SegmentsOver, SegmentShape
<1>11. c \in ToSet(s.content)
  BY <1>7, <1>8, <1>10 DEF ToSet
<1> QED BY <1>7, <1>8, <1>9, <1>11

\* A segment that is allowed has text, and no more than its limit.
LEMMA SegmentIsBounded ==
    ASSUME NEW C, NEW M, NEW config, IsConfig(config, Classes), NEW s \in AllSegments(C, M, config)
    PROVE  /\ ~Blank(s.content) /\ \E D : s.content \in Seq(D)
           /\ Len(s.content) <= IF s.index_type = "parent" THEN config.parent_max ELSE config.max
BY DEF AllSegments, FamilySegments, SegmentsOver, SegmentShape, IsConfig

\* The segments in hand lose no text.
LEMMA NothingLost == PreviewInv => NoTextIsLost
<1> SUFFICES ASSUME PreviewInv, InHand PROVE NoTextIsLost
  BY DEF NoTextIsLost
<1>1. PICK blocks, segments, config :
          blocks = Blocks /\ segments = Segments /\ config = request.config
  OBVIOUS
<1>2. /\ IsConfig(config, Classes)
      /\ \E C, M, B : /\ Blocky(B, C, M) /\ blocks \in Seq(B)
                      /\ \A i \in 1 .. Len(blocks) : ~Blank(blocks[i].text)
      /\ \E C, M : SegmentsOf(segments, blocks, C, M, config)
  BY ONLY <1>1, PreviewInv, InHand, HandShows
<1>3. PICK C, M, B : Blocky(B, C, M) /\ blocks \in Seq(B)
  BY <1>2
<1>4. PICK C2, M2 : SegmentsOf(segments, blocks, C2, M2, config)
  BY <1>2
<1>5. PICK Q : Q = AllSegments(C2, M2, config)
  OBVIOUS
<1>6. segments \in Seq(Q) /\ Families(segments)
  BY <1>4, <1>5 DEF SegmentsOf
<1>7. PICK leaves : leaves = {x \in ToSet(segments) : x.index_type # "parent"}
  OBVIOUS
<1>8. leaves = Leaves
  BY <1>1, <1>7 DEF Leaves
<1>9. \A b \in ToSet(blocks) : Solid(b.text) \subseteq UNION {ToSet(s.content) : s \in leaves}
  <2> SUFFICES ASSUME NEW b \in ToSet(blocks), NEW c \in Solid(b.text)
               PROVE  c \in UNION {ToSet(s.content) : s \in leaves}
    OBVIOUS
  <2>1. \E s \in {x \in ToSet(segments) : x.index_type # "parent"} : c \in ToSet(s.content)
    BY ONLY <1>3, <1>4, b \in ToSet(blocks), c \in Solid(b.text), SolidIsSearched
  <2> QED BY <1>7, <2>1
<1>10. \A s \in ToSet(segments) : ~Blank(s.content) /\ Len(s.content) <= Limit(s)
  <2> SUFFICES ASSUME NEW s \in ToSet(segments)
               PROVE  ~Blank(s.content) /\ Len(s.content) <= Limit(s)
    OBVIOUS
  <2>1. s \in Q
    BY <1>6 DEF ToSet
  <2>2. /\ ~Blank(s.content)
        /\ Len(s.content) <= IF s.index_type = "parent" THEN config.parent_max ELSE config.max
    BY ONLY <1>2, <1>5, <2>1, SegmentIsBounded
  <2> QED BY <1>1, <2>2 DEF Limit
<1>11. ASSUME NEW s \in leaves, s.parent_local_id # <<>>
       PROVE  \E p \in ToSet(segments) : /\ p.local_id = s.parent_local_id
                                         /\ p.position < s.position
                                         /\ ToSet(s.content) \subseteq ToSet(p.content)
  <2>1. PICK i \in 1 .. Len(segments) : s = segments[i]
    BY <1>6, <1>7 DEF ToSet
  <2>2. PICK j \in 1 .. i - 1 : /\ segments[j].local_id = s.parent_local_id
                                /\ Has(segments[j].content, s.content)
    BY <1>6, <1>11, <2>1 DEF Families
  <2>3. j \in 1 .. Len(segments)
    BY <1>6, <2>1
  <2>4. PICK p : p = segments[j]
    OBVIOUS
  <2>5. p.position = j - 1 /\ s.position = i - 1
    BY <1>6, <2>1, <2>3, <2>4 DEF Families
  <2>6. p.position < s.position
    BY <2>5
  <2>7. p \in ToSet(segments) /\ p \in Q /\ s \in Q
    BY <1>6, <2>1, <2>3, <2>4 DEF ToSet
  <2>8. (\E D : s.content \in Seq(D)) /\ \E D : p.content \in Seq(D)
    BY ONLY <1>2, <1>5, <2>7, SegmentIsBounded
  <2>9. PICK D, E : s.content \in Seq(D) /\ p.content \in Seq(E)
    BY <2>8
  <2>10. ToSet(s.content) \subseteq ToSet(p.content)
    BY <2>2, <2>4, <2>9, SMTT(30) DEF Has, ToSet
  <2> QED BY <2>2, <2>4, <2>6, <2>7, <2>10
<1> QED BY <1>1, <1>8, <1>9, <1>10, <1>11 DEF NoTextIsLost

\* A workbook in hand is bounded.
LEMMA BookIsBounded == PreviewInv => AcceptedWorkbookIsBounded
<1> SUFFICES ASSUME PreviewInv, IsBook PROVE AcceptedWorkbookIsBounded
  BY DEF AcceptedWorkbookIsBounded
<1>1. InHand /\ documents[ids[next]].content.kind = "xlsx"
  BY DEF IsBook
<1>2. PICK content, parsed : content = documents[ids[next]].content /\ parsed = current.parsed
  OBVIOUS
<1>3. BookBounds(content, parsed) /\ parsed.error = "none" /\ Listed(parsed.blocks)
  BY <1>1, <1>2, HandIsWell DEF HandWell
<1>4. /\ FoldLeft(LAMBDA m, sheet : m + Cardinality(CreatedCells(sheet)), 0, content.workbook)
             <= MaxPhysicalCells
      /\ Len(parsed.blocks) < MaxRows
  BY <1>1, <1>2, <1>3 DEF BookBounds
<1>5. Len(Blocks) < MaxRows
  <2>1. PICK C, M, B : parsed.blocks \in Seq(B)
    BY <1>3 DEF Listed, ListedOver
  <2>2. PICK all, positions : /\ all = parsed.blocks
                              /\ positions = {i \in DOMAIN all : ~Blank(all[i].text)}
    OBVIOUS
  <2>3. Blocks = Kept(all, positions)
    BY <1>2, <2>2 DEF Blocks, VisibleBlocks
  <2>4. all \in Seq(B)
    BY <2>1, <2>2
  <2>5. Len(Kept(all, positions)) <= Len(all) /\ Kept(all, positions) \in Seq(B)
    BY ONLY <2>4, KeptIsShorter, KeptIs
  <2>6. PICK m \in Nat, n \in Nat : m = Len(Blocks) /\ n = Len(all)
    BY <2>3, <2>4, <2>5
  <2>7. MaxRows \in Nat
    BY LimitsAre
  <2>8. m <= n
    BY ONLY <2>3, <2>5, <2>6
  <2>9. n < MaxRows
    BY ONLY <1>4, <2>2, <2>6
  <2>10. m < MaxRows
    BY ONLY <2>7, <2>8, <2>9, m \in Nat, n \in Nat
  <2> QED BY ONLY <2>6, <2>10
<1> QED BY <1>2, <1>4, <1>5 DEF AcceptedWorkbookIsBounded, CreatedCells, Book_

\* The shape of the state, and the bounds of what is shown.
LEMMA ShapeIs == PreviewInv => PreviewTypeOK
<1> SUFFICES ASSUME PreviewInv PROVE PreviewTypeOK
  OBVIOUS
<1>1. MaxChunks \in Nat /\ MaxWarnings \in Nat \ {0}
  BY SettingsAre
<1>2. dataset \in BOOLEAN /\ phase \in Phases /\ next \in 1 .. Len(ids) + 1
      /\ ids \in Seq(ToSet(request.ids))
  BY DEF PreviewInv, FlowInv
<1>3. PICK all : all = FirstChunks(Contents, request.config, ids, next - 1)
  OBVIOUS
<1>4. /\ IsList(all) /\ chunks = Head_(all, MaxChunks) /\ total = Len(all)
      /\ warnings \in Collectors(MaxWarnings) /\ previewed = SubSeq(ids, 1, next - 1)
  BY <1>3 DEF PreviewInv, ResultInv, AccountsFor
<1>5. PICK S : S = ToSet(all) /\ all \in Seq(S)
  BY <1>4 DEF IsList
<1>6. Len(chunks) <= MaxChunks /\ Len(chunks) <= total
  <2>1. /\ Len(all) \in Nat
        /\ Len(Head_(all, MaxChunks)) = IF MaxChunks <= Len(all) THEN MaxChunks ELSE Len(all)
    BY ONLY <1>1, <1>5, HeadIs
  <2> QED BY <1>1, <1>4, <2>1
<1>7. Len(CollectedWarnings(warnings)) <= MaxWarnings
  BY ONLY <1>1, <1>4, CollectedWarningsAre
<1>8. previewed = SubSeq(ids, 1, Len(previewed))
  <2>1. PICK n \in Nat : n = next - 1 /\ n <= Len(ids)
    BY <1>2
  <2>2. PICK D : D = ToSet(request.ids)
    OBVIOUS
  <2>3. ids \in Seq(D) /\ 1 \in 1 .. Len(ids) + 1 /\ n \in 1 - 1 .. Len(ids)
    BY <1>2, <2>1, <2>2
  <2>4. Len(SubSeq(ids, 1, n)) = n - 1 + 1
    BY ONLY <2>3, SliceIsSeq
  <2> QED BY <1>4, <2>1, <2>4
<1>9. response.code \in Codes /\ response.status \in {0, 200, 404, 422, 503, 504}
  BY DEF PreviewInv, ResponseInv, Statuses
<1> QED BY <1>2, <1>6, <1>7, <1>8, <1>9 DEF PreviewTypeOK

\* The results at the end are those of the documents of the request.
LEMMA AllAccounted == PreviewInv => AnswerAccountsForAll
<1> SUFFICES ASSUME PreviewInv, response.code = "none", response.status = 200,
                    NEW read \in {[i \in DOMAIN ids |-> Parse(documents[ids[i]].content)]},
                    NEW segmented \in
                        {[i \in DOMAIN ids |-> SegmentDocument(read[i], request.config)]}
    PROVE   LET all == FlattenSeq([i \in DOMAIN ids |->
                           [k \in DOMAIN segmented[i].segments |->
                               Chunk(ids[i], segmented[i].segments[k])]])
                raised == FlattenSeq([i \in DOMAIN ids |->
                              read[i].warnings \o segmented[i].warnings])
                Count(list) == FoldLeft(LAMBDA n, w :
                    n + (IF w.code = "WARNINGS_TRUNCATED" THEN w.count ELSE 1), 0, list)
            IN  /\ ToSet(ids) = ToSet(request.ids) /\ previewed = ids
                /\ total = Len(all)
                /\ chunks = SubSeq(all, 1, Min({MaxChunks, Len(all)}))
                /\ Count(CollectedWarnings(warnings)) = Count(raised)
  BY DEF AnswerAccountsForAll
<1>1. MaxChunks \in Nat /\ MaxWarnings \in Nat \ {0}
  BY SettingsAre
<1>2. Ended
  BY DEF PreviewInv, ResponseInv
<1>3. PICK wanted : wanted = request.ids /\ wanted \in Seq(ToSet(wanted))
  BY DEF PreviewInv, GivenInv, IsRequest
<1>4. PICK D : D = ToSet(request.ids)
  OBVIOUS
<1>5. ids = Unique(wanted) /\ ToSet(ids) = D /\ ids \in Seq(D)
  BY <1>2, <1>3, <1>4, UniqueIs DEF Ended
<1>6. PICK n \in Nat : n = Len(ids)
  BY <1>5
<1>7. DOMAIN ids = 1 .. n /\ next - 1 = n
  <2>1. DOMAIN ids = 1 .. n
    BY ONLY <1>5, <1>6
  <2>2. next = n + 1
    BY <1>2, <1>6 DEF Ended
  <2> QED BY <2>1, <2>2
<1>8. PICK contents, config : contents = Contents /\ config = request.config
  OBVIOUS
<1>9. \A i \in 1 .. n : contents[ids[i]] = documents[ids[i]].content
  BY <1>2, <1>6, <1>8 DEF Ended, Contents
<1>10. \A i \in 1 .. n : read[i] = ReadFrom(contents, ids[i])
  BY <1>7, <1>9 DEF ReadFrom
<1>11. \A i \in 1 .. n : segmented[i] = SplitInto(contents, config, ids[i])
  BY <1>7, <1>8, <1>10 DEF SplitInto
<1>12. AccountsFor(contents, config, ids, n, chunks, total, warnings, previewed)
  BY <1>7, <1>8 DEF PreviewInv, ResultInv
<1>13. FirstChunks(contents, config, ids, n)
          = FlattenSeq([i \in DOMAIN ids |-> [k \in DOMAIN segmented[i].segments |->
                                                Chunk(ids[i], segmented[i].segments[k])]])
  <2>1. \A i \in 1 .. n : ChunksFrom(contents, config, ids[i])
            = [k \in DOMAIN segmented[i].segments |-> Chunk(ids[i], segmented[i].segments[k])]
    BY <1>11 DEF ChunksFrom, ChunkList
  <2>2. [i \in 1 .. n |-> ChunksFrom(contents, config, ids[i])]
          = [i \in DOMAIN ids |-> [k \in DOMAIN segmented[i].segments |->
                                     Chunk(ids[i], segmented[i].segments[k])]]
    BY <1>7, <2>1
  <2> QED BY <2>2 DEF FirstChunks
<1>14. FirstRaised(contents, config, ids, n)
          = FlattenSeq([i \in DOMAIN ids |-> read[i].warnings \o segmented[i].warnings])
  <2>1. \A i \in 1 .. n : RaisedFrom(contents, config, ids[i])
                             = read[i].warnings \o segmented[i].warnings
    BY <1>10, <1>11 DEF RaisedFrom
  <2>2. [i \in 1 .. n |-> RaisedFrom(contents, config, ids[i])]
          = [i \in DOMAIN ids |-> read[i].warnings \o segmented[i].warnings]
    BY <1>7, <2>1
  <2> QED BY <2>2 DEF FirstRaised
<1>15. Counted(CollectedWarnings(warnings)) = Counted(FirstRaised(contents, config, ids, n))
  <2>1. /\ warnings \in Collectors(MaxWarnings)
        /\ Represented(warnings) = Counted(FirstRaised(contents, config, ids, n))
    BY <1>12 DEF AccountsFor
  <2>2. Counted(CollectedWarnings(warnings)) = Represented(warnings)
    BY ONLY <1>1, <2>1, CollectedWarningsAre
  <2> QED BY <2>1, <2>2
<1>16. /\ total = Len(FirstChunks(contents, config, ids, n))
       /\ chunks = Head_(FirstChunks(contents, config, ids, n), MaxChunks)
  BY <1>12 DEF AccountsFor
<1>17. previewed = ids
  <2>1. previewed = SubSeq(ids, 1, n)
    BY <1>12 DEF AccountsFor
  <2>2. 1 \in 1 .. Len(ids) + 1 /\ n \in 1 - 1 .. Len(ids)
    BY <1>6
  <2>3. /\ SubSeq(ids, 1, n) \in Seq(D) /\ Len(SubSeq(ids, 1, n)) = n - 1 + 1
        /\ \A k \in 1 .. n - 1 + 1 : SubSeq(ids, 1, n)[k] = ids[1 + k - 1]
    BY ONLY <1>5, <2>2, SliceIsSeq
  <2>4. n - 1 + 1 = n /\ \A k \in 1 .. n : 1 + k - 1 = k
    OBVIOUS
  <2>5. PICK s : s = SubSeq(ids, 1, n)
    OBVIOUS
  <2>6. s \in Seq(D) /\ Len(s) = n /\ \A k \in 1 .. n : s[k] = ids[k]
    BY <2>3, <2>4, <2>5
  <2>7. s = ids
    BY ONLY <1>5, <1>6, <2>6, SameElements
  <2> QED BY <2>1, <2>5, <2>7
<1> QED BY <1>4, <1>5, <1>13, <1>14, <1>15, <1>16, <1>17 DEF Counted, Head_

(***************************************************************************)
(* The delimiters of a document that is too long.                          *)
(***************************************************************************)
\* The extra parts of the blocks up to the i-th, when a way hangs the newlines.
PartsTrace(g, way, blocks, maximum) ==
    /\ g[0] = 0
    /\ g[Len(blocks)] = ExtraBy(way, blocks, maximum)
    /\ \A i \in 1 .. Len(blocks) :
          /\ g[i - 1] \in Nat /\ g[i] \in Nat
          /\ g[i] = g[i - 1] + SplitCost(blocks[i], PrefixOf(way, i),
                                         SuffixOf(way, blocks, i), maximum)

\* The extra parts add up block by block.
LEMMA PartsAddUp ==
    ASSUME NEW way, NEW blocks, NEW maximum, NEW n \in Nat, n = Len(blocks),
           \A i \in 1 .. n : SplitCost(blocks[i], PrefixOf(way, i),
                                       SuffixOf(way, blocks, i), maximum) \in Nat
    PROVE  \E g : PartsTrace(g, way, blocks, maximum)
<1> DEFINE Parts(i) == SplitCost(blocks[i], PrefixOf(way, i), SuffixOf(way, blocks, i), maximum)
           step == [i \in 1 .. n |-> [a \in Nat |-> a + Parts(i)]]
<1>1. PICK list : list = [i \in 1 .. n |-> i]
  OBVIOUS
<1>2. DOMAIN list = 1 .. n /\ Len(list) = n /\ \A i \in 1 .. n : list[i] = i
  BY <1>1
<1>3. \A i \in 1 .. n : Parts(i) \in Nat
  OBVIOUS
<1>4. ExtraBy(way, blocks, maximum) = FoldLeft(LAMBDA sum, i : sum + Parts(i), 0, list)
  BY <1>1 DEF ExtraBy
<1> HIDE DEF Parts
<1>5. step \in StepsOf(Nat, n)
  BY <1>3 DEF StepsOf
<1>6. FoldLeft(LAMBDA sum, i : sum + Parts(i), 0, list) =
        (CHOOSE iter : iter = [s \in SUBSET DOMAIN list |->
            IF s = {} THEN 0 ELSE iter[s \ {Max(s)}] + Parts(list[Max(s)])])[1 .. n]
  BY <1>2 DEF FoldLeft, MapThenFoldSet
<1>7. \E iter : iter = [s \in SUBSET DOMAIN list |->
            IF s = {} THEN 0 ELSE iter[s \ {Max(s)}] + Parts(list[Max(s)])]
  <2>1. PICK iter : FoldSolution(iter, Nat, 0, step, n)
    <3> HIDE DEF step
    <3> QED BY ONLY n \in Nat, <1>5, FoldExists
  <2>2. \A s \in SUBSET (1 .. n) : s # {} => Max(s) \in 1 .. n /\ iter[s \ {Max(s)}] \in Nat
    BY ONLY n \in Nat, <2>1, MaxOfInitial DEF FoldSolution
  <2>3. \A s \in SUBSET (1 .. n) : s # {} =>
            step[Max(s)][iter[s \ {Max(s)}]] = iter[s \ {Max(s)}] + Parts(list[Max(s)])
    BY ONLY <1>2, <2>2
  <2> HIDE DEF step
  <2>4. iter = [s \in SUBSET DOMAIN list |->
            IF s = {} THEN 0 ELSE iter[s \ {Max(s)}] + Parts(list[Max(s)])]
    BY ONLY <1>2, <2>1, <2>3 DEF FoldOver, FoldSolution
  <2> QED BY <2>4
<1>8. PICK iter :
        /\ iter = [s \in SUBSET DOMAIN list |->
              IF s = {} THEN 0 ELSE iter[s \ {Max(s)}] + Parts(list[Max(s)])]
        /\ FoldLeft(LAMBDA sum, i : sum + Parts(i), 0, list) = iter[1 .. n]
  BY ONLY <1>6, <1>7
<1>9. Computes(iter, Nat, 0, step, n)
  BY ONLY n \in Nat, <1>2, <1>3, <1>8, MaxOfInitial DEF Computes
<1>10. PICK g : FoldTrace(g, Nat, 0, step, n) /\ g[n] = iter[1 .. n]
  <2> HIDE DEF step
  <2> QED BY ONLY n \in Nat, <1>5, <1>9, 0 \in Nat, FoldSteps
<1>11. \A i \in 1 .. n : g[i - 1] \in Nat /\ g[i] = g[i - 1] + Parts(i)
  BY ONLY n \in Nat, <1>10 DEF FoldTrace
<1>12. \A i \in 0 .. n : g[i] \in Nat
  BY ONLY <1>10 DEF FoldTrace
<1>13. g[0] = 0 /\ g[n] = ExtraBy(way, blocks, maximum)
  BY ONLY <1>4, <1>8, <1>10 DEF FoldTrace
<1> HIDE DEF step
<1>14. PartsTrace(g, way, blocks, maximum)
  <2>1. \A i \in 1 .. n : g[i] \in Nat
    BY <1>12
  <2> QED BY <1>11, <1>13, <2>1 DEF PartsTrace, Parts
<1> QED BY <1>14

\* The boundaries a way omits the newlines of, up to the i-th.
OmittedTo(way, i) == Cardinality({j \in 1 .. i : way[j] = -1})

\* The omitted boundaries add up.
LEMMA OmittedAddUp ==
    ASSUME NEW way, NEW i \in Nat \ {0}
    PROVE  /\ OmittedTo(way, 0) = 0
           /\ OmittedTo(way, i - 1) \in Nat /\ OmittedTo(way, i) \in Nat
           /\ OmittedTo(way, i) = IF way[i] = -1 THEN OmittedTo(way, i - 1) + 1
                                  ELSE OmittedTo(way, i - 1)
<1> DEFINE S(k) == {j \in 1 .. k : way[j] = -1}
<1>1. \A k \in Nat : IsFiniteSet(S(k))
  <2> SUFFICES ASSUME NEW k \in Nat PROVE IsFiniteSet(S(k))
    OBVIOUS
  <2>1. IsFiniteSet(1 .. k) /\ S(k) \subseteq 1 .. k
    BY FS_Interval
  <2> HIDE DEF S
  <2> QED BY <2>1, FS_Subset
<1>2. i - 1 \in Nat /\ i \in Nat /\ 0 \in Nat
  OBVIOUS
<1>3. S(0) = {}
  OBVIOUS
<1>4. S(i) = IF way[i] = -1 THEN S(i - 1) \cup {i} ELSE S(i - 1)
  OBVIOUS
<1>5. i \notin S(i - 1)
  OBVIOUS
<1> HIDE DEF S
<1>6. Cardinality(S(0)) = 0
  BY <1>3, FS_EmptySet
<1>7. Cardinality(S(i - 1)) \in Nat /\ Cardinality(S(i)) \in Nat
  BY <1>1, <1>2, FS_CardinalityType
<1>8. way[i] = -1 => Cardinality(S(i)) = Cardinality(S(i - 1)) + 1
  BY <1>1, <1>2, <1>4, <1>5, FS_AddElement
<1>9. way[i] # -1 => Cardinality(S(i)) = Cardinality(S(i - 1))
  BY <1>4
<1> QED BY <1>6, <1>7, <1>8, <1>9 DEF OmittedTo, S

\* A cost together with what was spent before is no more than a whole.
Within(h, omitted, parts, allOmitted, allParts) ==
    /\ h.cost[1] \in Nat /\ h.cost[2] \in Nat
    /\ \/ h.cost[1] + omitted < allOmitted
       \/ h.cost[1] + omitted = allOmitted /\ h.cost[2] + parts <= allParts

\* A plan no dearer than one that is within a whole is within it.
LEMMA StaysWithin ==
    ASSUME NEW a1 \in Nat, NEW a2 \in Nat, NEW c1 \in Nat, NEW c2 \in Nat,
           a1 < c1 \/ (a1 = c1 /\ a2 <= c2), NEW o \in Nat, NEW k \in Nat, NEW all1 \in Nat,
           NEW all2 \in Nat, c1 + o < all1 \/ (c1 + o = all1 /\ c2 + k <= all2)
    PROVE  a1 + o < all1 \/ (a1 + o = all1 /\ a2 + k <= all2)
OBVIOUS

\* What a way hangs on the blocks is what its decisions hang on them.
LEMMA WayDecides ==
    ASSUME NEW blocks, NEW n \in Nat \ {0}, n = Len(blocks), NEW way \in Ways(blocks),
           NEW i \in 1 .. n - 1
    PROVE  /\ way[i] \in Decisions /\ PrefixOf(way, i + 1) = Passed(way[i])
           /\ SuffixOf(way, blocks, i) = Carried(way[i])
           /\ Passed(way[i]) \in 0 .. 2
<1>1. way[i] \in {-1, 0, 1, 2}
  BY DEF Ways
<1>2. i + 1 # 1 /\ (i + 1) - 1 = i /\ i # n
  OBVIOUS
<1>3. Max({0, way[i]}) = IF way[i] = -1 THEN 0 ELSE way[i]
  <2>1. CASE way[i] = -1
    <3>1. Max({0, -1}) = 0
      BY MaxOfTwo
    <3> QED BY <2>1, <3>1
  <2>2. CASE way[i] # -1
    <3>1. PICK w \in 0 .. 2 : w = way[i]
      BY <1>1, <2>2
    <3>2. Max({0, w}) = w
      BY MaxOfTwo
    <3> QED BY <2>2, <3>1, <3>2
  <2> QED BY <2>1, <2>2
<1> QED BY <1>1, <1>2, <1>3 DEF Decisions, PrefixOf, SuffixOf, Passed, Carried

\* From the last block a way costs what the best plan for it costs.
LEMMA LastWithin ==
    ASSUME NEW C, NEW blocks, NEW n \in Nat \ {0}, n = Len(blocks), NEW maximum \in Nat \ {0},
           NEW p \in 0 .. 2, HostPossible(blocks[n], p, 0, maximum), NEW after,
           NEW o \in Nat, NEW k \in Nat, NEW all2 \in Nat,
           SplitCost(blocks[n], p, 0, maximum) \in Nat,
           all2 = k + SplitCost(blocks[n], p, 0, maximum)
    PROVE  \E h \in BestFrom(after, blocks, maximum, n)[p] : Within(h, o, k, o, all2)
<1>1. PICK h : h = [cost |-> <<0, SplitCost(blocks[n], p, 0, maximum), 0>>, decisions |-> <<>>]
  OBVIOUS
<1>2. h \in LastPlans(blocks, maximum, n, p)
  BY <1>1 DEF LastPlans
<1>3. BestFrom(after, blocks, maximum, n)[p] = LastPlans(blocks, maximum, n, p)
  BY BestFromIs
<1>4. PICK s \in Nat : s = SplitCost(blocks[n], p, 0, maximum)
  OBVIOUS
<1>5. h.cost[1] = 0 /\ h.cost[2] = s
  BY ONLY <1>1, <1>4
<1>6. all2 = k + s
  BY <1>4
<1>7. Within(h, o, k, o, all2)
  BY ONLY <1>5, <1>6, o \in Nat, k \in Nat, s \in Nat DEF Within
<1> QED BY <1>2, <1>3, <1>7

\* A plan behind decision d is within the whole.
WithinAfter(g, d, o, k, parts, all1, all2) ==
    Within(g, IF d = -1 THEN o + 1 ELSE o, k + parts, all1, all2)

\* Block i can hang the newlines decision d gives it in so many parts, and the plans
\* behind d are the best.
Deciding(C, blocks, maximum, i, p, after, d, parts) ==
    /\ Len(blocks) \in Nat /\ maximum \in Nat \ {0} /\ i \in 1 .. Len(blocks) - 1
    /\ p \in 0 .. 2 /\ d \in Decisions /\ Passed(d) \in 0 .. 2
    /\ GoodBest(after, blocks, maximum, i + 1)
    /\ Visible(blocks[i], C) /\ HostPossible(blocks[i], p, Carried(d), maximum)
    /\ parts \in Nat /\ parts = SplitCost(blocks[i], p, Carried(d), maximum)

\* A way that is within the whole after block i is within it from block i on.
LEMMA StepWithin ==
    ASSUME NEW C, NEW blocks, NEW maximum, NEW i, NEW p, NEW after, NEW d, NEW parts,
           Deciding(C, blocks, maximum, i, p, after, d, parts),
           NEW o \in Nat, NEW k \in Nat, NEW all1 \in Nat, NEW all2 \in Nat,
           NEW g \in after[Passed(d)], WithinAfter(g, d, o, k, parts, all1, all2)
    PROVE  \E h \in BestFrom(after, blocks, maximum, i)[p] : Within(h, o, k, all1, all2)
<1>0. /\ d \in Decisions /\ parts \in Nat /\ g \in after[Passed(d)]
      /\ parts = SplitCost(blocks[i], p, Carried(d), maximum)
  BY DEF Deciding
<1>1. PICK c : c = Planned(d, g, blocks, maximum, i, p)
  OBVIOUS
<1>2. PICK h \in BestFrom(after, blocks, maximum, i)[p] : Cheaper(h, c)
  <2>1. PICK n \in Nat : n = Len(blocks)
    BY DEF Deciding
  <2>2. /\ maximum \in Nat \ {0} /\ i \in 1 .. n - 1 /\ p \in 0 .. 2
        /\ Visible(blocks[i], C) /\ GoodBest(after, blocks, maximum, i + 1)
        /\ HostPossible(blocks[i], p, Carried(d), maximum)
    BY <2>1 DEF Deciding
  <2> QED BY ONLY <1>0, <1>1, <2>1, <2>2, BestIsCheapest
<1>3. /\ c.cost[1] = IF d = -1 THEN 1 + g.cost[1] ELSE g.cost[1]
      /\ c.cost[2] = parts + g.cost[2]
  <2>1. /\ c.cost[1] = IF d = -1 THEN 1 + g.cost[1] ELSE g.cost[1]
        /\ c.cost[2] = SplitCost(blocks[i], p, Carried(d), maximum) + g.cost[2]
    <3>1. d \in Decisions
      BY <1>0
    <3> QED BY ONLY <1>1, <3>1, PlannedCosts
  <2>2. parts = SplitCost(blocks[i], p, Carried(d), maximum)
    BY <1>0
  <2> QED BY ONLY <2>1, <2>2
<1>4. PICK u \in Nat, v \in Nat : u = (IF d = -1 THEN o + 1 ELSE o) /\ v = k + parts
  <2>1. parts \in Nat
    BY <1>0
  <2>2. (IF d = -1 THEN o + 1 ELSE o) \in Nat
    OBVIOUS
  <2>3. k + parts \in Nat
    BY ONLY <2>1, k \in Nat
  <2> QED BY ONLY <2>2, <2>3
<1>5. PICK g1 \in Nat, g2 \in Nat : /\ g1 = g.cost[1] /\ g2 = g.cost[2]
                                    /\ g1 + u < all1 \/ (g1 + u = all1 /\ g2 + v <= all2)
  BY <1>4 DEF Within, WithinAfter
<1>6. PICK c1 \in Nat, c2 \in Nat : c1 = c.cost[1] /\ c2 = c.cost[2] /\ c2 = parts + g2
                                     /\ c1 = IF d = -1 THEN 1 + g1 ELSE g1
  BY ONLY <1>0, <1>3, <1>5
<1>7. c1 + o < all1 \/ (c1 + o = all1 /\ c2 + k <= all2)
  <2>1. c1 + o = g1 + u
    BY ONLY <1>4, <1>6, g1 \in Nat, o \in Nat, u \in Nat
  <2>2. c2 + k = g2 + v
    BY ONLY <1>0, <1>4, <1>6, g2 \in Nat, k \in Nat
  <2> QED BY ONLY <1>5, <2>1, <2>2
<1>8. PICK h1 \in Nat, h2 \in Nat : h1 = h.cost[1] /\ h2 = h.cost[2]
  BY <1>2 DEF Cheaper
<1>9. h1 < c1 \/ (h1 = c1 /\ h2 <= c2)
  BY ONLY <1>2, <1>6, <1>8 DEF Cheaper
<1>10. h1 + o < all1 \/ (h1 + o = all1 /\ h2 + k <= all2)
  BY ONLY <1>7, <1>9, StaysWithin, h1 \in Nat, h2 \in Nat, c1 \in Nat, c2 \in Nat, o \in Nat,
          k \in Nat, all1 \in Nat, all2 \in Nat
<1>11. Within(h, o, k, all1, all2)
  BY ONLY <1>8, <1>10 DEF Within
<1> QED BY <1>2, <1>11

\* A plan with these costs omits no more than a way, and then has no more extra parts.
NoWorse(taken, way, blocks, maximum) ==
    \/ taken[1] < OmittedBy(way)
    \/ taken[1] = OmittedBy(way) /\ taken[2] <= ExtraBy(way, blocks, maximum)

\* No way to hang the newlines omits fewer, or as few with fewer extra parts,
\* than the plan the search takes.
LEMMA AllocationIsBest ==
    ASSUME NEW C, NEW blocks, NEW n \in Nat \ {0}, n = Len(blocks),
           \A k \in 1 .. n : Visible(blocks[k], C), NEW maximum \in Nat \ {0},
           NEW way \in Ways(blocks), Hangs(way, blocks, maximum),
           NEW taken, taken = Allocation(blocks, maximum).cost
    PROVE  NoWorse(taken, way, blocks, maximum)
<1>1. PICK f : /\ \A i \in 1 .. n : /\ f[i] = BestFrom(f[i + 1], blocks, maximum, i)
                                    /\ GoodBest(f[i], blocks, maximum, i)
               /\ Allocation(blocks, maximum) \in f[1][0]
  BY BestPlans
<1>2. \A i \in 1 .. n - 1 :
         /\ way[i] \in Decisions /\ PrefixOf(way, i + 1) = Passed(way[i])
         /\ SuffixOf(way, blocks, i) = Carried(way[i]) /\ Passed(way[i]) \in 0 .. 2
  BY ONLY WayDecides, n \in Nat \ {0}, n = Len(blocks), way \in Ways(blocks)
<1>3. SuffixOf(way, blocks, n) = 0
  BY DEF SuffixOf
<1>4. PrefixOf(way, 1) = 0
  BY DEF PrefixOf
<1>5. \A i \in 1 .. n : PrefixOf(way, i) \in 0 .. 2 /\ SuffixOf(way, blocks, i) \in 0 .. 2
  <2> SUFFICES ASSUME NEW i \in 1 .. n
               PROVE  PrefixOf(way, i) \in 0 .. 2 /\ SuffixOf(way, blocks, i) \in 0 .. 2
    OBVIOUS
  <2>1. PrefixOf(way, i) \in 0 .. 2
    <3>1. CASE i = 1
      BY <1>4, <3>1
    <3>2. CASE i # 1
      <4>1. PICK j \in 1 .. n - 1 : i = j + 1
        <5>1. i - 1 \in 1 .. n - 1 /\ i = (i - 1) + 1
          BY <3>2
        <5> QED BY <5>1
      <4> QED BY <1>2, <4>1
    <3> QED BY <3>1, <3>2
  <2>2. SuffixOf(way, blocks, i) \in 0 .. 2
    <3>1. CASE i = n
      BY <1>3, <3>1
    <3>2. CASE i # n
      <4>1. i \in 1 .. n - 1
        BY <3>2
      <4>2. way[i] \in -1 .. 2 /\ SuffixOf(way, blocks, i) = Carried(way[i])
        BY <1>2, <4>1 DEF Decisions
      <4> QED BY ONLY <4>2 DEF Carried
    <3> QED BY <3>1, <3>2
  <2> QED BY <2>1, <2>2
<1>6. \A i \in 1 .. n : SplitCost(blocks[i], PrefixOf(way, i), SuffixOf(way, blocks, i), maximum)
                           \in Nat
  <2> SUFFICES ASSUME NEW i \in 1 .. n
               PROVE  SplitCost(blocks[i], PrefixOf(way, i), SuffixOf(way, blocks, i), maximum)
                         \in Nat
    OBVIOUS
  <2>1. blocks[i].text \in Seq(C)
    BY DEF Visible
  <2> QED BY ONLY <1>5, <2>1, CostsAre, maximum \in Nat \ {0}, i \in 1 .. n
<1>7. PICK g : PartsTrace(g, way, blocks, maximum)
  BY ONLY <1>6, PartsAddUp, n \in Nat \ {0}, n = Len(blocks)
<1>8. PICK all1 : all1 = OmittedTo(way, n - 1)
  OBVIOUS
<1>9. PICK all2 : all2 = g[n]
  OBVIOUS
<1>10. \A i \in Nat : OmittedTo(way, i) \in Nat
  <2>1. \A i \in Nat : i + 1 \in Nat \ {0} /\ (i + 1) - 1 = i
    OBVIOUS
  <2> QED BY <2>1, OmittedAddUp
<1>11. OmittedBy(way) = all1 /\ ExtraBy(way, blocks, maximum) = all2 /\ all1 \in Nat /\ all2 \in Nat
  <2>1. DOMAIN way = 1 .. n - 1
    BY DEF Ways
  <2>2. n - 1 \in Nat /\ n \in 1 .. n
    OBVIOUS
  <2> QED BY <1>7, <1>8, <1>9, <1>10, <2>1, <2>2 DEF OmittedBy, OmittedTo, PartsTrace
<1>12. \A i \in 1 .. n : /\ g[i - 1] \in Nat /\ g[i] \in Nat
                         /\ g[i] = g[i - 1] + SplitCost(blocks[i], PrefixOf(way, i),
                                                        SuffixOf(way, blocks, i), maximum)
  BY <1>7 DEF PartsTrace
<1>13. \A i \in 1 .. n :
          HostPossible(blocks[i], PrefixOf(way, i), SuffixOf(way, blocks, i), maximum)
  BY DEF Hangs
<1> DEFINE Good(i) == \E h \in f[i][PrefixOf(way, i)] :
                         Within(h, OmittedTo(way, i - 1), g[i - 1], all1, all2)
           S == {d \in Nat : d < n => Good(n - d)}
<1>14. 0 \in S
  <2>1. PICK p \in 0 .. 2 : p = PrefixOf(way, n)
    BY <1>5
  <2>2. PICK o \in Nat, k \in Nat : o = OmittedTo(way, n - 1) /\ k = g[n - 1]
    <3>1. n - 1 \in Nat /\ n \in 1 .. n
      OBVIOUS
    <3> QED BY ONLY <1>10, <1>12, <3>1
  <2>3. HostPossible(blocks[n], p, 0, maximum)
    BY <1>3, <1>13, <2>1
  <2>4. /\ SplitCost(blocks[n], p, 0, maximum) \in Nat
        /\ all2 = k + SplitCost(blocks[n], p, 0, maximum)
    BY <1>3, <1>6, <1>9, <1>12, <2>1, <2>2
  <2>5. PICK after : after = f[n + 1]
    OBVIOUS
  <2>6. \E h \in BestFrom(after, blocks, maximum, n)[p] : Within(h, o, k, o, all2)
    BY ONLY <1>11, <2>3, <2>4, LastWithin, n \in Nat \ {0}, n = Len(blocks),
            maximum \in Nat \ {0}, p \in 0 .. 2, o \in Nat, k \in Nat
  <2>7. f[n] = BestFrom(after, blocks, maximum, n)
    BY <1>1, <2>5
  <2>8. \E h \in f[n][PrefixOf(way, n)] : Within(h, OmittedTo(way, n - 1), g[n - 1], all1, all2)
    BY ONLY <1>8, <2>1, <2>2, <2>6, <2>7
  <2>9. n - 0 = n
    OBVIOUS
  <2> QED BY <2>8, <2>9
<1>15. ASSUME NEW d \in Nat, d \in S
       PROVE  d + 1 \in S
  <2> SUFFICES ASSUME d + 1 < n
               PROVE  Good(n - (d + 1))
    OBVIOUS
  <2>1. PICK i \in 1 .. n - 1 : i = n - (d + 1) /\ n - d = i + 1 /\ d < n
    <3>1. n - (d + 1) \in 1 .. n - 1 /\ n - d = (n - (d + 1)) + 1 /\ d < n
      BY ONLY d \in Nat, n \in Nat \ {0}, d + 1 < n
    <3> QED BY ONLY <3>1
  <2>2. PICK j \in 1 .. n : j = i + 1 /\ j - 1 = i
    OBVIOUS
  <2>3. Good(j)
    BY <1>15, <2>1, <2>2
  <2> HIDE DEF Good, S
  <2>4. PICK e \in Decisions : e = way[i] /\ PrefixOf(way, j) = Passed(e)
                               /\ SuffixOf(way, blocks, i) = Carried(e) /\ Passed(e) \in 0 .. 2
    BY <1>2, <2>2
  <2>5. PICK p \in 0 .. 2 : p = PrefixOf(way, i)
    BY <1>5, <2>1
  <2>6. PICK after : after = f[j]
    OBVIOUS
  <2>7. GoodBest(after, blocks, maximum, i + 1) /\ f[i] = BestFrom(after, blocks, maximum, i)
    BY <1>1, <2>2, <2>6
  <2>8. Visible(blocks[i], C) /\ HostPossible(blocks[i], p, Carried(e), maximum)
    BY <1>13, <2>4, <2>5
  <2>9. PICK parts \in Nat : parts = SplitCost(blocks[i], p, Carried(e), maximum)
    BY <1>6, <2>4, <2>5
  <2>10. PICK o \in Nat, u \in Nat : /\ o = OmittedTo(way, i - 1) /\ u = OmittedTo(way, i)
                                     /\ u = IF e = -1 THEN o + 1 ELSE o
    <3>1. i \in Nat \ {0}
      OBVIOUS
    <3> QED BY ONLY <2>4, <3>1, OmittedAddUp
  <2>11. PICK k \in Nat, v \in Nat : k = g[i - 1] /\ v = g[i] /\ v = k + parts
    <3>1. i \in 1 .. n
      OBVIOUS
    <3>2. /\ g[i - 1] \in Nat /\ g[i] \in Nat
          /\ g[i] = g[i - 1] + SplitCost(blocks[i], PrefixOf(way, i),
                                        SuffixOf(way, blocks, i), maximum)
      BY ONLY <1>12, <3>1
    <3>3. SuffixOf(way, blocks, i) = Carried(e)
      BY ONLY <2>4
    <3> QED BY ONLY <2>5, <2>9, <3>2, <3>3
  <2>12. PICK h \in f[j][PrefixOf(way, j)] :
            Within(h, OmittedTo(way, j - 1), g[j - 1], all1, all2)
    BY <2>3 DEF Good
  <2>13. h \in after[Passed(e)] /\ Within(h, u, v, all1, all2)
    BY ONLY <2>2, <2>4, <2>6, <2>10, <2>11, <2>12
  <2>14. \E b \in BestFrom(after, blocks, maximum, i)[p] : Within(b, o, k, all1, all2)
    <3>1. /\ Len(blocks) \in Nat /\ i \in 1 .. Len(blocks) - 1 /\ p \in 0 .. 2
          /\ maximum \in Nat \ {0} /\ parts \in Nat /\ o \in Nat /\ k \in Nat
      OBVIOUS
    <3>2. Deciding(C, blocks, maximum, i, p, after, e, parts)
      BY ONLY <2>4, <2>7, <2>8, <2>9, <3>1 DEF Deciding
    <3>3. h \in after[Passed(e)] /\ WithinAfter(h, e, o, k, parts, all1, all2)
      BY ONLY <2>10, <2>11, <2>13 DEF WithinAfter
    <3>4. all1 \in Nat /\ all2 \in Nat
      BY ONLY <1>11
    <3> QED BY ONLY <3>1, <3>2, <3>3, <3>4, StepWithin
  <2>15. Good(i)
    BY ONLY <2>5, <2>7, <2>10, <2>11, <2>14 DEF Good
  <2> QED BY <2>1, <2>15
<1>16. Good(1)
  <2>1. \A d \in Nat : d \in S
    <3> HIDE DEF S
    <3> QED BY ONLY <1>14, <1>15, SetInduction
  <2>2. n - 1 \in Nat /\ n - 1 < n /\ n - (n - 1) = 1
    OBVIOUS
  <2> HIDE DEF Good
  <2> QED BY <2>1, <2>2
<1>17. PICK h \in f[1][0] : Within(h, OmittedTo(way, 0), g[0], all1, all2)
  <2>1. 1 - 1 = 0
    OBVIOUS
  <2> QED BY ONLY <1>4, <1>16, <2>1
<1>18. h = Allocation(blocks, maximum)
  <2>1. GoodBest(f[1], blocks, maximum, 1) /\ 0 \in 0 .. 2
    BY <1>1
  <2> QED BY ONLY <1>1, <1>17, <2>1 DEF GoodBest
<1>19. OmittedTo(way, 0) = 0 /\ g[0] = 0
  <2>1. 1 \in Nat \ {0}
    OBVIOUS
  <2> QED BY <1>7, <2>1, OmittedAddUp DEF PartsTrace
<1>20. PICK t1 \in Nat, t2 \in Nat : t1 = taken[1] /\ t2 = taken[2]
                                     /\ (t1 + 0 < all1 \/ (t1 + 0 = all1 /\ t2 + 0 <= all2))
  <2>1. taken = h.cost
    BY <1>18
  <2> QED BY ONLY <1>17, <1>19, <2>1 DEF Within
<1> QED BY <1>11, <1>20 DEF NoWorse

\* A document that is too long has a block.
LEMMA TooLongHasBlocks ==
    ASSUME NEW B, NEW blocks \in Seq(B), NEW config, config.parent_max \in Nat \ {0},
           TooLong(blocks, config)
    PROVE  Len(blocks) \in Nat \ {0}
<1>1. SUFFICES ASSUME Len(blocks) = 0 PROVE FALSE
  OBVIOUS
<1>2. PICK C, none : C = {Newline} /\ none = {}
  OBVIOUS
<1>3. blocks \in Seq(none) /\ Blocky(none, C, none) /\ Newline \in C /\ 2 \in Nat
  <2>1. blocks \in Seq({})
    BY <1>1
  <2>2. Blocky(none, C, none)
    BY <1>2 DEF Blocky
  <2> QED BY <1>2, <2>1, <2>2
<1>4. PICK g : g[0] = NoSource /\ g[Len(blocks)] = CombineBlocks(blocks, 2)
  BY ONLY <1>3, CombineSteps
<1>5. CombineBlocks(blocks, 2).text = <<>>
  BY <1>1, <1>4 DEF NoSource
<1>6. PICK m \in Nat \ {0} : m = config.parent_max
  OBVIOUS
<1>7. Len(CombineBlocks(blocks, 2).text) > m
  BY <1>6 DEF TooLong
<1> QED BY <1>5, <1>6, <1>7

\* The plan taken for a document that is too long is the best way.
LEMMA DelimitersBest == PreviewInv => DelimitersAreBest
<1> SUFFICES ASSUME PreviewInv, FallsBack,
                    NEW way \in Ways(Blocks), Hangs(way, Blocks, request.config.parent_max)
             PROVE  LET taken == Allocation(Blocks, request.config.parent_max).cost
                    IN  \/ taken[1] < OmittedBy(way)
                        \/ /\ taken[1] = OmittedBy(way)
                           /\ taken[2] <= ExtraBy(way, Blocks, request.config.parent_max)
  BY DEF DelimitersAreBest
<1>1. PICK blocks, segments, config :
          blocks = Blocks /\ segments = Segments /\ config = request.config
  OBVIOUS
<1>2. /\ InHand /\ config.mode = "parent_child" /\ TooLong(blocks, config)
  BY <1>1 DEF FallsBack
<1>3. /\ IsConfig(config, Classes) /\ ValidConfig(config)
      /\ \E C, M, B : /\ Blocky(B, C, M) /\ blocks \in Seq(B)
                      /\ \A i \in 1 .. Len(blocks) : ~Blank(blocks[i].text)
  BY ONLY <1>1, <1>2, PreviewInv, HandShows
<1>4. PICK C, M, B : /\ Blocky(B, C, M) /\ blocks \in Seq(B)
                     /\ \A i \in 1 .. Len(blocks) : ~Blank(blocks[i].text)
  BY <1>3
<1>5. PICK maximum \in Nat \ {0} : maximum = config.parent_max
  BY <1>2, <1>3 DEF IsConfig, ValidConfig
<1>6. PICK n \in Nat \ {0} : n = Len(blocks)
  BY ONLY <1>2, <1>4, <1>5, TooLongHasBlocks
<1>7. \A k \in 1 .. n : Visible(blocks[k], C)
  BY <1>4, <1>6 DEF Blocky, Visible
<1>8. PICK taken : taken = Allocation(blocks, maximum).cost
  OBVIOUS
<1>9. PICK w \in Ways(blocks) : w = way /\ Hangs(w, blocks, maximum)
  BY <1>1, <1>5
<1>10. n \in Nat \ {0} /\ maximum \in Nat \ {0} /\ w \in Ways(blocks)
  BY <1>5, <1>6, <1>9
<1>11. NoWorse(taken, w, blocks, maximum)
  BY ONLY <1>6, <1>7, <1>8, <1>9, <1>10, AllocationIsBest
<1> QED BY <1>1, <1>5, <1>8, <1>9, <1>11 DEF NoWorse

(***************************************************************************)
(* What a preview promises, for every value of the constants.              *)
(***************************************************************************)
\* In every reachable state the state has the shape of the request's variables, and
\* no more chunks and warnings are collected than the settings allow.
THEOREM PreviewIsTyped == Spec => []PreviewTypeOK
BY PreviewInvHolds, ShapeIs, PTL

\* Whatever text is split under whatever configuration, no visible character is lost, no
\* segment is blank or longer than its maximum, and a child stands in its parent.
THEOREM TextIsKept == Spec => []NoTextIsLost
BY PreviewInvHolds, NothingLost, PTL

\* The projection that is compared with the budget bounds the pieces of every text.
THEOREM ProjectionHolds == Spec => []ProjectionIsUpperBound
BY PreviewInvHolds, ProjectionBounds, PTL

\* A workbook that was accepted makes openpyxl create no more cells than the limit, and
\* gives fewer rows than the limit.
THEOREM WorkbooksAreBounded == Spec => []AcceptedWorkbookIsBounded
BY PreviewInvHolds, BookIsBounded, PTL

\* An answer without an error accounts for every chunk and every warning.
THEOREM AnswersAccountForAll == Spec => []AnswerAccountsForAll
BY PreviewInvHolds, AllAccounted, PTL

\* Of all ways to hang the blank lines on the blocks of a full document that is too long,
\* the one taken omits the fewest, and then makes the fewest extra parts.
THEOREM LeastDelimitersAreTaken == Spec => []DelimitersAreBest
BY PreviewInvHolds, DelimitersBest, PTL
===============================================================================
