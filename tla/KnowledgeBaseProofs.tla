------------------------- MODULE KnowledgeBaseProofs --------------------------
(***************************************************************************)
(* Proofs about KnowledgeBase, for any clients, files, documents, jobs and *)
(* bound on faults.                                                        *)
(*                                                                         *)
(* The requests keep their promises, and storage and database keep up with *)
(* each other: StorageInv is inductive, and implies what is said of sources*)
(* and of failed ingests.  The jobs with their segments, and the revisions *)
(* of documents: BuildInv and RevisionInv are inductive next to StorageInv,*)
(* and imply that saved edits know their content and that revisions tell the*)
(* outcome of their jobs.                                                  *)
(***************************************************************************)
EXTENDS KnowledgeBaseInvariant, SequenceTheorems, FiniteSetTheorems, TLAPS

(***************************************************************************)
(* Requests, rows and objects.                                             *)
(***************************************************************************)

----------------------------------------------------------------------------
(* Sequences.                                                              *)

\* What a sequence holds after one more.
LEMMA OneMore ==
    ASSUME NEW s, IsSeq(s), NEW x
    PROVE  /\ IsSeq(Append(s, x)) /\ Len(s) \in Nat /\ DOMAIN s = 1 .. Len(s)
           /\ Len(Append(s, x)) = Len(s) + 1 /\ DOMAIN Append(s, x) = 1 .. (Len(s) + 1)
           /\ \A i \in DOMAIN s : Append(s, x)[i] = s[i]
           /\ Append(s, x)[Len(s) + 1] = x
<1> DEFINE S == ToSet(s) \cup {x}
           t == Append(s, x)
<1>1. s \in Seq(ToSet(s))
  BY DEF IsSeq
<1>2. Len(s) \in Nat /\ DOMAIN s = 1 .. Len(s)
  BY <1>1
<1>3. s \in Seq(S)
  <2>1. \A i \in 1 .. Len(s) : s[i] \in S
    BY <1>2 DEF ToSet
  <2> QED BY <1>1, <2>1, <1>2
<1>4. /\ t \in Seq(S) /\ Len(t) = Len(s) + 1 /\ DOMAIN t = 1 .. (Len(s) + 1)
      /\ \A i \in DOMAIN s : t[i] = s[i]
      /\ t[Len(s) + 1] = x
  <2> HIDE DEF S
  <2>1. x \in S
    BY DEF S
  <2> QED BY <1>2, <1>3, <2>1
<1>5. t \in Seq(ToSet(t))
  <2>1. \A i \in 1 .. Len(t) : t[i] \in ToSet(t)
    <3> HIDE DEF t
    <3> QED BY <1>4 DEF ToSet
  <2>2. t = [i \in 1 .. Len(t) |-> t[i]]
    <3> HIDE DEF t
    <3> QED BY <1>4
  <2> HIDE DEF t
  <2> QED BY <1>2, <1>4, <2>1, <2>2
<1> HIDE DEF S
<1> QED BY <1>2, <1>4, <1>5 DEF IsSeq

\* What a sequence holds after one place was changed.
LEMMA OneChanged ==
    ASSUME NEW s, IsSeq(s), NEW j \in DOMAIN s, NEW x
    PROVE  /\ IsSeq([s EXCEPT ![j] = x]) /\ Len(s) \in Nat /\ DOMAIN s = 1 .. Len(s)
           /\ Len([s EXCEPT ![j] = x]) = Len(s)
<1> DEFINE t == [s EXCEPT ![j] = x]
<1>1. s \in Seq(ToSet(s)) /\ Len(s) \in Nat /\ DOMAIN s = 1 .. Len(s)
  BY DEF IsSeq
<1>2. DOMAIN t = 1 .. Len(s) /\ t = [i \in 1 .. Len(s) |-> t[i]]
  BY <1>1
<1> HIDE DEF t
<1>3. \A i \in 1 .. Len(s) : t[i] \in ToSet(t)
  BY <1>2 DEF ToSet
<1>4. t \in Seq(ToSet(t)) /\ Len(t) = Len(s)
  BY <1>1, <1>2, <1>3
<1> QED BY <1>1, <1>4 DEF IsSeq, t

\* The empty sequence is one.
LEMMA EmptyIsSeq == IsSeq(<<>>)
BY DEF IsSeq

----------------------------------------------------------------------------
(* Requests, step by step.                                                 *)

\* Rows are added, and deleted rows stay deleted.
Grows(ds, new) ==
    DOMAIN ds \subseteq DOMAIN new /\ \A d \in DOMAIN ds : ds[d].deleted => new[d].deleted

\* Where each kind of request can be.
LEMMA Stages ==
    /\ DOMAIN Entry = {"ingest", "upload", "configure", "delete", "govern", "edit", "save",
                       "reindex", "search"}
    /\ StagesOf["ingest"] =
           {"file", "put", "create", "undo", "confirm", "compensate", "remove", "done"}
    /\ StagesOf["upload"] = {"file", "put", "create", "undo", "done"}
    /\ StagesOf["configure"] = {"confirm", "done"}
    /\ StagesOf["delete"] = {"delete", "dispatch", "done"}
    /\ StagesOf["govern"] = {"govern", "done"}
    /\ StagesOf["edit"] = {"token", "content", "save", "done"}
    /\ StagesOf["save"] = {"save", "done"}
    /\ StagesOf["reindex"] = {"reindex", "done"}
    /\ StagesOf["search"] = {"index", "hits", "keywords", "rows", "parents", "done"}
BY DEF Entry, StagesOf

\* A request keeps its promises while the documents grow.
LEMMA ClientStays ==
    ASSUME NEW c, NEW s, NEW ds, NEW new, Grows(ds, new), ClientOK(c, s, ds)
    PROVE  ClientOK(c, s, new)
BY DEF ClientOK, Grows

\* One request takes a step; the promises of the others are kept.
LEMMA OneMoves ==
    ASSUME RequestInv, NEW c \in DOMAIN client, NEW s, client' = [client EXCEPT ![c] = s],
           Grows(documents, documents'), DocumentsOK', ClientOK(c, s, documents'),
           faults' \in 0 .. MaxFaults
    PROVE  RequestInv'
<1>1. DOMAIN client' = DOMAIN client /\ client'[c] = s
      /\ \A e \in DOMAIN client : e # c => client'[e] = client[e]
  OBVIOUS
<1>2. \A e \in DOMAIN client : e # c => ClientOK(e, client[e], documents')
  BY ClientStays DEF RequestInv
<1> QED BY <1>1, <1>2 DEF RequestInv

\* A step of no request.
LEMMA NoneMoves ==
    ASSUME RequestInv, UNCHANGED <<client, documents>>, faults' \in 0 .. MaxFaults
    PROVE  RequestInv'
BY DEF RequestInv, DocumentsOK

\* The faults stay within their bound.
LEMMA Faults ==
    ASSUME RequestInv, Fault \/ NoFault
    PROVE  faults' \in 0 .. MaxFaults
BY KnowledgeBaseAssumption DEF RequestInv, Fault, NoFault

\* Documents that do not change are all right, and grow.
LEMMA DocumentsStay ==
    ASSUME RequestInv, UNCHANGED documents
    PROVE  Grows(documents, documents') /\ DocumentsOK'
BY DEF RequestInv, Grows, DocumentsOK

\* The source of a file that is being uploaded can be parsed.
LEMMA FileIsKnown ==
    ASSUME NEW c, NEW s, NEW ds, ClientOK(c, s, ds), s.pc \in {"put", "create", "undo"}
    PROVE  s.request.files[s.next].hash \in DOMAIN SourceItems
<1>1. s.request.kind \in {"ingest", "upload"}
  BY Stages DEF ClientOK, Accepted
<1>2. s.request.files \in Seq(ToSet(s.request.files)) /\ s.next \in DOMAIN s.request.files
  BY <1>1 DEF ClientOK, Accepted
<1> QED BY <1>1, <1>2 DEF ClientOK, Accepted

\* The row of a file an upload creates.
LEMMA CreatedRows ==
    ASSUME RequestInv, NEW c \in DOMAIN client, Created(c), At(c, "create")
    PROVE  /\ Grows(documents, documents') /\ DocumentsOK' /\ NewId(c) \in DOMAIN documents'
           /\ DOMAIN documents' = DOMAIN documents \cup {NewId(c)}
           /\ \A d \in DOMAIN documents : documents'[d] = documents[d]
           /\ NewId(c) \notin DOMAIN documents => ~documents'[NewId(c)].deleted
<1> DEFINE new == NewId(c)
           row == Row(File(c))
<1>1. documents' = With(documents, new, row)
  BY DEF Created
<1>2. ClientOK(c, client[c], documents) /\ client[c].pc = "create" /\ c \in Nat
  BY KnowledgeBaseAssumption DEF RequestInv, At
<1>3. new \in Nat \X Nat
  BY <1>2 DEF NewId, ClientOK
<1>4. row.hash \in DOMAIN SourceItems /\ DOMAIN row = DocumentFields /\ row.deleted = FALSE
      /\ row.enabled = TRUE /\ row.archived = FALSE
  <2>1. File(c).hash \in DOMAIN SourceItems
    BY <1>2, FileIsKnown DEF File, Request
  <2> QED BY <2>1 DEF Row, DocumentFields
<1> HIDE DEF new, row
<1>5. /\ DOMAIN documents' = DOMAIN documents \cup {new}
      /\ \A d \in DOMAIN documents : documents'[d] = documents[d]
      /\ new \notin DOMAIN documents => documents'[new] = row
  BY <1>1 DEF With, Joined
<1>6. Grows(documents, documents')
  BY <1>5 DEF Grows
<1>7. DocumentsOK'
  <2>1. \A d \in DOMAIN documents' : \/ d \in DOMAIN documents /\ documents'[d] = documents[d]
                                     \/ d = new /\ documents'[d] = row
    BY <1>5
  <2> QED BY <1>3, <1>4, <2>1 DEF RequestInv, DocumentsOK
<1> QED BY <1>4, <1>5, <1>6, <1>7 DEF new

\* The row of a document that is deleted.
LEMMA DeletedRow ==
    ASSUME RequestInv, NEW d \in DOMAIN documents,
           documents' = [documents EXCEPT ![d].deleted = TRUE]
    PROVE  /\ Grows(documents, documents') /\ DocumentsOK' /\ documents'[d].deleted
           /\ DOMAIN documents' = DOMAIN documents
           /\ \A e \in DOMAIN documents : e # d => documents'[e] = documents[e]
<1>1. DOMAIN documents[d] = DocumentFields
  BY DEF RequestInv, DocumentsOK
<1>2. /\ documents'[d].deleted = TRUE /\ DOMAIN documents'[d] = DocumentFields
      /\ documents'[d].hash = documents[d].hash /\ documents'[d].enabled = documents[d].enabled
      /\ documents'[d].archived = documents[d].archived
  BY <1>1 DEF DocumentFields
<1>3. DOMAIN documents' = DOMAIN documents
      /\ \A e \in DOMAIN documents : e # d => documents'[e] = documents[e]
  OBVIOUS
<1>4. Grows(documents, documents')
  BY <1>2, <1>3 DEF Grows
<1>5. DocumentsOK'
  BY <1>2, <1>3, ZenonT(30) DEF RequestInv, DocumentsOK
<1> QED BY <1>2, <1>3, <1>4, <1>5

\* A request ends.
LEMMA Ends ==
    ASSUME NEW c, NEW s, NEW ds, ClientOK(c, s, ds), NEW code \in Nat
    PROVE  ClientOK(c, [s EXCEPT !.pc = "done", !.code = code], ds)
<1>1. "done" \in StagesOf[s.request.kind]
  BY Stages DEF ClientOK, Accepted
<1> QED BY <1>1 DEF ClientOK, ClientFields

\* An ingest begins to undo what it did.
LEMMA Undoes ==
    ASSUME NEW c, NEW s, NEW ds, ClientOK(c, s, ds), s.request.kind = "ingest",
           NEW code \in Nat, code >= 500
    PROVE  ClientOK(c, [s EXCEPT !.pc = "compensate", !.next = 1, !.code = code], ds)
<1>1. "compensate" \in StagesOf[s.request.kind]
  BY Stages
<1> QED BY <1>1 DEF ClientOK, ClientFields

\* An upload notes a document and goes on with its next file.
LEMMA Noted ==
    ASSUME NEW c, NEW s, NEW ds, ClientOK(c, s, ds), s.pc \in {"file", "create"},
           NEW d \in DOMAIN ds, NEW duplicate \in BOOLEAN, ~duplicate => d[1] = c,
           NEW t, t = [s EXCEPT !.items = Append(s.items, Item(d, duplicate)), !.pc = "file",
                                !.next = s.next + 1]
    PROVE  ClientOK(c, t, ds)
<1> DEFINE item == Item(d, duplicate)
           old == s.items
           items == Append(old, item)
<1>1. IsSeq(old)
  BY DEF ClientOK
<1>2. /\ IsSeq(items)
      /\ \A i \in DOMAIN items : (i \in DOMAIN old /\ items[i] = old[i]) \/ items[i] = item
  <2> HIDE DEF item, old
  <2> QED BY <1>1, OneMore
<1>3. item.document = d /\ item.duplicate = duplicate
  BY DEF Item
<1>4. \A i \in DOMAIN old : /\ old[i].document \in DOMAIN ds
                            /\ old[i].duplicate \in BOOLEAN
                            /\ ~old[i].duplicate => old[i].document[1] = c
  BY DEF ClientOK
<1>5. /\ DOMAIN t = ClientFields /\ t.request = s.request /\ t.pc = "file"
      /\ t.next = s.next + 1 /\ t.items = items /\ t.code = s.code
  <2>1. t = [s EXCEPT !.items = items, !.pc = "file", !.next = s.next + 1]
    OBVIOUS
  <2> HIDE DEF items
  <2> QED BY <2>1 DEF ClientOK, ClientFields
<1>6. \A i \in DOMAIN items : /\ items[i].document \in DOMAIN ds
                              /\ items[i].duplicate \in BOOLEAN
                              /\ ~items[i].duplicate => items[i].document[1] = c
  <2> HIDE DEF item, items, old
  <2> QED BY <1>2, <1>3, <1>4
<1>7. "file" \in StagesOf[s.request.kind] /\ s.code = 0
  BY Stages DEF ClientOK, Accepted
<1>8. s.next + 1 \in Nat \ {0} /\ s.code \in Nat /\ Accepted(s.request)
  BY DEF ClientOK
<1>9. IsSeq(t.items)
  BY <1>2, <1>5
<1> HIDE DEF items, old, item
<1> QED BY <1>5, <1>6, <1>7, <1>8, <1>9 DEF ClientOK

\* A failed batch ends, or begins to undo what it did.
LEMMA Aborts ==
    ASSUME NEW c \in DOMAIN client, ClientOK(c, client[c], documents),
           Request(c).kind \in {"ingest", "upload"}
    PROVE  /\ ClientOK(c, Aborted(c), documents)
           /\ Aborted(c).request = Request(c)
           /\ Aborted(c).items = client[c].items
           /\ Aborted(c).code = 503
           /\ Aborted(c).next \in Nat
           /\ Request(c).kind = "ingest" => Aborted(c).pc = "compensate" /\ Aborted(c).next = 1
           /\ Request(c).kind = "upload" => Aborted(c).pc = "done"
<1> DEFINE s == client[c]
<1>1. ClientOK(c, s, documents) /\ Request(c) = s.request
  BY DEF Request
<1>2. CASE s.request.kind = "ingest"
  <2>1. Aborted(c) = [s EXCEPT !.pc = "compensate", !.next = 1, !.code = 503]
    BY <1>1, <1>2 DEF Aborted
  <2>2. "compensate" \in StagesOf[s.request.kind]
    BY <1>2, Stages
  <2> QED BY <1>1, <1>2, <2>1, <2>2 DEF ClientOK, ClientFields
<1>3. CASE s.request.kind = "upload"
  <2>1. Aborted(c) = [s EXCEPT !.pc = "done", !.code = 503]
    BY <1>1, <1>3 DEF Aborted
  <2>2. "done" \in StagesOf[s.request.kind]
    BY <1>3, Stages
  <2> QED BY <1>1, <1>3, <2>1, <2>2 DEF ClientOK, ClientFields
<1> QED BY <1>1, <1>2, <1>3

\* Every step of an upload or an ingest: the request is where it may be, the documents
\* grow.
LEMMA UploadingRequests ==
    ASSUME RequestInv, NEW c \in DOMAIN client, Uploading(c)
    PROVE  RequestInv' /\ Grows(documents, documents')
<1> DEFINE s == client[c]
<1>1. ClientOK(c, s, documents) /\ s.request = Request(c)
  BY DEF RequestInv, Request
<1>2. ASSUME NEW new, client' = [client EXCEPT ![c] = new], UNCHANGED documents,
             Fault \/ NoFault, ClientOK(c, new, documents)
      PROVE  RequestInv' /\ Grows(documents, documents')
  BY <1>2, OneMoves, DocumentsStay, Faults
<1> USE DEF Go, At, ClientFields
<1>3. CASE CheckFile(c)
  <2>1. s.pc = "file" /\ s.next <= Len(Request(c).files) /\ NoFault /\ UNCHANGED documents
    BY <1>3 DEF CheckFile, library
  <2>2. s.request.kind \in {"ingest", "upload"} /\ s.code = 0
    BY <1>1, <2>1, Stages DEF ClientOK, Accepted
  <2>3. {"file", "put"} \subseteq StagesOf[s.request.kind]
    BY <2>2, Stages
  <2>4. CASE Rejection(File(c)) # "none"
    <3> DEFINE new == NextFile(c, [s EXCEPT !.rejected = Append(@, Rejection(File(c)))])
    <3>1. client' = [client EXCEPT ![c] = new]
      BY <1>3, <2>4 DEF CheckFile
    <3>2. ClientOK(c, new, documents)
      BY <1>1, <2>1, <2>2, <2>3 DEF ClientOK, NextFile
    <3> QED BY <1>2, <2>1, <3>1, <3>2
  <2>5. ASSUME NEW d \in Duplicates(File(c)),
               client' = [client EXCEPT ![c] = NextFile(c, [s EXCEPT !.items = Append(@, Item(d, TRUE))])]
        PROVE  RequestInv' /\ Grows(documents, documents')
    <3> DEFINE new == NextFile(c, [s EXCEPT !.items = Append(@, Item(d, TRUE))])
    <3>1. d \in DOMAIN documents
      BY DEF Duplicates
    <3>2. new = [s EXCEPT !.items = Append(s.items, Item(d, TRUE)), !.pc = "file",
                          !.next = s.next + 1]
      BY <1>1 DEF NextFile, ClientOK
    <3>3. ClientOK(c, new, documents)
      <4> HIDE DEF new, s
      <4> QED BY <1>1, <2>1, <3>1, <3>2, Noted
    <3> QED BY <1>2, <2>1, <2>5, <3>3
  <2>6. ASSUME client' = [client EXCEPT ![c] = [s EXCEPT !.pc = "put"]]
        PROVE  RequestInv' /\ Grows(documents, documents')
    <3>1. ClientOK(c, [s EXCEPT !.pc = "put"], documents)
      BY <1>1, <2>1, <2>2, <2>3 DEF ClientOK, Request
    <3> QED BY <1>2, <2>1, <2>6, <3>1
  <2>7. CASE Rejection(File(c)) = "none" /\ Duplicates(File(c)) # {}
    BY <1>3, <2>5, <2>7 DEF CheckFile
  <2>8. CASE Rejection(File(c)) = "none" /\ Duplicates(File(c)) = {}
    BY <1>3, <2>6, <2>8 DEF CheckFile, Continue
  <2> QED BY <2>4, <2>7, <2>8
<1>4. CASE PutObject(c)
  <2>1. s.pc = "put" /\ UNCHANGED documents /\ NoFault
        /\ client' = [client EXCEPT ![c] = [s EXCEPT !.pc = "create"]]
    BY <1>4 DEF PutObject, Continue
  <2>2. ClientOK(c, [s EXCEPT !.pc = "create"], documents)
    <3> HIDE DEF s
    <3> QED BY <1>1, <2>1, Stages DEF ClientOK, Accepted
  <2> QED BY <1>2, <2>1, <2>2
<1>5. CASE PutFails(c) \/ UndoPut(c)
  <2>1. s.pc \in {"put", "undo"} /\ UNCHANGED documents /\ (Fault \/ NoFault)
        /\ client' = [client EXCEPT ![c] = Aborted(c)]
    BY <1>5 DEF PutFails, UndoPut
  <2>2. s.request.kind \in {"ingest", "upload"}
    BY <1>1, <2>1, Stages DEF ClientOK, Accepted
  <2> QED BY <1>1, <1>2, <2>1, <2>2, Aborts, ZenonT(30)
<1>6. CASE CreateDocument(c)
  <2> DEFINE new == NextFile(c, [s EXCEPT !.items = Append(@, Item(NewId(c), FALSE))])
  <2>1. s.pc = "create" /\ NoFault /\ client' = [client EXCEPT ![c] = new] /\ Created(c)
    BY <1>6 DEF CreateDocument
  <2>2. Grows(documents, documents') /\ DocumentsOK' /\ NewId(c) \in DOMAIN documents'
    BY <2>1, CreatedRows
  <2>3. ClientOK(c, s, documents')
    BY <1>1, <2>2, ClientStays
  <2>4. new = [s EXCEPT !.items = Append(s.items, Item(NewId(c), FALSE)), !.pc = "file",
                        !.next = s.next + 1]
    BY <1>1 DEF NextFile, ClientOK
  <2>5. ClientOK(c, new, documents')
    <3>1. NewId(c)[1] = c
      BY DEF NewId
    <3> HIDE DEF new, s
    <3> QED BY <2>1, <2>2, <2>3, <2>4, <3>1, Noted
  <2>6. faults' \in 0 .. MaxFaults
    BY <2>1, Faults
  <2> QED BY <2>1, <2>2, <2>5, <2>6, OneMoves
<1>7. CASE CreateFails(c)
  <2> DEFINE new == [s EXCEPT !.pc = "undo"]
  <2>1. s.pc = "create" /\ Fault /\ client' = [client EXCEPT ![c] = new]
        /\ (UNCHANGED documents \/ Created(c))
    BY <1>7 DEF CreateFails, Continue
  <2>2. Grows(documents, documents') /\ DocumentsOK'
    BY <2>1, CreatedRows, DocumentsStay
  <2>3. ClientOK(c, s, documents')
    BY <1>1, <2>2, ClientStays
  <2>4. ClientOK(c, new, documents')
    <3> HIDE DEF s
    <3> QED BY <2>1, <2>3, Stages DEF ClientOK, Accepted
  <2>6. faults' \in 0 .. MaxFaults
    BY <2>1, Faults
  <2> QED BY <2>1, <2>2, <2>4, <2>6, OneMoves
<1>8. CASE FilesDone(c) \/ Confirm(c) \/ ConfirmFails(c)
  <2>1. s.pc \in {"file", "confirm"} /\ s.code = 0 /\ UNCHANGED documents /\ (Fault \/ NoFault)
    BY <1>1, <1>8 DEF FilesDone, Confirm, ConfirmFails, library, ClientOK
  <2>4. s.pc = "file" /\ s.request.kind # "upload" =>
            ClientOK(c, [s EXCEPT !.pc = "confirm"], documents)
    <3> HIDE DEF s
    <3> QED BY <1>1, <2>1, Stages DEF ClientOK, Accepted
  <2>5. \/ \E code \in {200, 201, 422, 503} :
               client' = [client EXCEPT ![c] = [s EXCEPT !.pc = "done", !.code = code]]
        \/ /\ s.request.kind = "ingest"
           /\ \E code \in {500, 503} :
                  client' = [client EXCEPT ![c] =
                               [s EXCEPT !.pc = "compensate", !.next = 1, !.code = code]]
        \/ /\ s.pc = "file" /\ s.request.kind # "upload"
           /\ client' = [client EXCEPT ![c] = [s EXCEPT !.pc = "confirm"]]
    BY <1>1, <1>8 DEF FilesDone, Confirm, ConfirmFails, Finish, Continue, Aborted
  <2>6. ASSUME NEW code \in {200, 201, 422, 503},
               client' = [client EXCEPT ![c] = [s EXCEPT !.pc = "done", !.code = code]]
        PROVE  RequestInv' /\ Grows(documents, documents')
    <3>1. ClientOK(c, [s EXCEPT !.pc = "done", !.code = code], documents)
      <4>1. code \in Nat
        OBVIOUS
      <4> HIDE DEF s
      <4> QED BY <1>1, <4>1, Ends, ZenonT(30)
    <3> QED BY <1>2, <2>1, <2>6, <3>1, ZenonT(30)
  <2>7. ASSUME s.request.kind = "ingest", NEW code \in {500, 503},
               client' = [client EXCEPT ![c] = [s EXCEPT !.pc = "compensate", !.next = 1,
                                                         !.code = code]]
        PROVE  RequestInv' /\ Grows(documents, documents')
    <3>1. ClientOK(c, [s EXCEPT !.pc = "compensate", !.next = 1, !.code = code], documents)
      <4>1. code \in Nat /\ code >= 500
        OBVIOUS
      <4> HIDE DEF s
      <4> QED BY <1>1, <2>7, <4>1, Undoes, ZenonT(30)
    <3> QED BY <1>2, <2>1, <2>7, <3>1, ZenonT(30)
  <2>8. ASSUME s.pc = "file", s.request.kind # "upload",
               client' = [client EXCEPT ![c] = [s EXCEPT !.pc = "confirm"]]
        PROVE  RequestInv' /\ Grows(documents, documents')
    BY <1>2, <2>1, <2>4, <2>8
  <2> QED
    <3> HIDE DEF s
    <3> QED BY <2>5, <2>6, <2>7, <2>8
<1>9. CASE Compensate(c) \/ CompensateFails(c) \/ RemoveCompensated(c)
  <2>1. s.pc \in {"compensate", "remove"} /\ s.request.kind = "ingest" /\ (Fault \/ NoFault)
    <3>1. s.pc \in {"compensate", "remove"} /\ (Fault \/ NoFault)
      BY <1>9 DEF Compensate, CompensateFails, RemoveCompensated
    <3> QED BY <1>1, <3>1, Stages DEF ClientOK, Accepted
  <2>2. ClientOK(c, [s EXCEPT !.pc = "done"], documents)
    <3> HIDE DEF s
    <3> QED BY <1>1, <2>1, Stages DEF ClientOK, Accepted
  <2>3. ClientOK(c, NextItem(c), documents)
    <3>1. NextItem(c) = [s EXCEPT !.pc = "compensate", !.next = s.next + 1]
      BY <1>1 DEF NextItem, ClientOK
    <3> HIDE DEF s
    <3> QED BY <1>1, <2>1, <3>1, Stages DEF ClientOK, Accepted
  <2>4. CASE UNCHANGED documents /\ client' = [client EXCEPT ![c] = NextItem(c)]
    BY <1>2, <2>1, <2>3, <2>4
  <2>5. CASE UNCHANGED documents /\ client' = [client EXCEPT ![c] = [s EXCEPT !.pc = "done"]]
    BY <1>2, <2>1, <2>2, <2>5
  <2>6. CASE /\ s.pc = "compensate" /\ s.next <= Len(s.items) /\ ~Skipped(c)
             /\ documents' = [documents EXCEPT ![Compensated(c).document].deleted = TRUE]
             /\ client' = [client EXCEPT ![c] = [s EXCEPT !.pc = "remove"]]
    <3> DEFINE d == Compensated(c).document
    <3>1. d = s.items[s.next].document /\ s.next \in DOMAIN s.items /\ ~s.items[s.next].duplicate
          /\ d \in DOMAIN documents
      BY <1>1, <2>6 DEF Compensated, Skipped, ClientOK, IsSeq
    <3>2. Grows(documents, documents') /\ DocumentsOK' /\ documents'[d].deleted
      BY <2>6, <3>1, DeletedRow
    <3>3. ClientOK(c, s, documents')
      BY <1>1, <3>2, ClientStays
    <3>4. ClientOK(c, [s EXCEPT !.pc = "remove"], documents')
      <4> HIDE DEF s
      <4> QED BY <2>1, <2>6, <3>1, <3>2, <3>3, Stages DEF ClientOK, Accepted
    <3> QED BY <2>1, <2>6, <3>2, <3>4, Faults, OneMoves
  <2>7. CASE Compensate(c)
    <3>1. CASE s.next > Len(s.items)
      BY <2>5, <2>7, <3>1 DEF Compensate, Continue
    <3>2. CASE ~(s.next > Len(s.items)) /\ Skipped(c)
      BY <2>4, <2>7, <3>2 DEF Compensate
    <3>3. CASE ~(s.next > Len(s.items)) /\ ~Skipped(c)
      <4>1. s.next <= Len(s.items)
        BY <1>1, <3>3 DEF ClientOK, IsSeq
      <4> QED BY <2>6, <2>7, <3>3, <4>1 DEF Compensate, Continue
    <3> QED BY <3>1, <3>2, <3>3
  <2>8. CASE CompensateFails(c) \/ RemoveCompensated(c)
    BY <2>4, <2>8 DEF CompensateFails, RemoveCompensated
  <2> QED BY <1>9, <2>7, <2>8
<1> QED BY <1>3, <1>4, <1>5, <1>6, <1>7, <1>8, <1>9 DEF Uploading

\* A request that neither uploads nor deletes goes on.
Calm(s, t) ==
    /\ DOMAIN t = ClientFields /\ t.request = s.request /\ t.items = s.items /\ t.next = s.next
    /\ t.code \in Nat
    /\ t.pc \in {"content", "save", "hits", "keywords", "rows", "parents", "done"}
    /\ t.pc \in StagesOf[s.request.kind]

\* A calm step keeps what a request promises.
LEMMA CalmStays ==
    ASSUME NEW c, NEW s, NEW t, NEW ds, ClientOK(c, s, ds), Calm(s, t)
    PROVE  ClientOK(c, t, ds)
BY DEF ClientOK, Calm

\* The state a request moves to is its new state.
LEMMA Moved ==
    ASSUME NEW c \in DOMAIN client, NEW t, client' = [client EXCEPT ![c] = t]
    PROVE  client'[c] = t /\ client' = [client EXCEPT ![c] = client'[c]]
<1>1. client'[c] = t
  OBVIOUS
<1> QED BY <1>1

\* Steps of the segment editor and of a search are calm, and leave storage alone.
LEMMA CalmMoves ==
    ASSUME RequestInv, NEW c \in DOMAIN client, Revising(c) \/ Searching(c)
    PROVE  /\ UNCHANGED library /\ (Fault \/ NoFault)
           /\ Request(c).kind \in {"edit", "save", "reindex", "search"}
           /\ client' = [client EXCEPT ![c] = client'[c]] /\ Calm(client[c], client'[c])
<1> DEFINE s == client[c]
           Good == client' = [client EXCEPT ![c] = client'[c]] /\ Calm(s, client'[c])
<1>1. /\ ClientOK(c, s, documents) /\ s.request = Request(c) /\ DOMAIN s = ClientFields
      /\ s.code \in Nat
  BY DEF RequestInv, Request, ClientOK
<1>2. ASSUME NEW t, Go(c, t), Calm(s, t)
      PROVE  Good
  BY <1>2, Moved DEF Go
<1>3. CASE Revising(c)
  <2>1. s.pc \in {"token", "content", "save", "reindex"} /\ UNCHANGED library /\ NoFault
    BY <1>3 DEF Revising, ReadToken, ReadContent, Save, Reindex, At
  <2>2. s.request.kind \in {"edit", "save", "reindex"}
        /\ (s.pc \in {"token", "content"} => s.request.kind = "edit")
    BY <1>1, <2>1, Stages DEF ClientOK, Accepted
  <2>3. ASSUME NEW code \in Nat, Finish(c, code)
        PROVE  Good
    <3> DEFINE t == [s EXCEPT !.pc = "done", !.code = code]
    <3>1. Go(c, t)
      BY <2>3 DEF Finish
    <3>2. Calm(s, t)
      <4> HIDE DEF s
      <4> QED BY <1>1, <2>2, Stages DEF Calm, ClientFields
    <3> HIDE DEF t, s, Good
    <3> QED BY <1>2, <3>1, <3>2
  <2>4. \/ Finish(c, 200) \/ Finish(c, 202) \/ Finish(c, 404) \/ Finish(c, 409)
        \/ Finish(c, 422)
        => Good
    <3>1. {200, 202, 404, 409, 422} \subseteq Nat
      OBVIOUS
    <3> HIDE DEF Good
    <3> QED BY <2>3, <3>1
  <2>5. ASSUME ReadToken(c)
        PROVE  Good
    <3> DEFINE d == Request(c).document
               t == [s EXCEPT !.pc = "content", !.token = Latest(d),
                              !.excused = DOMAIN revisions[d] \ Published(d)]
    <3>1. Finish(c, 404) \/ Finish(c, 409) \/ Go(c, t)
      BY <2>5 DEF ReadToken
    <3>2. Calm(s, t)
      <4>1. s.request.kind = "edit"
        BY <2>2, <2>5 DEF ReadToken, At
      <4> HIDE DEF s, d
      <4> QED BY <1>1, <4>1, Stages DEF Calm, ClientFields
    <3> HIDE DEF t, s, Good
    <3> QED BY <1>2, <2>4, <3>1, <3>2
  <2>6. ASSUME ReadContent(c)
        PROVE  Good
    <3> DEFINE t == [s EXCEPT !.pc = "save", !.knew = Published(Request(c).document)]
    <3>1. Finish(c, 404) \/ Finish(c, 200) \/ Go(c, t)
      BY <2>6 DEF ReadContent
    <3>2. Calm(s, t)
      <4>1. s.request.kind = "edit"
        BY <2>2, <2>6 DEF ReadContent, At
      <4> HIDE DEF s
      <4> QED BY <1>1, <4>1, Stages DEF Calm, ClientFields
    <3> HIDE DEF t, s, Good
    <3> QED BY <1>2, <2>4, <3>1, <3>2
  <2>7. ASSUME Save(c) \/ Reindex(c)
        PROVE  Good
    <3>1. Finish(c, 202) \/ Finish(c, 404) \/ Finish(c, 409) \/ Finish(c, 422)
      BY <2>7 DEF Save, Reindex
    <3> HIDE DEF Good
    <3> QED BY <2>4, <3>1
  <2>8. Good
    <3> HIDE DEF Good
    <3> QED BY <1>3, <2>5, <2>6, <2>7 DEF Revising
  <2> QED BY <1>1, <2>1, <2>2, <2>8
<1>4. CASE Searching(c)
  <2>1. s.pc \in {"index", "hits", "keywords", "rows", "parents"} /\ UNCHANGED library
        /\ (Fault \/ NoFault)
    BY <1>4 DEF Searching, ReadIndex, SearchVectors, SearchFails, SearchKeywords, ReadRows,
                ReadParents, At
  <2>2. s.request.kind = "search"
    BY <1>1, <2>1, Stages DEF ClientOK, Accepted
  <2>3. ASSUME Finish(c, 200) \/ Finish(c, 503)
        PROVE  Good
    <3> DEFINE t == client'[c]
               ok == [s EXCEPT !.pc = "done", !.code = 200]
               failed == [s EXCEPT !.pc = "done", !.code = 503]
    <3>1. Go(c, ok) \/ Go(c, failed)
      BY <2>3 DEF Finish
    <3>2. Calm(s, ok) /\ Calm(s, failed)
      <4> HIDE DEF s
      <4> QED BY <1>1, <2>2, Stages DEF Calm, ClientFields
    <3> HIDE DEF ok, failed, Good, s
    <3> QED BY <1>2, <3>1, <3>2
  <2>4. ASSUME ReadIndex(c)
        PROVE  Good
    <3>1. CASE Active # {}
      <4>1. PICK i \in Active : Go(c, [s EXCEPT !.pc = "hits", !.index = i, !.steady = Retrievable(i)])
        BY <2>4, <3>1 DEF ReadIndex
      <4> DEFINE t == [s EXCEPT !.pc = "hits", !.index = i, !.steady = Retrievable(i)]
      <4>2. Calm(s, t)
        <5> HIDE DEF s
        <5> QED BY <1>1, <2>2, Stages DEF Calm, ClientFields
      <4>3. Go(c, t)
        BY <4>1
      <4> HIDE DEF t, Good, s
      <4> QED BY <1>2, <4>2, <4>3
    <3>2. CASE Active = {}
      BY <2>3, <2>4, <3>2 DEF ReadIndex
    <3> QED BY <3>1, <3>2
  <2>5. ASSUME SearchVectors(c)
        PROVE  Good
    <3> DEFINE ofIndex == {id \in vectors : segments[id].index = client[c].index}
               hits == Nearest([id \in ofIndex |-> segments[id].semantic], HitLimit(Query(c).topK))
               x == IF Query(c).mode \in SemanticModes /\ technique = "high_quality"
                    THEN [id \in hits |-> segments[id].semantic] ELSE <<>>
               t == [s EXCEPT !.pc = "keywords", !.semantic = x]
    <3>1. Go(c, t)
      BY <2>5 DEF SearchVectors
    <3>2. Calm(s, t)
      <4> HIDE DEF s, x
      <4> QED BY <1>1, <2>2, Stages DEF Calm, ClientFields
    <3> HIDE DEF t, Good, s
    <3> QED BY <1>2, <3>1, <3>2
  <2>6. ASSUME SearchKeywords(c)
        PROVE  Good
    <3> DEFINE matching == {id \in Completed(client[c].index) :
                              segments[id].keyed /\ segments[id].keyword > 0}
               x == IF Query(c).mode \in KeywordModes
                    THEN [id \in matching |-> segments[id].keyword] ELSE <<>>
               y == s.steady \cap Retrievable(client[c].index)
               none == [s EXCEPT !.pc = "done", !.code = 200, !.steady = @ \cap Retrievable(client[c].index)]
               t == [s EXCEPT !.pc = "rows", !.keyword = x]
    <3>1. Go(c, t) \/ Go(c, none)
      BY <2>6 DEF SearchKeywords
    <3>2. Calm(s, t)
      <4> HIDE DEF s, x
      <4> QED BY <1>1, <2>2, Stages DEF Calm, ClientFields
    <3>3. Calm(s, none)
      <4> DEFINE r == Retrievable(client[c].index)
      <4> HIDE DEF s, r
      <4> QED BY <1>1, <2>2, Stages DEF Calm, ClientFields
    <3> HIDE DEF t, none, Good, s
    <3> QED BY <1>2, <3>1, <3>2, <3>3
  <2>7. ASSUME ReadRows(c)
        PROVE  Good
    <3> DEFINE found == Found(client[c].semantic, client[c].keyword)
               r == Retrievable(client[c].index)
               t == [s EXCEPT !.pc = "parents", !.rows = r \cap found, !.steady = @ \cap r]
    <3>1. Go(c, t)
      BY <2>7 DEF ReadRows
    <3>2. Calm(s, t)
      <4> HIDE DEF s, r, found
      <4> QED BY <1>1, <2>2, Stages DEF Calm, ClientFields
    <3> HIDE DEF t, Good, s
    <3> QED BY <1>2, <3>1, <3>2
  <2>8. ASSUME ReadParents(c)
        PROVE  Good
    <3> DEFINE wanted == {Parent(id) : id \in client[c].rows}
               parents == {id \in Completed(client[c].index) \cap wanted :
                              segments[id].type = "parent"}
               candidates == Candidates(Query(c), client[c].semantic, client[c].keyword,
                                        client[c].rows)
               contexts == [id \in client[c].rows |-> Context(id, Parent(id), parents)]
               x == Items(candidates, contexts, Query(c).topK)
               t == [s EXCEPT !.pc = "done", !.code = 200, !.answer = x]
    <3>1. Go(c, t)
      BY <2>8 DEF ReadParents
    <3>2. Calm(s, t)
      <4> HIDE DEF s, x
      <4> QED BY <1>1, <2>2, Stages DEF Calm, ClientFields
    <3> HIDE DEF t, Good, s
    <3> QED BY <1>2, <3>1, <3>2
  <2>9. ASSUME SearchFails(c)
        PROVE  Good
    BY <2>3, <2>9 DEF SearchFails
  <2>10. Good
    <3> HIDE DEF Good
    <3> QED BY <1>4, <2>4, <2>5, <2>6, <2>7, <2>8, <2>9 DEF Searching
  <2> QED BY <1>1, <2>1, <2>2, <2>10
<1> QED BY <1>3, <1>4

\* The row of a document that is governed.
LEMMA GovernedRow ==
    ASSUME RequestInv, NEW d \in DOMAIN documents, NEW change,
           DOMAIN change \subseteq {"name", "enabled", "archived"},
           \A column \in DOMAIN change \ {"name"} : change[column] \in BOOLEAN,
           documents' = [documents EXCEPT ![d] = Joined(change, documents[d])]
    PROVE  /\ Grows(documents, documents') /\ DocumentsOK' /\ DOMAIN documents' = DOMAIN documents
           /\ documents'[d].deleted = documents[d].deleted
           /\ documents'[d].hash = documents[d].hash
           /\ \A e \in DOMAIN documents : e # d => documents'[e] = documents[e]
<1> DEFINE row == Joined(change, documents[d])
<1>1. DOMAIN documents[d] = DocumentFields /\ documents[d].hash \in DOMAIN SourceItems
      /\ {documents[d].deleted, documents[d].enabled, documents[d].archived} \subseteq BOOLEAN
      /\ d \in Nat \X Nat
  BY DEF RequestInv, DocumentsOK
<1>2. DOMAIN row = DOMAIN change \cup DocumentFields
      /\ \A x \in DOMAIN row : row[x] = IF x \in DOMAIN change THEN change[x] ELSE documents[d][x]
  BY <1>1 DEF Joined
<1>3. documents' = [documents EXCEPT ![d] = row]
  OBVIOUS
<1> HIDE DEF row
<1>4. /\ DOMAIN row = DocumentFields /\ row.deleted = documents[d].deleted
      /\ row.hash = documents[d].hash
      /\ row.enabled \in BOOLEAN /\ row.archived \in BOOLEAN
  BY <1>1, <1>2 DEF DocumentFields
<1>5. DOMAIN documents' = DOMAIN documents /\ documents'[d] = row
      /\ \A e \in DOMAIN documents : e # d => documents'[e] = documents[e]
  BY <1>3
<1>6. Grows(documents, documents')
  BY <1>4, <1>5 DEF Grows
<1>7. DocumentsOK'
  BY <1>1, <1>4, <1>5 DEF RequestInv, DocumentsOK
<1> QED BY <1>4, <1>5, <1>6, <1>7

\* Every step of a governance or a deletion keeps the promises of the requests.
LEMMA GoverningRequests ==
    ASSUME RequestInv, NEW c \in DOMAIN client, Governing(c)
    PROVE  RequestInv' /\ Grows(documents, documents')
<1> DEFINE s == client[c]
           d == Request(c).document
<1>1. ClientOK(c, s, documents) /\ s.request = Request(c)
  BY DEF RequestInv, Request
<1>2. ASSUME NEW code \in Nat, Finish(c, code), Grows(documents, documents'), DocumentsOK',
             Fault \/ NoFault
      PROVE  RequestInv'
  <2> DEFINE t == [s EXCEPT !.pc = "done", !.code = code]
  <2>1. ClientOK(c, s, documents')
    BY <1>1, <1>2, ClientStays
  <2>2. ClientOK(c, t, documents')
    <3> HIDE DEF s
    <3> QED BY <2>1, Ends
  <2>3. client' = [client EXCEPT ![c] = t]
    BY <1>2 DEF Finish, Go
  <2> HIDE DEF t, s
  <2> QED BY <1>2, <2>2, <2>3, Faults, OneMoves
<1>3. CASE Govern(c)
  <2>1. s.request.kind = "govern" /\ NoFault
    BY <1>1, <1>3, Stages DEF Govern, At, ClientOK, Accepted
  <2>2. CASE Live(d)
    <3>1. /\ documents' = [documents EXCEPT ![d] = Joined(Request(c).change, documents[d])]
          /\ Finish(c, 200) /\ d \in DOMAIN documents
      BY <1>3, <2>2 DEF Govern, Live
    <3>2. /\ DOMAIN Request(c).change \subseteq {"name", "enabled", "archived"}
          /\ \A column \in DOMAIN Request(c).change \ {"name"} :
                 Request(c).change[column] \in BOOLEAN
      BY <1>1, <2>1 DEF ClientOK, Accepted
    <3>3. Grows(documents, documents') /\ DocumentsOK'
      <4> HIDE DEF d
      <4> QED BY <3>1, <3>2, GovernedRow
    <3> QED BY <1>2, <2>1, <3>1, <3>3, ZenonT(30)
  <2>3. CASE ~Live(d)
    <3>1. Finish(c, 404) /\ UNCHANGED documents
      BY <1>3, <2>3 DEF Govern
    <3> QED BY <1>2, <2>1, <3>1, DocumentsStay
  <2> QED BY <2>2, <2>3
<1>4. CASE Delete(c)
  <2>1. s.request.kind = "delete" /\ NoFault
    BY <1>1, <1>4, Stages DEF Delete, At, ClientOK, Accepted
  <2>2. CASE Live(d)
    <3> DEFINE t == [s EXCEPT !.pc = "dispatch"]
    <3>1. /\ documents' = [documents EXCEPT ![d].deleted = TRUE]
          /\ client' = [client EXCEPT ![c] = t] /\ d \in DOMAIN documents
      BY <1>4, <2>2 DEF Delete, Live, Continue, Go
    <3>2. Grows(documents, documents') /\ DocumentsOK' /\ documents'[d].deleted
          /\ DOMAIN documents' = DOMAIN documents
      BY <3>1, DeletedRow
    <3>3. ClientOK(c, s, documents')
      BY <1>1, <3>2, ClientStays
    <3>4. ClientOK(c, t, documents')
      <4>1. d = s.request.document
        BY <1>1
      <4> HIDE DEF s, d
      <4> QED BY <2>1, <3>1, <3>2, <3>3, <4>1, Stages DEF ClientOK, ClientFields
    <3> HIDE DEF t
    <3> QED BY <2>1, <3>1, <3>2, <3>4, Faults, OneMoves
  <2>3. CASE ~Live(d)
    <3>1. Finish(c, 404) /\ UNCHANGED documents
      BY <1>4, <2>3 DEF Delete
    <3> QED BY <1>2, <2>1, <3>1, DocumentsStay
  <2> QED BY <2>2, <2>3
<1>5. CASE DispatchCleanup(c)
  <2>1. Finish(c, 200) /\ UNCHANGED documents /\ (Fault \/ NoFault)
    BY <1>5 DEF DispatchCleanup
  <2> QED BY <1>2, <2>1, DocumentsStay
<1>6. ASSUME RequestInv' PROVE Grows(documents, documents')
  <2>1. CASE Govern(c) /\ Live(d)
    <3>1. /\ documents' = [documents EXCEPT ![d] = Joined(Request(c).change, documents[d])]
          /\ d \in DOMAIN documents /\ s.request.kind = "govern"
      BY <1>1, <2>1, Stages DEF Govern, Live, At, ClientOK, Accepted
    <3>2. /\ DOMAIN Request(c).change \subseteq {"name", "enabled", "archived"}
          /\ \A column \in DOMAIN Request(c).change \ {"name"} :
                 Request(c).change[column] \in BOOLEAN
      BY <1>1, <3>1 DEF ClientOK, Accepted
    <3> HIDE DEF d
    <3> QED BY <3>1, <3>2, GovernedRow
  <2>2. CASE Delete(c) /\ Live(d)
    <3>1. documents' = [documents EXCEPT ![d].deleted = TRUE] /\ d \in DOMAIN documents
      BY <2>2 DEF Delete, Live
    <3> QED BY <3>1, DeletedRow
  <2>3. CASE UNCHANGED documents
    BY <2>3, DocumentsStay
  <2> QED BY <2>1, <2>2, <2>3 DEF Governing, Govern, Delete, DispatchCleanup
<1> QED BY <1>3, <1>4, <1>5, <1>6 DEF Governing

\* So does the end of the API process.
LEMMA DyingRequests ==
    ASSUME RequestInv, NEW c \in DOMAIN client, Die(c)
    PROVE  RequestInv' /\ UNCHANGED documents
<1> DEFINE s == client[c]
           t == [s EXCEPT !.pc = "done"]
<1>1. client' = [client EXCEPT ![c] = t] /\ UNCHANGED documents /\ Fault
  BY DEF Die, Continue, Go
<1>2. ClientOK(c, s, documents)
  BY DEF RequestInv
<1>3. ClientOK(c, t, documents)
  <2> HIDE DEF s
  <2> QED BY <1>2, Stages DEF ClientOK, ClientFields, Accepted
<1> HIDE DEF t
<1> QED BY <1>1, <1>3, DocumentsStay, Faults, OneMoves

\* A job, or the cleanup task, leaves requests and documents alone.
LEMMA OthersLeaveRequests ==
    ASSUME \/ \E j \in DOMAIN jobs : Working(j)
           \/ \E d \in DOMAIN documents : Cleanup(d) \/ CleanupFails(d)
    PROVE  UNCHANGED <<client, documents>> /\ (Fault \/ NoFault)
<1>1. ASSUME NEW j \in DOMAIN jobs, Working(j)
      PROVE  UNCHANGED <<client, documents>> /\ (Fault \/ NoFault)
  BY <1>1 DEF Working, Load, Stage, Embed, FailJob, Retry, LoseFinalization, FinalizeFailed,
              FinalizeInvalid, FinalizeIncremental, FinalizeFull, library
<1>2. ASSUME NEW d \in DOMAIN documents, Cleanup(d) \/ CleanupFails(d)
      PROVE  UNCHANGED <<client, documents>> /\ (Fault \/ NoFault)
  BY <1>2 DEF Cleanup, CleanupFails
<1> QED BY <1>1, <1>2

\* Every step keeps the promises of the requests, and no document is forgotten or
\* undeleted.
LEMMA RequestStep ==
    ASSUME RequestInv, [Next]_vars
    PROVE  RequestInv' /\ Grows(documents, documents')
<1>1. ASSUME NEW c \in DOMAIN client, Uploading(c)
      PROVE  RequestInv' /\ Grows(documents, documents')
  BY <1>1, UploadingRequests
<1>2. ASSUME NEW c \in DOMAIN client, Governing(c)
      PROVE  RequestInv' /\ Grows(documents, documents')
  BY <1>2, GoverningRequests
<1>3. ASSUME NEW c \in DOMAIN client, Revising(c) \/ Searching(c)
      PROVE  RequestInv' /\ Grows(documents, documents')
  <2>1. UNCHANGED documents /\ (Fault \/ NoFault)
        /\ client' = [client EXCEPT ![c] = client'[c]] /\ Calm(client[c], client'[c])
    BY <1>3, CalmMoves DEF library
  <2>2. ClientOK(c, client'[c], documents)
    BY <2>1, CalmStays DEF RequestInv
  <2> QED BY <2>1, <2>2, DocumentsStay, Faults, OneMoves
<1>4. ASSUME NEW c \in DOMAIN client, Die(c)
      PROVE  RequestInv' /\ Grows(documents, documents')
  BY <1>4, DyingRequests, DocumentsStay
<1>5. CASE \/ \E j \in DOMAIN jobs : Working(j)
           \/ \E d \in DOMAIN documents : Cleanup(d) \/ CleanupFails(d)
  BY <1>5, OthersLeaveRequests, NoneMoves, DocumentsStay, Faults
<1>6. CASE UNCHANGED vars
  BY <1>6, NoneMoves, DocumentsStay DEF vars, RequestInv
<1> QED BY <1>1, <1>2, <1>3, <1>4, <1>5, <1>6 DEF Next

----------------------------------------------------------------------------
(* Storage: what a step of a request may do to it.                         *)

\* A deleted document.
Deleted(d) == d \in DOMAIN documents /\ documents[d].deleted

\* What a step of request c, from s to t, may do to storage and database.
StorageMove(c, s, t) ==
    /\ t.request = s.request /\ unclean \subseteq unclean' /\ cleanups \subseteq cleanups'
    /\ \A d \in DOMAIN documents' \ DOMAIN documents :
           d = <<c, s.next>> /\ d \in objects' \cup unclean'
    /\ t.pc \in {"file", "put", "create"} =>
           /\ s.pc \in {"file", "put", "create"} /\ t.next >= s.next
           /\ DOMAIN documents' = DOMAIN documents \/ t.next > s.next
    /\ t.pc = "create" => <<c, t.next>> \in objects'
    /\ t.pc = "undo" => <<c, t.next>> \notin DOMAIN documents' \/ <<c, t.next>> \in unclean'
    /\ \A d \in objects \ objects' : /\ d \in DOMAIN documents \/ d = <<c, s.next>>
                                     /\ Live(d)' => d \in unclean'
    /\ \A d \in cleanups' \ cleanups : Deleted(d)'
    /\ \A d \in objects' :
           d \notin objects \/ Attends(s, c, d) \/ (Live(d) /\ Deleted(d)') =>
               Live(d)' \/ d \in unclean' \/ d \in cleanups' \/ Attends(t, c, d)
    /\ t.request.kind = "ingest" /\ t.code >= 500 =>
           \A i \in DOMAIN t.items : t.pc = "done" \/ i < t.next =>
               \/ t.items[i].duplicate
               \/ documents'[t.items[i].document].deleted
               \/ t.items[i].document \in unclean'
    /\ s.request.kind = "ingest" /\ s.code >= 500 => t.code >= 500
    /\ \A d \in DOMAIN documents' : Deleted(d)' /\ ~Deleted(d) =>
           \/ t.request.kind = "delete" /\ t.request.document = d
           \/ d[1] = c /\ t.request.kind = "ingest" /\ t.code >= 500
    /\ \A d \in (objects' \cup unclean') \ (objects \cup unclean) :
           d \in DOMAIN documents' \/ d[1] = c

\* A step that does no more than StorageMove to storage and database keeps the
\* invariant of storage.
LEMMA StorageMoves ==
    ASSUME StorageInv, RequestInv', Grows(documents, documents'), NEW c \in DOMAIN client, NEW t,
           client' = [client EXCEPT ![c] = t], StorageMove(c, client[c], t)
    PROVE  StorageInv'
<1> DEFINE s == client[c]
<1>1. DOMAIN client' = DOMAIN client /\ client'[c] = t
      /\ \A e \in DOMAIN client : e # c => client'[e] = client[e]
  OBVIOUS
<1>2. \A e \in DOMAIN client : e \in Nat /\ ClientOK(e, client[e], documents)
                               /\ ClientOK(e, client'[e], documents')
  BY <1>1, KnowledgeBaseAssumption DEF StorageInv, RequestInv
<1>3. \A e \in DOMAIN client : client[e].next \in Nat /\ client'[e].next \in Nat
  BY <1>2 DEF ClientOK
<1>4. IdsAreFree'
  <2>1. SUFFICES ASSUME NEW e \in DOMAIN client, client'[e].pc \in {"file", "put", "create"},
                        NEW i \in Nat, i >= client'[e].next
                 PROVE  <<e, i>> \notin DOMAIN documents'
    BY <1>1 DEF IdsAreFree
  <2>2. client[e].pc \in {"file", "put", "create"} /\ i >= client[e].next
        /\ (e = c /\ DOMAIN documents' # DOMAIN documents => i > s.next)
    BY <1>1, <1>3, <2>1 DEF StorageMove
  <2>3. <<e, i>> \notin DOMAIN documents
    BY <2>2 DEF StorageInv, IdsAreFree
  <2>4. <<e, i>> # <<c, s.next>> \/ DOMAIN documents' = DOMAIN documents
    BY <1>3, <2>2
  <2> QED BY <2>3, <2>4 DEF StorageMove
<1>5. UploadsKnowTheirObject'
  <2>1. ASSUME NEW e \in DOMAIN client, e # c, client[e].pc = "create"
        PROVE  <<e, client[e].next>> \in objects'
    <3>1. <<e, client[e].next>> \in objects
      BY <2>1 DEF StorageInv, UploadsKnowTheirObject, NewId
    <3>2. <<e, client[e].next>> \notin DOMAIN documents
      BY <1>3, <2>1 DEF StorageInv, IdsAreFree
    <3> QED BY <2>1, <3>1, <3>2 DEF StorageMove
  <2>2. ASSUME NEW e \in DOMAIN client, e # c, client[e].pc = "undo"
        PROVE  <<e, client[e].next>> \notin DOMAIN documents' \/ <<e, client[e].next>> \in unclean'
    <3>1. <<e, client[e].next>> \notin DOMAIN documents \/ <<e, client[e].next>> \in unclean
      BY <2>2 DEF StorageInv, UploadsKnowTheirObject, NewId
    <3> QED BY <2>2, <3>1 DEF StorageMove
  <2>3. /\ t.pc = "create" => <<c, t.next>> \in objects'
        /\ t.pc = "undo" => <<c, t.next>> \notin DOMAIN documents' \/ <<c, t.next>> \in unclean'
    BY DEF StorageMove
  <2> QED BY <1>1, <2>1, <2>2, <2>3 DEF UploadsKnowTheirObject, NewId
<1>6. CleanupsAreOfDeleted'
  BY DEF StorageInv, CleanupsAreOfDeleted, StorageMove, Deleted, Grows
<1>7. ObjectsAreAttended'
  <2>1. SUFFICES ASSUME NEW d \in objects'
                 PROVE  \/ Live(d)' \/ d \in unclean' \/ d \in cleanups'
                        \/ \E e \in DOMAIN client : Attends(client'[e], e, d)
    BY <1>1 DEF ObjectsAreAttended
  <2>2. CASE d \notin objects \/ Attends(s, c, d) \/ (Live(d) /\ Deleted(d)')
    BY <1>1, <2>2 DEF StorageMove
  <2>3. CASE d \in objects /\ ~Attends(s, c, d) /\ ~(Live(d) /\ Deleted(d)')
    <3>1. \/ Live(d) \/ d \in unclean \/ d \in cleanups
          \/ \E e \in DOMAIN client : e # c /\ Attends(client[e], e, d)
      BY <2>3 DEF StorageInv, ObjectsAreAttended
    <3>2. Live(d) => Live(d)'
      BY <2>3 DEF Live, Deleted, Grows
    <3> QED BY <1>1, <3>1, <3>2 DEF StorageMove
  <2> QED BY <2>2, <2>3
<1>8. LiveHaveSources'
  <2>1. SUFFICES ASSUME NEW d \in DOMAIN documents', ~documents'[d].deleted
                 PROVE  d \in objects' \cup unclean'
    BY DEF LiveHaveSources
  <2>2. Live(d)'
    BY <2>1 DEF Live
  <2>3. CASE d \in DOMAIN documents
    <3>1. d \in objects \cup unclean
      BY <2>1, <2>3 DEF Grows, StorageInv, LiveHaveSources
    <3> QED BY <2>2, <3>1 DEF StorageMove
  <2> QED BY <2>3 DEF StorageMove
<1>9. UndoneSoFar'
  <2>1. SUFFICES ASSUME NEW e \in DOMAIN client, client'[e].request.kind = "ingest",
                        client'[e].code >= 500,
                        NEW i \in DOMAIN client'[e].items,
                        client'[e].pc = "done" \/ i < client'[e].next
                 PROVE  \/ client'[e].items[i].duplicate
                        \/ documents'[client'[e].items[i].document].deleted
                        \/ client'[e].items[i].document \in unclean'
    BY <1>1 DEF UndoneSoFar
  <2>2. CASE e = c
    BY <1>1, <2>1, <2>2 DEF StorageMove
  <2>3. CASE e # c
    <3>1. client'[e] = client[e] /\ client[e].items[i].document \in DOMAIN documents
      BY <1>1, <1>2, <2>1, <2>3 DEF ClientOK
    <3>2. \/ client[e].items[i].duplicate
          \/ documents[client[e].items[i].document].deleted
          \/ client[e].items[i].document \in unclean
      BY <2>1, <3>1 DEF StorageInv, UndoneSoFar
    <3> QED BY <3>1, <3>2 DEF StorageMove, Grows
  <2> QED BY <2>2, <2>3
<1>10. DeletionsHaveReasons'
  <2>1. SUFFICES ASSUME NEW d \in DOMAIN documents', documents'[d].deleted
                 PROVE  \/ \E e \in DOMAIN client :
                               client'[e].request.kind = "delete" /\ client'[e].request.document = d
                        \/ /\ d[1] \in DOMAIN client /\ client'[d[1]].request.kind = "ingest"
                           /\ client'[d[1]].code >= 500
    BY <1>1 DEF DeletionsHaveReasons, FailedIngest, Request
  <2>2. \A e \in DOMAIN client : client'[e].request = client[e].request
    BY <1>1 DEF StorageMove
  <2>3. CASE Deleted(d)
    <3>1. \/ \E e \in DOMAIN client :
                 client[e].request.kind = "delete" /\ client[e].request.document = d
          \/ /\ d[1] \in DOMAIN client /\ client[d[1]].request.kind = "ingest"
             /\ client[d[1]].code >= 500
      BY <2>3 DEF StorageInv, DeletionsHaveReasons, FailedIngest, Request, Deleted
    <3>2. CASE \E e \in DOMAIN client :
                 client[e].request.kind = "delete" /\ client[e].request.document = d
      BY <2>2, <3>2
    <3>3. CASE /\ d[1] \in DOMAIN client /\ client[d[1]].request.kind = "ingest"
               /\ client[d[1]].code >= 500
      <4>1. client'[d[1]].code >= 500
        BY <1>1, <3>3 DEF StorageMove
      <4> QED BY <2>2, <3>3, <4>1
    <3> QED BY <3>1, <3>2, <3>3
  <2>4. CASE ~Deleted(d)
    <3>1. Deleted(d)'
      BY <2>1 DEF Deleted
    <3>2. \/ t.request.kind = "delete" /\ t.request.document = d
          \/ d[1] = c /\ t.request.kind = "ingest" /\ t.code >= 500
      BY <2>4, <3>1 DEF StorageMove
    <3> QED BY <1>1, <3>2
  <2> QED BY <2>3, <2>4
<1>11. FilesAreKnown'
  <2>1. SUFFICES ASSUME NEW d \in objects' \cup unclean', d \notin DOMAIN documents'
                 PROVE  d[1] \in DOMAIN client
    BY <1>1 DEF FilesAreKnown
  <2>2. d \notin DOMAIN documents
    BY <2>1 DEF Grows
  <2> QED BY <2>1, <2>2 DEF StorageInv, FilesAreKnown, StorageMove
<1> QED BY <1>4, <1>5, <1>6, <1>7, <1>8, <1>9, <1>10, <1>11 DEF StorageInv

\* A step that touches neither storage nor database nor what was undone.
LEMMA StorageStays ==
    ASSUME StorageInv, NEW c \in DOMAIN client, NEW t, UNCHANGED library,
           ClientOK(c, t, documents),
           t.request = client[c].request, t.pc \notin {"create", "undo"},
           t.pc \in {"file", "put"} =>
               client[c].pc \in {"file", "put", "create"} /\ t.next >= client[c].next,
           client[c].pc \notin {"create", "undo", "remove", "dispatch"},
           t.request.kind = "ingest" /\ t.code >= 500 => t.pc # "done" /\ t.next = 1,
           t.request.kind = "ingest" /\ client[c].code >= 500 => t.code >= 500
    PROVE  StorageMove(c, client[c], t)
<1> DEFINE s == client[c]
<1>1. IsSeq(t.items)
  BY DEF ClientOK
<1>2. \A i \in DOMAIN t.items : ~(i < 1)
  BY <1>1 DEF IsSeq
<1>3. UNCHANGED <<documents, objects, cleanups, unclean>>
  BY DEF library
<1>4. \A d : Live(d)' = Live(d) /\ Deleted(d)' = Deleted(d) /\ (Live(d) => ~Deleted(d))
  BY <1>3 DEF Live, Deleted
<1>5. \A d : ~Attends(s, c, d)
  BY DEF Attends
<1> HIDE DEF s
<1> QED BY <1>2, <1>3, <1>4, <1>5 DEF StorageMove, s

\* A request at a stage of an upload has not failed.
LEMMA UploadingStage ==
    ASSUME NEW c, NEW s, NEW ds, ClientOK(c, s, ds), s.pc \in {"file", "put", "create", "undo"}
    PROVE  s.request.kind \in {"ingest", "upload"} /\ s.code = 0
BY Stages DEF ClientOK, Accepted

\* Checking a file is such a step.
LEMMA CheckFileStorage ==
    ASSUME StorageInv, NEW c \in DOMAIN client, CheckFile(c)
    PROVE  client' = [client EXCEPT ![c] = client'[c]] /\ StorageMove(c, client[c], client'[c])
<1> DEFINE s == client[c]
<1>1. ClientOK(c, s, documents) /\ s.pc = "file" /\ UNCHANGED library
  BY DEF StorageInv, RequestInv, CheckFile, At
<1>2. s.code = 0 /\ s.next \in Nat
  BY <1>1, UploadingStage DEF ClientOK
<1>3. RequestInv' /\ UNCHANGED documents
  BY <1>1, UploadingRequests DEF StorageInv, Uploading, library
<1>4. ASSUME NEW t, client' = [client EXCEPT ![c] = t], t.request = s.request,
             t.pc \in {"file", "put"}, t.next >= s.next, t.code = s.code
      PROVE  StorageMove(c, s, t)
  <2>1. ClientOK(c, t, documents)
    BY <1>3, <1>4 DEF RequestInv
  <2> QED BY <1>1, <1>2, <1>4, <2>1, StorageStays
<1>5. client' = [client EXCEPT ![c] = client'[c]]
      /\ client'[c].request = s.request /\ client'[c].pc \in {"file", "put"}
      /\ client'[c].next >= s.next /\ client'[c].code = s.code
  <2> DEFINE rejected == NextFile(c, [s EXCEPT !.rejected = Append(@, Rejection(File(c)))])
             noted(d) == NextFile(c, [s EXCEPT !.items = Append(@, Item(d, TRUE))])
             put == [s EXCEPT !.pc = "put"]
  <2>1. \/ Go(c, rejected) \/ (\E d \in Duplicates(File(c)) : Go(c, noted(d))) \/ Go(c, put)
    BY DEF CheckFile, Continue
  <2>2. ASSUME NEW t, Go(c, t), t.request = s.request, t.pc \in {"file", "put"}, t.next >= s.next,
               t.code = s.code
        PROVE  client' = [client EXCEPT ![c] = client'[c]]
               /\ client'[c].request = s.request /\ client'[c].pc \in {"file", "put"}
               /\ client'[c].next >= s.next /\ client'[c].code = s.code
    BY <2>2, Moved DEF Go
  <2>3. DOMAIN s = ClientFields
    BY <1>1 DEF ClientOK
  <2>4. /\ rejected.request = s.request /\ rejected.pc \in {"file", "put"}
        /\ rejected.next >= s.next /\ rejected.code = s.code
    <3> HIDE DEF s
    <3> QED BY <1>2, <2>3 DEF NextFile, ClientFields
  <2>5. ASSUME NEW d
        PROVE  /\ noted(d).request = s.request /\ noted(d).pc \in {"file", "put"}
               /\ noted(d).next >= s.next /\ noted(d).code = s.code
    <3> HIDE DEF s
    <3> QED BY <1>2, <2>3 DEF NextFile, ClientFields
  <2>6. /\ put.request = s.request /\ put.pc \in {"file", "put"}
        /\ put.next >= s.next /\ put.code = s.code
    <3> HIDE DEF s
    <3> QED BY <1>2, <2>3 DEF ClientFields
  <2> HIDE DEF rejected, noted, put, s
  <2> QED BY <2>1, <2>2, <2>4, <2>5, <2>6
<1> HIDE DEF s
<1> QED BY <1>4, <1>5 DEF s

\* Of the step of a request: the state it leaves.
Moves(c) == client' = [client EXCEPT ![c] = client'[c]]

\* Where the failure of a file leaves a batch.
LEMMA AbortedMoves ==
    ASSUME StorageInv, NEW c \in DOMAIN client, Go(c, Aborted(c)),
           Request(c).kind \in {"ingest", "upload"}
    PROVE  /\ Moves(c) /\ client'[c].request = client[c].request
           /\ client'[c].items = client[c].items /\ client'[c].code = 503
           /\ \/ client'[c].request.kind = "ingest" /\ client'[c].pc = "compensate"
                 /\ client'[c].next = 1
              \/ client'[c].request.kind = "upload" /\ client'[c].pc = "done"
           /\ \A i \in DOMAIN client'[c].items : ~(i < 1)
<1>1. ClientOK(c, client[c], documents)
  BY DEF StorageInv, RequestInv
<1>2. client'[c] = Aborted(c) /\ Moves(c)
  BY Moved DEF Go, Moves
<1>3. /\ Aborted(c).request = Request(c) /\ Aborted(c).items = client[c].items
      /\ Aborted(c).code = 503
      /\ Request(c).kind = "ingest" => Aborted(c).pc = "compensate" /\ Aborted(c).next = 1
      /\ Request(c).kind = "upload" => Aborted(c).pc = "done"
  BY <1>1, Aborts
<1>4. IsSeq(client[c].items)
  BY <1>1 DEF ClientOK
<1>5. \A i \in DOMAIN client[c].items : ~(i < 1)
  BY <1>4 DEF IsSeq
<1> QED BY <1>2, <1>3, <1>5 DEF Request

\* So is putting an object, creating its row, and taking the object back.
LEMMA UploadStorage ==
    ASSUME StorageInv, NEW c \in DOMAIN client,
           PutObject(c) \/ PutFails(c) \/ CreateDocument(c) \/ CreateFails(c) \/ UndoPut(c)
    PROVE  Moves(c) /\ StorageMove(c, client[c], client'[c])
<1> DEFINE s == client[c]
           t == client'[c]
           new == <<c, s.next>>
<1>1. /\ ClientOK(c, s, documents) /\ s.pc \in {"put", "create", "undo"}
      /\ DOMAIN s = ClientFields /\ s.next \in Nat /\ RequestInv
  BY DEF StorageInv, RequestInv, ClientOK, PutObject, PutFails, CreateDocument, CreateFails,
         UndoPut, At
<1>2. s.code = 0 /\ s.request.kind \in {"ingest", "upload"} /\ s.request = Request(c)
  BY <1>1, UploadingStage DEF Request
<1>3. new = NewId(c) /\ new[1] = c
  BY DEF NewId
<1>4. s.pc \in {"put", "create"} => new \notin DOMAIN documents
  BY <1>1 DEF StorageInv, IdsAreFree
<1>5. /\ s.pc = "create" => new \in objects
      /\ s.pc = "undo" => new \notin DOMAIN documents \/ new \in unclean
  BY <1>3 DEF StorageInv, UploadsKnowTheirObject
<1>6. \A d : Attends(s, c, d) => s.pc \in {"create", "undo"} /\ d = new
  BY <1>1 DEF Attends
<1>7. CASE PutObject(c)
  <2>1. s.pc = "put" /\ objects' = objects \cup {new}
        /\ UNCHANGED <<documents, cleanups, unclean>>
    BY <1>3, <1>7 DEF PutObject, At
  <2>2. Moves(c) /\ t = [s EXCEPT !.pc = "create"]
    BY <1>7, Moved DEF PutObject, Continue, Go, Moves
  <2>3. t.request = s.request /\ t.pc = "create" /\ t.next = s.next /\ t.items = s.items
        /\ t.code = 0
    <3> HIDE DEF s, t
    <3> QED BY <1>1, <1>2, <2>2 DEF ClientFields
  <2>4. \A d : Live(d)' = Live(d) /\ Deleted(d)' = Deleted(d) /\ (Live(d) => ~Deleted(d))
    BY <2>1 DEF Live, Deleted
  <2>5. Attends(t, c, new)
    BY <2>3 DEF Attends
  <2> HIDE DEF s, t, new
  <2>6. StorageMove(c, s, t)
    <3>1. \A d \in objects' : d \notin objects \/ Attends(s, c, d) => Attends(t, c, d)
      BY <1>1, <1>6, <2>1, <2>5
    <3>2. \A d : Live(d) /\ Deleted(d)' => FALSE
      BY <2>4
    <3>3. \A d \in objects' : d \notin objects => d[1] = c
      BY <1>3, <2>1
    <3>4. <<c, t.next>> \in objects'
      BY <2>1, <2>3 DEF new
    <3> QED BY <1>1, <1>2, <2>1, <2>3, <2>4, <3>1, <3>2, <3>3, <3>4 DEF StorageMove
  <2> QED BY <2>2, <2>6 DEF s, t
<1>8. CASE PutFails(c) \/ UndoPut(c)
  <2>1. /\ UNCHANGED <<documents, cleanups>> /\ Go(c, Aborted(c))
        /\ objects' \in {objects, objects \cup {new}, objects \ {new}}
        /\ unclean' \in {unclean, unclean \cup {new}}
        /\ s.pc = "put" => objects' = objects \/ new \in unclean'
        /\ s.pc = "put" => objects' # objects \ {new} \/ objects' = objects
        /\ s.pc = "undo" => objects' = objects \ {new} \/ (objects' = objects /\ new \in unclean')
    BY <1>3, <1>4, <1>8 DEF PutFails, UndoPut, At
  <2>2. /\ Moves(c) /\ t.request = s.request /\ t.items = s.items /\ t.code = 503
        /\ \/ t.request.kind = "ingest" /\ t.pc = "compensate" /\ t.next = 1
           \/ t.request.kind = "upload" /\ t.pc = "done"
        /\ \A i \in DOMAIN t.items : ~(i < 1)
    BY <1>2, <2>1, AbortedMoves
  <2>3. \A d : /\ Live(d)' = Live(d) /\ Deleted(d)' = Deleted(d) /\ (Live(d) => ~Deleted(d))
               /\ (Live(d) => d \in DOMAIN documents)
    BY <2>1 DEF Live, Deleted
  <2>4. s.pc \in {"put", "undo"}
    BY <1>8 DEF PutFails, UndoPut, At
  <2> HIDE DEF s, t, new
  <2>5. \A d \in objects \ objects' : d = new /\ (Live(d)' => d \in unclean')
    BY <1>4, <1>5, <2>1, <2>3, <2>4
  <2>6. \A d \in objects' : d \notin objects \/ Attends(s, c, d) => d \in unclean' \/ Live(d)'
    BY <1>4, <1>5, <1>6, <2>1, <2>3, <2>4
  <2>7. StorageMove(c, s, t)
    BY <1>1, <1>2, <1>3, <2>1, <2>2, <2>3, <2>5, <2>6 DEF StorageMove, new
  <2> QED BY <2>2, <2>7 DEF s, t
<1>9. CASE CreateDocument(c)
  <2>1. /\ s.pc = "create" /\ UNCHANGED <<objects, cleanups, unclean>> /\ Created(c)
    BY <1>9 DEF CreateDocument, At
  <2>2. /\ DOMAIN documents' = DOMAIN documents \cup {new}
        /\ \A d \in DOMAIN documents : documents'[d] = documents[d]
        /\ ~documents'[new].deleted
    BY <1>1, <1>3, <1>4, <2>1, CreatedRows DEF At
  <2>3. Moves(c) /\ t = NextFile(c, [s EXCEPT !.items = Append(@, Item(NewId(c), FALSE))])
    BY <1>9, Moved DEF CreateDocument, Go, Moves
  <2>4. t.request = s.request /\ t.pc = "file" /\ t.next = s.next + 1 /\ t.code = 0
    <3> HIDE DEF s, t
    <3> QED BY <1>1, <1>2, <2>3 DEF ClientFields, NextFile
  <2>5. \A d : (Live(d)' <=> Live(d) \/ d = new) /\ (Deleted(d)' <=> Deleted(d))
               /\ (Live(d) => ~Deleted(d))
    BY <1>4, <2>1, <2>2 DEF Live, Deleted
  <2> HIDE DEF s, t, new
  <2>6. StorageMove(c, s, t)
    <3>1. \A d \in objects' : d \in objects /\ (Attends(s, c, d) => Live(d)')
      BY <1>6, <2>1, <2>5
    <3>2. \A d \in DOMAIN documents' \ DOMAIN documents :
              d = <<c, s.next>> /\ d \in objects' \cup unclean'
      BY <1>5, <2>1, <2>2 DEF new
    <3>3. \A d : (Deleted(d)' => Deleted(d)) /\ ~(Live(d) /\ Deleted(d)')
      BY <2>5
    <3> QED BY <1>1, <1>2, <2>1, <2>4, <3>1, <3>2, <3>3 DEF StorageMove
  <2> QED BY <2>3, <2>6 DEF s, t
<1>10. CASE CreateFails(c)
  <2>1. /\ s.pc = "create" /\ UNCHANGED <<objects, cleanups>>
        /\ \/ UNCHANGED <<documents, unclean>>
           \/ Created(c) /\ unclean' = unclean \cup {new}
    BY <1>3, <1>10 DEF CreateFails, At
  <2>2. Moves(c) /\ t = [s EXCEPT !.pc = "undo"]
    BY <1>10, Moved DEF CreateFails, Continue, Go, Moves
  <2>3. t.request = s.request /\ t.pc = "undo" /\ t.next = s.next /\ t.code = 0
    <3> HIDE DEF s, t
    <3> QED BY <1>1, <1>2, <2>2 DEF ClientFields
  <2>4. CASE UNCHANGED <<documents, unclean>>
    <3>1. \A d : Live(d)' = Live(d) /\ Deleted(d)' = Deleted(d) /\ (Live(d) => ~Deleted(d))
      BY <2>4 DEF Live, Deleted
    <3>2. Attends(t, c, new)
      BY <2>3 DEF Attends
    <3> HIDE DEF s, t, new
    <3> QED BY <1>1, <1>3, <1>4, <1>6, <2>1, <2>2, <2>3, <2>4, <3>1, <3>2 DEF StorageMove, new, s, t
  <2>5. CASE Created(c) /\ unclean' = unclean \cup {new}
    <3>1. /\ DOMAIN documents' = DOMAIN documents \cup {new}
          /\ \A d \in DOMAIN documents : documents'[d] = documents[d]
          /\ ~documents'[new].deleted
      BY <1>1, <1>3, <1>4, <2>1, <2>5, CreatedRows DEF At
    <3>2. \A d : (Live(d)' <=> Live(d) \/ d = new) /\ (Deleted(d)' <=> Deleted(d))
                 /\ (Live(d) => ~Deleted(d))
      BY <1>4, <2>1, <3>1 DEF Live, Deleted
    <3> HIDE DEF s, t, new
    <3>3. StorageMove(c, s, t)
      <4>1. \A d \in objects' : d \in objects /\ (Attends(s, c, d) => Live(d)')
        BY <1>6, <2>1, <3>2
      <4>2. \A d \in DOMAIN documents' \ DOMAIN documents :
                d = <<c, s.next>> /\ d \in objects' \cup unclean'
        BY <2>5, <3>1 DEF new
      <4>3. \A d : (Deleted(d)' => Deleted(d)) /\ ~(Live(d) /\ Deleted(d)')
        BY <3>2
      <4>4. <<c, t.next>> \in unclean' /\ unclean \subseteq unclean'
        BY <2>3, <2>5 DEF new
      <4>5. \A d \in unclean' \ unclean : d[1] = c
        BY <1>3, <2>5
      <4> QED BY <1>1, <1>2, <2>1, <2>3, <4>1, <4>2, <4>3, <4>4, <4>5 DEF StorageMove
    <3> QED BY <2>2, <3>3 DEF s, t
  <2> QED BY <2>1, <2>4, <2>5
<1> QED BY <1>7, <1>8, <1>9, <1>10

\* So is the end of the files, and their confirmation.
LEMMA ConfirmStorage ==
    ASSUME StorageInv, NEW c \in DOMAIN client, FilesDone(c) \/ Confirm(c) \/ ConfirmFails(c)
    PROVE  Moves(c) /\ StorageMove(c, client[c], client'[c])
<1> DEFINE s == client[c]
           t == client'[c]
           ended(code) == [s EXCEPT !.pc = "done", !.code = code]
           confirming == [s EXCEPT !.pc = "confirm"]
           undoing(code) == [s EXCEPT !.pc = "compensate", !.next = 1, !.code = code]
<1>1. /\ ClientOK(c, s, documents) /\ s.pc \in {"file", "confirm"} /\ UNCHANGED library
      /\ DOMAIN s = ClientFields /\ s.code = 0
  BY DEF StorageInv, RequestInv, ClientOK, FilesDone, Confirm, ConfirmFails, At
<1>2. RequestInv'
  BY UploadingRequests DEF Uploading, StorageInv
<1>3. UNCHANGED documents
  BY <1>1 DEF library
<1>4. /\ t.request = s.request
      /\ t.pc \in {"done", "confirm", "compensate"}
      /\ t.request.kind = "ingest" /\ t.code >= 500 => t.pc # "done" /\ t.next = 1
      /\ Moves(c)
  <2>1. \/ Go(c, ended(200)) \/ Go(c, ended(201)) \/ Go(c, ended(422))
        \/ s.request.kind # "ingest" /\ Go(c, ended(503))
        \/ Go(c, confirming) \/ Go(c, undoing(500)) \/ Go(c, undoing(503))
    BY DEF FilesDone, Confirm, ConfirmFails, Finish, Continue, Aborted, Request
  <2>2. ASSUME NEW u, Go(c, u), u.request = s.request, u.pc \in {"done", "confirm", "compensate"},
               u.request.kind = "ingest" /\ u.code >= 500 => u.pc # "done" /\ u.next = 1
        PROVE  /\ t.request = s.request
               /\ t.pc \in {"done", "confirm", "compensate"}
               /\ t.request.kind = "ingest" /\ t.code >= 500 => t.pc # "done" /\ t.next = 1
               /\ Moves(c)
    BY <2>2, Moved DEF Go, Moves
  <2>3. \A code \in Nat : /\ ended(code).request = s.request /\ ended(code).pc = "done"
                          /\ ended(code).code = code
                          /\ undoing(code).request = s.request
                          /\ undoing(code).pc = "compensate" /\ undoing(code).next = 1
    <3> HIDE DEF s
    <3> QED BY <1>1 DEF ClientFields
  <2>4. confirming.request = s.request /\ confirming.pc = "confirm" /\ confirming.code = 0
    <3> HIDE DEF s
    <3> QED BY <1>1 DEF ClientFields
  <2> HIDE DEF ended, undoing, confirming, s, t
  <2> QED BY <2>1, <2>2, <2>3, <2>4
<1>5. ClientOK(c, t, documents)
  BY <1>2, <1>3, <1>4 DEF RequestInv, Moves
<1>6. ~(s.code >= 500)
  BY <1>1
<1> HIDE DEF t
<1> QED BY <1>1, <1>4, <1>5, <1>6, StorageStays DEF t

\* So is each step of the compensation of an ingest.
LEMMA CompensateStorage ==
    ASSUME StorageInv, NEW c \in DOMAIN client,
           Compensate(c) \/ CompensateFails(c) \/ RemoveCompensated(c)
    PROVE  Moves(c) /\ StorageMove(c, client[c], client'[c])
<1> DEFINE s == client[c]
           t == client'[c]
           i == s.next
           d == s.items[i].document
<1>1. /\ ClientOK(c, s, documents) /\ s.pc \in {"compensate", "remove"}
      /\ DOMAIN s = ClientFields /\ s.next \in Nat \ {0} /\ s.code >= 500 /\ s.code \in Nat
      /\ DOMAIN s.items = 1 .. Len(s.items) /\ Len(s.items) \in Nat
  BY DEF StorageInv, RequestInv, ClientOK, IsSeq, Compensate, CompensateFails,
         RemoveCompensated, At
<1>2. s.request.kind = "ingest" /\ s.request = Request(c)
  BY <1>1, Stages, SMTT(30) DEF ClientOK, Accepted, Request
<1>3. Compensated(c) = s.items[i]
  BY DEF Compensated
<1>4. \A k \in DOMAIN s.items : k < i => \/ s.items[k].duplicate
                                         \/ Deleted(s.items[k].document)
                                         \/ s.items[k].document \in unclean
  BY <1>1, <1>2 DEF StorageInv, UndoneSoFar, Deleted, ClientOK
<1>5. \A k \in DOMAIN s.items : /\ s.items[k].document \in DOMAIN documents
                                /\ ~s.items[k].duplicate => s.items[k].document[1] = c
  BY <1>1 DEF ClientOK
<1>6. RequestInv' /\ Grows(documents, documents')
  BY UploadingRequests DEF Uploading, StorageInv
<1>7. \A x : /\ (Deleted(x) => Deleted(x)') /\ ~(Live(x)' /\ Deleted(x)') /\ ~(Live(x) /\ Deleted(x))
             /\ (x \in DOMAIN documents => Live(x) \/ Deleted(x))
  BY <1>6 DEF Deleted, Live, Grows
<1>8. CASE Compensate(c) /\ i > Len(s.items)
  <2>1. Moves(c) /\ t = [s EXCEPT !.pc = "done"] /\ UNCHANGED library
    BY <1>8, Moved DEF Compensate, Continue, Go, Moves, library
  <2>2. t.request = s.request /\ t.pc = "done" /\ t.next = i /\ t.items = s.items
        /\ t.code = s.code
    <3> HIDE DEF s, t
    <3> QED BY <1>1, <2>1 DEF ClientFields
  <2>3. s.pc = "compensate"
    BY <1>8 DEF Compensate, At
  <2>4. UNCHANGED <<documents, objects, cleanups, unclean>>
    BY <2>1 DEF library
  <2>5. \A x : Live(x)' = Live(x) /\ Deleted(x)' = Deleted(x)
    BY <2>4 DEF Live, Deleted
  <2>6. \A x : ~Attends(s, c, x)
    BY <2>3 DEF Attends
  <2>7. \A k \in DOMAIN t.items : \/ t.items[k].duplicate
                                  \/ documents'[t.items[k].document].deleted
                                  \/ t.items[k].document \in unclean'
    BY <1>1, <1>4, <1>8, <2>2, <2>4 DEF Deleted
  <2> HIDE DEF s, t, i, d
  <2>8. StorageMove(c, s, t)
    BY <1>1, <1>7, <2>2, <2>4, <2>5, <2>6, <2>7 DEF StorageMove
  <2> QED BY <2>1, <2>8 DEF s, t
<1>9. CASE /\ Compensate(c) \/ CompensateFails(c) \/ RemoveCompensated(c)
           /\ Go(c, NextItem(c)) /\ i <= Len(s.items)
  <2>1. Moves(c) /\ t = NextItem(c)
    BY <1>9, Moved DEF Go, Moves
  <2>2. t.request = s.request /\ t.pc = "compensate" /\ t.next = i + 1 /\ t.items = s.items
        /\ t.code = s.code
    <3>1. t = [s EXCEPT !.pc = "compensate", !.next = i + 1]
      BY <1>1, <2>1 DEF NextItem, ClientFields
    <3> HIDE DEF s, t, i
    <3> QED BY <1>1, <3>1 DEF ClientFields
  <2>3. i \in DOMAIN s.items
    BY <1>1, <1>9
  <2>4. /\ UNCHANGED documents
        /\ unclean' \in {unclean, unclean \cup {d}} /\ cleanups' \in {cleanups, cleanups \cup {d}}
        /\ objects' \in {objects, objects \ {d}}
        /\ s.pc = "compensate" =>
               /\ UNCHANGED <<objects, cleanups>>
               /\ s.items[i].duplicate \/ Deleted(d) \/ d \in unclean'
        /\ s.pc = "remove" => d \in unclean' \/ d \in cleanups' \/ d \notin objects'
    <3>1. CASE Compensate(c)
      <4>1. s.pc = "compensate" /\ UNCHANGED <<objects, cleanups, unclean>>
        BY <3>1 DEF Compensate, At
      <4>2. CASE Skipped(c)
        <5>1. UNCHANGED documents
          BY <1>1, <1>9, <3>1, <4>2 DEF Compensate
        <5> QED BY <1>3, <1>5, <1>7, <2>3, <4>1, <4>2, <5>1 DEF Skipped
      <4>3. CASE ~Skipped(c)
        <5>1. client'[c].pc = "remove"
          BY <1>1, <1>9, <3>1, <4>3 DEF Compensate, Continue, Go, ClientFields
        <5> QED BY <2>2, <5>1
      <4> QED BY <4>2, <4>3
    <3>2. CASE CompensateFails(c)
      BY <1>3, <3>2 DEF CompensateFails, At
    <3>3. CASE RemoveCompensated(c)
      BY <1>3, <3>3 DEF RemoveCompensated, At
    <3> QED BY <1>9, <3>1, <3>2, <3>3
  <2>5. s.pc = "remove" => Deleted(d)
    BY <1>1 DEF ClientOK, Deleted
  <2>6. \A x : Live(x)' = Live(x) /\ Deleted(x)' = Deleted(x)
    BY <2>4 DEF Live, Deleted
  <2>7. \A x : Attends(s, c, x) => s.pc = "remove" /\ x = d
    BY <1>1 DEF Attends
  <2>8. \A k \in DOMAIN t.items : k < i + 1 => \/ t.items[k].duplicate
                                               \/ documents'[t.items[k].document].deleted
                                               \/ t.items[k].document \in unclean'
    <3>1. s.items[i].duplicate \/ Deleted(d) \/ d \in unclean'
      BY <1>1, <2>4, <2>5
    <3>2. \A k \in DOMAIN s.items : k < i + 1 => k < i \/ k = i
      BY <1>1
    <3> HIDE DEF t, i, s
    <3> QED BY <1>4, <2>2, <2>4, <3>1, <3>2 DEF Deleted
  <2>9. d \in DOMAIN documents
    BY <1>5, <2>3
  <2> HIDE DEF s, t, i, d
  <2>10. StorageMove(c, s, t)
    <3>1. \A x \in objects \ objects' : x \in DOMAIN documents /\ ~Live(x)'
      BY <1>1, <1>7, <2>4, <2>5, <2>6, <2>9
    <3>2. \A x \in cleanups' \ cleanups : Deleted(x)'
      BY <1>1, <2>4, <2>5, <2>6
    <3>3. \A x \in objects' : /\ x \in objects /\ ~(Live(x) /\ Deleted(x)')
                              /\ Attends(s, c, x) => x \in unclean' \/ x \in cleanups'
      BY <1>7, <2>4, <2>6, <2>7
    <3>4. \A x \in (objects' \cup unclean') \ (objects \cup unclean) : x \in DOMAIN documents'
      BY <2>4, <2>9
    <3>5. unclean \subseteq unclean' /\ cleanups \subseteq cleanups' /\ DOMAIN documents' = DOMAIN documents
      BY <2>4
    <3> QED BY <1>1, <2>2, <2>6, <2>8, <3>1, <3>2, <3>3, <3>4, <3>5 DEF StorageMove
  <2> QED BY <2>1, <2>10 DEF s, t
<1>10. CASE Compensate(c) /\ i <= Len(s.items) /\ ~Skipped(c)
  <2>1. /\ s.pc = "compensate" /\ documents' = [documents EXCEPT ![d].deleted = TRUE]
        /\ UNCHANGED <<objects, cleanups, unclean>>
        /\ Moves(c) /\ t = [s EXCEPT !.pc = "remove"]
    <3>1. ~(i > Len(s.items))
      BY <1>1, <1>10
    <3>2. /\ s.pc = "compensate" /\ documents' = [documents EXCEPT ![d].deleted = TRUE]
          /\ UNCHANGED <<objects, cleanups, unclean>>
          /\ client' = [client EXCEPT ![c] = [s EXCEPT !.pc = "remove"]]
      BY <1>3, <1>10, <3>1 DEF Compensate, Continue, Go, At
    <3> QED BY <3>2, Moved DEF Moves
  <2>2. t.request = s.request /\ t.pc = "remove" /\ t.next = i /\ t.items = s.items
        /\ t.code = s.code
    <3> HIDE DEF s, t
    <3> QED BY <1>1, <2>1 DEF ClientFields
  <2>3. d \in DOMAIN documents /\ d[1] = c
    BY <1>1, <1>3, <1>5, <1>10 DEF Skipped
  <2>4. DOMAIN documents' = DOMAIN documents
        /\ \A x \in DOMAIN documents : x # d => documents'[x] = documents[x]
    BY <2>1
  <2>5. \A x : (Live(x) => Live(x)' \/ x = d) /\ (Deleted(x)' => Deleted(x) \/ x = d)
    BY <2>4 DEF Live, Deleted
  <2>6. Attends(t, c, d) /\ \A x : ~Attends(s, c, x)
    BY <2>1, <2>2 DEF Attends
  <2>7. \A k \in DOMAIN t.items : k < i => \/ t.items[k].duplicate
                                           \/ documents'[t.items[k].document].deleted
                                           \/ t.items[k].document \in unclean'
    <3> HIDE DEF t, i, s
    <3> QED BY <1>4, <1>7, <2>1, <2>2 DEF Deleted
  <2> HIDE DEF s, t, i, d
  <2>8. StorageMove(c, s, t)
    BY <1>1, <1>2, <1>7, <2>1, <2>2, <2>3, <2>4, <2>5, <2>6, <2>7 DEF StorageMove
  <2> QED BY <2>1, <2>8 DEF s, t
<1>11. \/ Compensate(c) /\ i > Len(s.items)
       \/ /\ Compensate(c) \/ CompensateFails(c) \/ RemoveCompensated(c)
          /\ Go(c, NextItem(c)) /\ i <= Len(s.items)
       \/ Compensate(c) /\ i <= Len(s.items) /\ ~Skipped(c)
  <2>1. CASE Compensate(c)
    <3>1. i > Len(s.items) \/ i <= Len(s.items)
      BY <1>1
    <3>2. i <= Len(s.items) => ~(i > Len(s.items))
      BY <1>1
    <3>3. i <= Len(s.items) /\ Skipped(c) => Go(c, NextItem(c))
      BY <2>1, <3>2 DEF Compensate
    <3> QED BY <2>1, <3>1, <3>3
  <2>2. CASE CompensateFails(c)
    BY <2>2 DEF CompensateFails
  <2>3. CASE RemoveCompensated(c)
    <3>1. s.next \in DOMAIN s.items
      BY <1>1, <2>3 DEF RemoveCompensated, At, ClientOK
    <3> QED BY <1>1, <2>3, <3>1 DEF RemoveCompensated
  <2> QED BY <2>1, <2>2, <2>3
<1> QED BY <1>8, <1>9, <1>10, <1>11

\* So is each step of a governance or a deletion.
LEMMA GoverningStorage ==
    ASSUME StorageInv, NEW c \in DOMAIN client, Governing(c)
    PROVE  Moves(c) /\ StorageMove(c, client[c], client'[c])
<1> DEFINE s == client[c]
           t == client'[c]
           d == Request(c).document
<1>1. /\ ClientOK(c, s, documents) /\ s.pc \in {"govern", "delete", "dispatch"}
      /\ DOMAIN s = ClientFields /\ s.next \in Nat \ {0}
  BY DEF StorageInv, RequestInv, ClientOK, Governing, Govern, Delete, DispatchCleanup, At
<1>2. s.request.kind \in {"govern", "delete"} /\ s.request = Request(c)
      /\ (s.pc \in {"delete", "dispatch"} => s.request.kind = "delete")
  BY <1>1, Stages DEF ClientOK, Accepted, Request
<1>3. RequestInv' /\ Grows(documents, documents')
  BY GoverningRequests DEF StorageInv
<1>4. \A x : /\ (Deleted(x) => Deleted(x)') /\ ~(Live(x)' /\ Deleted(x)') /\ ~(Live(x) /\ Deleted(x))
             /\ (x \in DOMAIN documents => Live(x) \/ Deleted(x))
  BY <1>3 DEF Deleted, Live, Grows
<1>5. ASSUME NEW code \in Nat, Finish(c, code)
      PROVE  /\ Moves(c) /\ t.request = s.request /\ t.pc = "done"
  <2>1. Moves(c) /\ t = [s EXCEPT !.pc = "done", !.code = code]
    BY <1>5, Moved DEF Finish, Go, Moves
  <2>2. t.request = s.request /\ t.pc = "done"
    <3> HIDE DEF s, t
    <3> QED BY <1>1, <2>1 DEF ClientFields
  <2> QED BY <2>1, <2>2
<1>6. CASE Govern(c) \/ (Delete(c) /\ ~Live(d))
  <2>1. Finish(c, 200) \/ Finish(c, 404)
    BY <1>6 DEF Govern, Delete
  <2>2. Moves(c) /\ t.request = s.request /\ t.pc = "done"
    BY <1>5, <2>1
  <2>3. UNCHANGED <<objects, cleanups, unclean>> /\ s.pc \in {"govern", "delete"}
    BY <1>6 DEF Govern, Delete, At
  <2>4. /\ DOMAIN documents' = DOMAIN documents
        /\ \A x \in DOMAIN documents : documents'[x].deleted = documents[x].deleted
    <3>1. CASE Govern(c) /\ Live(d)
      <4>1. /\ documents' = [documents EXCEPT ![d] = Joined(Request(c).change, documents[d])]
            /\ d \in DOMAIN documents /\ s.request.kind = "govern"
        BY <1>1, <3>1, Stages DEF Govern, Live, At, ClientOK, Accepted
      <4>2. /\ DOMAIN Request(c).change \subseteq {"name", "enabled", "archived"}
            /\ \A column \in DOMAIN Request(c).change \ {"name"} :
                   Request(c).change[column] \in BOOLEAN
        BY <1>1, <1>2, <4>1 DEF ClientOK, Accepted
      <4>3. /\ DOMAIN documents' = DOMAIN documents /\ documents'[d].deleted = documents[d].deleted
            /\ \A e \in DOMAIN documents : e # d => documents'[e] = documents[e]
        <5> HIDE DEF d
        <5> QED BY <4>1, <4>2, GovernedRow DEF StorageInv
      <4> QED BY <4>3
    <3>2. CASE ~Live(d)
      <4>1. UNCHANGED documents
        BY <1>6, <3>2 DEF Govern, Delete
      <4> QED BY <4>1
    <3> QED BY <1>6, <3>1, <3>2
  <2>5. \A x : Live(x)' = Live(x) /\ Deleted(x)' = Deleted(x)
    BY <2>4 DEF Live, Deleted
  <2>6. \A x : ~Attends(s, c, x)
    BY <2>3 DEF Attends
  <2> HIDE DEF s, t, d
  <2>7. StorageMove(c, s, t)
    BY <1>2, <1>4, <2>2, <2>3, <2>4, <2>5, <2>6 DEF StorageMove
  <2> QED BY <2>2, <2>7 DEF s, t
<1>7. CASE Delete(c) /\ Live(d)
  <2>1. /\ s.pc = "delete" /\ documents' = [documents EXCEPT ![d].deleted = TRUE]
        /\ UNCHANGED <<objects, cleanups, unclean>>
        /\ client' = [client EXCEPT ![c] = [s EXCEPT !.pc = "dispatch"]]
    BY <1>7 DEF Delete, Continue, Go, At
  <2>2. Moves(c) /\ t = [s EXCEPT !.pc = "dispatch"]
    BY <2>1, Moved DEF Moves
  <2>3. t.request = s.request /\ t.pc = "dispatch" /\ t.next = s.next
    <3> HIDE DEF s, t
    <3> QED BY <1>1, <2>2 DEF ClientFields
  <2>4. DOMAIN documents' = DOMAIN documents
        /\ \A x \in DOMAIN documents : x # d => documents'[x] = documents[x]
    BY <2>1
  <2>5. \A x : (Live(x) => Live(x)' \/ x = d) /\ (Deleted(x)' => Deleted(x) \/ x = d)
    BY <2>4 DEF Live, Deleted
  <2>6. d = s.request.document /\ s.request.kind = "delete"
    BY <1>2, <2>1
  <2>7. Attends(t, c, d) /\ \A x : ~Attends(s, c, x)
    BY <2>1, <2>3, <2>6 DEF Attends
  <2> HIDE DEF s, t, d
  <2>8. StorageMove(c, s, t)
    BY <1>4, <2>1, <2>3, <2>4, <2>5, <2>6, <2>7 DEF StorageMove
  <2> QED BY <2>2, <2>8 DEF s, t
<1>8. CASE DispatchCleanup(c)
  <2>1. /\ s.pc = "dispatch" /\ UNCHANGED <<documents, objects>> /\ Finish(c, 200)
        /\ \/ cleanups' = cleanups \cup {d} /\ UNCHANGED unclean
           \/ unclean' = unclean \cup {d} /\ UNCHANGED cleanups
    BY <1>8 DEF DispatchCleanup, At
  <2>2. Moves(c) /\ t.request = s.request /\ t.pc = "done"
    BY <1>5, <2>1
  <2>3. Deleted(d) /\ d \in DOMAIN documents
    BY <1>1, <1>2, <2>1 DEF ClientOK, Deleted
  <2>4. \A x : Live(x)' = Live(x) /\ Deleted(x)' = Deleted(x)
    BY <2>1 DEF Live, Deleted
  <2>5. \A x : Attends(s, c, x) => x = d
    BY <1>2, <2>1 DEF Attends
  <2> HIDE DEF s, t, d
  <2>6. StorageMove(c, s, t)
    BY <1>2, <1>4, <2>1, <2>2, <2>3, <2>4, <2>5 DEF StorageMove
  <2> QED BY <2>2, <2>6 DEF s, t
<1> QED BY <1>6, <1>7, <1>8 DEF Governing

\* So is each step of the editor and of a search.
LEMMA CalmStorage ==
    ASSUME StorageInv, NEW c \in DOMAIN client, Revising(c) \/ Searching(c)
    PROVE  Moves(c) /\ StorageMove(c, client[c], client'[c])
<1> DEFINE s == client[c]
           t == client'[c]
<1>1. /\ ClientOK(c, s, documents) /\ UNCHANGED library /\ Moves(c) /\ Calm(s, t)
      /\ s.request.kind \in {"edit", "save", "reindex", "search"}
  BY CalmMoves DEF StorageInv, RequestInv, Moves, Request
<1>2. ClientOK(c, t, documents)
  BY <1>1, CalmStays
<1>3. s.pc \notin {"create", "undo", "remove", "dispatch"}
  BY <1>1, Stages DEF ClientOK
<1> HIDE DEF t
<1> QED BY <1>1, <1>2, <1>3, StorageStays DEF Calm, t

\* So is the end of the API process: what it attended is unclean.
LEMMA DyingStorage ==
    ASSUME StorageInv, NEW c \in DOMAIN client, Die(c)
    PROVE  Moves(c) /\ StorageMove(c, client[c], client'[c])
<1> DEFINE s == client[c]
           t == client'[c]
           new == <<c, s.next>>
           own == {s.items[i].document : i \in DOMAIN s.items}
<1>1. /\ ClientOK(c, s, documents) /\ DOMAIN s = ClientFields
      /\ s.pc \in {"create", "undo", "compensate", "remove", "dispatch", "confirm", "file"}
      /\ s.request = Request(c)
  BY DEF StorageInv, RequestInv, ClientOK, Die, Request
<1>2. Moves(c) /\ t = [s EXCEPT !.pc = "done"] /\ UNCHANGED <<documents, objects, cleanups>>
  BY Moved DEF Die, Continue, Go, Moves
<1>3. t.request = s.request /\ t.pc = "done" /\ t.items = s.items /\ t.code = s.code
  <2> HIDE DEF s, t
  <2> QED BY <1>1, <1>2 DEF ClientFields
<1>4. unclean' = unclean \cup (IF s.pc \in {"create", "undo"} THEN {new} ELSE {})
                         \cup (IF s.pc = "dispatch" THEN {s.request.document} ELSE {})
                         \cup own
  BY <1>1 DEF Die, NewId
<1>5. \A i \in DOMAIN t.items : t.items[i].document \in unclean'
  BY <1>3, <1>4
<1>6. own \subseteq DOMAIN documents /\ (s.pc = "dispatch" => s.request.document \in DOMAIN documents)
  BY <1>1 DEF ClientOK
<1>7. \A x : Attends(s, c, x) => x \in unclean'
  <2>1. s.pc = "remove" => s.next \in DOMAIN s.items
    BY <1>1 DEF ClientOK
  <2> QED BY <1>4, <2>1 DEF Attends
<1>8. \A x : Live(x)' = Live(x) /\ Deleted(x)' = Deleted(x) /\ ~(Live(x) /\ Deleted(x))
  BY <1>2 DEF Live, Deleted
<1>9. \A x \in unclean' \ unclean : x \in DOMAIN documents \/ x[1] = c
  BY <1>4, <1>6 DEF new
<1>10. unclean \subseteq unclean'
  BY <1>4
<1> HIDE DEF s, t, own, new
<1>11. StorageMove(c, s, t)
  BY <1>2, <1>3, <1>5, <1>7, <1>8, <1>9, <1>10 DEF StorageMove
<1> QED BY <1>2, <1>11 DEF s, t

\* The cleanup task keeps the invariant of storage, whether it succeeds or fails.
LEMMA CleanupStorage ==
    ASSUME StorageInv, NEW d, Cleanup(d) \/ CleanupFails(d)
    PROVE  StorageInv'
<1>1. /\ UNCHANGED <<client, documents>> /\ d \in cleanups /\ cleanups' = cleanups \ {d}
      /\ objects' \in {objects, objects \ {d}} /\ unclean' \in {unclean, unclean \cup {d}}
      /\ d \notin objects' \/ d \in unclean'
  BY DEF Cleanup, CleanupFails
<1>2. d \in DOMAIN documents /\ documents[d].deleted
  BY <1>1 DEF StorageInv, CleanupsAreOfDeleted
<1>3. RequestInv'
  BY <1>1, NoneMoves, Faults DEF StorageInv, Cleanup, CleanupFails
<1>4. IdsAreFree'
  BY <1>1 DEF StorageInv, IdsAreFree
<1>5. UploadsKnowTheirObject'
  <2>1. ASSUME NEW c \in DOMAIN client, client[c].pc = "create"
        PROVE  NewId(c) # d
    <3>1. client[c].next \in Nat
      BY DEF StorageInv, RequestInv, ClientOK
    <3>2. NewId(c) \notin DOMAIN documents
      BY <2>1, <3>1 DEF StorageInv, IdsAreFree, NewId
    <3> QED BY <1>2, <3>2
  <2> QED BY <1>1, <2>1 DEF StorageInv, UploadsKnowTheirObject, NewId
<1>6. CleanupsAreOfDeleted'
  BY <1>1 DEF StorageInv, CleanupsAreOfDeleted
<1>7. ObjectsAreAttended'
  BY <1>1 DEF StorageInv, ObjectsAreAttended, Live
<1>8. LiveHaveSources'
  BY <1>1, <1>2 DEF StorageInv, LiveHaveSources
<1>9. UndoneSoFar'
  BY <1>1 DEF StorageInv, UndoneSoFar
<1>10. DeletionsHaveReasons'
  BY <1>1 DEF StorageInv, DeletionsHaveReasons, FailedIngest, Request
<1>11. FilesAreKnown'
  BY <1>1, <1>2 DEF StorageInv, FilesAreKnown
<1> QED BY <1>3, <1>4, <1>5, <1>6, <1>7, <1>8, <1>9, <1>10, <1>11 DEF StorageInv

\* A step that touches neither storage nor requests keeps it.
LEMMA StorageRests ==
    ASSUME StorageInv, UNCHANGED <<client, library, faults>> \/ (UNCHANGED <<client, library>> /\ (Fault \/ NoFault))
    PROVE  StorageInv'
<1>1. UNCHANGED <<client, documents, objects, cleanups, unclean>>
  BY DEF library
<1>2. RequestInv'
  BY <1>1, NoneMoves, Faults DEF StorageInv, RequestInv
<1> QED BY <1>1, <1>2 DEF StorageInv, IdsAreFree, UploadsKnowTheirObject, NewId,
           CleanupsAreOfDeleted, ObjectsAreAttended, Live, LiveHaveSources, UndoneSoFar,
           DeletionsHaveReasons, FailedIngest, Request, FilesAreKnown

\* Every step of a request.
ClientStep(c) == Uploading(c) \/ Governing(c) \/ Revising(c) \/ Searching(c) \/ Die(c)

\* Every step of a request does no more than StorageMove.
LEMMA ClientStorage ==
    ASSUME StorageInv, NEW c \in DOMAIN client, ClientStep(c)
    PROVE  Moves(c) /\ StorageMove(c, client[c], client'[c])
<1>1. CASE Uploading(c)
  <2>1. CASE CheckFile(c)
    BY <2>1, CheckFileStorage DEF Moves
  <2>2. CASE PutObject(c) \/ PutFails(c) \/ CreateDocument(c) \/ CreateFails(c) \/ UndoPut(c)
    BY <2>2, UploadStorage
  <2>3. CASE FilesDone(c) \/ Confirm(c) \/ ConfirmFails(c)
    BY <2>3, ConfirmStorage
  <2>4. CASE Compensate(c) \/ CompensateFails(c) \/ RemoveCompensated(c)
    BY <2>4, CompensateStorage
  <2> QED BY <1>1, <2>1, <2>2, <2>3, <2>4 DEF Uploading
<1>2. CASE Governing(c)
  BY <1>2, GoverningStorage
<1>3. CASE Revising(c) \/ Searching(c)
  BY <1>3, CalmStorage
<1>4. CASE Die(c)
  BY <1>4, DyingStorage
<1> QED BY <1>1, <1>2, <1>3, <1>4 DEF ClientStep

\* Every step of the system keeps the invariant of storage.
LEMMA StorageStep ==
    ASSUME StorageInv, [Next]_vars
    PROVE  StorageInv'
<1>1. RequestInv' /\ Grows(documents, documents')
  BY RequestStep DEF StorageInv
<1>2. ASSUME NEW c \in DOMAIN client, ClientStep(c)
      PROVE  StorageInv'
  <2> DEFINE t == client'[c]
  <2>1. client' = [client EXCEPT ![c] = t] /\ StorageMove(c, client[c], t)
    BY <1>2, ClientStorage DEF Moves
  <2> HIDE DEF t
  <2> QED BY <1>1, <2>1, StorageMoves
<1>3. ASSUME NEW j \in DOMAIN jobs, Working(j)
      PROVE  StorageInv'
  <2>1. UNCHANGED <<client, library>> /\ (Fault \/ NoFault)
    BY <1>3 DEF Working, Load, Stage, Embed, FailJob, Retry, LoseFinalization, FinalizeFailed,
                FinalizeInvalid, FinalizeIncremental, FinalizeFull
  <2> QED BY <2>1, StorageRests
<1>4. ASSUME NEW d \in DOMAIN documents, Cleanup(d) \/ CleanupFails(d)
      PROVE  StorageInv'
  BY <1>4, CleanupStorage
<1>5. CASE UNCHANGED vars
  <2>1. UNCHANGED <<client, library, faults>>
    BY <1>5 DEF vars, library
  <2> QED BY <2>1, StorageRests
<1> QED BY <1>2, <1>3, <1>4, <1>5 DEF Next, ClientStep

----------------------------------------------------------------------------
(* The theorems.                                                           *)

\* It holds in the beginning.
LEMMA StorageInit == ASSUME Init PROVE StorageInv
<1>1. PICK s \in Scenarios :
          /\ documents = [d \in DOMAIN s.documents |-> Row(s.documents[d])]
          /\ objects = DOMAIN s.documents /\ cleanups = {} /\ faults = 0 /\ unclean = {}
          /\ client = [c \in DOMAIN s.requests |-> Begun(s.requests[c])]
  BY DEF Init
<1>2. /\ DOMAIN s.documents \subseteq (Nat \ Clients) \X Nat
      /\ \A d \in DOMAIN s.documents : s.documents[d].hash \in DOMAIN SourceItems
      /\ DOMAIN s.requests \subseteq Clients /\ Clients \subseteq Nat \ {0} /\ MaxFaults \in Nat
      /\ \A c \in DOMAIN s.requests : Accepted(s.requests[c])
  BY KnowledgeBaseAssumption
<1>3. DOMAIN client = DOMAIN s.requests /\ DOMAIN documents = DOMAIN s.documents
      /\ \A c \in DOMAIN client : client[c] = Begun(s.requests[c])
  BY <1>1
<1>4. \A d \in DOMAIN documents : /\ DOMAIN documents[d] = DocumentFields
                                  /\ documents[d].hash = s.documents[d].hash
                                  /\ documents[d].deleted = FALSE
                                  /\ documents[d].enabled = TRUE /\ documents[d].archived = FALSE
  BY <1>1 DEF Row, DocumentFields
<1>5. ASSUME NEW request, Accepted(request)
      PROVE  /\ DOMAIN Begun(request) = ClientFields /\ Begun(request).request = request
             /\ Begun(request).pc = Entry[request.kind] /\ Begun(request).next = 1
             /\ Begun(request).items = <<>> /\ Begun(request).code = 0
             /\ Entry[request.kind] \in StagesOf[request.kind]
             /\ Entry[request.kind] \in {"file", "confirm", "delete", "govern", "token", "save",
                                         "reindex", "index"}
  <2>1. Entry[request.kind] \in StagesOf[request.kind]
        /\ Entry[request.kind] \in {"file", "confirm", "delete", "govern", "token", "save",
                                    "reindex", "index"}
    BY <1>5 DEF Entry, StagesOf, Accepted
  <2> QED BY <2>1 DEF Begun, ClientFields
<1>6. \A c \in DOMAIN client :
          /\ DOMAIN client[c] = ClientFields /\ Accepted(client[c].request)
          /\ client[c].pc \in StagesOf[client[c].request.kind]
          /\ client[c].pc \in {"file", "confirm", "delete", "govern", "token", "save", "reindex",
                               "index"}
          /\ client[c].next = 1 /\ client[c].items = <<>> /\ client[c].code = 0
  <2>1. SUFFICES ASSUME NEW c \in DOMAIN client
                 PROVE  /\ DOMAIN client[c] = ClientFields /\ Accepted(client[c].request)
                        /\ client[c].pc \in StagesOf[client[c].request.kind]
                        /\ client[c].pc \in {"file", "confirm", "delete", "govern", "token",
                                             "save", "reindex", "index"}
                        /\ client[c].next = 1 /\ client[c].items = <<>> /\ client[c].code = 0
    OBVIOUS
  <2> DEFINE request == s.requests[c]
  <2>2. Accepted(request) /\ client[c] = Begun(request)
    BY <1>2, <1>3
  <2> HIDE DEF request
  <2> QED BY <1>5, <2>2
<1>7. DocumentsOK
  <2>1. \A d \in (Nat \ Clients) \X Nat : d \in Nat \X Nat
    OBVIOUS
  <2>2. \A d \in DOMAIN documents : d \in Nat \X Nat
    BY <1>2, <1>3, <2>1
  <2> QED BY <1>2, <1>3, <1>4, <2>2 DEF DocumentsOK
<1>8. RequestInv
  <2>1. ASSUME NEW c \in DOMAIN client
        PROVE  ClientOK(c, client[c], documents)
    <3>1. IsSeq(client[c].items) /\ DOMAIN client[c].items = {}
      BY <1>6, EmptyIsSeq
    <3>2. client[c].next \in Nat \ {0} /\ client[c].code \in Nat
      BY <1>6
    <3> QED BY <1>6, <3>1, <3>2 DEF ClientOK
  <2>2. faults \in 0 .. MaxFaults
    BY <1>1, <1>2
  <2>3. DOMAIN client \subseteq Clients
    BY <1>2, <1>3
  <2> QED BY <1>7, <2>1, <2>2, <2>3 DEF RequestInv
<1>9. IdsAreFree
  BY <1>2, <1>3 DEF IdsAreFree
<1>10. UploadsKnowTheirObject
  BY <1>6 DEF UploadsKnowTheirObject
<1>11. CleanupsAreOfDeleted /\ ObjectsAreAttended /\ LiveHaveSources /\ FilesAreKnown
  BY <1>1, <1>3, <1>4 DEF CleanupsAreOfDeleted, ObjectsAreAttended, LiveHaveSources, FilesAreKnown,
                          Live
<1>12. UndoneSoFar
  BY <1>6 DEF UndoneSoFar
<1>13. DeletionsHaveReasons
  BY <1>4 DEF DeletionsHaveReasons
<1> QED BY <1>8, <1>9, <1>10, <1>11, <1>12, <1>13 DEF StorageInv

\* The invariant of requests and storage holds, for any clients, files and faults: what
\* an upload, a compensation, a deletion or a cleanup has begun is known to somebody.
THEOREM StorageInvariance == Spec => []StorageInv
<1>1. Init => StorageInv
  BY StorageInit
<1>2. StorageInv /\ [Next]_vars => StorageInv'
  BY StorageStep
<1> QED BY <1>1, <1>2, PTL DEF Spec

\* A live document has its source, and at rest an object has its live document, unless
\* a fault came between: upload_one, compensate_upload and the cleanup task keep
\* storage and database together.
THEOREM StorageKeepsUp == Spec => []SourcesMatchDocuments
<1>1. ASSUME StorageInv PROVE SourcesMatchDocuments
  <2>1. \A d \in DOMAIN documents : Live(d) => d \in objects \cup unclean
    BY <1>1 DEF StorageInv, LiveHaveSources, Live
  <2>2. ASSUME AtRest, NEW d \in objects
        PROVE  Live(d) \/ d \in unclean
    <3>1. \A c \in DOMAIN client : ~Attends(client[c], c, d)
      BY <2>2 DEF AtRest, Attends
    <3> QED BY <1>1, <2>2, <3>1 DEF StorageInv, ObjectsAreAttended, AtRest
  <2> QED BY <2>1, <2>2 DEF SourcesMatchDocuments
<1> QED BY <1>1, StorageInvariance, PTL

\* A failed ingest leaves none of the documents it created, and only a deletion or the
\* failed ingest that created it deletes a document (_compensate_uploads).
THEOREM IngestsUndo == Spec => []FailedIngestsUndoTheirOwn
<1>1. ASSUME StorageInv PROVE FailedIngestsUndoTheirOwn
  <2>1. ASSUME NEW c \in DOMAIN client, FailedIngest(c), client[c].pc = "done",
               NEW i \in DOMAIN client[c].items
        PROVE  \/ client[c].items[i].duplicate \/ ~Live(client[c].items[i].document)
               \/ client[c].items[i].document \in unclean
    BY <1>1, <2>1 DEF StorageInv, UndoneSoFar, FailedIngest, Request, Live
  <2>2. ASSUME NEW d \in DOMAIN documents, documents[d].deleted
        PROVE  \/ \E c \in DOMAIN client : Request(c).kind = "delete" /\ Request(c).document = d
               \/ d[1] \in DOMAIN client /\ FailedIngest(d[1])
    BY <1>1, <2>2 DEF StorageInv, DeletionsHaveReasons
  <2> QED BY <2>1, <2>2 DEF FailedIngestsUndoTheirOwn
<1> QED BY <1>1, StorageInvariance, PTL

(***************************************************************************)
(* Jobs, segments and revisions.                                           *)
(***************************************************************************)

----------------------------------------------------------------------------
(* Steps that change no segment.                                           *)

\* A part of a sequence with as many elements as the sequence has places is all
\* of it.
LEMMA AllOfThem ==
    ASSUME NEW ids, IsSeq(ids), NEW T \in SUBSET ToSet(ids), Cardinality(T) = Len(ids)
    PROVE  T = ToSet(ids)
<1> DEFINE S == ToSet(ids)
           n == Len(ids)
<1>1. ids \in Seq(S) /\ n \in Nat /\ DOMAIN ids = 1 .. n
  <2>1. ids \in Seq(S)
    BY DEF IsSeq
  <2> HIDE DEF S
  <2> QED BY <2>1
<1>2. ids \in [1 .. n -> S] /\ \A d \in S : \E i \in 1 .. n : ids[i] = d
  <2>1. ids \in [1 .. n -> S]
    <3> HIDE DEF S
    <3> QED BY <1>1
  <2>2. \A d \in S : \E i \in DOMAIN ids : ids[i] = d
    BY DEF ToSet
  <2> QED BY <1>1, <2>1, <2>2
<1>3. ids \in Surjection(1 .. n, S)
  BY <1>2 DEF Surjection
<1>4. IsFiniteSet(1 .. n) /\ Cardinality(1 .. n) = n
  <2>1. n \in Int /\ 1 \in Int
    BY <1>1
  <2>2. IsFiniteSet(1 .. n) /\ Cardinality(1 .. n) = IF 1 > n THEN 0 ELSE n - 1 + 1
    <3> HIDE DEF n
    <3> QED BY <2>1, FS_Interval
  <2> HIDE DEF n
  <2> QED BY <1>1, <2>2
<1>5. IsFiniteSet(S) /\ Cardinality(S) <= n
  <2> HIDE DEF S, n
  <2> QED BY <1>3, <1>4, FS_Surjection
<1>6. Cardinality(T) <= Cardinality(S) /\ (Cardinality(S) = Cardinality(T) => S = T)
  <2>1. T \in SUBSET S
    OBVIOUS
  <2> HIDE DEF S
  <2> QED BY <1>5, <2>1, FS_Subset
<1>7. Cardinality(S) \in Nat
  <2> HIDE DEF S
  <2> QED BY <1>5, FS_CardinalityType
<1> HIDE DEF S
<1> QED BY <1>1, <1>5, <1>6, <1>7 DEF S

\* What is gone stays gone.
GoneStays ==
    /\ Grows(documents, documents') /\ DOMAIN indexes \subseteq DOMAIN indexes'
    /\ \A i \in DOMAIN indexes : indexes[i] = "retired" => indexes'[i] = "retired"

\* The rows of a job that is not done with publishing.
Unfinished(job) == ~job.full /\ (job.row # "completed" \/ job.due \/ job.status # "completed")

\* A step of a job that changes no segment.
JobsMove ==
    /\ DOMAIN jobs \subseteq DOMAIN jobs'
    /\ \A j \in DOMAIN jobs :
           /\ jobs'[j].full = jobs[j].full /\ jobs'[j].target = jobs[j].target
           /\ jobs'[j].documents = jobs[j].documents
           /\ jobs'[j].row \in {"staged", "completed"} => jobs[j].row \in {"staged", "completed"}
           /\ jobs'[j].row = "completed" => jobs[j].row = "completed"
           /\ Unfinished(jobs'[j]) => Unfinished(jobs[j])
    /\ \A j \in DOMAIN jobs' \ DOMAIN jobs : jobs'[j].row = "pending"

\* Jobs that move without touching segments keep the invariant of the build.
LEMMA JobsMoved ==
    ASSUME BuildInv, JobsOK', GoneStays, JobsMove, UNCHANGED <<segments, mixed>>,
           vectors' \subseteq DOMAIN segments
    PROVE  BuildInv'
<1>1. \A id \in DOMAIN segments :
          /\ segments[id].job \in DOMAIN jobs /\ segments[id].index \in DOMAIN indexes
          /\ segments[id].document \in DOMAIN documents
  BY DEF BuildInv, JobsOK, JobOK, SegmentsOK, SegmentOK
<1>2. \A id \in DOMAIN segments :
          Gone(segments[id].document, segments[id].index)
              => Gone(segments[id].document, segments[id].index)'
  BY <1>1 DEF Gone, GoneStays, Grows
<1>3. SegmentsOK'
  BY <1>1 DEF BuildInv, SegmentsOK, SegmentOK, JobsMove
<1>4. OwnSegmentsOK'
  <2>1. \A j \in DOMAIN jobs : OwnSegments(j)' = OwnSegments(j)
    BY DEF OwnSegments
  <2> QED BY <2>1 DEF BuildInv, OwnSegmentsOK, JobsMove
<1>5. DeletedEarlyAreGone'
  BY <1>2 DEF BuildInv, DeletedEarlyAreGone, Gone
<1>6. StagedTogetherAreMixed'
  BY DEF BuildInv, StagedTogetherAreMixed, IsStaged, SameDocument
<1>7. PublishedEarlyAreMixed'
  <2>1. SUFFICES ASSUME NEW id \in DOMAIN segments, segments[id].status = "completed",
                        Unfinished(jobs'[segments[id].job])
                 PROVE  segments[id].document \in mixed
                            \/ Gone(segments[id].document, segments[id].index)'
    BY DEF PublishedEarlyAreMixed, Unfinished, Gone
  <2>2. Unfinished(jobs[segments[id].job])
    BY <1>1, <2>1 DEF JobsMove
  <2> QED BY <1>2, <2>1, <2>2 DEF BuildInv, PublishedEarlyAreMixed, Unfinished
<1>8. ShownIsOneBuild'
  BY DEF BuildInv, ShownIsOneBuild, SameDocument
<1> QED BY <1>3, <1>4, <1>5, <1>6, <1>7, <1>8 DEF BuildInv

\* One more job.
LEMMA JobAdded ==
    ASSUME IsSeq(jobs), NEW job, jobs' = Append(jobs, job)
    PROVE  /\ IsSeq(jobs') /\ NewJob \in Nat /\ NewJob \notin DOMAIN jobs
           /\ DOMAIN jobs' = DOMAIN jobs \cup {NewJob} /\ jobs'[NewJob] = job
           /\ \A j \in DOMAIN jobs : jobs'[j] = jobs[j]
<1>1. /\ IsSeq(jobs') /\ Len(jobs) \in Nat /\ DOMAIN jobs = 1 .. Len(jobs)
      /\ DOMAIN jobs' = 1 .. (Len(jobs) + 1)
      /\ \A j \in DOMAIN jobs : jobs'[j] = jobs[j]
      /\ jobs'[Len(jobs) + 1] = job
  BY OneMore
<1> QED BY <1>1 DEF NewJob

\* Documents that were there are still there.
LEMMA JobsKeep ==
    ASSUME JobsOK, Grows(documents, documents')
    PROVE  \A j \in DOMAIN jobs :
               /\ jobs[j].documents \subseteq DOMAIN documents'
               /\ ~jobs[j].full => \E d \in DOMAIN documents' : jobs[j].documents = {d}
BY DEF JobsOK, JobOK, Grows

\* A job that was just created disturbs no other.
LEMMA NewJobMoves ==
    ASSUME JobsOK, Grows(documents, documents'), NEW n, n = NewJob, NEW job,
           jobs' = Append(jobs, job), job.row = "pending",
           \A i \in DOMAIN indexes : indexes'[i] = indexes[i],
           DOMAIN indexes' = DOMAIN indexes \cup (IF job.full THEN {n} ELSE {}),
           job.full => indexes'[n] = "building",
           JobOK(n, job)'
    PROVE  /\ JobsOK' /\ GoneStays /\ JobsMove
           /\ DOMAIN jobs' = DOMAIN jobs \cup {n} /\ n \notin DOMAIN jobs /\ n \in Nat
           /\ jobs'[n] = job /\ \A j \in DOMAIN jobs : jobs'[j] = jobs[j]
<1>1. /\ IsSeq(jobs') /\ n \in Nat /\ n \notin DOMAIN jobs
      /\ DOMAIN jobs' = DOMAIN jobs \cup {n} /\ jobs'[n] = job
      /\ \A j \in DOMAIN jobs : jobs'[j] = jobs[j]
  BY JobAdded DEF JobsOK
<1>2. ASSUME NEW j \in DOMAIN jobs PROVE JobOK(j, jobs[j])'
  <2>1. JobOK(j, jobs[j]) /\ jobs'[j] = jobs[j]
    BY <1>1 DEF JobsOK
  <2>2. /\ jobs[j].documents \subseteq DOMAIN documents'
        /\ ~jobs[j].full => \E d \in DOMAIN documents' : jobs[j].documents = {d}
    BY JobsKeep
  <2>3. jobs[j].full => j \in DOMAIN indexes
    BY <2>1 DEF JobOK
  <2> QED BY <2>1, <2>2, <2>3 DEF JobOK
<1>3. JobOK(n, jobs[n])'
  BY <1>1 DEF JobOK
<1>4. DOMAIN indexes' = {j \in DOMAIN jobs' : jobs'[j].full}
  BY <1>1 DEF JobsOK
<1>5. \A i \in DOMAIN indexes' : indexes'[i] \in {"building", "active", "failed", "retired"}
  <2>1. \A i \in DOMAIN indexes' : i \in DOMAIN indexes \/ (job.full /\ i = n)
    OBVIOUS
  <2> QED BY <2>1 DEF JobsOK
<1>6. JobsOK'
  <2>1. \A j \in DOMAIN jobs' : JobOK(j, jobs[j])'
    BY <1>1, <1>2, <1>3
  <2> QED BY <1>1, <1>4, <1>5, <2>1 DEF JobsOK
<1>7. GoneStays
  BY DEF GoneStays
<1>8. JobsMove
  BY <1>1 DEF JobsMove, Unfinished
<1> QED BY <1>1, <1>6, <1>7, <1>8

\* A job that builds a new index.
LEMMA FullJobMoves ==
    ASSUME JobsOK, Grows(documents, documents'), NEW docs, docs \subseteq DOMAIN documents',
           FullJob(docs)
    PROVE  /\ JobsOK' /\ GoneStays /\ JobsMove
           /\ DOMAIN jobs' = DOMAIN jobs \cup {NewJob} /\ NewJob \notin DOMAIN jobs
           /\ \A j \in DOMAIN jobs : jobs'[j] = jobs[j]
           /\ \A i \in DOMAIN indexes : indexes'[i] = indexes[i]
           /\ jobs'[NewJob].version = 0
<1>1. PICK n : n = NewJob
  OBVIOUS
<1>0. PICK job : job = Job(TRUE, docs, n, 0, <<>>)
  OBVIOUS
<1>2. jobs' = Append(jobs, job) /\ indexes' = With(indexes, n, "building")
  BY <1>0, <1>1 DEF FullJob
<1>3. /\ DOMAIN job = JobFields /\ job.full = TRUE /\ job.documents = docs
      /\ job.target = n /\ job.version = 0 /\ job.items = <<>>
      /\ job.row = "pending" /\ job.status = "unfinished" /\ job.due = FALSE
  BY <1>0 DEF Job, JobFields
<1>4. n \notin DOMAIN indexes
  <2>1. n \notin DOMAIN jobs
    BY <1>1, <1>2, JobAdded DEF JobsOK
  <2> QED BY <2>1 DEF JobsOK
<1>5. /\ DOMAIN indexes' = DOMAIN indexes \cup {n} /\ indexes'[n] = "building"
      /\ \A i \in DOMAIN indexes : indexes'[i] = indexes[i]
  BY <1>2, <1>4 DEF With, Joined
<1>6. JobOK(n, job)'
  <2>1. job.full \in BOOLEAN /\ job.due \in BOOLEAN /\ job.version \in Nat
        /\ job.documents \subseteq DOMAIN documents' /\ job.target \in DOMAIN indexes'
    <3>1. job.full \in BOOLEAN /\ job.due \in BOOLEAN
      BY <1>3
    <3>2. job.version \in Nat
      BY <1>3
    <3>3. job.documents \subseteq DOMAIN documents'
      BY <1>3
    <3>4. job.target \in DOMAIN indexes'
      BY <1>3, <1>5
    <3> QED BY <3>1, <3>2, <3>3, <3>4
  <2>2. job.target = n /\ indexes'[n] = "building" /\ job.full /\ ~job.due
    BY <1>3, <1>5
  <2> QED BY <1>3, <2>1, <2>2 DEF JobOK
<1>7. /\ JobsOK' /\ GoneStays /\ JobsMove
      /\ DOMAIN jobs' = DOMAIN jobs \cup {n} /\ n \notin DOMAIN jobs /\ n \in Nat
      /\ jobs'[n] = job /\ \A j \in DOMAIN jobs : jobs'[j] = jobs[j]
  BY <1>1, <1>2, <1>3, <1>5, <1>6, NewJobMoves
<1> QED BY <1>1, <1>3, <1>5, <1>7

\* A job on one document, in an index that is active.
LEMMA IncrementalJobMoves ==
    ASSUME JobsOK, UNCHANGED <<documents, indexes>>, NEW d \in DOMAIN documents,
           NEW i \in Active, NEW version \in Nat, NEW items,
           version > 0 => items # <<>> /\ IsSeq(items),
           jobs' = Append(jobs, Job(FALSE, {d}, i, version, items))
    PROVE  /\ JobsOK' /\ GoneStays /\ JobsMove
           /\ DOMAIN jobs' = DOMAIN jobs \cup {NewJob} /\ NewJob \notin DOMAIN jobs
           /\ NewJob \in Nat
           /\ \A j \in DOMAIN jobs : jobs'[j] = jobs[j]
           /\ jobs'[NewJob] = Job(FALSE, {d}, i, version, items)
<1>1. PICK n : n = NewJob
  OBVIOUS
<1>0. PICK job : job = Job(FALSE, {d}, i, version, items)
  OBVIOUS
<1>2. jobs' = Append(jobs, job)
  BY <1>0
<1>3. /\ DOMAIN job = JobFields /\ job.full = FALSE /\ job.documents = {d}
      /\ job.target = i /\ job.version = version /\ job.items = items
      /\ job.row = "pending" /\ job.status = "unfinished" /\ job.due = FALSE
  BY <1>0 DEF Job, JobFields
<1>4. i \in DOMAIN indexes /\ indexes[i] = "active"
  BY DEF Active
<1>5. JobOK(n, job)'
  BY <1>3, <1>4 DEF JobOK
<1>6. Grows(documents, documents')
  BY DEF Grows
<1>7. /\ JobsOK' /\ GoneStays /\ JobsMove
      /\ DOMAIN jobs' = DOMAIN jobs \cup {n} /\ n \notin DOMAIN jobs /\ n \in Nat
      /\ jobs'[n] = job /\ \A j \in DOMAIN jobs : jobs'[j] = jobs[j]
  BY <1>1, <1>2, <1>3, <1>5, <1>6, NewJobMoves
<1> QED BY <1>0, <1>1, <1>3, <1>7

\* Jobs and indexes are only added.
JobsGrow ==
    /\ DOMAIN jobs \subseteq DOMAIN jobs' /\ DOMAIN indexes \subseteq DOMAIN indexes'
    /\ \A j \in DOMAIN jobs : jobs'[j] = jobs[j]
    /\ \A i \in DOMAIN indexes : indexes'[i] = indexes[i]
    /\ \A j \in DOMAIN jobs' \ DOMAIN jobs : jobs'[j].row = "pending"

\* Jobs that are only added move so.
LEMMA JobsGrown ==
    ASSUME JobsGrow, Grows(documents, documents')
    PROVE  GoneStays /\ JobsMove
BY DEF JobsGrow, GoneStays, JobsMove

\* So do jobs that do not move at all.
LEMMA JobsRest ==
    ASSUME JobsOK, UNCHANGED <<jobs, indexes>>, Grows(documents, documents')
    PROVE  JobsOK' /\ JobsGrow
<1>1. \A j \in DOMAIN jobs : JobOK(j, jobs[j])'
  BY JobsKeep DEF JobsOK, JobOK
<1> QED BY <1>1 DEF JobsOK, JobsGrow

\* What may be confirmed exists.
LEMMA ConfirmedAreThere ==
    ASSUME StorageInv, NEW c \in DOMAIN client, At(c, "confirm"), AllConfirmable(c)
    PROVE  ToSet(Confirmed(c)) \subseteq DOMAIN documents
<1> DEFINE s == client[c]
<1>1. ClientOK(c, s, documents) /\ s.request = Request(c) /\ s.pc = "confirm"
  BY DEF StorageInv, RequestInv, Request, At
<1>2. CASE Request(c).kind = "ingest"
  <2>1. \A i \in DOMAIN s.items : s.items[i].document \in DOMAIN documents
    BY <1>1 DEF ClientOK
  <2>2. Confirmed(c) = [i \in DOMAIN s.items |-> s.items[i].document]
    BY <1>2 DEF Confirmed
  <2> QED BY <2>1, <2>2 DEF ToSet
<1>3. CASE Request(c).kind # "ingest"
  <2>1. Request(c).kind = "configure"
    BY <1>1, <1>3, Stages DEF ClientOK, Accepted
  <2> DEFINE ids == Confirmed(c)
             T == {d \in ToSet(ids) : Live(d)}
  <2>2. IsSeq(ids)
    BY <1>1, <1>3, <2>1 DEF ClientOK, Accepted, Confirmed, IsSeq
  <2>3. T \in SUBSET ToSet(ids) /\ T \subseteq DOMAIN documents
    BY DEF Live
  <2>4. Cardinality(T) = Len(ids)
    BY DEF AllConfirmable
  <2>5. T = ToSet(ids)
    <3> HIDE DEF ids, T
    <3> QED BY <2>2, <2>3, <2>4, AllOfThem
  <2> HIDE DEF T
  <2> QED BY <2>3, <2>5
<1> QED BY <1>2, <1>3

\* A new index of what was confirmed.
LEMMA ConfirmedBuilds ==
    ASSUME StorageInv, JobsOK, NEW c \in DOMAIN client, At(c, "confirm"), AllConfirmable(c),
           FullJob(ToSet(Confirmed(c))), UNCHANGED documents
    PROVE  /\ JobsOK' /\ JobsGrow
           /\ \A j \in DOMAIN jobs' \ DOMAIN jobs : jobs'[j].version = 0
<1>1. PICK docs : docs = ToSet(Confirmed(c))
  OBVIOUS
<1>2. docs \subseteq DOMAIN documents' /\ Grows(documents, documents') /\ FullJob(docs)
  BY <1>1, ConfirmedAreThere DEF Grows
<1>3. /\ JobsOK' /\ GoneStays /\ JobsMove
      /\ DOMAIN jobs' = DOMAIN jobs \cup {NewJob} /\ NewJob \notin DOMAIN jobs
      /\ \A j \in DOMAIN jobs : jobs'[j] = jobs[j]
      /\ \A i \in DOMAIN indexes : indexes'[i] = indexes[i]
      /\ jobs'[NewJob].version = 0
  BY <1>2, FullJobMoves
<1> QED BY <1>3 DEF JobsGrow, JobsMove, GoneStays

\* The segments, vectors and revisions requests leave to the jobs.
BuildRests == UNCHANGED <<segments, vectors, unpublished, mixed>>

\* What requests other than the editor's do to jobs: at most a new full build.
LEMMA UploadingBuilds ==
    ASSUME StorageInv, JobsOK, Grows(documents, documents'), NEW c \in DOMAIN client,
           Uploading(c) \/ Governing(c) \/ Searching(c) \/ Die(c)
    PROVE  /\ JobsOK' /\ JobsGrow /\ BuildRests
           /\ \A j \in DOMAIN jobs' \ DOMAIN jobs : jobs'[j].version = 0
<1>1. CASE UNCHANGED <<jobs, indexes>> /\ BuildRests
  BY <1>1, JobsRest
<1>2. CASE /\ At(c, "confirm") /\ AllConfirmable(c) /\ FullJob(ToSet(Confirmed(c)))
           /\ UNCHANGED documents /\ BuildRests
  BY <1>2, ConfirmedBuilds
<1>3. CASE Uploading(c)
  <2>1. CASE Confirm(c)
    BY <1>1, <1>2, <2>1 DEF Confirm, library, BuildRests
  <2>2. CASE ConfirmFails(c)
    BY <1>1, <1>2, <2>2 DEF ConfirmFails, library, BuildRests
  <2>3. CASE ~Confirm(c) /\ ~ConfirmFails(c)
    BY <1>1, <1>3, <2>3 DEF Uploading, CheckFile, PutObject, PutFails, CreateDocument,
          CreateFails, UndoPut, FilesDone, Compensate, CompensateFails, RemoveCompensated,
          build, BuildRests
  <2> QED BY <2>1, <2>2, <2>3
<1>4. CASE Governing(c) \/ Searching(c) \/ Die(c)
  BY <1>1, <1>4, ZenonT(30) DEF Governing, Govern, Delete, DispatchCleanup, Searching, ReadIndex,
        SearchVectors, SearchFails, SearchKeywords, ReadRows, ReadParents, Die, build, BuildRests
<1> QED BY <1>3, <1>4

\* What the segment editor and a reindexing do to jobs: at most one more.
LEMMA RevisingBuilds ==
    ASSUME StorageInv, JobsOK, NEW c \in DOMAIN client, Revising(c),
           \A d \in DOMAIN documents : d \in DOMAIN revisions /\ Latest(d) \in Nat
    PROVE  JobsOK' /\ JobsGrow /\ BuildRests
<1> DEFINE d == Request(c).document
<1>1. UNCHANGED library /\ BuildRests /\ Grows(documents, documents') /\ UNCHANGED documents
  BY DEF Revising, ReadToken, ReadContent, Save, Reindex, build, BuildRests, library, Grows
<1>2. CASE UNCHANGED <<jobs, indexes>>
  BY <1>1, <1>2, JobsRest
<1>3. ASSUME Active # {}, Live(d), UNCHANGED indexes, NEW version \in Nat, NEW items,
             version > 0 => items # <<>> /\ IsSeq(items),
             jobs' = Append(jobs, Job(FALSE, {d}, CHOOSE i \in Active : TRUE, version, items))
      PROVE  JobsOK' /\ JobsGrow
  <2>1. PICK i \in Active : i = CHOOSE k \in Active : TRUE
    BY <1>3
  <2>2. PICK e \in DOMAIN documents : e = d
    BY <1>3 DEF Live
  <2>3. jobs' = Append(jobs, Job(FALSE, {e}, i, version, items))
    BY <1>3, <2>1, <2>2
  <2>4. /\ JobsOK' /\ GoneStays /\ JobsMove
        /\ DOMAIN jobs' = DOMAIN jobs \cup {NewJob} /\ NewJob \notin DOMAIN jobs
        /\ NewJob \in Nat
        /\ \A j \in DOMAIN jobs : jobs'[j] = jobs[j]
        /\ jobs'[NewJob] = Job(FALSE, {e}, i, version, items)
    BY <1>1, <1>3, <2>3, IncrementalJobMoves
  <2> QED BY <1>3, <2>4 DEF JobsGrow, JobsMove
<1>4. CASE Save(c)
  <2>1. CASE jobs' = jobs
    BY <1>2, <1>4, <2>1 DEF Save
  <2>2. CASE jobs' # jobs
    <3>1. /\ Live(d) /\ Active # {} /\ UNCHANGED indexes /\ At(c, "save")
          /\ jobs' = Append(jobs, Job(FALSE, {d}, CHOOSE i \in Active : TRUE,
                                       Latest(d) + 1, Request(c).items))
      BY <1>4, <2>2 DEF Save
    <3>2. Latest(d) + 1 \in Nat
      BY <3>1 DEF Live
    <3>3. Request(c).items # <<>> /\ IsSeq(Request(c).items)
      <4>1. ClientOK(c, client[c], documents)
        BY DEF StorageInv, RequestInv
      <4>2. Request(c).kind \in {"edit", "save"}
        BY <3>1, <4>1, Stages, SMTT(30) DEF ClientOK, Accepted, At, Request
      <4> QED BY <4>1, <4>2 DEF ClientOK, Accepted, Request, IsSeq
    <3> HIDE DEF d
    <3> QED BY <1>1, <1>3, <3>1, <3>2, <3>3
  <2> QED BY <2>1, <2>2
<1>5. CASE Reindex(c)
  <2>1. CASE UNCHANGED <<jobs, indexes>>
    BY <1>2, <2>1
  <2>2. CASE Live(d) /\ FullJob({d})
    <3>1. PICK docs : docs = {d}
      OBVIOUS
    <3>2. docs \subseteq DOMAIN documents' /\ FullJob(docs)
      BY <1>1, <2>2, <3>1 DEF Live
    <3>3. /\ JobsOK' /\ GoneStays /\ JobsMove
          /\ DOMAIN jobs' = DOMAIN jobs \cup {NewJob} /\ NewJob \notin DOMAIN jobs
          /\ \A j \in DOMAIN jobs : jobs'[j] = jobs[j]
          /\ \A i \in DOMAIN indexes : indexes'[i] = indexes[i]
      BY <1>1, <3>2, FullJobMoves
    <3> QED BY <1>1, <3>3 DEF JobsGrow, JobsMove, GoneStays
  <2>3. CASE /\ Live(d) /\ Active # {} /\ UNCHANGED indexes
             /\ jobs' = Append(jobs, Job(FALSE, {d}, CHOOSE i \in Active : TRUE, 0, <<>>))
    <3>1. 0 \in Nat /\ ~(0 > 0)
      OBVIOUS
    <3> HIDE DEF d
    <3> QED BY <1>1, <1>3, <2>3, <3>1
  <2> QED BY <1>5, <2>1, <2>2, <2>3 DEF Reindex
<1>6. CASE ReadToken(c) \/ ReadContent(c)
  BY <1>2, <1>6 DEF ReadToken, ReadContent, build
<1> QED BY <1>1, <1>4, <1>5, <1>6 DEF Revising

----------------------------------------------------------------------------
(* Steps of a job.                                                         *)

\* The same job in another state.
Proceeds(job, t) ==
    /\ DOMAIN t = JobFields /\ t.full = job.full /\ t.documents = job.documents
    /\ t.target = job.target /\ t.version = job.version /\ t.items = job.items
    /\ t.row \in {"pending", "loaded", "staged", "completed", "failed"}
    /\ t.status \in {"unfinished", "completed", "failed"} /\ t.due \in BOOLEAN
    /\ t.row \in {"completed", "failed"} \/ ~t.due

\* One job is set.
LEMMA JobSet ==
    ASSUME JobsOK, NEW j \in DOMAIN jobs, NEW t, SetJob(j, t)
    PROVE  /\ IsSeq(jobs') /\ DOMAIN jobs' = DOMAIN jobs /\ jobs'[j] = t
           /\ \A k \in DOMAIN jobs : k # j => jobs'[k] = jobs[k]
<1>1. IsSeq([jobs EXCEPT ![j] = t])
  BY OneChanged DEF JobsOK
<1> QED BY <1>1 DEF SetJob

\* Indexes of other jobs only change between active and retired.
IndexesProceed(j) ==
    /\ DOMAIN indexes' = DOMAIN indexes
    /\ \A i \in DOMAIN indexes :
           /\ indexes'[i] \in {"building", "active", "failed", "retired"}
           /\ indexes[i] \in {"active", "retired"} => indexes'[i] \in {"active", "retired"}
           /\ indexes[i] = "building" /\ i # j => indexes'[i] = "building"
           /\ indexes[i] = "retired" => indexes'[i] = "retired"

\* A job proceeds, and perhaps the index it builds.
LEMMA JobProceeds ==
    ASSUME JobsOK, NEW j \in DOMAIN jobs, NEW t, SetJob(j, t), Proceeds(jobs[j], t),
           UNCHANGED documents, IndexesProceed(j),
           t.full /\ (t.row \notin {"completed", "failed"} \/ t.due) => indexes'[j] = "building"
    PROVE  JobsOK' /\ GoneStays
<1>1. /\ IsSeq(jobs') /\ DOMAIN jobs' = DOMAIN jobs /\ jobs'[j] = t
      /\ \A k \in DOMAIN jobs : k # j => jobs'[k] = jobs[k]
  BY JobSet
<1>2. ASSUME NEW k \in DOMAIN jobs, k # j
      PROVE  JobOK(k, jobs[k])'
  <2>1. JobOK(k, jobs[k]) /\ jobs'[k] = jobs[k]
    BY <1>1, <1>2 DEF JobsOK
  <2> QED BY <1>2, <2>1 DEF JobOK, IndexesProceed
<1>3. JobOK(j, jobs[j])'
  <2>1. JobOK(j, jobs[j])
    BY DEF JobsOK
  <2> QED BY <1>1, <2>1 DEF JobOK, IndexesProceed, Proceeds
<1>4. DOMAIN indexes' = {k \in DOMAIN jobs' : jobs'[k].full}
  BY <1>1 DEF JobsOK, IndexesProceed, Proceeds
<1>5. JobsOK'
  <2>1. \A k \in DOMAIN jobs' : JobOK(k, jobs[k])'
    BY <1>1, <1>2, <1>3
  <2> QED BY <1>1, <1>4, <2>1 DEF JobsOK, IndexesProceed
<1>6. GoneStays
  BY DEF GoneStays, Grows, IndexesProceed
<1> QED BY <1>5, <1>6

\* A job that waits again, begins, fails or is done with.
Quiet(j) ==
    \/ Load(j) \/ Retry(j)
    \/ RowFails(j) /\ jobs[j].row \in {"loaded", "staged"}
    \/ LoseFinalization(j) \/ FinalizeFailed(j) \/ FinalizeInvalid(j)

\* A quiet step moves jobs without touching segments.
LEMMA QuietMoves ==
    ASSUME JobsOK, NEW j \in DOMAIN jobs, Quiet(j), UNCHANGED <<documents, indexes>>
    PROVE  /\ JobsOK' /\ GoneStays /\ JobsMove /\ Proceeds(jobs[j], jobs'[j])
           /\ DOMAIN jobs' = DOMAIN jobs
           /\ \A k \in DOMAIN jobs : k # j => jobs'[k] = jobs[k]
           /\ jobs[j].row # "completed" \/ jobs[j].due
<1>1. JobOK(j, jobs[j])
  BY DEF JobsOK
<1>2. ASSUME NEW t, SetJob(j, t), Proceeds(jobs[j], t),
             t.full /\ (t.row \notin {"completed", "failed"} \/ t.due)
                 => jobs[j].row \notin {"completed", "failed"} \/ jobs[j].due,
             t.row \in {"staged", "completed"} => t.row = jobs[j].row,
             jobs[j].row # "completed" \/ jobs[j].due
      PROVE  /\ JobsOK' /\ GoneStays /\ JobsMove /\ Proceeds(jobs[j], jobs'[j])
             /\ DOMAIN jobs' = DOMAIN jobs
             /\ \A k \in DOMAIN jobs : k # j => jobs'[k] = jobs[k]
             /\ jobs[j].row # "completed" \/ jobs[j].due
  <2>1. IndexesProceed(j)
    BY DEF IndexesProceed, JobsOK
  <2>2. t.full /\ (t.row \notin {"completed", "failed"} \/ t.due) => indexes'[j] = "building"
    BY <1>1, <1>2 DEF JobOK, Proceeds
  <2>3. JobsOK' /\ GoneStays
    BY <1>2, <2>1, <2>2, JobProceeds
  <2>4. /\ DOMAIN jobs' = DOMAIN jobs /\ jobs'[j] = t
        /\ \A k \in DOMAIN jobs : k # j => jobs'[k] = jobs[k]
    BY <1>2, JobSet
  <2>5. JobsMove
    BY <1>2, <2>4 DEF JobsMove, Proceeds, Unfinished
  <2> QED BY <1>2, <2>3, <2>4, <2>5
<1> DEFINE job == jobs[j]
<1>3. CASE Load(j)
  <2> DEFINE t == [job EXCEPT !.row = "loaded"]
  <2>1. SetJob(j, t) /\ job.row = "pending"
    BY <1>3 DEF Load
  <2>2. Proceeds(job, t) /\ t.row = "loaded"
    BY <1>1, <2>1 DEF JobOK, JobFields, Proceeds
  <2> HIDE DEF t
  <2> QED BY <1>2, <2>1, <2>2
<1>4. CASE RowFails(j) /\ job.row \in {"loaded", "staged"}
  <2> DEFINE t == [job EXCEPT !.row = "failed", !.status = "failed", !.due = TRUE]
  <2>1. SetJob(j, t)
    BY <1>4 DEF RowFails
  <2>2. Proceeds(job, t) /\ t.row = "failed"
    BY <1>1, <1>4 DEF JobOK, JobFields, Proceeds
  <2> HIDE DEF t
  <2> QED BY <1>2, <1>4, <2>1, <2>2
<1>5. CASE Retry(j)
  <2> DEFINE t == [job EXCEPT !.row = "pending", !.status = "unfinished", !.due = FALSE]
  <2>1. SetJob(j, t) /\ job.row = "failed" /\ ~job.full
    BY <1>5 DEF Retry
  <2>2. Proceeds(job, t) /\ t.row = "pending" /\ ~t.full
    BY <1>1, <2>1 DEF JobOK, JobFields, Proceeds
  <2> HIDE DEF t
  <2> QED BY <1>2, <2>1, <2>2
<1>6. CASE LoseFinalization(j)
  <2> DEFINE t == [job EXCEPT !.due = FALSE]
  <2>1. SetJob(j, t) /\ job.due
    BY <1>6 DEF LoseFinalization
  <2>2. Proceeds(job, t) /\ t.row = job.row /\ ~t.due
    BY <1>1, <2>1 DEF JobOK, JobFields, Proceeds
  <2> HIDE DEF t
  <2> QED BY <1>2, <2>1, <2>2
<1>7. CASE FinalizeFailed(j) \/ FinalizeInvalid(j)
  <2> DEFINE t == [job EXCEPT !.status = "failed", !.due = FALSE]
  <2>1. SetJob(j, t) /\ job.due
    BY <1>7 DEF FinalizeFailed, FinalizeInvalid, Finalized, Due
  <2>2. Proceeds(job, t) /\ t.row = job.row /\ ~t.due
    BY <1>1, <2>1 DEF JobOK, JobFields, Proceeds
  <2> HIDE DEF t
  <2> QED BY <1>2, <2>1, <2>2
<1> QED BY <1>3, <1>4, <1>5, <1>6, <1>7 DEF Quiet

----------------------------------------------------------------------------
(* Staging and embedding.                                                  *)

\* What joined rows are one by one.
LEMMA TogetherIs ==
    ASSUME NEW functions, NEW x \in DOMAIN Together(functions)
    PROVE  \E f \in functions : x \in DOMAIN f /\ Together(functions)[x] = f[x]
BY DEF Together

\* They are all there.
LEMMA TogetherHas ==
    ASSUME NEW functions, NEW f \in functions, NEW x \in DOMAIN f
    PROVE  x \in DOMAIN Together(functions)
BY DEF Together

\* A row job j stages for d.
StagedRow(j, index, d, id, row) ==
    /\ DOMAIN row = SegmentFields /\ row.document = d /\ row.index = index /\ row.job = j
    /\ id = Id(j, d, id[4])
    /\ row.parent = <<>> \/ row.parent = Id(j, d, row.parent[4])
    /\ row.status = "indexing" /\ row.deleted = FALSE /\ row.keyed = FALSE
    /\ row.ready \in BOOLEAN /\ (row.type = "parent" => row.ready)

\* The rows of the items of one document.
LEMMA StagingRows ==
    ASSUME NEW j, NEW index, NEW d, NEW items, NEW general \in BOOLEAN
    PROVE  /\ \A id \in DOMAIN Staging(j, index, d, items, general) :
                  StagedRow(j, index, d, id, Staging(j, index, d, items, general)[id])
           /\ \A i \in DOMAIN items :
                  Id(j, d, items[i].id) \in DOMAIN Staging(j, index, d, items, general)
           /\ general => \A id \in DOMAIN Staging(j, index, d, items, general) :
                  Staging(j, index, d, items, general)[id].ready
<1> DEFINE S == Staging(j, index, d, items, general)
<1>1. DOMAIN S = {Id(j, d, items[i].id) : i \in DOMAIN items}
  BY DEF Staging
<1>2. ASSUME NEW id \in DOMAIN S
      PROVE  StagedRow(j, index, d, id, S[id]) /\ (general => S[id].ready)
  <2>1. PICK item :
            item = items[CHOOSE i \in DOMAIN items : Id(j, d, items[i].id) = id]
    OBVIOUS
  <2>0. PICK ready \in BOOLEAN : ready = (general \/ item.type = "parent")
    OBVIOUS
  <2>2. S[id] = [document |-> d, index |-> index, job |-> j, type |-> item.type,
                 parent |-> IF item.parent = NoParent THEN <<>> ELSE Id(j, d, item.parent),
                 semantic |-> item.semantic, keyword |-> item.keyword, keyed |-> FALSE,
                 ready |-> ready, status |-> "indexing", deleted |-> FALSE]
    BY <1>1, <2>0, <2>1 DEF Staging
  <2>3. \A x : Id(j, d, x)[4] = x
    BY DEF Id
  <2>4. id = Id(j, d, id[4])
    BY <1>1, <2>3
  <2> DEFINE row == S[id]
  <2>5. /\ DOMAIN row = SegmentFields /\ row.document = d /\ row.index = index /\ row.job = j
        /\ row.status = "indexing" /\ row.deleted = FALSE /\ row.keyed = FALSE
    BY <2>2 DEF SegmentFields
  <2>6. row.parent = <<>> \/ row.parent = Id(j, d, row.parent[4])
    BY <2>2, <2>3
  <2>7. row.ready \in BOOLEAN /\ (row.type = "parent" => row.ready)
    <3>1. row.type = item.type /\ row.ready = ready
      BY <2>2
    <3> HIDE DEF row
    <3> QED BY <2>0, <3>1
  <2>8. general => row.ready
    <3>1. row.ready = ready
      BY <2>2
    <3> HIDE DEF row
    <3> QED BY <2>0, <3>1
  <2> HIDE DEF row
  <2> QED BY <2>4, <2>5, <2>6, <2>7, <2>8 DEF StagedRow, row
<1> QED BY <1>1, <1>2

\* The segments of an item are where there is an item.
LEMMA ItemsAreThere ==
    ASSUME StorageInv, JobsOK, NEW j \in DOMAIN jobs, NEW d \in jobs[j].documents
    PROVE  \E i : i \in DOMAIN ItemsOf(j, d)
<1>1. JobOK(j, jobs[j]) /\ d \in DOMAIN documents
  BY DEF JobsOK, JobOK
<1> DEFINE items == ItemsOf(j, d)
<1>2. items # <<>> /\ IsSeq(items)
  <2>1. CASE jobs[j].version > 0
    BY <1>1, <2>1 DEF JobOK, ItemsOf
  <2>2. CASE ~(jobs[j].version > 0)
    <3>1. documents[d].hash \in DOMAIN SourceItems
      BY <1>1 DEF StorageInv, RequestInv, DocumentsOK
    <3> QED BY <2>2, <3>1, KnowledgeBaseAssumption DEF ItemsOf, IsSeq
  <2> QED BY <2>1, <2>2
<1> HIDE DEF items
<1>3. 1 \in DOMAIN items
  <2> DEFINE S == ToSet(items)
  <2>1. items \in Seq(S) /\ items # <<>>
    BY <1>2 DEF IsSeq
  <2> HIDE DEF S
  <2> QED BY <2>1
<1> QED BY <1>3 DEF items

\* What a job stages.
Batch(j) ==
    Together({Staging(j, jobs[j].target, d, ItemsOf(j, d), technique = "economy") :
                 d \in jobs[j].documents})

\* The rows a job stages, for all its documents.
LEMMA BatchRows ==
    ASSUME StorageInv, JobsOK, NEW j \in DOMAIN jobs
    PROVE  /\ \A id \in DOMAIN Batch(j) :
                  \E d \in jobs[j].documents :
                      StagedRow(j, jobs[j].target, d, id, Batch(j)[id])
           /\ jobs[j].documents # {} => \E id : id \in DOMAIN Batch(j)
<1> DEFINE general == technique = "economy"
           rows(d) == Staging(j, jobs[j].target, d, ItemsOf(j, d), general)
           parts == {rows(d) : d \in jobs[j].documents}
<1>1. Batch(j) = Together(parts)
  BY DEF Batch
<1>2. \A d \in jobs[j].documents :
          /\ \A id \in DOMAIN rows(d) : StagedRow(j, jobs[j].target, d, id, rows(d)[id])
          /\ \E id : id \in DOMAIN rows(d)
  <2>1. SUFFICES ASSUME NEW d \in jobs[j].documents
                 PROVE  /\ \A id \in DOMAIN rows(d) :
                               StagedRow(j, jobs[j].target, d, id, rows(d)[id])
                        /\ \E id : id \in DOMAIN rows(d)
    OBVIOUS
  <2> DEFINE items == ItemsOf(j, d)
             target == jobs[j].target
  <2>2. general \in BOOLEAN /\ \E i : i \in DOMAIN items
    BY ItemsAreThere
  <2> HIDE DEF general, items, target
  <2>3. /\ \A id \in DOMAIN Staging(j, target, d, items, general) :
               StagedRow(j, target, d, id, Staging(j, target, d, items, general)[id])
        /\ \E id : id \in DOMAIN Staging(j, target, d, items, general)
    BY <2>2, StagingRows
  <2> QED BY <2>3 DEF items, target
<1> HIDE DEF rows
<1>3. ASSUME NEW id \in DOMAIN Batch(j)
      PROVE  \E d \in jobs[j].documents :
                 StagedRow(j, jobs[j].target, d, id, Batch(j)[id])
  <2>1. id \in DOMAIN Together(parts)
    BY <1>1, <1>3
  <2>2. \E f \in parts : id \in DOMAIN f /\ Together(parts)[id] = f[id]
    <3> HIDE DEF parts
    <3> QED BY <2>1, TogetherIs
  <2>3. PICK d \in jobs[j].documents : id \in DOMAIN rows(d) /\ Together(parts)[id] = rows(d)[id]
    BY <2>2
  <2> QED BY <1>1, <1>2, <2>3
<1>4. ASSUME NEW d \in jobs[j].documents
      PROVE  \E id : id \in DOMAIN Batch(j)
  <2>1. PICK id : id \in DOMAIN rows(d)
    BY <1>2
  <2>2. rows(d) \in parts
    OBVIOUS
  <2>3. id \in DOMAIN Together(parts)
    <3> HIDE DEF parts
    <3> QED BY <2>1, <2>2, TogetherHas
  <2> QED BY <1>1, <2>3
<1> QED BY <1>3, <1>4

\* A job finds its own segments by their ids.
LEMMA OwnIds ==
    ASSUME SegmentsOK, NEW id \in DOMAIN segments
    PROVE  segments[id].job = id[1]
BY DEF SegmentsOK, SegmentOK, Id

\* The rows a job has staged: new ones, and those of an earlier attempt.
LEMMA StagedBuild ==
    ASSUME StorageInv, BuildInv, NEW j \in DOMAIN jobs, jobs[j].row = "loaded",
           segments' = Joined(segments, Batch(j)),
           SetJob(j, [jobs[j] EXCEPT !.row = "staged"]),
           mixed' = mixed \cup {d \in jobs[j].documents : StagedBeside(j, d)},
           UNCHANGED <<documents, indexes, vectors>>
    PROVE  /\ BuildInv' /\ GoneStays /\ Proceeds(jobs[j], jobs'[j]) /\ jobs'[j].row = "staged"
           /\ DOMAIN jobs' = DOMAIN jobs /\ \A k \in DOMAIN jobs : k # j => jobs'[k] = jobs[k]
           /\ DOMAIN segments \subseteq DOMAIN segments'
           /\ \A id \in DOMAIN segments : segments'[id] = segments[id]
           /\ \A k \in DOMAIN jobs : k # j => OwnSegments(k)' = OwnSegments(k)
<1> DEFINE t == [jobs[j] EXCEPT !.row = "staged"]
           new == DOMAIN Batch(j) \ DOMAIN segments
<1>1. JobsOK /\ JobOK(j, jobs[j]) /\ SegmentsOK
  BY DEF BuildInv, JobsOK
<1>2. /\ Proceeds(jobs[j], t) /\ t.row = "staged"
      /\ \A job : job = jobs[j] => Unfinished(job) \/ job.full
  BY <1>1 DEF JobOK, JobFields, Proceeds, Unfinished
<1>3. JobsOK' /\ GoneStays
  <2>1. IndexesProceed(j)
    BY <1>1 DEF IndexesProceed, JobsOK
  <2>2. SetJob(j, t) /\ (t.full => indexes'[j] = "building")
    BY <1>1, <1>2 DEF JobOK, Proceeds
  <2> HIDE DEF t
  <2> QED BY <1>1, <1>2, <2>1, <2>2, JobProceeds
<1>4. /\ DOMAIN jobs' = DOMAIN jobs /\ jobs'[j] = t
      /\ \A k \in DOMAIN jobs : k # j => jobs'[k] = jobs[k]
  <2>1. SetJob(j, t)
    OBVIOUS
  <2> HIDE DEF t
  <2> QED BY <1>1, <2>1, JobSet
<1> HIDE DEF t
<1>5. \A k \in DOMAIN jobs :
          /\ jobs'[k].full = jobs[k].full /\ jobs'[k].target = jobs[k].target
          /\ jobs'[k].documents = jobs[k].documents
          /\ Unfinished(jobs'[k]) => Unfinished(jobs[k])
  BY <1>2, <1>4 DEF Proceeds, Unfinished
<1>6. /\ DOMAIN segments' = DOMAIN segments \cup new
      /\ \A id \in DOMAIN segments : segments'[id] = segments[id]
      /\ \A id \in new : \E d \in jobs[j].documents :
             StagedRow(j, jobs[j].target, d, id, segments'[id])
  BY <1>1, BatchRows DEF Joined
<1>7. \A id \in new : /\ segments'[id].job = j /\ segments'[id].index = jobs[j].target
                      /\ segments'[id].document \in jobs[j].documents
                      /\ segments'[id].status = "indexing" /\ segments'[id].deleted = FALSE
  BY <1>6 DEF StagedRow
<1>8. SegmentsOK'
  <2>1. ASSUME NEW id \in DOMAIN segments
        PROVE  SegmentOK(id, segments[id])'
    <3>1. SegmentOK(id, segments[id]) /\ segments'[id] = segments[id]
      BY <1>1, <1>6 DEF SegmentsOK
    <3> QED BY <1>4, <1>5, <3>1 DEF SegmentOK
  <2>2. ASSUME NEW id \in new
        PROVE  SegmentOK(id, segments[id])'
    <3>1. PICK d \in jobs[j].documents : StagedRow(j, jobs[j].target, d, id, segments'[id])
      BY <1>6
    <3>2. /\ segments'[id].document = d /\ segments'[id].job = j
          /\ segments'[id].index = jobs'[j].target /\ d \in jobs'[j].documents
          /\ j \in DOMAIN jobs'
      BY <1>4, <1>5, <3>1 DEF StagedRow
    <3>3. {segments'[id].ready, segments'[id].keyed, segments'[id].deleted} \subseteq BOOLEAN
      BY <3>1 DEF StagedRow
    <3> HIDE DEF new
    <3> QED BY <3>1, <3>2, <3>3 DEF SegmentOK, StagedRow
  <2> QED BY <1>1, <1>6, <2>1, <2>2 DEF SegmentsOK
<1>9. OwnSegmentsOK'
  <2>1. ASSUME NEW k \in DOMAIN jobs, k # j
        PROVE  OwnSegments(k)' = OwnSegments(k)
    BY <1>6, <1>7, <2>1 DEF OwnSegments
  <2>2. ASSUME ~jobs[j].full
        PROVE  OwnSegments(j)' # {}
    <3>1. jobs[j].documents # {}
      BY <1>1, <2>2 DEF JobOK
    <3>2. PICK id \in DOMAIN Batch(j) : TRUE
      BY <1>1, <3>1, BatchRows
    <3>3. id[1] = j
      <4>1. PICK d \in jobs[j].documents : StagedRow(j, jobs[j].target, d, id, Batch(j)[id])
        BY <1>1, BatchRows
      <4>2. id = Id(j, d, id[4])
        BY <4>1 DEF StagedRow
      <4> QED BY <4>2 DEF Id
    <3>4. id \in DOMAIN segments' /\ segments'[id].job = j
      BY <1>1, <1>6, <1>7, <3>2, <3>3, OwnIds
    <3> QED BY <3>4 DEF OwnSegments
  <2>3. \A k \in DOMAIN jobs : k # j =>
            /\ jobs[k].row \in {"staged", "completed"} /\ ~jobs[k].full => OwnSegments(k) # {}
            /\ jobs[k].row = "completed" => \A id \in OwnSegments(k) : segments[id].ready
    BY DEF BuildInv, OwnSegmentsOK
  <2>4. \A k \in DOMAIN jobs : \A id \in OwnSegments(k) : segments'[id] = segments[id]
    BY <1>6 DEF OwnSegments
  <2>5. ASSUME NEW k \in DOMAIN jobs
        PROVE  /\ jobs'[k].row \in {"staged", "completed"} /\ ~jobs'[k].full => OwnSegments(k)' # {}
               /\ jobs'[k].row = "completed" => \A id \in OwnSegments(k)' : segments'[id].ready
    <3>1. CASE k = j
      BY <1>2, <1>4, <1>5, <2>2, <3>1
    <3>2. CASE k # j
      BY <1>4, <2>1, <2>3, <2>4, <3>2
    <3> QED BY <3>1, <3>2
  <2> QED BY <1>4, <2>5 DEF OwnSegmentsOK
<1>10. \A id \in DOMAIN segments' : id \in DOMAIN segments \/ id \in new
  BY <1>6
<1> HIDE DEF new
<1>11. DeletedEarlyAreGone'
  BY <1>6, <1>7, <1>10 DEF BuildInv, DeletedEarlyAreGone, Gone
<1>12. StagedTogetherAreMixed'
  <2>1. ASSUME NEW a \in new, NEW b \in DOMAIN segments, IsStaged(b)',
               segments'[b].document = segments'[a].document,
               segments'[b].index = segments'[a].index, segments'[b].job # j
        PROVE  segments'[a].document \in mixed'
    BY <1>6, <1>7, <2>1 DEF IsStaged, StagedBeside
  <2>2. ASSUME NEW a \in DOMAIN segments', NEW b \in DOMAIN segments', IsStaged(a)', IsStaged(b)',
               segments'[b].document = segments'[a].document,
               segments'[b].index = segments'[a].index, segments'[a].job # segments'[b].job
        PROVE  segments'[a].document \in mixed'
    <3>1. CASE a \in DOMAIN segments /\ b \in DOMAIN segments
      BY <1>6, <2>2, <3>1 DEF BuildInv, StagedTogetherAreMixed, IsStaged, SameDocument
    <3>2. CASE a \in new /\ b \in DOMAIN segments
      BY <1>7, <2>1, <2>2, <3>2
    <3>3. CASE b \in new /\ a \in DOMAIN segments
      BY <1>7, <2>1, <2>2, <3>3
    <3>4. CASE a \in new /\ b \in new
      BY <1>7, <2>2, <3>4
    <3> QED BY <1>10, <3>1, <3>2, <3>3, <3>4
  <2> QED BY <2>2 DEF StagedTogetherAreMixed, SameDocument
<1>13. PublishedEarlyAreMixed'
  <2>1. SUFFICES ASSUME NEW id \in DOMAIN segments', segments'[id].status = "completed",
                        Unfinished(jobs'[segments'[id].job])
                 PROVE  segments'[id].document \in mixed'
                            \/ Gone(segments'[id].document, segments'[id].index)
    BY DEF PublishedEarlyAreMixed, Unfinished, Gone
  <2>2. id \in DOMAIN segments /\ segments'[id] = segments[id] /\ segments[id].job \in DOMAIN jobs
    BY <1>1, <1>6, <1>7, <1>10, <2>1 DEF SegmentsOK, SegmentOK
  <2>3. Unfinished(jobs[segments[id].job])
    BY <1>5, <2>1, <2>2
  <2> QED BY <2>1, <2>2, <2>3 DEF BuildInv, PublishedEarlyAreMixed, Unfinished
<1>14. ShownIsOneBuild'
  BY <1>6, <1>7, <1>10 DEF BuildInv, ShownIsOneBuild, SameDocument
<1>15. BuildInv'
  BY <1>3, <1>8, <1>9, <1>11, <1>12, <1>13, <1>14 DEF BuildInv
<1>16. \A k \in DOMAIN jobs : k # j => OwnSegments(k)' = OwnSegments(k)
  BY <1>6, <1>7, <1>10 DEF OwnSegments
<1> QED BY <1>2, <1>3, <1>4, <1>6, <1>15, <1>16

\* Segments keep their identity; what is ready, published or deleted stays so.
SegmentsKeep ==
    /\ DOMAIN segments' = DOMAIN segments
    /\ \A id \in DOMAIN segments :
           LET row == segments[id]
               new == segments'[id]
           IN  /\ DOMAIN new = DOMAIN row /\ new.document = row.document /\ new.index = row.index
               /\ new.job = row.job /\ new.type = row.type /\ new.parent = row.parent
               /\ new.ready \in BOOLEAN /\ new.keyed \in BOOLEAN /\ new.deleted \in BOOLEAN
               /\ new.status \in {"indexing", "completed"}
               /\ row.ready => new.ready
               /\ row.deleted => new.deleted
               /\ row.status = "completed" => new.status = "completed"

\* Jobs keep their identity.
JobsRemain ==
    /\ DOMAIN jobs' = DOMAIN jobs
    /\ \A j \in DOMAIN jobs :
           /\ jobs'[j].full = jobs[j].full /\ jobs'[j].target = jobs[j].target
           /\ jobs'[j].documents = jobs[j].documents
           /\ Unfinished(jobs'[j]) => Unfinished(jobs[j])

\* Segments that keep their identity are all right, and belong where they did.
LEMMA SegmentsKept ==
    ASSUME SegmentsOK, SegmentsKeep, JobsRemain, vectors' \subseteq DOMAIN segments
    PROVE  SegmentsOK' /\ \A j \in DOMAIN jobs : OwnSegments(j)' = OwnSegments(j)
<1>1. ASSUME NEW id \in DOMAIN segments
      PROVE  SegmentOK(id, segments[id])'
  <2>1. SegmentOK(id, segments[id])
    BY DEF SegmentsOK
  <2> QED BY <2>1 DEF SegmentOK, SegmentsKeep, JobsRemain
<1>2. DOMAIN segments' = DOMAIN segments
      /\ \A id \in DOMAIN segments : segments'[id].job = segments[id].job
  BY DEF SegmentsKeep
<1> QED BY <1>1, <1>2 DEF SegmentsOK, OwnSegments

\* What segments are made of.
LEMMA SegmentRows ==
    ASSUME JobsOK, SegmentsOK
    PROVE  \A id \in DOMAIN segments :
               /\ DOMAIN segments[id] = SegmentFields
               /\ segments[id].ready \in BOOLEAN /\ segments[id].keyed \in BOOLEAN
               /\ segments[id].deleted \in BOOLEAN
               /\ segments[id].status \in {"indexing", "completed"}
               /\ segments[id].job \in DOMAIN jobs
               /\ segments[id].index = jobs[segments[id].job].target
               /\ segments[id].index \in DOMAIN indexes
               /\ segments[id].document \in jobs[segments[id].job].documents
               /\ segments[id].document \in DOMAIN documents
               /\ segments[id].type = "parent" => segments[id].ready
<1>1. ASSUME NEW id \in DOMAIN segments
      PROVE  /\ segments[id].job \in DOMAIN jobs
             /\ segments[id].index = jobs[segments[id].job].target
             /\ segments[id].document \in jobs[segments[id].job].documents
  BY DEF SegmentsOK, SegmentOK
<1>2. \A j \in DOMAIN jobs :
          jobs[j].target \in DOMAIN indexes /\ jobs[j].documents \subseteq DOMAIN documents
  BY DEF JobsOK, JobOK
<1>3. ASSUME NEW id \in DOMAIN segments
      PROVE  /\ DOMAIN segments[id] = SegmentFields
             /\ segments[id].ready \in BOOLEAN /\ segments[id].keyed \in BOOLEAN
             /\ segments[id].deleted \in BOOLEAN
             /\ segments[id].status \in {"indexing", "completed"}
             /\ segments[id].type = "parent" => segments[id].ready
  BY DEF SegmentsOK, SegmentOK
<1> QED BY <1>1, <1>2, <1>3

\* The rows of segments that become ready.
LEMMA ReadyRows ==
    ASSUME JobsOK, SegmentsOK, NEW own \in SUBSET DOMAIN segments,
           segments' = [id \in DOMAIN segments |->
               IF id \in own THEN [segments[id] EXCEPT !.ready = TRUE, !.keyed = TRUE]
               ELSE segments[id]]
    PROVE  /\ SegmentsKeep
           /\ \A id \in DOMAIN segments : /\ segments'[id].status = segments[id].status
                                          /\ segments'[id].deleted = segments[id].deleted
           /\ \A id \in own : segments'[id].ready
<1>2. \A id \in own :
          LET row == segments[id]
              new == segments'[id]
          IN  /\ DOMAIN new = DOMAIN row /\ new.document = row.document /\ new.index = row.index
              /\ new.job = row.job /\ new.type = row.type /\ new.parent = row.parent
              /\ new.ready = TRUE /\ new.keyed = TRUE /\ new.deleted = row.deleted
              /\ new.status = row.status
  <2>1. SUFFICES ASSUME NEW id \in own
                 PROVE  LET row == segments[id]
                            new == segments'[id]
                        IN  /\ DOMAIN new = DOMAIN row /\ new.document = row.document
                            /\ new.index = row.index /\ new.job = row.job /\ new.type = row.type
                            /\ new.parent = row.parent /\ new.ready = TRUE /\ new.keyed = TRUE
                            /\ new.deleted = row.deleted /\ new.status = row.status
    OBVIOUS
  <2>2. PICK row : row = segments[id]
    OBVIOUS
  <2>3. PICK new : new = [row EXCEPT !.ready = TRUE, !.keyed = TRUE]
    OBVIOUS
  <2>4. segments'[id] = new
    BY <2>2, <2>3
  <2>5. DOMAIN row = SegmentFields
    BY <2>2, SegmentRows
  <2>6. /\ DOMAIN new = DOMAIN row /\ new.document = row.document /\ new.index = row.index
        /\ new.job = row.job /\ new.type = row.type /\ new.parent = row.parent
        /\ new.ready = TRUE /\ new.keyed = TRUE /\ new.deleted = row.deleted
        /\ new.status = row.status
    BY ONLY <2>3, <2>5 DEF SegmentFields
  <2> QED BY ONLY <2>2, <2>4, <2>6
<1>3. /\ DOMAIN segments' = DOMAIN segments
      /\ \A id \in DOMAIN segments \ own : segments'[id] = segments[id]
  OBVIOUS
<1>4. ASSUME NEW id \in DOMAIN segments
      PROVE  LET row == segments[id]
                 new == segments'[id]
             IN  /\ DOMAIN new = DOMAIN row /\ new.document = row.document
                 /\ new.index = row.index /\ new.job = row.job /\ new.type = row.type
                 /\ new.parent = row.parent
                 /\ new.ready \in BOOLEAN /\ new.keyed \in BOOLEAN /\ new.deleted \in BOOLEAN
                 /\ new.status \in {"indexing", "completed"} /\ (row.ready => new.ready)
                 /\ new.deleted = row.deleted /\ new.status = row.status
  <2>1. /\ segments[id].ready \in BOOLEAN /\ segments[id].keyed \in BOOLEAN
        /\ segments[id].deleted \in BOOLEAN
        /\ segments[id].status \in {"indexing", "completed"}
    BY SegmentRows
  <2>2. CASE id \in own
    BY ONLY <1>2, <2>1, <2>2
  <2>3. CASE id \notin own
    BY ONLY <1>3, <2>1, <2>3, id \in DOMAIN segments
  <2> QED BY <2>2, <2>3
<1> QED BY ONLY <1>2, <1>3, <1>4, own \in SUBSET DOMAIN segments DEF SegmentsKeep

\* The job is done, its segments are ready.
LEMMA EmbeddedBuild ==
    ASSUME BuildInv, NEW j \in DOMAIN jobs, jobs[j].row = "staged", SegmentsKeep,
           \A id \in DOMAIN segments : /\ segments'[id].status = segments[id].status
                                       /\ segments'[id].deleted = segments[id].deleted,
           \A id \in OwnSegments(j) : segments[id].type # "parent" => segments'[id].ready,
           SetJob(j, [jobs[j] EXCEPT !.row = "completed", !.status = "completed", !.due = TRUE]),
           vectors' \subseteq DOMAIN segments, UNCHANGED <<documents, indexes, mixed>>
    PROVE  /\ BuildInv' /\ JobsRemain /\ GoneStays /\ Proceeds(jobs[j], jobs'[j])
           /\ jobs'[j].row = "completed" /\ jobs'[j].due
           /\ \A k \in DOMAIN jobs : k # j => jobs'[k] = jobs[k]
<1> DEFINE t == [jobs[j] EXCEPT !.row = "completed", !.status = "completed", !.due = TRUE]
<1>1. JobsOK /\ JobOK(j, jobs[j]) /\ SegmentsOK
  BY DEF BuildInv, JobsOK
<1>2. /\ Proceeds(jobs[j], t) /\ t.row = "completed" /\ t.due
      /\ \A job : job = jobs[j] => job.full \/ Unfinished(job)
  BY <1>1 DEF JobOK, JobFields, Proceeds, Unfinished
<1>3. JobsOK' /\ GoneStays
  <2>1. IndexesProceed(j)
    BY <1>1 DEF IndexesProceed, JobsOK
  <2>2. SetJob(j, t) /\ (t.full => indexes'[j] = "building")
    BY <1>1, <1>2 DEF JobOK, Proceeds
  <2> HIDE DEF t
  <2> QED BY <1>1, <1>2, <2>1, <2>2, JobProceeds
<1>4. /\ DOMAIN jobs' = DOMAIN jobs /\ jobs'[j] = t
      /\ \A k \in DOMAIN jobs : k # j => jobs'[k] = jobs[k]
  <2>1. SetJob(j, t)
    OBVIOUS
  <2> HIDE DEF t
  <2> QED BY <1>1, <2>1, JobSet
<1> HIDE DEF t
<1>5. JobsRemain
  BY <1>2, <1>4 DEF JobsRemain, Proceeds, Unfinished
<1>6. DOMAIN segments' = DOMAIN segments
  BY DEF SegmentsKeep
<1>7. SegmentsOK' /\ \A k \in DOMAIN jobs : OwnSegments(k)' = OwnSegments(k)
  BY <1>1, <1>5, SegmentsKept
<1>8. \A id \in DOMAIN segments :
          /\ segments'[id].document = segments[id].document /\ segments'[id].job = segments[id].job
          /\ segments'[id].index = segments[id].index
          /\ segments[id].ready => segments'[id].ready
  BY DEF SegmentsKeep
<1>9. OwnSegmentsOK'
  <2>1. \A id \in OwnSegments(j) : segments'[id].ready
    BY <1>1, <1>8, SegmentRows DEF OwnSegments
  <2>2. \A k \in DOMAIN jobs : k # j =>
            /\ jobs'[k] = jobs[k]
            /\ jobs[k].row \in {"staged", "completed"} /\ ~jobs[k].full => OwnSegments(k) # {}
            /\ jobs[k].row = "completed" => \A id \in OwnSegments(k) : segments[id].ready
    BY <1>4 DEF BuildInv, OwnSegmentsOK
  <2>3. ~jobs[j].full => OwnSegments(j) # {}
    BY DEF BuildInv, OwnSegmentsOK
  <2>4. \A k \in DOMAIN jobs : \A id \in OwnSegments(k) : segments[id].ready => segments'[id].ready
    BY <1>8 DEF OwnSegments
  <2>5. jobs'[j].full = jobs[j].full
    BY <1>5 DEF JobsRemain
  <2>6. ASSUME NEW k \in DOMAIN jobs
        PROVE  /\ jobs'[k].row \in {"staged", "completed"} /\ ~jobs'[k].full => OwnSegments(k) # {}
               /\ jobs'[k].row = "completed" => \A id \in OwnSegments(k) : segments'[id].ready
    <3>1. CASE k = j
      BY <2>1, <2>3, <2>5, <3>1
    <3>2. CASE k # j
      BY <2>2, <2>4, <3>2
    <3> QED BY <3>1, <3>2
  <2> QED BY <1>4, <1>7, <2>6 DEF OwnSegmentsOK
<1>10. DeletedEarlyAreGone'
  BY <1>6, <1>8 DEF BuildInv, DeletedEarlyAreGone, Gone
<1>11. StagedTogetherAreMixed' /\ ShownIsOneBuild'
  BY <1>6, <1>8 DEF BuildInv, StagedTogetherAreMixed, IsStaged, SameDocument, ShownIsOneBuild
<1>12. PublishedEarlyAreMixed'
  <2>1. SUFFICES ASSUME NEW id \in DOMAIN segments', segments'[id].status = "completed",
                        Unfinished(jobs'[segments'[id].job])
                 PROVE  segments'[id].document \in mixed
                            \/ Gone(segments'[id].document, segments'[id].index)
    BY DEF PublishedEarlyAreMixed, Unfinished, Gone
  <2>2. segments[id].job \in DOMAIN jobs
    BY <1>1, <1>6, SegmentRows
  <2>3. id \in DOMAIN segments /\ segments[id].status = "completed"
        /\ Unfinished(jobs[segments[id].job])
    BY <1>5, <1>6, <1>8, <2>1, <2>2 DEF JobsRemain
  <2> QED BY <1>8, <2>3 DEF BuildInv, PublishedEarlyAreMixed, Unfinished
<1>13. BuildInv'
  BY <1>3, <1>7, <1>9, <1>10, <1>11, <1>12 DEF BuildInv
<1> QED BY <1>2, <1>3, <1>4, <1>5, <1>13

----------------------------------------------------------------------------
(* Publication and cleanup.                                                *)

\* The rows of segments that are deleted or published.
LEMMA UpdatedRows ==
    ASSUME JobsOK, SegmentsOK, NEW gone, NEW published, segments' = Updated(gone, published)
    PROVE  /\ SegmentsKeep
           /\ \A id \in DOMAIN segments :
                  /\ segments'[id].ready = segments[id].ready
                  /\ id \in gone => segments'[id].deleted /\ segments'[id].status = segments[id].status
                  /\ id \notin gone => segments'[id].deleted = segments[id].deleted
                  /\ id \in published \ gone => segments'[id].status = "completed"
                  /\ id \notin published => segments'[id].status = segments[id].status
<1>1. DOMAIN segments' = DOMAIN segments
  BY DEF Updated
<1>2. ASSUME NEW id \in DOMAIN segments
      PROVE  LET row == segments[id]
                 new == segments'[id]
             IN  /\ DOMAIN new = DOMAIN row /\ new.document = row.document
                 /\ new.index = row.index /\ new.job = row.job /\ new.type = row.type
                 /\ new.parent = row.parent /\ new.ready = row.ready /\ new.keyed = row.keyed
                 /\ id \in gone => new.deleted = TRUE /\ new.status = row.status
                 /\ id \notin gone => new.deleted = row.deleted
                 /\ id \in published \ gone => new.status = "completed"
                 /\ id \notin published => new.status = row.status
  <2>1. PICK row : row = segments[id]
    OBVIOUS
  <2>2. PICK new : new = segments'[id]
    OBVIOUS
  <2>3. new = IF id \in gone THEN [row EXCEPT !.deleted = TRUE]
              ELSE IF id \in published THEN [row EXCEPT !.status = "completed"]
              ELSE row
    BY <2>1, <2>2 DEF Updated
  <2>4. DOMAIN row = SegmentFields
    BY <2>1, SegmentRows
  <2>5. /\ DOMAIN new = DOMAIN row /\ new.document = row.document
        /\ new.index = row.index /\ new.job = row.job /\ new.type = row.type
        /\ new.parent = row.parent /\ new.ready = row.ready /\ new.keyed = row.keyed
        /\ id \in gone => new.deleted = TRUE /\ new.status = row.status
        /\ id \notin gone => new.deleted = row.deleted
        /\ id \in published \ gone => new.status = "completed"
        /\ id \notin published => new.status = row.status
    <3>1. CASE id \in gone
      BY ONLY <2>3, <2>4, <3>1 DEF SegmentFields
    <3>2. CASE id \notin gone /\ id \in published
      BY ONLY <2>3, <2>4, <3>2 DEF SegmentFields
    <3>3. CASE id \notin gone /\ id \notin published
      BY ONLY <2>3, <2>4, <3>3 DEF SegmentFields
    <3> QED BY <3>1, <3>2, <3>3
  <2> QED BY ONLY <2>1, <2>2, <2>5
<1>3. \A id \in DOMAIN segments :
          /\ segments[id].ready \in BOOLEAN /\ segments[id].keyed \in BOOLEAN
          /\ segments[id].deleted \in BOOLEAN
          /\ segments[id].status \in {"indexing", "completed"}
  BY SegmentRows
<1>4. ASSUME NEW id \in DOMAIN segments
      PROVE  LET row == segments[id]
                 new == segments'[id]
             IN  /\ new.ready \in BOOLEAN /\ new.keyed \in BOOLEAN /\ new.deleted \in BOOLEAN
                 /\ new.status \in {"indexing", "completed"}
                 /\ row.deleted => new.deleted
                 /\ row.status = "completed" => new.status = "completed"
  <2>1. CASE id \in gone
    BY ONLY <1>2, <1>3, <2>1, id \in DOMAIN segments
  <2>2. CASE id \notin gone /\ id \in published
    BY ONLY <1>2, <1>3, <2>2, id \in DOMAIN segments
  <2>3. CASE id \notin gone /\ id \notin published
    BY ONLY <1>2, <1>3, <2>3, id \in DOMAIN segments
  <2> QED BY <2>1, <2>2, <2>3
<1>5. SegmentsKeep
  BY ONLY <1>1, <1>2, <1>4 DEF SegmentsKeep
<1> QED BY ONLY <1>2, <1>5

\* Gone after the step.
GoneThen(d, index) == documents'[d].deleted \/ indexes'[index] = "retired"

\* Segments change, jobs keep their identity and their rows: what must be
\* looked at is what is deleted or published.
LEMMA SegmentsMoved ==
    ASSUME BuildInv, JobsOK', GoneStays, JobsRemain, SegmentsKeep, UNCHANGED <<vectors, mixed>>,
           \A j \in DOMAIN jobs : jobs'[j].row = jobs[j].row,
           \A id \in DOMAIN segments :
               segments'[id].deleted /\ segments'[id].status = "indexing" =>
                   segments[id].deleted \/ GoneThen(segments[id].document, segments[id].index),
           \A id \in DOMAIN segments :
               (/\ segments'[id].status = "completed" /\ segments[id].status # "completed"
                /\ Unfinished(jobs'[segments[id].job])) =>
                   \/ segments[id].document \in mixed
                   \/ GoneThen(segments[id].document, segments[id].index),
           ShownIsOneBuild'
    PROVE  BuildInv'
<1>1. JobsOK /\ SegmentsOK /\ DOMAIN segments' = DOMAIN segments /\ vectors' \subseteq DOMAIN segments
  BY DEF BuildInv, SegmentsOK, SegmentsKeep
<1>2. SegmentsOK' /\ \A j \in DOMAIN jobs : OwnSegments(j)' = OwnSegments(j)
  BY <1>1, SegmentsKept
<1>3. \A id \in DOMAIN segments :
          /\ segments'[id].document = segments[id].document /\ segments'[id].job = segments[id].job
          /\ segments'[id].index = segments[id].index
          /\ segments[id].ready => segments'[id].ready
          /\ segments[id].deleted => segments'[id].deleted
          /\ segments[id].status = "completed" => segments'[id].status = "completed"
          /\ segments'[id].status \in {"indexing", "completed"}
          /\ segments[id].status \in {"indexing", "completed"}
          /\ segments[id].job \in DOMAIN jobs
  BY <1>1, SegmentRows DEF SegmentsKeep
<1>4. \A id \in DOMAIN segments :
          Gone(segments[id].document, segments[id].index)
              => GoneThen(segments[id].document, segments[id].index)
  BY <1>1, SegmentRows DEF Gone, GoneThen, GoneStays, Grows
<1>5. OwnSegmentsOK'
  BY <1>2, <1>3 DEF BuildInv, OwnSegmentsOK, JobsRemain, OwnSegments
<1>6. DeletedEarlyAreGone'
  <2>1. ASSUME NEW id \in DOMAIN segments, segments'[id].deleted, segments'[id].status = "indexing"
        PROVE  GoneThen(segments[id].document, segments[id].index)
    BY <1>3, <1>4, <2>1 DEF BuildInv, DeletedEarlyAreGone
  <2> QED BY <1>1, <1>3, <2>1 DEF DeletedEarlyAreGone, Gone, GoneThen
<1>7. StagedTogetherAreMixed'
  BY <1>1, <1>3 DEF BuildInv, StagedTogetherAreMixed, IsStaged, SameDocument
<1>8. PublishedEarlyAreMixed'
  <2>1. ASSUME NEW id \in DOMAIN segments, segments'[id].status = "completed",
               Unfinished(jobs'[segments[id].job])
        PROVE  \/ segments[id].document \in mixed
               \/ GoneThen(segments[id].document, segments[id].index)
    <3>1. CASE segments[id].status = "completed"
      <4>1. Unfinished(jobs[segments[id].job])
        BY <1>3, <2>1 DEF JobsRemain
      <4> QED BY <1>4, <3>1, <4>1 DEF BuildInv, PublishedEarlyAreMixed, Unfinished
    <3>2. CASE segments[id].status # "completed"
      BY <2>1, <3>2
    <3> QED BY <3>1, <3>2
  <2> QED BY <1>1, <1>3, <2>1 DEF PublishedEarlyAreMixed, Unfinished, Gone, GoneThen
<1> QED BY <1>2, <1>5, <1>6, <1>7, <1>8 DEF BuildInv

\* A cleanup deletes the segments of a document that is deleted.
LEMMA CleanedBuild ==
    ASSUME BuildInv, CleanupsAreOfDeleted, NEW d, Cleanup(d)
    PROVE  BuildInv' /\ SegmentsKeep
<1> DEFINE gone == {id \in DOMAIN segments : segments[id].document = d}
<1>1. /\ documents[d].deleted /\ segments' = Updated(gone, {})
      /\ UNCHANGED <<documents, indexes, jobs, vectors, mixed>>
  BY DEF Cleanup, CleanupsAreOfDeleted
<1>2. JobsOK /\ SegmentsOK
  BY DEF BuildInv
<1>3. /\ SegmentsKeep
      /\ \A id \in DOMAIN segments :
             /\ segments'[id].status = segments[id].status
             /\ id \notin gone => segments'[id].deleted = segments[id].deleted
  <2> HIDE DEF gone
  <2> QED BY <1>1, <1>2, UpdatedRows
<1>4. JobsOK' /\ GoneStays /\ JobsRemain
  BY <1>1, <1>2 DEF JobsOK, JobOK, GoneStays, Grows, JobsRemain, Unfinished
<1>5. \A id \in DOMAIN segments :
          segments'[id].deleted /\ segments'[id].status = "indexing" =>
              segments[id].deleted \/ GoneThen(segments[id].document, segments[id].index)
  BY <1>1, <1>3 DEF GoneThen
<1>6. ShownIsOneBuild'
  BY <1>1, <1>3 DEF SegmentsKeep, BuildInv, ShownIsOneBuild, SameDocument
<1> QED BY <1>1, <1>3, <1>4, <1>5, <1>6, SegmentsMoved

\* A job whose row stays is finalized.
LEMMA FinalizedJob ==
    ASSUME JobsOK, NEW j \in DOMAIN jobs, NEW status \in {"completed", "failed"},
           Finalized(j, status), jobs[j].row \in {"completed", "failed"}, jobs[j].due,
           UNCHANGED documents, IndexesProceed(j)
    PROVE  /\ JobsOK' /\ GoneStays /\ JobsRemain /\ Proceeds(jobs[j], jobs'[j])
           /\ jobs'[j].row = jobs[j].row /\ jobs'[j].status = status /\ ~jobs'[j].due
           /\ \A k \in DOMAIN jobs : k # j => jobs'[k] = jobs[k]
<1> DEFINE t == [jobs[j] EXCEPT !.status = status, !.due = FALSE]
<1>1. JobOK(j, jobs[j])
  BY DEF JobsOK
<1>2. Proceeds(jobs[j], t) /\ t.row = jobs[j].row /\ t.status = status /\ ~t.due
      /\ \A job : job = jobs[j] => job.full \/ Unfinished(job)
  BY <1>1 DEF JobOK, JobFields, Proceeds, Unfinished
<1>3. SetJob(j, t)
  BY DEF Finalized
<1> HIDE DEF t
<1>4. JobsOK' /\ GoneStays
  BY <1>2, <1>3, JobProceeds
<1>5. /\ DOMAIN jobs' = DOMAIN jobs /\ jobs'[j] = t
      /\ \A k \in DOMAIN jobs : k # j => jobs'[k] = jobs[k]
  BY <1>3, JobSet
<1>6. JobsRemain
  BY <1>2, <1>5 DEF JobsRemain, Proceeds, Unfinished
<1> QED BY <1>2, <1>4, <1>5, <1>6

\* An incremental job that is finalized publishes what it staged.
LEMMA PublishedBuild ==
    ASSUME BuildInv, NEW j \in DOMAIN jobs, FinalizeIncremental(j)
    PROVE  /\ BuildInv' /\ SegmentsKeep
           /\ \A d \in jobs[j].documents :
                  \/ Gone(d, jobs[j].target)
                  \/ \A id \in OwnSegments(j) : segments'[id].status = "completed"
           /\ JobsRemain /\ GoneStays
           /\ jobs'[j].row = jobs[j].row /\ jobs'[j].status = "completed" /\ ~jobs'[j].due
           /\ Proceeds(jobs[j], jobs'[j])
           /\ \A k \in DOMAIN jobs : k # j => jobs'[k] = jobs[k]
<1>1. /\ jobs[j].due /\ jobs[j].row = "completed" /\ ~jobs[j].full
      /\ segments' = Updated(Replaced(j), Staged(j)) /\ Finalized(j, "completed")
      /\ UNCHANGED <<documents, indexes, vectors, mixed>>
  BY DEF FinalizeIncremental, Due, library
<1>2. JobsOK /\ SegmentsOK /\ JobOK(j, jobs[j])
  BY DEF BuildInv, JobsOK
<1>3. IndexesProceed(j)
  BY <1>1, <1>2 DEF IndexesProceed, JobsOK
<1>4. /\ JobsOK' /\ GoneStays /\ JobsRemain /\ Proceeds(jobs[j], jobs'[j])
      /\ jobs'[j].row = jobs[j].row /\ jobs'[j].status = "completed" /\ ~jobs'[j].due
      /\ \A k \in DOMAIN jobs : k # j => jobs'[k] = jobs[k]
  BY <1>1, <1>2, <1>3, FinalizedJob
<1>5. PICK d \in DOMAIN documents : jobs[j].documents = {d}
  BY <1>1, <1>2 DEF JobOK
<1> DEFINE index == jobs[j].target
<1>6. /\ \A id : id \in Replaced(j) <=>
             /\ id \in DOMAIN segments /\ segments[id].index = index /\ segments[id].document = d
             /\ ~segments[id].deleted /\ segments[id].status = "completed"
      /\ \A id : id \in Staged(j) <=>
             /\ id \in DOMAIN segments /\ segments[id].index = index /\ segments[id].document = d
             /\ IsStaged(id)
  BY <1>5 DEF Replaced, Staged, InTarget, IsStaged
<1>7. /\ SegmentsKeep
      /\ \A id \in DOMAIN segments :
             /\ id \in Replaced(j) => segments'[id].deleted /\ segments'[id].status = segments[id].status
             /\ id \notin Replaced(j) => segments'[id].deleted = segments[id].deleted
             /\ id \in Staged(j) \ Replaced(j) => segments'[id].status = "completed"
             /\ id \notin Staged(j) => segments'[id].status = segments[id].status
  BY <1>1, <1>2, UpdatedRows
<1>8. \A id \in OwnSegments(j) : /\ id \in DOMAIN segments /\ segments[id].job = j
                                 /\ segments[id].document = d /\ segments[id].index = index
                                 /\ segments[id].status \in {"indexing", "completed"}
                                 /\ segments[id].deleted \in BOOLEAN
  BY <1>2, <1>5, SegmentRows DEF OwnSegments
<1>9. Unfinished(jobs[j])
  BY <1>1 DEF Unfinished
<1>10. \A id \in OwnSegments(j) : IsStaged(id) \/ d \in mixed \/ Gone(d, index)
  BY <1>8, <1>9 DEF IsStaged, BuildInv, DeletedEarlyAreGone, PublishedEarlyAreMixed, Unfinished
<1>11. OwnSegments(j) # {}
  BY <1>1 DEF BuildInv, OwnSegmentsOK
<1>12. ASSUME NEW id \in Staged(j), segments[id].job # j
       PROVE  d \in mixed \/ Gone(d, index)
  BY <1>6, <1>8, <1>10, <1>11, <1>12 DEF BuildInv, StagedTogetherAreMixed, SameDocument
<1>13. \A id \in DOMAIN segments :
          segments'[id].deleted /\ segments'[id].status = "indexing" =>
              segments[id].deleted \/ GoneThen(segments[id].document, segments[id].index)
  BY <1>6, <1>7
<1>14. \A id \in DOMAIN segments :
          (/\ segments'[id].status = "completed" /\ segments[id].status # "completed"
           /\ Unfinished(jobs'[segments[id].job])) =>
               \/ segments[id].document \in mixed
               \/ GoneThen(segments[id].document, segments[id].index)
  <2>1. SUFFICES ASSUME NEW id \in DOMAIN segments, segments'[id].status = "completed",
                        segments[id].status # "completed", Unfinished(jobs'[segments[id].job])
                 PROVE  \/ segments[id].document \in mixed
                        \/ GoneThen(segments[id].document, segments[id].index)
    OBVIOUS
  <2>2. id \in Staged(j) /\ segments[id].document = d /\ segments[id].index = index
    BY <1>6, <1>7, <2>1
  <2>3. segments[id].job # j
    BY <1>1, <1>4, <2>1 DEF Unfinished
  <2>4. d \in mixed \/ Gone(d, index)
    BY <1>12, <2>2, <2>3
  <2> QED BY <1>1, <2>2, <2>4 DEF Gone, GoneThen
<1>15. \A id \in DOMAIN segments :
          /\ segments'[id].document = segments[id].document /\ segments'[id].job = segments[id].job
          /\ segments'[id].index = segments[id].index
  BY <1>7 DEF SegmentsKeep
<1>16. DOMAIN segments' = DOMAIN segments
  BY <1>7 DEF SegmentsKeep
<1>17. ShownIsOneBuild'
  <2>1. SUFFICES ASSUME NEW a \in DOMAIN segments, NEW b \in DOMAIN segments,
                        segments'[a].status = "completed", ~segments'[a].deleted,
                        segments'[b].status = "completed", ~segments'[b].deleted,
                        SameDocument(a, b), segments[a].job # segments[b].job
                 PROVE  segments[a].document \in mixed
    BY <1>1, <1>15, <1>16 DEF ShownIsOneBuild, SameDocument
  <2>2. CASE segments[a].document = d /\ segments[a].index = index
    <3>1. IsStaged(a) /\ IsStaged(b)
      BY <1>2, <1>6, <1>7, <2>1, <2>2, SegmentRows DEF SameDocument, IsStaged
    <3> QED BY <2>1, <3>1 DEF BuildInv, StagedTogetherAreMixed
  <2>3. CASE ~(segments[a].document = d /\ segments[a].index = index)
    <3>1. /\ segments'[a].status = segments[a].status /\ segments'[a].deleted = segments[a].deleted
          /\ segments'[b].status = segments[b].status /\ segments'[b].deleted = segments[b].deleted
      BY <1>6, <1>7, <2>1, <2>3 DEF SameDocument
    <3> QED BY <2>1, <3>1 DEF BuildInv, ShownIsOneBuild
  <2> QED BY <2>2, <2>3
<1>18. \A k \in DOMAIN jobs : jobs'[k].row = jobs[k].row
  BY <1>4
<1>19. BuildInv'
  BY <1>1, <1>4, <1>7, <1>13, <1>14, <1>17, <1>18, SegmentsMoved
<1>20. \/ Gone(d, index)
       \/ \A id \in OwnSegments(j) : segments'[id].status = "completed"
  <2>1. \A id \in OwnSegments(j) :
            IsStaged(id) \/ segments[id].status = "completed" \/ Gone(d, index)
    BY <1>8 DEF IsStaged, BuildInv, DeletedEarlyAreGone
  <2>2. \A id \in OwnSegments(j) : IsStaged(id) => segments'[id].status = "completed"
    BY <1>6, <1>7, <1>8 DEF IsStaged
  <2>3. \A id \in OwnSegments(j) :
            segments[id].status = "completed" => segments'[id].status = "completed"
    BY <1>7, <1>8 DEF SegmentsKeep
  <2> QED BY <2>1, <2>2, <2>3
<1> QED BY <1>4, <1>5, <1>7, <1>19, <1>20

\* A full build that is finalized switches the index, or its own fails.
LEMMA SwitchedBuild ==
    ASSUME BuildInv, NEW j \in DOMAIN jobs, FinalizeFull(j)
    PROVE  BuildInv' /\ SegmentsKeep /\ jobs[j].full /\ jobs[j].due /\ GoneStays /\ JobsRemain
           /\ Proceeds(jobs[j], jobs'[j])
           /\ \A k \in DOMAIN jobs : k # j => jobs'[k] = jobs[k]
           /\ \A id \in DOMAIN segments :
                  segments'[id].status # segments[id].status => segments[id].job = j
<1> DEFINE old == Active \ {jobs[j].target}
           replaced == {id \in DOMAIN segments : segments[id].index \in old}
<1>1. /\ jobs[j].due /\ jobs[j].row \in {"completed", "failed"} /\ jobs[j].full
      /\ UNCHANGED <<documents, vectors, mixed>>
  BY DEF FinalizeFull, Due, library
<1>2. JobsOK /\ SegmentsOK /\ JobOK(j, jobs[j])
  BY DEF BuildInv, JobsOK
<1>3. jobs[j].target = j /\ j \in DOMAIN indexes /\ indexes[j] = "building"
      /\ (jobs[j].full \/ Unfinished(jobs[j]))
  BY <1>1, <1>2 DEF JobOK
<1>4. ASSUME indexes' = [indexes EXCEPT ![jobs[j].target] = "failed"], Finalized(j, "failed"),
             UNCHANGED segments
      PROVE  BuildInv' /\ SegmentsKeep /\ GoneStays /\ JobsRemain
             /\ Proceeds(jobs[j], jobs'[j])
             /\ \A k \in DOMAIN jobs : k # j => jobs'[k] = jobs[k]
             /\ \A id \in DOMAIN segments :
                    segments'[id].status # segments[id].status => segments[id].job = j
  <2>1. IndexesProceed(j)
    BY <1>2, <1>3, <1>4 DEF IndexesProceed, JobsOK
  <2>2. /\ JobsOK' /\ GoneStays /\ JobsRemain /\ Proceeds(jobs[j], jobs'[j])
        /\ jobs'[j].row = jobs[j].row
        /\ \A k \in DOMAIN jobs : k # j => jobs'[k] = jobs[k]
    BY <1>1, <1>2, <1>4, <2>1, FinalizedJob
  <2>3. JobsMove
    BY <2>2 DEF JobsMove, JobsRemain
  <2>4. vectors' \subseteq DOMAIN segments
    BY <1>1, <1>2 DEF SegmentsOK
  <2>5. BuildInv'
    BY <1>1, <1>4, <2>2, <2>3, <2>4, JobsMoved
  <2>6. SegmentsKeep
    BY <1>2, <1>4, SegmentRows DEF SegmentsKeep
  <2> QED BY <1>4, <2>2, <2>5, <2>6
<1>5. ASSUME indexes' = [i \in DOMAIN indexes |->
                           IF i = jobs[j].target THEN "active"
                           ELSE IF i \in old THEN "retired" ELSE indexes[i]],
             segments' = Updated(replaced, InTarget(j)), Finalized(j, "completed")
      PROVE  BuildInv' /\ SegmentsKeep /\ GoneStays /\ JobsRemain
             /\ Proceeds(jobs[j], jobs'[j])
             /\ \A k \in DOMAIN jobs : k # j => jobs'[k] = jobs[k]
             /\ \A id \in DOMAIN segments :
                    segments'[id].status # segments[id].status => segments[id].job = j
  <2>1. /\ DOMAIN indexes' = DOMAIN indexes /\ indexes'[j] = "active"
        /\ \A i \in DOMAIN indexes : i # j /\ indexes[i] = "active" => indexes'[i] = "retired"
        /\ \A i \in DOMAIN indexes : i # j /\ indexes[i] # "active" => indexes'[i] = indexes[i]
    BY <1>3, <1>5 DEF Active
  <2>2. IndexesProceed(j)
    BY <1>2, <1>3, <2>1 DEF IndexesProceed, JobsOK
  <2>3. /\ JobsOK' /\ GoneStays /\ JobsRemain /\ Proceeds(jobs[j], jobs'[j])
        /\ jobs'[j].row = jobs[j].row
        /\ \A k \in DOMAIN jobs : k # j => jobs'[k] = jobs[k]
    BY <1>1, <1>2, <1>5, <2>2, FinalizedJob
  <2>4. /\ SegmentsKeep
        /\ \A id \in DOMAIN segments :
               /\ id \in replaced => segments'[id].deleted /\ segments'[id].status = segments[id].status
               /\ id \notin replaced => segments'[id].deleted = segments[id].deleted
               /\ id \notin InTarget(j) => segments'[id].status = segments[id].status
    <3> HIDE DEF replaced
    <3> QED BY <1>2, <1>5, UpdatedRows
  <2>5. \A id \in DOMAIN segments : id \in replaced =>
            segments[id].index \in DOMAIN indexes /\ indexes'[segments[id].index] = "retired"
    BY <1>3, <2>1 DEF Active
  <2>6. \A id \in DOMAIN segments : segments[id].index = j => segments[id].job = j
    <3>1. SUFFICES ASSUME NEW id \in DOMAIN segments, segments[id].index = j
                   PROVE  segments[id].job = j
      OBVIOUS
    <3>2. PICK k \in DOMAIN jobs : segments[id].job = k /\ jobs[k].target = j
      BY <1>2, <3>1, SegmentRows
    <3>3. JobOK(k, jobs[k])
      BY <1>2 DEF JobsOK
    <3> QED BY <1>3, <3>2, <3>3 DEF JobOK
  <2>7. \A id \in InTarget(j) : segments[id].index = j
    BY <1>3 DEF InTarget
  <2>8. \A id \in DOMAIN segments :
            segments'[id].deleted /\ segments'[id].status = "indexing" =>
                segments[id].deleted \/ GoneThen(segments[id].document, segments[id].index)
    <3> HIDE DEF replaced
    <3> QED BY <2>4, <2>5 DEF GoneThen
  <2>9. \A id \in DOMAIN segments :
            segments'[id].status # segments[id].status => segments[id].job = j
    BY <2>4, <2>6, <2>7
  <2>10. ~Unfinished(jobs'[j])
    BY <1>1, <2>3 DEF JobsRemain, Unfinished
  <2>11. ShownIsOneBuild'
    <3>1. SUFFICES ASSUME NEW a \in DOMAIN segments, NEW b \in DOMAIN segments,
                          segments'[a].status = "completed", ~segments'[a].deleted,
                          segments'[b].status = "completed", ~segments'[b].deleted,
                          SameDocument(a, b), segments[a].job # segments[b].job
                   PROVE  segments[a].document \in mixed
      BY <1>1, <2>4 DEF ShownIsOneBuild, SameDocument, SegmentsKeep
    <3>2. segments[a].index # j /\ segments[b].index # j
      BY <2>6, <3>1 DEF SameDocument
    <3>3. a \notin replaced /\ b \notin replaced
      <4> HIDE DEF replaced
      <4> QED BY <2>4, <3>1
    <3>4. /\ segments'[a].status = segments[a].status /\ segments'[a].deleted = segments[a].deleted
          /\ segments'[b].status = segments[b].status /\ segments'[b].deleted = segments[b].deleted
      <4> HIDE DEF replaced
      <4> QED BY <2>4, <2>7, <3>2, <3>3
    <3> QED BY <3>1, <3>4 DEF BuildInv, ShownIsOneBuild
  <2>12. \A k \in DOMAIN jobs : jobs'[k].row = jobs[k].row
    BY <2>3
  <2>13. \A id \in DOMAIN segments :
            (/\ segments'[id].status = "completed" /\ segments[id].status # "completed"
             /\ Unfinished(jobs'[segments[id].job])) =>
                \/ segments[id].document \in mixed
                \/ GoneThen(segments[id].document, segments[id].index)
    BY <2>9, <2>10
  <2>14. BuildInv'
    BY <1>1, <2>3, <2>4, <2>8, <2>11, <2>12, <2>13, SegmentsMoved
  <2> HIDE DEF replaced
  <2> QED BY <2>3, <2>4, <2>9, <2>14
<1>6. \/ /\ indexes' = [indexes EXCEPT ![jobs[j].target] = "failed"] /\ Finalized(j, "failed")
         /\ UNCHANGED segments
      \/ /\ indexes' = [i \in DOMAIN indexes |->
                           IF i = jobs[j].target THEN "active"
                           ELSE IF i \in old THEN "retired" ELSE indexes[i]]
         /\ segments' = Updated(replaced, InTarget(j)) /\ Finalized(j, "completed")
  BY DEF FinalizeFull
<1> HIDE DEF replaced, old
<1> QED BY <1>1, <1>4, <1>5, <1>6

\* A job that changes no segment.
LEMMA QuietBuild ==
    ASSUME BuildInv, NEW j \in DOMAIN jobs, Quiet(j),
           UNCHANGED <<documents, indexes, segments, mixed>>, vectors' \subseteq DOMAIN segments
    PROVE  BuildInv'
<1>1. JobsOK
  BY DEF BuildInv
<1>2. JobsOK' /\ GoneStays /\ JobsMove
  BY <1>1, QuietMoves
<1> QED BY <1>2, JobsMoved

\* Every step of a job.
LEMMA WorkingBuild ==
    ASSUME StorageInv, BuildInv, NEW j \in DOMAIN jobs, Working(j)
    PROVE  BuildInv'
<1>1. JobsOK /\ SegmentsOK
  BY DEF BuildInv
<1>2. UNCHANGED documents
  BY OthersLeaveRequests
<1>3. CASE Load(j) \/ Retry(j) \/ LoseFinalization(j) \/ FinalizeFailed(j) \/ FinalizeInvalid(j)
  <2>1. Quiet(j) /\ UNCHANGED <<indexes, segments, mixed, vectors>>
    BY <1>3 DEF Load, Retry, LoseFinalization, FinalizeFailed, FinalizeInvalid, Quiet
  <2> QED BY <1>1, <1>2, <2>1, QuietBuild DEF SegmentsOK
<1>4. CASE FailJob(j)
  <2>1. Quiet(j) /\ UNCHANGED <<indexes, segments, mixed, vectors>>
    BY <1>4 DEF FailJob, Quiet
  <2> QED BY <1>1, <1>2, <2>1, QuietBuild DEF SegmentsOK
<1>5. CASE Stage(j)
  <2>1. CASE RowFails(j) /\ UNCHANGED <<segments, mixed>>
    <3>1. Quiet(j) /\ UNCHANGED <<indexes, segments, mixed, vectors>>
      BY <1>5, <2>1 DEF Stage, Quiet
    <3> QED BY <1>1, <1>2, <3>1, QuietBuild DEF SegmentsOK
  <2>2. CASE ~(RowFails(j) /\ UNCHANGED <<segments, mixed>>)
    <3>1. /\ jobs[j].row = "loaded" /\ segments' = Joined(segments, Batch(j))
          /\ SetJob(j, [jobs[j] EXCEPT !.row = "staged"])
          /\ mixed' = mixed \cup {d \in jobs[j].documents : StagedBeside(j, d)}
          /\ UNCHANGED <<indexes, vectors>>
      BY <1>5, <2>2 DEF Stage, Batch
    <3> QED BY <1>2, <3>1, StagedBuild
  <2> QED BY <2>1, <2>2
<1>6. CASE Embed(j)
  <2> DEFINE own == {id \in OwnSegments(j) : segments[id].type # "parent"}
  <2>1. /\ jobs[j].row = "staged" /\ UNCHANGED <<indexes, mixed>>
        /\ vectors' \subseteq DOMAIN segments
    BY <1>1, <1>6 DEF Embed, OwnSegments, SegmentsOK
  <2>2. CASE RowFails(j) /\ UNCHANGED segments
    <3>1. Quiet(j)
      BY <2>1, <2>2 DEF Quiet
    <3> QED BY <1>2, <2>1, <2>2, <3>1, QuietBuild
  <2>3. CASE ~(RowFails(j) /\ UNCHANGED segments)
    <3>1. /\ segments' = [id \in DOMAIN segments |->
                 IF id \in own THEN [segments[id] EXCEPT !.ready = TRUE, !.keyed = TRUE]
                 ELSE segments[id]]
          /\ SetJob(j, [jobs[j] EXCEPT !.row = "completed", !.status = "completed", !.due = TRUE])
      BY <1>6, <2>3 DEF Embed
    <3>2. own \in SUBSET DOMAIN segments
      BY DEF OwnSegments
    <3>3. /\ SegmentsKeep
          /\ \A id \in DOMAIN segments : /\ segments'[id].status = segments[id].status
                                         /\ segments'[id].deleted = segments[id].deleted
          /\ \A id \in own : segments'[id].ready
      <4> HIDE DEF own
      <4> QED BY <1>1, <3>1, <3>2, ReadyRows
    <3>4. \A id \in OwnSegments(j) : segments[id].type # "parent" => segments'[id].ready
      BY <3>3
    <3> HIDE DEF own
    <3> QED BY <1>2, <2>1, <3>1, <3>3, <3>4, EmbeddedBuild
  <2> QED BY <2>2, <2>3
<1>7. CASE FinalizeIncremental(j) \/ FinalizeFull(j)
  BY <1>7, PublishedBuild, SwitchedBuild
<1> QED BY <1>3, <1>4, <1>5, <1>6, <1>7 DEF Working

----------------------------------------------------------------------------
(* Revisions, when a job takes a step.                                     *)

\* Revisions keep what they say of their edit, and their publication.
SameRevision(r, new) ==
    /\ DOMAIN new = RevisionFields /\ new.job = r.job /\ new.token = r.token
    /\ new.knew = r.knew /\ new.excused = r.excused /\ new.published = r.published
    /\ new.status \in {"pending", "completed", "failed"}

\* The revision of job j, if it has one, becomes status; the others stay.
RevisionsTurn(j) ==
    /\ DOMAIN revisions' = DOMAIN revisions
    /\ \A d \in DOMAIN revisions :
           /\ IsSeq(revisions'[d]) /\ DOMAIN revisions'[d] = DOMAIN revisions[d]
           /\ \A v \in DOMAIN revisions[d] :
                  /\ SameRevision(revisions[d][v], revisions'[d][v])
                  /\ revisions[d][v].job # j => revisions'[d][v].status = revisions[d][v].status

\* Revisions that do not change do not turn.
LEMMA RevisionsUnturned ==
    ASSUME RevisionsOK, UNCHANGED revisions, NEW j
    PROVE  RevisionsTurn(j)
BY DEF RevisionsOK, RevisionOK, RevisionsTurn, SameRevision

\* What Revised does.
LEMMA RevisedRows ==
    ASSUME RevisionsOK, JobsOK, NEW j \in DOMAIN jobs,
           NEW status \in {"pending", "completed", "failed"}, revisions' = Revised(j, status)
    PROVE  /\ RevisionsTurn(j)
           /\ \A d \in DOMAIN revisions : \A v \in DOMAIN revisions[d] :
                  revisions[d][v].job = j => revisions'[d][v].status = status
<1>1. JobOK(j, jobs[j]) /\ jobs[j].version \in Nat
  BY DEF JobsOK, JobOK
<1>2. \A d \in DOMAIN revisions :
          /\ IsSeq(revisions[d]) /\ DOMAIN revisions[d] \subseteq Nat \ {0}
          /\ \A v \in DOMAIN revisions[d] : RevisionOK(d, v, revisions[d][v])
  <2>1. SUFFICES ASSUME NEW d \in DOMAIN revisions
                 PROVE  DOMAIN revisions[d] \subseteq Nat \ {0}
    BY DEF RevisionsOK
  <2>2. IsSeq(revisions[d])
    BY DEF RevisionsOK
  <2>3. Len(revisions[d]) \in Nat /\ DOMAIN revisions[d] = 1 .. Len(revisions[d])
    BY <2>2, OneMore
  <2> QED BY <2>3
<1>3. CASE jobs[j].version = 0
  <2>1. UNCHANGED revisions
    BY <1>3 DEF Revised
  <2>2. \A d \in DOMAIN revisions : \A v \in DOMAIN revisions[d] : revisions[d][v].job # j
    BY <1>2, <1>3 DEF RevisionOK
  <2> QED BY <2>1, <2>2, RevisionsUnturned
<1>4. CASE jobs[j].version # 0
  <2>1. PICK d \in DOMAIN documents : jobs[j].documents = {d}
    BY <1>1, <1>4 DEF JobOK
  <2>2. PICK v : v = jobs[j].version
    OBVIOUS
  <2>3. d \in DOMAIN revisions /\ v \in DOMAIN revisions[d] /\ revisions[d][v].job = j
    BY <1>1, <1>4, <2>1, <2>2 DEF RevisionsOK
  <2>4. PICK r : r = revisions[d][v]
    OBVIOUS
  <2>5. PICK new : new = [r EXCEPT !.status = status]
    OBVIOUS
  <2>6. DOMAIN r = RevisionFields
    BY <1>2, <2>3, <2>4 DEF RevisionOK
  <2>7. /\ SameRevision(r, new) /\ new.status = status
    BY ONLY <2>5, <2>6, status \in {"pending", "completed", "failed"} DEF RevisionFields, SameRevision
  <2>8. PICK s : s = revisions[d]
    OBVIOUS
  <2>9. PICK t : t = [s EXCEPT ![v] = new]
    OBVIOUS
  <2>10. IsSeq(t) /\ DOMAIN t = DOMAIN s /\ t[v] = new /\ \A w \in DOMAIN s : w # v => t[w] = s[w]
    <3>1. IsSeq(s) /\ v \in DOMAIN s
      BY <1>2, <2>3, <2>8
    <3>2. IsSeq([s EXCEPT ![v] = new])
      BY <3>1, OneChanged
    <3> QED BY <2>9, <3>1, <3>2
  <2>11. revisions' = [revisions EXCEPT ![d] = t]
    <3>1. d = CHOOSE x \in jobs[j].documents : TRUE
      BY <2>1
    <3>2. revisions' = [revisions EXCEPT ![d][v].status = status]
      BY <1>4, <2>2, <3>1 DEF Revised
    <3> QED BY <2>4, <2>5, <2>8, <2>9, <3>2
  <2>12. /\ DOMAIN revisions' = DOMAIN revisions /\ revisions'[d] = t
         /\ \A e \in DOMAIN revisions : e # d => revisions'[e] = revisions[e]
    BY <2>3, <2>11
  <2>13. ASSUME NEW e \in DOMAIN revisions, NEW w \in DOMAIN revisions[e], e # d \/ w # v
         PROVE  revisions[e][w].job # j
    BY <1>2, <2>1, <2>2, <2>13 DEF RevisionOK
  <2>14. \A e \in DOMAIN revisions : \A w \in DOMAIN revisions[e] :
             SameRevision(revisions[e][w], revisions[e][w])
    BY <1>2 DEF RevisionOK, SameRevision
  <2>15. ASSUME NEW e \in DOMAIN revisions
         PROVE  /\ IsSeq(revisions'[e]) /\ DOMAIN revisions'[e] = DOMAIN revisions[e]
                /\ \A w \in DOMAIN revisions[e] :
                       /\ SameRevision(revisions[e][w], revisions'[e][w])
                       /\ revisions[e][w].job # j => revisions'[e][w].status = revisions[e][w].status
                       /\ revisions[e][w].job = j => revisions'[e][w].status = status
    <3>1. CASE e = d
      BY <2>3, <2>4, <2>7, <2>8, <2>10, <2>12, <2>13, <2>14, <3>1
    <3>2. CASE e # d
      BY <1>2, <2>12, <2>13, <2>14, <3>2
    <3> QED BY <3>1, <3>2
  <2> QED BY <2>12, <2>15 DEF RevisionsTurn
<1> QED BY <1>3, <1>4

\* The finalization of a job is over.
Over(j) == jobs[j].row \in {"completed", "failed"} /\ ~jobs[j].due /\ j \notin unpublished

\* A job that has published.
Done(job) == job.row = "completed" /\ job.status = "completed" /\ ~job.due

\* The same after the step.
OverThen(j) ==
    jobs'[j].row \in {"completed", "failed"} /\ ~jobs'[j].due /\ j \notin unpublished'

\* The segments of a job after the step.
OwnThen(j) == {id \in DOMAIN segments' : segments'[id].job = j}

\* What the revision of job j says after a step of the job.
Told(j) ==
    \A d \in DOMAIN revisions : \A v \in DOMAIN revisions[d] :
        revisions[d][v].job = j =>
            LET status == revisions'[d][v].status
            IN  /\ status = "completed" => Done(jobs'[j])
                /\ ~GoneThen(d, jobs[j].target) =>
                       /\ status = "completed" =>
                              \A id \in OwnThen(j) : segments'[id].status = "completed"
                       /\ status = "pending" /\ OverThen(j) => d \in mixed'

\* The segments of other jobs stay published.
OthersStay(j) ==
    \A k \in DOMAIN jobs : k # j =>
        /\ OwnThen(k) = OwnSegments(k)
        /\ \A id \in OwnSegments(k) :
               segments[id].status = "completed" => segments'[id].status = "completed"

\* A step of job j, which has not published its segments.
LEMMA JobRevisions ==
    ASSUME BuildInv, RevisionInv, UNCHANGED <<client, documents>>, NEW j \in DOMAIN jobs,
           ~Done(jobs[j]) \/ jobs[j].version = 0, Proceeds(jobs[j], jobs'[j]),
           DOMAIN jobs' = DOMAIN jobs, \A k \in DOMAIN jobs : k # j => jobs'[k] = jobs[k],
           GoneStays, RevisionsTurn(j), OthersStay(j), Told(j),
           mixed \subseteq mixed', unpublished \subseteq unpublished'
    PROVE  RevisionInv'
<1>1. RevisionsOK /\ JobsOK
  BY DEF RevisionInv, BuildInv
<1>2. \A d \in DOMAIN revisions : \A v \in DOMAIN revisions[d] :
          /\ RevisionOK(d, v, revisions[d][v]) /\ v # 0
          /\ revisions[d][v].job = j => revisions[d][v].status # "completed"
  <2>1. \A d \in DOMAIN revisions : DOMAIN revisions[d] \subseteq Nat \ {0}
    <3>1. SUFFICES ASSUME NEW d \in DOMAIN revisions
                   PROVE  DOMAIN revisions[d] \subseteq Nat \ {0}
      OBVIOUS
    <3>2. Len(revisions[d]) \in Nat /\ DOMAIN revisions[d] = 1 .. Len(revisions[d])
      BY <1>1, OneMore DEF RevisionsOK
    <3> QED BY <3>2
  <2> QED BY <1>1, <2>1 DEF RevisionsOK, RevisionOK, Done
<1>3. DOMAIN revisions' = DOMAIN revisions
      /\ \A d \in DOMAIN revisions : DOMAIN revisions'[d] = DOMAIN revisions[d] /\ IsSeq(revisions'[d])
  BY DEF RevisionsTurn
<1>4. \A d \in DOMAIN revisions : \A v \in DOMAIN revisions[d] :
          /\ SameRevision(revisions[d][v], revisions'[d][v])
          /\ revisions[d][v].job # j => revisions'[d][v].status = revisions[d][v].status
  BY DEF RevisionsTurn
<1>5. \A k \in DOMAIN jobs : jobs'[k].version = jobs[k].version
                             /\ jobs'[k].documents = jobs[k].documents
                             /\ jobs'[k].target = jobs[k].target
  BY DEF Proceeds
<1>6. ASSUME NEW d \in DOMAIN revisions, NEW v \in DOMAIN revisions[d]
      PROVE  RevisionOK(d, v, revisions[d][v])'
  <2>1. RevisionOK(d, v, revisions[d][v]) /\ SameRevision(revisions[d][v], revisions'[d][v])
    BY <1>2, <1>4
  <2>2. CASE revisions[d][v].job = j
    BY <1>5, <2>1, <2>2 DEF RevisionOK, SameRevision, Told, Done
  <2>3. CASE revisions[d][v].job # j
    BY <1>4, <1>5, <2>1, <2>3 DEF RevisionOK, SameRevision
  <2> QED BY <2>2, <2>3
<1>7. RevisionsOK'
  <2>1. ASSUME NEW k \in DOMAIN jobs, jobs[k].version > 0, NEW d \in jobs[k].documents
        PROVE  /\ jobs[k].version \in DOMAIN revisions'[d]
               /\ revisions'[d][jobs[k].version].job = k
    <3>1. d \in DOMAIN revisions
      BY <1>1 DEF JobsOK, JobOK, RevisionsOK
    <3>2. jobs[k].version \in DOMAIN revisions[d] /\ revisions[d][jobs[k].version].job = k
      BY <1>1, <2>1 DEF RevisionsOK
    <3> QED BY <1>3, <1>4, <3>1, <3>2 DEF SameRevision
  <2> QED BY <1>1, <1>3, <1>5, <1>6, <2>1 DEF RevisionsOK
<1>8. SavedEditsKnowTheirContent'
  BY <1>3, <1>4 DEF RevisionInv, SavedEditsKnowTheirContent, SameRevision
<1>9. \A d \in DOMAIN revisions : Published(d) \subseteq Published(d)'
  BY <1>2, <1>3, <1>4 DEF Published
<1>10. EditorsKnow'
  <2>1. DOMAIN documents = DOMAIN revisions
    BY <1>1 DEF RevisionsOK
  <2> QED BY <1>9, <2>1 DEF RevisionInv, EditorsKnow
<1>11. OutcomesAreTold'
  <2>1. ASSUME NEW d \in DOMAIN revisions, NEW v \in DOMAIN revisions[d],
               ~GoneThen(d, jobs[revisions[d][v].job].target)
        PROVE  LET k == revisions[d][v].job
                   status == revisions'[d][v].status
               IN  /\ status = "completed" =>
                          \A id \in OwnThen(k) : segments'[id].status = "completed"
                   /\ status = "pending" /\ OverThen(k) => d \in mixed'
    <3>1. PICK k \in DOMAIN jobs : k = revisions[d][v].job
      BY <1>2 DEF RevisionOK
    <3>2. CASE k = j
      BY <2>1, <3>1, <3>2 DEF Told
    <3>3. CASE k # j
      <4>1. jobs[k].target \in DOMAIN indexes /\ d \in DOMAIN documents
        BY <1>1 DEF JobsOK, JobOK, RevisionsOK
      <4>2. ~Gone(d, jobs[k].target)
        BY <2>1, <3>1, <4>1 DEF Gone, GoneThen, GoneStays, Grows
      <4>3. revisions'[d][v].status = revisions[d][v].status
        BY <1>4, <3>1, <3>3
      <4>4. OverThen(k) => Over(k)
        BY <3>3 DEF Over, OverThen
      <4>5. /\ revisions[d][v].status = "completed" =>
                   \A id \in OwnSegments(k) : segments[id].status = "completed"
            /\ revisions[d][v].status = "pending" /\ Over(k) => d \in mixed
        BY <3>1, <4>2 DEF RevisionInv, OutcomesAreTold, Over
      <4>6. /\ OwnThen(k) = OwnSegments(k)
            /\ \A id \in OwnSegments(k) :
                   segments[id].status = "completed" => segments'[id].status = "completed"
        BY <3>3 DEF OthersStay
      <4> QED BY <3>1, <4>3, <4>4, <4>5, <4>6
    <3> QED BY <3>2, <3>3
  <2>2. ASSUME NEW d \in DOMAIN revisions, NEW v \in DOMAIN revisions[d]
        PROVE  /\ revisions'[d][v].job = revisions[d][v].job
               /\ jobs'[revisions[d][v].job].target = jobs[revisions[d][v].job].target
    BY <1>2, <1>4, <1>5 DEF RevisionOK, SameRevision
  <2> QED BY <1>3, <2>1, <2>2 DEF OutcomesAreTold, Gone, GoneThen, OverThen, OwnThen, OwnSegments
<1> QED BY <1>7, <1>8, <1>10, <1>11 DEF RevisionInv

\* A revision and its number.
LEMMA Revisions ==
    ASSUME RevisionsOK, NEW d \in DOMAIN revisions, NEW v \in DOMAIN revisions[d]
    PROVE  RevisionOK(d, v, revisions[d][v]) /\ v \in Nat \ {0}
<1>1. IsSeq(revisions[d]) /\ RevisionOK(d, v, revisions[d][v])
  BY DEF RevisionsOK
<1>2. Len(revisions[d]) \in Nat /\ DOMAIN revisions[d] = 1 .. Len(revisions[d])
  BY <1>1, OneMore
<1> QED BY <1>1, <1>2

\* Segments that keep their identity and their publication stay published.
LEMMA SegmentsStay ==
    ASSUME SegmentsKeep \/ UNCHANGED segments, NEW j
    PROVE  OthersStay(j)
BY DEF SegmentsKeep, OthersStay, OwnThen, OwnSegments

\* A job that is not over afterwards has nothing to tell.
LEMMA NotOverTold ==
    ASSUME RevisionsOK, NEW j \in DOMAIN jobs, RevisionsTurn(j), ~OverThen(j),
           \A d \in DOMAIN revisions : \A v \in DOMAIN revisions[d] :
               revisions[d][v].job = j => revisions'[d][v].status # "completed"
    PROVE  Told(j)
BY DEF Told

\* The revision of a job that is not done is not completed.
LEMMA NotDone ==
    ASSUME RevisionsOK, NEW j \in DOMAIN jobs, ~Done(jobs[j])
    PROVE  \A d \in DOMAIN revisions : \A v \in DOMAIN revisions[d] :
               revisions[d][v].job = j => revisions[d][v].status # "completed"
BY Revisions DEF RevisionOK, Done

\* A job whose row has just failed waits for its finalization.
LEMMA RowFailed ==
    ASSUME JobsOK, NEW j \in DOMAIN jobs, RowFails(j)
    PROVE  ~OverThen(j)
<1> DEFINE t == [jobs[j] EXCEPT !.row = "failed", !.status = "failed", !.due = TRUE]
<1>1. SetJob(j, t)
  BY DEF RowFails
<1>2. DOMAIN jobs[j] = JobFields
  BY DEF JobsOK, JobOK
<1>3. t.due = TRUE
  BY <1>2 DEF JobFields
<1> HIDE DEF t
<1>4. jobs'[j] = t
  BY <1>1, JobSet
<1> QED BY <1>3, <1>4 DEF OverThen

\* Steps after which the job is not over, that leave revisions alone.
LEMMA QuietRevisions ==
    ASSUME BuildInv, RevisionInv, NEW j \in DOMAIN jobs, Quiet(j),
           UNCHANGED <<client, documents, indexes, segments, mixed>>,
           unpublished \subseteq unpublished', RevisionsTurn(j), Told(j)
    PROVE  RevisionInv'
<1>1. JobsOK
  BY DEF BuildInv
<1>2. /\ GoneStays /\ Proceeds(jobs[j], jobs'[j]) /\ DOMAIN jobs' = DOMAIN jobs
      /\ \A k \in DOMAIN jobs : k # j => jobs'[k] = jobs[k]
      /\ jobs[j].row # "completed" \/ jobs[j].due
  BY <1>1, QuietMoves
<1>3. ~Done(jobs[j])
  BY <1>2 DEF Done
<1>4. OthersStay(j)
  BY SegmentsStay
<1> QED BY <1>2, <1>3, <1>4, JobRevisions

\* The steps of a job after which it is not over.
LEMMA QuietSteps ==
    ASSUME BuildInv, RevisionInv, NEW j \in DOMAIN jobs,
           UNCHANGED <<client, documents, indexes, segments, mixed, revisions>>,
           \/ Load(j) \/ Retry(j) \/ LoseFinalization(j)
           \/ RowFails(j) /\ jobs[j].row \in {"loaded", "staged"} /\ UNCHANGED unpublished
    PROVE  RevisionInv'
<1>1. JobsOK /\ RevisionsOK /\ DOMAIN jobs[j] = JobFields
  BY DEF BuildInv, RevisionInv, JobsOK, JobOK
<1>2. Quiet(j) /\ unpublished \subseteq unpublished'
  BY DEF Quiet, Load, Retry, LoseFinalization
<1>3. ~OverThen(j)
  <2>1. CASE Load(j)
    <3> DEFINE t == [jobs[j] EXCEPT !.row = "loaded"]
    <3>1. SetJob(j, t) /\ t.row = "loaded"
      BY <1>1, <2>1 DEF Load, JobFields
    <3> HIDE DEF t
    <3> QED BY <1>1, <3>1, JobSet DEF OverThen
  <2>2. CASE Retry(j)
    <3> DEFINE t == [jobs[j] EXCEPT !.row = "pending", !.status = "unfinished", !.due = FALSE]
    <3>1. SetJob(j, t) /\ t.row = "pending"
      BY <1>1, <2>2 DEF Retry, JobFields
    <3> HIDE DEF t
    <3> QED BY <1>1, <3>1, JobSet DEF OverThen
  <2>3. CASE LoseFinalization(j)
    BY <2>3 DEF LoseFinalization, OverThen
  <2>4. CASE RowFails(j)
    BY <1>1, <2>4, RowFailed
  <2> QED BY <2>1, <2>2, <2>3, <2>4
<1>4. RevisionsTurn(j)
  BY <1>1, RevisionsUnturned
<1>5. ~Done(jobs[j])
  <2>1. jobs[j].row # "completed" \/ jobs[j].due
    BY <1>1, <1>2, QuietMoves
  <2> QED BY <2>1 DEF Done
<1>6. Told(j)
  BY <1>1, <1>3, <1>4, <1>5, NotDone, NotOverTold
<1> QED BY <1>2, <1>4, <1>6, QuietRevisions

\* The revision of a job that fails is failed.
LEMMA FailedRevision ==
    ASSUME BuildInv, RevisionInv, NEW j \in DOMAIN jobs, FinalizeFailed(j)
    PROVE  RevisionInv'
<1>1. JobsOK /\ RevisionsOK
  BY DEF BuildInv, RevisionInv
<1>2. revisions' = Revised(j, "failed")
      /\ UNCHANGED <<client, documents, indexes, segments, mixed, unpublished>>
  BY DEF FinalizeFailed, library
<1>3. /\ RevisionsTurn(j)
      /\ \A d \in DOMAIN revisions : \A v \in DOMAIN revisions[d] :
             revisions[d][v].job = j => revisions'[d][v].status = "failed"
  BY <1>1, <1>2, RevisedRows
<1>4. Told(j)
  BY <1>3 DEF Told
<1> QED BY <1>2, <1>3, <1>4, QuietRevisions DEF Quiet

\* The revision of a job that is refused was not alone.
LEMMA RefusedRevision ==
    ASSUME BuildInv, RevisionInv, NEW j \in DOMAIN jobs, FinalizeInvalid(j)
    PROVE  RevisionInv'
<1>1. JobsOK /\ RevisionsOK /\ SegmentsOK /\ JobOK(j, jobs[j])
  BY DEF BuildInv, RevisionInv, JobsOK
<1>2. /\ jobs[j].due /\ jobs[j].row = "completed" /\ ~jobs[j].full
      /\ Staged(j) = {} \/ \E id \in Staged(j) : ~segments[id].ready
      /\ UNCHANGED <<client, documents, indexes, segments, mixed, unpublished, revisions>>
  BY DEF FinalizeInvalid, Due, library
<1>3. RevisionsTurn(j) /\ ~Done(jobs[j])
  BY <1>1, <1>2, RevisionsUnturned DEF Done
<1>4. PICK d \in DOMAIN documents : jobs[j].documents = {d}
  BY <1>1, <1>2 DEF JobOK
<1> DEFINE index == jobs[j].target
<1>5. \A id : id \in Staged(j) <=>
             /\ id \in DOMAIN segments /\ segments[id].index = index /\ segments[id].document = d
             /\ IsStaged(id)
  BY <1>4 DEF Staged, InTarget, IsStaged
<1>6. \A id \in OwnSegments(j) : /\ id \in DOMAIN segments /\ segments[id].job = j
                                 /\ segments[id].document = d /\ segments[id].index = index
                                 /\ segments[id].status \in {"indexing", "completed"}
                                 /\ segments[id].deleted \in BOOLEAN
  BY <1>1, <1>4, SegmentRows DEF OwnSegments
<1>7. OwnSegments(j) # {} /\ \A id \in OwnSegments(j) : segments[id].ready
  BY <1>2 DEF BuildInv, OwnSegmentsOK
<1>8. d \in mixed \/ Gone(d, index)
  <2>1. SUFFICES ASSUME d \notin mixed, ~Gone(d, index)
                 PROVE  FALSE
    OBVIOUS
  <2>2. \A id \in OwnSegments(j) : id \in Staged(j)
    BY <1>2, <1>5, <1>6, <2>1
       DEF IsStaged, BuildInv, DeletedEarlyAreGone, PublishedEarlyAreMixed
  <2>3. PICK id \in Staged(j) : ~segments[id].ready
    BY <1>2, <1>7, <2>2
  <2>4. id \notin OwnSegments(j)
    BY <1>7, <2>3
  <2>5. PICK own \in OwnSegments(j) : own \in Staged(j)
    BY <1>7, <2>2
  <2> QED BY <1>5, <1>6, <2>1, <2>4, <2>5
          DEF OwnSegments, BuildInv, StagedTogetherAreMixed, SameDocument
<1>9. \A e \in DOMAIN revisions : \A v \in DOMAIN revisions[e] : revisions[e][v].job = j => e = d
  BY <1>1, <1>4, Revisions DEF RevisionOK
<1>10. Told(j)
  <2>1. \A e \in DOMAIN revisions : \A v \in DOMAIN revisions[e] :
            revisions[e][v].job = j => revisions'[e][v].status # "completed"
    BY <1>1, <1>2, <1>3, NotDone
  <2>2. GoneThen(d, index) <=> Gone(d, index)
    BY <1>2 DEF Gone, GoneThen
  <2> QED BY <1>2, <1>8, <1>9, <2>1, <2>2 DEF Told
<1> QED BY <1>2, <1>3, <1>10, QuietRevisions DEF Quiet

\* A job that staged its segments.
LEMMA StagedRevision ==
    ASSUME StorageInv, BuildInv, RevisionInv, NEW j \in DOMAIN jobs, Stage(j)
    PROVE  RevisionInv'
<1>1. JobsOK /\ RevisionsOK /\ UNCHANGED <<client, documents, indexes, revisions, unpublished, vectors>>
      /\ jobs[j].row = "loaded"
  BY DEF BuildInv, RevisionInv, Stage, library
<1>2. CASE RowFails(j) /\ UNCHANGED <<segments, mixed>>
  BY <1>1, <1>2, QuietSteps
<1>3. CASE ~(RowFails(j) /\ UNCHANGED <<segments, mixed>>)
  <2>1. /\ segments' = Joined(segments, Batch(j))
        /\ SetJob(j, [jobs[j] EXCEPT !.row = "staged"])
        /\ mixed' = mixed \cup {d \in jobs[j].documents : StagedBeside(j, d)}
    BY <1>3 DEF Stage, Batch
  <2>2. /\ GoneStays /\ Proceeds(jobs[j], jobs'[j]) /\ jobs'[j].row = "staged"
        /\ DOMAIN jobs' = DOMAIN jobs /\ \A k \in DOMAIN jobs : k # j => jobs'[k] = jobs[k]
        /\ DOMAIN segments \subseteq DOMAIN segments'
        /\ \A id \in DOMAIN segments : segments'[id] = segments[id]
        /\ \A k \in DOMAIN jobs : k # j => OwnSegments(k)' = OwnSegments(k)
    BY <1>1, <2>1, StagedBuild
  <2>3. OthersStay(j)
    BY <2>2 DEF OthersStay, OwnSegments, OwnThen
  <2>4. RevisionsTurn(j)
    BY <1>1, RevisionsUnturned
  <2>5. ~Done(jobs[j]) /\ ~OverThen(j)
    BY <1>1, <2>2 DEF Done, OverThen
  <2>6. Told(j)
    BY <1>1, <2>4, <2>5, NotDone, NotOverTold
  <2>7. mixed \subseteq mixed' /\ unpublished \subseteq unpublished'
    BY <1>1, <2>1
  <2> QED BY <1>1, <2>2, <2>3, <2>4, <2>5, <2>6, <2>7, JobRevisions
<1> QED BY <1>2, <1>3

\* A job that is done opens its revision again.
LEMMA EmbeddedRevision ==
    ASSUME BuildInv, RevisionInv, NEW j \in DOMAIN jobs, Embed(j)
    PROVE  RevisionInv'
<1> DEFINE own == {id \in OwnSegments(j) : segments[id].type # "parent"}
<1>1. /\ JobsOK /\ RevisionsOK /\ SegmentsOK /\ jobs[j].row = "staged"
      /\ UNCHANGED <<client, documents, indexes, unpublished, mixed>>
      /\ vectors' \subseteq DOMAIN segments
  BY DEF BuildInv, RevisionInv, SegmentsOK, Embed, library, OwnSegments
<1>2. CASE RowFails(j) /\ UNCHANGED <<segments, revisions>>
  BY <1>1, <1>2, QuietSteps
<1>3. CASE ~(RowFails(j) /\ UNCHANGED <<segments, revisions>>)
  <2>1. /\ segments' = [id \in DOMAIN segments |->
               IF id \in own THEN [segments[id] EXCEPT !.ready = TRUE, !.keyed = TRUE]
               ELSE segments[id]]
        /\ SetJob(j, [jobs[j] EXCEPT !.row = "completed", !.status = "completed", !.due = TRUE])
        /\ revisions' = Revised(j, "pending")
    BY <1>3 DEF Embed
  <2>2. own \in SUBSET DOMAIN segments
    BY DEF OwnSegments
  <2>3. /\ SegmentsKeep
        /\ \A id \in DOMAIN segments : /\ segments'[id].status = segments[id].status
                                       /\ segments'[id].deleted = segments[id].deleted
        /\ \A id \in own : segments'[id].ready
    <3> HIDE DEF own
    <3> QED BY <1>1, <2>1, <2>2, ReadyRows
  <2>4. \A id \in OwnSegments(j) : segments[id].type # "parent" => segments'[id].ready
    BY <2>3
  <2> HIDE DEF own
  <2>5. /\ JobsRemain /\ GoneStays /\ Proceeds(jobs[j], jobs'[j])
        /\ jobs'[j].row = "completed" /\ jobs'[j].due
        /\ \A k \in DOMAIN jobs : k # j => jobs'[k] = jobs[k]
    BY <1>1, <2>1, <2>3, <2>4, EmbeddedBuild
  <2>6. /\ RevisionsTurn(j)
        /\ \A d \in DOMAIN revisions : \A v \in DOMAIN revisions[d] :
               revisions[d][v].job = j => revisions'[d][v].status = "pending"
    BY <1>1, <2>1, RevisedRows, ZenonT(30)
  <2>7. ~Done(jobs[j]) /\ ~OverThen(j)
    BY <1>1, <2>5 DEF Done, OverThen
  <2>8. Told(j)
    BY <1>1, <2>6, <2>7, NotOverTold
  <2>9. OthersStay(j)
    BY <2>3, SegmentsStay
  <2>10. DOMAIN jobs' = DOMAIN jobs /\ mixed \subseteq mixed' /\ unpublished \subseteq unpublished'
    BY <1>1, <2>5 DEF JobsRemain
  <2> QED BY <1>1, <2>5, <2>6, <2>7, <2>8, <2>9, <2>10, JobRevisions
<1> QED BY <1>2, <1>3

\* A job that publishes its segments completes its revision.
LEMMA PublishedRevision ==
    ASSUME BuildInv, RevisionInv, NEW j \in DOMAIN jobs, FinalizeIncremental(j)
    PROVE  RevisionInv'
<1>1. /\ JobsOK /\ RevisionsOK /\ jobs[j].due /\ jobs[j].row = "completed"
      /\ UNCHANGED <<client, documents, indexes, unpublished, mixed>>
      /\ revisions' = Revised(j, "completed")
  BY DEF BuildInv, RevisionInv, FinalizeIncremental, Due, library
<1>2. /\ SegmentsKeep
      /\ \A d \in jobs[j].documents :
             \/ Gone(d, jobs[j].target)
             \/ \A id \in OwnSegments(j) : segments'[id].status = "completed"
      /\ JobsRemain /\ GoneStays
      /\ jobs'[j].row = jobs[j].row /\ jobs'[j].status = "completed" /\ ~jobs'[j].due
      /\ Proceeds(jobs[j], jobs'[j])
      /\ \A k \in DOMAIN jobs : k # j => jobs'[k] = jobs[k]
  BY PublishedBuild
<1>3. /\ RevisionsTurn(j)
      /\ \A d \in DOMAIN revisions : \A v \in DOMAIN revisions[d] :
             revisions[d][v].job = j => revisions'[d][v].status = "completed"
  BY <1>1, RevisedRows
<1>4. OwnThen(j) = OwnSegments(j)
  BY <1>2 DEF SegmentsKeep, OwnThen, OwnSegments
<1>5. Told(j)
  <2>1. \A d \in DOMAIN revisions : \A v \in DOMAIN revisions[d] :
            revisions[d][v].job = j => d \in jobs[j].documents
    BY <1>1, Revisions DEF RevisionOK
  <2>2. \A d : GoneThen(d, jobs[j].target) <=> Gone(d, jobs[j].target)
    BY <1>1 DEF GoneThen, Gone
  <2> QED BY <1>1, <1>2, <1>3, <1>4, <2>1, <2>2 DEF Told, Done
<1>6. ~Done(jobs[j]) /\ OthersStay(j)
  BY <1>1, <1>2, SegmentsStay DEF Done
<1>7. DOMAIN jobs' = DOMAIN jobs /\ mixed \subseteq mixed' /\ unpublished \subseteq unpublished'
  BY <1>1, <1>2 DEF JobsRemain
<1> QED BY <1>1, <1>2, <1>3, <1>5, <1>6, <1>7, JobRevisions

\* A full build concerns no revision.
LEMMA SwitchedRevision ==
    ASSUME BuildInv, RevisionInv, NEW j \in DOMAIN jobs, FinalizeFull(j)
    PROVE  RevisionInv'
<1>1. /\ JobsOK /\ RevisionsOK
      /\ UNCHANGED <<client, documents, unpublished, mixed, revisions>>
  BY DEF BuildInv, RevisionInv, FinalizeFull, library
<1>2. /\ SegmentsKeep /\ jobs[j].full /\ GoneStays /\ JobsRemain /\ Proceeds(jobs[j], jobs'[j])
      /\ \A k \in DOMAIN jobs : k # j => jobs'[k] = jobs[k]
  BY SwitchedBuild
<1>3. jobs[j].version = 0
  BY <1>1, <1>2 DEF JobsOK, JobOK
<1>4. Told(j)
  <2>1. \A d \in DOMAIN revisions : \A v \in DOMAIN revisions[d] : revisions[d][v].job # j
    BY <1>1, <1>3, Revisions DEF RevisionOK
  <2> QED BY <2>1 DEF Told
<1>5. RevisionsTurn(j) /\ OthersStay(j)
  BY <1>1, <1>2, RevisionsUnturned, SegmentsStay
<1>6. DOMAIN jobs' = DOMAIN jobs /\ mixed \subseteq mixed' /\ unpublished \subseteq unpublished'
  BY <1>1, <1>2 DEF JobsRemain
<1> QED BY <1>1, <1>2, <1>3, <1>4, <1>5, <1>6, JobRevisions

\* Every step of a job.
LEMMA WorkingRevisions ==
    ASSUME StorageInv, BuildInv, RevisionInv, NEW j \in DOMAIN jobs, Working(j)
    PROVE  RevisionInv'
<1>1. UNCHANGED <<client, documents>>
  BY OthersLeaveRequests
<1>2. CASE Load(j) \/ Retry(j) \/ LoseFinalization(j)
  <2>1. UNCHANGED <<indexes, segments, mixed, revisions>>
    BY <1>2 DEF Load, Retry, LoseFinalization
  <2> QED BY <1>1, <1>2, <2>1, QuietSteps
<1>3. CASE FailJob(j)
  <2>1. /\ RowFails(j) /\ jobs[j].row \in {"loaded", "staged"}
        /\ UNCHANGED <<indexes, segments, mixed, revisions, unpublished>>
    BY <1>3 DEF FailJob
  <2> QED BY <1>1, <2>1, QuietSteps
<1> QED BY <1>2, <1>3, StagedRevision, EmbeddedRevision, FailedRevision, RefusedRevision,
           PublishedRevision, SwitchedRevision DEF Working

\* The cleanup task leaves revisions and what was published alone.
LEMMA CleanedRevisions ==
    ASSUME StorageInv, BuildInv, RevisionInv, NEW d, Cleanup(d) \/ CleanupFails(d)
    PROVE  BuildInv' /\ RevisionInv'
<1>1. UNCHANGED <<client, documents, indexes, jobs, vectors, revisions, unpublished, mixed>>
  BY DEF Cleanup, CleanupFails, build
<1>2. BuildInv' /\ SegmentsKeep
  <2>1. CASE Cleanup(d)
    BY <2>1, CleanedBuild DEF StorageInv
  <2>2. CASE CleanupFails(d)
    <3>1. UNCHANGED segments
      BY <2>2 DEF CleanupFails, build
    <3>2. JobsOK' /\ GoneStays /\ JobsMove
      BY <1>1 DEF BuildInv, JobsOK, JobOK, GoneStays, Grows, JobsMove
    <3>3. BuildInv'
      BY <1>1, <3>1, <3>2, JobsMoved DEF BuildInv, SegmentsOK
    <3>4. SegmentsKeep
      BY <3>1, SegmentRows DEF BuildInv, SegmentsKeep
    <3> QED BY <3>3, <3>4
  <2> QED BY <2>1, <2>2
<1>3. \A j : OwnSegments(j)' = OwnSegments(j)
  BY <1>2 DEF SegmentsKeep, OwnSegments
<1>4. RevisionsOK' /\ SavedEditsKnowTheirContent' /\ EditorsKnow'
  BY <1>1 DEF RevisionInv, RevisionsOK, RevisionOK, SavedEditsKnowTheirContent, EditorsKnow, Published
<1>5. OutcomesAreTold'
  BY <1>1, <1>2, <1>3 DEF RevisionInv, OutcomesAreTold, Gone, SegmentsKeep, OwnSegments
<1> QED BY <1>2, <1>4, <1>5 DEF RevisionInv

----------------------------------------------------------------------------
(* Revisions, when a request takes a step.                                 *)

\* Documents get their sequence of revisions, and a revision its job, with them.
RevisionsGrow ==
    /\ DOMAIN revisions' = DOMAIN documents' /\ DOMAIN revisions \subseteq DOMAIN revisions'
    /\ \A d \in DOMAIN revisions' \ DOMAIN revisions : revisions'[d] = <<>>
    /\ \A d \in DOMAIN revisions :
           /\ IsSeq(revisions'[d]) /\ DOMAIN revisions[d] \subseteq DOMAIN revisions'[d]
           /\ \A v \in DOMAIN revisions[d] : revisions'[d][v] = revisions[d][v]
           /\ \A v \in DOMAIN revisions'[d] \ DOMAIN revisions[d] :
                  LET r == revisions'[d][v]
                  IN  /\ DOMAIN r = RevisionFields /\ r.status = "pending"
                      /\ r.job \in DOMAIN jobs' \ DOMAIN jobs
                      /\ jobs'[r.job].version = v /\ jobs'[r.job].documents = {d}
                      /\ r.token # NoToken => r.published \subseteq r.knew \cup r.excused
    /\ \A j \in DOMAIN jobs' \ DOMAIN jobs : jobs'[j].version > 0 =>
           \A d \in jobs'[j].documents :
               /\ d \in DOMAIN revisions /\ jobs'[j].version \in DOMAIN revisions'[d]
               /\ revisions'[d][jobs'[j].version].job = j

\* What EditorsKnow says of one request after the step.
KnowsThen(s) ==
    /\ s.pc = "content" =>
           /\ s.token \in Nat /\ s.request.document \in DOMAIN documents'
           /\ \A v \in 1..s.token :
                  v \in s.excused \/ (v \in DOMAIN revisions'[s.request.document]
                                      /\ revisions'[s.request.document][v].status = "completed")
    /\ s.pc = "save" /\ s.token # NoToken =>
           s.token \in Nat /\ \A v \in 1..s.token : v \in s.excused \/ v \in s.knew

\* A step of a request.
LEMMA GrownRevisions ==
    ASSUME BuildInv, RevisionInv, JobsOK', JobsGrow, BuildRests, Grows(documents, documents'),
           RevisionsGrow, NEW c \in DOMAIN client, Moves(c), KnowsThen(client'[c])
    PROVE  RevisionInv'
<1>1. JobsOK /\ RevisionsOK /\ SegmentsOK
  BY DEF BuildInv, RevisionInv
<1>2. \A d \in DOMAIN revisions : \A v \in DOMAIN revisions[d] : RevisionOK(d, v, revisions[d][v])
  BY <1>1, Revisions
<1>3. ASSUME NEW d \in DOMAIN revisions', NEW v \in DOMAIN revisions'[d]
      PROVE  /\ d \in DOMAIN revisions
             /\ \/ v \in DOMAIN revisions[d] /\ revisions'[d][v] = revisions[d][v]
                \/ /\ DOMAIN revisions'[d][v] = RevisionFields /\ revisions'[d][v].status = "pending"
                   /\ revisions'[d][v].job \in DOMAIN jobs' \ DOMAIN jobs
                   /\ jobs'[revisions'[d][v].job].version = v
                   /\ jobs'[revisions'[d][v].job].documents = {d}
                   /\ revisions'[d][v].token # NoToken =>
                          revisions'[d][v].published
                              \subseteq revisions'[d][v].knew \cup revisions'[d][v].excused
  <2>1. d \in DOMAIN revisions
    BY DEF RevisionsGrow
  <2> QED BY <2>1 DEF RevisionsGrow
<1>4. RevisionsOK'
  <2>1. ASSUME NEW d \in DOMAIN revisions'
        PROVE  IsSeq(revisions'[d])
    BY EmptyIsSeq DEF RevisionsGrow
  <2>2. ASSUME NEW d \in DOMAIN revisions', NEW v \in DOMAIN revisions'[d]
        PROVE  RevisionOK(d, v, revisions[d][v])'
    BY <1>2, <1>3 DEF RevisionOK, JobsGrow
  <2>3. ASSUME NEW j \in DOMAIN jobs', jobs'[j].version > 0, NEW d \in jobs'[j].documents
        PROVE  /\ jobs'[j].version \in DOMAIN revisions'[d]
               /\ revisions'[d][jobs'[j].version].job = j
    <3>1. CASE j \in DOMAIN jobs
      <4>1. jobs'[j] = jobs[j] /\ d \in DOMAIN revisions
        BY <1>1, <2>3, <3>1 DEF JobsGrow, JobsOK, JobOK, RevisionsOK
      <4>2. jobs[j].version \in DOMAIN revisions[d] /\ revisions[d][jobs[j].version].job = j
        BY <1>1, <2>3, <3>1, <4>1 DEF RevisionsOK
      <4> QED BY <4>1, <4>2 DEF RevisionsGrow
    <3>2. CASE j \notin DOMAIN jobs
      BY <2>3, <3>2 DEF RevisionsGrow
    <3> QED BY <3>1, <3>2
  <2>4. DOMAIN revisions' = DOMAIN documents'
    BY DEF RevisionsGrow
  <2> QED BY <2>1, <2>2, <2>3, <2>4 DEF RevisionsOK
<1>5. SavedEditsKnowTheirContent'
  BY <1>3 DEF RevisionInv, SavedEditsKnowTheirContent
<1>6. EditorsKnow'
  <2>1. ASSUME NEW e \in DOMAIN client, e # c
        PROVE  KnowsThen(client[e])
    <3>1. client[e].request.document \in DOMAIN documents =>
              /\ client[e].request.document \in DOMAIN documents'
              /\ \A v \in Published(client[e].request.document) :
                     /\ v \in DOMAIN revisions'[client[e].request.document]
                     /\ revisions'[client[e].request.document][v].status = "completed"
      BY <1>1 DEF RevisionsOK, RevisionsGrow, Published, Grows
    <3> QED BY <3>1 DEF RevisionInv, EditorsKnow, KnowsThen
  <2>2. DOMAIN client' = DOMAIN client /\ \A e \in DOMAIN client : e # c => client'[e] = client[e]
    BY DEF Moves
  <2>3. \A e \in DOMAIN client' : KnowsThen(client'[e])
    BY <2>1, <2>2
  <2> QED BY <2>3 DEF EditorsKnow, KnowsThen, Published
<1>7. OutcomesAreTold'
  <2>1. SUFFICES ASSUME NEW d \in DOMAIN revisions', NEW v \in DOMAIN revisions'[d],
                        ~GoneThen(d, jobs'[revisions'[d][v].job].target)
                 PROVE  LET k == revisions'[d][v].job
                            status == revisions'[d][v].status
                        IN  /\ status = "completed" =>
                                   \A id \in OwnThen(k) : segments'[id].status = "completed"
                            /\ status = "pending" /\ OverThen(k) => d \in mixed'
    BY DEF OutcomesAreTold, Gone, GoneThen, OverThen, OwnThen, OwnSegments
  <2>2. PICK k : k = revisions'[d][v].job
    OBVIOUS
  <2>3. CASE v \in DOMAIN revisions[d] /\ revisions'[d][v] = revisions[d][v]
    <3>1. d \in DOMAIN revisions /\ k \in DOMAIN jobs /\ jobs'[k] = jobs[k]
      BY <1>2, <1>3, <2>2, <2>3 DEF RevisionOK, JobsGrow
    <3>2. jobs[k].target \in DOMAIN indexes /\ d \in DOMAIN documents
      BY <1>1, <3>1 DEF JobsOK, JobOK, RevisionsOK
    <3>3. ~Gone(d, jobs[k].target)
      BY <2>1, <2>2, <3>1, <3>2 DEF Gone, GoneThen, JobsGrow, Grows
    <3>4. /\ revisions[d][v].status = "completed" =>
                 \A id \in OwnSegments(k) : segments[id].status = "completed"
          /\ revisions[d][v].status = "pending" /\ Over(k) => d \in mixed
      BY <2>2, <2>3, <3>1, <3>3 DEF RevisionInv, OutcomesAreTold, Over
    <3>5. OwnThen(k) = OwnSegments(k) /\ UNCHANGED <<segments, mixed>> /\ (OverThen(k) => Over(k))
      BY <3>1 DEF BuildRests, OwnThen, OwnSegments, Over, OverThen
    <3> QED BY <2>2, <2>3, <3>4, <3>5
  <2>4. CASE revisions'[d][v].status = "pending" /\ k \in DOMAIN jobs' \ DOMAIN jobs
    <3>1. ~OverThen(k)
      BY <2>4 DEF JobsGrow, OverThen
    <3> QED BY <2>2, <2>4, <3>1
  <2> QED BY <1>3, <2>2, <2>3, <2>4
<1> QED BY <1>4, <1>5, <1>6, <1>7 DEF RevisionInv

\* A step that leaves the revisions alone, or gives a new document none.
LEMMA DocumentsGrow ==
    ASSUME StorageInv, RevisionsOK, NEW c \in DOMAIN client, ClientStep(c), ~Revising(c)
    PROVE  /\ DOMAIN revisions' = DOMAIN documents' /\ DOMAIN revisions \subseteq DOMAIN revisions'
           /\ \A d \in DOMAIN revisions : revisions'[d] = revisions[d]
           /\ \A d \in DOMAIN revisions' \ DOMAIN revisions : revisions'[d] = <<>>
<1>1. DOMAIN revisions = DOMAIN documents
  BY DEF RevisionsOK
<1>2. CASE UNCHANGED revisions /\ DOMAIN documents' = DOMAIN documents
  BY <1>1, <1>2
<1>3. CASE Created(c)
  <2> DEFINE new == NewId(c)
             row == Row(File(c))
  <2>1. documents' = With(documents, new, row) /\ revisions' = With(revisions, new, <<>>)
    BY <1>3 DEF Created
  <2> HIDE DEF new, row
  <2>2. /\ DOMAIN documents' = DOMAIN documents \cup {new}
        /\ DOMAIN revisions' = DOMAIN revisions \cup {new}
        /\ \A d \in DOMAIN revisions : revisions'[d] = revisions[d]
        /\ new \notin DOMAIN revisions => revisions'[new] = <<>>
    BY <2>1 DEF With, Joined
  <2> QED BY <1>1, <2>2
<1>4. CASE Uploading(c)
  <2>1. \/ Created(c)
        \/ UNCHANGED revisions
           /\ (UNCHANGED documents \/ documents' = [documents EXCEPT ![Compensated(c).document].deleted = TRUE])
    BY <1>4 DEF Uploading, CheckFile, PutObject, PutFails, CreateDocument, CreateFails, UndoPut,
                FilesDone, Confirm, ConfirmFails, Compensate, CompensateFails, RemoveCompensated,
                library, build
  <2>2. UNCHANGED documents \/ documents' = [documents EXCEPT ![Compensated(c).document].deleted = TRUE]
            => DOMAIN documents' = DOMAIN documents
    OBVIOUS
  <2> QED BY <1>2, <1>3, <2>1, <2>2
<1>5. CASE Governing(c)
  <2>1. UNCHANGED revisions /\ DOMAIN documents' = DOMAIN documents
    BY <1>5 DEF Governing, Govern, Delete, DispatchCleanup, build
  <2> QED BY <1>2, <2>1
<1>6. CASE Searching(c) \/ Die(c)
  <2>1. UNCHANGED <<revisions, documents>>
    BY <1>6 DEF Searching, ReadIndex, SearchVectors, SearchFails, SearchKeywords, ReadRows,
                ReadParents, Die, library, build
  <2> QED BY <1>2, <2>1
<1> QED BY <1>4, <1>5, <1>6 DEF ClientStep

\* The stages of the segment editor are of requests to edit and to save.
LEMMA NoEditor ==
    ASSUME StorageInv, NEW c \in DOMAIN client, ClientStep(c), ~Revising(c)
    PROVE  client'[c].pc \notin {"content", "save"}
<1> DEFINE s == client[c]
           t == client'[c]
<1>1. ClientOK(c, s, documents) /\ Moves(c) /\ t.request = s.request
  BY ClientStorage DEF StorageInv, RequestInv, StorageMove
<1>2. s.request.kind \notin {"edit", "save", "reindex"}
  <2>1. s.pc \notin {"token", "content", "save", "reindex", "done"}
    BY ZenonT(30) DEF ClientStep, Uploading, CheckFile, PutObject, PutFails, CreateDocument, CreateFails,
           UndoPut, FilesDone, Confirm, ConfirmFails, Compensate, CompensateFails,
           RemoveCompensated, Governing, Govern, Delete, DispatchCleanup, Searching, ReadIndex,
           SearchVectors, SearchFails, SearchKeywords, ReadRows, ReadParents, Die, At
  <2> QED BY <1>1, <2>1, Stages DEF ClientOK
<1>3. c \in DOMAIN client' /\ RequestInv'
  <2>1. RequestInv'
    BY RequestStep DEF StorageInv, Next, ClientStep
  <2> QED BY <1>1, <2>1 DEF Moves
<1>4. ClientOK(c, t, documents')
  BY <1>3 DEF RequestInv
<1> HIDE DEF s, t
<1>5. t.pc \notin {"content", "save"}
  BY <1>1, <1>2, <1>4, Stages DEF ClientOK, Accepted
<1> QED BY <1>5 DEF t

\* A step of a request that is no editor's.
LEMMA ClientBuildAndRevisions ==
    ASSUME StorageInv, BuildInv, RevisionInv, NEW c \in DOMAIN client, ClientStep(c), ~Revising(c)
    PROVE  BuildInv' /\ RevisionInv'
<1>1. JobsOK /\ RevisionsOK /\ vectors \subseteq DOMAIN segments /\ RequestInv
  BY DEF BuildInv, SegmentsOK, RevisionInv, StorageInv
<1>2. Grows(documents, documents') /\ Moves(c)
  BY <1>1, RequestStep, ClientStorage DEF Next, ClientStep
<1>3. /\ JobsOK' /\ JobsGrow /\ BuildRests
      /\ \A j \in DOMAIN jobs' \ DOMAIN jobs : jobs'[j].version = 0
  BY <1>1, <1>2, UploadingBuilds DEF ClientStep
<1>4. BuildInv'
  BY <1>1, <1>2, <1>3, JobsGrown, JobsMoved DEF BuildRests
<1>5. RevisionsGrow
  <2>1. \A d \in DOMAIN revisions : IsSeq(revisions[d])
    BY <1>1 DEF RevisionsOK
  <2> QED BY <1>1, <1>3, <2>1, DocumentsGrow DEF RevisionsGrow
<1>6. KnowsThen(client'[c])
  BY NoEditor DEF KnowsThen
<1> QED BY <1>2, <1>3, <1>4, <1>5, <1>6, GrownRevisions

\* A step that leaves the revisions alone and adds no job of a revision.
LEMMA RevisionsRest ==
    ASSUME RevisionsOK, UNCHANGED <<documents, revisions>>,
           \A j \in DOMAIN jobs' \ DOMAIN jobs : jobs'[j].version = 0
    PROVE  RevisionsGrow
BY DEF RevisionsOK, RevisionsGrow

\* The token is read, then the content.
LEMMA ReadingKnows ==
    ASSUME StorageInv, RevisionInv, NEW c \in DOMAIN client, ReadToken(c) \/ ReadContent(c)
    PROVE  KnowsThen(client'[c])
<1> DEFINE s == client[c]
           d == Request(c).document
<1>1. DOMAIN s = ClientFields /\ s.request = Request(c) /\ UNCHANGED <<documents, revisions>>
  BY DEF StorageInv, RequestInv, ClientOK, Request, ReadToken, ReadContent, library, build
<1>2. ASSUME NEW code, Finish(c, code)
      PROVE  KnowsThen(client'[c])
  <2> DEFINE t == [s EXCEPT !.pc = "done", !.code = code]
  <2>1. client'[c] = t
    BY <1>2 DEF Finish, Go
  <2>2. t.pc = "done"
    <3> HIDE DEF s
    <3> QED BY <1>1 DEF ClientFields
  <2> HIDE DEF t
  <2> QED BY <2>1, <2>2 DEF KnowsThen
<1>3. CASE ReadToken(c)
  <2> DEFINE t == [s EXCEPT !.pc = "content", !.token = Latest(d),
                            !.excused = DOMAIN revisions[d] \ Published(d)]
  <2>1. CASE Live(d) /\ Go(c, t)
    <3>1. client'[c] = t /\ d \in DOMAIN documents
      BY <2>1 DEF Go, Live
    <3>2. Latest(d) \in Nat /\ DOMAIN revisions[d] = 1 .. Latest(d)
      BY <3>1, OneMore DEF RevisionInv, RevisionsOK, Latest
    <3>3. PICK excused : excused = DOMAIN revisions[d] \ Published(d)
      OBVIOUS
    <3>4. PICK token : token = Latest(d)
      OBVIOUS
    <3>5. client'[c] = [s EXCEPT !.pc = "content", !.token = token, !.excused = excused]
      BY <3>1, <3>3, <3>4
    <3>6. client'[c].pc = "content" /\ client'[c].token = token /\ client'[c].excused = excused
          /\ client'[c].request = Request(c)
      <4> HIDE DEF s
      <4> QED BY <1>1, <3>5 DEF ClientFields
    <3>7. \A v \in 1 .. token : v \in excused \/ (v \in DOMAIN revisions[d]
                                                  /\ revisions[d][v].status = "completed")
      BY <3>2, <3>3, <3>4 DEF Published
    <3> HIDE DEF t
    <3> QED BY <1>1, <3>1, <3>2, <3>4, <3>6, <3>7 DEF KnowsThen
  <2>2. CASE ~(Live(d) /\ Go(c, t))
    BY <1>2, <1>3, <2>2 DEF ReadToken
  <2> QED BY <2>1, <2>2
<1>4. CASE ReadContent(c)
  <2> DEFINE t == [s EXCEPT !.pc = "save", !.knew = Published(d)]
  <2>1. CASE Go(c, t)
    <3>1. PICK knew : knew = Published(d)
      OBVIOUS
    <3>2. client'[c] = [s EXCEPT !.pc = "save", !.knew = knew] /\ s.pc = "content"
      BY <1>4, <2>1, <3>1 DEF Go, ReadContent, At
    <3>3. client'[c].pc = "save" /\ client'[c].knew = knew /\ client'[c].token = s.token
          /\ client'[c].excused = s.excused
      <4> HIDE DEF s
      <4> QED BY <1>1, <3>2 DEF ClientFields
    <3>4. s.token \in Nat /\ \A v \in 1 .. s.token : v \in s.excused \/ v \in knew
      BY <1>1, <3>1, <3>2 DEF RevisionInv, EditorsKnow
    <3> HIDE DEF t, s
    <3> QED BY <3>3, <3>4 DEF KnowsThen
  <2>2. CASE ~Go(c, t)
    BY <1>2, <1>4, <2>2 DEF ReadContent
  <2> QED BY <2>1, <2>2
<1> QED BY <1>3, <1>4

\* A request that ends promises nothing.
LEMMA EndingKnows ==
    ASSUME StorageInv, NEW c \in DOMAIN client, NEW code, Finish(c, code)
    PROVE  KnowsThen(client'[c])
<1> DEFINE t == [client[c] EXCEPT !.pc = "done", !.code = code]
<1>1. client'[c] = t
  BY DEF Finish, Go
<1>2. DOMAIN client[c] = ClientFields
  BY DEF StorageInv, RequestInv, ClientOK
<1>3. t.pc = "done"
  BY <1>2 DEF ClientFields
<1> HIDE DEF t
<1> QED BY <1>1, <1>3 DEF KnowsThen

\* The job of a reindexing has no revision.
LEMMA ReindexedJob ==
    ASSUME JobsOK, NEW c \in DOMAIN client, Reindex(c)
    PROVE  \A j \in DOMAIN jobs' \ DOMAIN jobs : jobs'[j].version = 0
<1>1. CASE jobs' = jobs
  BY <1>1
<1>2. CASE jobs' # jobs
  <2>1. PICK full, docs, target : jobs' = Append(jobs, Job(full, docs, target, 0, <<>>))
    BY <1>2 DEF Reindex, FullJob
  <2>2. PICK job : job = Job(full, docs, target, 0, <<>>)
    OBVIOUS
  <2>3. job.version = 0 /\ jobs' = Append(jobs, job)
    BY <2>1, <2>2 DEF Job
  <2> QED BY <2>3, JobAdded DEF JobsOK
<1> QED BY <1>1, <1>2

\* A revision is saved with its job; it knows what was published, or its token
\* is stale.
LEMMA SavedRevision ==
    ASSUME StorageInv, BuildInv, RevisionInv, NEW c \in DOMAIN client, Save(c)
    PROVE  RevisionsGrow
<1> DEFINE d == Request(c).document
           s == client[c]
<1>1. JobsOK /\ RevisionsOK /\ UNCHANGED documents /\ s.pc = "save" /\ s.request = Request(c)
  BY DEF BuildInv, RevisionInv, Save, library, At, Request
<1>2. CASE UNCHANGED <<jobs, revisions>>
  BY <1>1, <1>2, RevisionsRest
<1>3. CASE ~UNCHANGED <<jobs, revisions>>
  <2>1. /\ Live(d) /\ ~Stale(c)
        /\ jobs' = Append(jobs, Job(FALSE, {d}, CHOOSE i \in Active : TRUE,
                                     Latest(d) + 1, Request(c).items))
        /\ revisions' = [revisions EXCEPT ![d] = Append(revisions[d],
               [status |-> "pending", job |-> NewJob, token |-> client[c].token,
                knew |-> client[c].knew, excused |-> client[c].excused,
                published |-> Published(d)])]
    BY <1>3 DEF Save
  <2>2. d \in DOMAIN documents /\ d \in DOMAIN revisions /\ DOMAIN documents = DOMAIN revisions
    BY <1>1, <2>1 DEF Live, RevisionsOK
  <2>3. PICK e : e = d
    OBVIOUS
  <2>4. PICK n : n = NewJob
    OBVIOUS
  <2>5. PICK v : v = Latest(e) + 1
    OBVIOUS
  <2>6. PICK r : r = [status |-> "pending", job |-> n, token |-> s.token, knew |-> s.knew,
                      excused |-> s.excused, published |-> Published(e)]
    OBVIOUS
  <2>7. PICK job : job = Job(FALSE, {e}, CHOOSE i \in Active : TRUE, v, Request(c).items)
    OBVIOUS
  <2>8. PICK old : old = revisions[e]
    OBVIOUS
  <2>9. /\ jobs' = Append(jobs, job) /\ revisions' = [revisions EXCEPT ![e] = Append(old, r)]
        /\ e \in DOMAIN revisions
    BY <2>1, <2>2, <2>3, <2>4, <2>5, <2>6, <2>7, <2>8
  <2>10. /\ DOMAIN jobs' = DOMAIN jobs \cup {n} /\ n \notin DOMAIN jobs /\ jobs'[n] = job
    BY <1>1, <2>4, <2>9, JobAdded DEF JobsOK
  <2>11. job.version = v /\ job.documents = {e}
    BY <2>7 DEF Job
  <2>12. IsSeq(old) /\ Latest(e) = Len(old)
    BY <1>1, <2>8, <2>9 DEF RevisionsOK, Latest
  <2>13. /\ IsSeq(Append(old, r)) /\ v \in Nat \ {0} /\ DOMAIN old = 1 .. (v - 1)
         /\ DOMAIN Append(old, r) = 1 .. v
         /\ \A w \in DOMAIN old : Append(old, r)[w] = old[w]
         /\ Append(old, r)[v] = r
    <3>1. /\ IsSeq(Append(old, r)) /\ Len(old) \in Nat /\ DOMAIN old = 1 .. Len(old)
          /\ DOMAIN Append(old, r) = 1 .. (Len(old) + 1)
          /\ \A w \in DOMAIN old : Append(old, r)[w] = old[w]
          /\ Append(old, r)[Len(old) + 1] = r
      BY <2>12, OneMore
    <3>2. v = Len(old) + 1
      BY <2>5, <2>12
    <3> QED BY <3>1, <3>2
  <2>14. PICK new : new = Append(old, r)
    OBVIOUS
  <2>15. /\ IsSeq(new) /\ DOMAIN old \subseteq DOMAIN new
         /\ \A w \in DOMAIN old : new[w] = old[w]
         /\ \A w \in DOMAIN new \ DOMAIN old : w = v
         /\ new[v] = r /\ v \in DOMAIN new
    BY <2>13, <2>14
  <2>16. /\ DOMAIN revisions' = DOMAIN revisions /\ revisions'[e] = new
         /\ \A x \in DOMAIN revisions : x # e => revisions'[x] = revisions[x]
    BY <2>9, <2>14
  <2>17. /\ DOMAIN r = RevisionFields /\ r.status = "pending" /\ r.job = n
         /\ r.token = s.token /\ r.knew = s.knew /\ r.excused = s.excused
         /\ r.published = Published(e)
    BY <2>6 DEF RevisionFields
  <2>18. r.token # NoToken => r.published \subseteq r.knew \cup r.excused
    <3>1. SUFFICES ASSUME s.token # NoToken
                   PROVE  \A w \in Published(e) : w \in s.knew \/ w \in s.excused
      BY <2>17
    <3>2. s.token = Latest(e)
      BY <2>1, <2>3, <3>1 DEF Stale
    <3>3. \A w \in 1 .. s.token : w \in s.excused \/ w \in s.knew
      BY <1>1, <3>1 DEF RevisionInv, EditorsKnow
    <3>4. Published(e) \subseteq 1 .. s.token
      <4>1. DOMAIN revisions[e] = 1 .. Latest(e)
        BY <2>8, <2>12, OneMore
      <4> QED BY <3>2, <4>1 DEF Published
    <3> QED BY <3>3, <3>4
  <2>19. \A x \in DOMAIN revisions : IsSeq(revisions[x])
    BY <1>1 DEF RevisionsOK
  <2>20. \A x \in DOMAIN revisions :
           /\ IsSeq(revisions'[x]) /\ DOMAIN revisions[x] \subseteq DOMAIN revisions'[x]
           /\ \A w \in DOMAIN revisions[x] : revisions'[x][w] = revisions[x][w]
           /\ \A w \in DOMAIN revisions'[x] \ DOMAIN revisions[x] :
                  x = e /\ w = v /\ revisions'[x][w] = r
    BY <2>8, <2>15, <2>16, <2>19
  <2>21. \A j \in DOMAIN jobs' \ DOMAIN jobs : j = n
    BY <2>10
  <2> HIDE DEF d, s
  <2> QED BY <1>1, <2>2, <2>9, <2>10, <2>11, <2>15, <2>16, <2>17, <2>18, <2>20, <2>21
             DEF RevisionsGrow
<1> QED BY <1>2, <1>3

\* A step of the segment editor, and a reindexing.
LEMMA EditorBuildAndRevisions ==
    ASSUME StorageInv, BuildInv, RevisionInv, NEW c \in DOMAIN client, Revising(c)
    PROVE  BuildInv' /\ RevisionInv'
<1>1. JobsOK /\ RevisionsOK /\ vectors \subseteq DOMAIN segments /\ RequestInv
  BY DEF BuildInv, SegmentsOK, RevisionInv, StorageInv
<1>2. Grows(documents, documents') /\ Moves(c) /\ UNCHANGED documents
  <2>1. UNCHANGED documents
    BY DEF Revising, ReadToken, ReadContent, Save, Reindex, library
  <2> QED BY <1>1, <2>1, RequestStep, ClientStorage DEF Next, ClientStep
<1>3. JobsOK' /\ JobsGrow /\ BuildRests
  <2>1. \A d \in DOMAIN documents : d \in DOMAIN revisions /\ Latest(d) \in Nat
    BY <1>1, OneMore DEF RevisionsOK, Latest
  <2> QED BY <1>1, <2>1, RevisingBuilds
<1>4. BuildInv'
  BY <1>1, <1>2, <1>3, JobsGrown, JobsMoved DEF BuildRests
<1>5. RevisionsGrow
  <2>1. CASE Save(c)
    BY <2>1, SavedRevision
  <2>2. CASE Reindex(c)
    <3>1. UNCHANGED revisions
      BY <2>2 DEF Reindex
    <3> QED BY <1>1, <1>2, <2>2, <3>1, ReindexedJob, RevisionsRest
  <2>3. CASE ReadToken(c) \/ ReadContent(c)
    <3>1. UNCHANGED <<jobs, revisions>>
      BY <2>3 DEF ReadToken, ReadContent, build
    <3> QED BY <1>1, <1>2, <3>1, RevisionsRest
  <2> QED BY <2>1, <2>2, <2>3 DEF Revising
<1>6. KnowsThen(client'[c])
  <2>1. CASE Save(c) \/ Reindex(c)
    <3>1. Finish(c, 404) \/ Finish(c, 409) \/ Finish(c, 422) \/ Finish(c, 202)
      BY <2>1 DEF Save, Reindex
    <3> QED BY <3>1, EndingKnows
  <2>2. CASE ReadToken(c) \/ ReadContent(c)
    BY <2>2, ReadingKnows
  <2> QED BY <2>1, <2>2 DEF Revising
<1> QED BY <1>2, <1>3, <1>4, <1>5, <1>6, GrownRevisions

----------------------------------------------------------------------------
(* In the beginning.                                                       *)

\* The segments the system starts with are whole and published.
LEMMA FirstSegments ==
    ASSUME NEW s \in Scenarios
    PROVE  LET staged == Together({Staging(1, 1, d, SourceItems[s.documents[d].hash], TRUE) :
                                       d \in DOMAIN s.documents})
           IN  \A id \in DOMAIN staged :
                   /\ \E d \in DOMAIN s.documents : StagedRow(1, 1, d, id, staged[id])
                   /\ staged[id].ready
<1> DEFINE rows(d) == Staging(1, 1, d, SourceItems[s.documents[d].hash], TRUE)
           parts == {rows(d) : d \in DOMAIN s.documents}
<1>1. \A d \in DOMAIN s.documents : \A id \in DOMAIN rows(d) :
          StagedRow(1, 1, d, id, rows(d)[id]) /\ rows(d)[id].ready
  <2>1. SUFFICES ASSUME NEW d \in DOMAIN s.documents
                 PROVE  \A id \in DOMAIN rows(d) :
                            StagedRow(1, 1, d, id, rows(d)[id]) /\ rows(d)[id].ready
    OBVIOUS
  <2> DEFINE items == SourceItems[s.documents[d].hash]
  <2> HIDE DEF items
  <2>2. \A id \in DOMAIN Staging(1, 1, d, items, TRUE) :
            /\ StagedRow(1, 1, d, id, Staging(1, 1, d, items, TRUE)[id])
            /\ Staging(1, 1, d, items, TRUE)[id].ready
    BY StagingRows
  <2> QED BY <2>2 DEF items
<1> HIDE DEF rows
<1>2. ASSUME NEW id \in DOMAIN Together(parts)
      PROVE  /\ \E d \in DOMAIN s.documents : StagedRow(1, 1, d, id, Together(parts)[id])
             /\ Together(parts)[id].ready
  <2>1. \E f \in parts : id \in DOMAIN f /\ Together(parts)[id] = f[id]
    <3> HIDE DEF parts
    <3> QED BY TogetherIs
  <2>2. PICK d \in DOMAIN s.documents : id \in DOMAIN rows(d) /\ Together(parts)[id] = rows(d)[id]
    BY <2>1
  <2> QED BY <1>1, <2>2
<1> QED BY <1>2 DEF rows

\* The invariant of the build holds in the beginning.
LEMMA BuildInit == ASSUME Init PROVE BuildInv
<1>1. PICK s \in Scenarios :
          LET present == DOMAIN s.documents
              staged == Together({Staging(1, 1, d, SourceItems[s.documents[d].hash], TRUE) :
                                      d \in present})
          IN  /\ documents = [d \in present |-> Row(s.documents[d])]
              /\ indexes = IF present = {} THEN <<>> ELSE <<"active">>
              /\ jobs = IF present = {} THEN <<>>
                        ELSE <<[full |-> TRUE, documents |-> present, target |-> 1, version |-> 0,
                                items |-> <<>>, row |-> "completed", status |-> "completed",
                                due |-> FALSE]>>
              /\ segments = [id \in DOMAIN staged |->
                               [staged[id] EXCEPT !.status = "completed",
                                                  !.keyed = staged[id].type # "parent"]]
              /\ vectors = IF s.technique = "economy" THEN {}
                           ELSE {id \in DOMAIN staged : staged[id].type # "parent"}
  BY DEF Init
<1> DEFINE present == DOMAIN s.documents
           staged == Together({Staging(1, 1, d, SourceItems[s.documents[d].hash], TRUE) :
                                   d \in present})
           first == [full |-> TRUE, documents |-> present, target |-> 1, version |-> 0,
                     items |-> <<>>, row |-> "completed", status |-> "completed", due |-> FALSE]
<1>2. \A id \in DOMAIN staged :
          (\E d \in present : StagedRow(1, 1, d, id, staged[id])) /\ staged[id].ready
  BY FirstSegments
<1>3. /\ segments = [id \in DOMAIN staged |->
                       [staged[id] EXCEPT !.status = "completed",
                                                  !.keyed = staged[id].type # "parent"]]
      /\ vectors \subseteq DOMAIN staged /\ DOMAIN documents = present
      /\ present = {} => indexes = <<>> /\ jobs = <<>>
      /\ present # {} => indexes = <<"active">> /\ jobs = <<first>>
  BY <1>1
<1>4. /\ DOMAIN first = JobFields /\ first.full = TRUE /\ first.documents = present
      /\ first.target = 1 /\ first.version = 0 /\ first.row = "completed"
      /\ first.status = "completed" /\ first.due = FALSE
  BY DEF JobFields
<1> HIDE DEF first, staged, present
<1>5. /\ DOMAIN segments = DOMAIN staged /\ vectors \subseteq DOMAIN segments
      /\ \A id \in DOMAIN segments :
             /\ DOMAIN segments[id] = SegmentFields /\ segments[id].document \in present
             /\ segments[id].index = 1 /\ segments[id].job = 1
             /\ id = Id(1, segments[id].document, id[4])
             /\ \/ segments[id].parent = <<>>
                \/ segments[id].parent = Id(1, segments[id].document, segments[id].parent[4])
             /\ segments[id].status = "completed" /\ segments[id].deleted = FALSE
             /\ segments[id].keyed \in BOOLEAN /\ segments[id].ready \in BOOLEAN /\ segments[id].ready
  <2>1. ASSUME NEW id \in DOMAIN staged
        PROVE  /\ DOMAIN segments[id] = SegmentFields /\ segments[id].document \in present
               /\ segments[id].index = 1 /\ segments[id].job = 1
               /\ id = Id(1, segments[id].document, id[4])
               /\ \/ segments[id].parent = <<>>
                  \/ segments[id].parent = Id(1, segments[id].document, segments[id].parent[4])
               /\ segments[id].status = "completed" /\ segments[id].deleted = FALSE
               /\ segments[id].keyed \in BOOLEAN /\ segments[id].ready \in BOOLEAN /\ segments[id].ready
    <3>1. PICK d \in present : StagedRow(1, 1, d, id, staged[id])
      BY <1>2
    <3>2. PICK row : row = staged[id]
      OBVIOUS
    <3>0. PICK keyed \in BOOLEAN : keyed = (row.type # "parent")
      OBVIOUS
    <3>3. PICK new : new = [row EXCEPT !.status = "completed", !.keyed = keyed]
      OBVIOUS
    <3>4. segments[id] = new
      BY <1>3, <3>0, <3>2, <3>3
    <3>5. StagedRow(1, 1, d, id, row) /\ row.ready
      BY <1>2, <3>1, <3>2
    <3>6. /\ DOMAIN new = SegmentFields /\ new.document = d /\ new.index = 1 /\ new.job = 1
          /\ new.parent = row.parent /\ new.status = "completed" /\ new.deleted = FALSE
          /\ new.keyed = keyed /\ new.ready = row.ready
      BY ONLY <3>3, <3>5 DEF StagedRow, SegmentFields
    <3> QED BY <3>0, <3>4, <3>5, <3>6 DEF StagedRow
  <2> QED BY <1>3, <2>1
<1>6. /\ JobsOK
      /\ present # {} => 1 \in DOMAIN jobs /\ jobs[1] = first
      /\ \A j \in DOMAIN jobs : j = 1 /\ jobs[j] = first
  <2>1. CASE present = {}
    <3>1. jobs = <<>> /\ indexes = <<>>
      BY <1>3, <2>1
    <3>2. DOMAIN jobs = {} /\ DOMAIN indexes = {} /\ IsSeq(jobs)
      BY <3>1, EmptyIsSeq
    <3> QED BY <2>1, <3>2 DEF JobsOK
  <2>2. CASE present # {}
    <3>1. jobs = <<first>> /\ indexes = <<"active">>
      BY <1>3, <2>2
    <3>2. DOMAIN jobs = {1} /\ jobs[1] = first /\ DOMAIN indexes = {1} /\ indexes[1] = "active"
      BY <3>1
    <3>3. IsSeq(jobs)
      BY <3>1, <3>2 DEF IsSeq, ToSet
    <3>4. JobOK(1, first)
      <4>1. first.full \in BOOLEAN /\ first.full /\ first.due \in BOOLEAN /\ ~first.due
        BY <1>4
      <4>2. first.target \in DOMAIN indexes /\ first.version \in Nat /\ ~(first.version > 0)
        BY <1>4, <3>2
      <4>3. first.documents \subseteq DOMAIN documents
        BY <1>3, <1>4
      <4> QED BY <1>4, <4>1, <4>2, <4>3 DEF JobOK
    <3> QED BY <1>4, <3>2, <3>3, <3>4 DEF JobsOK
  <2> QED BY <2>1, <2>2
<1>7. SegmentsOK
  <2>1. \A id \in DOMAIN segments : present # {}
    BY <1>5
  <2> QED BY <1>4, <1>5, <1>6, <2>1, ZenonT(30) DEF SegmentsOK, SegmentOK
<1>8. OwnSegmentsOK
  BY <1>4, <1>5, <1>6 DEF OwnSegmentsOK, OwnSegments
<1>9. DeletedEarlyAreGone /\ StagedTogetherAreMixed /\ ShownIsOneBuild
  BY <1>5 DEF DeletedEarlyAreGone, StagedTogetherAreMixed, ShownIsOneBuild, IsStaged
<1>10. PublishedEarlyAreMixed
  <2>1. \A id \in DOMAIN segments : jobs[segments[id].job].full
    <3>1. \A id \in DOMAIN segments : present # {}
      BY <1>5
    <3> QED BY <1>4, <1>5, <1>6, <3>1
  <2> QED BY <2>1 DEF PublishedEarlyAreMixed
<1> QED BY <1>6, <1>7, <1>8, <1>9, <1>10 DEF BuildInv

\* So does that of the revisions.
LEMMA RevisionInit == ASSUME Init PROVE RevisionInv
<1>1. PICK s \in Scenarios :
          /\ documents = [d \in DOMAIN s.documents |-> Row(s.documents[d])]
          /\ revisions = [d \in DOMAIN s.documents |-> <<>>]
          /\ client = [c \in DOMAIN s.requests |-> Begun(s.requests[c])]
          /\ \A j \in DOMAIN jobs : jobs[j].version = 0
  <2>1. PICK s \in Scenarios :
          /\ documents = [d \in DOMAIN s.documents |-> Row(s.documents[d])]
          /\ revisions = [d \in DOMAIN s.documents |-> <<>>]
          /\ client = [c \in DOMAIN s.requests |-> Begun(s.requests[c])]
          /\ \/ jobs = <<>>
             \/ jobs = <<[full |-> TRUE, documents |-> DOMAIN s.documents, target |-> 1,
                          version |-> 0, items |-> <<>>, row |-> "completed",
                          status |-> "completed", due |-> FALSE]>>
    BY DEF Init
  <2>2. PICK job : job = [full |-> TRUE, documents |-> DOMAIN s.documents, target |-> 1,
                          version |-> 0, items |-> <<>>, row |-> "completed",
                          status |-> "completed", due |-> FALSE]
    OBVIOUS
  <2>3. job.version = 0
    BY <2>2
  <2>4. jobs = <<>> \/ jobs = <<job>>
    BY <2>1, <2>2
  <2>5. \A j \in DOMAIN jobs : jobs[j].version = 0
    BY <2>3, <2>4
  <2> QED BY <2>1, <2>5
<1>2. DOMAIN documents = DOMAIN revisions /\ \A d \in DOMAIN revisions : revisions[d] = <<>>
  BY <1>1
<1>3. \A d \in DOMAIN revisions : DOMAIN revisions[d] = {} /\ IsSeq(revisions[d])
  BY <1>2, EmptyIsSeq
<1>4. RevisionsOK
  BY <1>1, <1>2, <1>3 DEF RevisionsOK
<1>5. SavedEditsKnowTheirContent /\ OutcomesAreTold
  BY <1>3 DEF SavedEditsKnowTheirContent, OutcomesAreTold
<1>6. EditorsKnow
  <2>1. ASSUME NEW c \in DOMAIN client
        PROVE  client[c].token = NoToken /\ client[c].pc # "content"
    <3> DEFINE request == s.requests[c]
    <3>1. client[c] = Begun(request) /\ Accepted(request)
      BY <1>1, KnowledgeBaseAssumption
    <3> HIDE DEF request
    <3>2. client[c].pc = Entry[request.kind] /\ client[c].token = NoToken
      BY <3>1 DEF Begun
    <3> QED BY <3>1, <3>2, Stages DEF Accepted, Entry
  <2> QED BY <2>1 DEF EditorsKnow
<1> QED BY <1>4, <1>5, <1>6 DEF RevisionInv

----------------------------------------------------------------------------
(* The theorems.                                                           *)

\* Every step keeps both.
LEMMA BuildStep ==
    ASSUME StorageInv, BuildInv, RevisionInv, [Next]_vars
    PROVE  BuildInv' /\ RevisionInv'
<1>1. ASSUME NEW c \in DOMAIN client, ClientStep(c)
      PROVE  BuildInv' /\ RevisionInv'
  BY <1>1, ClientBuildAndRevisions, EditorBuildAndRevisions
<1>2. ASSUME NEW j \in DOMAIN jobs, Working(j)
      PROVE  BuildInv' /\ RevisionInv'
  BY <1>2, WorkingBuild, WorkingRevisions
<1>3. ASSUME NEW d \in DOMAIN documents, Cleanup(d) \/ CleanupFails(d)
      PROVE  BuildInv' /\ RevisionInv'
  BY <1>3, CleanedRevisions
<1>4. CASE UNCHANGED vars
  <2>1. UNCHANGED <<documents, indexes, jobs, segments, vectors, revisions, client, unpublished,
                    mixed>>
    BY <1>4 DEF vars
  <2>2. JobsOK' /\ GoneStays /\ JobsMove
    BY <2>1 DEF BuildInv, JobsOK, JobOK, GoneStays, Grows, JobsMove
  <2>3. BuildInv'
    BY <2>1, <2>2, JobsMoved DEF BuildInv, SegmentsOK
  <2>4. RevisionInv'
    BY <2>1 DEF RevisionInv, RevisionsOK, RevisionOK, SavedEditsKnowTheirContent, EditorsKnow,
                Published, OutcomesAreTold, Gone, OwnSegments
  <2> QED BY <2>3, <2>4
<1> QED BY <1>1, <1>2, <1>3, <1>4 DEF Next, ClientStep

\* All three invariants hold together, for any scenario: of storage, of jobs and
\* segments, and of revisions.
THEOREM KnowledgeBaseInvariance == Spec => [](StorageInv /\ BuildInv /\ RevisionInv)
<1>1. Init => StorageInv /\ BuildInv /\ RevisionInv
  BY StorageInit, BuildInit, RevisionInit
<1>2. (StorageInv /\ BuildInv /\ RevisionInv) /\ [Next]_vars
          => (StorageInv /\ BuildInv /\ RevisionInv)'
  BY StorageStep, BuildStep
<1> QED BY <1>1, <1>2, PTL DEF Spec

\* The rows, jobs, revisions and requests keep their types.
THEOREM KnowledgeBaseTypes == Spec => []KnowledgeBaseTypeOK
<1>1. ASSUME StorageInv, BuildInv, RevisionInv PROVE KnowledgeBaseTypeOK
  <2>1. /\ DocumentsOK /\ faults \in 0 .. MaxFaults
        /\ \A d \in objects \cup cleanups \cup unclean :
               d \in DOMAIN documents \/ d[1] \in DOMAIN client
    BY <1>1 DEF StorageInv, RequestInv, CleanupsAreOfDeleted, FilesAreKnown
  <2>2. JobsOK /\ SegmentsOK /\ RevisionsOK
    BY <1>1 DEF BuildInv, RevisionInv
  <2>3. \A j \in DOMAIN jobs :
            /\ jobs[j].row \in {"pending", "loaded", "staged", "completed", "failed"}
            /\ jobs[j].status \in {"unfinished", "completed", "failed"}
            /\ jobs[j].target \in DOMAIN indexes /\ jobs[j].due \in BOOLEAN
    BY <2>2 DEF JobsOK, JobOK
  <2>4. \A id \in DOMAIN segments : /\ segments[id].status \in {"indexing", "completed"}
                                    /\ segments[id].job \in DOMAIN jobs
    BY <2>2 DEF SegmentsOK, SegmentOK
  <2>5. \A d \in DOMAIN documents : \A v \in DOMAIN revisions[d] :
            /\ revisions[d][v].status \in {"pending", "completed", "failed"}
            /\ revisions[d][v].job \in DOMAIN jobs
    BY <2>2 DEF RevisionsOK, RevisionOK
  <2>6. \A d \in DOMAIN documents : {documents[d].deleted, documents[d].enabled,
                                     documents[d].archived} \subseteq BOOLEAN
    BY <2>1 DEF DocumentsOK
  <2>7. /\ \A i \in DOMAIN indexes : indexes[i] \in {"building", "active", "failed", "retired"}
        /\ vectors \subseteq DOMAIN segments /\ DOMAIN revisions = DOMAIN documents
    BY <2>2 DEF JobsOK, SegmentsOK, RevisionsOK
  <2> QED BY <2>1, <2>3, <2>4, <2>5, <2>6, <2>7 DEF KnowledgeBaseTypeOK
<1> QED BY <1>1, KnowledgeBaseInvariance, PTL

\* An edit that names its base was made on a content that showed every revision
\* published before it, except those its token could not tell (create_revision_and_job
\* rejects a stale token).
THEOREM SavedEditsAreInformed == Spec => []SavedEditsKnowTheirContent
<1>1. RevisionInv => SavedEditsKnowTheirContent
  BY DEF RevisionInv
<1> QED BY <1>1, KnowledgeBaseInvariance, PTL

\* When the job of a revision is finalized the revision says how it ended, unless the
\* document was deleted, the index retired, or the segments of two jobs lay beside
\* each other.
THEOREM OutcomesAreToldOf == Spec => []RevisionsTellTheOutcome
<1>1. ASSUME StorageInv, BuildInv, RevisionInv PROVE RevisionsTellTheOutcome
  <2>1. SUFFICES ASSUME NEW d \in DOMAIN revisions, NEW v \in DOMAIN revisions[d],
                        Live(d), jobs[revisions[d][v].job].target \in Active
                 PROVE  LET j == revisions[d][v].job
                        IN  /\ revisions[d][v].status = "completed" =>
                                   /\ OwnSegments(j) # {}
                                   /\ \A id \in OwnSegments(j) : segments[id].status = "completed"
                            /\ revisions[d][v].status = "pending" /\ Over(j) => d \in mixed
    BY DEF RevisionsTellTheOutcome, Over
  <2>2. JobsOK /\ RevisionsOK /\ OwnSegmentsOK /\ OutcomesAreTold
    BY <1>1 DEF BuildInv, RevisionInv
  <2>3. PICK j : j = revisions[d][v].job
    OBVIOUS
  <2>4. RevisionOK(d, v, revisions[d][v]) /\ v \in Nat \ {0}
    BY <2>2, Revisions
  <2>5. ~Gone(d, jobs[j].target)
    BY <2>1, <2>3 DEF Live, Active, Gone
  <2>6. /\ revisions[d][v].status = "completed" =>
               \A id \in OwnSegments(j) : segments[id].status = "completed"
        /\ revisions[d][v].status = "pending" /\ Over(j) => d \in mixed
    BY <2>2, <2>3, <2>5 DEF OutcomesAreTold, Over
  <2>7. revisions[d][v].status = "completed" => OwnSegments(j) # {}
    <3>1. j \in DOMAIN jobs /\ jobs[j].version = v
      BY <2>3, <2>4 DEF RevisionOK
    <3>2. ~jobs[j].full
      BY <2>2, <2>4, <3>1 DEF JobsOK, JobOK
    <3>3. revisions[d][v].status = "completed" => jobs[j].row = "completed"
      BY <2>3, <2>4 DEF RevisionOK
    <3> QED BY <2>2, <3>1, <3>2, <3>3 DEF OwnSegmentsOK
  <2> QED BY <2>3, <2>6, <2>7
<1> QED BY <1>1, KnowledgeBaseInvariance, PTL
===============================================================================
