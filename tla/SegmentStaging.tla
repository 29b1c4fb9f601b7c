---------------------------- MODULE SegmentStaging ----------------------------
(***************************************************************************)
(* Segments on their way into the database: what identifies a segment,     *)
(* what a document's segments are staged as, when a staged segment is the  *)
(* one an earlier attempt left, and the keywords of a text.                *)
(*                                                                         *)
(* A text is [words, raw]: raw while its line ends and characters are not  *)
(* in the normal form.  A word is [term, identifier, skipped]; terms are   *)
(* numbered in their order, skipped are stop words and overlong ones.      *)
(***************************************************************************)
EXTENDS Integers, Sequences, FiniteSets, SequencesExt, FiniteSetsExt

\* The parent a preview segment names, if any; a row has <<>> or the id of one.
NoParent == "no_parent"

\* normalize_segment_content
Normalized(text) == [text EXCEPT !.raw = FALSE]

\* segment_content_hash and stable_segment_id: distinct for distinct arguments.
ContentHash(text, metadata) == <<Normalized(text), metadata>>

StableId(document, parent, position, hash) == <<document, parent, position, hash>>

Invalid == [error |-> "invalid", list |-> <<>>]

SegmentTypes == {"general", "parent", "child"}

(***************************************************************************)
(* _build_candidates.  A preview segment is [local, parent, position,      *)
(* content, source, type, keywords]; its metadata are its source and the   *)
(* job that namespaces them, "" for none.                                  *)
(***************************************************************************)
ValidParent(segment, segments) ==
    IF segment.type = "child"
    THEN \E i \in DOMAIN segments : segments[i].local = segment.parent
                                    /\ segments[i].type = "parent"
    ELSE segment.parent = NoParent

BuildCandidates(document, technique, namespace, segments) ==
    LET Hash(s) == ContentHash(s.content, <<s.source, namespace>>)
        ParentId(s) ==
            IF s.type # "child" THEN <<>>
            ELSE LET p == CHOOSE q \in ToSet(segments) : q.local = s.parent
                 IN  <<StableId(document, <<>>, p.position, Hash(p))>>
        Candidate(s) ==
            [id |-> StableId(document, ParentId(s), s.position, Hash(s)),
             document |-> document, parent |-> ParentId(s), position |-> s.position,
             content |-> Normalized(s.content), metadata |-> <<s.source, namespace>>,
             type |-> s.type, keywords |-> s.keywords,
             embedding |-> IF s.type = "parent" \/ technique = "economy"
                           THEN "not_required" ELSE "waiting"]
        list == [i \in DOMAIN segments |-> Candidate(segments[i])]
    IN  IF \/ \E i \in DOMAIN segments : segments[i].type \notin SegmentTypes
           \/ ~IsInjective([i \in DOMAIN segments |-> segments[i].local])
           \/ \E i \in DOMAIN segments : ~ValidParent(segments[i], segments)
        THEN Invalid
        ELSE IF ~IsInjective([i \in DOMAIN list |-> list[i].id]) THEN Invalid
        ELSE [error |-> "none", list |-> list]

\* A row is a candidate with the status and the deletion of a stored segment.
Row(candidate) ==
    [id |-> candidate.id, document |-> candidate.document, parent |-> candidate.parent,
     position |-> candidate.position, content |-> candidate.content,
     metadata |-> candidate.metadata, type |-> candidate.type, keywords |-> candidate.keywords,
     embedding |-> candidate.embedding, status |-> "indexing", deleted |-> FALSE]

\* Mutant of ExactRetry: an embedding that is completed is not the one staged.
ExactRetryUntouched(candidate, row) ==
    /\ \A f \in {"document", "parent", "position", "content", "metadata", "type"} :
           candidate[f] = row[f]
    /\ candidate.keywords # <<>> => row.keywords = candidate.keywords
    /\ row.status = "indexing" /\ ~row.deleted /\ candidate.embedding = row.embedding

\* _is_exact_retry
ExactRetry(candidate, row) ==
    /\ \A f \in {"document", "parent", "position", "content", "metadata", "type"} :
           candidate[f] = row[f]
    /\ candidate.keywords # <<>> => row.keywords = candidate.keywords
    /\ row.status = "indexing" /\ ~row.deleted
    /\ IF candidate.embedding = "waiting" THEN row.embedding \in {"waiting", "completed"}
       ELSE row.embedding = "not_required"

\* stage: rows is a function from ids to rows.
Conflicts(candidates, rows) ==
    \E i \in DOMAIN candidates : /\ candidates[i].id \in DOMAIN rows
                                 /\ ~ExactRetry(candidates[i], rows[candidates[i].id])

InsertMissing(candidates, rows) ==
    LET missing == {c \in ToSet(candidates) : c.id \notin DOMAIN rows}
    IN  [id \in DOMAIN rows \cup {c.id : c \in missing} |->
            IF id \in DOMAIN rows THEN rows[id] ELSE Row(CHOOSE c \in missing : c.id = id)]

\* _exact_mutation_records: every id names a live row that is being indexed.
Mutable(ids, document, rows) ==
    \A id \in ids : id \in DOMAIN rows /\ rows[id].document = document
                    /\ rows[id].status = "indexing" /\ ~rows[id].deleted

\* The rows update_keywords accepts.
TakesKeywords(row) ==
    \/ row.type = "general" /\ row.embedding = "not_required"
    \/ row.type \in {"general", "child"} /\ row.embedding = "completed"

(***************************************************************************)
(* KeywordExtractor.extract: the terms of a text, the most frequent first, *)
(* identifiers favoured; ties in the order of the terms.                   *)
(***************************************************************************)
IdentifierBonus == 2

Extract(text, limit) ==
    LET counted == {i \in DOMAIN text.words : ~text.words[i].skipped}
        terms == {text.words[i].term : i \in counted}
        Frequency(t) == Cardinality({i \in counted : text.words[i].term = t})
        Bonus(t) == IF \E i \in counted : text.words[i].term = t /\ text.words[i].identifier
                    THEN IdentifierBonus ELSE 0
        Score(t) == Frequency(t) + Bonus(t)
        Before(t, u) == Score(t) > Score(u) \/ (Score(t) = Score(u) /\ t < u)
        ranked == SetToSortSeq(terms, Before)
    IN  SubSeq(ranked, 1, Min({limit, Len(ranked)}))
================================================================================
