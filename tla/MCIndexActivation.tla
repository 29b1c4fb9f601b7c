------------------------- MODULE MCIndexActivation -------------------------
(* Small instances of IndexActivation: one job of two documents, or two    *)
(* jobs that both rebuild the knowledge base of one document.              *)
EXTENDS IndexActivation, TLC

CONSTANTS j1, j2, r1, r2, d1, d2, i0, i1, i2, w1, w2

\* One job, two documents.
OneJobOf  == [r \in Rows |-> j1]
OneDocOf  == (r1 :> d1) @@ (r2 :> d2)
OneTarget == (j1 :> i1)

\* Two jobs over the same document.
TwoJobOf  == (r1 :> j1) @@ (r2 :> j2)
TwoDocOf  == (r1 :> d1) @@ (r2 :> d1)
TwoTarget == (j1 :> i1) @@ (j2 :> i2)

WorkerSymmetry == Permutations(Workers)
=============================================================================
