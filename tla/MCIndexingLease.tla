-------------------------- MODULE MCIndexingLease --------------------------
(* Small instances of IndexingLease: the rows of one job, or of two.       *)
EXTENDS IndexingLease, TLC

CONSTANTS j1, r1, r2, w1, w2

OneJob == [r \in Rows |-> j1]
OwnDoc == [r \in Rows |-> r]

WorkerSymmetry == Permutations(Workers)
=============================================================================
