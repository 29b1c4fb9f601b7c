--------------------------- MODULE ServedVersion ---------------------------
(***************************************************************************)
(* What index versioning promises the readers of one knowledge base:      *)
(* retrieval answers from one version; a new version is served only once   *)
(* it is completely built, in one step that also retires its predecessor;  *)
(* a retired version never comes back, and the knowledge base never loses  *)
(* the version it serves.                                                  *)
(***************************************************************************)
CONSTANTS
    Indexes,    \* ids of dataset_indexes of one knowledge base
    NoIndex     \* nothing is served yet; no member of Indexes

VARIABLES
    served,     \* the version retrieval reads
    built,      \* versions whose every document has been indexed
    past        \* versions that were served before

servedVars == <<served, built, past>>

ServedInit ==
    /\ served \in Indexes \cup {NoIndex}
    /\ built = {}
    /\ past = {}

Build(i) ==
    /\ built' = built \cup {i}
    /\ UNCHANGED <<served, past>>

Switch(i) ==
    /\ i \in built
    /\ i \notin past \cup {served}
    /\ served' = i
    /\ past' = past \cup ({served} \ {NoIndex})
    /\ UNCHANGED built

ServedNext == \E i \in Indexes : Build(i) \/ Switch(i)

ServedSpec == ServedInit /\ [][ServedNext]_servedVars
=============================================================================
