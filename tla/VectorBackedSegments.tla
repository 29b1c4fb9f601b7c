------------------------- MODULE VectorBackedSegments -------------------------
(***************************************************************************)
(* What a job of the high quality technique promises about the segments it *)
(* adds to an index: nobody counts on a vector before it is written,       *)
(* nothing that was counted on is taken back, the segments are served only *)
(* once every one that needs a vector counts on one, and none is added     *)
(* after that.                                                             *)
(***************************************************************************)
EXTENDS Naturals

VARIABLES staged,      \* ids of the segments that need a vector
          written,     \* ids that have one in the vector store
          embedded,    \* ids whose row says so
          served       \* whether readers are sent to them

vars == <<staged, written, embedded, served>>

Init == staged = {} /\ written = {} /\ embedded = {} /\ served = FALSE

Stage ==
    /\ ~served /\ staged \subseteq staged'
    /\ UNCHANGED <<written, embedded, served>>
Write ==
    /\ written \subseteq written' /\ written' \subseteq staged
    /\ UNCHANGED <<staged, embedded, served>>
Mark ==
    /\ ~served /\ embedded \subseteq embedded' /\ embedded' \subseteq written
    /\ UNCHANGED <<staged, written, served>>
Serve ==
    /\ ~served /\ embedded = staged
    /\ served' = TRUE
    /\ UNCHANGED <<staged, written, embedded>>

Next == Stage \/ Write \/ Mark \/ Serve
Spec == Init /\ [][Next]_vars
================================================================================
