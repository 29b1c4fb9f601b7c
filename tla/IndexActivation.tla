-------------------------- MODULE IndexActivation --------------------------
(***************************************************************************)
(* Full builds (job types initial_index and reindex_dataset): how the rows *)
(* of IndexingLease add up to a job, and how a finished job publishes the  *)
(* index version it built.  Every action is the action of IndexingLease    *)
(* with what the same handler does to the job, its target index and the    *)
(* segments.                                                               *)
(*                                                                         *)
(* The session of an execution keeps the job and the index it loaded in    *)
(* execution_context (command_factory holds them), and the row it claimed. *)
(* SELECT ... FOR UPDATE and session.get(..., with_for_update=True) lock   *)
(* the database row but do not refresh an object the session already has.  *)
(* sawJob, sawIndex and sawRow are those objects.  The ORM writes a column *)
(* only if its new value differs from the cached one.  The other rows of   *)
(* the job and the segments are not kept between transactions: they are    *)
(* read from the database each time.                                       *)
(***************************************************************************)
EXTENDS IndexingLease

CONSTANTS
    Indexes,        \* ids of dataset_indexes of one knowledge base
    NoIndex,        \* no index
    Target,         \* the index a job builds (target_index_id)
    InitialActive   \* the index served before, or NoIndex

ASSUME ActivationAssumption ==
    /\ NoIndex \notin Indexes
    /\ Target \in [Jobs -> Indexes]
    /\ InitialActive \in Indexes \cup {NoIndex}
    /\ \A j \in Jobs : Target[j] # InitialActive
    /\ \A j, k \in Jobs : Target[j] = Target[k] => j = k
    /\ \A j \in Jobs : \E r \in Rows : JobOf[r] = j

VARIABLES
    jobStatus,      \* status of a job
    indexStatus,    \* status of an index version
    seg,            \* segments of a row's document in the job's target index
    sawRow,         \* status of the worker's cached row
    sawJob,         \* status of its cached job
    sawIndex,       \* status of its cached target index
    sawActive       \* indexes active when its finalization transaction began

dataVars  == <<jobStatus, indexStatus, seg>>
cacheVars == <<sawRow, sawJob, sawIndex, sawActive>>
vars == <<leaseVars, dataVars, cacheVars>>

JobStatuses   == Statuses \cup {"partial_success"}
IndexStatuses == {"building", "active", "failed", "retired"}
SegStates     == {"none", "staged", "ready", "completed", "deleted"}

RowsOf(j) == {r \in Rows : JobOf[r] = j}
Active == {i \in Indexes : indexStatus[i] = "active"}

ActivationTypeOK ==
    /\ jobStatus \in [Jobs -> JobStatuses]
    /\ indexStatus \in [Indexes -> IndexStatuses]
    /\ seg \in [Rows -> SegStates]
    /\ sawRow \in [Workers -> Statuses]
    /\ sawJob \in [Workers -> JobStatuses]
    /\ sawIndex \in [Workers -> IndexStatuses]
    /\ sawActive \in [Workers -> SUBSET Indexes]

Init ==
    /\ LeaseInit
    /\ jobStatus = [j \in Jobs |-> "pending"]
    /\ indexStatus = [i \in Indexes |-> IF i = InitialActive THEN "active"
                                                             ELSE "building"]
    /\ seg = [r \in Rows |-> "none"]
    /\ sawRow = [w \in Workers |-> "pending"]
    /\ sawJob = [w \in Workers |-> "pending"]
    /\ sawIndex = [w \in Workers |-> "building"]
    /\ sawActive = [w \in Workers |-> {}]

\* The session is closed: nothing of it is kept.
DropCache(w) ==
    /\ sawRow' = [sawRow EXCEPT ![w] = "pending"]
    /\ sawJob' = [sawJob EXCEPT ![w] = "pending"]
    /\ sawIndex' = [sawIndex EXCEPT ![w] = "building"]
    /\ sawActive' = [sawActive EXCEPT ![w] = {}]

\* An assignment through the session: no UPDATE if the cached value is equal.
SetJob(w, s) ==
    LET j == JobOf[task[w]] IN
    jobStatus' = IF s = sawJob[w] THEN jobStatus
                 ELSE [jobStatus EXCEPT ![j] = s]

----------------------------------------------------------------------------
(* The execution.                                                          *)

LoadAndReceive(w, r) ==
    /\ Receive(w, r)
    /\ sawJob' = [sawJob EXCEPT ![w] = jobStatus[JobOf[r]]]
    /\ sawIndex' = [sawIndex EXCEPT ![w] = indexStatus[Target[JobOf[r]]]]
    /\ UNCHANGED <<dataVars, sawRow, sawActive>>

ClaimRow(w) ==
    /\ Claim(w)
    /\ sawRow' = [sawRow EXCEPT ![w] = "running"]
    /\ UNCHANGED <<dataVars, sawJob, sawIndex, sawActive>>

LeaveUnclaimed(w) ==
    /\ SkipClaim(w) \/ RaiseBeforeClaim(w)
    /\ DropCache(w)
    /\ UNCHANGED dataVars

\* Staging and marking are idempotent; segments that are no longer "indexing"
\* make them fail.  Economy and parent segments need no vectors.
SegProgress(s) ==
    CASE s = "none"   -> {"staged", "ready"}
      [] s = "staged" -> {"ready"}
      [] OTHER        -> {}

\* A heartbeat commits the segment work done since the previous one and sets
\* the job to "running": the cached row is running.
ReportProgress(w) ==
    LET r == task[w] IN
    /\ Heartbeat(w)
    /\ \/ seg' = seg
       \/ /\ phase[w] = "running"
          /\ \E s \in SegProgress(seg[r]) : seg' = [seg EXCEPT ![r] = s]
    /\ SetJob(w, "running")
    /\ sawJob' = [sawJob EXCEPT ![w] = "running"]
    /\ UNCHANGED <<indexStatus, sawRow, sawIndex, sawActive>>

\* The engine returns only after every segment it staged is embedded.
EngineDone(w) ==
    /\ PassCheck(w)
    /\ seg[task[w]] \notin {"none", "staged"}
    /\ UNCHANGED <<dataVars, cacheVars>>

SettleRow(w) ==
    /\ Complete(w) \/ CancelDocument(w) \/ FailDocument(w)
    /\ sawRow' = IF OwnsRow(w)
                 THEN [sawRow EXCEPT ![w] = status'[task[w]]]
                 ELSE sawRow
    /\ UNCHANGED <<dataVars, sawJob, sawIndex, sawActive>>

\* The rows of the job as the session of w sees them.
View(w) ==
    [r \in RowsOf(JobOf[task[w]]) |-> IF r = task[w] THEN sawRow[w] ELSE status[r]]

\* _refresh_job_summary; a mix of completed and cancelled keeps the status.
Summary(view, current) ==
    LET seen == {view[r] : r \in DOMAIN view} IN
    CASE "running" \in seen              -> "running"
      [] seen \cap Waiting # {}
         /\ "running" \notin seen        -> "queued"
      [] seen = {"completed"}            -> "completed"
      [] seen \subseteq Terminal /\ "failed" \in seen
                                         -> IF "completed" \in seen
                                            THEN "partial_success" ELSE "failed"
      [] seen = {"cancelled"}            -> "cancelled"
      [] OTHER                           -> current

Summarise(w) ==
    LET s == Summary(View(w), sawJob[w]) IN
    /\ RefreshSummary(w)
    /\ SetJob(w, s)
    /\ sawJob' = [sawJob EXCEPT ![w] = s]
    /\ sawActive' = [sawActive EXCEPT ![w] = Active]
    /\ UNCHANGED <<indexStatus, seg, sawRow, sawIndex>>

----------------------------------------------------------------------------
(* finalize_indexing_job, full builds.                                     *)

\* Mutant of AllTerminal: rows that are running are not waited for.
NoneWaiting(w) == \A r \in DOMAIN View(w) : View(w)[r] \notin Waiting

AllTerminal(w) == \A r \in DOMAIN View(w) : View(w)[r] \in Terminal

\* The two idempotency guards, on the cached target and job.
AlreadyFinalized(w) ==
    \/ sawIndex[w] = "active" /\ sawJob[w] = "completed"
    \/ sawIndex[w] \in {"failed", "retired"} /\ sawJob[w] \in Terminal

\* Mutant of SomeFailed: cancelled rows count as done.
SomeFailedOnly(w) == \E r \in DOMAIN View(w) : View(w)[r] = "failed"

SomeFailed(w) == \E r \in DOMAIN View(w) : View(w)[r] \in {"failed", "cancelled"}

\* Every document has live segments and all of them are ready to activate.
Valid(j) == \A r \in RowsOf(j) : seg[r] = "ready"

\* Mutant of SetIndex: a status outside the vocabulary of dataset_indexes.
SetIndexCompleted(w, s) ==
    [indexStatus EXCEPT ![Target[JobOf[task[w]]]] =
        IF s = "active" THEN "completed" ELSE s]

\* target.status := s through the session.
SetIndex(w, s) ==
    LET i == Target[JobOf[task[w]]] IN
    IF s = sawIndex[w] THEN indexStatus ELSE [indexStatus EXCEPT ![i] = s]

FinalizeNothing(w) ==
    /\ Finalize(w)
    /\ ~AllTerminal(w) \/ AlreadyFinalized(w)
    /\ DropCache(w)
    /\ UNCHANGED dataVars

FinalizeFailed(w) ==
    /\ Finalize(w)
    /\ AllTerminal(w) /\ ~AlreadyFinalized(w) /\ SomeFailed(w)
    /\ indexStatus' = SetIndex(w, "failed")
    /\ SetJob(w, IF \A r \in DOMAIN View(w) : View(w)[r] = "cancelled"
                 THEN "cancelled" ELSE "failed")
    /\ DropCache(w)
    /\ UNCHANGED seg

\* All rows are completed and validation of the segments decides.
Reached(w) ==
    /\ Finalize(w)
    /\ AllTerminal(w) /\ ~AlreadyFinalized(w) /\ ~SomeFailed(w)

\* Mutant of FinalizeInvalid: the old version is retired before validation.
RetireThenValidate(w) ==
    LET j == JobOf[task[w]] IN
    /\ Reached(w)
    /\ ~Valid(j)
    /\ indexStatus' = [i \in Indexes |-> IF i \in Active \ {Target[j]} THEN "retired"
                                         ELSE SetIndex(w, "failed")[i]]
    /\ SetJob(w, "failed")
    /\ DropCache(w)
    /\ UNCHANGED seg

FinalizeInvalid(w) ==
    /\ Reached(w)
    /\ ~Valid(JobOf[task[w]])
    /\ indexStatus' = SetIndex(w, "failed")
    /\ SetJob(w, "failed")
    /\ DropCache(w)
    /\ UNCHANGED seg

\* Mutant of FinalizeSwitch: the previous version is not retired.
SwitchWithoutRetiring(w) ==
    LET j == JobOf[task[w]] IN
    /\ Reached(w)
    /\ Valid(j)
    /\ indexStatus' = SetIndex(w, "active")
    /\ seg' = [r \in Rows |-> IF JobOf[r] = j THEN "completed" ELSE seg[r]]
    /\ SetJob(w, "completed")
    /\ DropCache(w)

\* Mutant of FinalizeSwitch: the segments are activated, the index is not.
SwitchSegmentsOnly(w) ==
    LET j == JobOf[task[w]] IN
    /\ Reached(w)
    /\ Valid(j)
    /\ seg' = [r \in Rows |-> IF JobOf[r] = j THEN "completed" ELSE seg[r]]
    /\ SetJob(w, "completed")
    /\ DropCache(w)
    /\ UNCHANGED indexStatus

\* Mutant of FinalizeSwitch: the previous version can be built again.
SwitchReopensOld(w) ==
    LET j == JobOf[task[w]]
        old == Active \ {Target[j]}
    IN
    /\ Reached(w)
    /\ Valid(j)
    /\ indexStatus' = [i \in Indexes |-> IF i \in old THEN "building"
                                         ELSE SetIndex(w, "active")[i]]
    /\ seg' = [r \in Rows |-> IF JobOf[r] = j THEN "completed" ELSE seg[r]]
    /\ SetJob(w, "completed")
    /\ DropCache(w)

\* Mutant of FinalizeSwitch: the segments of the retired version stay.
SwitchKeepsOldSegments(w) ==
    LET j == JobOf[task[w]] IN
    /\ Reached(w)
    /\ Valid(j)
    /\ indexStatus' = [i \in Indexes |-> IF i \in Active \ {Target[j]} THEN "retired"
                                         ELSE SetIndex(w, "active")[i]]
    /\ seg' = [r \in Rows |-> IF JobOf[r] = j THEN "completed" ELSE seg[r]]
    /\ SetJob(w, "completed")
    /\ DropCache(w)

\* Retire whatever is active, with its segments, then activate the target.
FinalizeSwitch(w) ==
    LET j == JobOf[task[w]]
        old == Active \ {Target[j]}
    IN
    /\ Reached(w)
    /\ Valid(j)
    /\ indexStatus' = [i \in Indexes |-> IF i \in old THEN "retired"
                                         ELSE SetIndex(w, "active")[i]]
    /\ seg' = [r \in Rows |->
                 IF JobOf[r] = j THEN "completed"
                 ELSE IF Target[JobOf[r]] \in old /\ seg[r] # "none" THEN "deleted"
                 ELSE seg[r]]
    /\ SetJob(w, "completed")
    /\ DropCache(w)

\* Another job's finalization committed after this one looked for active
\* indexes: uq_dataset_indexes_one_active rejects the second active row, the
\* transaction is rolled back and the exception ends the task.
FinalizeConflict(w) ==
    LET j == JobOf[task[w]] IN
    /\ Reached(w)
    /\ Valid(j)
    /\ Active \ (sawActive[w] \cup {Target[j]}) # {}
    /\ DropCache(w)
    /\ UNCHANGED dataVars

LoseWorker(w) ==
    /\ Crash(w)
    /\ DropCache(w)
    /\ UNCHANGED dataVars

----------------------------------------------------------------------------
(* Beat, the API, and the cleanup of deleted documents.                    *)

Background ==
    /\ \/ \E r \in Rows : \/ ApiPublish(r) \/ ApiPublishFails(r) \/ DropMessage(r)
                          \/ LeaseExpires(r) \/ OwnerStalls(r) \/ BecomesDue(r)
       \/ Dispatch \/ DispatchCrash \/ Recover
       \/ \E d \in Docs : DeleteDocument(d)
    /\ UNCHANGED <<dataVars, cacheVars>>

CancelJob(j) ==
    /\ jobStatus[j] \notin {"completed", "failed", "partial_success", "cancelled"}
    /\ RequestCancel(j)
    /\ UNCHANGED <<dataVars, cacheVars>>

\* retry_job reopens rows and job; the target index keeps its status.
Retry(j) ==
    /\ jobStatus[j] \notin {"running", "queued"}
    /\ RetryJob(j)
    /\ jobStatus' = [jobStatus EXCEPT ![j] = "pending"]
    /\ UNCHANGED <<indexStatus, seg, cacheVars>>

\* The cleanup task, once the object is removed.
CleanupDocument(d) ==
    /\ d \in deleted
    /\ \E r \in Rows : DocOf[r] = d /\ seg[r] \notin {"none", "deleted"}
    /\ seg' = [r \in Rows |-> IF DocOf[r] = d /\ seg[r] # "none" THEN "deleted"
                              ELSE seg[r]]
    /\ UNCHANGED <<leaseVars, jobStatus, indexStatus, cacheVars>>

Next ==
    \/ \E w \in Workers, r \in Rows : LoadAndReceive(w, r)
    \/ \E w \in Workers :
          \/ ClaimRow(w) \/ LeaveUnclaimed(w) \/ ReportProgress(w) \/ EngineDone(w)
          \/ SettleRow(w) \/ Summarise(w)
          \/ FinalizeNothing(w) \/ FinalizeFailed(w) \/ FinalizeInvalid(w)
          \/ FinalizeSwitch(w) \/ FinalizeConflict(w) \/ LoseWorker(w)
    \/ Background
    \/ \E j \in Jobs : CancelJob(j) \/ Retry(j)
    \/ \E d \in Docs : CleanupDocument(d)

Spec == Init /\ [][Next]_vars

----------------------------------------------------------------------------
(* Properties.                                                             *)

\* At most one version is active.
OneActive == \A i, k \in Active : i = k

\* A version a job built is served only when the whole job is completed, and
\* every document's segments are live unless the document was deleted.
ServedIsWhole ==
    \A j \in Jobs :
        indexStatus[Target[j]] = "active" =>
            \A r \in RowsOf(j) :
                /\ status[r] = "completed"
                /\ seg[r] = "completed" \/ (DocOf[r] \in deleted /\ seg[r] = "deleted")

\* Segments retrieval could return belong to the active version.
OnlyServedSegmentsAreCompleted ==
    \A r \in Rows : seg[r] = "completed" => indexStatus[Target[JobOf[r]]] = "active"

\* Once some version is served, some version is served.
NeverUnserved == [][Active # {} => Active' # {}]_vars

\* No work is left: nothing runs, nothing is queued, every row is terminal.
AllIdle ==
    /\ \A w \in Workers : phase[w] = "idle"
    /\ queue = {} /\ outbox = {}
    /\ \A r \in Rows : status[r] \in Terminal

\* When everything has come to rest, a completed job's version is, or was,
\* served.
CompletedJobWasServed ==
    AllIdle => \A j \in Jobs : jobStatus[j] = "completed" =>
                  indexStatus[Target[j]] \in {"active", "retired"}

\* The refinement: what the readers of a knowledge base see of all this.
Readers == INSTANCE ServedVersion WITH
    served <- IF Active = {} THEN NoIndex ELSE CHOOSE i \in Active : TRUE,
    built  <- {Target[j] : j \in {k \in Jobs : \A r \in RowsOf(k) : status[r] = "completed"}},
    past   <- {i \in Indexes : indexStatus[i] = "retired"}

ReadersSpec == Readers!ServedSpec
=============================================================================
