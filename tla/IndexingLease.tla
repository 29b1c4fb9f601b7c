--------------------------- MODULE IndexingLease ---------------------------
(***************************************************************************)
(* The life of the rows of indexing_job_documents: who may work on a row,  *)
(* for how long, and how its outcome is recorded.                          *)
(*                                                                         *)
(* Actors: the API (publishes, cancels, retries), Celery Beat (dispatch    *)
(* and recovery), the broker (ids only, at least once) and the executions  *)
(* of the index_document task.  Every action is one PostgreSQL transaction *)
(* or one broker operation of the code.                                    *)
(*                                                                         *)
(* An execution uses ONE SQLAlchemy session with expire_on_commit=False    *)
(* (tasks/runtime.py), so the job it loaded before the claim is never read *)
(* again: sawCancel and sawDoc are its cached cancel flag and the cached    *)
(* status of the document.  The claimed row is cached too: a heartbeat     *)
(* compares the cached status and owner, which are the ones this execution *)
(* wrote, and then updates the database row unconditionally.  Assigning a  *)
(* value equal to the cached one is no UPDATE at all.                      *)
(*                                                                         *)
(* A member of Workers is a worker process.  Each execution has a fresh    *)
(* worker_id in the code; a process runs one execution at a time and an    *)
(* execution compares owners only on the one row it claimed itself, so the *)
(* process can stand for the id of its current execution.                  *)
(*                                                                         *)
(* Rows of jobs appear here without the summary of the job and without the *)
(* index the job builds: IndexActivation adds those to the same actions.   *)
(***************************************************************************)
EXTENDS Naturals, FiniteSets

CONSTANTS
    Rows,           \* ids of indexing_job_documents
    Jobs,           \* ids of indexing_jobs
    Docs,           \* ids of documents
    JobOf,          \* the job of a row
    DocOf,          \* the document of a row
    Workers,        \* Celery worker processes
    Recovery,       \* the worker_id Beat's recovery writes ("recovery")
    NoWorker,       \* worker_id IS NULL
    NoRow,          \* an idle worker's row
    MaxAttempts,    \* max_attempts of every row (3 in the schema)
    Faults,         \* which faults and operator requests may happen
    MaxFaults       \* how many of them a behaviour may contain (a bound)

FaultKinds == {"crash", "stall", "raise", "delete", "cancel", "retry"}

ASSUME LeaseAssumption ==
    /\ JobOf \in [Rows -> Jobs]
    /\ DocOf \in [Rows -> Docs]
    /\ Recovery \notin Workers
    /\ NoWorker \notin Workers
    /\ Recovery # NoWorker
    /\ NoRow \notin Rows
    /\ MaxAttempts \in Nat \ {0}
    /\ MaxFaults \in Nat
    /\ Faults \subseteq FaultKinds

VARIABLES
    status,         \* row status
    attempt,        \* number of claims of the row so far
    owner,          \* worker_id of the row
    lease,          \* lease_expires_at: NULL, in the future, or past
    due,            \* available_at <= now
    cancelReq,      \* cancel_requested_at of the job is set
    docStatus,      \* indexing_status of the document
    deleted,        \* documents whose deleted_at is set
    outbox,         \* rows an API request has committed and not yet published
    queue,          \* rows with at least one message at the broker
    phase,          \* how far a worker's execution has come
    task,           \* the row it works on
    token,          \* the attempt it claimed (the cached row.attempt)
    sawCancel,      \* the cancel flag of the job it cached
    sawDoc,         \* the indexing_status of the document it cached
    faultsLeft      \* faults and operator requests still to come

rowVars    == <<status, attempt, owner, lease, due>>
docVars    == <<docStatus, deleted>>
brokerVars == <<outbox, queue>>
execVars   == <<phase, task, token, sawCancel, sawDoc>>
leaseVars  == <<rowVars, cancelReq, docVars, brokerVars, execVars, faultsLeft>>

Waiting  == {"pending", "queued", "retry_wait"}
Terminal == {"completed", "failed", "cancelled"}
Statuses == Waiting \cup {"running"} \cup Terminal

Phases == {"idle", "loaded", "running", "checked", "settled", "refreshed"}
Working == {"running", "checked"}

LeaseTypeOK ==
    /\ status \in [Rows -> Statuses]
    /\ attempt \in [Rows -> Nat]
    /\ owner \in [Rows -> Workers \cup {Recovery, NoWorker}]
    /\ lease \in [Rows -> {"none", "valid", "expired"}]
    /\ due \in [Rows -> BOOLEAN]
    /\ cancelReq \in [Jobs -> BOOLEAN]
    /\ docStatus \in [Docs -> Statuses]
    /\ deleted \in SUBSET Docs
    /\ outbox \in SUBSET Rows
    /\ queue \in SUBSET Rows
    /\ phase \in [Workers -> Phases]
    /\ task \in [Workers -> Rows \cup {NoRow}]
    /\ token \in [Workers -> Nat]
    /\ sawCancel \in [Workers -> BOOLEAN]
    /\ sawDoc \in [Workers -> Statuses]
    /\ faultsLeft \in 0..MaxFaults

(***************************************************************************)
(* The job and its rows are committed; the request that created them is    *)
(* about to publish their ids; the documents it selected are "queued".     *)
(* docStatus abstracts the stage names of indexing_status (downloading,    *)
(* parsing, ...) to "running".                                             *)
(***************************************************************************)
LeaseInit ==
    /\ status = [r \in Rows |-> "pending"]
    /\ attempt = [r \in Rows |-> 0]
    /\ owner = [r \in Rows |-> NoWorker]
    /\ lease = [r \in Rows |-> "none"]
    /\ due = [r \in Rows |-> TRUE]
    /\ cancelReq = [j \in Jobs |-> FALSE]
    /\ docStatus = [d \in Docs |-> "queued"]
    /\ deleted = {}
    /\ outbox = Rows
    /\ queue = {}
    /\ phase = [w \in Workers |-> "idle"]
    /\ task = [w \in Workers |-> NoRow]
    /\ token = [w \in Workers |-> 0]
    /\ sawCancel = [w \in Workers |-> FALSE]
    /\ sawDoc = [w \in Workers |-> "pending"]
    /\ faultsLeft = MaxFaults

\* A fault or an operator request of kind k is possible and is paid for.
Spend(k) ==
    /\ k \in Faults
    /\ faultsLeft > 0
    /\ faultsLeft' = faultsLeft - 1

\* The execution ends and its process takes the next message.
Release(w) ==
    /\ phase' = [phase EXCEPT ![w] = "idle"]
    /\ task' = [task EXCEPT ![w] = NoRow]
    /\ token' = [token EXCEPT ![w] = 0]
    /\ sawCancel' = [sawCancel EXCEPT ![w] = FALSE]
    /\ sawDoc' = [sawDoc EXCEPT ![w] = "pending"]

Advance(w, p) ==
    /\ phase' = [phase EXCEPT ![w] = p]
    /\ UNCHANGED <<task, token, sawCancel, sawDoc>>

----------------------------------------------------------------------------
(* The API's and Beat's side of the broker.                                *)

\* The request publishes a row it committed; the row's status is untouched.
ApiPublish(r) ==
    /\ r \in outbox
    /\ outbox' = outbox \ {r}
    /\ queue' = queue \cup {r}
    /\ UNCHANGED <<rowVars, cancelReq, docVars, execVars, faultsLeft>>

\* The broker refuses the message, or the API process dies before sending it.
ApiPublishFails(r) ==
    /\ r \in outbox
    /\ outbox' = outbox \ {r}
    /\ UNCHANGED <<rowVars, cancelReq, docVars, queue, execVars, faultsLeft>>

\* Mutant of Dispatchable: rows waiting for a retry are forgotten.
DispatchPendingOnly == {r \in Rows : status[r] = "pending" /\ due[r]}

Dispatchable == {r \in Rows : status[r] \in {"pending", "retry_wait"} /\ due[r]}

\* Mutant of Dispatch: rows the broker refused are marked queued as well.
DispatchMarksRefused ==
    \E sent \in SUBSET Dispatchable :
        /\ Dispatchable # {}
        /\ queue' = queue \cup sent
        /\ status' = [r \in Rows |-> IF r \in Dispatchable THEN "queued" ELSE status[r]]
        /\ UNCHANGED <<attempt, owner, lease, due, cancelReq, docVars, outbox,
                       execVars, faultsLeft>>

\* Beat's dispatcher publishes the due rows the broker accepts, then commits
\* "queued" for those.
Dispatch ==
    \E sent \in SUBSET Dispatchable \ {{}} :
        /\ queue' = queue \cup sent
        /\ status' = [r \in Rows |-> IF r \in sent THEN "queued" ELSE status[r]]
        /\ UNCHANGED <<attempt, owner, lease, due, cancelReq, docVars, outbox,
                       execVars, faultsLeft>>

\* The dispatcher dies between the publishes and the commit.
DispatchCrash ==
    \E sent \in SUBSET Dispatchable \ {{}} :
        /\ Spend("crash")
        /\ queue' = queue \cup sent
        /\ UNCHANGED <<rowVars, cancelReq, docVars, outbox, execVars>>

\* Some live execution is the row's registered owner.
HasLiveOwner(r) ==
    \E w \in Workers : phase[w] \in Working /\ task[w] = r /\ owner[r] = w

Expire(r) ==
    /\ status[r] = "running" /\ lease[r] = "valid"
    /\ lease' = [lease EXCEPT ![r] = "expired"]
    /\ UNCHANGED <<status, attempt, owner, due, cancelReq, docVars, brokerVars,
                   execVars>>

\* The lease of an execution that is gone runs out.
LeaseExpires(r) ==
    /\ ~HasLiveOwner(r)
    /\ Expire(r)
    /\ UNCHANGED faultsLeft

\* So does that of a live one, in a long stage without heartbeats.
OwnerStalls(r) ==
    /\ HasLiveOwner(r)
    /\ Expire(r)
    /\ Spend("stall")

\* The retry delay of a row elapses.
BecomesDue(r) ==
    /\ ~due[r]
    /\ due' = [due EXCEPT ![r] = TRUE]
    /\ UNCHANGED <<status, attempt, owner, lease, cancelReq, docVars, brokerVars,
                   execVars, faultsLeft>>

Recoverable == {r \in Rows : status[r] = "running" /\ lease[r] = "expired"}

\* Beat's recovery requeues every expired row, or fails it for good.  It
\* touches neither the document nor the summary of the job.
Recover ==
    /\ Recoverable # {}
    /\ status' = [r \in Rows |-> IF r \notin Recoverable THEN status[r]
                                 ELSE IF attempt[r] < MaxAttempts
                                      THEN "retry_wait" ELSE "failed"]
    /\ owner' = [r \in Rows |-> IF r \in Recoverable THEN Recovery ELSE owner[r]]
    /\ lease' = [r \in Rows |-> IF r \in Recoverable THEN "none" ELSE lease[r]]
    /\ due' = [r \in Rows |-> due[r] \/ r \in Recoverable]
    /\ UNCHANGED <<attempt, cancelReq, docVars, brokerVars, execVars, faultsLeft>>

----------------------------------------------------------------------------
(* One execution of index_document.                                        *)

\* The broker delivers a message; another copy may remain (a duplicate, or a
\* redelivery).  The execution loads the row, its job and its document.
Receive(w, r) ==
    /\ phase[w] = "idle"
    /\ r \in queue
    /\ DocOf[r] \notin deleted
    /\ queue' \in {queue, queue \ {r}}
    /\ phase' = [phase EXCEPT ![w] = "loaded"]
    /\ task' = [task EXCEPT ![w] = r]
    /\ sawCancel' = [sawCancel EXCEPT ![w] = cancelReq[JobOf[r]]]
    /\ sawDoc' = [sawDoc EXCEPT ![w] = docStatus[DocOf[r]]]
    /\ UNCHANGED <<rowVars, cancelReq, docVars, outbox, token, faultsLeft>>

\* No runner is built for a deleted document: the message is acknowledged and
\* the row stays as it is.
DropMessage(r) ==
    /\ r \in queue
    /\ DocOf[r] \in deleted
    /\ \E w \in Workers : phase[w] = "idle"
    /\ queue' \in {queue, queue \ {r}}
    /\ UNCHANGED <<rowVars, cancelReq, docVars, outbox, execVars, faultsLeft>>

\* An exception before the claim leaves the task function: Celery acknowledges
\* the message of a failed task.
RaiseBeforeClaim(w) ==
    /\ phase[w] = "loaded"
    /\ Spend("raise")
    /\ Release(w)
    /\ UNCHANGED <<rowVars, cancelReq, docVars, brokerVars>>

Claimable(r) ==
    \/ status[r] \in Waiting /\ due[r]
    \/ status[r] = "running" /\ lease[r] # "valid"

\* Mutant of Claim: an owner that is already registered is kept.
ClaimKeepsOwner(w) ==
    LET r == task[w] IN
    /\ phase[w] = "loaded"
    /\ Claimable(r)
    /\ status' = [status EXCEPT ![r] = "running"]
    /\ attempt' = [attempt EXCEPT ![r] = @ + 1]
    /\ owner' = [owner EXCEPT ![r] = IF @ = NoWorker THEN w ELSE @]
    /\ lease' = [lease EXCEPT ![r] = "valid"]
    /\ phase' = [phase EXCEPT ![w] = "running"]
    /\ token' = [token EXCEPT ![w] = attempt[r] + 1]
    /\ UNCHANGED <<due, cancelReq, docVars, brokerVars, task, sawCancel, sawDoc,
                   faultsLeft>>

Claim(w) ==
    LET r == task[w] IN
    /\ phase[w] = "loaded"
    /\ Claimable(r)
    /\ status' = [status EXCEPT ![r] = "running"]
    /\ attempt' = [attempt EXCEPT ![r] = @ + 1]
    /\ owner' = [owner EXCEPT ![r] = w]
    /\ lease' = [lease EXCEPT ![r] = "valid"]
    /\ phase' = [phase EXCEPT ![w] = "running"]
    /\ token' = [token EXCEPT ![w] = attempt[r] + 1]
    /\ UNCHANGED <<due, cancelReq, docVars, brokerVars, task, sawCancel, sawDoc,
                   faultsLeft>>

\* claim_job_document returned None: the task ends, the message is gone.
SkipClaim(w) ==
    /\ phase[w] = "loaded"
    /\ ~Claimable(task[w])
    /\ Release(w)
    /\ UNCHANGED <<rowVars, cancelReq, docVars, brokerVars, faultsLeft>>

\* The guard of the code reads the cached row, which this execution claimed
\* itself, so it always passes.  The stage it writes into the document may be
\* the one it wrote last (no UPDATE).
Heartbeat(w) ==
    LET r == task[w] IN
    /\ phase[w] \in Working
    /\ lease' = [lease EXCEPT ![r] = "valid"]
    /\ \/ docStatus' = [docStatus EXCEPT ![DocOf[r]] = "running"]
       \/ sawDoc[w] = "running" /\ docStatus' = docStatus
    /\ sawDoc' = [sawDoc EXCEPT ![w] = "running"]
    /\ UNCHANGED <<status, attempt, owner, due, cancelReq, deleted, brokerVars,
                   phase, task, token, sawCancel, faultsLeft>>

\* The last cooperative check of engine.run, on the cached job.
PassCheck(w) ==
    /\ phase[w] = "running"
    /\ ~sawCancel[w]
    /\ Advance(w, "checked")
    /\ UNCHANGED <<rowVars, cancelReq, docVars, brokerVars, faultsLeft>>

\* Mutant of OwnsRow: any running row may be settled.
OwnsAnyRunningRow(w) == status[task[w]] = "running"

\* _owned_running_row: the database, not the cache, decides who may settle.
OwnsRow(w) ==
    /\ status[task[w]] = "running"
    /\ owner[task[w]] = w

\* Mutant of Settle: a cancellation forgets the document.
SettleForgetsDocument(w, outcome, isDue) ==
    LET r == task[w] IN
    /\ IF OwnsRow(w)
       THEN /\ status' = [status EXCEPT ![r] = outcome]
            /\ lease' = [lease EXCEPT ![r] = "none"]
            /\ due' = [due EXCEPT ![r] = isDue]
            /\ docStatus' = IF outcome \in {"cancelled", sawDoc[w]} THEN docStatus
                            ELSE [docStatus EXCEPT ![DocOf[r]] = outcome]
       ELSE UNCHANGED <<status, lease, due, docStatus>>
    /\ phase' = [phase EXCEPT ![w] = "settled"]
    /\ sawCancel' = [sawCancel EXCEPT ![w] = FALSE]
    /\ sawDoc' = [sawDoc EXCEPT ![w] = "pending"]
    /\ UNCHANGED <<attempt, owner, cancelReq, deleted, brokerVars, task, token,
                   faultsLeft>>

\* The owner's terminal write; an execution that lost the row writes nothing.
\* The cached flag and document are not looked at again and are forgotten.
Settle(w, outcome, isDue) ==
    LET r == task[w] IN
    /\ IF OwnsRow(w)
       THEN /\ status' = [status EXCEPT ![r] = outcome]
            /\ lease' = [lease EXCEPT ![r] = "none"]
            /\ due' = [due EXCEPT ![r] = isDue]
            /\ docStatus' = IF outcome = sawDoc[w] THEN docStatus
                            ELSE [docStatus EXCEPT ![DocOf[r]] = outcome]
       ELSE UNCHANGED <<status, lease, due, docStatus>>
    /\ phase' = [phase EXCEPT ![w] = "settled"]
    /\ sawCancel' = [sawCancel EXCEPT ![w] = FALSE]
    /\ sawDoc' = [sawDoc EXCEPT ![w] = "pending"]
    /\ UNCHANGED <<attempt, owner, cancelReq, deleted, brokerVars, task, token,
                   faultsLeft>>

\* The engine returns after the heartbeat of its "validate" stage.
Complete(w) ==
    /\ phase[w] = "checked"
    /\ sawDoc[w] = "running"
    /\ Settle(w, "completed", due[task[w]])

CancelDocument(w) ==
    /\ phase[w] = "running"
    /\ sawCancel[w]
    /\ Settle(w, "cancelled", due[task[w]])

\* Mutant of FailDocument: max_attempts is not compared.
FailRetriesForever(w) ==
    /\ phase[w] \in Working
    /\ \E retryable \in BOOLEAN :
          IF retryable THEN Settle(w, "retry_wait", FALSE)
                       ELSE Settle(w, "failed", TRUE)

\* Mutant of FailDocument: a status no reader of the column knows.
FailWritesUnknownStatus(w) ==
    /\ phase[w] \in Working
    /\ Settle(w, "error", TRUE)

FailDocument(w) ==
    /\ phase[w] \in Working
    /\ \E retryable \in BOOLEAN :
          IF retryable /\ token[w] < MaxAttempts
          THEN Settle(w, "retry_wait", FALSE)
          ELSE Settle(w, "failed", TRUE)

\* The finally block: refresh_job_summary, then finalize_indexing_job, each a
\* transaction of its own (their effect is in IndexActivation).
RefreshSummary(w) ==
    /\ phase[w] = "settled"
    /\ Advance(w, "refreshed")
    /\ UNCHANGED <<rowVars, cancelReq, docVars, brokerVars, faultsLeft>>

Finalize(w) ==
    /\ phase[w] = "refreshed"
    /\ Release(w)
    /\ UNCHANGED <<rowVars, cancelReq, docVars, brokerVars, faultsLeft>>

\* The process is lost.  The unacknowledged message returns to the broker,
\* except when the hard time limit killed the task, which acknowledges it.
Crash(w) ==
    /\ phase[w] # "idle"
    /\ Spend("crash")
    /\ \/ queue' = queue \cup {task[w]}
       \/ phase[w] # "loaded" /\ queue' = queue
    /\ Release(w)
    /\ UNCHANGED <<rowVars, cancelReq, docVars, outbox>>

----------------------------------------------------------------------------
(* Requests of users and operators.  Whether the status of the job admits  *)
(* them is IndexActivation's part.                                         *)

RequestCancel(j) ==
    /\ Spend("cancel")
    /\ cancelReq' = [cancelReq EXCEPT ![j] = TRUE]
    /\ UNCHANGED <<rowVars, docVars, brokerVars, execVars>>

\* Mutant of RetryableRows: cancelled rows are reopened too.
RetryableOrCancelled(j) ==
    {r \in Rows : JobOf[r] = j /\ status[r] \in {"failed", "retry_wait", "cancelled"}}

RetryableRows(j) ==
    {r \in Rows : JobOf[r] = j /\ status[r] \in {"failed", "retry_wait"}}

\* retry_job reopens the rows without resetting their attempts.
RetryJob(j) ==
    LET S == RetryableRows(j) IN
    /\ S # {}
    /\ Spend("retry")
    /\ cancelReq' = [cancelReq EXCEPT ![j] = FALSE]
    /\ status' = [r \in Rows |-> IF r \in S THEN "pending" ELSE status[r]]
    /\ owner' = [r \in Rows |-> IF r \in S THEN NoWorker ELSE owner[r]]
    /\ lease' = [r \in Rows |-> IF r \in S THEN "none" ELSE lease[r]]
    /\ due' = [r \in Rows |-> due[r] \/ r \in S]
    /\ outbox' = outbox \cup S
    /\ UNCHANGED <<attempt, docVars, queue, execVars>>

DeleteDocument(d) ==
    /\ d \notin deleted
    /\ Spend("delete")
    /\ deleted' = deleted \cup {d}
    /\ UNCHANGED <<rowVars, cancelReq, docStatus, brokerVars, execVars>>

----------------------------------------------------------------------------
WorkerStep(w) ==
    \/ Claim(w) \/ SkipClaim(w) \/ PassCheck(w)
    \/ Complete(w) \/ CancelDocument(w) \/ FailDocument(w)
    \/ RefreshSummary(w) \/ Finalize(w)

LeaseNext ==
    \/ \E r \in Rows : ApiPublish(r) \/ ApiPublishFails(r) \/ DropMessage(r)
    \/ \E r \in Rows : LeaseExpires(r) \/ OwnerStalls(r) \/ BecomesDue(r)
    \/ Dispatch \/ DispatchCrash \/ Recover
    \/ \E w \in Workers, r \in Rows : Receive(w, r)
    \/ \E w \in Workers : WorkerStep(w) \/ Heartbeat(w)
    \/ \E w \in Workers : RaiseBeforeClaim(w) \/ Crash(w)
    \/ \E j \in Jobs : RequestCancel(j) \/ RetryJob(j)
    \/ \E d \in Docs : DeleteDocument(d)

LeaseSpec == LeaseInit /\ [][LeaseNext]_leaseVars

(***************************************************************************)
(* Fairness: Beat runs every 30 s and 60 s, time passes, the broker hands  *)
(* out a durable message sooner or later (strong, as the workers are busy  *)
(* now and then), and the task time limit ends every execution.  Nothing   *)
(* obliges an execution to heartbeat, to crash, or an operator to act.     *)
(***************************************************************************)
LeaseFairness ==
    /\ WF_leaseVars(Dispatch)
    /\ WF_leaseVars(Recover)
    /\ \A r \in Rows : /\ WF_leaseVars(BecomesDue(r))
                       /\ WF_leaseVars(LeaseExpires(r))
                       /\ SF_leaseVars(\E w \in Workers : Receive(w, r))
                       /\ WF_leaseVars(DropMessage(r) /\ queue' # queue)
    /\ \A w \in Workers : WF_leaseVars(WorkerStep(w))

FairLeaseSpec == LeaseSpec /\ LeaseFairness

----------------------------------------------------------------------------
(* Properties.                                                             *)

\* Fencing: an execution that may still settle its row holds the row's newest
\* attempt, however many executions of the row are alive after lease expiries
\* and redeliveries (claim_job_document, _owned_running_row).
OwnerHoldsNewestAttempt ==
    \A w \in Workers :
        phase[w] \in Working /\ OwnsRow(w) => token[w] = attempt[task[w]]

Spent == MaxFaults - faultsLeft

\* max_attempts is compared when a row fails or is recovered, never when it is
\* claimed: every claim above it was caused by a crash, a stall or an operator.
ExtraAttemptsAreCaused ==
    \A r \in Rows : attempt[r] <= MaxAttempts + Spent

\* No lost wakeup: the dispatcher never looks at a "queued" row again, so as
\* long as it is queued a message or an execution about to claim it exists.
\* Holds without "raise" and "delete", which lose the message.
QueuedRowHasMessage ==
    \A r \in Rows :
        status[r] = "queued" =>
            \/ r \in queue
            \/ \E w \in Workers : phase[w] = "loaded" /\ task[w] = r

Finished == {"completed", "cancelled"}

\* A completed or cancelled row is never reopened, by no late writer, recovery,
\* dispatcher or retry.
FinishedRowsStayFinished ==
    [][\A r \in Rows : status[r] \in Finished => status'[r] = status[r]]_leaseVars

\* The step that finishes a row puts the outcome on its document, and later only
\* an execution whose attempt was superseded can put a stage name over it: the
\* heartbeat never asks the database who owns the row.  (One row per document.)
DocumentShowsOutcome ==
    [][\A r \in Rows : status'[r] \in Finished =>
          \/ docStatus'[DocOf[r]] = status'[r]
          \/ status[r] = status'[r] /\ docStatus'[DocOf[r]] = docStatus[DocOf[r]]
          \/ \E w \in Workers : /\ phase[w] \in Working /\ task[w] = r
                               /\ token[w] < attempt[r]]_leaseVars

\* A running row changes hands or outcome only by its newest claimant, by an
\* expired lease, and a terminal outcome keeps the attempt it belongs to.
RunningRowsAreFenced ==
    [][\A r \in Rows :
          status[r] = "running" /\ <<status'[r], owner'[r]>> # <<status[r], owner[r]>> =>
              \/ lease[r] = "expired"
              \/ \E w \in Workers :
                    /\ phase[w] \in Working /\ phase'[w] = "settled"
                    /\ task[w] = r /\ token[w] = attempt[r] /\ owner[r] = w]_leaseVars

\* Every row reaches a terminal status and stays there: crashes, stalls, cancels
\* and retries included, deletions and failures before the claim excluded.
EveryRowSettles == \A r \in Rows : <>[](status[r] \in Terminal)

\* A row that was marked queued is taken up, or published again.  The code loses
\* it: the message of an execution that fails before its claim is acknowledged,
\* and the dispatcher does not select queued rows.
QueuedRowsMoveOn ==
    \A r \in Rows : status[r] = "queued" ~> status[r] # "queued"

\* A check for cancellation made after the request sees the request.
ChecksSeeCancel ==
    [][\A w \in Workers :
          phase[w] = "running" /\ phase'[w] = "checked" =>
              ~cancelReq[JobOf[task[w]]]]_leaseVars
=============================================================================
