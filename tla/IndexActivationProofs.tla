------------------------ MODULE IndexActivationProofs -------------------------
(***************************************************************************)
(* Proofs about IndexingLease and about IndexActivation, which extends it, *)
(* for any number of jobs, documents and workers.                          *)
(*                                                                         *)
(* The rows first, with an inductive invariant in four parts: types;       *)
(* fencing (the tokens of the executions against the attempts of their     *)
(* rows); the budget of attempts; and, without the faults that lose        *)
(* messages, the messages of queued rows.  Then the index versions:        *)
(* IndexActivation refines IndexingLease, so all that is proved of rows    *)
(* holds of it; at most one index version is active; a version is served   *)
(* only when its job is completely done; and what the readers of a         *)
(* knowledge base see is ServedVersion, as long as the executions of one   *)
(* job finalize it one at a time, which two deployments ensure.            *)
(***************************************************************************)
EXTENDS IndexActivation, TLAPS

(***************************************************************************)
(* The lease protocol.                                                     *)
(***************************************************************************)

Live(w) == phase[w] \in Working

\* A busy worker has a row.
BusyHasRow == \A w \in Workers : phase[w] # "idle" => task[w] \in Rows

\* No execution holds an attempt from the future, no two hold the same attempt
\* of a row, and the newest attempt of a finished row has ended.
TokensFenced ==
    /\ \A w \in Workers : Live(w) => token[w] <= attempt[task[w]]
    /\ \A v, w \in Workers :
          Live(v) /\ Live(w) /\ task[v] = task[w] /\ token[v] = token[w] => v = w
    /\ \A w \in Workers :
          Live(w) /\ status[task[w]] \in Finished => token[w] < attempt[task[w]]

RunningHasLease == \A r \in Rows : status[r] = "running" => lease[r] # "none"

\* A row that can be claimed, now or after its lease, has an attempt left in
\* the budget.
ClaimIsAffordable ==
    \A r \in Rows :
        \/ status[r] \in Waiting
        \/ status[r] = "running" /\ ~(HasLiveOwner(r) /\ lease[r] = "valid")
        => attempt[r] < MaxAttempts + Spent

\* Without deletions and failures before the claim, a queued row is due and can
\* be received and claimed.
QueuedRowIsDue ==
    /\ deleted = {}
    /\ \A r \in Rows : status[r] = "queued" => due[r]

\* No document has two rows.
OneRowPerDocument == \A q, r \in Rows : DocOf[q] = DocOf[r] => q = r

\* A document shows, and a session remembers, the outcome of finished rows only.
OutcomesAreReal ==
    /\ \A r \in Rows : docStatus[DocOf[r]] \in Finished => status[r] \in Finished
    /\ \A w \in Workers :
          phase[w] # "idle" /\ sawDoc[w] \in Finished => status[task[w]] \in Finished

TypeInv  == LeaseTypeOK /\ BusyHasRow
FenceInv == TypeInv /\ RunningHasLease /\ OwnerHoldsNewestAttempt /\ TokensFenced
AttemptInv == FenceInv /\ ClaimIsAffordable /\ ExtraAttemptsAreCaused
DocumentInv == FenceInv /\ OutcomesAreReal
MessageInv == TypeInv /\ QueuedRowIsDue /\ QueuedRowHasMessage

----------------------------------------------------------------------------
(* Types.                                                                  *)

LEMMA InitTypes == LeaseInit => TypeInv
  BY LeaseAssumption
  DEF LeaseInit, TypeInv, LeaseTypeOK, BusyHasRow, Statuses, Waiting, Terminal, Phases

Outcomes == {"completed", "cancelled", "retry_wait", "failed"}

\* The three ways to settle a row, in one form.
SettleStep(w) ==
    /\ Live(w)
    /\ \E o \in Outcomes, b \in BOOLEAN :
          /\ o = "retry_wait" => token[w] < MaxAttempts
          /\ Settle(w, o, b)

LEMMA SettleCases ==
    ASSUME TypeInv, NEW w \in Workers,
           Complete(w) \/ CancelDocument(w) \/ FailDocument(w)
    PROVE  SettleStep(w)
<1> USE DEF SettleStep, Outcomes, Live, Working
<1>1. phase[w] \in Working => due[task[w]] \in BOOLEAN
  BY DEF TypeInv, LeaseTypeOK, BusyHasRow
<1>2. CASE Complete(w)
  BY <1>1, <1>2 DEF Complete
<1>3. CASE CancelDocument(w)
  BY <1>1, <1>3 DEF CancelDocument
<1>4. CASE FailDocument(w)
  <2>1. PICK retryable \in BOOLEAN :
            IF retryable /\ token[w] < MaxAttempts
            THEN Settle(w, "retry_wait", FALSE)
            ELSE Settle(w, "failed", TRUE)
    BY <1>4 DEF FailDocument
  <2> QED BY <1>4, <2>1 DEF FailDocument
<1> QED BY <1>2, <1>3, <1>4

LEMMA SpendTyped ==
    ASSUME faultsLeft \in 0..MaxFaults, NEW k, Spend(k)
    PROVE  /\ faultsLeft' \in 0..MaxFaults
           /\ faultsLeft' = faultsLeft - 1
  BY LeaseAssumption DEF Spend

LEMMA TypesStep == TypeInv /\ [LeaseNext]_leaseVars => TypeInv'
<1> SUFFICES ASSUME TypeInv, [LeaseNext]_leaseVars PROVE TypeInv'
  OBVIOUS
<1> USE LeaseAssumption
    DEF TypeInv, LeaseTypeOK, BusyHasRow, Statuses, Waiting, Terminal, Phases,
        rowVars, docVars, brokerVars, execVars
<1>1. ASSUME NEW r \in Rows, ApiPublish(r) \/ ApiPublishFails(r) \/ DropMessage(r)
      PROVE  TypeInv'
  BY <1>1 DEF ApiPublish, ApiPublishFails, DropMessage
<1>2. ASSUME NEW r \in Rows, LeaseExpires(r) \/ OwnerStalls(r) \/ BecomesDue(r)
      PROVE  TypeInv'
  <2>1. CASE LeaseExpires(r)
    BY <2>1 DEF LeaseExpires, Expire
  <2>2. CASE OwnerStalls(r)
    BY <2>2, SpendTyped DEF OwnerStalls, Expire
  <2>3. CASE BecomesDue(r)
    BY <2>3 DEF BecomesDue
  <2> QED BY <1>2, <2>1, <2>2, <2>3
<1>3. CASE Dispatch
  BY <1>3 DEF Dispatch, Dispatchable
<1>4. CASE DispatchCrash
  BY <1>4, SpendTyped DEF DispatchCrash, Dispatchable
<1>5. CASE Recover
  BY <1>5 DEF Recover
<1>6. ASSUME NEW w \in Workers, NEW r \in Rows, Receive(w, r)
      PROVE  TypeInv'
  BY <1>6 DEF Receive
<1>7. ASSUME NEW w \in Workers, Claim(w)
      PROVE  TypeInv'
  BY <1>7 DEF Claim
<1>8. ASSUME NEW w \in Workers, SkipClaim(w) \/ RaiseBeforeClaim(w) \/ Crash(w)
      PROVE  TypeInv'
  <2>1. CASE SkipClaim(w)
    BY <2>1 DEF SkipClaim, Release
  <2>2. CASE RaiseBeforeClaim(w)
    BY <2>2, SpendTyped DEF RaiseBeforeClaim, Release
  <2>3. CASE Crash(w)
    BY <2>3, SpendTyped DEF Crash, Release
  <2> QED BY <1>8, <2>1, <2>2, <2>3
<1>9. ASSUME NEW w \in Workers, PassCheck(w) \/ RefreshSummary(w) \/ Finalize(w)
      PROVE  TypeInv'
  <2>1. CASE PassCheck(w)
    BY <2>1 DEF PassCheck, Advance
  <2>2. CASE RefreshSummary(w)
    BY <2>2 DEF RefreshSummary, Advance
  <2>3. CASE Finalize(w)
    BY <2>3 DEF Finalize, Release
  <2> QED BY <1>9, <2>1, <2>2, <2>3
<1>10. ASSUME NEW w \in Workers, Heartbeat(w)
       PROVE  TypeInv'
  BY <1>10 DEF Heartbeat, Working
<1>11. ASSUME NEW w \in Workers, SettleStep(w)
       PROVE  TypeInv'
  BY <1>11 DEF SettleStep, Outcomes, Settle, Live, Working
<1>12. ASSUME NEW j \in Jobs, RequestCancel(j) \/ RetryJob(j)
       PROVE  TypeInv'
  <2>1. CASE RequestCancel(j)
    BY <2>1, SpendTyped DEF RequestCancel
  <2>2. CASE RetryJob(j)
    BY <2>2, SpendTyped DEF RetryJob, RetryableRows
  <2> QED BY <1>12, <2>1, <2>2
<1>13. ASSUME NEW d \in Docs, DeleteDocument(d)
       PROVE  TypeInv'
  BY <1>13, SpendTyped DEF DeleteDocument
<1>14. CASE UNCHANGED leaseVars
  BY <1>14 DEF leaseVars
<1> QED
  BY <1>1, <1>2, <1>3, <1>4, <1>5, <1>6, <1>7, <1>8, <1>9, <1>10, <1>11, <1>12,
     <1>13, <1>14, SettleCases
  DEF LeaseNext, WorkerStep

----------------------------------------------------------------------------
(* Fencing.                                                                *)

LEMMA InitFenced == LeaseInit => FenceInv
  BY InitTypes
  DEF LeaseInit, FenceInv, RunningHasLease, OwnerHoldsNewestAttempt, TokensFenced,
      Live, Working

\* Claims, settlements, recovery, retry and the dispatcher change what fencing
\* is about; <1>1 disposes of the steps that only move leases.
LEMMA FencedStep == FenceInv /\ [LeaseNext]_leaseVars => FenceInv'
<1> SUFFICES ASSUME FenceInv, [LeaseNext]_leaseVars PROVE FenceInv'
  OBVIOUS
<1>0. TypeInv /\ TypeInv'
  BY TypesStep DEF FenceInv
<1> USE <1>0
<1> DEFINE G == RunningHasLease' /\ OwnerHoldsNewestAttempt' /\ TokensFenced'
<1> USE DEF FenceInv, RunningHasLease, OwnerHoldsNewestAttempt, TokensFenced, OwnsRow,
            Live, Working, Finished, TypeInv, LeaseTypeOK, BusyHasRow, Waiting,
            rowVars, execVars
<1>1. ASSUME UNCHANGED <<status, attempt, owner, phase, task, token>>,
             \A r \in Rows : status[r] = "running" =>
                lease'[r] = lease[r] \/ lease'[r] # "none"
      PROVE  G
  BY <1>1
<1>2. ASSUME NEW r \in Rows, ApiPublish(r) \/ ApiPublishFails(r) \/ DropMessage(r)
      PROVE  G
  BY <1>1, <1>2 DEF ApiPublish, ApiPublishFails, DropMessage
<1>3. ASSUME NEW r \in Rows, LeaseExpires(r) \/ OwnerStalls(r) \/ BecomesDue(r)
      PROVE  G
  BY <1>1, <1>3 DEF LeaseExpires, OwnerStalls, BecomesDue, Expire
<1>4. CASE Dispatch
  BY <1>4 DEF Dispatch, Dispatchable
<1>5. CASE DispatchCrash
  BY <1>1, <1>5 DEF DispatchCrash
<1>6. CASE Recover
  BY <1>6, LeaseAssumption DEF Recover, Recoverable
<1>7. ASSUME NEW w \in Workers, NEW r \in Rows, Receive(w, r)
      PROVE  G
  BY <1>7 DEF Receive
<1>8. ASSUME NEW w \in Workers, Claim(w)
      PROVE  G
  <2> DEFINE r == task[w]
  <2>1. /\ phase[w] = "loaded" /\ r \in Rows
        /\ task' = task
        /\ phase' = [phase EXCEPT ![w] = "running"]
        /\ token' = [token EXCEPT ![w] = attempt[r] + 1]
        /\ status' = [status EXCEPT ![r] = "running"]
        /\ attempt' = [attempt EXCEPT ![r] = attempt[r] + 1]
        /\ owner' = [owner EXCEPT ![r] = w]
        /\ lease' = [lease EXCEPT ![r] = "valid"]
    BY <1>8 DEF Claim
  <2>2. RunningHasLease'
    BY <2>1
  <2>3. OwnerHoldsNewestAttempt'
    BY <2>1
  <2>4. TokensFenced'
    BY <2>1
  <2> QED BY <2>2, <2>3, <2>4
<1>9. ASSUME NEW w \in Workers, SkipClaim(w) \/ RaiseBeforeClaim(w) \/ Crash(w) \/ Finalize(w)
      PROVE  G
  <2>1. /\ Release(w)
        /\ UNCHANGED rowVars
    BY <1>9 DEF SkipClaim, RaiseBeforeClaim, Crash, Finalize
  <2> QED BY <2>1 DEF Release
<1>10. ASSUME NEW w \in Workers, PassCheck(w) \/ RefreshSummary(w)
       PROVE  G
  BY <1>10 DEF PassCheck, RefreshSummary, Advance
<1>11. ASSUME NEW w \in Workers, Heartbeat(w)
       PROVE  G
  BY <1>1, <1>11 DEF Heartbeat
<1>12. ASSUME NEW w \in Workers, SettleStep(w)
       PROVE  G
  <2>1. PICK o \in Outcomes, b \in BOOLEAN : Settle(w, o, b)
    BY <1>12 DEF SettleStep
  <2>2. /\ phase' = [phase EXCEPT ![w] = "settled"]
        /\ UNCHANGED <<attempt, owner, task, token>>
        /\ Live(w)
    BY <1>12, <2>1 DEF Settle, SettleStep
  <2>3. CASE OwnsRow(w)
    BY <2>1, <2>2, <2>3, SMTT(30) DEF Settle, Outcomes
  <2>4. CASE ~OwnsRow(w)
    BY <2>1, <2>2, <2>4 DEF Settle
  <2> QED BY <2>3, <2>4
<1>13. ASSUME NEW j \in Jobs, RequestCancel(j)
       PROVE  G
  BY <1>1, <1>13 DEF RequestCancel
<1>14. ASSUME NEW j \in Jobs, RetryJob(j)
       PROVE  G
  BY <1>14, LeaseAssumption DEF RetryJob, RetryableRows
<1>15. ASSUME NEW d \in Docs, DeleteDocument(d)
       PROVE  G
  BY <1>1, <1>15 DEF DeleteDocument
<1>16. CASE UNCHANGED leaseVars
  BY <1>1, <1>16 DEF leaseVars
<1>17. G
  BY <1>2, <1>3, <1>4, <1>5, <1>6, <1>7, <1>8, <1>9, <1>10, <1>11, <1>12, <1>13,
     <1>14, <1>15, <1>16, SettleCases
  DEF LeaseNext, WorkerStep
<1> QED BY <1>17

----------------------------------------------------------------------------
(* The budget of attempts.                                                 *)

LEMMA InitAffordable == LeaseInit => AttemptInv
  BY InitFenced, LeaseAssumption
  DEF LeaseInit, AttemptInv, ClaimIsAffordable, ExtraAttemptsAreCaused, Spent

LEMMA AttemptsStep == AttemptInv /\ [LeaseNext]_leaseVars => AttemptInv'
<1> SUFFICES ASSUME AttemptInv, [LeaseNext]_leaseVars PROVE AttemptInv'
  OBVIOUS
<1>0. FenceInv /\ FenceInv'
  BY FencedStep DEF AttemptInv
<1>1. /\ faultsLeft \in 0..MaxFaults
      /\ Spent \in Nat
      /\ \A k : Spend(k) => Spent' = Spent + 1
      /\ faultsLeft' = faultsLeft => Spent' = Spent
      /\ MaxAttempts \in Nat
  <2>1. faultsLeft \in 0..MaxFaults
    BY <1>0 DEF FenceInv, TypeInv, LeaseTypeOK
  <2>2. MaxFaults \in Nat /\ MaxAttempts \in Nat
    BY LeaseAssumption
  <2> QED BY <2>1, <2>2 DEF Spent, Spend
<1> DEFINE G == ClaimIsAffordable' /\ ExtraAttemptsAreCaused'
<1> USE <1>0, <1>1 DEF AttemptInv, ClaimIsAffordable, ExtraAttemptsAreCaused,
        FenceInv, TypeInv, LeaseTypeOK, BusyHasRow, HasLiveOwner, Working, Waiting,
        rowVars, execVars
<1> HIDE DEF Spent, Spend
\* A fault pays for one more attempt of every row.
<1>2. ASSUME UNCHANGED attempt, NEW k, Spend(k)
      PROVE  G
  BY <1>2
<1>3. ASSUME UNCHANGED <<attempt, status, faultsLeft>>,
             \A r \in Rows : status[r] = "running" /\ HasLiveOwner(r) /\ lease[r] = "valid"
                            => HasLiveOwner(r)' /\ lease'[r] = "valid"
      PROVE  G
  BY <1>3
<1>4. ASSUME NEW r \in Rows, ApiPublish(r) \/ ApiPublishFails(r) \/ DropMessage(r)
      PROVE  G
  BY <1>3, <1>4 DEF ApiPublish, ApiPublishFails, DropMessage
<1>5. ASSUME NEW r \in Rows, LeaseExpires(r)
      PROVE  G
  BY <1>3, <1>5 DEF LeaseExpires, Expire
<1>6. ASSUME NEW r \in Rows, OwnerStalls(r)
      PROVE  G
  BY <1>2, <1>6 DEF OwnerStalls, Expire
<1>7. ASSUME NEW r \in Rows, BecomesDue(r)
      PROVE  G
  BY <1>3, <1>7 DEF BecomesDue
<1>8. CASE Dispatch
  BY <1>8 DEF Dispatch, Dispatchable
<1>9. CASE DispatchCrash
  BY <1>2, <1>9 DEF DispatchCrash
<1>10. CASE Recover
  BY <1>10 DEF Recover, Recoverable
<1>11. ASSUME NEW w \in Workers, NEW r \in Rows, Receive(w, r)
       PROVE  G
  BY <1>3, <1>11 DEF Receive
<1>12. ASSUME NEW w \in Workers, Claim(w)
       PROVE  G
  BY <1>12 DEF Claim, Claimable
<1>13. ASSUME NEW w \in Workers, SkipClaim(w) \/ Finalize(w)
       PROVE  G
  BY <1>3, <1>13 DEF SkipClaim, Finalize, Release
<1>14. ASSUME NEW w \in Workers, RaiseBeforeClaim(w) \/ Crash(w)
       PROVE  G
  BY <1>2, <1>14 DEF RaiseBeforeClaim, Crash
<1>15. ASSUME NEW w \in Workers, PassCheck(w) \/ RefreshSummary(w)
       PROVE  G
  BY <1>3, <1>15 DEF PassCheck, RefreshSummary, Advance
<1>16. ASSUME NEW w \in Workers, Heartbeat(w)
       PROVE  G
  BY <1>3, <1>16 DEF Heartbeat
<1>17. ASSUME NEW w \in Workers, SettleStep(w)
       PROVE  G
  <2>1. PICK o \in Outcomes, b \in BOOLEAN :
            /\ o = "retry_wait" => token[w] < MaxAttempts
            /\ Settle(w, o, b)
    BY <1>17 DEF SettleStep
  <2>2. /\ phase' = [phase EXCEPT ![w] = "settled"]
        /\ UNCHANGED <<attempt, owner, task, token, faultsLeft>>
        /\ Live(w)
    BY <1>17, <2>1 DEF Settle, SettleStep
  <2>3. CASE OwnsRow(w)
    <3>1. token[w] = attempt[task[w]]
      BY <2>2, <2>3 DEF OwnerHoldsNewestAttempt, Live
    <3> QED BY <2>1, <2>2, <2>3, <3>1 DEF Settle, Outcomes, OwnsRow, Live
  <2>4. CASE ~OwnsRow(w)
    BY <1>3, <2>1, <2>2, <2>4 DEF Settle, OwnsRow
  <2> QED BY <2>3, <2>4
<1>18. ASSUME NEW j \in Jobs, RequestCancel(j)
       PROVE  G
  BY <1>2, <1>18 DEF RequestCancel
<1>19. ASSUME NEW j \in Jobs, RetryJob(j)
       PROVE  G
  BY <1>2, <1>19 DEF RetryJob
<1>20. ASSUME NEW d \in Docs, DeleteDocument(d)
       PROVE  G
  BY <1>2, <1>20 DEF DeleteDocument
<1>21. CASE UNCHANGED leaseVars
  BY <1>3, <1>21 DEF leaseVars
<1>22. G
  BY <1>4, <1>5, <1>6, <1>7, <1>8, <1>9, <1>10, <1>11, <1>12, <1>13, <1>14, <1>15,
     <1>16, <1>17, <1>18, <1>19, <1>20, <1>21, SettleCases
  DEF LeaseNext, WorkerStep
<1> QED BY <1>22

----------------------------------------------------------------------------
(* Messages of queued rows.                                                *)

LEMMA InitMessages == LeaseInit => MessageInv
  BY InitTypes DEF LeaseInit, MessageInv, QueuedRowIsDue, QueuedRowHasMessage

\* "raise" and "delete" are what loses a message for good.
LEMMA MessagesStep ==
    ASSUME "raise" \notin Faults, "delete" \notin Faults,
           MessageInv, [LeaseNext]_leaseVars
    PROVE  MessageInv'
<1>0. TypeInv /\ TypeInv'
  BY TypesStep DEF MessageInv
<1> DEFINE G == QueuedRowIsDue' /\ QueuedRowHasMessage'
<1> USE <1>0 DEF MessageInv, QueuedRowIsDue, QueuedRowHasMessage, TypeInv,
        LeaseTypeOK, BusyHasRow, rowVars, docVars, brokerVars, execVars
\* No row becomes queued and no message or execution about to claim goes away.
<1>1. ASSUME deleted' = deleted, queue \subseteq queue',
             \A r \in Rows : status'[r] = "queued" => status[r] = "queued" /\ due'[r] = due[r],
             \A w \in Workers : phase[w] = "loaded" =>
                phase'[w] = "loaded" /\ task'[w] = task[w]
      PROVE  G
  BY <1>1
<1>2. ASSUME NEW r \in Rows,
             \/ ApiPublish(r) \/ ApiPublishFails(r) \/ DropMessage(r)
             \/ LeaseExpires(r) \/ OwnerStalls(r) \/ BecomesDue(r)
      PROVE  G
  BY <1>2 DEF ApiPublish, ApiPublishFails, DropMessage, LeaseExpires, OwnerStalls,
              Expire, BecomesDue
<1>3. CASE Dispatch
  BY <1>3 DEF Dispatch, Dispatchable
<1>4. CASE DispatchCrash
  BY <1>1, <1>4 DEF DispatchCrash
<1>5. CASE Recover
  BY <1>5 DEF Recover, Recoverable
<1>6. ASSUME NEW w \in Workers, NEW r \in Rows, Receive(w, r)
      PROVE  G
  BY <1>6 DEF Receive
<1>7. ASSUME NEW w \in Workers, Claim(w)
      PROVE  G
  BY <1>7 DEF Claim
\* A queued row is due: whoever has loaded it does not skip it.
<1>8. ASSUME NEW w \in Workers, SkipClaim(w)
      PROVE  G
  BY <1>8 DEF SkipClaim, Release, Claimable, Waiting
<1>9. ASSUME NEW w \in Workers, Crash(w)
      PROVE  G
  BY <1>9 DEF Crash, Release
<1>10. ASSUME NEW w \in Workers, PassCheck(w) \/ RefreshSummary(w) \/ Finalize(w)
       PROVE  G
  BY <1>1, <1>10 DEF PassCheck, RefreshSummary, Finalize, Advance, Release
<1>11. ASSUME NEW w \in Workers, Heartbeat(w)
       PROVE  G
  BY <1>1, <1>11 DEF Heartbeat
<1>12. ASSUME NEW w \in Workers, SettleStep(w)
       PROVE  G
  <2>1. PICK o \in Outcomes, b \in BOOLEAN : Settle(w, o, b)
    BY <1>12 DEF SettleStep
  <2>2. /\ phase' = [phase EXCEPT ![w] = "settled"]
        /\ phase[w] # "loaded"
        /\ UNCHANGED <<deleted, queue, task>>
    BY <1>12, <2>1 DEF SettleStep, Settle, Live, Working
  <2>3. \A r \in Rows : status'[r] = "queued" => status[r] = "queued" /\ due'[r] = due[r]
    <3>1. \/ status' = [status EXCEPT ![task[w]] = o] /\ due' = [due EXCEPT ![task[w]] = b]
          \/ UNCHANGED <<status, due>>
      BY <2>1 DEF Settle
    <3> QED BY <3>1 DEF Outcomes
  <2> QED BY <1>1, <2>2, <2>3
<1>13. ASSUME NEW j \in Jobs, RequestCancel(j) \/ RetryJob(j)
       PROVE  G
  BY <1>1, <1>13 DEF RequestCancel, RetryJob, RetryableRows
<1>14. CASE UNCHANGED leaseVars
  BY <1>1, <1>14 DEF leaseVars
<1>15. /\ \A w \in Workers : ~RaiseBeforeClaim(w)
       /\ \A d \in Docs : ~DeleteDocument(d)
  BY DEF RaiseBeforeClaim, DeleteDocument, Spend
<1>16. G
  BY <1>2, <1>3, <1>4, <1>5, <1>6, <1>7, <1>8, <1>9, <1>10, <1>11, <1>12, <1>13,
     <1>14, <1>15, SettleCases
  DEF LeaseNext, WorkerStep
<1> QED BY <1>16

----------------------------------------------------------------------------
(* What a step may not do.                                                 *)

LEMMA FinishedStep ==
    ASSUME FenceInv, [LeaseNext]_leaseVars
    PROVE  \A r \in Rows : status[r] \in Finished => status'[r] = status[r]
<1> SUFFICES ASSUME NEW q \in Rows, status[q] \in Finished
             PROVE  status'[q] = status[q]
  OBVIOUS
<1> USE DEF FenceInv, TypeInv, LeaseTypeOK, BusyHasRow, Finished, rowVars
<1>1. CASE Dispatch \/ Recover
  BY <1>1 DEF Dispatch, Dispatchable, Recover, Recoverable
<1>2. ASSUME NEW w \in Workers, Claim(w)
      PROVE  status'[q] = status[q]
  BY <1>2 DEF Claim, Claimable, Waiting
<1>3. ASSUME NEW w \in Workers, SettleStep(w)
      PROVE  status'[q] = status[q]
  BY <1>3 DEF SettleStep, Settle, OwnsRow, Live, Working
<1>4. ASSUME NEW j \in Jobs, RetryJob(j)
      PROVE  status'[q] = status[q]
  BY <1>4 DEF RetryJob, RetryableRows
<1>5. ASSUME UNCHANGED status
      PROVE  status'[q] = status[q]
  BY <1>5
<1>6. \/ Dispatch \/ Recover
      \/ \E w \in Workers : Claim(w) \/ SettleStep(w)
      \/ \E j \in Jobs : RetryJob(j)
      \/ UNCHANGED status
  BY SettleCases
  DEF LeaseNext, WorkerStep, leaseVars, ApiPublish, ApiPublishFails, DropMessage,
      LeaseExpires, OwnerStalls, Expire, BecomesDue, DispatchCrash, Receive,
      SkipClaim, PassCheck, RefreshSummary, Finalize, Heartbeat, RaiseBeforeClaim,
      Crash, RequestCancel, DeleteDocument
<1> QED BY <1>1, <1>2, <1>3, <1>4, <1>5, <1>6

LEMMA RunningStep ==
    ASSUME FenceInv, [LeaseNext]_leaseVars
    PROVE  \A r \in Rows :
              status[r] = "running" /\ <<status'[r], owner'[r]>> # <<status[r], owner[r]>> =>
                  \/ lease[r] = "expired"
                  \/ \E w \in Workers :
                        /\ phase[w] \in Working /\ phase'[w] = "settled"
                        /\ task[w] = r /\ token[w] = attempt[r] /\ owner[r] = w
<1> SUFFICES ASSUME NEW q \in Rows, status[q] = "running", lease[q] # "expired",
                    <<status'[q], owner'[q]>> # <<status[q], owner[q]>>
             PROVE  \E w \in Workers :
                        /\ phase[w] \in Working /\ phase'[w] = "settled"
                        /\ task[w] = q /\ token[w] = attempt[q] /\ owner[q] = w
  OBVIOUS
<1> USE DEF FenceInv, TypeInv, LeaseTypeOK, BusyHasRow, rowVars
<1>0. lease[q] = "valid"
  BY DEF RunningHasLease
<1>1. ~Dispatch /\ ~Recover
  BY DEF Dispatch, Dispatchable, Recover, Recoverable
<1>2. \A w \in Workers : ~Claim(w)
  BY <1>0 DEF Claim, Claimable, Waiting
<1>3. \A j \in Jobs : ~RetryJob(j)
  BY DEF RetryJob, RetryableRows
<1>4. PICK w \in Workers : SettleStep(w)
  BY <1>1, <1>2, <1>3, SettleCases
  DEF LeaseNext, WorkerStep, leaseVars, ApiPublish, ApiPublishFails, DropMessage,
      LeaseExpires, OwnerStalls, Expire, BecomesDue, DispatchCrash, Receive,
      SkipClaim, PassCheck, RefreshSummary, Finalize, Heartbeat, RaiseBeforeClaim,
      Crash, RequestCancel, DeleteDocument
<1>5. PICK o \in Outcomes, b \in BOOLEAN : Settle(w, o, b)
  BY <1>4 DEF SettleStep
<1>6. OwnsRow(w) /\ task[w] = q
  BY <1>5 DEF Settle
<1>7. token[w] = attempt[q] /\ phase[w] \in Working
  BY <1>4, <1>6 DEF SettleStep, Live, OwnerHoldsNewestAttempt
<1> QED BY <1>5, <1>6, <1>7 DEF Settle, OwnsRow

LEMMA InitDocuments == LeaseInit => DocumentInv
  BY InitFenced, LeaseAssumption
  DEF LeaseInit, DocumentInv, OutcomesAreReal, Finished

LEMMA DocumentsStep ==
    ASSUME OneRowPerDocument, DocumentInv, [LeaseNext]_leaseVars
    PROVE  DocumentInv'
<1>0. FenceInv /\ FenceInv'
  BY FencedStep DEF DocumentInv
<1>1. \A r \in Rows : status[r] \in Finished => status'[r] \in Finished
  BY <1>0, FinishedStep
<1> USE LeaseAssumption, <1>0, <1>1
    DEF DocumentInv, OutcomesAreReal, FenceInv, TypeInv, LeaseTypeOK, BusyHasRow,
        rowVars, docVars, execVars
\* Only a settlement writes an outcome, only a delivery reads one.
<1>2. ASSUME docStatus' = docStatus,
             \A w \in Workers : phase'[w] # "idle" =>
                phase[w] # "idle" /\ task'[w] = task[w] /\ sawDoc'[w] = sawDoc[w]
      PROVE  OutcomesAreReal'
  BY <1>2
<1>3. ASSUME NEW w \in Workers, NEW r \in Rows, Receive(w, r)
      PROVE  OutcomesAreReal'
  BY <1>3 DEF Receive
<1>4. ASSUME NEW w \in Workers, Heartbeat(w)
      PROVE  OutcomesAreReal'
  BY <1>4 DEF Heartbeat, Finished, Working
<1>5. ASSUME NEW w \in Workers, SettleStep(w)
      PROVE  OutcomesAreReal'
  <2>1. PICK o \in Outcomes, b \in BOOLEAN : Settle(w, o, b)
    BY <1>5 DEF SettleStep
  <2>2. /\ task[w] \in Rows
        /\ task' = task
        /\ sawDoc' = [sawDoc EXCEPT ![w] = "pending"]
        /\ phase[w] # "idle"
        /\ phase' = [phase EXCEPT ![w] = "settled"]
    BY <1>5, <2>1 DEF SettleStep, Live, Working, Settle
  <2>3. \/ docStatus' = docStatus
        \/ /\ docStatus' = [docStatus EXCEPT ![DocOf[task[w]]] = o]
           /\ status' = [status EXCEPT ![task[w]] = o]
    BY <2>1 DEF Settle
  <2>4. \A r \in Rows : docStatus'[DocOf[r]] \in Finished => status'[r] \in Finished
    BY <2>2, <2>3, SMTT(30) DEF OneRowPerDocument
  <2>5. \A v \in Workers :
            phase'[v] # "idle" /\ sawDoc'[v] \in Finished => status'[task'[v]] \in Finished
    BY <2>2 DEF Finished
  <2> QED BY <2>4, <2>5
<1>6. ASSUME NEW w \in Workers,
             SkipClaim(w) \/ Finalize(w) \/ RaiseBeforeClaim(w) \/ Crash(w)
      PROVE  OutcomesAreReal'
  BY <1>2, <1>6 DEF SkipClaim, Finalize, RaiseBeforeClaim, Crash, Release
<1>7. ASSUME NEW w \in Workers, Claim(w) \/ PassCheck(w) \/ RefreshSummary(w)
      PROVE  OutcomesAreReal'
  BY <1>2, <1>7 DEF Claim, PassCheck, RefreshSummary, Advance
<1>8. ASSUME UNCHANGED <<docStatus, execVars>>
      PROVE  OutcomesAreReal'
  BY <1>2, <1>8
<1>9. OutcomesAreReal'
  BY <1>3, <1>4, <1>5, <1>6, <1>7, <1>8, SettleCases
  DEF LeaseNext, WorkerStep, leaseVars, ApiPublish, ApiPublishFails, DropMessage,
      LeaseExpires, OwnerStalls, Expire, BecomesDue, Dispatch, DispatchCrash, Recover,
      RequestCancel, RetryJob, DeleteDocument
<1> QED BY <1>9

LEMMA DocumentStep ==
    ASSUME OneRowPerDocument, DocumentInv, [LeaseNext]_leaseVars
    PROVE  \A r \in Rows : status'[r] \in Finished =>
              \/ docStatus'[DocOf[r]] = status'[r]
              \/ status[r] = status'[r] /\ docStatus'[DocOf[r]] = docStatus[DocOf[r]]
              \/ \E w \in Workers : /\ phase[w] \in Working /\ task[w] = r
                                   /\ token[w] < attempt[r]
<1> SUFFICES ASSUME NEW q \in Rows, status'[q] \in Finished,
                    ~(status[q] = status'[q] /\ docStatus'[DocOf[q]] = docStatus[DocOf[q]])
             PROVE  \/ docStatus'[DocOf[q]] = status'[q]
                    \/ \E w \in Workers : /\ phase[w] \in Working /\ task[w] = q
                                         /\ token[w] < attempt[q]
  OBVIOUS
<1>0. FenceInv'
  BY FencedStep DEF DocumentInv
<1> USE <1>0, LeaseAssumption
    DEF DocumentInv, FenceInv, TypeInv, LeaseTypeOK, BusyHasRow, Finished, rowVars,
        docVars
<1>1. ~Dispatch /\ ~Recover
  BY DEF Dispatch, Dispatchable, Recover, Recoverable
<1>2. \A w \in Workers : ~Claim(w)
  BY DEF Claim
<1>3. \A j \in Jobs : ~RetryJob(j)
  BY DEF RetryJob, RetryableRows
<1>4. PICK w \in Workers : SettleStep(w) \/ Heartbeat(w)
  BY <1>1, <1>2, <1>3, SettleCases
  DEF LeaseNext, WorkerStep, leaseVars, ApiPublish, ApiPublishFails, DropMessage,
      LeaseExpires, OwnerStalls, Expire, BecomesDue, DispatchCrash, Receive,
      SkipClaim, PassCheck, RefreshSummary, Finalize, RaiseBeforeClaim,
      Crash, RequestCancel, DeleteDocument
\* Whoever beats for a finished row was superseded.
<1>5. CASE Heartbeat(w)
  <2>1. task[w] = q /\ status[q] \in Finished /\ phase[w] \in Working
    BY <1>5 DEF Heartbeat, OneRowPerDocument, Working
  <2> QED BY <2>1 DEF TokensFenced, Live
<1>6. CASE SettleStep(w)
  <2>1. PICK o \in Outcomes, b \in BOOLEAN : Settle(w, o, b)
    BY <1>6 DEF SettleStep
  <2>2. OwnsRow(w) /\ task[w] = q /\ task[w] \in Rows
    BY <1>6, <2>1 DEF Settle, OneRowPerDocument, SettleStep, Live, Working
  <2>3. status'[q] = o
    BY <2>1, <2>2 DEF Settle
  <2>4. o # sawDoc[w]
    BY <1>6, <2>2, <2>3 DEF OutcomesAreReal, OwnsRow, SettleStep, Live, Working
  <2> QED BY <2>1, <2>2, <2>3, <2>4 DEF Settle
<1> QED BY <1>4, <1>5, <1>6

----------------------------------------------------------------------------
(* Theorems.                                                               *)

\* The invariant of fencing and of the budget of attempts, which the next
\* theorems are read off from.
THEOREM AttemptsInvariant == LeaseSpec => []AttemptInv
<1>1. LeaseInit => AttemptInv
  BY InitAffordable
<1>2. AttemptInv /\ [LeaseNext]_leaseVars => AttemptInv'
  BY AttemptsStep
<1> QED BY <1>1, <1>2, PTL DEF LeaseSpec

\* Every row, document, message and execution keeps its type.
THEOREM LeaseTypesCorrect == LeaseSpec => []LeaseTypeOK
<1>1. AttemptInv => LeaseTypeOK
  BY DEF AttemptInv, FenceInv, TypeInv
<1> QED BY <1>1, AttemptsInvariant, PTL

\* Whoever may still settle a row holds its newest attempt, for any number of
\* workers, rows, lease expiries, duplicates and crashes.
THEOREM OwnersAreFenced == LeaseSpec => []OwnerHoldsNewestAttempt
<1>1. AttemptInv => OwnerHoldsNewestAttempt
  BY DEF AttemptInv, FenceInv
<1> QED BY <1>1, AttemptsInvariant, PTL

\* A row is claimed more often than max_attempts only once per crash, stall or
\* operator request.
THEOREM AttemptsAreBudgeted == LeaseSpec => []ExtraAttemptsAreCaused
<1>1. AttemptInv => ExtraAttemptsAreCaused
  BY DEF AttemptInv
<1> QED BY <1>1, AttemptsInvariant, PTL

\* No late writer, recovery, dispatcher or retry reopens a finished row.
THEOREM FinishedRowsAreFinal == LeaseSpec => FinishedRowsStayFinished
<1>1. AttemptInv /\ [LeaseNext]_leaseVars =>
          [\A r \in Rows : status[r] \in Finished => status'[r] = status[r]]_leaseVars
  BY FinishedStep DEF AttemptInv
<1> QED BY <1>1, AttemptsInvariant, PTL DEF LeaseSpec, FinishedRowsStayFinished

\* A running row is taken over only after its lease, and settled only by the
\* holder of its newest attempt.
THEOREM RunningRowsAreSafe == LeaseSpec => RunningRowsAreFenced
<1>1. AttemptInv /\ [LeaseNext]_leaseVars =>
          [\A r \in Rows :
              status[r] = "running" /\ <<status'[r], owner'[r]>> # <<status[r], owner[r]>> =>
                  \/ lease[r] = "expired"
                  \/ \E w \in Workers :
                        /\ phase[w] \in Working /\ phase'[w] = "settled"
                        /\ task[w] = r /\ token[w] = attempt[r] /\ owner[r] = w]_leaseVars
  BY RunningStep DEF AttemptInv
<1> QED BY <1>1, AttemptsInvariant, PTL DEF LeaseSpec, RunningRowsAreFenced

\* With one row per document, the outcome of a row is on its document from the
\* step that finishes it, and only a superseded execution can write over it.
THEOREM DocumentsShowOutcomes ==
    ASSUME OneRowPerDocument
    PROVE  LeaseSpec => DocumentShowsOutcome
<1>1. LeaseInit => DocumentInv
  BY InitDocuments
<1>2. DocumentInv /\ [LeaseNext]_leaseVars => DocumentInv'
  BY DocumentsStep
<1>3. DocumentInv /\ [LeaseNext]_leaseVars =>
          [\A r \in Rows : status'[r] \in Finished =>
              \/ docStatus'[DocOf[r]] = status'[r]
              \/ status[r] = status'[r] /\ docStatus'[DocOf[r]] = docStatus[DocOf[r]]
              \/ \E w \in Workers : /\ phase[w] \in Working /\ task[w] = r
                                   /\ token[w] < attempt[r]]_leaseVars
  BY DocumentStep
<1> QED BY <1>1, <1>2, <1>3, PTL DEF LeaseSpec, DocumentShowsOutcome

\* As long as no document is deleted and no execution fails before its claim, the
\* dispatcher may forget a queued row: a message or an execution has it.
THEOREM QueuedRowsAreCarried ==
    ASSUME "raise" \notin Faults, "delete" \notin Faults
    PROVE  LeaseSpec => []QueuedRowHasMessage
<1>1. LeaseInit => MessageInv
  BY InitMessages
<1>2. MessageInv /\ [LeaseNext]_leaseVars => MessageInv'
  BY MessagesStep
<1>3. MessageInv => QueuedRowHasMessage
  BY DEF MessageInv
<1> QED BY <1>1, <1>2, <1>3, PTL DEF LeaseSpec

(***************************************************************************)
(* Index versions.                                                         *)
(***************************************************************************)

----------------------------------------------------------------------------
(* Refinement of IndexingLease.                                            *)

LEMMA LeaseStep == [Next]_vars => [LeaseNext]_leaseVars
<1> SUFFICES ASSUME [Next]_vars PROVE LeaseNext \/ UNCHANGED leaseVars
  OBVIOUS
<1>1. ASSUME NEW w \in Workers, NEW r \in Rows, LoadAndReceive(w, r)
      PROVE  LeaseNext
  BY <1>1 DEF LoadAndReceive, LeaseNext
<1>2. ASSUME NEW w \in Workers,
             \/ ClaimRow(w) \/ LeaveUnclaimed(w) \/ ReportProgress(w) \/ EngineDone(w)
             \/ SettleRow(w) \/ Summarise(w) \/ LoseWorker(w)
      PROVE  LeaseNext
  BY <1>2 DEF ClaimRow, LeaveUnclaimed, ReportProgress, EngineDone, SettleRow,
              Summarise, LoseWorker, LeaseNext, WorkerStep
<1>3. ASSUME NEW w \in Workers,
             \/ FinalizeNothing(w) \/ FinalizeFailed(w) \/ FinalizeInvalid(w)
             \/ FinalizeSwitch(w) \/ FinalizeConflict(w)
      PROVE  LeaseNext
  <2>1. Finalize(w)
    BY <1>3 DEF FinalizeNothing, FinalizeFailed, FinalizeInvalid, FinalizeSwitch,
                FinalizeConflict, Reached
  <2> QED BY <2>1 DEF LeaseNext, WorkerStep
<1>4. CASE Background
  BY <1>4 DEF Background, LeaseNext
<1>5. ASSUME NEW j \in Jobs, CancelJob(j) \/ Retry(j)
      PROVE  LeaseNext
  BY <1>5 DEF CancelJob, Retry, LeaseNext
<1>6. ASSUME NEW d \in Docs, CleanupDocument(d)
      PROVE  UNCHANGED leaseVars
  BY <1>6 DEF CleanupDocument
<1>7. CASE UNCHANGED vars
  BY <1>7 DEF vars
<1> QED
  BY <1>1, <1>2, <1>3, <1>4, <1>5, <1>6, <1>7 DEF Next

\* Adding jobs, segments and index versions to the handlers takes nothing away
\* from what they do to rows, documents and messages.
THEOREM ActivationRefinesLease == Spec => LeaseSpec
<1>1. Init => LeaseInit
  BY DEF Init
<1> QED BY <1>1, LeaseStep, PTL DEF Spec, LeaseSpec

\* So its rows are fenced and stay within the budget of attempts.
COROLLARY ActivationRowsAreFenced ==
    Spec => [](OwnerHoldsNewestAttempt /\ ExtraAttemptsAreCaused)
  BY ActivationRefinesLease, OwnersAreFenced, AttemptsAreBudgeted, PTL

----------------------------------------------------------------------------
(* One active version.                                                     *)

OneActiveInv ==
    /\ OneActive
    /\ indexStatus \in [Indexes -> IndexStatuses]

LEMMA InitOneActive == Init => OneActiveInv
  BY DEF Init, OneActiveInv, OneActive, Active, IndexStatuses

\* A busy worker's job has a target.
LEMMA BusyHasTarget ==
    ASSUME TypeInv, NEW w \in Workers, phase[w] # "idle"
    PROVE  Target[JobOf[task[w]]] \in Indexes
  BY LeaseAssumption, ActivationAssumption DEF TypeInv, BusyHasRow

LEMMA OneActiveStep ==
    ASSUME TypeInv, OneActiveInv, [Next]_vars
    PROVE  OneActiveInv'
<1> USE DEF OneActiveInv, OneActive, Active, IndexStatuses
\* A finalization that fails activates nothing.
<1>1. ASSUME NEW w \in Workers, FinalizeFailed(w) \/ FinalizeInvalid(w)
      PROVE  OneActiveInv'
  <2>1. indexStatus' = SetIndex(w, "failed")
    BY <1>1 DEF FinalizeFailed, FinalizeInvalid
  <2> QED BY <2>1 DEF SetIndex
\* A switch leaves the target as the only version that may be active.
<1>2. ASSUME NEW w \in Workers, FinalizeSwitch(w)
      PROVE  OneActiveInv'
  <2> DEFINE i == Target[JobOf[task[w]]]
             new == SetIndex(w, "active")
  <2>1. i \in Indexes
    <3>1. phase[w] = "refreshed"
      BY <1>2 DEF FinalizeSwitch, Reached, Finalize
    <3> QED BY <3>1, BusyHasTarget
  <2>2. new \in [Indexes -> IndexStatuses]
    BY <2>1 DEF SetIndex
  <2>3. \A k \in Indexes : k # i => new[k] = indexStatus[k]
    BY <2>1 DEF SetIndex
  <2>4. indexStatus' = [k \in Indexes |-> IF k \in Active \ {i} THEN "retired" ELSE new[k]]
    BY <1>2 DEF FinalizeSwitch
  <2> HIDE DEF i, new
  <2>5. \A k \in Indexes : indexStatus'[k] = "active" => k = i
    BY <2>3, <2>4
  <2> QED BY <2>2, <2>4, <2>5
<1>3. ASSUME UNCHANGED indexStatus
      PROVE  OneActiveInv'
  BY <1>3
<1>4. \/ \E w \in Workers : FinalizeFailed(w) \/ FinalizeInvalid(w) \/ FinalizeSwitch(w)
      \/ UNCHANGED indexStatus
  BY DEF Next, vars, dataVars, LoadAndReceive, ClaimRow, LeaveUnclaimed, ReportProgress,
         EngineDone, SettleRow, Summarise, FinalizeNothing, FinalizeConflict,
         LoseWorker, Background, CancelJob, Retry, CleanupDocument
<1> QED BY <1>1, <1>2, <1>3, <1>4

\* However many jobs of a knowledge base finish, and however their finalizations
\* interleave, it never has two active versions.
THEOREM AtMostOneActive == Spec => []OneActive
<1>1. LeaseSpec => []TypeInv
  <2>1. AttemptInv => TypeInv
    BY DEF AttemptInv, FenceInv
  <2> QED BY <2>1, AttemptsInvariant, PTL
<1>2. Init => OneActiveInv
  BY InitOneActive
<1>3. TypeInv /\ OneActiveInv /\ [Next]_vars => OneActiveInv'
  BY OneActiveStep
<1>4. OneActiveInv => OneActive
  BY DEF OneActiveInv
<1> QED BY <1>1, <1>2, <1>3, <1>4, ActivationRefinesLease, PTL DEF Spec

----------------------------------------------------------------------------
(* Types.                                                                  *)

LEMMA LeaseTypeInv == LeaseSpec => []TypeInv
<1>1. AttemptInv => TypeInv
  BY DEF AttemptInv, FenceInv
<1> QED BY <1>1, AttemptsInvariant, PTL

\* A busy worker has a row and a job.
LEMMA BusyHasJob ==
    ASSUME TypeInv, NEW w \in Workers, phase[w] # "idle"
    PROVE  task[w] \in Rows /\ JobOf[task[w]] \in Jobs
  BY LeaseAssumption DEF TypeInv, BusyHasRow

LEMMA InitActivationTypes == Init => ActivationTypeOK
  BY DEF Init, ActivationTypeOK, JobStatuses, IndexStatuses, SegStates, Statuses,
         Waiting, Terminal

LEMMA SummaryTyped ==
    ASSUME NEW view, NEW current \in JobStatuses
    PROVE  Summary(view, current) \in JobStatuses
  BY DEF Summary, JobStatuses, Statuses, Waiting, Terminal

LEMMA DropCacheTyped ==
    ASSUME ActivationTypeOK, NEW w \in Workers, DropCache(w)
    PROVE  /\ sawRow' \in [Workers -> Statuses]
           /\ sawJob' \in [Workers -> JobStatuses]
           /\ sawIndex' \in [Workers -> IndexStatuses]
           /\ sawActive' \in [Workers -> SUBSET Indexes]
  BY DEF DropCache, ActivationTypeOK, JobStatuses, IndexStatuses, Statuses, Waiting

LEMMA SetJobTyped ==
    ASSUME ActivationTypeOK, NEW w \in Workers, NEW s \in JobStatuses, SetJob(w, s)
    PROVE  jobStatus' \in [Jobs -> JobStatuses]
  BY DEF SetJob, ActivationTypeOK

LEMMA SetIndexTyped ==
    ASSUME ActivationTypeOK, NEW w \in Workers, NEW s \in IndexStatuses
    PROVE  SetIndex(w, s) \in [Indexes -> IndexStatuses]
  BY DEF SetIndex, ActivationTypeOK

LEMMA ActivationTypesStep ==
    ASSUME TypeInv, ActivationTypeOK, [Next]_vars
    PROVE  ActivationTypeOK'
<1>0. TypeInv'
  BY LeaseStep, TypesStep
<1>1. ASSUME NEW w \in Workers, NEW r \in Rows, LoadAndReceive(w, r)
      PROVE  ActivationTypeOK'
  <2>1. JobOf[r] \in Jobs /\ Target[JobOf[r]] \in Indexes
    BY LeaseAssumption, ActivationAssumption
  <2> QED BY <1>1, <2>1 DEF LoadAndReceive, ActivationTypeOK, dataVars
<1>2. ASSUME NEW w \in Workers, ClaimRow(w)
      PROVE  ActivationTypeOK'
  BY <1>2 DEF ClaimRow, ActivationTypeOK, dataVars, Statuses
<1>3. ASSUME NEW w \in Workers,
             LeaveUnclaimed(w) \/ FinalizeNothing(w) \/ FinalizeConflict(w) \/ LoseWorker(w)
      PROVE  ActivationTypeOK'
  <2>1. DropCache(w) /\ UNCHANGED dataVars
    BY <1>3 DEF LeaveUnclaimed, FinalizeNothing, FinalizeConflict, LoseWorker
  <2> QED BY <2>1, DropCacheTyped DEF ActivationTypeOK, dataVars
<1>4. ASSUME NEW w \in Workers, ReportProgress(w)
      PROVE  ActivationTypeOK'
  <2>1. "running" \in JobStatuses
    BY DEF JobStatuses, Statuses
  <2>2. jobStatus' \in [Jobs -> JobStatuses]
    BY <1>4, <2>1, SetJobTyped DEF ReportProgress
  <2>3. seg' \in [Rows -> SegStates]
    <3>1. \A s \in SegStates : SegProgress(s) \subseteq SegStates
      BY DEF SegProgress, SegStates
    <3>2. phase[w] # "idle"
      BY <1>4 DEF ReportProgress, Heartbeat, Working
    <3> QED BY <1>4, <3>1, <3>2, BusyHasJob DEF ReportProgress, ActivationTypeOK
  <2> QED BY <1>4, <2>1, <2>2, <2>3 DEF ReportProgress, ActivationTypeOK
<1>5. ASSUME NEW w \in Workers, SettleRow(w)
      PROVE  ActivationTypeOK'
  <2>1. OwnsRow(w) => status'[task[w]] \in Statuses
    <3>1. SettleStep(w)
      BY <1>5, SettleCases DEF SettleRow
    <3>2. task[w] \in Rows
      BY <3>1, BusyHasJob DEF SettleStep, Live, Working
    <3> QED BY <1>0, <3>2 DEF TypeInv, LeaseTypeOK
  <2> QED BY <1>5, <2>1 DEF SettleRow, ActivationTypeOK, dataVars
<1>6. ASSUME NEW w \in Workers, Summarise(w)
      PROVE  ActivationTypeOK'
  <2> DEFINE s == Summary(View(w), sawJob[w])
  <2>1. s \in JobStatuses
    BY SummaryTyped DEF ActivationTypeOK
  <2>2. /\ SetJob(w, s)
        /\ sawJob' = [sawJob EXCEPT ![w] = s]
        /\ sawActive' = [sawActive EXCEPT ![w] = Active]
        /\ UNCHANGED <<indexStatus, seg, sawRow, sawIndex>>
    BY <1>6 DEF Summarise
  <2> HIDE DEF s
  <2>3. jobStatus' \in [Jobs -> JobStatuses]
    BY <2>1, <2>2, SetJobTyped
  <2> QED BY <2>1, <2>2, <2>3 DEF ActivationTypeOK, Active
<1>7. ASSUME NEW w \in Workers, FinalizeFailed(w) \/ FinalizeInvalid(w)
      PROVE  ActivationTypeOK'
  <2>1. /\ indexStatus' = SetIndex(w, "failed")
        /\ SetJob(w, "cancelled") \/ SetJob(w, "failed")
        /\ DropCache(w)
        /\ seg' = seg
    BY <1>7 DEF FinalizeFailed, FinalizeInvalid
  <2>2. /\ "cancelled" \in JobStatuses /\ "failed" \in JobStatuses
        /\ "failed" \in IndexStatuses
    BY DEF JobStatuses, IndexStatuses, Statuses, Terminal
  <2>3. jobStatus' \in [Jobs -> JobStatuses]
    BY <2>1, <2>2, SetJobTyped
  <2> QED BY <2>1, <2>2, <2>3, SetIndexTyped, DropCacheTyped DEF ActivationTypeOK
<1>8. ASSUME NEW w \in Workers, FinalizeSwitch(w)
      PROVE  ActivationTypeOK'
  <2> DEFINE j == JobOf[task[w]]
             old == Active \ {Target[j]}
             new == SetIndex(w, "active")
  <2>1. /\ indexStatus' = [i \in Indexes |-> IF i \in old THEN "retired" ELSE new[i]]
        /\ seg' = [r \in Rows |->
                     IF JobOf[r] = j THEN "completed"
                     ELSE IF Target[JobOf[r]] \in old /\ seg[r] # "none" THEN "deleted"
                     ELSE seg[r]]
        /\ SetJob(w, "completed")
        /\ DropCache(w)
    BY <1>8 DEF FinalizeSwitch
  <2>2. new \in [Indexes -> IndexStatuses]
    BY SetIndexTyped DEF IndexStatuses
  <2>3. "completed" \in JobStatuses
    BY DEF JobStatuses, Statuses, Terminal
  <2>4. jobStatus' \in [Jobs -> JobStatuses]
    BY <2>1, <2>3, SetJobTyped
  <2> HIDE DEF j, old, new
  <2>5. indexStatus' \in [Indexes -> IndexStatuses]
    BY <2>1, <2>2 DEF IndexStatuses
  <2>6. seg' \in [Rows -> SegStates]
    BY <2>1 DEF ActivationTypeOK, SegStates
  <2> QED BY <2>1, <2>4, <2>5, <2>6, DropCacheTyped DEF ActivationTypeOK
<1>9. ASSUME NEW j \in Jobs, Retry(j)
      PROVE  ActivationTypeOK'
  BY <1>9 DEF Retry, ActivationTypeOK, cacheVars, JobStatuses, Statuses, Waiting
<1>10. ASSUME NEW d \in Docs, CleanupDocument(d)
       PROVE  ActivationTypeOK'
  BY <1>10 DEF CleanupDocument, ActivationTypeOK, cacheVars, SegStates
<1>11. ASSUME UNCHANGED <<dataVars, cacheVars>>
       PROVE  ActivationTypeOK'
  BY <1>11 DEF dataVars, cacheVars, ActivationTypeOK
<1> QED
  BY <1>1, <1>2, <1>3, <1>4, <1>5, <1>6, <1>7, <1>8, <1>9, <1>10, <1>11
  DEF Next, vars, EngineDone, Background, CancelJob

\* Jobs, index versions, segments and what the sessions cache keep their types.
THEOREM ActivationTypesCorrect == Spec => []ActivationTypeOK
<1>1. Init => ActivationTypeOK
  BY InitActivationTypes
<1>2. TypeInv /\ ActivationTypeOK /\ [Next]_vars => ActivationTypeOK'
  BY ActivationTypesStep
<1> QED BY <1>1, <1>2, LeaseTypeInv, ActivationRefinesLease, PTL DEF Spec

----------------------------------------------------------------------------
(* What is served is whole.                                                *)

\* A version that is, or was, served.
Served == {"active", "retired"}

\* A session that remembers its row as completed is right: completed rows are
\* never reopened.
CachedCompletionIsReal ==
    \A w \in Workers :
        sawRow[w] = "completed" => phase[w] # "idle" /\ status[task[w]] = "completed"

\* A job whose version was ever served has completed all its rows.
ServedJobsAreDone ==
    \A j \in Jobs :
        indexStatus[Target[j]] \in Served => \A r \in RowsOf(j) : status[r] = "completed"

WholeInv ==
    ActivationTypeOK /\ CachedCompletionIsReal /\ ServedJobsAreDone /\ ServedIsWhole

LEMMA InitWhole == Init => WholeInv
  BY InitActivationTypes, ActivationAssumption
  DEF Init, WholeInv, CachedCompletionIsReal, ServedJobsAreDone, ServedIsWhole, Served

\* What a job switches to is completed, whatever the session remembers.
LEMMA SwitchIsDone ==
    ASSUME TypeInv, CachedCompletionIsReal, NEW w \in Workers, Reached(w)
    PROVE  /\ JobOf[task[w]] \in Jobs
           /\ \A r \in RowsOf(JobOf[task[w]]) : status[r] = "completed"
<1>1. phase[w] = "refreshed" /\ AllTerminal(w) /\ ~SomeFailed(w)
  BY DEF Reached, Finalize
<1>2. \A r \in RowsOf(JobOf[task[w]]) : View(w)[r] = "completed"
  BY <1>1 DEF AllTerminal, SomeFailed, View, Terminal
<1>3. \A r \in RowsOf(JobOf[task[w]]) :
          View(w)[r] = IF r = task[w] THEN sawRow[w] ELSE status[r]
  BY DEF View
<1>4. \A r \in RowsOf(JobOf[task[w]]) : status[r] = "completed"
  BY <1>2, <1>3 DEF CachedCompletionIsReal
<1> QED BY <1>1, <1>4, BusyHasJob

\* What any step does to the statuses of index versions.
LEMMA IndexCases ==
    ASSUME [Next]_vars
    PROVE  \/ \E w \in Workers : FinalizeFailed(w) \/ FinalizeInvalid(w)
           \/ \E w \in Workers : FinalizeSwitch(w)
           \/ UNCHANGED indexStatus
  BY DEF Next, vars, dataVars, LoadAndReceive, ClaimRow, LeaveUnclaimed, ReportProgress,
         EngineDone, SettleRow, Summarise, FinalizeNothing, FinalizeConflict,
         LoseWorker, Background, CancelJob, Retry, CleanupDocument

\* A finalization that fails turns no version into a served one.
LEMMA FailureServesNothing ==
    ASSUME ActivationTypeOK, NEW w \in Workers, FinalizeFailed(w) \/ FinalizeInvalid(w)
    PROVE  \A i \in Indexes : indexStatus'[i] \in Served => indexStatus[i] = indexStatus'[i]
<1>1. indexStatus' = SetIndex(w, "failed")
  BY DEF FinalizeFailed, FinalizeInvalid
<1> QED BY <1>1 DEF SetIndex, ActivationTypeOK, Served

\* A switch retires every other active version and may activate the target.
LEMMA SwitchServesTarget ==
    ASSUME TypeInv, ActivationTypeOK, NEW w \in Workers, FinalizeSwitch(w)
    PROVE  LET i == Target[JobOf[task[w]]] IN
           /\ i \in Indexes
           /\ \A k \in Indexes \ {i} :
                 indexStatus'[k] = IF indexStatus[k] = "active" THEN "retired"
                                   ELSE indexStatus[k]
           /\ indexStatus'[i] = IF sawIndex[w] = "active" THEN indexStatus[i] ELSE "active"
<1> DEFINE i == Target[JobOf[task[w]]]
           new == SetIndex(w, "active")
<1>1. i \in Indexes
  <2>1. phase[w] = "refreshed"
    BY DEF FinalizeSwitch, Reached, Finalize
  <2> QED BY <2>1, BusyHasTarget
<1>2. \A k \in Indexes : new[k] = IF k = i /\ sawIndex[w] # "active" THEN "active"
                                  ELSE indexStatus[k]
  BY <1>1 DEF SetIndex, ActivationTypeOK
<1>3. indexStatus' = [k \in Indexes |-> IF k \in Active \ {i} THEN "retired" ELSE new[k]]
  BY DEF FinalizeSwitch
<1> HIDE DEF i, new
<1>4. /\ \A k \in Indexes \ {i} :
            indexStatus'[k] = IF indexStatus[k] = "active" THEN "retired"
                              ELSE indexStatus[k]
      /\ indexStatus'[i] = IF sawIndex[w] = "active" THEN indexStatus[i] ELSE "active"
  BY <1>1, <1>2, <1>3 DEF Active
<1> QED BY <1>1, <1>4 DEF i

\* Rows that are completed stay so in every step of IndexActivation.
LEMMA CompletedStep ==
    ASSUME FenceInv, [Next]_vars
    PROVE  \A r \in Rows : status[r] = "completed" => status'[r] = "completed"
  BY LeaseStep, FinishedStep DEF Finished

LEMMA CachedCompletionStep ==
    ASSUME FenceInv, ActivationTypeOK, CachedCompletionIsReal, [Next]_vars
    PROVE  CachedCompletionIsReal'
<1>0. \A r \in Rows : status[r] = "completed" => status'[r] = "completed"
  BY CompletedStep
<1> USE <1>0 DEF CachedCompletionIsReal, FenceInv, TypeInv, LeaseTypeOK, BusyHasRow,
                 ActivationTypeOK, execVars
\* Executions that go on keep their row and what they remember of it.
<1>1. ASSUME UNCHANGED <<task, sawRow>>,
             \A v \in Workers : phase[v] # "idle" => phase'[v] # "idle"
      PROVE  CachedCompletionIsReal'
  BY <1>1
<1>2. ASSUME NEW w \in Workers, DropCache(w), Release(w)
      PROVE  CachedCompletionIsReal'
  BY <1>2 DEF DropCache, Release
<1>3. ASSUME NEW w \in Workers, NEW r \in Rows, LoadAndReceive(w, r)
      PROVE  CachedCompletionIsReal'
  BY <1>3 DEF LoadAndReceive, Receive
<1>4. ASSUME NEW w \in Workers, ClaimRow(w)
      PROVE  CachedCompletionIsReal'
  BY <1>4 DEF ClaimRow, Claim
<1>5. ASSUME NEW w \in Workers, SettleRow(w)
      PROVE  CachedCompletionIsReal'
  <2>1. /\ task' = task
        /\ phase' = [phase EXCEPT ![w] = "settled"]
    BY <1>5 DEF SettleRow, Complete, CancelDocument, FailDocument, Settle
  <2> QED BY <1>5, <2>1 DEF SettleRow
<1>6. ASSUME NEW w \in Workers, ReportProgress(w) \/ EngineDone(w) \/ Summarise(w)
      PROVE  CachedCompletionIsReal'
  BY <1>1, <1>6 DEF ReportProgress, EngineDone, Summarise, Heartbeat, PassCheck,
                    RefreshSummary, Advance, cacheVars
<1>7. ASSUME NEW w \in Workers,
             \/ LeaveUnclaimed(w) \/ LoseWorker(w) \/ FinalizeNothing(w)
             \/ FinalizeFailed(w) \/ FinalizeInvalid(w) \/ FinalizeSwitch(w)
             \/ FinalizeConflict(w)
      PROVE  CachedCompletionIsReal'
  <2>1. DropCache(w) /\ Release(w)
    BY <1>7 DEF LeaveUnclaimed, SkipClaim, RaiseBeforeClaim, LoseWorker, Crash,
                FinalizeNothing, FinalizeFailed, FinalizeInvalid, FinalizeSwitch,
                FinalizeConflict, Reached, Finalize
  <2> QED BY <1>2, <2>1
<1>8. ASSUME UNCHANGED <<execVars, sawRow>>
      PROVE  CachedCompletionIsReal'
  BY <1>1, <1>8
<1>9. CASE Background
  BY <1>8, <1>9 DEF Background, cacheVars, ApiPublish, ApiPublishFails, DropMessage,
      LeaseExpires, OwnerStalls, Expire, BecomesDue, Dispatch, DispatchCrash, Recover,
      DeleteDocument
<1>10. ASSUME NEW j \in Jobs, CancelJob(j) \/ Retry(j)
       PROVE  CachedCompletionIsReal'
  BY <1>8, <1>10 DEF CancelJob, Retry, RequestCancel, RetryJob, cacheVars
<1>11. ASSUME NEW d \in Docs, CleanupDocument(d)
       PROVE  CachedCompletionIsReal'
  BY <1>8, <1>11 DEF CleanupDocument, leaseVars, cacheVars
<1>12. CASE UNCHANGED vars
  BY <1>8, <1>12 DEF vars, leaseVars, cacheVars
<1> QED
  BY <1>3, <1>4, <1>5, <1>6, <1>7, <1>9, <1>10, <1>11, <1>12 DEF Next

LEMMA ServedJobsStep ==
    ASSUME FenceInv, ActivationTypeOK, CachedCompletionIsReal, ServedJobsAreDone,
           [Next]_vars
    PROVE  ServedJobsAreDone'
<1> SUFFICES ASSUME NEW k \in Jobs, indexStatus'[Target[k]] \in Served,
                    NEW r \in RowsOf(k)
             PROVE  status'[r] = "completed"
  BY DEF ServedJobsAreDone, RowsOf
<1>0. Target[k] \in Indexes /\ TypeInv /\ r \in Rows
  BY ActivationAssumption DEF FenceInv, RowsOf
<1>1. ASSUME indexStatus[Target[k]] \in Served
      PROVE  status'[r] = "completed"
  BY <1>0, <1>1, CompletedStep DEF ServedJobsAreDone
<1>2. CASE \E w \in Workers : FinalizeFailed(w) \/ FinalizeInvalid(w)
  BY <1>0, <1>1, <1>2, FailureServesNothing
<1>3. ASSUME NEW w \in Workers, FinalizeSwitch(w)
      PROVE  status'[r] = "completed"
  <2>1. CASE Target[k] = Target[JobOf[task[w]]]
    <3>1. Reached(w)
      BY <1>3 DEF FinalizeSwitch
    <3>2. k = JobOf[task[w]] /\ status[r] = "completed"
      BY <1>0, <2>1, <3>1, SwitchIsDone, ActivationAssumption
    <3> QED BY <1>0, <3>2, CompletedStep
  <2>2. CASE Target[k] # Target[JobOf[task[w]]]
    BY <1>0, <1>1, <1>3, <2>2, SwitchServesTarget DEF Served
  <2> QED BY <2>1, <2>2
<1>4. CASE UNCHANGED indexStatus
  BY <1>1, <1>4
<1> QED BY <1>2, <1>3, <1>4, IndexCases

\* Segments, once completed or deleted, are only deleted with their document or
\* their version.
LEMMA ServedWholeStep ==
    ASSUME FenceInv, WholeInv, [Next]_vars
    PROVE  ServedIsWhole'
<1> SUFFICES ASSUME NEW k \in Jobs, indexStatus'[Target[k]] = "active",
                    NEW r \in RowsOf(k)
             PROVE  /\ status'[r] = "completed"
                    /\ \/ seg'[r] = "completed"
                       \/ DocOf[r] \in deleted' /\ seg'[r] = "deleted"
  BY DEF ServedIsWhole, RowsOf
<1>0. /\ Target[k] \in Indexes /\ r \in Rows /\ JobOf[r] = k
      /\ TypeInv /\ ActivationTypeOK /\ CachedCompletionIsReal
  BY ActivationAssumption DEF FenceInv, RowsOf, WholeInv
<1>1. status'[r] = "completed"
  <2>1. ServedJobsAreDone'
    BY <1>0, ServedJobsStep DEF WholeInv
  <2> QED BY <2>1 DEF ServedJobsAreDone, RowsOf, Served
<1> DEFINE Whole == seg[r] = "completed" \/ (DocOf[r] \in deleted /\ seg[r] = "deleted")
<1>2. indexStatus[Target[k]] = "active" => Whole
  BY DEF WholeInv, ServedIsWhole
<1>3. ASSUME NEW w \in Workers, FinalizeSwitch(w)
      PROVE  seg'[r] = "completed"
  <2>1. Target[k] = Target[JobOf[task[w]]]
    BY <1>0, <1>3, SwitchServesTarget
  <2>2. k = JobOf[task[w]]
    <3>1. Reached(w)
      BY <1>3 DEF FinalizeSwitch
    <3> QED BY <1>0, <2>1, <3>1, SwitchIsDone, ActivationAssumption
  <2> QED BY <1>0, <1>3, <2>2 DEF FinalizeSwitch
<1>4. ASSUME \A w \in Workers : ~FinalizeSwitch(w)
      PROVE  indexStatus[Target[k]] = "active"
  <2>1. CASE \E w \in Workers : FinalizeFailed(w) \/ FinalizeInvalid(w)
    BY <1>0, <2>1, FailureServesNothing DEF Served
  <2> QED BY <1>4, <2>1, IndexCases
<1>5. ASSUME Whole, \A w \in Workers : ~FinalizeSwitch(w)
      PROVE  Whole'
  <2>1. ASSUME NEW w \in Workers, ReportProgress(w)
        PROVE  Whole'
    BY <1>0, <1>5, <2>1 DEF ReportProgress, Heartbeat, SegProgress, ActivationTypeOK
  <2>2. ASSUME NEW d \in Docs, CleanupDocument(d)
        PROVE  Whole'
    BY <1>0, <1>5, <2>2 DEF CleanupDocument, leaseVars, docVars
  <2>3. ASSUME NEW d \in Docs, DeleteDocument(d), seg' = seg
        PROVE  Whole'
    BY <1>5, <2>3 DEF DeleteDocument
  <2>4. ASSUME UNCHANGED <<seg, deleted>>
        PROVE  Whole'
    BY <1>5, <2>4
  <2> QED
    BY <1>5, <2>1, <2>2, <2>3, <2>4, ZenonT(30)
    DEF Next, vars, leaseVars, docVars, dataVars, LoadAndReceive, Receive, ClaimRow,
        Claim, LeaveUnclaimed, SkipClaim, RaiseBeforeClaim, EngineDone, PassCheck,
        SettleRow, Complete, CancelDocument, FailDocument, Settle, Summarise,
        RefreshSummary, FinalizeNothing, FinalizeFailed, FinalizeInvalid,
        FinalizeConflict, Reached, Finalize, LoseWorker, Crash, Background, ApiPublish,
        ApiPublishFails, DropMessage, LeaseExpires, OwnerStalls, Expire, BecomesDue,
        Dispatch, DispatchCrash, Recover, CancelJob, RequestCancel, Retry, RetryJob
<1> QED BY <1>1, <1>2, <1>3, <1>4, <1>5

\* The invariant, for any number of workers, jobs and documents.
LEMMA WholeStep ==
    ASSUME FenceInv, WholeInv, [Next]_vars
    PROVE  WholeInv'
  BY ActivationTypesStep, CachedCompletionStep, ServedJobsStep, ServedWholeStep
  DEF WholeInv, FenceInv

LEMMA LeaseFenceInv == LeaseSpec => []FenceInv
<1>1. AttemptInv => FenceInv
  BY DEF AttemptInv
<1> QED BY <1>1, AttemptsInvariant, PTL

LEMMA WholeInvariant == Spec => [](FenceInv /\ WholeInv)
<1>1. Init => WholeInv
  BY InitWhole
<1>2. FenceInv /\ WholeInv /\ [Next]_vars => WholeInv'
  BY WholeStep
<1> QED BY <1>1, <1>2, LeaseFenceInv, ActivationRefinesLease, PTL DEF Spec

\* Whatever races, a version a job built is served only if every row of the job
\* is completed, with live segments for every document that still exists.
THEOREM ServedVersionsAreWhole == Spec => []ServedIsWhole
<1>1. WholeInv => ServedIsWhole
  BY DEF WholeInv
<1> QED BY <1>1, WholeInvariant, PTL

----------------------------------------------------------------------------
(* One finalization of a job at a time.                                    *)
(*                                                                         *)
(* OnlyServedSegmentsAreCompleted, NeverUnserved and ReadersSpec fail with *)
(* several workers (run ActivationTwoWorkers).  They hold whenever no two  *)
(* executions of one job are both past the settlement of their rows and    *)
(* not yet past finalize_indexing_job; this is what goes wrong there, and  *)
(* nothing else.                                                           *)

\* The execution has written a terminal status and may act on the whole job.
Finalizing(w) == phase[w] \in {"settled", "refreshed"} /\ sawRow[w] \in Terminal

OneFinalizer ==
    \A v, w \in Workers :
        Finalizing(v) /\ Finalizing(w) /\ JobOf[task[v]] = JobOf[task[w]] => v = w

\* The cached row is the claimed row until the execution settles it.
CachedRowIsRunning ==
    \A w \in Workers :
        /\ phase[w] \in {"idle", "loaded"} => sawRow[w] = "pending"
        /\ phase[w] \in Working => sawRow[w] = "running"

\* An execution that loaded a served version finds its row completed, and stops.
CachedIndexIsUnserved ==
    \A w \in Workers :
        phase[w] # "idle" /\ sawIndex[w] \in Served =>
            phase[w] = "loaded" /\ status[task[w]] = "completed"

SessionInv == CachedRowIsRunning /\ CachedIndexIsUnserved

\* Whoever is about to finalize a job finds its version not served yet.
TargetsAreUnserved ==
    \A w \in Workers : Finalizing(w) => indexStatus[Target[JobOf[task[w]]]] \notin Served

FinalInv == TargetsAreUnserved /\ OnlyServedSegmentsAreCompleted

LEMMA InitSession == Init => SessionInv
  BY DEF Init, LeaseInit, SessionInv, CachedRowIsRunning, CachedIndexIsUnserved,
         Working, Served

LEMMA SessionStep ==
    ASSUME FenceInv, WholeInv, SessionInv, [Next]_vars
    PROVE  SessionInv'
<1>0. \A r \in Rows : status[r] = "completed" => status'[r] = "completed"
  BY CompletedStep
<1> USE <1>0 DEF SessionInv, CachedRowIsRunning, CachedIndexIsUnserved, FenceInv,
                 TypeInv, LeaseTypeOK, BusyHasRow, Working, execVars
<1>1. ASSUME NEW w \in Workers, DropCache(w), Release(w)
      PROVE  SessionInv'
  BY <1>1 DEF DropCache, Release, WholeInv, ActivationTypeOK, Served
<1>2. ASSUME NEW w \in Workers, NEW r \in Rows, LoadAndReceive(w, r)
      PROVE  SessionInv'
  <2>1. indexStatus[Target[JobOf[r]]] \in Served => status[r] = "completed"
    BY LeaseAssumption DEF WholeInv, ServedJobsAreDone, RowsOf
  <2> QED
    BY <1>2, <2>1 DEF LoadAndReceive, Receive, WholeInv, ActivationTypeOK, rowVars
<1>3. ASSUME NEW w \in Workers, ClaimRow(w)
      PROVE  SessionInv'
  <2>1. status[task[w]] # "completed"
    BY <1>3 DEF ClaimRow, Claim, Claimable, Waiting
  <2> QED BY <1>3, <2>1 DEF ClaimRow, Claim, WholeInv, ActivationTypeOK
<1>4. ASSUME NEW w \in Workers, SettleRow(w)
      PROVE  SessionInv'
  <2>1. /\ UNCHANGED <<task, sawIndex>>
        /\ phase' = [phase EXCEPT ![w] = "settled"]
        /\ phase[w] \in Working
        /\ \A v \in Workers : v # w => sawRow'[v] = sawRow[v]
    BY <1>4 DEF SettleRow, Complete, CancelDocument, FailDocument, Settle, WholeInv,
                ActivationTypeOK
  <2> QED BY <2>1
<1>5. ASSUME NEW w \in Workers, ReportProgress(w) \/ EngineDone(w) \/ Summarise(w)
      PROVE  SessionInv'
  BY <1>5 DEF ReportProgress, EngineDone, Summarise, Heartbeat, PassCheck,
              RefreshSummary, Advance, cacheVars
<1>6. ASSUME NEW w \in Workers,
             \/ LeaveUnclaimed(w) \/ LoseWorker(w) \/ FinalizeNothing(w)
             \/ FinalizeFailed(w) \/ FinalizeInvalid(w) \/ FinalizeSwitch(w)
             \/ FinalizeConflict(w)
      PROVE  SessionInv'
  <2>1. DropCache(w) /\ Release(w)
    BY <1>6 DEF LeaveUnclaimed, SkipClaim, RaiseBeforeClaim, LoseWorker, Crash,
                FinalizeNothing, FinalizeFailed, FinalizeInvalid, FinalizeSwitch,
                FinalizeConflict, Reached, Finalize
  <2> QED BY <1>1, <2>1
<1>7. ASSUME UNCHANGED <<execVars, cacheVars>>
      PROVE  SessionInv'
  BY <1>7 DEF cacheVars
<1>8. CASE Background
  BY <1>7, <1>8 DEF Background, ApiPublish, ApiPublishFails, DropMessage,
      LeaseExpires, OwnerStalls, Expire, BecomesDue, Dispatch, DispatchCrash, Recover,
      DeleteDocument
<1>9. ASSUME NEW j \in Jobs, CancelJob(j) \/ Retry(j)
      PROVE  SessionInv'
  BY <1>7, <1>9 DEF CancelJob, Retry, RequestCancel, RetryJob
<1>10. ASSUME NEW d \in Docs, CleanupDocument(d)
       PROVE  SessionInv'
  BY <1>7, <1>10 DEF CleanupDocument, leaseVars
<1>11. CASE UNCHANGED vars
  BY <1>7, <1>11 DEF vars, leaseVars
<1> QED
  BY <1>2, <1>3, <1>4, <1>5, <1>6, <1>8, <1>9, <1>10, <1>11 DEF Next

LEMMA SessionInvariant == Spec => [](FenceInv /\ WholeInv /\ SessionInv)
<1>1. Init => SessionInv
  BY InitSession
<1>2. FenceInv /\ WholeInv /\ SessionInv /\ [Next]_vars => SessionInv'
  BY SessionStep
<1> QED BY <1>1, <1>2, WholeInvariant, PTL DEF Spec

\* Who finalizes has settled its row.
LEMMA FinalizersFinalize ==
    ASSUME TypeInv, NEW w \in Workers, FinalizeFailed(w) \/ Reached(w)
    PROVE  Finalizing(w)
<1>1. phase[w] = "refreshed" /\ AllTerminal(w)
  BY DEF FinalizeFailed, Reached, Finalize
<1>2. task[w] \in RowsOf(JobOf[task[w]])
  BY <1>1, BusyHasJob DEF RowsOf
<1> QED BY <1>1, <1>2 DEF AllTerminal, View, Finalizing

\* With one finalizer, a failed finalization touches no served version ...
LEMMA FailureSparesServed ==
    ASSUME FenceInv, WholeInv, TargetsAreUnserved,
           NEW w \in Workers, FinalizeFailed(w) \/ FinalizeInvalid(w)
    PROVE  /\ Target[JobOf[task[w]]] \in Indexes
           /\ indexStatus[Target[JobOf[task[w]]]] \notin Served
           /\ indexStatus'[Target[JobOf[task[w]]]] \notin Served
           /\ \A i \in Indexes : i # Target[JobOf[task[w]]] =>
                 indexStatus'[i] = indexStatus[i]
<1>1. Finalizing(w)
  BY FinalizersFinalize DEF FenceInv, FinalizeInvalid
<1>2. Target[JobOf[task[w]]] \in Indexes
  BY <1>1, BusyHasTarget DEF FenceInv, Finalizing
<1>3. indexStatus' = SetIndex(w, "failed")
  BY DEF FinalizeFailed, FinalizeInvalid
<1> QED
  BY <1>1, <1>2, <1>3 DEF TargetsAreUnserved, SetIndex, WholeInv, ActivationTypeOK, Served

\* ... and a switch activates its target, which was never served before.
LEMMA SwitchActivates ==
    ASSUME FenceInv, WholeInv, SessionInv, TargetsAreUnserved,
           NEW w \in Workers, FinalizeSwitch(w)
    PROVE  /\ Finalizing(w)
           /\ Target[JobOf[task[w]]] \in Indexes
           /\ indexStatus[Target[JobOf[task[w]]]] \notin Served
           /\ indexStatus'[Target[JobOf[task[w]]]] = "active"
           /\ \A i \in Indexes : i # Target[JobOf[task[w]]] =>
                 indexStatus'[i] = IF indexStatus[i] = "active" THEN "retired"
                                   ELSE indexStatus[i]
<1>1. Reached(w) /\ phase[w] = "refreshed"
  BY DEF FinalizeSwitch, Reached, Finalize
<1>2. Finalizing(w)
  BY <1>1, FinalizersFinalize DEF FenceInv
<1>3. sawIndex[w] # "active"
  BY <1>1 DEF SessionInv, CachedIndexIsUnserved, Served
<1> QED
  BY <1>2, <1>3, SwitchServesTarget DEF FenceInv, WholeInv, TargetsAreUnserved

LEMMA InitFinal == Init => FinalInv
  BY DEF Init, LeaseInit, FinalInv, TargetsAreUnserved, Finalizing,
         OnlyServedSegmentsAreCompleted

LEMMA TargetsStep ==
    ASSUME FenceInv, WholeInv, SessionInv, OneFinalizer, TargetsAreUnserved, [Next]_vars
    PROVE  TargetsAreUnserved'
<1> USE DEF TargetsAreUnserved, Finalizing, FenceInv, TypeInv, LeaseTypeOK, BusyHasRow,
            WholeInv, ActivationTypeOK, execVars
<1>1. ASSUME UNCHANGED <<indexStatus, task, sawRow>>,
             \A v \in Workers : phase'[v] \in {"settled", "refreshed"} =>
                phase[v] \in {"settled", "refreshed"}
      PROVE  TargetsAreUnserved'
  BY <1>1
\* Who starts to finalize has just settled a row that was running.
<1>2. ASSUME NEW w \in Workers, SettleRow(w)
      PROVE  TargetsAreUnserved'
  <2>0. SettleStep(w)
    BY <1>2, SettleCases DEF SettleRow
  <2>1. /\ UNCHANGED <<task, indexStatus>>
        /\ phase' = [phase EXCEPT ![w] = "settled"]
        /\ phase[w] \in Working
        /\ \A v \in Workers : v # w => sawRow'[v] = sawRow[v]
        /\ ~OwnsRow(w) => sawRow' = sawRow
    <3>1. task' = task /\ phase' = [phase EXCEPT ![w] = "settled"] /\ phase[w] \in Working
      BY <2>0 DEF SettleStep, Settle, Live
    <3>2. /\ UNCHANGED indexStatus
          /\ sawRow' = IF OwnsRow(w) THEN [sawRow EXCEPT ![w] = status'[task[w]]]
                                     ELSE sawRow
      BY <1>2 DEF SettleRow, dataVars
    <3> QED BY <3>1, <3>2
  <2>2. task[w] \in Rows /\ JobOf[task[w]] \in Jobs
    BY <2>1, BusyHasJob DEF Working
  <2>3. CASE OwnsRow(w)
    <3>1. indexStatus[Target[JobOf[task[w]]]] \notin Served
      BY <2>2, <2>3 DEF ServedJobsAreDone, RowsOf, OwnsRow
    <3> QED BY <2>1, <3>1
  <2>4. CASE ~OwnsRow(w)
    <3>1. sawRow[w] = "running"
      BY <2>1 DEF SessionInv, CachedRowIsRunning
    <3> QED BY <2>1, <2>4, <3>1 DEF Terminal
  <2> QED BY <2>3, <2>4
<1>3. ASSUME NEW w \in Workers, DropCache(w), Release(w)
      PROVE  \A v \in Workers : Finalizing(v)' =>
                v # w /\ Finalizing(v) /\ task'[v] = task[v]
  BY <1>3 DEF DropCache, Release
<1>4. ASSUME NEW w \in Workers, FinalizeFailed(w) \/ FinalizeInvalid(w)
      PROVE  TargetsAreUnserved'
  <2>1. DropCache(w) /\ Release(w)
    BY <1>4 DEF FinalizeFailed, FinalizeInvalid, Reached, Finalize
  <2>2. \A i \in Indexes : indexStatus[i] \notin Served => indexStatus'[i] \notin Served
    BY <1>4, FailureSparesServed
  <2>3. \A v \in Workers : Finalizing(v) => Target[JobOf[task[v]]] \in Indexes
    BY BusyHasTarget
  <2> HIDE DEF Finalizing
  <2> QED BY <1>3, <2>1, <2>2, <2>3
\* The target of the switch belongs to no other finalizer.
<1>5. ASSUME NEW w \in Workers, FinalizeSwitch(w)
      PROVE  TargetsAreUnserved'
  <2>1. DropCache(w) /\ Release(w)
    BY <1>5 DEF FinalizeSwitch, Reached, Finalize
  <2>2. SUFFICES ASSUME NEW v \in Workers, v # w, Finalizing(v), task'[v] = task[v]
                 PROVE  indexStatus'[Target[JobOf[task[v]]]] \notin Served
    BY <1>3, <2>1
  <2>3. Finalizing(w)
    BY <1>5, SwitchActivates
  <2>4. JobOf[task[v]] # JobOf[task[w]]
    BY <2>2, <2>3 DEF OneFinalizer
  <2>5. Target[JobOf[task[v]]] # Target[JobOf[task[w]]] /\ Target[JobOf[task[v]]] \in Indexes
    BY <2>2, <2>3, <2>4, BusyHasJob, ActivationAssumption
  <2> QED BY <1>5, <2>2, <2>5, SwitchActivates DEF Served
<1>6. ASSUME NEW w \in Workers,
             LeaveUnclaimed(w) \/ LoseWorker(w) \/ FinalizeNothing(w) \/ FinalizeConflict(w)
      PROVE  TargetsAreUnserved'
  <2>1. DropCache(w) /\ Release(w) /\ indexStatus' = indexStatus
    BY <1>6 DEF LeaveUnclaimed, SkipClaim, RaiseBeforeClaim, LoseWorker, Crash,
                FinalizeNothing, FinalizeConflict, Reached, Finalize, dataVars
  <2> QED BY <1>3, <2>1
<1>7. ASSUME NEW w \in Workers, NEW r \in Rows, LoadAndReceive(w, r)
      PROVE  TargetsAreUnserved'
  BY <1>7 DEF LoadAndReceive, Receive, dataVars
<1>8. ASSUME NEW w \in Workers, ClaimRow(w)
      PROVE  TargetsAreUnserved'
  BY <1>8 DEF ClaimRow, Claim, dataVars
<1>9. ASSUME NEW w \in Workers, ReportProgress(w) \/ EngineDone(w) \/ Summarise(w)
      PROVE  TargetsAreUnserved'
  BY <1>1, <1>9 DEF ReportProgress, EngineDone, Summarise, Heartbeat, PassCheck,
                    RefreshSummary, Advance, cacheVars, dataVars
<1>10. ASSUME UNCHANGED <<execVars, sawRow, indexStatus>>
       PROVE  TargetsAreUnserved'
  BY <1>1, <1>10
<1>11. CASE Background
  BY <1>10, <1>11 DEF Background, dataVars, cacheVars, ApiPublish, ApiPublishFails,
      DropMessage, LeaseExpires, OwnerStalls, Expire, BecomesDue, Dispatch,
      DispatchCrash, Recover, DeleteDocument
<1>12. ASSUME NEW j \in Jobs, CancelJob(j) \/ Retry(j)
       PROVE  TargetsAreUnserved'
  BY <1>10, <1>12 DEF CancelJob, Retry, RequestCancel, RetryJob, dataVars, cacheVars
<1>13. ASSUME NEW d \in Docs, CleanupDocument(d)
       PROVE  TargetsAreUnserved'
  BY <1>10, <1>13 DEF CleanupDocument, leaseVars, cacheVars
<1>14. CASE UNCHANGED vars
  BY <1>10, <1>14 DEF vars, leaseVars, dataVars, cacheVars
<1> QED
  BY <1>2, <1>4, <1>5, <1>6, <1>7, <1>8, <1>9, <1>11, <1>12, <1>13, <1>14 DEF Next

\* What any step does to the segments.
LEMMA SegmentCases ==
    ASSUME FenceInv, WholeInv, [Next]_vars
    PROVE  \/ \E w \in Workers : FinalizeSwitch(w)
           \/ \A r \in Rows : seg'[r] = "completed" => seg[r] = "completed"
<1> USE DEF WholeInv, ActivationTypeOK, SegStates
<1>1. ASSUME NEW w \in Workers, ReportProgress(w)
      PROVE  \A r \in Rows : seg'[r] = "completed" => seg[r] = "completed"
  <2>1. \A t \in SegStates : "completed" \notin SegProgress(t)
    BY DEF SegProgress
  <2>2. task[w] \in Rows
    BY <1>1, BusyHasJob DEF ReportProgress, Heartbeat, Working, FenceInv
  <2>3. \/ seg' = seg
        \/ \E t \in SegProgress(seg[task[w]]) : seg' = [seg EXCEPT ![task[w]] = t]
    BY <1>1 DEF ReportProgress
  <2> QED BY <2>1, <2>2, <2>3
<1>2. ASSUME NEW d \in Docs, CleanupDocument(d)
      PROVE  \A r \in Rows : seg'[r] = "completed" => seg[r] = "completed"
  BY <1>2 DEF CleanupDocument
<1> QED
  BY <1>1, <1>2
  DEF Next, vars, dataVars, LoadAndReceive, ClaimRow, LeaveUnclaimed, EngineDone,
      SettleRow, Summarise, FinalizeNothing, FinalizeFailed, FinalizeInvalid,
      FinalizeConflict, LoseWorker, Background, CancelJob, Retry

LEMMA OnlyServedStep ==
    ASSUME FenceInv, WholeInv, SessionInv, FinalInv, [Next]_vars
    PROVE  OnlyServedSegmentsAreCompleted'
<1> SUFFICES ASSUME NEW r \in Rows, seg'[r] = "completed"
             PROVE  indexStatus'[Target[JobOf[r]]] = "active"
  BY DEF OnlyServedSegmentsAreCompleted
<1>0. JobOf[r] \in Jobs /\ Target[JobOf[r]] \in Indexes
  BY LeaseAssumption, ActivationAssumption
<1>1. ASSUME NEW w \in Workers, FinalizeSwitch(w)
      PROVE  indexStatus'[Target[JobOf[r]]] = "active"
  <2> DEFINE j == JobOf[task[w]]
  <2>1. /\ j \in Jobs
        /\ indexStatus'[Target[j]] = "active"
    BY <1>1, SwitchActivates, BusyHasJob DEF FinalInv, FenceInv, Finalizing
  <2>2. seg' = [q \in Rows |->
                  IF JobOf[q] = j THEN "completed"
                  ELSE IF Target[JobOf[q]] \in Active \ {Target[j]} /\ seg[q] # "none"
                       THEN "deleted"
                  ELSE seg[q]]
    BY <1>1 DEF FinalizeSwitch
  <2>3. CASE JobOf[r] = j
    BY <2>1, <2>3
  <2>4. CASE JobOf[r] # j
    <3>1. Target[JobOf[r]] # Target[j]
      BY <1>0, <2>1, <2>4, ActivationAssumption
    <3>2. seg[r] = "completed" /\ Target[JobOf[r]] \notin Active
      BY <2>2, <2>4, <3>1
    <3> QED BY <1>0, <3>2 DEF FinalInv, OnlyServedSegmentsAreCompleted, Active
  <2> QED BY <2>3, <2>4
<1>2. CASE /\ \A q \in Rows : seg'[q] = "completed" => seg[q] = "completed"
           /\ \A w \in Workers : ~FinalizeSwitch(w)
  <2>1. indexStatus[Target[JobOf[r]]] = "active"
    BY <1>2 DEF FinalInv, OnlyServedSegmentsAreCompleted
  <2>2. ASSUME NEW w \in Workers, FinalizeFailed(w) \/ FinalizeInvalid(w)
        PROVE  indexStatus'[Target[JobOf[r]]] = "active"
    BY <1>0, <2>1, <2>2, FailureSparesServed DEF FinalInv, Served
  <2> QED BY <1>2, <2>1, <2>2, IndexCases
<1> QED BY <1>1, <1>2, SegmentCases

LEMMA FinalStep ==
    ASSUME FenceInv, WholeInv, SessionInv, OneFinalizer, FinalInv, [Next]_vars
    PROVE  FinalInv'
  BY TargetsStep, OnlyServedStep DEF FinalInv

LEMMA ActiveStep ==
    ASSUME FenceInv, WholeInv, SessionInv, TargetsAreUnserved, [Next]_vars, Active # {}
    PROVE  Active' # {}
<1>1. ASSUME NEW w \in Workers, FinalizeSwitch(w)
      PROVE  Active' # {}
  BY <1>1, SwitchActivates DEF Active
<1>2. ASSUME NEW w \in Workers, FinalizeFailed(w) \/ FinalizeInvalid(w)
      PROVE  Active' # {}
  <2>1. \A i \in Active : indexStatus'[i] = indexStatus[i]
    BY <1>2, FailureSparesServed DEF Active, Served
  <2> QED BY <2>1 DEF Active
<1>3. CASE UNCHANGED indexStatus
  BY <1>3 DEF Active
<1> QED BY <1>1, <1>2, <1>3, IndexCases

LEMMA FinalInvariant == Spec /\ []OneFinalizer => []FinalInv
<1>1. Init => FinalInv
  BY InitFinal
<1>2. FenceInv /\ WholeInv /\ SessionInv /\ OneFinalizer /\ FinalInv /\ [Next]_vars
        => FinalInv'
  BY FinalStep
<1> QED BY <1>1, <1>2, SessionInvariant, PTL DEF Spec

\* With one finalizer per job, segments retrieval could return belong to the
\* version that is served.
THEOREM ServedSegmentsUnderOneFinalizer ==
    Spec /\ []OneFinalizer => []OnlyServedSegmentsAreCompleted
<1>1. FinalInv => OnlyServedSegmentsAreCompleted
  BY DEF FinalInv
<1> QED BY <1>1, FinalInvariant, PTL

\* With one finalizer per job, a knowledge base never loses the version it serves.
THEOREM ServesUnderOneFinalizer == Spec /\ []OneFinalizer => NeverUnserved
<1>1. FenceInv /\ WholeInv /\ SessionInv /\ FinalInv /\ [Next]_vars
        => [Active # {} => Active' # {}]_vars
  BY ActiveStep DEF FinalInv
<1> QED BY <1>1, SessionInvariant, FinalInvariant, PTL DEF Spec, NeverUnserved

----------------------------------------------------------------------------
(* Refinement of ServedVersion, with one finalizer.                        *)

AllDone(j) == \A r \in RowsOf(j) : status[r] = "completed"

\* The refinement mapping of Readers.
servedBar == IF Active = {} THEN NoIndex ELSE CHOOSE i \in Active : TRUE
builtBar  == {Target[j] : j \in {k \in Jobs : \A r \in RowsOf(k) : status[r] = "completed"}}
pastBar   == {i \in Indexes : indexStatus[i] = "retired"}

LEMMA InitReaders == Init => Readers!ServedInit
<1> SUFFICES ASSUME Init PROVE Readers!ServedInit
  OBVIOUS
<1>1. servedBar \in Indexes \cup {NoIndex}
  BY DEF servedBar, Active
\* Every job still has a row to index.
<1>2. builtBar = {}
  BY ActivationAssumption DEF Init, LeaseInit, builtBar, RowsOf
<1>3. pastBar = {}
  BY DEF Init, pastBar
<1> QED BY <1>1, <1>2, <1>3 DEF Readers!ServedInit, servedBar, builtBar, pastBar

\* Only the settlement of a row completes it.
LEMMA CompletionCases ==
    ASSUME FenceInv, [Next]_vars
    PROVE  \/ \E w \in Workers : SettleRow(w)
           \/ \A r \in Rows : status'[r] = "completed" <=> status[r] = "completed"
<1> USE DEF FenceInv, TypeInv, LeaseTypeOK, BusyHasRow, rowVars
<1>1. ASSUME NEW w \in Workers, ClaimRow(w)
      PROVE  \A r \in Rows : status'[r] = "completed" => status[r] = "completed"
  BY <1>1 DEF ClaimRow, Claim
<1>2. ASSUME Background
      PROVE  \A r \in Rows : status'[r] = "completed" => status[r] = "completed"
  <2>1. CASE Dispatch \/ Recover
    BY <2>1 DEF Dispatch, Recover
  <2> QED
    BY <1>2, <2>1 DEF Background, ApiPublish, ApiPublishFails, DropMessage,
        LeaseExpires, OwnerStalls, Expire, BecomesDue, DispatchCrash, DeleteDocument
<1>3. ASSUME NEW j \in Jobs, CancelJob(j) \/ Retry(j)
      PROVE  \A r \in Rows : status'[r] = "completed" => status[r] = "completed"
  BY <1>3 DEF CancelJob, Retry, RequestCancel, RetryJob
<1>4. ASSUME UNCHANGED status
      PROVE  \A r \in Rows : status'[r] = "completed" => status[r] = "completed"
  BY <1>4
<1>5. \/ \E w \in Workers : SettleRow(w)
      \/ \A r \in Rows : status'[r] = "completed" => status[r] = "completed"
  BY <1>1, <1>2, <1>3, <1>4
  DEF Next, vars, leaseVars, LoadAndReceive, Receive, LeaveUnclaimed, SkipClaim,
      RaiseBeforeClaim, ReportProgress, Heartbeat, EngineDone, PassCheck, Summarise,
      RefreshSummary, FinalizeNothing, FinalizeFailed, FinalizeInvalid, FinalizeSwitch,
      FinalizeConflict, Reached, Finalize, LoseWorker, Crash, CleanupDocument
<1> QED BY <1>5, CompletedStep

\* Completing the last row of a job is the Build of its version.
LEMMA SettleBuilds ==
    ASSUME FenceInv, NEW w \in Workers, SettleRow(w)
    PROVE  \/ builtBar' = builtBar
           \/ \E i \in Indexes : builtBar' = builtBar \cup {i}
<1>1. SettleStep(w) /\ TypeInv
  BY SettleCases DEF SettleRow, FenceInv
<1>2. PICK q \in Rows, j \in Jobs : q = task[w] /\ j = JobOf[q]
  BY <1>1, BusyHasJob DEF SettleStep, Live, Working
<1>3. \A r \in Rows : r # q => status'[r] = status[r]
  BY <1>1, <1>2 DEF SettleStep, Settle, TypeInv, LeaseTypeOK
<1>4. \A k \in Jobs : k # j => (AllDone(k)' <=> AllDone(k))
  BY <1>2, <1>3 DEF AllDone, RowsOf
<1>5. AllDone(j) => AllDone(j)'
  <2>1. status[q] = "completed" => status'[q] = "completed"
    BY <1>1, <1>2 DEF SettleStep, Settle, OwnsRow
  <2> QED BY <1>3, <2>1 DEF AllDone, RowsOf
<1>6. /\ builtBar = {Target[k] : k \in {l \in Jobs : AllDone(l)}}
      /\ builtBar' = {Target[k] : k \in {l \in Jobs : AllDone(l)'}}
  BY DEF builtBar, AllDone
<1>7. CASE AllDone(j)' <=> AllDone(j)
  <2>1. {l \in Jobs : AllDone(l)'} = {l \in Jobs : AllDone(l)}
    BY <1>4, <1>7
  <2> QED BY <1>6, <2>1
<1>8. CASE AllDone(j)' /\ ~AllDone(j)
  <2>1. {l \in Jobs : AllDone(l)'} = {l \in Jobs : AllDone(l)} \cup {j}
    BY <1>4, <1>8
  <2>2. builtBar' = builtBar \cup {Target[j]}
    BY <1>6, <2>1
  <2> QED BY <2>2, ActivationAssumption
<1> QED BY <1>5, <1>7, <1>8

LEMMA ReadersStep ==
    ASSUME FenceInv, WholeInv, SessionInv, FinalInv, OneActive, OneActive', [Next]_vars
    PROVE  [Readers!ServedNext]_(Readers!servedVars)
<1> DEFINE Stutter == UNCHANGED <<servedBar, builtBar, pastBar>>
           BuildStep(i) == builtBar' = builtBar \cup {i} /\ UNCHANGED <<servedBar, pastBar>>
           SwitchStep(i) == /\ i \in builtBar
                            /\ i \notin pastBar \cup {servedBar}
                            /\ servedBar' = i
                            /\ pastBar' = pastBar \cup ({servedBar} \ {NoIndex})
                            /\ UNCHANGED builtBar
<1>1. SUFFICES Stutter \/ \E i \in Indexes : BuildStep(i) \/ SwitchStep(i)
  BY DEF Readers!ServedNext, Readers!servedVars, Readers!Build, Readers!Switch,
         servedBar, builtBar, pastBar
<1>2. ASSUME NEW w \in Workers, FinalizeSwitch(w)
      PROVE  \E i \in Indexes : SwitchStep(i)
  <2> DEFINE i == Target[JobOf[task[w]]]
  <2>1. /\ i \in Indexes
        /\ indexStatus[i] \notin Served
        /\ indexStatus'[i] = "active"
        /\ \A k \in Indexes : k # i =>
              indexStatus'[k] = IF indexStatus[k] = "active" THEN "retired"
                                ELSE indexStatus[k]
    BY <1>2, SwitchActivates DEF FinalInv
  <2>2. i \in builtBar
    <3>1. Reached(w)
      BY <1>2 DEF FinalizeSwitch
    <3> QED BY <3>1, SwitchIsDone DEF builtBar, FenceInv, WholeInv
  <2>3. builtBar' = builtBar
    BY <1>2 DEF builtBar, FinalizeSwitch, Reached, Finalize, rowVars
  <2> HIDE DEF i
  <2>4. Active' = {i}
    BY <2>1 DEF Active
  <2>5. servedBar' = i
    BY <2>4 DEF servedBar
  <2>6. i # servedBar
    <3>1. i \notin Active /\ i # NoIndex
      BY <2>1, ActivationAssumption DEF Active, Served
    <3> QED BY <3>1 DEF servedBar
  <2>7. i \notin pastBar
    BY <2>1 DEF pastBar, Served
  <2>8. Active = {servedBar} \ {NoIndex}
    BY ActivationAssumption DEF servedBar, OneActive, Active
  <2>9. pastBar' = pastBar \cup Active
    BY <2>1 DEF pastBar, Active, Served
  <2> QED BY <2>1, <2>2, <2>3, <2>5, <2>6, <2>7, <2>8, <2>9
<1>3. ASSUME NEW w \in Workers, FinalizeFailed(w) \/ FinalizeInvalid(w)
      PROVE  Stutter
  <2>1. \A k \in Indexes : /\ indexStatus'[k] = "active" <=> indexStatus[k] = "active"
                           /\ indexStatus'[k] = "retired" <=> indexStatus[k] = "retired"
    BY <1>3, FailureSparesServed DEF FinalInv, Served
  <2>2. Active' = Active /\ pastBar' = pastBar
    BY <2>1 DEF Active, pastBar
  <2>3. builtBar' = builtBar
    BY <1>3 DEF builtBar, FinalizeFailed, FinalizeInvalid, Reached, Finalize, rowVars
  <2> QED BY <2>2, <2>3 DEF servedBar
<1>4. ASSUME UNCHANGED indexStatus
      PROVE  UNCHANGED <<servedBar, pastBar>>
  BY <1>4 DEF servedBar, pastBar, Active
<1>5. ASSUME NEW w \in Workers, SettleRow(w)
      PROVE  Stutter \/ \E i \in Indexes : BuildStep(i)
  <2>1. UNCHANGED indexStatus
    BY <1>5 DEF SettleRow, dataVars
  <2> QED BY <1>4, <1>5, <2>1, SettleBuilds
<1>6. CASE /\ \A r \in Rows : status'[r] = "completed" <=> status[r] = "completed"
           /\ UNCHANGED indexStatus
  <2>1. builtBar' = builtBar
    BY <1>6 DEF builtBar, RowsOf
  <2> QED BY <1>4, <1>6, <2>1
<1> QED BY <1>2, <1>3, <1>5, <1>6, IndexCases, CompletionCases

\* With one finalizer per job, all of this machinery looks to the readers of a
\* knowledge base like ServedVersion: completely built versions, switched to in
\* one step, none served twice.
THEOREM ReadersSeeServedVersions == Spec /\ []OneFinalizer => ReadersSpec
<1>1. Init => Readers!ServedInit
  BY InitReaders
<1>2. /\ FenceInv /\ WholeInv /\ SessionInv /\ FinalInv
      /\ OneActive /\ OneActive' /\ [Next]_vars
      => [Readers!ServedNext]_(Readers!servedVars)
  BY ReadersStep
<1> QED
  BY <1>1, <1>2, SessionInvariant, FinalInvariant, AtMostOneActive, PTL
  DEF Spec, ReadersSpec, Readers!ServedSpec

----------------------------------------------------------------------------
(* Two deployments in which a job has one finalizer.                       *)

\* One worker process: the deployment that docker-compose.yml describes, a single
\* Celery worker with --concurrency=1, and the instance the run ActivationServed
\* checks.
COROLLARY OneWorkerServesWhole ==
    ASSUME \A v, w \in Workers : v = w
    PROVE  Spec => []OnlyServedSegmentsAreCompleted /\ NeverUnserved /\ ReadersSpec
<1>1. OneFinalizer
  BY DEF OneFinalizer
<1> QED
  BY <1>1, ServedSegmentsUnderOneFinalizer, ServesUnderOneFinalizer,
     ReadersSeeServedVersions, PTL

OneRowPerJob == \A q, r \in Rows : JobOf[q] = JobOf[r] => q = r

\* Whoever finalizes still owns the row it settled.
FinalizersOwnTheirRows ==
    \A w \in Workers :
        Finalizing(w) => status[task[w]] = sawRow[w] /\ owner[task[w]] = w

\* Without retry requests, a terminal row is not touched again.
LEMMA TerminalStep ==
    ASSUME "retry" \notin Faults, FenceInv, [LeaseNext]_leaseVars
    PROVE  \A r \in Rows : status[r] \in Terminal =>
              status'[r] = status[r] /\ owner'[r] = owner[r]
<1> SUFFICES ASSUME NEW q \in Rows, status[q] \in Terminal
             PROVE  status'[q] = status[q] /\ owner'[q] = owner[q]
  OBVIOUS
<1> USE DEF FenceInv, TypeInv, LeaseTypeOK, BusyHasRow, Terminal, rowVars
<1>1. CASE Dispatch \/ Recover
  BY <1>1 DEF Dispatch, Dispatchable, Recover, Recoverable
<1>2. ASSUME NEW w \in Workers, Claim(w)
      PROVE  status'[q] = status[q] /\ owner'[q] = owner[q]
  BY <1>2 DEF Claim, Claimable, Waiting
<1>3. ASSUME NEW w \in Workers, SettleStep(w)
      PROVE  status'[q] = status[q] /\ owner'[q] = owner[q]
  BY <1>3 DEF SettleStep, Settle, OwnsRow, Live, Working
<1>4. \A j \in Jobs : ~RetryJob(j)
  BY DEF RetryJob, Spend
<1>5. ASSUME UNCHANGED <<status, owner>>
      PROVE  status'[q] = status[q] /\ owner'[q] = owner[q]
  BY <1>5
<1>6. \/ Dispatch \/ Recover
      \/ \E w \in Workers : Claim(w) \/ SettleStep(w)
      \/ UNCHANGED <<status, owner>>
  BY <1>4, SettleCases
  DEF LeaseNext, WorkerStep, leaseVars, ApiPublish, ApiPublishFails, DropMessage,
      LeaseExpires, OwnerStalls, Expire, BecomesDue, DispatchCrash, Receive,
      SkipClaim, PassCheck, RefreshSummary, Finalize, Heartbeat, RaiseBeforeClaim,
      Crash, RequestCancel, DeleteDocument
<1> QED BY <1>1, <1>2, <1>3, <1>5, <1>6

LEMMA InitFinalizersOwn == Init => FinalizersOwnTheirRows
  BY DEF Init, LeaseInit, FinalizersOwnTheirRows, Finalizing

LEMMA FinalizersOwnStep ==
    ASSUME "retry" \notin Faults, FenceInv, ActivationTypeOK, SessionInv,
           FinalizersOwnTheirRows, [Next]_vars
    PROVE  FinalizersOwnTheirRows'
<1>0. \A r \in Rows : status[r] \in Terminal =>
         status'[r] = status[r] /\ owner'[r] = owner[r]
  BY LeaseStep, TerminalStep
<1> USE <1>0 DEF FinalizersOwnTheirRows, Finalizing, FenceInv, TypeInv, LeaseTypeOK,
            BusyHasRow, ActivationTypeOK, execVars
\* Executions that go on finalizing keep their row and what they saw of it.
<1>1. ASSUME NEW w \in Workers,
             Finalizing(w)' => Finalizing(w) /\ task'[w] = task[w] /\ sawRow'[w] = sawRow[w]
      PROVE  Finalizing(w)' => status'[task'[w]] = sawRow'[w] /\ owner'[task'[w]] = w
  BY <1>1
<1>2. ASSUME UNCHANGED <<task, sawRow>>,
             \A v \in Workers : phase'[v] \in {"settled", "refreshed"} =>
                phase[v] \in {"settled", "refreshed"}
      PROVE  FinalizersOwnTheirRows'
  BY <1>1, <1>2
<1>3. ASSUME NEW w \in Workers, DropCache(w), Release(w)
      PROVE  FinalizersOwnTheirRows'
  BY <1>1, <1>3 DEF DropCache, Release
<1>4. ASSUME NEW w \in Workers, NEW r \in Rows, LoadAndReceive(w, r)
      PROVE  FinalizersOwnTheirRows'
  BY <1>1, <1>4 DEF LoadAndReceive, Receive
<1>5. ASSUME NEW w \in Workers, ClaimRow(w)
      PROVE  FinalizersOwnTheirRows'
  BY <1>1, <1>5 DEF ClaimRow, Claim
<1>6. ASSUME NEW w \in Workers, SettleRow(w)
      PROVE  FinalizersOwnTheirRows'
  <2>1. SettleStep(w)
    BY <1>6, SettleCases DEF SettleRow
  <2>2. /\ UNCHANGED <<task, owner>>
        /\ phase' = [phase EXCEPT ![w] = "settled"]
        /\ phase[w] \in Working
    BY <2>1 DEF SettleStep, Settle, Live
  <2>3. sawRow' = IF OwnsRow(w) THEN [sawRow EXCEPT ![w] = status'[task[w]]] ELSE sawRow
    BY <1>6 DEF SettleRow
  <2>4. \A v \in Workers : v # w =>
            (Finalizing(v)' => status'[task'[v]] = sawRow'[v] /\ owner'[task'[v]] = v)
    BY <1>1, <2>2, <2>3
  <2>5. CASE OwnsRow(w)
    BY <2>2, <2>3, <2>4, <2>5 DEF OwnsRow
  <2>6. CASE ~OwnsRow(w)
    <3>1. sawRow'[w] = "running"
      BY <2>2, <2>3, <2>6 DEF SessionInv, CachedRowIsRunning
    <3> QED BY <2>4, <3>1 DEF Terminal
  <2> QED BY <2>5, <2>6
<1>7. ASSUME NEW w \in Workers, ReportProgress(w) \/ EngineDone(w) \/ Summarise(w)
      PROVE  FinalizersOwnTheirRows'
  BY <1>2, <1>7 DEF ReportProgress, EngineDone, Summarise, Heartbeat, PassCheck,
                    RefreshSummary, Advance, cacheVars
<1>8. ASSUME NEW w \in Workers,
             \/ LeaveUnclaimed(w) \/ LoseWorker(w) \/ FinalizeNothing(w)
             \/ FinalizeFailed(w) \/ FinalizeInvalid(w) \/ FinalizeSwitch(w)
             \/ FinalizeConflict(w)
      PROVE  FinalizersOwnTheirRows'
  <2>1. DropCache(w) /\ Release(w)
    BY <1>8 DEF LeaveUnclaimed, SkipClaim, RaiseBeforeClaim, LoseWorker, Crash,
                FinalizeNothing, FinalizeFailed, FinalizeInvalid, FinalizeSwitch,
                FinalizeConflict, Reached, Finalize
  <2> QED BY <1>3, <2>1
<1>9. ASSUME UNCHANGED <<execVars, sawRow>>
      PROVE  FinalizersOwnTheirRows'
  BY <1>2, <1>9
<1>10. CASE Background
  BY <1>9, <1>10 DEF Background, cacheVars, ApiPublish, ApiPublishFails, DropMessage,
      LeaseExpires, OwnerStalls, Expire, BecomesDue, Dispatch, DispatchCrash, Recover,
      DeleteDocument
<1>11. ASSUME NEW j \in Jobs, CancelJob(j) \/ Retry(j)
       PROVE  FinalizersOwnTheirRows'
  BY <1>9, <1>11 DEF CancelJob, Retry, RequestCancel, RetryJob, cacheVars
<1>12. ASSUME NEW d \in Docs, CleanupDocument(d)
       PROVE  FinalizersOwnTheirRows'
  BY <1>9, <1>12 DEF CleanupDocument, leaseVars, cacheVars
<1>13. CASE UNCHANGED vars
  BY <1>9, <1>13 DEF vars, leaseVars, cacheVars
<1> QED
  BY <1>4, <1>5, <1>6, <1>7, <1>8, <1>10, <1>11, <1>12, <1>13 DEF Next

\* Jobs of one document each: only the execution that wrote the outcome of the
\* row finalizes, whatever crashes, stalls, duplicates and cancellations do.  A
\* retry request breaks it: the execution that failed the row may still be
\* finalizing.
THEOREM OneRowOneFinalizer ==
    ASSUME OneRowPerJob, "retry" \notin Faults
    PROVE  Spec => []OneFinalizer
<1>1. Init => FinalizersOwnTheirRows
  BY InitFinalizersOwn
<1>2. FenceInv /\ WholeInv /\ SessionInv /\ FinalizersOwnTheirRows /\ [Next]_vars
        => FinalizersOwnTheirRows'
  BY FinalizersOwnStep DEF WholeInv
<1>3. FenceInv /\ FinalizersOwnTheirRows => OneFinalizer
  <2> SUFFICES ASSUME FenceInv, FinalizersOwnTheirRows,
                      NEW v \in Workers, NEW w \in Workers, Finalizing(v), Finalizing(w),
                      JobOf[task[v]] = JobOf[task[w]]
               PROVE  v = w
    BY DEF OneFinalizer
  <2>1. task[v] = task[w]
    BY BusyHasJob DEF OneRowPerJob, FenceInv, Finalizing
  <2> QED BY <2>1 DEF FinalizersOwnTheirRows
<1> QED BY <1>1, <1>2, <1>3, SessionInvariant, PTL DEF Spec

\* So jobs of one document each serve whole versions only, with any number of
\* workers.
COROLLARY OneRowJobsServeWhole ==
    ASSUME OneRowPerJob, "retry" \notin Faults
    PROVE  Spec => []OnlyServedSegmentsAreCompleted /\ NeverUnserved /\ ReadersSpec
  BY OneRowOneFinalizer, ServedSegmentsUnderOneFinalizer, ServesUnderOneFinalizer,
     ReadersSeeServedVersions, PTL
===============================================================================
