SPECIFICATION FairLeaseSpec
CONSTANTS
    j1 = j1
    r1 = r1
    r2 = r2
    w1 = w1
    w2 = w2
    Rows = {r1}
    Docs = {r1}
    Jobs = {j1}
    JobOf <- OneJob
    DocOf <- OwnDoc
    Workers = {w1, w2}
    Recovery = Recovery
    NoWorker = NoWorker
    NoRow = NoRow
    MaxAttempts = 2
    Faults = {"crash", "stall", "cancel", "retry"}
    MaxFaults = 2
INVARIANTS QueuedRowHasMessage
PROPERTIES EveryRowSettles
CHECK_DEADLOCK FALSE
