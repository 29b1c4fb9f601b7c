SPECIFICATION Spec
CONSTANTS
    j1 = j1 j2 = j2
    r1 = r1 r2 = r2
    d1 = d1 d2 = d2
    i0 = i0 i1 = i1 i2 = i2
    w1 = w1 w2 = w2
    Rows = {r1, r2}
    Jobs = {j1}
    Docs = {d1, d2}
    JobOf <- OneJobOf
    DocOf <- OneDocOf
    Indexes = {i0, i1}
    Target <- OneTarget
    InitialActive = i0
    NoIndex = NoIndex
    Workers = {w1, w2}
    Recovery = Recovery
    NoWorker = NoWorker
    NoRow = NoRow
    MaxAttempts = 1
    Faults = {}
    MaxFaults = 0
SYMMETRY WorkerSymmetry
PROPERTIES NeverUnserved
CHECK_DEADLOCK FALSE
