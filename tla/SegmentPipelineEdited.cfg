SPECIFICATION Spec
CONSTANTS
    Workers = {w1, w2}
    NoWorker = NoWorker
    Documents = {"d1", "d2"}
    Plans <- EditedPlans
    Providers <- PipelineProviders
    BatchSize = 2
    KeywordLimit = 2
    MaxAttempts = 2
    MaxDeaths = 1
    MaxRetries = 1
    ModelBatch = 2
    MaxInput = 5
SYMMETRY WorkersAlike
CHECK_DEADLOCK FALSE
INVARIANTS RetryFindsItsSegments
