SPECIFICATION Spec
CONSTANTS
    Workers = {w1, w2}
    NoWorker = NoWorker
    Documents = {"d1", "d2"}
    Plans <- PipelinePlans
    Providers <- PipelineProviders
    BatchSize = 2
    KeywordLimit = 2
    MaxAttempts = 2
    MaxDeaths = 1
    MaxRetries = 1
    ModelBatch = 2
    MaxInput = 5
SYMMETRY WorkersAlike
CHECK_DEADLOCK FALSE
INVARIANTS PipelineTypeOK MarkedHaveTheirVectors UnmarkedVectorsAreCaused CompletedIsWhole RetryFindsItsSegments
PROPERTIES StoreSpec
