SPECIFICATION Spec
CONSTANTS
    Clients = {1, 2, 3, 4}
    Scenarios <- KnowledgeScenarios
    SourceItems <- Parsed
    MaxFaults = 3
    AllowedExtensions = {".txt", ".docx"}
    ContentTypes <- Types
    MaxSize = 10
    MaxEntries = 3
    MaxExpanded = 8
    MaxRatio = 2
CHECK_DEADLOCK FALSE
INVARIANTS KnowledgeBaseTypeOK SavedEditsKnowTheirContent SourcesMatchDocuments FailedIngestsUndoTheirOwn RevisionsTellTheOutcome AnswersShowOneVersion ShortAnswersAreComplete
