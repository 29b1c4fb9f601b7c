SPECIFICATION Spec
CONSTANTS
    MaxSegments = 12
    MaxBoundaryScan = 200
    MaxRows = 4
    MaxColumns = 3
    MaxRowCoordinate = 8
    XlsxMaxRow = 1048576
    XlsxMaxColumn = 16384
    MaxXmlNodes = 10
    MaxPhysicalCells = 9
    MaxMergedArea = 4
    MaxTotalMergedArea = 5
    MaxParserWarnings = 2
    Scenarios <- PreviewScenarios
    Volatile = {"d2"}
    MaxDocuments = 2
    MaxChunks = 4
    MaxWarnings = 3
    MaxFileSize = 8
CHECK_DEADLOCK FALSE
INVARIANTS PreviewTypeOK NoTextIsLost SourcesAreExact HeadingPathsEnclose DelimitersAreBest DelimitersAreKept ProjectionIsUpperBound RowsKeepTheirCells AcceptedWorkbookIsBounded AnswerAccountsForAll
