SPECIFICATION Spec
CONSTANTS
    File <- MCFile
    Ref <- MCRef
    Result <- MCResult
    MaxLength = 3
    MaxResults = 3
INVARIANT NothingLost
\* the scan is over after MaxResults results
CHECK_DEADLOCK FALSE
