SPECIFICATION Spec
CONSTANTS
    None = None
    NBuilds = 2
    MayAbort = TRUE
    GHA = {2}
    Backoff <- ShortBackoff
    MayFail = {2}
INVARIANTS
    FailingLast
PROPERTIES
    RecordsKept
    FailingRetried
