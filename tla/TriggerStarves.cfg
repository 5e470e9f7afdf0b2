SPECIFICATION Spec
CONSTANTS
    None = None
    NBuilds = 1
    MayAbort = FALSE
    GHA = {1}
    Backoff <- ShortBackoff
    MayFail = {1}
PROPERTY
    AllRetried
