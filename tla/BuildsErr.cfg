SPECIFICATION Spec
CONSTANTS
    debian = debian
    alpine = alpine
    NBuilds = 2
    Externals = {debian, alpine}
    Families <- TwoBasesOnly
    Concurrency = 1
    MayFail = {debian, alpine}
    Payload <- NoPayload
    Unsigned = "none"
    KeyPairs = {"k1", "k2"}
    Environments <- NoSigners
    MaxRuns = 1
INVARIANT
    FailuresExplode
