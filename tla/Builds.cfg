SPECIFICATION Spec
CONSTANTS
    debian = debian
    alpine = alpine
    NBuilds = 3
    Externals = {debian}
    Families <- OneBaseOnly
    Concurrency = 1
    MayFail = {debian, 2}
    Payload <- SamePayload
    Unsigned = "none"
    KeyPairs = {"k1", "k2"}
    Environments <- Signers
    MaxRuns = 2
INVARIANTS
    PrintedInOrder
    SkippedForAReason
    ParentsKnown
    FreshVerdict
    SignaturesStable
    NoStall
PROPERTY
    RunsEnd
