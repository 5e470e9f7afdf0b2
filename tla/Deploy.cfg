SPECIFICATION DrySpec
CONSTANTS
    None = None
    NoData = NoData
    NoRef = NoRef
    Refused = Refused
    EmptyData = "empty"
    Digests <- MCDigests
    Manifests <- MCManifests
    ChildrenOf <- MCChildrenOf
    Stream <- StreamBelow
    OutCap = 2
    NJobs <- MCNJobs
    Keys <- BelowKeys
    NoKey <- MCNoKey
    Target <- MCTarget
    Writers <- MCWriters
    Reads <- MCReads
    GoesFirst <- MCGoesFirst
    Goes <- MCGoes
    MayFail <- FailingJobs
INVARIANTS
    ChildrenFirst
    BelowFirst
    PushedAlone
    SerialChildrenPushed
    NoStall
    PrintedInOrder
PROPERTIES
    ImplementsOrder
    Terminates
