SPECIFICATION Spec
CONSTANTS
    None = None
    NoData = NoData
    NoRef = NoRef
    Refused = Refused
    EmptyData = "empty"
    Digests <- MCDigests
    Manifests <- MCManifests
    ChildrenOf <- MCChildrenOf
    Stream <- StreamRetag
    NJobs <- MCNJobs
    Keys <- MCKeys
    NoKey <- MCNoKey
    Target <- MCTarget
    Writers <- MCWriters
    Reads <- MCReads
    MayFail = {}
PROPERTY
    Terminates
CHECK_DEADLOCK FALSE
