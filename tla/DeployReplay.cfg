SPECIFICATION Spec
CONSTANTS
    None = None
    NoData = NoData
    NoRef = NoRef
    Refused = Refused
    Unread = Unread
    EmptyData = "empty"
    Digests <- MCDigests
    Manifests <- MCManifests
    ChildrenOf <- MCChildrenOf
    Repos <- MCRepos
    Tags <- MCTags
    RawInputs <- AllDocuments
INVARIANTS
    RoundTripOtherwise
    CopyByDigest
