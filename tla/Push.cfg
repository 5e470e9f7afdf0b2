SPECIFICATION Spec
CONSTANTS
    None = None
    Repos = {"hub", "stage", "stage2"}
    Tags = {"x", "y"}
    Digests <- MCDigests
    Manifests <- MCManifests
    ChildList <- MCChildList
    Embedded = {"config"}
    Jobs = {1, 2, 3}
    Task <- MCTask
    MayFail = {2}
INVARIANTS
    Ensured
PROPERTIES
    FailsForAReason
    TagMovesLast
    JobsReturn
