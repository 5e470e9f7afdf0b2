SPECIFICATION MCSpec
CONSTANTS
    None = None
    Procs = {"p1", "p2"}
    Repos = {"a", "b"}
    Tags = {"t"}
    Digests = {"x", "y"}
    Large = {}
    Workloads <- TagsAndData
    MaxCalls = 2
    MayFail = TRUE
INVARIANTS
    NoDoubleLookup
    TagsCoherent
    HasIsTrue
    DropIsBrief
    WaitsAreShort
PROPERTIES
    DataKept
    CallsReturn
