SPECIFICATION Spec
CONSTANTS
    None = None
    Goroutines = {1, 2}
    Hosts = {"hub", "local"}
    Limited = {"hub"}
    Workloads <- MCWorkloads
    Burst = 2
    PerTick = 1
    MaxRefused = 2
INVARIANTS
    OneClient
    WithinRate
    ResultsMeanIt
PROPERTIES
    DrainStarves
    CallsReturn
