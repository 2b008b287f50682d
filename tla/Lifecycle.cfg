SPECIFICATION LiveSpec
CONSTANTS
    Names = {a, b}
    UpstreamKeys = {k1, k2}
    NoKey = NoKey
    MaxInstances = 2
    MaxOps = 3
    Faults = {"calls", "lost", "cleanup", "crash"}
INVARIANTS NoStrayContainers SavedKeyIsUsed
PROPERTIES UpdateKeepsServing RoutesConverge
