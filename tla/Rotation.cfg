CONSTANTS
    NumInstances = 5
    SlotsOf <- FiveGateways
    NumPorts = 3
    NumNodes = 4
    Direct = direct
    OtherProxies = {other}
    FixedEgress <- FixedAddresses
    Egresses = {"e1", "e2", "e3"}
    Unknown = unknown
    Subscriptions <- FourNodes
    MaxAttempts = 2
    MaxEvents = 2
    MaxFaults = 1

SPECIFICATION LiveSpec
INVARIANTS ReconciledDistinct RotatedApart RecordsAreReal
PROPERTY EventuallySettled
CHECK_DEADLOCK TRUE
