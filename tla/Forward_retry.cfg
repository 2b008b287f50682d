SPECIFICATION LiveSpec
CONSTANTS
    r1 = r1  m1 = m1  m2 = m2  none = none  e1 = e1  e2 = e2
    NumSlots = 3
    DirectSlots = {}
    Models = {m1, none}
    NoModel = none
    Egresses = {e1, e2}
    NoEgress = NoEgress
    CooldownBase = 1
    CooldownMax = 1
    MaxFails = 1
    MaxModelCooldowns = 1
    Requests = {r1}
    RequestModels = {m1}
    Kinds = {"buffered", "stream", "malformed"}
    MaxRetries = 1
    RetryAfters = {0}
    StreamFailureCooldown = 2
    Exit <- SharedExit
    AdminOps = {"rotate"}
    MaxOps = 1
INVARIANT DistinctExits
PROPERTIES RequestReturns ServesRequests
