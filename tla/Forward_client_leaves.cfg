SPECIFICATION HSpec
CONSTANTS
    r1 = r1  m1 = m1  none = none  e1 = e1
    NumSlots = 1
    DirectSlots = {}
    Models = {m1, none}
    NoModel = none
    Egresses = {e1}
    NoEgress = NoEgress
    CooldownBase = 1
    CooldownMax = 1
    MaxFails = 1
    MaxModelCooldowns = 1
    Requests = {r1}
    RequestModels = {m1}
    Kinds = {"stream"}
    MaxRetries = 1
    RetryAfters = {0}
    StreamFailureCooldown = 2
    Exit <- OneFixedExit
    AdminOps = {}
    MaxOps = 1
INVARIANT OnlyFaultsCool
