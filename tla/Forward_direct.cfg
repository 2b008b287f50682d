SPECIFICATION Spec
CONSTANTS
    r1 = r1  m1 = m1  m2 = m2  none = none  e1 = e1  e2 = e2
    NumSlots = 1
    DirectSlots = {1}
    Models = {m1, m2, none}
    NoModel = none
    Egresses = {e1, e2}
    NoEgress = NoEgress
    CooldownBase = 1
    CooldownMax = 2
    MaxFails = 2
    MaxModelCooldowns = 2
    Requests = {r1}
    RequestModels = {m1, m2, none}
    Kinds = {"buffered", "models", "malformed"}
    MaxRetries = 1
    RetryAfters = {0, 3}
    StreamFailureCooldown = 2
    Exit <- OneMoving
    AdminOps = {"probe", "enable"}
    MaxOps = 2
INVARIANT DeliveryInv
PROPERTY CooldownsRemembered
