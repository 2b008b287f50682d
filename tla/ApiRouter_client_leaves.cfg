SPECIFICATION Spec
CONSTANTS
    r1 = r1  r2 = r2  a = a  b = b  c = c  tokenrouter = tokenrouter  opencode = opencode
    Requests = {r1, r2}
    Instances = {a}
    Provider <- OneProvider
    Proxied = {a}
    DirectFallback = TRUE
    AnyProvider = AnyProvider
    Unparsable = {}
    CircuitBase = 2
    CircuitMax = 3
    MaxFailures = 2
    ReadyFor = 1
    UnreadyFor = 1
    Switchable = {}
    Faults = {"client"}
INVARIANT OutageIsReal
