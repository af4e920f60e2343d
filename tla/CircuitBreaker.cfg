SPECIFICATION Spec
CONSTANTS
    Requests = {r1, r2, r3}
    Threshold = 2
    Window = 1
    Cooldown = 2
    AdapterTimeout = 4
    MaxCall = 4
    MaxCrashes = 1
INVARIANTS
    TypeOK
    ShieldsBackend
    ProbesAreACooldownApart
PROPERTIES
    RequestsGetThrough
