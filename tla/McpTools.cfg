CONSTANTS
    Requests = {r1, r2}
    Callers = {r1}
    Tools = {t1, t2}
    OwnTools = {o1}
    LoopMax = 2
    MaxReloads = 1
    Transports = {1, 2, 3}
SPECIFICATION McpSpec
INVARIANTS
    McpTypeOK
    NoStrayConnection
    CallsAnswered
PROPERTIES
    LoopEnds
CHECK_DEADLOCK FALSE
