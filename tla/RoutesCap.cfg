\* One slot and two requests: the smallest backend that two chat streams can
\* share.
SPECIFICATION Spec
CONSTANTS
    Requests = {r1, r2}
    MaxConcurrency = 1
INVARIANTS
    ConcurrencyCapped
CHECK_DEADLOCK FALSE
