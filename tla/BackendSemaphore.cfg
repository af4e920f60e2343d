\* Four requests, two slots: two holders and a queue of two, so promotion,
\* overtaking and giving up from the middle of the queue all happen.
SPECIFICATION Spec
CONSTANTS
    Requests = {r1, r2, r3, r4}
    MaxConcurrency = 2
INVARIANTS
    TypeOK
    SlotsAndWaiters
PROPERTIES
    ImplementsSlotService
    EveryWaitEnds
