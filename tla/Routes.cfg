\* One slot and two requests, on any two routes: a holder and a waiter, so the
\* grant, the queue timeout and both disconnects race.
SPECIFICATION Spec
CONSTANTS
    Requests = {r1, r2}
    MaxConcurrency = 1
INVARIANTS
    TypeOK
    SlotsFollowWork
    ClosesOnce
    AccountsAgree
    ToolsAgree
PROPERTIES
    AbortFreesSlot
CHECK_DEADLOCK FALSE
