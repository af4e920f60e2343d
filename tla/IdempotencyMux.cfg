SPECIFICATION Spec
CONSTANTS
    Requests = {r1, r2}
    Events = 3
    LockTTL = 2
    DataTTL = 1
    MaxWire = 3
    MaxFaults = 1
CHECK_DEADLOCK FALSE
INVARIANTS
    TypeOK
    ChunksExpire
    OneLeader
    FollowerConsistent
PROPERTIES
    FollowersEnd
