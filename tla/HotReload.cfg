CONSTANTS
    Urls = {u1, u2}
    Postgres = pg
    Polling = FALSE
    MaxEdits = 3
SPECIFICATION Spec
INVARIANTS
    TypeOK
    ProbesFollowRegistry
    ServesTheFile
PROPERTIES
    EveryUrlIsProbed
