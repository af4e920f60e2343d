\* Two parallel tool calls on the Responses surface.
SPECIFICATION Spec
CONSTANTS
    Calls = {k1, k2}
    MaxChunks = 5
INVARIANTS
    EveryItemCompleted
CHECK_DEADLOCK FALSE
