\* Two chat completions of one agent: one is answered with a tool call, the
\* other attaches to the session afterwards.
SPECIFICATION Spec
CONSTANTS
    Requests = {r1, r2}
    Agents = {a1}
    Maintainers = {}
    ToolCallers = {r1}
    ToolResults = {}
    OnMessages = {}
    Budget = 5
    Truncate = FALSE
    TurnCap = 3
INVARIANTS
    AttachedIsAccepted
CHECK_DEADLOCK FALSE
