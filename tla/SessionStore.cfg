\* One agent asks on the chat surface and is answered with a tool call, the
\* result comes back on the messages surface; or they are two agents. The
\* budget leaves no room for the whole session, and with a summary in it not
\* even for the result.
SPECIFICATION Spec
CONSTANTS
    Requests = {r1, r2}
    Agents = {a1, a2}
    Maintainers = {a1}
    ToolCallers = {r1}
    ToolResults = {r2}
    OnMessages = {r2}
    Budget = 3
    Truncate = FALSE
    TurnCap = 3
INVARIANTS
    TypeOK
    Ordered
    Prompted
PROPERTIES
    ImplementsSessionLog
    AppendsEnd
CHECK_DEADLOCK FALSE
