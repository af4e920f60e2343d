\* Two parallel tool calls next to the text, five chunks: a block can be opened,
\* overtaken by both other kinds and closed with fragments of each in between.
SPECIFICATION Spec
CONSTANTS
    Calls = {k1, k2}
    MaxChunks = 5
INVARIANTS
    TypeOK
    Faithful
PROPERTIES
    ImplementsContract
    EndsOnce
CHECK_DEADLOCK FALSE
