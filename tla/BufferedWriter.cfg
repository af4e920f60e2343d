\* A buffer of three rows, INSERTs of two: overflow on push, overflow on the
\* return of a failed batch, and a buffer larger than one INSERT all happen.
SPECIFICATION Spec
CONSTANTS
    Capacity = 3
    MaxBatchRows = 2
    FlushAtRows = 3
    MaxRows = 6
INVARIANTS
    TypeOK
    FifoOrder
    RowsAccounted
PROPERTIES
    BufferEmpties
CHECK_DEADLOCK FALSE
