SPECIFICATION Spec
CONSTANTS
    MaxBuffLen = 4
    MaxStream = 8
    SizeLimit = 8
    RecvResults <- EofOrError
    MaxWrites = 2
INVARIANTS ReadUnlessError StreamAligned CountBehindStream
CHECK_DEADLOCK FALSE
