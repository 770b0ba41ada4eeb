SPECIFICATION Spec
CONSTANTS
    MaxBuffLen = 3
    MaxStream = 6
    SizeLimit = 8
    RecvResults <- EofOrError
    MaxWrites = 0
INVARIANTS ReadComplete
CHECK_DEADLOCK FALSE
