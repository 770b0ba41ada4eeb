SPECIFICATION Spec
CONSTANTS
    MaxPackets = 1
    MaxLines = 2
    Capacity = 1
    TimeoutAge = 0
    Repertoire <- PacketNames
    MaxRepeats = 0
INVARIANTS LinesInOrder EndUnheard
PROPERTIES LineLag
CHECK_DEADLOCK FALSE
