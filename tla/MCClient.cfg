SPECIFICATION Spec
CONSTANTS
    MaxPackets = 2
    MaxLines = 1
    Capacity = 2
    TimeoutAge = 0
    Repertoire <- Replied
    MaxRepeats = 0
INVARIANTS TypeOK ChatsInOrder RepliesInOrder
PROPERTIES ReplyLag
CHECK_DEADLOCK FALSE
