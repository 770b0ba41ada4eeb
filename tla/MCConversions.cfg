SPECIFICATION Spec
CONSTANTS
    IntBits = 9
    GroupBits = 2
    MaxLength = 5
    BitsXZ = 4
    BitsY = 3
    Components <- Messages
    Levels = 6
INVARIANTS VarIntsRead VarIntsEchoed PositionsRead ChatsRead
CHECK_DEADLOCK FALSE
