SPECIFICATION LiveSpec
CONSTANTS
    network = network
    input = input
    marked = marked
    chat = chat
    other = other
    NoThread = NoThread
    NoKind = NoKind
    Thread <- MCThread
    Owner <- MCOwner
    Kind <- MCKind
    Handles <- MCHandles
    MaxPush = 4
PROPERTIES EventuallyHandled
CHECK_DEADLOCK FALSE
