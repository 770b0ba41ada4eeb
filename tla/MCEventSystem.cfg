SPECIFICATION Spec
CONSTANTS
    main = main
    network = network
    input = input
    chat = chat
    packet = packet
    NoThread = NoThread
    NoKind = NoKind
    Thread <- MCThread
    Owner <- MCOwner
    Kind <- MCKind
    Handles <- MCHandles
    MaxPush = 3
INVARIANTS TypeOK NoWaitCycle NoDanglingListener NothingLost LockDiscipline
PROPERTIES InPushOrder ImplementsBus
CHECK_DEADLOCK FALSE
