SPECIFICATION Spec
CONSTANTS
    Radix = 4
    ReadsChat <- SomeChat
    Ns = {0, 2, 5, 18}
    States = {"Status", "Login", "Play"}
    Thresholds <- PlainOrCompressed
    First <- AllReceived
    Later = {"LoginSuccess", "SetSlot", "Pong"}
    Sendable = {"KeepAliveSB"}
    Contents = {"whole", "cut", "extra"}
    Packings = {"plain", "zlib", "damaged", "tooShort", "tooLong"}
    Scraps <- Rubbish
    MaxFrames = 2
    CutWithin = 3
    BreakAfter = 1
    MaxSends = 0
INVARIANTS TypeOK FrameAligned
PROPERTIES ImplementsChannel
CHECK_DEADLOCK FALSE
