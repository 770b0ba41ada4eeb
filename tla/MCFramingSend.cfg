SPECIFICATION Spec
CONSTANTS
    Radix = 4
    ReadsChat <- SomeChat
    Ns = {5, 18}
    States = {"Play"}
    Thresholds <- PlainOrCompressed
    First = {"KeepAliveCB"}
    Later = {"KeepAliveCB"}
    Sendable <- PlaySendable
    Contents = {"whole"}
    Packings = {"plain"}
    Scraps = {}
    MaxFrames = 2
    CutWithin = 3
    BreakAfter <- Never
    MaxSends = 2
INVARIANTS SentIsFramed IdsEchoed
CHECK_DEADLOCK FALSE
