SPECIFICATION FairSpec
CONSTANTS
    MaxPackets = 1
    MaxLines = 1
    Capacity = 2
    TimeoutAge = 0
    Repertoire <- Awaited
    MaxRepeats = 1
PROPERTIES LineEventuallySent TeleportEventuallyConfirmed KeepAliveAnswered
CHECK_DEADLOCK FALSE
