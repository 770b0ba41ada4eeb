SPECIFICATION FairSpec
CONSTANTS
    Thresholds <- OffOrOn
    Capacity = 3
INVARIANTS TypeOK ReadAsWritten ServerUnderstands AcceptedBeforePlay PingSpoilsConnect ThreadInside
PROPERTIES DestructionEnds LoginEnds
CHECK_DEADLOCK FALSE
