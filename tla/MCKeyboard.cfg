SPECIFICATION Spec
CONSTANTS
    LetterKeys = {"a"}
    ShiftKeys = {"shift"}
    CapsKeys = {"caps"}
    Capacity = 2
    DeviceSlots = 3
    MaxEvents = 5
    None = None
CHECK_DEADLOCK FALSE
INVARIANTS
    QueueConsistent
    ExclusiveAccess
    InOrder
    NoPressVanishes
    TruthfulTokens
    NoRepeatBacklog
    EntryAndExit
