SPECIFICATION FairSpec
CONSTANTS
    LetterKeys = {"a"}
    ShiftKeys = {"shift"}
    CapsKeys = {}
    Capacity = 1
    DeviceSlots = 2
    MaxEvents = 3
    None = None
CHECK_DEADLOCK FALSE
PROPERTIES
    KeysAreRead
    DeviceDrained
