SPECIFICATION Spec
CONSTANTS
    Char = {"a"}
    Blank = {}
    Alnum = {"a"}
    Name = {"f", "g"}
    Term <- NoTerms
    Files <- Shapes
    MaxSize = 2
    MaxCut = 0
    MaxSaves = 2
    ReadFaults = FALSE
    NoMark = NoMark
    NoTerm = NoTerm
    Absent = Absent
INVARIANT
    CleanIsSaved
PROPERTIES
    NoSilentLoss
    
CHECK_DEADLOCK FALSE
