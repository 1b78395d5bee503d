SPECIFICATION Spec
CONSTANTS
    Char = {"a", " "}
    Blank = {" "}
    Alnum = {"a"}
    Name = {"f"}
    Term <- Terms
    Files <- TwoLines
    MaxSize = 3
    MaxCut = 2
    MaxSaves = 0
    ReadFaults = FALSE
    NoMark = NoMark
    NoTerm = NoTerm
    Absent = Absent
INVARIANTS
    PositionsInText
    RegionInverse
    CutsRestored
    NotFoundOnlyAcross
CHECK_DEADLOCK FALSE
