SPECIFICATION ViewSpec
CONSTANTS
    Char = {"a", "W", "T"}
    Blank = {"T"}
    Alnum = {"a", "W"}
    Wide = {"W"}
    Zero = {}
    Control = {}
    Tab = "T"
    Space = "s"
    TabSize = 2
    Typed = {"a", "W", "T"}
    Opened <- Wides
    Rows = 4
    Cols = 5
    Radix = 3
    MaxSize = 4
    Gutter = TRUE
    NoColumn = NoColumn
INVARIANTS
    ScreenRight
    HighlightExact
    ThereAndBack
PROPERTY
    NoNeedlessScroll
CHECK_DEADLOCK FALSE
