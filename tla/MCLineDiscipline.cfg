SPECIFICATION Spec
CONSTANTS
    Word = {"a"}
    Punctuation = {}
    Blank = {}
    HistoryCapacity = 2
    Rows = 3
    Cols = 2
    Prompts = {2, 4}
    Newline = "nl"
    MaxBuffer = 2
    MaxEntered = 3
INVARIANTS
    CanonicalCursorAtEnd
    NothingLeftTyped
    StdinInOrder
    HistoryIsRecent
    LineOnScreen
PROPERTY
    DraftComesBack
