SPECIFICATION Spec
CONSTANTS
    Word = {"a"}
    Punctuation = {}
    Blank = {}
    HistoryCapacity = 1
    Rows = 3
    Cols = 2
    Prompts = {1, 4}
    Newline = "nl"
    MaxBuffer = 2
    MaxEntered = 1
INVARIANT
    FirstRowInView
