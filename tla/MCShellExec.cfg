SPECIFICATION FairSpec
CONSTANTS
    Slot = {1, 2, 3}
    UserPath = {100}
    TakenTemp = {2, 3}
    MaxCounter = 5
    Attempts = 2
    MaxStages = 3
    MaxLines = 1
    MaxRedirs = 1
    MaxDepth = 1
    MountsTmp = TRUE
    Default = Default
    Closed = Closed
INVARIANTS
    TypeOK
    TempsUnique
    
    PromptClean
PROPERTIES
    
    LinesEnd
