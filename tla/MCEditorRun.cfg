SPECIFICATION FairSpec
CONSTANTS
    t1 = t1  t2 = t2
    Empty = Empty  Null = Null  Deleted = Deleted
    Texts <- MCTexts
    Foreign <- MCFiles
    MaxForeign = 1
    MaxEdits = 2
    MaxGenerations = 2
    MaxJobs = 1
    MaxCalls = 1
CONSTRAINT Three
INVARIANTS
    RunsSavedText
PROPERTIES
    OperationsEnd
    UnsavedSettles
