SPECIFICATION Spec
CONSTANTS
    t1 = t1  t2 = t2
    Empty = Empty  Null = Null  Deleted = Deleted
    Texts <- MCTexts
    Foreign <- MCForeign
    MaxForeign = 1
    MaxEdits = 1
    MaxGenerations = 3
    MaxJobs = 0
    MaxCalls = 0
INVARIANTS
    WarnsBeforeLoss
