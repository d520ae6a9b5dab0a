SPECIFICATION FairSpec
CONSTANTS
    Components = {"a"}
    Paths <- OnePath
    Contents <- OneContent
    n1 = n1  n2 = n2  u1 = u1  u2 = u2
    t1 = t1  t2 = t2  c1 = c1  c2 = c2
    Names <- TwoNames
    Temps <- TwoTemps
    Tasks <- TwoTasks
    Admin = Admin  Server = Server  Free = Free
    Absent = Absent  Torn = Torn  Null = Null
    RetentionSeconds = 1
    FileLimit = 2
    MaxRevision = 3
    MaxTime = 1
    MaxCrashes = 2
INVARIANTS
    ReferencedBlobsIntact
    CheckedStateCurrent
    RecoveryLeavesNoOrphans
PROPERTIES
    ImplementsVersionedFiles
    RecoveryCompletes
    DatabaseReleased
