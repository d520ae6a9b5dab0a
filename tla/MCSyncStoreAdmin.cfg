SPECIFICATION Spec
CONSTANTS
    Components = {"a", "b"}
    Paths <- TwoPaths
    Contents <- OneContent
    n1 = n1  n2 = n2  u1 = u1  u2 = u2
    t1 = t1  t2 = t2  c1 = c1  c2 = c2
    Names <- TwoNames
    Temps <- OneTemp
    Tasks <- OneTask
    Admin = Admin  Server = Server  Free = Free
    Absent = Absent  Torn = Torn  Null = Null
    RetentionSeconds = 1
    FileLimit = 2
    MaxRevision = 2
    MaxTime = 1
    MaxCrashes = 1
SYMMETRY Symmetry
INVARIANT SweepExcludesAdmin
