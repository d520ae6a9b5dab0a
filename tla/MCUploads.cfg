SPECIFICATION Spec
CONSTANTS
    i1 = i1  i2 = i2  t1 = t1  t2 = t2  d1 = d1  p1 = p1
    Ids <- TwoIds
    Devices <- OneDevice
    WebDevice = d1
    Paths <- OnePath
    Tasks <- TwoTasks
    Free = Free  Null = Null
    MaxSize = 2
    MaxSessions = 1
    MaxWebSessions = 1
    SessionAge = 0
    MaxRevision = 2
    MaxGrants = 1
    MaxLate = 1
    MaxCrashes = 1
CONSTRAINT Bounds
SYMMETRY Symmetry
INVARIANTS
    AcknowledgedDurable
    PublishedVerified
    ReservationHolds
    SessionsBounded
PROPERTIES
    SessionsKeepFiles
    ReplacesItsBase
