SPECIFICATION Spec
CONSTANTS
    d1 = d1  e1 = e1  e2 = e2  k1 = k1  k2 = k2  t1 = t1  t2 = t2
    n1 = n1  n2 = n2  n3 = n3  s1 = s1  s2 = s2  s3 = s3  r1 = r1  r2 = r2
    Devices = {d1}
    Enrollments = {e1, e2}
    Keys = {k1, k2}
    Tasks = {t1, t2}
    Null = Null
    InviteLife = 1
    VerifiedLife = 2
    MaxTime = 4
    Nonces = {n1, n2, n3}
    Tokens = {s1, s2, s3}
    Requests = {r1, r2}
    Free = Free
    Permits = 1
    SessionsKept = 2
    Past = 1
    Future = 1
    NonceLife = 4
    SessionLife = 2
    Skews = {1}
    MaxDelay = 1
CONSTRAINT Bounds
SYMMETRY Symmetry
INVARIANTS
    OneEnrollmentPerDevice
    ApprovedKeyProved
    OneKeyPerInvitation
    BoundStartHasChallenge
    TypeOK
    ServedOnce
    VoidNotServed
    SessionsLimited
