SPECIFICATION Spec
CONSTANTS
    f1 = f1  f2 = f2  s1 = s1  d1 = d1  d2 = d2
    FileTabs = {f1, f2}
    StatusTabs = {s1}
    Windows <- MCWindows
    Devices = {d1, d2}
    Null = Null
    FilesLife = 1
    SessionLife = 1
    PresenceLife = 1
    ChallengeLife = 1
    MaxTime = 1
    MaxSessions = 3
    MaxChallenges = 2
SYMMETRY Symmetry
INVARIANTS
    HiddenAfterLogout
    GrantsOfOneDevice
PROPERTIES
    RefreshKeepsDevice
