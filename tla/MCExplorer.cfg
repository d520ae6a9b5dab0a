SPECIFICATION Spec
CONSTANTS
    Home <- MCHome
    Folders = {1}
    Matches = {2, 3}
    PageSize = 1
    Null = Null
    MaxRevision = 4
    MaxFiles = 2
    MaxJobs = 1
    MaxClicks = 2
INVARIANTS
    HiddenWhenLocked
    DetailsMatchListing
    ReportsTrue
