SPECIFICATION Spec
CONSTANTS
    Tasks = {t1}
    Dirs = {d1}
    None = None
    Rooms = {1}
    MaxCachedPerDir = 2
    RetentionPeriod = 1
    MaxListings = 2
    MaxEntries = 3
    MaxTime = 1
    LastArrival = 2
INVARIANT
    LastCookieCanBeResumed
