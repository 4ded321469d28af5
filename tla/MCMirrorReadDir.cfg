SPECIFICATION FairSpec
CONSTANTS
    Tasks = {t1, t2}
    Dirs = {d1}
    None = None
    Rooms = {0, 1, 2}
    MaxCachedPerDir = 1
    RetentionPeriod = 1
    MaxListings = 2
    MaxEntries = 2
    MaxTime = 4
    LastArrival = 2
INVARIANTS
    TypeOK
    StreamOwnedOnce
    PageFollowsCookie
    PagesDisjoint
    CacheBounded
PROPERTY
    KeptForRetention
    AbandonedStreamIsClosed
