SPECIFICATION FairSpec
CONSTANTS
    Xids = {1, 2, 3}
    RetentionPeriod = 1
    MaxActiveTransactions = 1
    TrimLimit = 2
    Addrs = {a1}
    Tasks = {t1, t2}
    Cells = {c1, c2}
    None = None
    MaxTime = 4
    LastArrival = 2
INVARIANTS
    TypeOK
    SortedByXid
    NoConcurrentDuplicate
    LockedIsInProgress
    InProgressIsHeld
    ActiveCountExact
PROPERTY
    ImplementsFilter
    QuietClientIsForgotten
CHECK_DEADLOCK FALSE
