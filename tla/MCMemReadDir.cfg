SPECIFICATION Spec
CONSTANTS
    Ids = {2, 3, 4}
    Mtimes = {0, 1}
    MaxRoom = 2
    MaxChanges = 3
    Capacity = 2
INVARIANTS TypeOK ListedOnce BadCookieOnlyIfStale
CHECK_DEADLOCK FALSE
