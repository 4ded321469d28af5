SPECIFICATION Spec
CONSTANTS
    Tasks = {t1, t2}
    a = a
    b = b
    Names = {a, b}
    MaxLen = 2
    MaxCalls = 4
    Keep = Keep
    Huge = Huge
    None = None
    Hosts <- MCHosts
    Requests <- MCRequests
INVARIANTS TypeOK HandleIsPath GuardedSpares FailedChangesNothing
CHECK_DEADLOCK FALSE
