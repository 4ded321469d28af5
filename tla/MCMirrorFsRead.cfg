SPECIFICATION Spec
CONSTANTS
    Tasks = {t1, t2}
    a = a
    b = b
    Names = {a, b}
    MaxLen = 2
    MaxCalls = 3
    Keep = Keep
    Huge = Huge
    None = None
    Hosts <- MCHosts
    Requests <- MCRequests
INVARIANT ReadFlagsEof
CHECK_DEADLOCK FALSE
