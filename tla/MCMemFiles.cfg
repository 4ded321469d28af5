SPECIFICATION Spec
CONSTANTS
    Tasks = {t1, t2}
    Files = {f1}
    Dirs = {d1}
    Byte = {1}
    MaxLen = 2
    Usize = 8
    Huge = Huge
    Keep = Keep
    Requests <- MCRequests
SYMMETRY Symmetry
INVARIANT
    TypeOK
PROPERTY
    ImplementsByteFile
CHECK_DEADLOCK FALSE
