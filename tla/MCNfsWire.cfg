\* Every message of the protocols, and directories of up to four entries.
SPECIFICATION Spec
CONSTANTS
    ByteBase = 12
    Values <- MCSamples
    Requests <- MCRequests
    Entries <- MCEntries
    MaxEntries = 4
    Piece = 3
INVARIANTS
    RoundTrip
    PageFits
CHECK_DEADLOCK FALSE
