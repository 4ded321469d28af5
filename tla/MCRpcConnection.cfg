SPECIFICATION FairSpec
CONSTANTS
    Bodies <- MCBodies
    MaxCalls = 2
    MaxConns = 2
    SocketRoom = 1
    PipeRoom = 1
    MaxActive = 1
    SignalRoom = 1
    None = None
INVARIANTS
    TypeOK
    AcceptedIsOwn
    AtMostOnce
    NoConfusionWithoutCancel
    BlockedOnlyByAbandoned
    NothingLostWhileOpen
PROPERTY
    EveryCallEnds
CHECK_DEADLOCK FALSE
