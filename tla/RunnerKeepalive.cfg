\* One worker whose peer falls silent.
CONSTANTS
    N = 1
    Conns = {c1, c2}
    NoConn = NoConn
    Listeners = 1
    Handlers = {h1}
    MaxMiss = 2
    BackoffCap = 2
    MaxFaults = 1
SPECIFICATION FairSpec
PROPERTIES
    KeepaliveDetectsSilence
