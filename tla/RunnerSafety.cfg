\* Safety of one tunnel process: two workers, two forwards, every interleaving.
CONSTANTS
    N = 2
    Conns = {c1, c2, c3}
    NoConn = NoConn
    Listeners = 2
    Handlers = {h1}
    MaxMiss = 2
    BackoffCap = 3
    MaxFaults = 3
SPECIFICATION Spec
SYMMETRY Symmetry
INVARIANTS
    TypeOK
    PublishedClientIsHeld
    NoLeakedConnection
    RefusedOnlyIfNoneStable
    BackoffBounded
PROPERTIES
    LiveConnectionsAreKept
    
