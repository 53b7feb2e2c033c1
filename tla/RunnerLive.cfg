\* Liveness of the pool and of shutdown: two workers, no handlers (they hold nothing up).
CONSTANTS
    N = 2
    Conns = {c1, c2}
    NoConn = NoConn
    Listeners = 1
    Handlers = {}
    MaxMiss = 2
    BackoffCap = 2
    MaxFaults = 3
SPECIFICATION FairSpec
PROPERTIES
    ShutdownCompletes
    PoolRecovers
