\* Two nodes registered or added, two requests at once, one node that fails, moves or changes
\* its token, a failed flush and a kill anywhere.  A second path gives answers of 404.  Deadlock
\* is off: the system stops when the bounds are reached and every request was answered.
CONSTANTS
    Hosts = {h1, h2}
    Paths = {p1, p2}
    Tokens = {t1, t2}
    Requests = {r1, r2}
    MaxCalls = 2
    MaxTurns = 1
    MaxFaults = 2
    MaxInitial = 2
SPECIFICATION FairSpec
INVARIANTS
    NodesTypeOK
    
    RegistryIsDurable
PROPERTIES
    RequestsAreAnswered
CHECK_DEADLOCK FALSE
