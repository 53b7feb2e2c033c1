\* Three requests, two of them at once, with passwords, keys or neither, on two hosts, of which
\* one or both fail or are installed again.  Deadlock is off: the system stops when the bounds
\* are reached and the process is connected or cannot be.  With MayMove = TRUE
\* StoredKeyOpensHost fails.
CONSTANTS
    Hosts = {h1, h2}
    Keys = {k1, k2, k3}
    NoKey = NoKey
    Tunings <- SentTunings
    Requests = {r1, r2}
    MayMove = FALSE
    MaxCalls = 3
    MaxTurns = 2
SPECIFICATION FairSpec
INVARIANTS
    CredentialsTypeOK
    
    ResendingChangesNothing
PROPERTIES
    TunnelComesUp
CHECK_DEADLOCK FALSE
