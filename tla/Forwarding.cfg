\* One handler, used for one connection after another: several bytes, several connections,
\* in every order of two copies, two peers and statLoop.
CONSTANTS
    Handlers = {h1}
    MaxWork = 4
SPECIFICATION FairSpec
INVARIANTS
    ForwardingTypeOK
    EndIsPassedOn
    
    CountersAreExact
PROPERTIES
    
    HandlersEnd
    StatCatchesUp
