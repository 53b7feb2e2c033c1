\* One panel, two requests at once, one command at a time; every order of stops, starts, failed
\* calls and kills.  What the operators avoid is needed: without any one of it a property fails.
CONSTANTS
    Paths = {p1, p2}
    NewPath = p1
    Mixed = Mixed
    Tokens = {t1, t2, t3, t4}
    NoToken = NoToken
    Users = {u1, u2}
    NoUser = NoUser
    Requests = {r1, r2}
    Commands = {c1}
    Avoided = {"requests", "commands", "stale"}
    MaxCalls = 3
    MaxFaults = 1
SPECIFICATION FairSpec
INVARIANTS
    SettingsTypeOK
    
    
    
    
PROPERTIES
    PanelComesUp
