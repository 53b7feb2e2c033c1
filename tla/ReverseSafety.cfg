\* Two tunnels, changed by two people who wait for each other's deletes; one fault.
CONSTANTS
    Ids = {i1, i2}
    Reqs = {r1, r2}
    Hosts = {h1}
    Users = {u1}
    Cfgs = {a}
    Keys = {k1, k2, k3}
    Nil = Nil
    BlankPasswords = TRUE
    Avoided = {"tunnel", "delete"}
    MaxFaults = 1
SPECIFICATION Spec
SYMMETRY Symmetry
INVARIANTS
    TypeOK
    AppliedIsComplete
    
