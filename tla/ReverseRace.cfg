\* A delete beside a request on another tunnel, and no fault.
CONSTANTS
    Ids = {i1, i2}
    Reqs = {r1, r2}
    Hosts = {h1}
    Users = {u1}
    Cfgs = {a}
    Keys = {k1, k2}
    Nil = Nil
    BlankPasswords = FALSE
    Avoided = {"tunnel"}
    MaxFaults = 0
SPECIFICATION Spec
SYMMETRY Symmetry
INVARIANTS
    AppliedKeyIsThere
