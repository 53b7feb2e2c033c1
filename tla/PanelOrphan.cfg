\* A create or a start races a delete of the same tunnel.
CONSTANTS
    Ids = {i1}
    Cfgs = {a}
    Blank = Blank
    Modes = {"local"}
    NoTunnel = NoTunnel
    Reqs = {r1, r2}
    MaySwitch = FALSE
    MaxFaults = 0
SPECIFICATION PanelSpec
INVARIANTS
    DeletedHasNoUnit
