\* Two concurrent requests on one tunnel, in either mode, with one failure or crash.
CONSTANTS
    Ids = {i1}
    Cfgs = {a, b}
    Blank = Blank
    Modes = {"local", "reverse"}
    NoTunnel = NoTunnel
    Reqs = {r1, r2}
    MaySwitch = FALSE
    MaxFaults = 1
SPECIFICATION PanelSpec
SYMMETRY Symmetry
INVARIANTS
    PanelTypeOK
    DeletedStaysDeleted
    RunsStoredSettings
    

    
