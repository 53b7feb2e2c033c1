\* Store.flush: two handlers, one lock, deaths and failed writes anywhere.
CONSTANTS
    Writers = {w1, w2}
    Inodes = {n1, n2, n3, n4}
    Nil = Nil
    Guarded = TRUE
    MaxVersion = 4
SPECIFICATION Spec
SYMMETRY Symmetry
INVARIANTS
    FileIsComplete
PROPERTIES
    AtomicReplace
