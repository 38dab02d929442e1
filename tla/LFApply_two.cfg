SPECIFICATION Spec
CONSTANTS
    Flag = {select, drop}
    ALL = ALL
    Nil = Nil
    Proc = {p, q}
    MaxRetries = 1
    MaxDisturb = 0
    Pinned = {}
    Pages = {{select}, {drop}}
SYMMETRY Symmetry
INVARIANTS
    AgreeingCallersConverge
CHECK_DEADLOCK FALSE
