SPECIFICATION FairSpec
CONSTANTS
    Flag = {select, insert, drop}
    ALL = ALL
    Nil = Nil
    Proc = {p}
    MaxRetries = 1
    MaxDisturb = 1
    Pinned = {select}
    Pages = {{select}}
INVARIANTS
    TypeOK
    ConvergedOnSuccess
    KeptUnlessRegranted
PROPERTIES
    GrantsOnlyPlanned
    Reconciles
    Termination
CHECK_DEADLOCK FALSE
