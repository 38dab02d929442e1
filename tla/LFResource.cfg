SPECIFICATION Spec
CONSTANTS
    ALL = ALL
    Nil = Nil
    Absent = Absent
    select = select
    drop = drop
    Flag <- MCFlag
    Order <- MCOrder
    Parent <- MCParent
    Wildcards = {"wildcard"}
    Written <- MCWritten
    Holdings <- MCHoldings
    Pinned = {select}
    MaxEdits = 1
    MaxDrift = 1
    MaxFaults = 1
INVARIANTS
    TypeOK
    DeclaredIsHeld
    CreatedAsPlanned
    NoPerpetualDiff
PROPERTIES
    UnmanagedUntouched
    DeletedCompletely
CHECK_DEADLOCK FALSE
