SPECIFICATION Spec
CONSTANTS
    ALL = ALL
    Nil = Nil
    Absent = Absent
    select = select
    drop = drop
    Flag <- MCFlag
    Order <- MCOrder
    Parent <- MCParent
    Wildcards = {"wildcard"}
    Written <- MCWritten
    Holdings <- MCHoldings
    Pinned = {}
    MaxEdits = 1
    MaxDrift = 0
    MaxFaults = 0
PROPERTIES
    OmittedGrantableUntouched
CHECK_DEADLOCK FALSE
