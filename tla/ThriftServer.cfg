SPECIFICATION FairSpec
CONSTANTS
    Conns = {c1, c2}
    Stoppers = {s1}
    Nobody = Nobody
    Failed = Failed
INVARIANTS
    TypeOK
    StopMeansStopped
    AnsweredUnlessCut
PROPERTIES
    Drains
    StopReturns
    ServeReturns
    NobodyWaitsForAnother
CHECK_DEADLOCK FALSE
