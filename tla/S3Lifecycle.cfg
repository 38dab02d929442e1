\* IntWidth, LongWidth, FloatWidth and ExactWidth are scaled from 32, 64, 24 and 53.
SPECIFICATION Spec
CONSTANTS
    Null = Null
    NoJSON = NoJSON
    IntWidth = 4
    LongWidth = 7
    FloatWidth = 4
    ExactWidth = 5
    MaxEdits = 2
    MaxWrites = 1
    Configs <- MCConfigs
    Additions <- MCAdditions
    Writes <- MCWrites
    CanWiden <- MCCanWiden
    PropOrder <- MCPropOrder
    Injected <- MCInjected
    EngineKeys <- MCEngineKeys
INVARIANTS
    TypeOK
    SuccessMeansStored
PROPERTIES
    SettledStaysSettled
    ImportConverges
    RefusalIsCurable
    HintIsValid
    RefusalHasReason
    FaithfulConfigApplies
CHECK_DEADLOCK FALSE
