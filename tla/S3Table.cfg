SPECIFICATION FairSpec
CONSTANTS
    Configs <- MCConfigs
    CanBecome <- MCCanBecome
    Stranger <- MCStranger
    MaxRetries = 2
    MaxStale = 2
    MaxEdits = 1
    MaxDrift = 1
    MaxFaults = 1
INVARIANTS
    TypeOK
    SuccessIsReal
PROPERTIES
    DropsOnlyPlanned
    LandedIsRecognised
    KeepsPromise
    ProviderReturns
CHECK_DEADLOCK FALSE
