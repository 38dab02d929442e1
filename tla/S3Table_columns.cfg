SPECIFICATION Spec
CONSTANTS
    Configs <- MCConfigs
    CanBecome <- MCCanBecome
    Stranger <- MCStranger
    MaxRetries = 2
    MaxStale = 0
    MaxEdits = 1
    MaxDrift = 0
    MaxFaults = 0
PROPERTIES
    ColumnsCanBeAdded
CHECK_DEADLOCK FALSE
