SPECIFICATION Spec
CONSTANTS
    Configs <- MCShrinking
    CanBecome <- MCCanBecome
    Stranger <- MCStranger
    MaxRetries = 1
    MaxStale = 1
    MaxEdits = 2
    MaxDrift = 0
    MaxFaults = 1
PROPERTIES
    KeepsAColumn
CHECK_DEADLOCK FALSE
