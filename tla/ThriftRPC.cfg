SPECIFICATION Spec
CONSTANTS
    MaxMessage = 104857600
    MaxFrame = 16384000
    SkipDepth = 64
    Stacks <- MCStacks
    Clients <- MCClients
    Extra <- MCExtra
INVARIANTS
    TypeOK
    NeverWrongAnswer
    HandledAsSent
    CleanCallsSucceed
    NeverStuck
CHECK_DEADLOCK FALSE
