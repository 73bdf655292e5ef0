SPECIFICATION Spec
CONSTANTS
    Null = null
    HighByte = 256
    Precision = 8
    LocalAddresses = {4}
    HTSAddress = 3
    ConsoleAddress = 5
    c1 = c1
    c2 = c2
    Connections = {c1, c2}
    Net <- ChangingNet
    Requests <- ReadRequests
    Blocks = {0, 1}
    MirrorMayFail = TRUE
    RelayMayFail = FALSE
    PortMayBeTaken = FALSE
    RepeatedUris = FALSE
    MaxCached = 2
SYMMETRY Symmetry
CONSTRAINT FewCached
INVARIANTS TypeOK PinnedAnswers CurrentAnswers WorkerSurvives
