SPECIFICATION FairSpec
CONSTANTS
    Null = null
    HighByte = 256
    Precision = 8
    LocalAddresses = {4}
    HTSAddress = 3
    ConsoleAddress = 5
    c1 = c1
    c2 = c2
    Connections = {c1, c2}
    Net <- ChangingNet
    Requests <- MixedRequests
    Blocks = {1}
    MirrorMayFail = TRUE
    RelayMayFail = TRUE
    PortMayBeTaken = TRUE
    RepeatedUris = TRUE
    MaxCached = 9
CONSTRAINT FewCached
INVARIANTS CurrentAnswers UriInOnePiece
PROPERTIES EveryRequestAnswered
CHECK_DEADLOCK FALSE
