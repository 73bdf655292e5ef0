SPECIFICATION Spec
CONSTANTS
    Null = null
    HighByte = 256
    Precision = 8
    LocalAddresses = {4}
    HTSAddress = 3
    ConsoleAddress = 5
    c1 = c1
    c2 = c2
    Connections = {c1, c2, c3}
    Net <- ChangingNet
    Requests <- FieldRequests
    Blocks = {0, 1}
    MirrorMayFail = FALSE
    RelayMayFail = FALSE
    PortMayBeTaken = FALSE
    RepeatedUris = TRUE
    MaxCached = 9
CONSTRAINT FewCached
SYMMETRY Symmetry
CHECK_DEADLOCK FALSE
PROPERTIES StorageAsDocumented
