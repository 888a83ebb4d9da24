SPECIFICATION MCSpec
CONSTANTS
    Requests <- MCRequests
    Capacity = 3
    FirstEdges = 2
    LastEdges = 2
    FollowEdges = 2
    WatchFrom = 4
    WatchPc = 4
    Threshold = 8
    Alias = {4, 8}
    MaxRequests = 6
    Indices = {0, 1, 2, 3, 4, 5}
    Addresses <- MCAddresses
    Leaves <- MCLeaves
    Attributes = {"RO", "PXN", "UXN", "NOEL0"}
    Calls <- MCCalls
    Sizes = {5, 7, 8}
    Firmwares <- MCFirmwares
    NoMap = NoMap
    PageBytes = 128
    MaxTables = 2
    MaxTableBytes = 100
    MaxXsdtBytes = 64
    MaxConfig = 4
    LowMemory = 1024
    AddressEnd = 2048
    Devices = 3
    Functions = 2
INVARIANTS
    WindowsAreExact
    CorrectPasses
    PassRulesOut
    ReadIsAcpi
    DoneIsComplete
PROPERTIES
    TablesAreAMap
