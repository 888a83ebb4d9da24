SPECIFICATION VolumesSpec
CONSTANTS
    FirmwareErrors = {"DEVICE_ERROR"}
    HandleCount = 3
    Paths = {p1, p2}
    OtherPath = OtherPath
    Names = {n1, n2}
    MaxVolumes = 2
    MaxRecord = 3
    MinRecord = 2
    MaxMetadata = 17
    MaxEntries = 3
    MaxTotal = 4
INVARIANTS
    ClosedExactlyOnce
    SelectedIsUnique
PROPERTY
    ScanReturns
