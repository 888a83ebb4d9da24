SPECIFICATION Spec
CONSTANTS
    FirmwareErrors = {"SECURITY_VIOLATION"}
    Handles = {h1, h2, h3}
    NoHandle = NoHandle
    MaxHandles = 2
    DriverBlocks = 2
    MaxChanges = 2
    MaxRuns = 2
INVARIANTS
    NoTornDriver
    OnlyApfsPartition
    CleanDriver
