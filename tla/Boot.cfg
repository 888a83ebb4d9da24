SPECIFICATION FairSpec
CONSTANTS
    FirmwareErrors = {"ACCESS_DENIED", "SECURITY_VIOLATION"}
    MaxAttempts = 3
    Builds = {{}, {"console-control"}, {"apfs-jumpstart"}, {"console-control", "apfs-jumpstart"}}
    Menus <- MCMenus
    MaxConfigBytes = 2
    PickerLimit = 3
INVARIANTS DefaultNeverDangles RunningChildOwnsOptions NoGuardAcrossTransfer AttemptLeavesNothing MenuFromWholeFile
PROPERTIES KeepsContract UsesLease AlwaysAwaitsSomeone
