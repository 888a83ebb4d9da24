SPECIFICATION FairSpec
CONSTANTS
    FirmwareErrors = {"ACCESS_DENIED", "SECURITY_VIOLATION"}
    MaxAttempts = 1
    Builds = {{"apfs-jumpstart"}}
    Menus <- MCMenus
    MaxConfigBytes = 2
    PickerLimit = 3
PROPERTY FailureIsAcknowledged
