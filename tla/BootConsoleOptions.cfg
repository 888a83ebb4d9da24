SPECIFICATION Spec
CONSTANTS
    FirmwareErrors = {"ACCESS_DENIED", "SECURITY_VIOLATION"}
    MaxAttempts = 1
    Builds = {{"console-control"}}
    Menus <- MCMenus
    MaxConfigBytes = 2
    PickerLimit = 3
INVARIANT LoadOptionsNeverDangle
