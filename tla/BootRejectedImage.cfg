SPECIFICATION Spec
CONSTANTS
    FirmwareErrors = {"ACCESS_DENIED", "SECURITY_VIOLATION"}
    MaxAttempts = 1
    Builds = {{}}
    Menus <- MCMenus
    MaxConfigBytes = 2
    PickerLimit = 3
INVARIANT OnlyRefusedImagesSurvive
