SPECIFICATION Spec
CONSTANTS
    FirmwareErrors = {"FW_ERROR"}
    MaxEntries = 5
    MenuSizes <- MCMenuSizes
    Rows <- MCRows
    DefaultRows = 7
INVARIANTS
    KeyOnVisibleMenu
    BootsWhatWasShown
    ConsoleRestored
