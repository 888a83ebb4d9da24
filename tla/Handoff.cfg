SPECIFICATION Spec
CONSTANTS
    MaxChanges = 4
    MaxTries = 2
INVARIANTS
    NoFirmwareAfterExit
    EntersWithFinalMap
PROPERTIES
    HandsOverPages
