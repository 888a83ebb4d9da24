SPECIFICATION Spec
CONSTANTS
    FirmwareErrors = {"ACCESS_DENIED"}
    EventLimit = 2
    MaxEvents = 4
    MaxLeases = 3
INVARIANTS PublishedIsCallable LogIsBounded
PROPERTIES ForeignSurvives KeepsLease
