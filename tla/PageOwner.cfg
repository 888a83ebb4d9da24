SPECIFICATION OwnerSpec
CONSTANTS
    Limit = 16
    PageSize = 2
    MaxDescriptors = 3
    StepLimit = 3
    Ceiling = 12
    Types = {"loader", "conventional"}
    Maps <- MCMaps
    Ranges <- MCRanges
INVARIANTS
    WalkCannotOverflow
    AcceptedIsExact
    ExactIsAccepted
    WrittenIsOwned
    DoneMeansReturned
PROPERTIES
    KeepsLifetime
