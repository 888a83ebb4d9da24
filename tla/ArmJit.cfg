SPECIFICATION Spec
CONSTANTS
    Releases <- MCReleases
    Builds <- MCBuilds
    MaxCalls = 3
    MaxModes = 1
INVARIANTS
    OneSelection
    RestoredBeforeFreed
    OutcomeIsEarned
    ReadbackSeesGuest
