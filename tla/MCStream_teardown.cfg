CONSTANTS
    Role <- AnyRole
    Roles <- KnownRoles
    MaxMessages = 3
SPECIFICATION FairSpec
INVARIANTS TypeOK InOrderNoGaps NoOrphanSubscription OneCloser OnlyUnbegunLeak
PROPERTIES TornDown ErrorEndsRequest
CHECK_DEADLOCK FALSE
