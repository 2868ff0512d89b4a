CONSTANTS
    Role <- AnyRole
    Roles <- KnownRoles
    MaxMessages = 3
SPECIFICATION FairSpec
PROPERTIES LeavingEndsRequest
CHECK_DEADLOCK FALSE
