CONSTANTS
    Role <- AnyRole
    Roles <- KnownRoles
    MaxMessages = 3
SPECIFICATION Spec
INVARIANTS NeverSendsOnClosed
CHECK_DEADLOCK FALSE
