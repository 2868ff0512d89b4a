CONSTANTS
    Call = {c1, c2, c3}
    Slot = {s1}
    Requests <- SomeRequests
    NoRequest = NoRequest
    NoResponse = NoResponse
    NoResult = NoResult
SPECIFICATION Spec
INVARIANTS TypeOK AnsweredInKind VerdictsTrue VerdictsAddUp
SYMMETRY Symmetry
CHECK_DEADLOCK FALSE
