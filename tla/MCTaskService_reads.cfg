CONSTANTS
    Caller = {c1, c2}
    PartitionKey = {p1}
    Day <- TwoDays
    HourText <- Texts
    NotANumber = {"xx:00"}
    TooShort = {"8"}
    HourOf <- HourNumbers
    Work = {w1}
    Request <- ReadRequests
    NoRequest = NoRequest
    ActionCap <- Capacity
    NoCaller = NoCaller
    NoCall = NoCall
    NoTask = NoTask
SPECIFICATION Spec
INVARIANTS UntouchedTasksShown
CHECK_DEADLOCK FALSE
