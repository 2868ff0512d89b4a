CONSTANTS
    Caller = {c1, c2}
    PartitionKey = {p1}
    Day <- OneDay
    HourText <- Texts
    NotANumber = {"xx:00"}
    TooShort = {"8"}
    HourOf <- HourNumbers
    Work = {w1}
    Request <- WriteRequests
    NoRequest = NoRequest
    ActionCap <- Capacity
    NoCaller = NoCaller
    NoCall = NoCall
    NoTask = NoTask
SPECIFICATION FairSpec
INVARIANTS TypeOK KeyMatchesTask AcksAddUp UpdateAccounted
PROPERTIES EveryRequestReplied
