CONSTANTS
    Caller = {c1, c2}
    PartitionKey = {p1}
    SortKey = {k1}
    Task = {t1}
    NoCaller = NoCaller
    NoCall = NoCall
    NoTask = NoTask
    ActionCap <- Capacity
    MaxCalls <- OneCall
    Rounds <- OneRound
SPECIFICATION Spec
INVARIANTS DeadlineGiven
CHECK_DEADLOCK FALSE
