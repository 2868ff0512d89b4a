CONSTANTS
    Caller = {c1, c2}
    PartitionKey = {p1}
    SortKey = {k1}
    Task = {t1}
    NoCaller = NoCaller
    NoCall = NoCall
    NoTask = NoTask
    ActionCap <- Capacity
    MaxCalls <- OneCall
    Rounds <- OneRound
SPECIFICATION FairSpec
INVARIANTS TypeOK StoppedAfterUse NilMeansClean
PROPERTIES AcceptedIsAnswered SignalEndsProcess
CHECK_DEADLOCK FALSE
