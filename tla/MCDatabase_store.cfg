CONSTANTS
    Caller = {c1, c2}
    PartitionKey = {p1}
    SortKey = {k1, k2}
    Task = {t1, t2}
    Op <- AllOps
    NoCaller = NoCaller
    NoCall = NoCall
    NoTask = NoTask
    ActionCap = 1
SPECIFICATION FairSpec
INVARIANTS TypeOK OneAnswerPerCall
PROPERTIES OnlyReadTaskWedges NeverOverwrites NothingAfterStop ImplementsStore EveryCallAnswered StopReturns ImplementsProgress
CHECK_DEADLOCK FALSE
