\* Fair behaviours with one handler, lost answers and a fault.
SPECIFICATION DeliverySpec
CONSTANTS
    h1 = h1
    h2 = h2
    m1 = m1
    m2 = m2
    s1 = s1
    Recipients = {1}
    Slashed = {}
    MsgIds = {m1, m2}
    Handlers = {h1}
    Shards = {s1}
    ShardOf <- OneShard
    TTLs = {1}
    Size <- UnitSize
    FetchLimits = {1, 2}
    MaxMessages = 2
    MaxBytes = 0
    AckDeleteBatch = 1
    GCBatchSize = 1
    MaxUint = 4
    MaxSeq = 2
    MaxTime = 1
    MaxFaults = 1
    NoMsg = NoMsg
    NoHolder = NoHolder
PROPERTIES
    EventuallyReceived
CHECK_DEADLOCK FALSE
