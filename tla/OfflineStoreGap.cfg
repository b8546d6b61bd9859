\* One handler is enough: a collected message leaves a gap in the numbers.
SPECIFICATION Spec
CONSTANTS
    h1 = h1
    h2 = h2
    m1 = m1
    m2 = m2
    m3 = m3
    s1 = s1
    Recipients = {1}
    Slashed = {}
    MsgIds = {m1, m2}
    Handlers = {h1}
    Shards = {s1}
    ShardOf <- OneShard
    TTLs = {1, 2}
    Size <- UnitSize
    FetchLimits = {1, 2}
    MaxMessages = 2
    MaxBytes = 0
    AckDeleteBatch = 1
    GCBatchSize = 1
    MaxUint = 5
    MaxSeq = 3
    MaxTime = 2
    MaxFaults = 0
    NoMsg = NoMsg
    NoHolder = NoHolder
PROPERTY
    AckableAfterFetch
CHECK_DEADLOCK FALSE
