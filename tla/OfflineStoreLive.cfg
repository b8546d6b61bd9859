\* Fair behaviours: two recipients behind one lock, one of them with a '/'.
SPECIFICATION FairSpec
CONSTANTS
    h1 = h1
    h2 = h2
    m1 = m1
    m2 = m2
    m3 = m3
    s1 = s1
    Recipients = {1, 2}
    Slashed = {2}
    MsgIds = {m1}
    Handlers = {h1, h2}
    Shards = {s1}
    ShardOf <- OneShard
    TTLs = {1}
    Size <- UnitSize
    FetchLimits = {2}
    MaxMessages = 0
    MaxBytes = 0
    AckDeleteBatch = 1
    GCBatchSize = 1
    MaxUint = 4
    MaxSeq = 2
    MaxTime = 1
    MaxFaults = 1
    NoMsg = NoMsg
    NoHolder = NoHolder
PROPERTIES
    EveryRequestEnds
    CollectedUnlessMalformed
CHECK_DEADLOCK FALSE
