\* A client, retrying senders, two handlers, the collector and a fault.
SPECIFICATION DeliverySafe
CONSTANTS
    h1 = h1
    h2 = h2
    m1 = m1
    m2 = m2
    s1 = s1
    Recipients = {1}
    Slashed = {}
    MsgIds = {m1, m2}
    Handlers = {h1, h2}
    Shards = {s1}
    ShardOf <- OneShard
    TTLs = {1, 2}
    Size <- UnitSize
    FetchLimits = {1, 2}
    MaxMessages = 2
    MaxBytes = 0
    AckDeleteBatch = 1
    GCBatchSize = 1
    MaxUint = 5
    MaxSeq = 2
    MaxTime = 1
    MaxFaults = 1
    NoMsg = NoMsg
    NoHolder = NoHolder
SYMMETRY Symmetry
INVARIANTS
    AcceptedIsKept
    CursorMissesNothing
PROPERTIES
    NothingLost
CHECK_DEADLOCK FALSE
