\* One recipient, two handlers, the collector, one fault and both quotas.
SPECIFICATION Spec
CONSTANTS
    h1 = h1
    h2 = h2
    m1 = m1
    m2 = m2
    m3 = m3
    s1 = s1
    Recipients = {1}
    Slashed = {}
    MsgIds = {m1, m2, m3}
    Handlers = {h1, h2}
    Shards = {s1}
    ShardOf <- OneShard
    TTLs = {1, 2}
    Size <- MixedSize
    FetchLimits = {1, 2}
    MaxMessages = 2
    MaxBytes = 2
    AckDeleteBatch = 1
    GCBatchSize = 1
    MaxUint = 5
    MaxSeq = 3
    MaxTime = 1
    MaxFaults = 1
    NoMsg = NoMsg
    NoHolder = NoHolder
SYMMETRY Symmetry
INVARIANTS
    TypeOK
    IndexesAgree
    FrontiersOrdered
    NothingSkipped
    CountQuotaHeld
    ByteQuotaHeld
    AckConfirmedGone
    GCPassComplete
PROPERTIES
    SeqsAreFresh
    NoPrematureRemoval
    ImplementsMailbox
CHECK_DEADLOCK FALSE
