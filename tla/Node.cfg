\* Two streams at a time while the node is started, stopped and killed.
SPECIFICATION NodeSpec
CONSTANTS
    h1 = h1
    h2 = h2
    alice = alice
    bob = bob
    bobx = bobx
    Handlers = {h1, h2}
    Peers = {alice, bob}
    Recipients = {alice, bob, bobx}
    Inside <- BobxInBob
    Requests <- AllRequests
    Limit = 1
    DefaultTTL = 2
    MaxTTL = 2
    MaxMessageSize = 3
    FetchLimitMax = 2
    SmallFrame = 4
    MessageOverhead = 4
    RPCOverhead = 2
    Word = 64
    RequestWrap = 6
    ItemWrap = 2
    ReplyWrap = 2
    MaxMinute = 2
    NoTTL = NoTTL
    NoRequest = NoRequest
    MaxKeys = 2
    NoKey = NoKey
SYMMETRY Symmetry
INVARIANTS
    NodeTypeOK
    BudgetKept
    StoredIsVouchedFor
    PagesStayUnderRecipient
    FramesSuffice
    PeerIdStable
PROPERTIES
    RefusedOnlyWhenSpent
    SendersPayForTheirOwn
    OKMeansStored
CHECK_DEADLOCK FALSE
