\* Two pushes at a time, of anything an owner may send, in fair behaviours.
SPECIFICATION LiveSpec
CONSTANTS
    p1 = p1
    p2 = p2
    rd1 = rd1
    alice = alice
    bob = bob
    NoRow = NoRow
    NoHolder = NoHolder
    Peers = {alice, bob}
    Pushers = {p1, p2}
    Readers = {}
    Pushes <- AnyPushes
    PageLimit = 1
    MaxId = 2
    MaxSeq = 2
    MaxFaults = 0
INVARIANTS
    TypeOK
    MessagesIndexed
PROPERTIES
    VersionsNeverRegress
    PushIsAtomic
    EveryPushEnds
CHECK_DEADLOCK FALSE
