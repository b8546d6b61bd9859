\* A newer version of a message may carry a lower seq.
SPECIFICATION Spec
CONSTANTS
    p1 = p1
    p2 = p2
    rd1 = rd1
    alice = alice
    bob = bob
    NoRow = NoRow
    NoHolder = NoHolder
    Peers = {alice, bob}
    Pushers = {p1}
    Readers = {rd1}
    Pushes <- AnyPushes
    PageLimit = 1
    MaxId = 2
    MaxSeq = 2
    MaxFaults = 0
PROPERTY
    MessageSeqNeverRegresses
CHECK_DEADLOCK FALSE
