\* One push at a time: profile and head may name different owners.
SPECIFICATION Spec
CONSTANTS
    p1 = p1
    p2 = p2
    rd1 = rd1
    alice = alice
    bob = bob
    NoRow = NoRow
    NoHolder = NoHolder
    Peers = {alice, bob}
    Pushers = {p1}
    Readers = {rd1}
    Pushes <- AndOthers
    PageLimit = 1
    MaxId = 2
    MaxSeq = 5
    MaxFaults = 0
PROPERTY
    OwnerNeverChanges
CHECK_DEADLOCK FALSE
