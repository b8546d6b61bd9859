-------------------------------- MODULE MCNode --------------------------------
(* A small instance of Node for TLC. *)
EXTENDS Node, TLC

CONSTANTS h1, h2, alice, bob,
    bobx        \* a recipient id that is bob's, a slash and more

BobxInBob == {<<bobx, bob>>}

Symmetry == Permutations(Handlers)

\* A store request of alice to bob with a message of the largest size.
StoreRequest ==
    [remote |-> alice, frame |-> MaxMessageSize + RequestWrap, parses |-> TRUE, requestId |-> TRUE,
     method |-> "offline.store", valid |-> TRUE, who |-> alice, to |-> bob, signed |-> TRUE,
     id |-> 1, ttl |-> MaxTTL, size |-> MaxMessageSize, limit |-> 0]

FetchRequest ==
    [StoreRequest EXCEPT !.remote = bob, !.who = bob, !.method = "offline.fetch",
                         !.frame = SmallFrame, !.limit = FetchLimitMax]

AckRequest == [FetchRequest EXCEPT !.method = "offline.ack"]

\* Good requests, and at least one that fails at each check.
AllRequests ==
    {StoreRequest,
     [StoreRequest EXCEPT !.remote = bob, !.who = bob, !.to = bobx, !.id = 2, !.ttl = NoTTL],
     [StoreRequest EXCEPT !.remote = bob],
     [StoreRequest EXCEPT !.remote = bob, !.signed = FALSE],
     [StoreRequest EXCEPT !.size = @ + 1],
     [StoreRequest EXCEPT !.ttl = MaxTTL + 1],
     [StoreRequest EXCEPT !.ttl = 0],
     [StoreRequest EXCEPT !.frame = RPCRequest + 1],
     [StoreRequest EXCEPT !.frame = 0],
     [StoreRequest EXCEPT !.parses = FALSE],
     [StoreRequest EXCEPT !.requestId = FALSE],
     [StoreRequest EXCEPT !.method = "unknown"],
     FetchRequest,
     [FetchRequest EXCEPT !.remote = alice],
     [FetchRequest EXCEPT !.limit = @ + 1],
     AckRequest,
     [AckRequest EXCEPT !.signed = FALSE],
     [AckRequest EXCEPT !.remote = alice]}
===============================================================================
