------------------------------- MODULE Delivery -------------------------------
(***************************************************************************)
(* The offline store together with those it serves: senders that repeat a  *)
(* message until they are told that it is stored, and one client for each  *)
(* recipient that fetches, keeps what reaches it and acknowledges what it  *)
(* has.  The clients are not part of the repository; they do what its      *)
(* README and tests show and no more.                                      *)
(*                                                                         *)
(* Every request and every answer may be lost or late.  A late or repeated *)
(* request is one made from an earlier state of the client: a fetch from a *)
(* cursor it has passed, an ack of less than it has.  A client that has    *)
(* given up on a request ignores its answer, and the next one is served    *)
(* while the handler of the first is still running.                        *)
(***************************************************************************)
EXTENDS OfflineStore

VARIABLES
    inbox,          \* sequence numbers each client has received, for good
    told            \* what senders were told: the number and expiry of a message

clientVars == <<inbox, told>>
deliveryVars == <<vars, clientVars>>

-----------------------------------------------------------------------------
(* Senders.                                                                *)

\* The answer to a store request reaches the sender, or does not.
TellSender(r, s, e) ==
    \/ told' = told \cup {[r |-> r, s |-> s, exp |-> e]}
    \/ UNCHANGED told

\* A message is stored, or the quota refuses it.
SendNew(r, id, ttl) ==
    /\ StoreMessage(r, id, ttl)
    /\ IF lastSeq'[r] # lastSeq[r] THEN TellSender(r, lastSeq'[r], now + ttl) ELSE UNCHANGED told
    /\ UNCHANGED inbox

\* A message that is there is answered with its number and its expiry, which may
\* be over when the collector has not come by yet.
SendAgain(r, id) ==
    /\ Unlocked(r)
    /\ IsDuplicate(r, id)
    /\ TellSender(r, dup[r][id], msg[r][dup[r][id]].exp)
    /\ UNCHANGED <<vars, inbox>>

-----------------------------------------------------------------------------
(* Clients.                                                                *)

\* The newest message the client has, 0 for none: its next after_seq.
Cursor(r) == Max(inbox[r] \cup {0})

ClientFetch(h, r, after, limit) ==
    /\ after \in inbox[r] \cup {0}
    /\ FetchMessages(h, r, after, limit)
    /\ UNCHANGED clientVars

\* The handler has called MarkDelivered and writes the messages.
FetchAnswered(h) == MarkDelivered(h) \/ MarkDeliveredFails(h)

Arrives(h) ==
    /\ FetchAnswered(h)
    /\ inbox' = [inbox EXCEPT ![rcpt[h]] = @ \cup items[h]]
    /\ UNCHANGED told

GetsLost(h) ==
    /\ FetchAnswered(h)
    /\ UNCHANGED clientVars

\* The client acknowledges a message it has, and with it all older ones.
ClientAck(h, r, n) ==
    /\ n \in inbox[r]
    /\ AckAlreadyDone(h, r, n) \/ AckBegin(h, r, n)
    /\ UNCHANGED clientVars

-----------------------------------------------------------------------------

DeliveryInit ==
    /\ Init
    /\ inbox = [r \in Recipients |-> {}]
    /\ told = {}

\* The other steps of the node.
NodeStep ==
    /\ \/ \E h \in Handlers :
             MarkBegin(h) \/ AckDeleteSome(h) \/ AckDeleteNone(h) \/ AckAborts(h) \/ AckReply(h)
       \/ GCTick
       \/ GCScan
       \/ GCScanFails
       \/ \E k \in gcRefs : GCDelete(k)
       \/ GCFails
       \/ Tick
       \/ Crash
    /\ UNCHANGED clientVars

DeliveryNext ==
    \/ \E r \in Recipients, id \in MsgIds, ttl \in TTLs : SendNew(r, id, ttl)
    \/ \E r \in Recipients, id \in MsgIds : SendAgain(r, id)
    \/ \E h \in Handlers :
          \/ \E r \in Recipients \ Slashed, after \in Seqs \cup {0}, limit \in FetchLimits :
                ClientFetch(h, r, after, limit)
          \/ Arrives(h)
          \/ GetsLost(h)
          \/ \E r \in Recipients \ Slashed, n \in Seqs : ClientAck(h, r, n)
    \/ NodeStep

\* The node is scheduled as in OfflineStore.  Of the outside it is assumed that a
\* client with something to fetch goes on asking from its cursor, and that not
\* every answer is lost.
DeliveryFairness ==
    /\ Fairness
    /\ \A r \in Recipients \ Slashed :
          /\ SF_deliveryVars(\E h \in Handlers, limit \in FetchLimits :
                                ClientFetch(h, r, Cursor(r), limit))
          /\ SF_deliveryVars(\E h \in Handlers :
                                Arrives(h) /\ rcpt[h] = r /\ ~(items[h] \subseteq inbox[r]))

DeliverySafe == DeliveryInit /\ [][DeliveryNext]_deliveryVars

DeliverySpec == DeliverySafe /\ DeliveryFairness

-----------------------------------------------------------------------------
(* Properties, from one end to the other.                                  *)

\* A message leaves the node before it has expired only if the client really has
\* it: what was marked as delivered by an answer that got lost, and what a batch
\* of an interrupted ack left behind, is still there to be fetched again.
NothingLost ==
    [][\A r \in Recipients : \A s \in Live(r) :
          msg'[r][s] = NoMsg => s \in inbox[r] \/ msg[r][s].exp <= now]_deliveryVars

\* What a sender was told holds: the message with that number is stored, was
\* received, or has outlived the expiry the sender knows.  So a sender may stop
\* repeating a message once it has been told an expiry that lies ahead, also when
\* the answer was that of a duplicate.
AcceptedIsKept ==
    \A t \in told :
        \/ t.s \in Live(t.r) /\ msg[t.r][t.s].exp = t.exp
        \/ t.s \in inbox[t.r]
        \/ t.exp <= now

\* A client that always asks for what comes after its newest message misses none:
\* whatever is stored up to its cursor it has, or it has expired.
CursorMissesNothing ==
    \A r \in Recipients : \A s \in Live(r) :
        s <= Cursor(r) => s \in inbox[r] \/ msg[r][s].exp <= now

\* Every message the store took reaches the client or expires, over lost answers,
\* aborted acks, a crash, and whatever else goes on.
EventuallyReceived ==
    \A r \in Recipients \ Slashed, s \in Seqs :
        s \in Live(r) ~> s \in inbox[r] \/ s \notin Live(r) \/ msg[r][s].exp <= now

-----------------------------------------------------------------------------
(* The inductive invariant, beside IndInv of the store.                    *)

ClientTypeOK ==
    /\ inbox \in [Recipients -> SUBSET Seqs]
    /\ told \subseteq [r : Recipients, s : Seqs, exp : Nat]

\* A client has only what was fetched.
InboxWasHanded == \A r \in Recipients : inbox[r] \subseteq handed[r]

\* The set S holds every unexpired message of r up to each of its members.
Complete(r, S) ==
    \A n \in S, s \in Live(r) : s <= n => s \in S \/ msg[r][s].exp <= now

\* So does an inbox, below any of its members and not only below the newest, ...
InboxComplete == \A r \in Recipients : Complete(r, inbox[r])

\* ... and it still does when an answer on its way arrives, however late, ...
FlightsComplete ==
    \A h \in Handlers : Complete(rcpt[h], inbox[rcpt[h]] \cup items[h])

\* ... while an ack in progress covers a message its client has.
AcksAreOfInbox ==
    \A h \in Handlers : pc[h] = "acking" => ackSeq[h] \in inbox[rcpt[h]]

DeliveryInv ==
    /\ IndInv
    /\ ClientTypeOK
    /\ InboxWasHanded
    /\ InboxComplete
    /\ FlightsComplete
    /\ AcksAreOfInbox
    /\ AcceptedIsKept
===============================================================================
