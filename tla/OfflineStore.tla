----------------------------- MODULE OfflineStore -----------------------------
(***************************************************************************)
(* The offline-message store of the node: internal/storage/pebble (the     *)
(* key-value layout and its five operations), internal/shard (the lock a   *)
(* recipient hashes to) and internal/gc (the worker that collects expired  *)
(* messages), driven by concurrent RPC handlers that have already passed   *)
(* validation and authorisation.                                           *)
(*                                                                         *)
(* Every batch is committed with pebble.Sync, so a committed batch is one  *)
(* atomic, durable step.  An operation is split exactly where another      *)
(* goroutine can observe or change the database in between:                *)
(*   - StoreMessage holds the shard lock and commits once: one step;       *)
(*   - FetchMessages reads a snapshot without the lock, MarkDelivered      *)
(*     samples the clock, then waits for the lock: three steps;            *)
(*   - AckMessages keeps the lock over a loop of batches: one step each;   *)
(*   - DeleteExpired scans without the lock and then takes the lock once   *)
(*     per key found.                                                      *)
(*                                                                         *)
(* ValidateStoreRequest accepts any non-empty recipient_id.  One with a    *)
(* '/' is no peer's id, so nobody fetches or acks its messages, and its    *)
(* exp/ keys cannot be parsed.  Left out is an id that is another one, a   *)
(* '/' and more: the key prefixes of the ids modelled here are disjoint.   *)
(*                                                                         *)
(* A definition named Bad... is the definition after it with a plausible   *)
(* slip; it is used only to check that a property notices that slip.       *)
(***************************************************************************)
EXTENDS Integers, FiniteSets, FiniteSetsExt

CONSTANTS
    Recipients,     \* recipient ids; naturals, ordered as their key strings are
    Slashed,        \* those that contain a '/'
    MsgIds,         \* values of msg_id
    Handlers,       \* goroutines serving RPC streams
    Shards,         \* locks of shard.Manager
    ShardOf,        \* indexOf: the shard of a recipient
    TTLs,           \* ttl_sec of the messages, after the service's checks
    Size,           \* bytes of the stored JSON of a message
    FetchLimits,    \* limits the fetch service lets through
    MaxMessages,    \* max_messages_per_recipient (0: no quota)
    MaxBytes,       \* max_bytes_per_recipient (0: no quota)
    AckDeleteBatch, \* Store.ackDeleteBatch
    GCBatchSize,    \* gc.batch_size
    MaxUint,        \* stands for 2^64 - 1
    MaxSeq,         \* bound: sequence numbers one recipient is given
    MaxTime,        \* bound: the clock, in seconds
    MaxFaults,      \* bound: crashes and failed collection passes
    NoMsg,          \* the value of an absent msg/ key
    NoHolder        \* a free lock

Seqs == 1..MaxSeq

\* A stored message: its msg_id and expire_at.
Entry == [id : MsgIds, exp : Nat \ {0}]

\* The recipient of a handler that serves none.
AnyRecipient == CHOOSE r \in Recipients : TRUE

ASSUME ConstantsOK ==
    /\ Recipients \subseteq Nat
    /\ Recipients # {}
    /\ Slashed \subseteq Recipients
    /\ ShardOf \in [Recipients -> Shards]
    /\ TTLs \subseteq Nat \ {0}
    /\ Size \in [MsgIds -> Nat]
    /\ FetchLimits \subseteq Nat \ {0}
    /\ MaxMessages \in Nat
    /\ MaxBytes \in Nat
    /\ AckDeleteBatch \in Nat \ {0}
    /\ GCBatchSize \in Nat \ {0}
    /\ MaxSeq \in Nat
    /\ MaxUint \in Nat
    /\ MaxSeq < MaxUint
    /\ MaxTime \in Nat
    /\ MaxFaults \in Nat
    /\ NoMsg \notin Entry
    /\ NoHolder \notin Handlers

VARIABLES
    \* The database: every value below survives a crash.
    msg,            \* msg/<recipient>/<seq>: the stored message, or NoMsg
    dup,            \* dup/<recipient>/<msg_id>: a sequence number, 0 if absent
    exp,            \* exp/<expire_at>/<recipient>/<seq>: the keys present
    lastSeq,        \* seq/<recipient>, 0 if absent
    delivered,      \* state/<recipient>/delivered, 0 if absent
    acked,          \* state/<recipient>/acked, 0 if absent
    \* The process: lost in a crash.
    lock,           \* the holder of each shard lock
    pc,             \* where each handler is
    rcpt,           \* the recipient it serves
    items,          \* sequence numbers FetchMessages returned to it
    at,             \* the clock MarkDelivered read before it took the lock
    ackSeq,         \* the ack_seq of its request
    deletedUntil,   \* the local of AckMessages, then deleted_until_seq
    gcpc,           \* where the collector is
    gcNow,          \* the clock of its current (or last) scan
    gcRefs,         \* expired keys found and not yet deleted
    gcFull,         \* whether that scan returned a full batch
    \* The environment.
    now,            \* wall clock, Unix seconds
    faults,         \* faults so far
    \* History, read by no action.
    handed          \* sequence numbers some FetchMessages returned

dbVars == <<msg, dup, exp, lastSeq, delivered, acked>>
handlerVars == <<pc, rcpt, items, at, ackSeq, deletedUntil>>
gcVars == <<gcpc, gcNow, gcRefs, gcFull>>
envVars == <<now, faults>>
vars == <<dbVars, lock, handlerVars, gcVars, envVars, handed>>

ExpKey == [exp : Nat, r : Recipients, s : Seqs]

TypeOK ==
    /\ msg \in [Recipients -> [Seqs -> Entry \cup {NoMsg}]]
    /\ dup \in [Recipients -> [MsgIds -> 0..MaxSeq]]
    /\ exp \subseteq ExpKey /\ IsFiniteSet(exp)
    /\ lastSeq \in [Recipients -> 0..MaxSeq]
    /\ delivered \in [Recipients -> 0..MaxSeq]
    /\ acked \in [Recipients -> 0..MaxSeq]
    /\ lock \in [Shards -> Handlers \cup {NoHolder}]
    /\ pc \in [Handlers -> {"idle", "fetched", "marking", "acking", "acked"}]
    /\ rcpt \in [Handlers -> Recipients]
    /\ items \in [Handlers -> SUBSET Seqs]
    /\ at \in [Handlers -> Nat]
    /\ ackSeq \in [Handlers -> 0..MaxSeq]
    /\ deletedUntil \in [Handlers -> 0..MaxSeq]
    /\ gcpc \in {"sleep", "scan", "delete", "failed"}
    /\ gcNow \in Nat
    /\ gcRefs \subseteq ExpKey
    /\ gcFull \in BOOLEAN
    /\ now \in Nat
    /\ faults \in Nat
    /\ handed \in [Recipients -> SUBSET Seqs]

-----------------------------------------------------------------------------
(* Reading the database.                                                   *)

\* The keys under msgPrefix(r), in the order of their sequence numbers.
Live(r) == {s \in Seqs : msg[r][s] # NoMsg}

\* recipientUsageLocked's totalBytes.
UsedBytes(r) == MapThenSumSet(LAMBDA s : Size[msg[r][s].id], Live(r))

\* What an iterator over the numbers in S yields before it is stopped at k.
FirstN(S, k) == {s \in S : Cardinality({x \in S : x < s}) < k}

\* The order of exp/ keys: all three parts are zero-padded or fixed strings.
KeyBefore(a, b) ==
    \/ a.exp < b.exp
    \/ a.exp = b.exp /\ a.r < b.r
    \/ a.exp = b.exp /\ a.r = b.r /\ a.s < b.s

ExpKeyOf(r, s) == [exp |-> msg[r][s].exp, r |-> r, s |-> s]

Unlocked(r) == lock[ShardOf[r]] = NoHolder

\* The msg/, dup/ and exp/ keys without those of the messages in gone.
WithoutMsgs(r, gone) ==
    [msg EXCEPT ![r] = [s \in Seqs |-> IF s \in gone THEN NoMsg ELSE msg[r][s]]]

BadWithoutDups(r, gone) == dup

WithoutDups(r, gone) ==
    [dup EXCEPT ![r] = [id \in MsgIds |->
        IF \E s \in gone : msg[r][s].id = id THEN 0 ELSE dup[r][id]]]

-----------------------------------------------------------------------------
(* storeMessageWithQuota.                                                  *)

\* The dup key names a message that can be loaded.
IsDuplicate(r, id) == dup[r][id] # 0 /\ msg[r][dup[r][id]] # NoMsg

\* Numbers restart after the newest message that is still there.
BadNextSeq(r) == IF Live(r) = {} THEN 1 ELSE Max(Live(r)) + 1

\* The number a message is given: seq/<recipient> outlives the messages.
NextSeq(r) == lastSeq[r] + 1

BadOverQuota(r, id) ==
    \/ MaxMessages > 0 /\ Cardinality(Live(r)) > MaxMessages
    \/ MaxBytes > 0 /\ UsedBytes(r) > MaxBytes

OverQuota(r, id) ==
    \/ MaxMessages > 0 /\ Cardinality(Live(r)) >= MaxMessages
    \/ MaxBytes > 0 /\ UsedBytes(r) + Size[id] > MaxBytes

\* A duplicate is answered from the existing message and changes nothing, so
\* only the other path is a step.  A stale dup key (its message is gone) is
\* deleted first, also when the quota then refuses the message.
StoreMessage(r, id, ttl) ==
    LET storeSeq == NextSeq(r)
        entry == [id |-> id, exp |-> now + ttl]
    IN /\ Unlocked(r)
       /\ ~IsDuplicate(r, id)
       /\ storeSeq <= MaxSeq
       /\ IF OverQuota(r, id)
          THEN /\ dup' = [dup EXCEPT ![r][id] = 0]
               /\ UNCHANGED <<msg, exp, lastSeq>>
          ELSE /\ msg' = [msg EXCEPT ![r][storeSeq] = entry]
               /\ dup' = [dup EXCEPT ![r][id] = storeSeq]
               /\ exp' = exp \cup {[exp |-> entry.exp, r |-> r, s |-> storeSeq]}
               /\ lastSeq' = [lastSeq EXCEPT ![r] = storeSeq]
       /\ UNCHANGED <<delivered, acked, lock, handlerVars, gcVars, envVars, handed>>

-----------------------------------------------------------------------------
(* FetchMessages, then MarkDelivered, as handleFetchRPC calls them.        *)

\* The message right behind after_seq is skipped.
BadVisible(r, after) ==
    {s \in Live(r) : s > (after + 1) % (MaxUint + 1) /\ msg[r][s].exp > now}

\* The lower bound of the iterator is after_seq + 1 in uint64 arithmetic.
Visible(r, after) ==
    {s \in Live(r) : s >= (after + 1) % (MaxUint + 1) /\ msg[r][s].exp > now}

\* FetchMessages takes no lock; MarkDelivered returns at once for no items.
FetchMessages(h, r, after, limit) ==
    LET found == FirstN(Visible(r, after), limit)
    IN /\ pc[h] = "idle"
       /\ found # {}
       /\ pc' = [pc EXCEPT ![h] = "fetched"]
       /\ rcpt' = [rcpt EXCEPT ![h] = r]
       /\ items' = [items EXCEPT ![h] = found]
       /\ handed' = [handed EXCEPT ![r] = @ \cup found]
       /\ UNCHANGED <<dbVars, lock, at, ackSeq, deletedUntil, gcVars, envVars>>

\* MarkDelivered reads the clock before it waits for the lock.
MarkBegin(h) ==
    /\ pc[h] = "fetched"
    /\ pc' = [pc EXCEPT ![h] = "marking"]
    /\ at' = [at EXCEPT ![h] = now]
    /\ UNCHANGED <<dbVars, lock, rcpt, items, ackSeq, deletedUntil, gcVars, envVars, handed>>

\* A handler that is done keeps none of its locals.
Forget(h) ==
    /\ pc' = [pc EXCEPT ![h] = "idle"]
    /\ rcpt' = [rcpt EXCEPT ![h] = AnyRecipient]
    /\ items' = [items EXCEPT ![h] = {}]
    /\ at' = [at EXCEPT ![h] = 0]
    /\ ackSeq' = [ackSeq EXCEPT ![h] = 0]
    /\ deletedUntil' = [deletedUntil EXCEPT ![h] = 0]

\* The loop of MarkDelivered goes past s when s is the next number present
\* and is either expired or among the fetched items.
Passes(h, s) ==
    /\ s \in Live(rcpt[h])
    /\ msg[rcpt[h]][s].exp <= at[h] \/ s \in items[h]

\* The frontier jumps to the newest fetched item.
BadStopsAt(h, f) == f = Max(items[h] \cup {delivered[rcpt[h]]})

\* f is where that loop stops.
StopsAt(h, f) ==
    /\ \A s \in Seqs : delivered[rcpt[h]] < s /\ s <= f => Passes(h, s)
    /\ f + 1 \in Seqs => ~Passes(h, f + 1)

\* The loop's next is written, not its newFrontier.
BadSetDelivered(h, f) == delivered' = [delivered EXCEPT ![rcpt[h]] = f + 1]

SetDelivered(h, f) == delivered' = [delivered EXCEPT ![rcpt[h]] = f]

MarkDelivered(h) ==
    /\ pc[h] = "marking"
    /\ Unlocked(rcpt[h])
    /\ \E f \in delivered[rcpt[h]]..MaxSeq :
          /\ StopsAt(h, f)
          /\ SetDelivered(h, f)
    /\ Forget(h)
    /\ UNCHANGED <<msg, dup, exp, lastSeq, acked, lock, gcVars, envVars, handed>>

\* The handler's deadline has passed, or the database fails under the lock: the
\* error is only logged, the items are sent all the same.
MarkDeliveredFails(h) ==
    /\ pc[h] = "fetched" \/ (pc[h] = "marking" /\ Unlocked(rcpt[h]))
    /\ Forget(h)
    /\ UNCHANGED <<dbVars, lock, gcVars, envVars, handed>>

-----------------------------------------------------------------------------
(* AckMessages.                                                            *)

\* ack_seq <= acked frontier: answered without touching the database.
AckAlreadyDone(h, r, n) ==
    /\ pc[h] = "idle"
    /\ Unlocked(r)
    /\ n <= acked[r]
    /\ pc' = [pc EXCEPT ![h] = "acked"]
    /\ rcpt' = [rcpt EXCEPT ![h] = r]
    /\ ackSeq' = [ackSeq EXCEPT ![h] = n]
    /\ deletedUntil' = [deletedUntil EXCEPT ![h] = acked[r]]
    /\ UNCHANGED <<dbVars, lock, items, at, gcVars, envVars, handed>>

BadAdmissible(r, n) == acked[r] < n /\ n <= lastSeq[r]

Admissible(r, n) == acked[r] < n /\ n <= delivered[r]

\* A request beyond the delivered frontier is refused and changes nothing, so
\* only an admissible one takes the lock.
AckBegin(h, r, n) ==
    /\ pc[h] = "idle"
    /\ Unlocked(r)
    /\ Admissible(r, n)
    /\ lock' = [lock EXCEPT ![ShardOf[r]] = h]
    /\ pc' = [pc EXCEPT ![h] = "acking"]
    /\ rcpt' = [rcpt EXCEPT ![h] = r]
    /\ ackSeq' = [ackSeq EXCEPT ![h] = n]
    /\ deletedUntil' = [deletedUntil EXCEPT ![h] = acked[r]]
    /\ UNCHANGED <<dbVars, items, at, gcVars, envVars, handed>>

\* The upper bound of the iterator is one too high.
BadToDelete(h) == {s \in Live(rcpt[h]) : s <= ackSeq[h] + 1}

\* The messages the current request still has to delete.
ToDelete(h) == {s \in Live(rcpt[h]) : s <= ackSeq[h]}

\* The handler returns OK and its deferred unlock runs.
AckReturn(h) ==
    /\ pc' = [pc EXCEPT ![h] = "acked"]
    /\ lock' = [lock EXCEPT ![ShardOf[rcpt[h]]] = NoHolder]

\* The handler answers after its first batch.
BadAckLoopEnds(h, gone, d) == TRUE

AckLoopEnds(h, gone, d) == Cardinality(gone) < AckDeleteBatch \/ d >= ackSeq[h]

\* One iteration that finds messages: they leave with their dup and exp keys,
\* and the acked frontier moves in the same batch.  (The code compares with the
\* frontier it read at the start; what it deletes is above the current one.)
AckDeleteSome(h) ==
    LET r == rcpt[h]
        gone == FirstN(ToDelete(h), AckDeleteBatch)
    IN /\ pc[h] = "acking"
       /\ \E d \in gone :
             /\ \A s \in gone : s <= d
             /\ msg' = WithoutMsgs(r, gone)
             /\ dup' = WithoutDups(r, gone)
             /\ exp' = exp \ {ExpKeyOf(r, s) : s \in gone}
             /\ acked' = [acked EXCEPT ![r] = IF d >= @ THEN d ELSE @]
             /\ deletedUntil' = [deletedUntil EXCEPT ![h] = d]
             /\ IF AckLoopEnds(h, gone, d)
                THEN AckReturn(h)
                ELSE UNCHANGED <<pc, lock>>
       /\ UNCHANGED <<lastSeq, delivered, rcpt, items, at, ackSeq, gcVars, envVars, handed>>

\* The iteration that finds nothing left: the frontier jumps to ack_seq.
AckDeleteNone(h) ==
    LET r == rcpt[h]
    IN /\ pc[h] = "acking"
       /\ ToDelete(h) = {}
       /\ IF deletedUntil[h] < ackSeq[h]
          THEN /\ acked' = [acked EXCEPT ![r] = ackSeq[h]]
               /\ deletedUntil' = [deletedUntil EXCEPT ![h] = ackSeq[h]]
          ELSE UNCHANGED <<acked, deletedUntil>>
       /\ AckReturn(h)
       /\ UNCHANGED <<msg, dup, exp, lastSeq, delivered, rcpt, items, at, ackSeq,
                      gcVars, envVars, handed>>

\* An error return that keeps the lock.
BadAckAborts(h) ==
    /\ pc[h] = "acking"
    /\ Forget(h)
    /\ UNCHANGED <<dbVars, lock, gcVars, envVars, handed>>

\* The deadline passes between two keys, or the database fails: the open batch
\* is dropped, earlier ones stay committed, the client gets an error.
AckAborts(h) ==
    /\ pc[h] = "acking"
    /\ lock' = [lock EXCEPT ![ShardOf[rcpt[h]]] = NoHolder]
    /\ Forget(h)
    /\ UNCHANGED <<dbVars, gcVars, envVars, handed>>

\* The AckResponse is written and the handler ends.
AckReply(h) ==
    /\ pc[h] = "acked"
    /\ Forget(h)
    /\ UNCHANGED <<dbVars, lock, gcVars, envVars, handed>>

-----------------------------------------------------------------------------
(* The collector: Worker.Run, runOnce and DeleteExpired.                   *)

\* The worker never runs again once a pass has failed.
BadGCTick ==
    /\ gcpc = "sleep"
    /\ gcpc' = "scan"
    /\ UNCHANGED <<dbVars, lock, handlerVars, gcNow, gcRefs, gcFull, envVars, handed>>

\* The ticker fires.
GCTick ==
    /\ gcpc \in {"sleep", "failed"}
    /\ gcpc' = "scan"
    /\ UNCHANGED <<dbVars, lock, handlerVars, gcNow, gcRefs, gcFull, envVars, handed>>

BadDue(k) == k.exp <= now + 1

\* Below expUpperBound(now).
Due(k) == k.exp <= now

\* The first GCBatchSize expired keys, in key order.
Scanned ==
    LET due == {k \in exp : Due(k)}
    IN {k \in due : Cardinality({j \in due : KeyBefore(j, k)}) < GCBatchSize}

\* parseExpKey wants four parts, the recipient being one of them.
Parses(k) == k.r \notin Slashed

\* DeleteExpired collects the keys it will delete.
GCScan ==
    /\ gcpc = "scan"
    /\ \A k \in Scanned : Parses(k)
    /\ gcNow' = now
    /\ gcRefs' = Scanned
    /\ gcFull' = (Cardinality(Scanned) >= GCBatchSize)
    /\ gcpc' = IF Scanned = {} THEN "sleep" ELSE "delete"
    /\ UNCHANGED <<dbVars, lock, handlerVars, envVars, handed>>

\* A key among them cannot be parsed: DeleteExpired returns the error before it
\* deletes anything, and so will every later pass that comes to this key.
GCScanFails ==
    /\ gcpc = "scan"
    /\ \E k \in Scanned : ~Parses(k)
    /\ gcpc' = "failed"
    /\ UNCHANGED <<dbVars, lock, handlerVars, gcNow, gcRefs, gcFull, envVars, handed>>

\* Every pass is a single scan.
BadAfterBatch == "sleep"

\* runOnce scans again after a full batch.
AfterBatch == IF gcFull THEN "scan" ELSE "sleep"

\* One key of the batch, under its recipient's lock: the message and its dup
\* key go if the message is still there, the exp key goes in any case.
GCDelete(k) ==
    LET gone == Live(k.r) \cap {k.s}
    IN /\ gcpc = "delete"
       /\ k \in gcRefs
       /\ \A j \in gcRefs : j = k \/ KeyBefore(k, j)
       /\ Unlocked(k.r)
       /\ msg' = WithoutMsgs(k.r, gone)
       /\ dup' = WithoutDups(k.r, gone)
       /\ exp' = exp \ {k}
       /\ gcRefs' = gcRefs \ {k}
       /\ gcpc' = IF gcRefs = {k} THEN AfterBatch ELSE "delete"
       /\ UNCHANGED <<lastSeq, delivered, acked, lock, handlerVars, gcNow, gcFull,
                      envVars, handed>>

\* The database fails DeleteExpired, or the process is told to stop: runOnce logs
\* the error and waits for the ticker.  Such errors are bounded, those of
\* GCScanFails are not.
GCFails ==
    /\ gcpc \in {"scan", "delete"}
    /\ faults < MaxFaults
    /\ faults' = faults + 1
    /\ gcpc' = "failed"
    /\ gcRefs' = {}
    /\ UNCHANGED <<dbVars, lock, handlerVars, gcNow, gcFull, now, handed>>

-----------------------------------------------------------------------------
(* The environment.                                                        *)

Tick ==
    /\ now < MaxTime
    /\ now' = now + 1
    /\ UNCHANGED <<dbVars, lock, handlerVars, gcVars, faults, handed>>

\* The process dies and is started again on the same data directory.
Crash ==
    /\ faults < MaxFaults
    /\ faults' = faults + 1
    /\ lock' = [sh \in Shards |-> NoHolder]
    /\ pc' = [h \in Handlers |-> "idle"]
    /\ rcpt' = [h \in Handlers |-> AnyRecipient]
    /\ items' = [h \in Handlers |-> {}]
    /\ at' = [h \in Handlers |-> 0]
    /\ ackSeq' = [h \in Handlers |-> 0]
    /\ deletedUntil' = [h \in Handlers |-> 0]
    /\ gcpc' = "sleep"
    /\ gcNow' = 0
    /\ gcRefs' = {}
    /\ gcFull' = FALSE
    /\ UNCHANGED <<dbVars, now, handed>>

-----------------------------------------------------------------------------

Init ==
    /\ msg = [r \in Recipients |-> [s \in Seqs |-> NoMsg]]
    /\ dup = [r \in Recipients |-> [id \in MsgIds |-> 0]]
    /\ exp = {}
    /\ lastSeq = [r \in Recipients |-> 0]
    /\ delivered = [r \in Recipients |-> 0]
    /\ acked = [r \in Recipients |-> 0]
    /\ lock = [sh \in Shards |-> NoHolder]
    /\ pc = [h \in Handlers |-> "idle"]
    /\ rcpt = [h \in Handlers |-> AnyRecipient]
    /\ items = [h \in Handlers |-> {}]
    /\ at = [h \in Handlers |-> 0]
    /\ ackSeq = [h \in Handlers |-> 0]
    /\ deletedUntil = [h \in Handlers |-> 0]
    /\ gcpc = "sleep"
    /\ gcNow = 0
    /\ gcRefs = {}
    /\ gcFull = FALSE
    /\ now = 0
    /\ faults = 0
    /\ handed = [r \in Recipients |-> {}]

\* The requests a handler may be asked to serve.
AfterSeqs == 0..MaxSeq \cup {MaxUint}

HandlerStep(h) ==
    \/ \E r \in Recipients \ Slashed, after \in AfterSeqs, limit \in FetchLimits :
          FetchMessages(h, r, after, limit)
    \/ MarkBegin(h)
    \/ MarkDelivered(h)
    \/ MarkDeliveredFails(h)
    \/ \E r \in Recipients \ Slashed, n \in 0..MaxSeq : AckAlreadyDone(h, r, n)
    \/ \E r \in Recipients \ Slashed, n \in 0..MaxSeq : AckBegin(h, r, n)
    \/ AckDeleteSome(h)
    \/ AckDeleteNone(h)
    \/ AckAborts(h)
    \/ AckReply(h)

Next ==
    \/ \E r \in Recipients, id \in MsgIds, ttl \in TTLs : StoreMessage(r, id, ttl)
    \/ \E h \in Handlers : HandlerStep(h)
    \/ GCTick
    \/ GCScan
    \/ GCScanFails
    \/ \E k \in gcRefs : GCDelete(k)
    \/ GCFails
    \/ Tick
    \/ Crash

Spec == Init /\ [][Next]_vars

\* What Go's scheduler gives: a goroutine that can run does run, and one that
\* waits for a sync.Mutex is not overtaken for ever (its starvation mode), so
\* the two waits in the middle of an operation get strong fairness.  Nothing is
\* assumed about requests, faults or the clock.
Fairness ==
    /\ \A h \in Handlers :
          /\ WF_vars(MarkBegin(h))
          /\ SF_vars(MarkDelivered(h))
          /\ WF_vars(AckDeleteSome(h) \/ AckDeleteNone(h))
          /\ WF_vars(AckReply(h))
    /\ WF_vars(GCTick)
    /\ WF_vars(GCScan \/ GCScanFails)
    /\ SF_vars(\E k \in gcRefs : GCDelete(k))

FairSpec == Spec /\ Fairness

-----------------------------------------------------------------------------
(* Safety.                                                                 *)

\* The three indexes of a message appear and vanish together: a dup key names
\* the live message with that msg_id, every live message has its dup key, and
\* the exp keys are exactly those of the live messages.  It ties StoreMessage,
\* the batches of AckMessages and the stale references of DeleteExpired.
IndexesAgree ==
    /\ \A r \in Recipients, id \in MsgIds :
          dup[r][id] # 0 => dup[r][id] \in Live(r) /\ msg[r][dup[r][id]].id = id
    /\ \A r \in Recipients : \A s \in Live(r) : dup[r][msg[r][s].id] = s
    /\ \A k \in exp : k.s \in Live(k.r) /\ k = ExpKeyOf(k.r, k.s)
    /\ \A r \in Recipients : \A s \in Live(r) : ExpKeyOf(r, s) \in exp

\* acked <= delivered <= seq, and everything live lies between acked and seq:
\* an acknowledged prefix is really gone and never comes back.
FrontiersOrdered ==
    \A r \in Recipients :
        /\ acked[r] <= delivered[r]
        /\ delivered[r] <= lastSeq[r]
        /\ \A s \in Live(r) : acked[r] < s /\ s <= lastSeq[r]

\* MarkDelivered never moves the frontier over a message that no fetch returned
\* unless it has expired: what an ack may delete was handed out or is dead,
\* although the clock and the items are read before the lock is taken.
NothingSkipped ==
    \A r \in Recipients : \A s \in Live(r) :
        s <= delivered[r] => s \in handed[r] \/ msg[r][s].exp <= now

\* The quota check and the write are one critical section: concurrent stores
\* do not push a recipient over max_messages_per_recipient ...
CountQuotaHeld ==
    MaxMessages > 0 => \A r \in Recipients : Cardinality(Live(r)) <= MaxMessages

\* ... nor over max_bytes_per_recipient.
ByteQuotaHeld ==
    MaxBytes > 0 => \A r \in Recipients : UsedBytes(r) <= MaxBytes

\* When AckMessages has returned OK, no message up to ack_seq is left, however
\* many batches it took and whatever ran before the reply is written, and the
\* deleted_until_seq it reports is durable.
AckConfirmedGone ==
    \A h \in Handlers : pc[h] = "acked" =>
        /\ \A s \in Live(rcpt[h]) : s > ackSeq[h]
        /\ deletedUntil[h] <= acked[rcpt[h]]

\* A pass of the collector that ends without an error leaves nothing that had
\* expired when its last scan began, although it locks one key at a time and
\* rescans only after a full batch.
GCPassComplete ==
    gcpc = "sleep" => \A r \in Recipients : \A s \in Live(r) : msg[r][s].exp > gcNow

\* A sequence number is used once: a message appears only above every number
\* given before (so above both frontiers), and is never altered in place.
SeqsAreFresh ==
    [][\A r \in Recipients, s \in Seqs :
          msg'[r][s] # NoMsg /\ msg'[r][s] # msg[r][s]
             => s > lastSeq[r] /\ s > delivered[r] /\ s \notin handed[r]]_vars

\* A message leaves the store only when it has expired, or when it was fetched
\* and an ack that covers it is being served.
NoPrematureRemoval ==
    [][\A r \in Recipients : \A s \in Live(r) :
          msg'[r][s] = NoMsg =>
             \/ msg[r][s].exp <= now
             \/ /\ s \in handed[r]
                /\ \E h \in Handlers : pc[h] = "acking" /\ rcpt[h] = r /\ s <= ackSeq[h]]_vars

\* No handler waits for ever, on a lock or in the loop of AckMessages.
EveryRequestEnds == \A h \in Handlers : pc[h] # "idle" ~> pc[h] = "idle"

\* An expired message is collected in the end, also when passes fail, the node
\* restarts, or acks keep taking the lock: unless a message to a recipient with a
\* '/' has expired too, nothing but which stops the collector for good.
CollectedUnlessMalformed ==
    \A r \in Recipients, s \in Seqs :
        s \in Live(r) /\ msg[r][s].exp <= now
           ~> s \notin Live(r) \/ \E k \in exp : k.r \in Slashed /\ k.exp <= now

\* Expired predecessors do not stand in the way of an ack: when everything up
\* to the newest fetched item is fetched or expired, and the items are still
\* stored, MarkDelivered makes that item ackable.  store_test.go:159-169 expects it before a collection; the
\* code does not keep it after one (fetch.go:89 stops at the first gap).
AckableAfterFetch ==
    [][\A h \in Handlers :
          /\ MarkDelivered(h)
          /\ items[h] \subseteq Live(rcpt[h])
          /\ \A s \in Live(rcpt[h]) :
                s <= Max(items[h]) => s \in items[h] \/ msg[rcpt[h]][s].exp <= at[h]
          => delivered'[rcpt[h]] >= Max(items[h])]_vars

-----------------------------------------------------------------------------
(* The inductive invariant: what the operations in progress rely on.       *)

\* What a handler knows at each point.  Its fetched items are on record and the
\* clock it read is past; inside AckMessages it holds the lock, its request is
\* below the delivered frontier and the acked one is where its loop left it;
\* once AckMessages has returned, nothing it covers is left or will come back.
HandlerOK(h) ==
    /\ items[h] \subseteq handed[rcpt[h]]
    /\ pc[h] \in {"idle", "acking", "acked"} => items[h] = {}
    /\ at[h] <= now
    /\ pc[h] = "acking" =>
          /\ lock[ShardOf[rcpt[h]]] = h
          /\ ackSeq[h] <= delivered[rcpt[h]]
          /\ deletedUntil[h] = acked[rcpt[h]]
    /\ pc[h] = "acked" =>
          /\ ackSeq[h] <= lastSeq[rcpt[h]]
          /\ \A s \in Live(rcpt[h]) : s > ackSeq[h]
          /\ deletedUntil[h] <= acked[rcpt[h]]

HandlersOK == \A h \in Handlers : HandlerOK(h)

\* A held lock belongs to a handler inside AckMessages for that shard.
HoldersAck ==
    \A sh \in Shards : lock[sh] # NoHolder =>
        pc[lock[sh]] = "acking" /\ ShardOf[rcpt[lock[sh]]] = sh

\* Only numbers that were given have been handed out.
HandedWasStored == \A r \in Recipients : \A s \in handed[r] : s <= lastSeq[r]

\* A reference the collector holds is expired, and if its number is still in
\* use then for the very message that was scanned.
RefsAreDead ==
    /\ gcNow <= now
    /\ \A k \in gcRefs :
          /\ k.exp <= gcNow
          /\ k.s <= lastSeq[k.r]
          /\ k.s \in Live(k.r) => msg[k.r][k.s].exp = k.exp

\* Before the last short batch is worked off, what was due is in that batch.
BatchIsComplete ==
    gcpc = "delete" /\ ~gcFull =>
        \A r \in Recipients : \A s \in Live(r) :
            msg[r][s].exp <= gcNow => ExpKeyOf(r, s) \in gcRefs

IndInv ==
    /\ TypeOK
    /\ IndexesAgree
    /\ FrontiersOrdered
    /\ NothingSkipped
    /\ HandlersOK
    /\ HoldersAck
    /\ HandedWasStored
    /\ RefsAreDead
    /\ BatchIsComplete
    /\ GCPassComplete

-----------------------------------------------------------------------------

M == INSTANCE Mailbox WITH box <- msg, top <- lastSeq

\* The store is a mailbox: hiding the other keys, the frontiers, the locks and
\* the collector, every step is one of Mailbox's or changes nothing of it.  In
\* particular each batch of AckMessages confirms a whole prefix.
ImplementsMailbox == M!MSpec
=============================================================================
