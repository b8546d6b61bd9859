# Verification of the MeshChat store node

TLA+ models of `store-node` (Go), checked with TLC on small instances and, but
for liveness, proved with TLAPS for every value of the constants. Paths
below are relative to the repository root; `docs` is
`docs/meshchat-public-channel-store-integration.md`.

## 1. Inventory of the system

| component | state it keeps | operations | talks to |
|---|---|---|---|
| offline message store (`internal/storage/pebble`) | per recipient: `msg/` messages by sequence number, `dup/` msg_id index, `exp/` expiry index, `seq/` last number, `state/…/delivered` and `state/…/acked` frontiers | StoreMessage(WithQuota), FetchMessages, MarkDelivered, AckMessages, DeleteExpired | shard locks, Pebble |
| shard locks (`internal/shard`) | 256 mutexes, one per hash of a recipient id | Lock | every writer of the store |
| collector (`internal/gc`) | none of its own | Run (ticker), runOnce (repeat DeleteExpired until a short batch) | the store |
| services (`internal/service`) | none | Handle for store, fetch and ack: validate, limit, verify, call the store | limiter, verifier, store |
| rate limiter (`internal/ratelimit`) | count per key and minute | Allow | store service (one for the remote peer, one for the sender) |
| offline RPC server (`internal/p2p/protocols.go`) | one goroutine per stream, a 30 s deadline | HandleRPC | services |
| signatures (`internal/auth`) | none | VerifyMessageEnvelope, VerifyAck | services |
| public channel store (`internal/publicchannel`) | SQLite: channel row (owner, profile version, head), messages, change index by seq | Push, GetProfile, GetHead, GetMessage, ListMessages, SyncChanges | one database connection |
| public channel RPC server (`internal/p2p/public_channel_server.go`) | one goroutine per stream | HandleRPC | public channel service |
| application (`internal/app`, `cmd/stored`) | which parts are open | New, Start, Close; frame limits | all |
| host and identity (`internal/p2p/host.go`, `identity.go`) | the identity file, the key | LoadOrCreateIdentityKey, NewHost | application |
| address detection, configuration, logging, metrics | set-up | – | – |

What is hard in it:

* *Concurrency.* Handlers of one recipient, or of recipients that share a
  shard, interleave with each other and with the collector. Fetching takes no
  lock; MarkDelivered reads its clock and gets its items before it waits for
  the lock; the collector's references are stale when it uses them. Push reads
  the old channel row outside its transaction; SyncChanges is two statements.
  Streams are served while New is still running, and go on while Close takes
  host and databases away from under them.
* *Failure.* A deadline or an error between two batches of an ack, a crash
  between any two commits, a failed collection pass, a push that fails after
  part of it is written, an answer that is lost after the work is done, a start
  that fails or is killed half-way.
* *Order and boundaries.* Marks of two fetches in the opposite order, retries
  of what was stored, acknowledged or collected, pushes repeated or out of
  order, full and short batches, the largest `after_seq`, the quota at its
  limit, empty pages, the minute that ends between the two limiters of a
  request, frames cut to 32 bits.
* *Names.* A store request may name any non-empty recipient_id
  (`validate.go:23`), also one with a `/`, the separator of the keys. The owner
  of a channel is named three times in a push, by the connection, the profile
  and the head.

What makes each part right: the three indexes of the store agree; the frontiers
are ordered, earned and final; numbers are never reused; nothing leaves early
and nothing expired stays; quotas hold; every request ends. For channels: a
push is all or nothing, versions and heads do not fall, the change index covers
every message, the owner stays, subscribers miss nothing. For the gate: limiters neither let too
many pass nor refuse too early, only what its sender signed is stored or
charged, pages hold nothing of another peer, nothing within the limits is too long for
a frame. For the node: the peer id stays, and OK means stored. From end to end:
no message is lost between a sender that was told and a client that keeps
asking. `PROJECT.json` lists the hazards with
the properties that would notice them.

## 2. Modules

| module | what it is |
|---|---|
| `OfflineStore` | the store, the locks, the collector, the handlers' storage calls, crashes; all properties of it |
| `Mailbox` | abstract specification: what the store promises a sender and a recipient |
| `OfflineStoreProofs` | theorems about `OfflineStore` |
| `Delivery` (extends `OfflineStore`) | the store composed with senders and clients, over lost and late requests and answers |
| `RequestGate` | what stands in front of the store: frames, dispatch, services, validation, signatures, limiters |
| `Node` (extends `RequestGate`) | the process around it: start, failed start, stop, kill, identity file |
| `PublicChannel` | one public channel: Push, readers, subscribers, the connection, crashes |
| `ChannelLog` | abstract specification of a channel: a push is one step |
| `PublicChannelProofs` | theorems about `PublicChannel` |
| `ChannelSyncProofs` | theorems about the subscribers of a channel |
| `ChannelLogProofs` | the refinement of `ChannelLog` |
| `DeliveryProofs`, `RequestGateProofs`, `NodeProofs` | theorems about `Delivery`, `RequestGate`, `Node` |
| `FiniteSums` | lemmas about sums over finite sets, for quotas and frames |
| `MCOfflineStore`, `MCDelivery`, `MCNode`, `MCPublicChannel` | definitions for the instances TLC checks |

Definitions whose names begin with `Bad` are the definition that follows with a
plausible slip (a dropped check, an off-by-one, a missing rollback). No
specification uses them; each property is known to fail when one of them is put
in place of the real definition.

### OfflineStore

`msg`, `dup`, `exp`, `lastSeq`, `delivered`, `acked` are the keys of the
database, a message being its msg_id and expiry. `lock` has the holder of each
shard. `pc`, `rcpt`, `items`, `at`, `ackSeq`, `deletedUntil` are the locals of a
handler; `gcpc`, `gcNow`, `gcRefs`, `gcFull` those of the collector. `handed` is
history: what any fetch has returned.

| action | code |
|---|---|
| `StoreMessage` | `store.go` storeMessageWithQuota, under the lock, one batch |
| `FetchMessages` | `fetch.go` FetchMessages, a snapshot without the lock |
| `MarkBegin`, `MarkDelivered`, `MarkDeliveredFails` | `fetch.go` MarkDelivered: clock, then lock and frontier; an error is only logged by handleFetchRPC |
| `AckAlreadyDone`, `AckBegin`, `AckDeleteSome`, `AckDeleteNone`, `AckAborts`, `AckReply` | `ack.go` AckMessages: the early returns, one step per batch while the lock is kept, the error returns, the answer |
| `GCTick`, `GCScan`, `GCScanFails`, `GCDelete`, `GCFails` | `worker.go` and `gc.go`: the scan without a lock, which ends in an error at a key that `parseExpKey` refuses, then one locked step per key, in key order |
| `Tick`, `Crash` | the clock; the process dies and restarts on the same data |

Calls that change nothing (a duplicate, a refused ack, an empty fetch) are
guards, not steps. A batch committed with `pebble.Sync` is one durable step.
Not modelled: `has_more` (only copied to the answer); the instant between
reading the clock and opening the iterator in FetchMessages and DeleteExpired,
taken as one step. `after_seq + 1` is computed modulo `MaxUint + 1`.

Recipient ids are naturals ordered as their strings are; those in `Slashed`
contain a `/`. They are no peer's ids, so nobody fetches or acknowledges their
messages, which are stored and expire like others; but their `exp/` keys have
five parts, and a scan that meets one of them fails (`GCScanFails`), without
any bound on how often. An id that is another one, a `/` and more is left out
here: the key prefixes of the ids are assumed to be disjoint. `RequestGate` has
such ids, for what a page may hold. What they do to the frontier of the shorter
id (MarkDelivered and the quota scan the same prefix, AckMessages fails at such
a key), and two pairs of recipient and msg_id that make one `dup/` key, are in
neither module.

### Delivery

Adds two variables: `inbox`, what each client has received for good, and `told`,
the numbers and expiries senders were told. The clients are external (they are
not in the repository) and do what its README and tests show: a sender repeats a
message until it is told that it is stored (`SendNew`, `SendAgain`, whose answer
may not arrive); a client fetches from 0 or after any message it has
(`ClientFetch`), keeps what arrives (`Arrives`) or gets nothing (`GetsLost`),
and acknowledges a message it has (`ClientAck`). A request that is late or
repeated is one made from an earlier state of the client, which these include.
All other steps are those of `OfflineStore` (`NodeStep`), unchanged.

### RequestGate and Node

A request is a record with the outcomes of the checks that depend on nothing but
itself (JSON, required fields, signature), the length of its frame, its peer,
sender and recipient; the recipient of a message is any id, not only a peer's. A
handler has the steps between the points where it meets others:

| action | code |
|---|---|
| `HandleRPC` | `protocols.go` HandleRPC with ReadFrame, the RPC errors and the checks of `validate.go`, up to the limiter, the fetch or the ack; ttl checks of `store_service.go` |
| `AllowRemote` | `store_service.go:80`, the remote peer's limiter |
| `AllowSender` | `store_service.go:86-105`, signature, the sender's limiter, size |
| `StoreMessage`, `FetchMessages`, `AckMessages` | the call of the storage and its answer |
| `WriteRPC`, `ResetStream` | writeRPC with WriteFrame; resetStream |
| `Expire`, `NextMinute`, `Restart` | the collector, the wall clock, a new process with new limiters |

The storage is a set `box` of messages that may answer in every way
`OfflineStore` does (stored, duplicate, quota, error; any part of a recipient's
messages within the limit; any of them deleted, also by an ack that fails):
numbers and frontiers are the business of that module. A page is what the scan
of `msg/<recipient>/` finds: `Inside` says which ids go on after another's with
a slash, `Under` whose messages lie under a prefix. An ack deletes only the
recipient's own, since `parseMsgKey` refuses the keys of the others.
`RECIPIENT_QUOTA_EXCEEDED` stands for the byte quota's code as well. The
literals of `frameLimits` are constants, so that an instance can put them next
to each other, and its results are cut modulo `Word` (2^32). `passed` is
history: what each limiter let pass in the present minute of this process.

`Node` adds how far New or Close has come (`phase`), what is open, the identity
file and the key. `OpenStore`, `LoadOrCreateIdentityKey`, `WriteKey`, `NewHost`,
`Start` are New and Start; `NewFails` and `OpenChannelsFails` their error paths,
the second while streams are already served; `CloseHost`, `CloseStores`, `Exit`
are Close and the end of main; `Kill` may come at any point. On a closed
database a call returns an error (`StorageFails`) or ends the process (`Kill`).

### PublicChannel

`channel`, `messages`, `changes` are the committed tables; `conn` the holder of
the only connection and `tx…` the tables as its transaction sees them. A Push is
`PushCheck` (checks and the read of the old row), `PushBegin`, one `PushMessage`
per message, `PushProfile`, one `PushChange` per explicit change, and
`PushCommit` or `PushRollback`. The two ON CONFLICT clauses keep the columns
they do not name. A subscriber (external, from section 7.6 of `docs`) asks with
`after_seq = next_after_seq` and keeps the rows (`cursor`, `seen`), and `upTo`
is the `current_last_seq` of an answer that had no `has_more`. `owners` is
history: the peers that have owned the channel.

`ChannelLog` describes a push from its end, as one step: of several writers of a
row the last one wins. `ImplementsLog` is `ChannelLog`'s specification over the
same tables; it holds when pushes are served one at a time.

Requests come from the constant `Pushes`; checks of the request alone
(signatures, ids, authors) are its field `valid`. The owner of the profile and
that of the head are separate fields: Push compares the first with the sender
and the second with the stored owner, never the two with each other, and the
instances have a second peer that sends heads of the owner with its own profile.
Left out: columns that are only copied (names, texts, times, `is_deleted`) and
the read-only get methods. Channels share only the connection;
one is modelled.

## 3. Runs

| run | instance | result |
|---|---|---|
| `store_one` | 1 recipient, 2 handlers, 3 msg ids of sizes 1 and 2, 3 numbers, TTL 1–2, clock to 1, batches of 1, both quotas 2, 1 fault; 345,000 states | eleven properties hold, `ImplementsMailbox` included |
| `store_live` | 2 recipients of one shard, one with a `/`, 2 handlers, 2 numbers each, TTL 1, batches of 1, 1 fault, fairness; 38,872 states | every request ends; expired messages are collected unless one of the malformed id has expired |
| `store_gap` | 1 handler | violated: see 5 |
| `delivery` | 1 recipient, 2 handlers, 2 msg ids, 2 numbers, TTL 1–2, pages of 1 and 2, 1 fault; 307,735 states | nothing is lost between sender and client |
| `delivery_live` | 1 handler, 2 numbers, TTL 1, 1 fault, fairness; 46,329 states | stored messages are received or expire |
| `node` | 2 streams, 2 peers and a recipient id inside the prefix of one, 18 requests (good ones and one or more for every check), limit 1, 2 minutes, pages of 2, 2 keys; 675,797 states | limiters, signatures, pages, frames, peer id and OK hold over every start and stop |
| `channel_any` | 2 concurrent pushes, 19 requests over 2 ids, 2 versions, 2 seqs, fairness; 405,000 states | atomicity, versions, index hold; every push ends |
| `channel_one` | 1 push at a time, 12 requests up to seq 5, a second peer with its own heads and with the owner's, invalid requests, a subscriber with pages of 1, 1 crash, fairness; 25,534 states | head, transfer of the owner, subscriber properties (catching up included) and the refinement of the log hold |
| `channel_race`, `channel_seq`, `channel_page`, `channel_owner` | | violated: see 5 |

Why the bounds suffice for the cases that matter: three numbers allow a
collected or acknowledged message between two others; batches of one make every
ack and every pass loop, which ends on a full batch as well as on an empty one; two handlers
give every order of two fetches, of fetch and ack, of ack and collector; two
lifetimes on a clock of two instants let a message expire while an older or a
newer neighbour lives, while a handler that read the clock waits for the lock,
and between two passes of the collector; three ids make the quota of two refuse;
one fault puts a crash anywhere. The invariants of `store_one` are also proved
for every bound (section 4). In `delivery` two handlers serve a client that has
given up on the first answer, and two numbers let an ack or a cursor pass a
message that did not arrive. In `store_live` two handlers, which may serve two
recipients of one shard, and the collector contend for one lock; `delivery_live`
has one handler and the collector. In `node` a limit of one makes the second
request of a minute decisive, the two minutes put the boundary between any two
steps, the largest messages and pages sit exactly at the limits the frames must
let through, and two keys are enough for a second peer id to appear. Deadlock
is not checked: at the bounds of the clock and the numbers the models stop, and
the node may be off.

Fairness. A goroutine that can run does run: weak fairness for the steps of an
operation. Waiting for a `sync.Mutex` (whose starvation mode serves waiters in
order) or for the pool's connection gets strong fairness for the step that
needs it; for the connection this is an assumption, since `database/sql` hands
it to one of those that wait without promising an order. The ticker fires again. Subscribers keep polling.
In `delivery_live` the outside is assumed to go on: a client that has not got
everything asks again from its cursor, and an answer with something new, offered
again and again, does arrive once. `EventuallyReceived` rests on both; the other
liveness properties do not. Nothing is assumed about senders, faults, acks
or the clock.

## 4. Proofs

Every invariant and every action property that a passing run checks, and both
refinements, is also a theorem. Each invariant that is introduced below as the
inductive one was checked with TLC on the instances of section 3 before it was
proved.

`OfflineStoreProofs` proves, with the constants assumed only as in
`ConstantsOK` (any sets of recipients, handlers and shards, any quota, positive
batch sizes and TTLs):

* `TypeCorrect`, `Invariance` (`Spec => []IndInv`) and from it
  `IndexesCorrect`, `FrontiersCorrect`, `FrontierIsEarned`, `AckIsFinal`,
  `PassIsComplete`, `QuotaCorrect`, `ByteQuotaCorrect`;
* the action properties `NumbersAreFresh` and `RemovalIsJustified`;
* `Refinement`: `Spec => ImplementsMailbox`.

The properties are not inductive by themselves. `IndInv` adds what operations in
progress rely on: inside AckMessages the handler holds the lock of its shard,
its ack_seq is below the delivered frontier and its `deletedUntil` is the acked
frontier (`HandlerOK`); a held lock belongs to such a handler (`HoldersAck`), so
nothing else moves the frontiers or stores under it; only given numbers were
handed out (`HandedWasStored`), which is why a new message is never covered by
an old fetch; a reference of the collector is expired and, if its number is
still in use, names the very message that was scanned (`RefsAreDead`), because
numbers are not reused; and in the last, short batch everything that was due is
referenced (`BatchIsComplete`). The last two rest on lemmas about prefixes of
finite sets: what an iterator stopped after k keys returns is a prefix
(`FirstNPrefix`), and everything if it returned fewer than k (`FirstNShort`,
`ScanShort`). There is one lemma per action or group of actions that leave the
same things alone, and `InductiveStep` combines them. For the refinement each
batch of AckMessages is a Confirm of everything up to its last number, and a
step of the collector an Expire or a stutter.

`ByteQuotaCorrect` is about a sum over the messages of a recipient
(recipientUsageLocked), written with `MapThenSumSet`. `FiniteSums` shows what
that recursive function computes: by induction over the subsets of a finite set,
with the set of subsets for which a claim holds in the place of a predicate,
there is one function that satisfies the recursion on them, it has natural
values, a sum grows by what is added, is monotone and is bounded by the number
of elements times the largest. The quota then holds because StoreMessage
compares exactly the sum that the next state has.

`DeliveryProofs` (no assumption beyond `ConstantsOK`) first shows
`DeliveryUsesStore`: the composed system takes only steps of `OfflineStore`, so
all theorems above hold in it. `NothingIsLost`, `AcceptedCorrect` and
`CursorCorrect` follow from `DeliveryInvariance`. `DeliveryInv` adds to `IndInv`
that a client has only what was handed out (`InboxWasHanded`), that a stored
message older than one it has is one it has too, or has expired
(`InboxComplete`), that this stays so when a page in flight arrives, however
late (`FlightsComplete`: it is why a fetch starts after a message the client
has, and why an answer may be thrown away but not cut), and that an ack in
progress is of a message its client has (`AcksAreOfInbox`).

`RequestGateProofs` proves, from `GateConstantsOK`, `GateTypeCorrect`,
`BudgetCorrect`, `VouchedForCorrect`, `PagesCorrect`, `FramesCorrect` and the
action properties `RefusalsCorrect` and `SendersCorrect`, all from
`GateInvariance`. In `GateInv`, `WindowsAgree` ties a limiter's window to what
it let pass: a window left from an earlier minute counts as empty, one of this
minute counts exactly, and none lies in the future; both the budget and the
absence of an early refusal need the equality. `ProgressOK` names the checks a
request has behind it at each point, and `PagesOK` bounds a page.
`PagesCorrect` says what the prefix scan keeps for any `Recipients` and
`Inside`; that a page has nothing of another peer follows because a peer id has
no slash (`GateConstantsOK`).
`FramesSuffice` has as its hypothesis that the configuration leaves room for
what JSON adds and that nothing wraps (`FramesAreSound`: with the default
`fetch_limit_max` of 500, the literals of `frameLimits` leave some 139 bytes per
message of a page); the sum over a page is then bounded with `FiniteSums`. One
assumption came out of the proof: a response without messages is not empty
(`ReplyWrap # 0`; it is JSON, at least `{}`), without which WriteFrame would
refuse it.

`NodeProofs` shows that every step of `Node` is one of `RequestGate` or leaves
it alone (`NodeUsesGate`), which carries these theorems over
(`NodeGateCorrect`); `NodeTypeCorrect`; `PeerIdCorrect` from `IdentityOK` (an
announced key is the one in the file, and the file is written only while nothing
has been announced); and `OKCorrect`, also for stores that are closed under a
handler.

`PublicChannelProofs` proves, with the constants assumed only as in
`ChannelConstantsOK` (any requests in any order, any number of times):

* for any pushers: `ChannelTypeCorrect`, `ChannelInvariance`
  (`Spec => []ChannelInv`), `IndexCorrect`, and the action properties
  `VersionsCorrect` and `AtomicPush`;
* for at most one pusher (a hypothesis of the theorems, which `channel_race`
  shows to be needed for the head): `HeadInvariance`, `HeadCorrect`,
  `WithinHeadCorrect`, and `OwnerCorrect`: whatever is sent, the owner changes
  only by a push of the new owner with a head that names the old one. That it
  does change this way is what `channel_owner` shows.

`ChannelInv` says what an open transaction has done: its channel row is the
request's, its message table follows the committed one (`Follows`, which is
transitive, so message after message keeps it), the messages counted so far are
written, and both pairs of tables are indexed. The index needs both halves of
the schema: UNIQUE on the seq keeps a message off another's row, and the ON
CONFLICT clause of a profile change keeps the message named in the row it lands
on. `HeadInv` adds that what the checks found before the transaction still holds
at its end, which is true only while nobody else commits in between.

`ChannelSyncProofs` proves `SubscribersCorrect` and `SyncEndCorrect`, under three
conditions. First, at most one pusher: of two pushes of one owner the older may
pass its check before the newer commits and write its rows afterwards, behind
the cursor of a subscriber. Second, orderly owners (`OrderlyOwner`): of the
requests of one peer that could ever be committed, one writes a row of the
change log once and none beyond its head, no two have one head, and those of a
later head write above the earlier one, which is what section 7.6 of `docs`
presupposes when it lets clients go on from a seq. Third, in the properties
themselves, that the channel has had one owner so far (`OneOwner`): a peer that
took it over knows nothing of the seqs its predecessor has used. Nothing is
assumed about which head comes with whose profile, about other requests, or
about loss, repetition or order. The requests of `channel_one` satisfy the
second condition (an `ASSUME` of `MCPublicChannel`, which TLC evaluates) and
without it the property fails: an owner that edits a message under a seq it has
used rewrites a row that subscribers have passed. `SyncInv` is inductive because a push only adds rows
above the head or, from the same owner, repeats the last one as it was
(`TxAdds`, `LogOK`), and no subscriber is ahead of the head (`ReaderOK`): so what SyncChanges reads in its
second statement may be more than the head of its first, but never less.

`ChannelLogProofs` proves `LogRefinement` (`Spec => ImplementsLog`) for at most
one pusher and any requests. `LogInv` says, row by row, what the tables of an
open transaction are after its first n statements: the last of these that writes
the row, else its profile, else what was there (`TxLog`). Each action advances n
by one, and at the commit this is the step of `ChannelLog`. Because the
transaction began from what its checks read, it is a step that `Publishable`
allows.

Only model-checked: liveness, since fairness is outside the prover's reach
(`EveryPushEnds`, `SubscribersCatchUp`, `EveryRequestEnds`,
`CollectedUnlessMalformed`, `EventuallyReceived`), and the counterexamples of
section 5. The theorems about one channel pusher leave concurrent pushes to TLC,
which finds what they break (`channel_race`).

## 5. What disagrees

* `store_gap`: after the collector has removed an expired message, MarkDelivered
  cannot pass the gap (`fetch.go:89`); the messages behind it can be fetched but
  not acknowledged. `store_test.go:159-169` expects expired predecessors not to
  stand in the way, and the code does so until the collector has run.
* `channel_race`: Push checks `head.last_seq` against a row it read before its
  transaction; concurrent pushes can lower the stored value (docs:175).
* `channel_owner`: the sender is compared with the owner of the profile
  (`store.go:173`), the stored owner with that of the head (`store.go:199`), and
  nothing compares the two; a push with its sender's profile and a head of the
  present owner makes its sender the owner. docs:172 says the server requires
  the sender to be both, and the error at `store.go:200` that the owner cannot
  change.
* `channel_seq`: a newer version of a message may carry a lower seq (docs:175).
* `channel_page`: an empty page of an existing channel, such as one that has no
  message yet, is answered as PUBLIC_CHANNEL_NOT_FOUND (docs:204).

SyncChanges reads `last_seq` and the rows in two statements, so an answer may
contain items beyond its `current_last_seq`, which docs:281 calls the largest
seq on record. That is harmless for a client that follows `next_after_seq` and
`has_more`: while pushes are served one at a time and the channel stays with an
orderly owner, `SyncEndsComplete` and `SubscribersMissNothing` hold with pushes
between the statements.

A recipient_id with a `/` is accepted although no peer has such an id. Two
consequences are in the models as what the code does: a page may hold messages
stored for an id that goes on after the reader's with a slash
(`PagesStayUnderRecipient` says that it holds nothing else), and once a message
of any id with a slash has expired, each pass of the collector that reaches it
fails and what lies behind it is never collected (`CollectedUnlessMalformed` says
that only this can stop collection). No document promises otherwise.

## 6. Plan

Done: the two stores, the gate and the node around the offline store, its
composition with senders and clients, and the channel as a log; of all of these
every safety property of the runs and both refinements are proved.

To prove next:

1. What concurrent pushes do keep: the part of `SubscribersMissNothing` that
   survives without the hypothesis of one pusher.
2. That `RequestGate`'s `box` is what `OfflineStore` shows of itself, so that the
   two halves of the offline node are joined by a refinement and not only by
   their descriptions.

To model next: recipient ids inside another's prefix in `OfflineStore`, with
what they do to the frontiers and the quota of the shorter id.

Not modelled, with the reason: the bytes that are signed and the cryptography
(whether a signature is good is an input; where it is checked is modelled);
libp2p, addresses and their detection (input and output at start);
configuration, logging and metrics (constants of the models; counters and log
lines have no influence on behaviour); a loss of power (files are taken as the
operating system has them; the identity file is not synced, Pebble's batches
are); a wall clock that is set back; pushes of public channels while the node
closes, which end as in `PublicChannel`'s crash; the get methods of public
channels, which copy one row.
