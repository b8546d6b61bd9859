----------------------------- MODULE RequestGate -----------------------------
(***************************************************************************)
(* What stands in front of the offline store: the RPC server (internal/p2p *)
(* protocols.go and codec.go), the store, fetch and ack services with      *)
(* their validation (internal/service), the signature checks               *)
(* (internal/auth), the two rate limiters (internal/ratelimit) and the     *)
(* frame limits (internal/app).                                            *)
(*                                                                         *)
(* A stream carries one request and is served by a goroutine of its own.   *)
(* Goroutines meet in three places only, the two limiters (a mutex each)   *)
(* and the store, so a handler is split into the steps between them; the   *)
(* wall clock may reach the next minute before any of them.  The store     *)
(* behind the services is a box of messages that may answer in every way   *)
(* OfflineStore does.                                                      *)
(*                                                                         *)
(* Lengths are in units of the reader's choice: the literals of the code   *)
(* are constants here, so that an instance can put them next to each       *)
(* other.  A definition named Bad... is the definition after it with a     *)
(* plausible slip.                                                         *)
(***************************************************************************)
EXTENDS Integers, FiniteSets, FiniteSetsExt

CONSTANTS
    Handlers,        \* goroutines serving streams
    Peers,           \* peer ids
    Recipients,      \* recipient ids: a store request may name any non-empty string
    Inside,          \* <<x, r>>: the id x is r, a slash and more
    Requests,        \* the requests that may arrive, any number of times
    Limit,           \* rate_limit.per_sender_per_minute, of both limiters
    DefaultTTL,      \* store.default_ttl_sec
    MaxTTL,          \* store.max_ttl_sec
    MaxMessageSize,  \* store.max_message_size
    FetchLimitMax,   \* store.fetch_limit_max
    SmallFrame,      \* the constants of frameLimits: 16 KiB,
    MessageOverhead, \*   64 KiB,
    RPCOverhead,     \*   4 KiB
    Word,            \* 2^32, the size of a uint32
    RequestWrap,     \* what JSON adds to a message in a store request,
    ItemWrap,        \*   to each message in a fetch response,
    ReplyWrap,       \*   and all that a response has besides messages
    MaxMinute,       \* bound: the clock, in minutes
    NoTTL,           \* ttl_sec is absent
    NoRequest        \* the request of an idle handler

Methods == {"offline.store", "offline.fetch", "offline.ack"}

\* A request with the outcomes of the checks that depend on nothing else.
\* frame: the length its header gives, 32 bits; parses: the outer JSON is accepted and
\* request_id: it is there; valid: the body is accepted and no field is missing
\* or of a wrong version; who: sender_id of a message, recipient_id otherwise;
\* to: the recipient, whom no check compares with a peer id; signed: by who, with ed25519.
Request == [remote : Peers, frame : 0..(Word - 1), parses : BOOLEAN, requestId : BOOLEAN,
            method : Methods \cup {"unknown"}, valid : BOOLEAN, who : Peers, to : Recipients,
            signed : BOOLEAN, id : Nat, ttl : Int \cup {NoTTL}, size : Nat, limit : Int]

\* A stored message.
Envelope == [id : Nat, from : Peers, to : Recipients, ttl : Nat, size : Nat]

Limiters == {"remote", "sender"}

ASSUME GateConstantsOK ==
    /\ Peers \subseteq Recipients
    /\ Inside \subseteq (Recipients \ Peers) \X Recipients   \* a peer id has no slash
    /\ Requests \subseteq Request
    /\ Limit \in Int
    /\ DefaultTTL \in Int
    /\ MaxTTL \in Nat
    /\ MaxMessageSize \in Nat
    /\ FetchLimitMax \in Nat
    /\ {SmallFrame, MessageOverhead, RPCOverhead, RequestWrap, ItemWrap} \subseteq Nat
    /\ ReplyWrap \in Nat \ {0}
    /\ Word \in Nat \ {0}
    /\ MaxMinute \in Nat
    /\ NoTTL \notin Int
    /\ NoRequest \notin Requests

VARIABLES
    pc,         \* where each handler is
    req,        \* its request
    code,       \* the error_code of its answer, OK without one
    page,       \* the messages of its answer
    window,     \* Limiter.windows: minute and count per peer
    box,        \* the store behind the services
    minute,     \* the wall clock; 0 is the zero time of an unused window
    passed      \* history: requests each limiter let pass in this minute

handlerVars == <<pc, req, code, page>>
gateVars == <<handlerVars, window, box, minute, passed>>

Window == [start : Nat, count : Nat]

Codes == {"OK", "RPC_INVALID_REQUEST", "RPC_MISSING_REQUEST_ID", "RPC_UNKNOWN_METHOD",
          "INVALID_PAYLOAD", "INVALID_SIGNATURE", "INVALID_ACK_SIGNATURE", "TTL_TOO_LARGE",
          "MESSAGE_TOO_LARGE", "RECIPIENT_QUOTA_EXCEEDED", "RATE_LIMITED", "UNAUTHORIZED", "INTERNAL_ERROR"}

GateTypeOK ==
    /\ pc \in [Handlers -> {"idle", "limit", "verify", "store", "fetch", "ack", "reply",
                            "reset"}]
    /\ req \in [Handlers -> Requests \cup {NoRequest}]
    /\ code \in [Handlers -> Codes]
    /\ page \in [Handlers -> SUBSET Envelope]
    /\ window \in [Limiters -> [Peers -> Window]]
    /\ box \subseteq Envelope
    /\ minute \in Nat
    /\ passed \in [Limiters -> [Peers -> Nat]]
    /\ \A h \in Handlers : pc[h] # "idle" => req[h] # NoRequest

-----------------------------------------------------------------------------
(* frameLimits, and the check ReadFrame and WriteFrame make.               *)

\* Room for one message, whatever the limit of a fetch.
BadFetchResponse == Max({MaxMessageSize + MessageOverhead, SmallFrame})

\* fetchResponse: room for the largest page.
FetchResponse == Max({MaxMessageSize * FetchLimitMax + MessageOverhead, SmallFrame})

\* The results are cut to 32 bits.
RPCRequest ==
    Max({MaxMessageSize + MessageOverhead + RPCOverhead, SmallFrame + RPCOverhead}) % Word

RPCResponse == (FetchResponse + RPCOverhead) % Word

\* The length is compared as a uint32, also when the frame written is longer.
FrameFits(n, limit) == 0 < n /\ n % Word <= limit

\* The length of an answer.
ReplySize(items) == ReplyWrap + MapThenSumSet(LAMBDA e : e.size + ItemWrap, items)

-----------------------------------------------------------------------------
(* ratelimit.Limiter.                                                      *)

\* The window of p as Allow finds it: a new one in a new minute.
BadCurrent(l, p) == [window[l][p] EXCEPT !.start = minute]

Current(l, p) ==
    IF window[l][p].start = minute THEN window[l][p] ELSE [start |-> minute, count |-> 0]

\* The last request of the minute is not counted.
BadHasRoom(l, p) == Limit <= 0 \/ Current(l, p).count <= Limit

HasRoom(l, p) == Limit <= 0 \/ Current(l, p).count < Limit

\* Allow returns true: the request is counted, unless there is no limit.
Pass(l, p) ==
    /\ HasRoom(l, p)
    /\ window' = IF Limit <= 0 THEN window
                 ELSE [window EXCEPT ![l][p] = [Current(l, p) EXCEPT !.count = @ + 1]]
    /\ passed' = [passed EXCEPT ![l][p] = @ + 1]

\* Allow returns false: a stale window is still replaced by the current one.
Refuse(l, p) ==
    /\ ~HasRoom(l, p)
    /\ window' = [window EXCEPT ![l][p] = Current(l, p)]
    /\ UNCHANGED passed

-----------------------------------------------------------------------------
(* The checks of a request alone, in the order of the code: the first that *)
(* fails decides, c is the code it is answered with.                       *)

EffectiveTTL(q) == IF q.ttl = NoTTL THEN DefaultTTL ELSE q.ttl

RefusedByServer(q, c) ==
    \/ ~q.parses /\ c = "RPC_INVALID_REQUEST"
    \/ q.parses /\ ~q.requestId /\ c = "RPC_MISSING_REQUEST_ID"
    \/ q.parses /\ q.requestId /\ q.method = "unknown" /\ c = "RPC_UNKNOWN_METHOD"

RefusedStore(q, c) ==
    \/ (~q.valid \/ EffectiveTTL(q) <= 0) /\ c = "INVALID_PAYLOAD"
    \/ q.valid /\ EffectiveTTL(q) > MaxTTL /\ c = "TTL_TOO_LARGE"

\* Whoever asks is served.
BadRefusedFetch(q, c) ==
    (~q.valid \/ q.limit <= 0 \/ q.limit > FetchLimitMax) /\ c = "INVALID_PAYLOAD"

RefusedFetch(q, c) ==
    LET bad == ~q.valid \/ q.limit <= 0 \/ q.limit > FetchLimitMax
    IN \/ bad /\ c = "INVALID_PAYLOAD"
       \/ ~bad /\ q.remote # q.to /\ c = "UNAUTHORIZED"

RefusedAck(q, c) ==
    \/ ~q.valid /\ c = "INVALID_PAYLOAD"
    \/ q.valid /\ ~q.signed /\ c = "INVALID_ACK_SIGNATURE"
    \/ q.valid /\ q.signed /\ q.remote # q.to /\ c = "UNAUTHORIZED"

RefusedAtOnce(q, c) ==
    \/ RefusedByServer(q, c)
    \/ /\ q.parses /\ q.requestId
       /\ \/ q.method = "offline.store" /\ RefusedStore(q, c)
          \/ q.method = "offline.fetch" /\ RefusedFetch(q, c)
          \/ q.method = "offline.ack" /\ RefusedAck(q, c)

-----------------------------------------------------------------------------
(* The handlers.                                                           *)

Goto(h, where) == pc' = [pc EXCEPT ![h] = where]

\* The answer is ready to be written.
Answer(h, c, items) ==
    /\ Goto(h, "reply")
    /\ code' = [code EXCEPT ![h] = c]
    /\ page' = [page EXCEPT ![h] = items]

\* Where a request that passes the checks above goes.
FirstStep(q) ==
    CASE q.method = "offline.store" -> "limit"
      [] q.method = "offline.fetch" -> "fetch"
      [] OTHER -> "ack"

\* HandleRPC up to the first step that meets another goroutine.  A frame of no
\* or too great a length ends the stream without an answer.  (So does one that
\* does not arrive in time, which leaves no trace.)
HandleRPC(h, q) ==
    /\ pc[h] = "idle"
    /\ req' = [req EXCEPT ![h] = q]
    /\ \/ ~FrameFits(q.frame, RPCRequest) /\ Goto(h, "reset") /\ UNCHANGED <<code, page>>
       \/ FrameFits(q.frame, RPCRequest) /\ \E c \in Codes : RefusedAtOnce(q, c) /\ Answer(h, c, {})
       \/ /\ FrameFits(q.frame, RPCRequest)
          /\ \A c \in Codes : ~RefusedAtOnce(q, c)
          /\ Goto(h, FirstStep(q))
          /\ UNCHANGED <<code, page>>
    /\ UNCHANGED <<window, box, minute, passed>>

\* StoreService.Handle: the remote peer is charged before anything else is
\* known about the message.
AllowRemote(h) ==
    /\ pc[h] = "limit"
    /\ \/ Pass("remote", req[h].remote) /\ Goto(h, "verify") /\ UNCHANGED <<code, page>>
       \/ Refuse("remote", req[h].remote) /\ Answer(h, "RATE_LIMITED", {})
    /\ UNCHANGED <<req, box, minute>>

\* What fits into a frame is taken.
BadTooLarge(q) == q.size > MaxMessageSize + MessageOverhead

TooLarge(q) == q.size > MaxMessageSize

\* The sender is charged before its signature is looked at.
BadAllowSender(h) ==
    /\ pc[h] = "verify"
    /\ \/ /\ Pass("sender", req[h].who)
          /\ IF req[h].signed THEN Goto(h, "store") /\ UNCHANGED <<code, page>>
                              ELSE Answer(h, "INVALID_SIGNATURE", {})
       \/ Refuse("sender", req[h].who) /\ Answer(h, "RATE_LIMITED", {})
    /\ UNCHANGED <<req, box, minute>>

\* The signature, the sender's limiter and the size, in this order.  A message
\* that turns out to be too large has been charged.
AllowSender(h) ==
    LET q == req[h]
    IN /\ pc[h] = "verify"
       /\ \/ ~q.signed /\ Answer(h, "INVALID_SIGNATURE", {}) /\ UNCHANGED <<window, passed>>
          \/ q.signed /\ Refuse("sender", q.who) /\ Answer(h, "RATE_LIMITED", {})
          \/ /\ q.signed
             /\ Pass("sender", q.who)
             /\ IF TooLarge(q)
                THEN Answer(h, "MESSAGE_TOO_LARGE", {})
                ELSE Goto(h, "store") /\ UNCHANGED <<code, page>>
       /\ UNCHANGED <<req, box, minute>>

\* An absent ttl_sec is not filled in.
BadStored(q) == [id |-> q.id, from |-> q.who, to |-> q.to, ttl |-> q.ttl, size |-> q.size]

\* The message as it is stored, with the ttl it was given.
Stored(q) ==
    [id |-> q.id, from |-> q.who, to |-> q.to, ttl |-> EffectiveTTL(q), size |-> q.size]

\* StoreMessageWithQuota: a message with this msg_id is there, the message is
\* stored, a quota (of messages or bytes) refuses it, or the call fails.
StoreMessage(h) ==
    LET e == Stored(req[h])
        known == \E x \in box : x.to = e.to /\ x.id = e.id
    IN /\ pc[h] = "store"
       /\ \/ known /\ Answer(h, "OK", {}) /\ UNCHANGED box
          \/ ~known /\ Answer(h, "OK", {}) /\ box' = box \cup {e}
          \/ ~known /\ Answer(h, "RECIPIENT_QUOTA_EXCEEDED", {}) /\ UNCHANGED box
          \/ Answer(h, "INTERNAL_ERROR", {}) /\ UNCHANGED box
       /\ UNCHANGED <<req, window, minute, passed>>

\* Whose messages the keys under msg/p/ hold: those of p, and those stored for
\* an id that goes on after p with a slash.
Under(p) == {r \in Recipients : r = p \/ <<r, p>> \in Inside}

\* What a scan of these keys finds.
BoxOf(p) == {e \in box : e.to \in Under(p)}

\* FetchMessages returns some of what it finds there, at most limit, as
\* after_seq and their expiry have it.  (MarkDelivered, which follows, moves a
\* frontier the box does not have; its failure is not answered.)
FetchMessages(h) ==
    /\ pc[h] = "fetch"
    /\ \/ \E items \in SUBSET BoxOf(req[h].to) :
             Cardinality(items) <= req[h].limit /\ Answer(h, "OK", items)
       \/ Answer(h, "INTERNAL_ERROR", {})
    /\ UNCHANGED <<req, window, box, minute, passed>>

\* AckMessages scans the same keys and fails at one that parseMsgKey refuses, as
\* it does every key of another id.
OwnMessages(p) == {e \in BoxOf(p) : e.to = p}

\* It deletes some of the recipient's messages, also when it fails half-way, or
\* refuses an ack_seq beyond the delivered frontier.
AckMessages(h) ==
    /\ pc[h] = "ack"
    /\ \/ \E gone \in SUBSET OwnMessages(req[h].to), c \in {"OK", "INTERNAL_ERROR"} :
             box' = box \ gone /\ Answer(h, c, {})
       \/ Answer(h, "INVALID_PAYLOAD", {}) /\ UNCHANGED box
    /\ UNCHANGED <<req, window, minute, passed>>

\* The goroutine returns.
Return(h) ==
    /\ Goto(h, "idle")
    /\ req' = [req EXCEPT ![h] = NoRequest]
    /\ code' = [code EXCEPT ![h] = "OK"]
    /\ page' = [page EXCEPT ![h] = {}]
    /\ UNCHANGED <<window, box, minute, passed>>

\* writeRPC: an answer that is too long resets the stream.
WriteRPC(h) ==
    /\ pc[h] = "reply"
    /\ IF FrameFits(ReplySize(page[h]), RPCResponse)
       THEN Return(h)
       ELSE Goto(h, "reset") /\ UNCHANGED <<req, code, page, window, box, minute, passed>>

\* resetStream: after a frame of a wrong length, or when the peer is gone or too
\* slow to take the answer.
ResetStream(h) ==
    /\ pc[h] \in {"reply", "reset"}
    /\ Return(h)

\* The collector removes a message that has expired.
Expire(e) ==
    /\ e \in box
    /\ box' = box \ {e}
    /\ UNCHANGED <<handlerVars, window, minute, passed>>

\* The next minute begins.
NextMinute ==
    /\ minute < MaxMinute
    /\ minute' = minute + 1
    /\ passed' = [l \in Limiters |-> [p \in Peers |-> 0]]
    /\ UNCHANGED <<handlerVars, window, box>>

\* Handlers and limiters are gone with the process and begin afresh.
Restart ==
    /\ pc' = [h \in Handlers |-> "idle"]
    /\ req' = [h \in Handlers |-> NoRequest]
    /\ code' = [h \in Handlers |-> "OK"]
    /\ page' = [h \in Handlers |-> {}]
    /\ window' = [l \in Limiters |-> [p \in Peers |-> [start |-> 0, count |-> 0]]]
    /\ passed' = [l \in Limiters |-> [p \in Peers |-> 0]]
    /\ UNCHANGED <<box, minute>>

GateInit ==
    /\ pc = [h \in Handlers |-> "idle"]
    /\ req = [h \in Handlers |-> NoRequest]
    /\ code = [h \in Handlers |-> "OK"]
    /\ page = [h \in Handlers |-> {}]
    /\ window = [l \in Limiters |-> [p \in Peers |-> [start |-> 0, count |-> 0]]]
    /\ passed = [l \in Limiters |-> [p \in Peers |-> 0]]
    /\ box = {}
    /\ minute = 1

\* The steps of a request that is being served.
ServeStep(h) ==
    \/ AllowRemote(h)
    \/ AllowSender(h)
    \/ StoreMessage(h)
    \/ FetchMessages(h)
    \/ AckMessages(h)
    \/ WriteRPC(h)
    \/ ResetStream(h)

GateNext ==
    \/ \E h \in Handlers : ServeStep(h) \/ \E q \in Requests : HandleRPC(h, q)
    \/ \E e \in box : Expire(e)
    \/ NextMinute
    \/ Restart

GateSpec == GateInit /\ [][GateNext]_gateVars

-----------------------------------------------------------------------------
(* Properties.                                                             *)

\* No limiter lets more than Limit requests of a peer pass within one minute of
\* the wall clock, however handlers interleave and wherever in a request the
\* minute ends (limiter.go:45).
BudgetKept == Limit > 0 => \A l \in Limiters, p \in Peers : passed[l][p] <= Limit

\* A request is refused as RATE_LIMITED only when the peer's requests of this
\* very minute have used up the limit: nothing is carried over a boundary that
\* falls between the two limiters or while others are served.
RefusedOnlyWhenSpent ==
    [][\A h \in Handlers : code[h] # "RATE_LIMITED" /\ code'[h] = "RATE_LIMITED" =>
          \/ pc[h] = "limit" /\ passed["remote"][req[h].remote] = Limit
          \/ pc[h] = "verify" /\ passed["sender"][req[h].who] = Limit]_gateVars

\* A sender's minute is spent only by requests the sender signed, whoever
\* forwards them: Handle verifies before it charges (store_service.go:92).
SendersPayForTheirOwn ==
    [][\A p \in Peers : passed'["sender"][p] > passed["sender"][p] =>
          \E h \in Handlers : pc[h] = "verify" /\ req[h].who = p /\ req[h].signed]_gateVars

\* Whatever is stored came in a request that its sender signed, with a ttl and
\* a size within the limits, also when the ttl was filled in by the node.
StoredIsVouchedFor ==
    \A e \in box :
        /\ 0 < e.ttl /\ e.ttl <= MaxTTL
        /\ e.size <= MaxMessageSize
        /\ \E q \in Requests : q.valid /\ q.signed /\ Stored(q) = e

\* Whatever a page holds, over a connection the peer has authenticated, was stored
\* under that peer's key prefix: for the peer itself or for an id that goes on
\* after the peer's with a slash, and never for another peer (fetch_service.go:33,
\* fetch.go:22).
PagesStayUnderRecipient ==
    \A h \in Handlers : \A e \in page[h] : e.to \in Under(req[h].remote)

\* A request within the limits whose frame is not longer than its message needs.
WithinLimits(q) ==
    /\ 0 < q.frame
    /\ IF q.method = "offline.store"
       THEN q.size <= MaxMessageSize /\ q.frame <= q.size + RequestWrap
       ELSE q.frame <= SmallFrame

\* The configuration leaves room for what JSON adds, and nothing wraps.
FramesAreSound ==
    /\ RequestWrap <= MessageOverhead + RPCOverhead
    /\ ItemWrap * FetchLimitMax + ReplyWrap <= MessageOverhead + RPCOverhead
    /\ Max({MaxMessageSize * FetchLimitMax + MessageOverhead, SmallFrame}) + RPCOverhead < Word
    /\ Max({MaxMessageSize + MessageOverhead, SmallFrame}) + RPCOverhead < Word

\* With sound frame limits no stream of a request within the limits is reset
\* for its length: every message that is accepted fits into a request, and every
\* page of them, of the largest size and number, into a response.  (Otherwise a
\* fetch marks messages as delivered that its client can never receive.)
FramesSuffice ==
    FramesAreSound => \A h \in Handlers : pc[h] = "reset" => ~WithinLimits(req[h])

-----------------------------------------------------------------------------
(* The inductive invariant.                                                *)

\* With a limit, a limiter's count is that of the requests it let pass in this
\* minute, whatever is left of earlier ones; none has been seen in the future.
WindowsAgree ==
    Limit > 0 => \A l \in Limiters, p \in Peers :
                    /\ window[l][p].start <= minute
                    /\ Current(l, p).count = passed[l][p]
                    /\ passed[l][p] <= Limit

\* The checks that a request has behind it at each point of its handler.
Checked(q) == \A c \in Codes : ~RefusedAtOnce(q, c)

ProgressOK ==
    \A h \in Handlers :
        /\ pc[h] \in {"limit", "verify", "store"} =>
              Checked(req[h]) /\ req[h].method = "offline.store"
        /\ pc[h] = "store" => req[h].signed /\ ~TooLarge(req[h])
        /\ pc[h] = "fetch" => Checked(req[h]) /\ req[h].method = "offline.fetch"

\* A page is of a size the fetch service lets through and holds what was stored.
PagesOK ==
    \A h \in Handlers :
        /\ pc[h] \notin {"reply", "reset"} => page[h] = {}
        /\ IsFiniteSet(page[h]) /\ Cardinality(page[h]) <= FetchLimitMax
        /\ \A e \in page[h] : e.size <= MaxMessageSize

GateInv ==
    /\ GateTypeOK
    /\ IsFiniteSet(box)
    /\ WindowsAgree
    /\ ProgressOK
    /\ PagesOK
    /\ PagesStayUnderRecipient
    /\ StoredIsVouchedFor
    /\ FramesSuffice
==============================================================================
