---------------------------- MODULE PublicChannel ----------------------------
(***************************************************************************)
(* One public channel of the node: internal/publicchannel (the SQLite      *)
(* tables, Push and the read methods), driven by concurrent RPC handlers,  *)
(* and the subscribers that page through sync_channel as the integration   *)
(* document tells them to.                                                 *)
(*                                                                         *)
(* The pool has a single connection (SetMaxOpenConns(1)).  A transaction   *)
(* keeps it from BeginTx to Commit or Rollback, every other statement      *)
(* waits for it, and a statement outside a transaction is one step.  Push  *)
(* reads the old channel row with such a statement, before its             *)
(* transaction begins.                                                     *)
(*                                                                         *)
(* Channels share nothing but the connection, so one is modelled.  Column  *)
(* values that are only copied (names, texts, times, is_deleted) are left  *)
(* out.                                                                    *)
(***************************************************************************)
EXTENDS Integers, Sequences, FiniteSets

CONSTANTS
    Pushers,        \* goroutines serving public_channel.push
    Readers,        \* subscribers, each with a goroutine serving its requests
    Peers,          \* peer ids
    Pushes,         \* the push requests that may arrive, any number of times
    PageLimit,      \* limit of a page, after the code's defaulting
    MaxId,          \* bound: message ids
    MaxSeq,         \* bound: sequence numbers
    MaxFaults,      \* bound: crashes
    NoRow,          \* a row that does not exist
    NoHolder        \* the connection is free

Ids == 1..MaxId
Seqs == 0..MaxSeq

Message == [id : Ids, ver : Nat, seq : Seqs]

\* A row of public_channel_messages, without its key.
MessageRow == [ver : Nat, seq : Seqs]

\* A row of public_channel_changes; 0 stands for NULL.
ChangeRow == [kind : {"message", "profile"}, id : {0} \cup Ids, ver : Nat, pv : Nat]

ChannelRow == [owner : Peers, pv : Nat, lastId : Nat, lastSeq : Seqs]

\* An element of push.changes; ours: its channel_id is empty or this channel's.
Extra == [seq : Seqs, row : ChangeRow, ours : BOOLEAN]

\* valid: ids, versions, authors and signatures of profile, head and messages
\* pass the checks that depend on nothing but the request.
Push == [peer : Peers, owner : Peers, headOwner : Peers, valid : BOOLEAN, pv : Nat,
         lastId : Nat, lastSeq : Seqs, messages : Seq(Message), changes : Seq(Extra)]

ASSUME ChannelConstantsOK ==
    /\ Pushes \subseteq Push
    /\ PageLimit \in Nat \ {0}
    /\ MaxId \in Nat
    /\ MaxSeq \in Nat
    /\ MaxFaults \in Nat
    /\ NoRow \notin MessageRow \cup ChangeRow \cup ChannelRow \cup Push
    /\ NoHolder \notin Pushers

VARIABLES
    \* The committed tables.
    channel,        \* the row of public_channels
    messages,       \* public_channel_messages, by message_id
    changes,        \* public_channel_changes, by seq
    \* The connection and the tables as its open transaction sees them.
    conn,
    txChannel, txMessages, txChanges,
    \* The goroutines.
    pc,             \* where each Push is
    req,            \* its request
    oldPV,          \* old.ProfileVersion, 0 without an old row
    done,           \* messages, then changes, already written
    readLast,       \* the last_seq a SyncChanges has read, NoRow outside one
    \* The subscribers and the environment.
    cursor,         \* the after_seq of the next request
    seen,           \* the change rows received, by seq
    upTo,           \* current_last_seq of the last answer, 0 if it had has_more
    before,         \* before_message_id of the next list_messages, 0 if absent
    listed,         \* the last answer to list_messages
    faults,
    \* History, read by no action.
    owners          \* the peers that have owned the channel

tables == <<channel, messages, changes>>
txVars == <<conn, txChannel, txMessages, txChanges>>
pushVars == <<pc, req, oldPV, done>>
readVars == <<readLast, cursor, seen, upTo, before, listed>>
vars == <<tables, txVars, pushVars, readVars, faults, owners>>

MessageTable == [Ids -> MessageRow \cup {NoRow}]
ChangeTable == [Seqs -> ChangeRow \cup {NoRow}]

TypeOK ==
    /\ channel \in ChannelRow \cup {NoRow}
    /\ messages \in MessageTable
    /\ changes \in ChangeTable
    /\ conn \in Pushers \cup {NoHolder}
    /\ txChannel \in ChannelRow \cup {NoRow}
    /\ txMessages \in MessageTable
    /\ txChanges \in ChangeTable
    /\ pc \in [Pushers -> {"idle", "checked", "messages", "changes"}]
    /\ req \in [Pushers -> Pushes \cup {NoRow}]
    /\ oldPV \in [Pushers -> Nat]
    /\ done \in [Pushers -> Nat]
    /\ readLast \in [Readers -> Seqs \cup {NoRow}]
    /\ cursor \in [Readers -> Seqs]
    /\ seen \in [Readers -> ChangeTable]
    /\ upTo \in [Readers -> Seqs]
    /\ before \in [Readers -> {0} \cup Ids]
    /\ listed \in [Readers -> {"none", "page", "not_found"}]
    /\ faults \in Nat
    /\ owners \subseteq Peers
    \* the connection is held by the Push that is inside its transaction
    /\ \A p \in Pushers : pc[p] \in {"messages", "changes"} <=> conn = p

Free == conn = NoHolder

-----------------------------------------------------------------------------
(* Push, before its transaction.                                           *)

\* The checks of the request alone: only the owner pushes.
Acceptable(q) == q.valid /\ q.peer = q.owner

\* The stored head is not consulted.
BadNotStale(q) == channel # NoRow => q.headOwner = channel.owner

\* Any peer may take the channel on.
BadSameOwner(q) == channel # NoRow => q.lastSeq >= channel.lastSeq

NotStale(q) ==
    channel # NoRow => q.lastSeq >= channel.lastSeq /\ q.headOwner = channel.owner

BadWithinHead(q) == \A i \in DOMAIN q.messages : q.messages[i].id <= q.lastId

WithinHead(q) ==
    \A i \in DOMAIN q.messages :
        q.messages[i].seq <= q.lastSeq /\ q.messages[i].id <= q.lastId

\* A push that fails one of these checks is answered with an error and changes
\* nothing, so only the others are steps.
PushCheck(p, q) ==
    /\ pc[p] = "idle"
    /\ Acceptable(q)
    /\ Free
    /\ NotStale(q)
    /\ WithinHead(q)
    /\ pc' = [pc EXCEPT ![p] = "checked"]
    /\ req' = [req EXCEPT ![p] = q]
    /\ oldPV' = [oldPV EXCEPT ![p] = IF channel = NoRow THEN 0 ELSE channel.pv]
    /\ UNCHANGED <<tables, txVars, done, readVars, faults, owners>>

-----------------------------------------------------------------------------
(* Push, inside its transaction.                                           *)

\* The goroutine returns.
Forget(p) ==
    /\ pc' = [pc EXCEPT ![p] = "idle"]
    /\ req' = [req EXCEPT ![p] = NoRow]
    /\ oldPV' = [oldPV EXCEPT ![p] = 0]
    /\ done' = [done EXCEPT ![p] = 0]

\* upsertChannel: every column that is kept here comes from the request.
Upserted(q) == [owner |-> q.owner, pv |-> q.pv, lastId |-> q.lastId, lastSeq |-> q.lastSeq]

\* BeginTx gets the connection; the channel row is written first.
PushBegin(p) ==
    /\ pc[p] = "checked"
    /\ Free
    /\ conn' = p
    /\ txChannel' = Upserted(req[p])
    /\ txMessages' = messages
    /\ txChanges' = changes
    /\ pc' = [pc EXCEPT ![p] = "messages"]
    /\ UNCHANGED <<tables, req, oldPV, done, readVars, faults, owners>>

\* A newer version is not asked for.
BadSupersedes(m, prev) == prev # NoRow => m.seq >= prev.seq

\* m may replace the stored version prev of the same message.
Supersedes(m, prev) ==
    prev # NoRow => m.ver > prev.ver \/ (m.ver = prev.ver /\ m.seq >= prev.seq)

\* UNIQUE(channel_db_id, seq) once the old row of m is deleted.
SeqIsFree(m) ==
    \A id \in Ids : id # m.id /\ txMessages[id] # NoRow => txMessages[id].seq # m.seq

\* ON CONFLICT of a message's change leaves profile_version as it was.
MessageChange(m, row) ==
    [kind |-> "message", id |-> m.id, ver |-> m.ver,
     pv |-> IF row = NoRow THEN 0 ELSE row.pv]

PushMessage(p) ==
    LET m == req[p].messages[done[p] + 1]
    IN /\ pc[p] = "messages"
       /\ done[p] < Len(req[p].messages)
       /\ Supersedes(m, txMessages[m.id])
       /\ SeqIsFree(m)
       /\ txMessages' = [txMessages EXCEPT ![m.id] = [ver |-> m.ver, seq |-> m.seq]]
       /\ txChanges' = [txChanges EXCEPT ![m.seq] = MessageChange(m, txChanges[m.seq])]
       /\ done' = [done EXCEPT ![p] = @ + 1]
       /\ UNCHANGED <<tables, conn, txChannel, pc, req, oldPV, readVars, faults, owners>>

\* The row is replaced as a whole.
BadProfileChange(pv, row) == [kind |-> "profile", id |-> 0, ver |-> 0, pv |-> pv]

\* ON CONFLICT of a profile change leaves message_id and version as they were.
ProfileChange(pv, row) ==
    [kind |-> "profile", pv |-> pv,
     id |-> IF row = NoRow THEN 0 ELSE row.id,
     ver |-> IF row = NoRow THEN 0 ELSE row.ver]

\* After the messages: a push of nothing but a newer profile is given a change
\* of its own, at the head's last_seq.
PushProfile(p) ==
    LET q == req[p]
        s == q.lastSeq
    IN /\ pc[p] = "messages"
       /\ done[p] = Len(q.messages)
       /\ IF q.pv > oldPV[p] /\ q.messages = <<>> /\ q.changes = <<>>
          THEN txChanges' = [txChanges EXCEPT ![s] = ProfileChange(q.pv, txChanges[s])]
          ELSE UNCHANGED txChanges
       /\ pc' = [pc EXCEPT ![p] = "changes"]
       /\ done' = [done EXCEPT ![p] = 0]
       /\ UNCHANGED <<tables, conn, txChannel, txMessages, req, oldPV, readVars, faults, owners>>

\* One of push.changes replaces the row of its seq.
PushChange(p) ==
    LET e == req[p].changes[done[p] + 1]
    IN /\ pc[p] = "changes"
       /\ done[p] < Len(req[p].changes)
       /\ e.ours
       /\ txChanges' = [txChanges EXCEPT ![e.seq] = e.row]
       /\ done' = [done EXCEPT ![p] = @ + 1]
       /\ UNCHANGED <<tables, conn, txChannel, txMessages, pc, req, oldPV, readVars, faults, owners>>

\* The connection goes back to the pool.
EndTx ==
    /\ conn' = NoHolder
    /\ txChannel' = NoRow
    /\ txMessages' = [id \in Ids |-> NoRow]
    /\ txChanges' = [s \in Seqs |-> NoRow]

PushCommit(p) ==
    /\ pc[p] = "changes"
    /\ done[p] = Len(req[p].changes)
    /\ channel' = txChannel
    /\ messages' = txMessages
    /\ changes' = txChanges
    /\ owners' = owners \cup {txChannel.owner}
    /\ EndTx
    /\ Forget(p)
    /\ UNCHANGED <<readVars, faults>>

\* The deferred Rollback is missing: the connection is never given back.
BadRollback(p) ==
    /\ pc[p] \in {"messages", "changes"}
    /\ Forget(p)
    /\ UNCHANGED <<tables, txVars, readVars, faults, owners>>

\* What was written before the error is committed.
BadRollbackKeeps(p) ==
    /\ pc[p] \in {"messages", "changes"}
    /\ channel' = txChannel
    /\ messages' = txMessages
    /\ changes' = txChanges
    /\ owners' = owners \cup {txChannel.owner}
    /\ EndTx
    /\ Forget(p)
    /\ UNCHANGED <<readVars, faults>>

\* A message is stale, its seq is taken, a change names another channel, or
\* the database or the deadline stops the transaction.
PushRollback(p) ==
    /\ pc[p] \in {"messages", "changes"}
    /\ EndTx
    /\ Forget(p)
    /\ UNCHANGED <<tables, readVars, faults, owners>>

\* The deadline passes before BeginTx has the connection.
PushTimesOut(p) ==
    /\ pc[p] = "checked"
    /\ Forget(p)
    /\ UNCHANGED <<tables, txVars, readVars, faults, owners>>

-----------------------------------------------------------------------------
(* The readers.  get_profile, get_head and get_message only copy rows.     *)

\* What LIMIT k leaves of the numbers in S, in ascending order.
FirstN(S, k) == {s \in S : Cardinality({x \in S : x < s}) < k}

\* SyncChanges, first statement: the channel row (no row: NOT_FOUND).
SyncHead(rd) ==
    /\ readLast[rd] = NoRow
    /\ Free
    /\ channel # NoRow
    /\ readLast' = [readLast EXCEPT ![rd] = channel.lastSeq]
    /\ UNCHANGED <<tables, txVars, pushVars, cursor, seen, upTo, before, listed, faults, owners>>

\* Rows are asked for from next_after_seq + 1, as if it named the next one.
BadAbove(s, rd) == s > cursor[rd] + 1

Above(s, rd) == s > cursor[rd]

\* The query ends with the page, so it never sees more.
BadHasMore(found) == Cardinality(FirstN(found, PageLimit)) > PageLimit

\* The query asks for one row more than the page has.
HasMore(found) == Cardinality(FirstN(found, PageLimit + 1)) > PageLimit

\* Second statement: one page above after_seq.  The subscriber keeps the rows
\* and continues from next_after_seq.
SyncItems(rd) ==
    LET found == {s \in Seqs : changes[s] # NoRow /\ Above(s, rd)}
        page == FirstN(found, PageLimit)
    IN /\ readLast[rd] # NoRow
       /\ Free
       /\ \E next \in page \cup {cursor[rd]} :
             /\ \A s \in page : s <= next
             /\ page # {} => next \in page
             /\ cursor' = [cursor EXCEPT ![rd] = next]
       /\ upTo' = [upTo EXCEPT ![rd] = IF HasMore(found) THEN 0 ELSE readLast[rd]]
       /\ seen' = [seen EXCEPT ![rd] = [s \in Seqs |-> IF s \in page THEN changes[s] ELSE @[s]]]
       /\ readLast' = [readLast EXCEPT ![rd] = NoRow]
       /\ UNCHANGED <<tables, txVars, pushVars, before, listed, faults, owners>>

\* ListMessages and the service's answer: the newest PageLimit messages below
\* before_message_id.  The row id read first never changes, so the second
\* statement decides; an empty page is a nil slice, and that is answered as
\* NOT_FOUND.  A reader goes on below the last message it got.
ListMessages(rd) ==
    LET below == {id \in Ids : messages[id] # NoRow /\ (before[rd] # 0 => id < before[rd])}
        page == {id \in below : Cardinality({x \in below : x > id}) < PageLimit}
    IN /\ Free
       /\ IF channel = NoRow \/ page = {}
          THEN /\ listed' = [listed EXCEPT ![rd] = "not_found"]
               /\ before' = [before EXCEPT ![rd] = 0]
          ELSE /\ listed' = [listed EXCEPT ![rd] = "page"]
               /\ \E low \in page : /\ \A id \in page : low <= id
                                    /\ before' = [before EXCEPT ![rd] = low]
       /\ UNCHANGED <<tables, txVars, pushVars, readLast, cursor, seen, upTo, faults, owners>>

-----------------------------------------------------------------------------

\* The process dies and is started again; the subscribers keep what they have.
Crash ==
    /\ faults < MaxFaults
    /\ faults' = faults + 1
    /\ EndTx
    /\ pc' = [p \in Pushers |-> "idle"]
    /\ req' = [p \in Pushers |-> NoRow]
    /\ oldPV' = [p \in Pushers |-> 0]
    /\ done' = [p \in Pushers |-> 0]
    /\ readLast' = [rd \in Readers |-> NoRow]
    /\ UNCHANGED <<tables, cursor, seen, upTo, before, listed, owners>>

Init ==
    /\ channel = NoRow
    /\ messages = [id \in Ids |-> NoRow]
    /\ changes = [s \in Seqs |-> NoRow]
    /\ conn = NoHolder
    /\ txChannel = NoRow
    /\ txMessages = [id \in Ids |-> NoRow]
    /\ txChanges = [s \in Seqs |-> NoRow]
    /\ pc = [p \in Pushers |-> "idle"]
    /\ req = [p \in Pushers |-> NoRow]
    /\ oldPV = [p \in Pushers |-> 0]
    /\ done = [p \in Pushers |-> 0]
    /\ readLast = [rd \in Readers |-> NoRow]
    /\ cursor = [rd \in Readers |-> 0]
    /\ seen = [rd \in Readers |-> [s \in Seqs |-> NoRow]]
    /\ upTo = [rd \in Readers |-> 0]
    /\ before = [rd \in Readers |-> 0]
    /\ listed = [rd \in Readers |-> "none"]
    /\ faults = 0
    /\ owners = {}

\* The steps of an open transaction.
TxStep(p) ==
    \/ PushMessage(p)
    \/ PushProfile(p)
    \/ PushChange(p)
    \/ PushCommit(p)
    \/ PushRollback(p)

Next ==
    \/ \E p \in Pushers : \/ \E q \in Pushes : PushCheck(p, q)
                          \/ PushBegin(p)
                          \/ TxStep(p)
                          \/ PushTimesOut(p)
    \/ \E rd \in Readers : SyncHead(rd) \/ SyncItems(rd) \/ ListMessages(rd)
    \/ Crash

Spec == Init /\ [][Next]_vars

\* A goroutine that can run does run.  A released connection is handed to one of
\* those that wait for it; database/sql promises no order among them, and it is
\* assumed that none is passed over for ever, hence strong fairness.  A subscriber
\* keeps polling.  Nothing is assumed about pushes or faults.
Fairness ==
    /\ \A p \in Pushers : /\ SF_vars(PushBegin(p))
                          /\ WF_vars(TxStep(p))
    /\ \A rd \in Readers : SF_vars(SyncHead(rd)) /\ SF_vars(SyncItems(rd))

LiveSpec == Spec /\ Fairness

-----------------------------------------------------------------------------
(* Properties that hold whatever is pushed and however pushes interleave.  *)

\* Without push.changes, the change row at the seq of a stored message names
\* that message and its version, whatever profile changes share the row: a
\* subscriber that reads the rows learns of every message.
MessagesIndexed ==
    (\A q \in Pushes : q.changes = <<>>) =>
        \A id \in Ids : messages[id] # NoRow =>
            LET row == changes[messages[id].seq]
            IN row # NoRow /\ row.id = id /\ row.ver = messages[id].ver

\* The version of a stored message never falls, nor its seq within a version,
\* and it never disappears: the check is made inside the transaction.
VersionsNeverRegress ==
    [][\A id \in Ids : messages[id] # NoRow =>
          LET old == messages[id]
              new == messages'[id]
          IN /\ new # NoRow
             /\ new.ver > old.ver \/ (new.ver = old.ver /\ new.seq >= old.seq)]_vars

\* The tables change only as a whole: a step that changes them leaves the head
\* of one push together with all its messages, whatever failed before.
PushIsAtomic ==
    [][tables' # tables =>
          \E p \in Pushers :
             /\ req[p] # NoRow
             /\ channel' = Upserted(req[p])
             /\ \A i \in DOMAIN req[p].messages :
                   LET m == req[p].messages[i]
                   IN messages'[m.id] # NoRow /\ messages'[m.id].ver >= m.ver]_vars

\* Every push ends, also when it fails half-way or waits for another's transaction.
EveryPushEnds == \A p \in Pushers : pc[p] # "idle" ~> pc[p] = "idle"

-----------------------------------------------------------------------------
(* Properties of a channel whose pushes are served one at a time.  With    *)
(* two at a time none of them holds: an old push checked before a newer    *)
(* one commits is written after it, also behind a subscriber's cursor.     *)

\* head.last_seq does not fall.
HeadNeverRegresses ==
    [][channel # NoRow =>
          /\ channel' # NoRow
          /\ channel'.lastSeq >= channel.lastSeq]_vars

\* The channel passes to another peer only by a push of that peer itself, and only
\* with a head that names the owner so far.  (The code compares the sender with the
\* profile's owner and the stored owner with the head's, not these with each other.)
OwnerChangesOnlyByHead ==
    [][channel # NoRow /\ channel'.owner # channel.owner =>
          \E p \in Pushers : /\ req[p] # NoRow
                             /\ req[p].peer = channel'.owner
                             /\ req[p].headOwner = channel.owner]_vars

\* No stored message lies beyond the head that is served.
MessagesWithinHead ==
    \A id \in Ids : messages[id] # NoRow => messages[id].seq <= channel.lastSeq

\* The channel has had one owner so far, or none.
OneOwner == \A a, b \in owners : a = b

\* When its owner gives every seq one meaning, and as long as the channel stays
\* with it, a subscriber that follows next_after_seq has every row up to its
\* cursor as it is stored: nothing is written behind its back.
SubscribersMissNothing ==
    OneOwner =>
        \A rd \in Readers : \A s \in Seqs :
            0 < s /\ s <= cursor[rd] => seen[rd][s] = changes[s]

\* A subscriber that stops at an answer without has_more has every change up to
\* the current_last_seq of that answer, although SyncChanges reads the two in
\* separate statements and pushes commit in between: the head is read first.
SyncEndsComplete ==
    OneOwner =>
        \A rd \in Readers, s \in Seqs : cursor[rd] < s /\ s <= upTo[rd] => changes[s] = NoRow

\* Every change of such a channel reaches every subscriber, page by page.
SubscribersCatchUp ==
    \A rd \in Readers, s \in Seqs :
        changes[s] # NoRow /\ s > 0 ~> seen[rd][s] = changes[s] \/ ~OneOwner

-----------------------------------------------------------------------------
(* The inductive invariant: what an open transaction has done so far.      *)

\* The rows of new supersede, or are, those of old.
Follows(old, new) ==
    \A id \in Ids : old[id] # NoRow =>
        /\ new[id] # NoRow
        /\ \/ new[id].ver > old[id].ver
           \/ new[id].ver = old[id].ver /\ new[id].seq >= old[id].seq

\* The transaction's tables hold m or a newer version of it.
Written(m) == txMessages[m.id] # NoRow /\ txMessages[m.id].ver >= m.ver

\* A push that has begun has its request; inside its transaction the channel
\* row is the request's, nothing stored has gone back, and the messages counted
\* by done are written.
PushOK(p) ==
    /\ pc[p] # "idle" => req[p] # NoRow
    /\ pc[p] \in {"idle", "checked"} => done[p] = 0
    /\ pc[p] \in {"messages", "changes"} =>
          /\ txChannel = Upserted(req[p])
          /\ Follows(messages, txMessages)
          /\ \A i \in DOMAIN req[p].messages :
                pc[p] = "changes" \/ i <= done[p] => Written(req[p].messages[i])

\* Every message is named by the change row at its seq.
Indexed(rows, log) ==
    \A id \in Ids : rows[id] # NoRow =>
        /\ log[rows[id].seq] # NoRow
        /\ log[rows[id].seq].id = id
        /\ log[rows[id].seq].ver = rows[id].ver

ChannelInv ==
    /\ TypeOK
    /\ \A p \in Pushers : PushOK(p)
    /\ (\A q \in Pushes : q.changes = <<>>) =>
          Indexed(messages, changes) /\ Indexed(txMessages, txChanges)

\* With one push at a time: what PushCheck found still holds when it commits,
\* and no message lies beyond the head of its own tables.
HeadInv ==
    /\ \A p \in Pushers : pc[p] # "idle" =>
          Acceptable(req[p]) /\ NotStale(req[p]) /\ WithinHead(req[p])
    /\ \A id \in Ids : messages[id] # NoRow =>
          channel # NoRow /\ messages[id].seq <= channel.lastSeq
    /\ conn # NoHolder =>
          \A id \in Ids : txMessages[id] # NoRow => txMessages[id].seq <= txChannel.lastSeq

-----------------------------------------------------------------------------
(* The subscribers of an orderly owner.                                    *)

\* A request that may be committed in some state, in terms of the request alone.
CanCommit(q) ==
    /\ q.valid /\ q.peer = q.owner
    /\ \A i \in DOMAIN q.messages : q.messages[i].seq <= q.lastSeq /\ q.messages[i].id <= q.lastId
    /\ \A i \in DOMAIN q.changes : q.changes[i].ours

\* The rows of the change log that a push may write.
SeqsOf(q) ==
    {q.messages[i].seq : i \in DOMAIN q.messages} \cup {q.changes[i].seq : i \in DOMAIN q.changes}
        \cup {s \in {q.lastSeq} : q.messages = <<>> /\ q.changes = <<>>}

\* An owner gives every seq one meaning: a push writes a row once and none beyond its
\* head, no two pushes have one head, and a later head's rows are above the earlier.
\* It is asked of each peer's pushes by themselves; which head goes with whose
\* profile, faulty requests, and what is lost, repeated or late is free.
OrderlyOwner ==
    \A q \in Pushes : CanCommit(q) =>
        /\ \A i, j \in DOMAIN q.messages : i # j => q.messages[i].seq # q.messages[j].seq
        /\ \A i, j \in DOMAIN q.changes : i # j => q.changes[i].seq # q.changes[j].seq
        /\ \A i \in DOMAIN q.messages, j \in DOMAIN q.changes : q.messages[i].seq # q.changes[j].seq
        /\ \A s \in SeqsOf(q) : s <= q.lastSeq
        /\ \A r \in Pushes : CanCommit(r) /\ r.owner = q.owner =>
              /\ r.lastSeq = q.lastSeq => r = q
              /\ r.lastSeq < q.lastSeq => \A s \in SeqsOf(q) : s > r.lastSeq

\* The row of m's seq names m.
Names(row, m) == row # NoRow /\ row.kind = "message" /\ row.id = m.id /\ row.ver = m.ver

\* The log has the first n messages and the first k changes of q.
Reflects(log, q, n, k) ==
    /\ \A i \in DOMAIN q.messages : i <= n => Names(log[q.messages[i].seq], q.messages[i])
    /\ \A i \in DOMAIN q.changes : i <= k => log[q.changes[i].seq] = q.changes[i].row

\* A push writes its own rows only, and none that differs when it is repeated.
TxAdds(p) ==
    LET q == req[p]
    IN /\ pc[p] # "idle" =>
             Acceptable(q) /\ oldPV[p] = IF channel = NoRow THEN 0 ELSE channel.pv
       /\ pc[p] = "changes" => \A i \in DOMAIN q.changes : i <= done[p] => q.changes[i].ours
       /\ pc[p] \in {"messages", "changes"} /\ CanCommit(q) =>
             /\ \A s \in Seqs \ SeqsOf(q) : txChanges[s] = changes[s]
             /\ channel # NoRow /\ q.owner = channel.owner /\ q.lastSeq = channel.lastSeq =>
                   txChanges = changes
             /\ IF pc[p] = "messages" THEN Reflects(txChanges, q, done[p], 0)
                ELSE Reflects(txChanges, q, Len(q.messages), done[p])

\* The log is that of the pushes up to the head, the last of which is known by it.
LogOK ==
    /\ channel # NoRow =>
          /\ channel.owner \in owners
          /\ \E q \in Pushes : /\ CanCommit(q) /\ channel = Upserted(q)
                               /\ Reflects(changes, q, Len(q.messages), Len(q.changes))
    /\ \A s \in Seqs : changes[s] # NoRow => channel # NoRow /\ s <= channel.lastSeq

\* No subscriber is ahead of the head or has rows ahead of its cursor.
ReaderOK(rd) ==
    /\ readLast[rd] # NoRow => channel # NoRow /\ readLast[rd] <= channel.lastSeq
    /\ cursor[rd] # 0 => channel # NoRow /\ cursor[rd] <= channel.lastSeq
    /\ upTo[rd] # 0 => channel # NoRow /\ upTo[rd] <= channel.lastSeq
    /\ \A s \in Seqs : s > cursor[rd] => seen[rd][s] = NoRow

SyncInv ==
    /\ \A p \in Pushers : TxAdds(p)
    /\ LogOK
    /\ \A rd \in Readers : ReaderOK(rd)
    /\ SubscribersMissNothing
    /\ SyncEndsComplete

-----------------------------------------------------------------------------
(* What the integration document says and the code does not keep.          *)

\* docs:172 and store.go:200, the owner of a channel cannot change: the sender is
\* the owner both the profile and the head name.
OwnerNeverChanges == [][channel # NoRow => channel'.owner = channel.owner]_vars

\* docs:175, a message's seq does not go back.
MessageSeqNeverRegresses ==
    [][\A id \in Ids : messages[id] # NoRow /\ messages'[id] # NoRow =>
          messages'[id].seq >= messages[id].seq]_vars

\* docs:204, NOT_FOUND means that the channel does not exist.
NotFoundMeansNoChannel ==
    [][\A rd \in Readers : ListMessages(rd) /\ channel # NoRow => listed'[rd] # "not_found"]_vars

-----------------------------------------------------------------------------

L == INSTANCE ChannelLog

\* With one push at a time the tables are a ChannelLog: whatever fails half-way,
\* times out or crashes, what readers see changes by whole pushes that were not
\* stale when they were published, and the statements of the transaction add up
\* to the last writer of every row.
ImplementsLog == L!LogSpec
==============================================================================
