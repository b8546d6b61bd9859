----------------------------- MODULE ChannelLog ------------------------------
(***************************************************************************)
(* What a public channel promises its owner and its subscribers, without a *)
(* connection, transactions or statements: a push is published as a whole, *)
(* in one step, or not at all.  What it leaves behind is described from    *)
(* its end: of several writers of one row the last one wins, over what was *)
(* stored before.  A push is published only if the owner sent it, its head *)
(* is not older than the stored one and covers its messages, no message    *)
(* goes back, and no two messages have one seq at any point.               *)
(***************************************************************************)
EXTENDS Integers, Sequences

CONSTANTS
    Pushes,         \* the requests
    Ids,            \* message ids
    Seqs,           \* sequence numbers
    NoRow           \* a row that does not exist

VARIABLES
    channel,        \* the head
    messages,       \* the messages by id
    changes         \* the changes by seq

log == <<channel, messages, changes>>

\* The last index of ms, before i, that satisfies the test, 0 for none.
LastBefore(ms, i, Test(_)) ==
    LET hits == {j \in DOMAIN ms : j < i /\ Test(ms[j])}
    IN IF hits = {} THEN 0 ELSE CHOOSE j \in hits : \A k \in hits : k <= j

\* Message id when the messages of q before number i are counted.
Version(q, id, i) ==
    LET Same(m) == m.id = id
        j == LastBefore(q.messages, i, Same)
    IN IF j = 0 THEN messages[id] ELSE [ver |-> q.messages[j].ver, seq |-> q.messages[j].seq]

\* Message number i of q goes forward and does not take the seq of another.
Admits(q, i) ==
    LET m == q.messages[i]
        old == Version(q, m.id, i)
    IN /\ old # NoRow => m.ver > old.ver \/ (m.ver = old.ver /\ m.seq >= old.seq)
       /\ \A id \in Ids \ {m.id} :
             Version(q, id, i) # NoRow => Version(q, id, i).seq # m.seq

Publishable(q) ==
    /\ q.valid /\ q.peer = q.owner
    /\ channel # NoRow => q.lastSeq >= channel.lastSeq /\ q.headOwner = channel.owner
    /\ \A i \in DOMAIN q.messages :
          /\ q.messages[i].seq <= q.lastSeq
          /\ q.messages[i].id <= q.lastId
          /\ Admits(q, i)
    /\ \A i \in DOMAIN q.changes : q.changes[i].ours

\* A push of nothing but a newer profile.
OnlyProfile(q) ==
    /\ q.messages = <<>> /\ q.changes = <<>>
    /\ channel = NoRow \/ q.pv > channel.pv
    /\ q.pv > 0

\* The change at seq s: what the push lists itself, else its last message with
\* that seq, else its profile, else what was there.  A message keeps the profile
\* version of the row, a profile its message.
Change(q, s) ==
    LET Same(x) == x.seq = s
        e == LastBefore(q.changes, Len(q.changes) + 1, Same)
        m == LastBefore(q.messages, Len(q.messages) + 1, Same)
        row == IF changes[s] = NoRow
               THEN [kind |-> "message", id |-> 0, ver |-> 0, pv |-> 0] ELSE changes[s]
    IN IF e # 0 THEN q.changes[e].row
       ELSE IF m # 0
       THEN [kind |-> "message", id |-> q.messages[m].id, ver |-> q.messages[m].ver, pv |-> row.pv]
       ELSE IF OnlyProfile(q) /\ s = q.lastSeq
       THEN [kind |-> "profile", id |-> row.id, ver |-> row.ver, pv |-> q.pv]
       ELSE changes[s]

Publish(q) ==
    /\ Publishable(q)
    /\ channel' = [owner |-> q.owner, pv |-> q.pv, lastId |-> q.lastId, lastSeq |-> q.lastSeq]
    /\ messages' = [id \in Ids |-> Version(q, id, Len(q.messages) + 1)]
    /\ changes' = [s \in Seqs |-> Change(q, s)]

LogInit ==
    /\ channel = NoRow
    /\ messages = [id \in Ids |-> NoRow]
    /\ changes = [s \in Seqs |-> NoRow]

LogSpec == LogInit /\ [][\E q \in Pushes : Publish(q)]_log
==============================================================================
