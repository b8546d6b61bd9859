--------------------------- MODULE ChannelSyncProofs ---------------------------
(***************************************************************************)
(* What TLAPS proves about the subscribers of PublicChannel: of a channel  *)
(* whose pushes are served one at a time and whose owners give every seq   *)
(* one meaning, and as long as it has had one owner, every subscriber has  *)
(* what is stored up to its cursor, and an answer without has_more leaves  *)
(* nothing out; for every page limit and any number of subscribers.        *)
(* The first condition is needed (ChannelRace.cfg shows why), and a push   *)
(* whose profile and head name different owners may end the last one.      *)
(***************************************************************************)
EXTENDS PublicChannelProofs, FiniteSums

-----------------------------------------------------------------------------
(* Pages.                                                                  *)

\* A page leaves out nothing below its last row.
LEMMA PageIsClosed ==
  ASSUME NEW S \in SUBSET Nat, IsFiniteSet(S), NEW k \in Nat, NEW s \in S, NEW t \in FirstN(S, k), s <= t
  PROVE  s \in FirstN(S, k)
<1> DEFINE a == {x \in S : x < s}
           b == {x \in S : x < t}
<1>1. t \in S /\ Cardinality(b) < k
  BY DEF FirstN
<1>2. a \subseteq b /\ b \subseteq S
  <2>1. s \in Nat /\ t \in Nat /\ \A x \in S : x \in Nat
    BY <1>1
  <2>2. \A x \in S : x < s => x < t
    BY <2>1
  <2> QED BY <2>2
<1>3. IsFiniteSet(b)
  BY <1>2, FS_Subset
<1>4. Cardinality(a) <= Cardinality(b) /\ Cardinality(a) \in Nat /\ Cardinality(b) \in Nat
  BY <1>2, <1>3, FS_Subset, FS_CardinalityType
<1>5. Cardinality(a) < k
  BY <1>1, <1>4
<1> QED BY <1>5 DEF FirstN

\* When the query for one row more finds no more than the page, the page is all.
LEMMA LastPage ==
  ASSUME NEW S \in SUBSET Nat, IsFiniteSet(S), NEW k \in Nat, ~(Cardinality(FirstN(S, k + 1)) > k)
  PROVE  FirstN(S, k) = S
<1> DEFINE F == FirstN(S, k)
           G == FirstN(S, k + 1)
           rest == S \ F
<1>1. F \subseteq S /\ G \subseteq S
  BY DEF FirstN
<1>2. IsFiniteSet(G) /\ Cardinality(G) \in Nat
  BY <1>1, FS_Subset, FS_CardinalityType
<1>3. F \subseteq G
  <2> SUFFICES ASSUME NEW x \in S, Cardinality({y \in S : y < x}) < k
               PROVE  Cardinality({y \in S : y < x}) < k + 1
    BY DEF FirstN
  <2>1. {y \in S : y < x} \subseteq S
    OBVIOUS
  <2>2. Cardinality({y \in S : y < x}) \in Nat
    BY <2>1, FS_Subset, FS_CardinalityType
  <2> QED BY <2>2
<1>4. ASSUME rest # {} PROVE FALSE
  <2>1. PICK x \in rest : \A y \in rest : x <= y
    BY <1>4, NatMin
  <2> DEFINE B == {y \in S : y < x}
  <2>2. x \in S /\ x \in Nat /\ ~(Cardinality(B) < k)
    BY DEF FirstN
  <2>3. B \subseteq F
    <3> SUFFICES ASSUME NEW y \in S, y < x, y \notin F PROVE FALSE
      OBVIOUS
    <3>1. x <= y /\ y \in Nat
      BY <2>1
    <3> QED BY <2>2, <3>1
  <2>4. IsFiniteSet(B) /\ Cardinality(B) \in Nat /\ x \notin B
    BY <2>2, FS_Subset, FS_CardinalityType
  <2>5. Cardinality(B) <= Cardinality(G)
    BY <1>2, <1>3, <2>3, FS_Subset
  <2>6. Cardinality(B) < k + 1
    BY <1>2, <2>4, <2>5
  <2>7. x \in G
    BY <2>2, <2>6 DEF FirstN
  <2>8. B \cup {x} \subseteq G
    BY <1>3, <2>3, <2>7
  <2> HIDE DEF B, G
  <2>9. Cardinality(B \cup {x}) = Cardinality(B) + 1
    BY <2>4, FS_AddElement
  <2>10. Cardinality(B \cup {x}) <= Cardinality(G)
    BY <1>2, <2>8, FS_Subset
  <2>11. ~(Cardinality(G) > k)
    BY DEF G
  <2> QED BY <1>2, <2>2, <2>4, <2>9, <2>10, <2>11
<1> QED BY <1>1, <1>4

-----------------------------------------------------------------------------
(* The transaction of the only push.                                       *)

\* TxAdds of a push at place w with the request q, the old profile version v and n
\* written, over the head, the log and the log of its transaction.
TxOK(w, q, v, n, head, log, tx) ==
    /\ w # "idle" => Acceptable(q) /\ v = IF head = NoRow THEN 0 ELSE head.pv
    /\ w = "changes" => \A i \in DOMAIN q.changes : i <= n => q.changes[i].ours
    /\ w \in {"messages", "changes"} /\ CanCommit(q) =>
          /\ \A s \in Seqs \ SeqsOf(q) : tx[s] = log[s]
          /\ head # NoRow /\ q.owner = head.owner /\ q.lastSeq = head.lastSeq => tx = log
          /\ IF w = "messages" THEN Reflects(tx, q, n, 0) ELSE Reflects(tx, q, Len(q.messages), n)

\* It is, before a step ...
LEMMA TxNow ==
  ASSUME NEW p \in Pushers
  PROVE  TxAdds(p) <=> TxOK(pc[p], req[p], oldPV[p], done[p], channel, changes, txChanges)
  BY DEF TxAdds, TxOK

\* ... and after it.
LEMMA TxThen ==
  ASSUME NEW p \in Pushers, TxOK(pc'[p], req'[p], oldPV'[p], done'[p], channel', changes', txChanges')
  PROVE  TxAdds(p)'
  BY DEF TxAdds, TxOK, CanCommit, Acceptable, WithinHead, SeqsOf, Reflects, Names

\* A push outside its transaction need only be acceptable and know the profile version.
LEMMA TxOutside ==
  ASSUME NEW w \in {"idle", "checked"}, NEW q, NEW v, NEW n, NEW head, NEW log, NEW tx,
         w # "idle" => Acceptable(q) /\ v = IF head = NoRow THEN 0 ELSE head.pv
  PROVE  TxOK(w, q, v, n, head, log, tx)
  BY DEF TxOK

\* The push that the head names is the only one its owner can repeat.
LEMMA LastPush ==
  ASSUME LogOK, OrderlyOwner, NEW q \in Pushes, CanCommit(q),
         channel # NoRow, q.owner = channel.owner, q.lastSeq = channel.lastSeq
  PROVE  channel = Upserted(q) /\ Reflects(changes, q, Len(q.messages), Len(q.changes))
<1>1. PICK r \in Pushes : /\ CanCommit(r) /\ channel = Upserted(r)
                          /\ Reflects(changes, r, Len(r.messages), Len(r.changes))
  BY DEF LogOK
<1>2. r.lastSeq = q.lastSeq /\ r.owner = q.owner
  BY <1>1 DEF Upserted
<1>3. r = q
  BY <1>1, <1>2 DEF OrderlyOwner
<1> QED BY <1>1, <1>3

\* Writing the change of a message that the row names already changes nothing; otherwise
\* the row names it afterwards.
LEMMA ChangeNames ==
  ASSUME NEW row \in ChangeRow \cup {NoRow}, NEW m
  PROVE  /\ Names(row, m) => MessageChange(m, row) = row
         /\ MessageChange(m, row) # NoRow => Names(MessageChange(m, row), m)
<1>1. ASSUME Names(row, m) PROVE MessageChange(m, row) = row
  <2>1. row \in ChangeRow /\ row # NoRow
    BY <1>1 DEF Names
  <2>2. row = [kind |-> row.kind, id |-> row.id, ver |-> row.ver, pv |-> row.pv]
    BY <2>1 DEF ChangeRow
  <2>3. row.kind = "message" /\ row.id = m.id /\ row.ver = m.ver
    BY <1>1 DEF Names
  <2> QED BY <2>1, <2>2, <2>3 DEF MessageChange
<1>2. MessageChange(m, row).kind = "message" /\ MessageChange(m, row).id = m.id /\ MessageChange(m, row).ver = m.ver
  BY DEF MessageChange
<1> QED BY <1>1, <1>2 DEF Names

\* What is known of a push inside its transaction.
LEMMA InTx ==
  ASSUME ChannelInv, HeadInv, SyncInv, NEW p \in Pushers, pc[p] \in {"messages", "changes"}
  PROVE  /\ TxOK(pc[p], req[p], oldPV[p], done[p], channel, changes, txChanges)
         /\ req[p] \in Pushes /\ NotStale(req[p]) /\ WithinHead(req[p]) /\ done[p] \in Nat
         /\ txChanges \in ChangeTable /\ LogOK /\ txChannel = Upserted(req[p])
         /\ pc \in [Pushers -> {"idle", "checked", "messages", "changes"}] /\ done \in [Pushers -> Nat]
<1>1. TxAdds(p) /\ LogOK
  BY DEF SyncInv
<1>2. NotStale(req[p]) /\ WithinHead(req[p])
  BY DEF HeadInv
<1>3. done[p] \in Nat /\ txChanges \in ChangeTable /\ done \in [Pushers -> Nat]
      /\ pc \in [Pushers -> {"idle", "checked", "messages", "changes"}]
  BY DEF ChannelInv, TypeOK
<1>4. txChannel = Upserted(req[p])
  BY DEF ChannelInv, PushOK
<1> QED BY <1>1, <1>2, <1>3, <1>4, TxNow, RequestOf

\* A message of the transaction.
LEMMA TxMessage ==
  ASSUME ChannelInv, HeadInv, SyncInv, OrderlyOwner, NEW p \in Pushers, PushMessage(p)
  PROVE  TxAdds(p)'
<1> DEFINE q == req[p]
           n == done[p]
           m == q.messages[n + 1]
           row == txChanges[m.seq]
<1>1. pc[p] = "messages" /\ UNCHANGED <<tables, pc, req, oldPV>> /\ done' = [done EXCEPT ![p] = @ + 1]
  BY DEF PushMessage
<1>2. /\ q \in Pushes /\ n \in Nat /\ n < Len(q.messages) /\ m.id \in Ids /\ m.ver \in Nat /\ m.seq \in Seqs
      /\ txChanges' = [txChanges EXCEPT ![m.seq] = MessageChange(m, row)]
  BY MessageWritten
<1>3. /\ TxOK("messages", q, oldPV[p], n, channel, changes, txChanges) /\ NotStale(q) /\ LogOK
      /\ txChanges \in ChangeTable /\ done \in [Pushers -> Nat]
  BY <1>1, InTx
<1>4. row \in ChangeRow \cup {NoRow} /\ MessageChange(m, row) \in ChangeRow
  BY <1>2, <1>3, ChangeTypes DEF ChangeTable
<1>5. n + 1 \in DOMAIN q.messages /\ DOMAIN q.messages = 1..Len(q.messages) /\ Len(q.messages) \in Nat
  BY <1>2, PushFields
<1>6. /\ txChanges'[m.seq] = MessageChange(m, row)
      /\ \A s \in Seqs : s # m.seq => txChanges'[s] = txChanges[s]
  BY <1>2, <1>3 DEF ChangeTable
<1>7. ASSUME CanCommit(q)
      PROVE  /\ \A s \in Seqs \ SeqsOf(q) : txChanges'[s] = changes[s]
             /\ channel # NoRow /\ q.owner = channel.owner /\ q.lastSeq = channel.lastSeq => txChanges' = changes
             /\ Reflects(txChanges', q, n + 1, 0)
  <2>1. /\ \A s \in Seqs \ SeqsOf(q) : txChanges[s] = changes[s]
        /\ channel # NoRow /\ q.owner = channel.owner /\ q.lastSeq = channel.lastSeq => txChanges = changes
        /\ Reflects(txChanges, q, n, 0)
    BY <1>3, <1>7 DEF TxOK
  <2>2. m.seq \in SeqsOf(q)
    BY <1>5 DEF SeqsOf
  <2>3. ASSUME channel # NoRow, q.owner = channel.owner, q.lastSeq = channel.lastSeq PROVE txChanges' = changes
    <3>1. Reflects(changes, q, Len(q.messages), Len(q.changes)) /\ txChanges = changes
      BY <1>2, <1>3, <1>7, <2>1, <2>3, LastPush
    <3>2. Names(changes[m.seq], m)
      BY <1>2, <1>5, <3>1 DEF Reflects
    <3>3. MessageChange(m, row) = row
      BY <1>4, <3>1, <3>2, ChangeNames
    <3> QED BY <1>2, <1>3, <3>1, <3>3 DEF ChangeTable
  <2>4. ASSUME NEW j \in DOMAIN q.messages, j <= n + 1
        PROVE  Names(txChanges'[q.messages[j].seq], q.messages[j])
    <3>1. CASE j = n + 1
      <4>1. MessageChange(m, row) # NoRow
        BY <1>4, RowsExist
      <4> QED BY <1>4, <1>6, <3>1, <4>1, ChangeNames
    <3>2. CASE j # n + 1
      <4>1. j \in Nat /\ j <= n
        BY <1>2, <1>5, <2>4, <3>2
      <4>2. q.messages[j].seq # m.seq
        BY <1>2, <1>5, <1>7, <3>2 DEF OrderlyOwner
      <4>3. q.messages[j].seq \in Seqs
        <5>1. q.messages \in Seq(Message)
          BY <1>2, PushFields
        <5>2. q.messages[j] \in Message
          BY <1>5, <5>1
        <5> QED BY <5>2 DEF Message
      <4> QED BY <1>6, <2>1, <4>1, <4>2, <4>3 DEF Reflects
    <3> QED BY <3>1, <3>2
  <2>5. ASSUME NEW j \in DOMAIN q.changes, j <= 0 PROVE FALSE
    BY <1>2, <2>5, PushFields
  <2> QED BY <1>6, <2>1, <2>2, <2>3, <2>4, <2>5 DEF Reflects
<1>8. Acceptable(q) /\ oldPV[p] = IF channel = NoRow THEN 0 ELSE channel.pv
  BY <1>3 DEF TxOK
<1>9. TxOK("messages", q, oldPV[p], n + 1, channel, changes, txChanges')
  BY <1>7, <1>8 DEF TxOK
<1>10. /\ pc'[p] = "messages" /\ req'[p] = q /\ oldPV'[p] = oldPV[p] /\ done'[p] = n + 1
       /\ channel' = channel /\ changes' = changes
  BY <1>1, <1>3 DEF tables
<1> QED BY <1>9, <1>10, TxThen

\* The end of the messages, and the change of a profile alone.
LEMMA TxProfile ==
  ASSUME ChannelInv, HeadInv, SyncInv, OrderlyOwner, NEW p \in Pushers, PushProfile(p)
  PROVE  TxAdds(p)'
<1> DEFINE q == req[p]
           s0 == q.lastSeq
           writes == q.pv > oldPV[p] /\ q.messages = <<>> /\ q.changes = <<>>
<1>1. /\ pc[p] = "messages" /\ UNCHANGED <<tables, req, oldPV>> /\ done' = [done EXCEPT ![p] = 0]
      /\ pc' = [pc EXCEPT ![p] = "changes"] /\ done[p] = Len(q.messages)
  BY DEF PushProfile
<1>2. /\ TxOK("messages", q, oldPV[p], done[p], channel, changes, txChanges) /\ NotStale(q) /\ LogOK
      /\ q \in Pushes /\ txChanges \in ChangeTable /\ done \in [Pushers -> Nat]
      /\ pc \in [Pushers -> {"idle", "checked", "messages", "changes"}]
  BY <1>1, InTx
<1>3. q.pv \in Nat /\ s0 \in Seqs /\ q.messages \in Seq(Message) /\ q.changes \in Seq(Extra)
  BY <1>2, PushFields
<1>4. /\ writes => txChanges' = [txChanges EXCEPT ![s0] = ProfileChange(q.pv, txChanges[s0])]
      /\ ~writes => txChanges' = txChanges
  BY DEF PushProfile
<1>5. Acceptable(q) /\ oldPV[p] = IF channel = NoRow THEN 0 ELSE channel.pv
  BY <1>2 DEF TxOK
<1>6. \A i \in DOMAIN q.changes : ~(i <= 0)
  BY <1>3
<1>7. ASSUME CanCommit(q)
      PROVE  /\ \A s \in Seqs \ SeqsOf(q) : txChanges'[s] = changes[s]
             /\ channel # NoRow /\ q.owner = channel.owner /\ q.lastSeq = channel.lastSeq => txChanges' = changes
             /\ Reflects(txChanges', q, Len(q.messages), 0)
  <2>1. /\ \A s \in Seqs \ SeqsOf(q) : txChanges[s] = changes[s]
        /\ channel # NoRow /\ q.owner = channel.owner /\ q.lastSeq = channel.lastSeq => txChanges = changes
        /\ Reflects(txChanges, q, Len(q.messages), 0)
    BY <1>1, <1>2, <1>7 DEF TxOK
  <2>2. CASE writes
    <3>1. s0 \in SeqsOf(q)
      BY <2>2 DEF SeqsOf
    <3>2. ASSUME channel # NoRow, q.owner = channel.owner, q.lastSeq = channel.lastSeq PROVE FALSE
      <4>1. channel = Upserted(q)
        BY <1>2, <1>7, <3>2, LastPush
      <4>2. oldPV[p] = q.pv
        BY <1>5, <3>2, <4>1 DEF Upserted
      <4> QED BY <1>3, <2>2, <4>2
    <3>3. \A s \in Seqs : s # s0 => txChanges'[s] = txChanges[s]
      BY <1>2, <1>4, <2>2 DEF ChangeTable
    <3>4. DOMAIN q.messages = {}
      BY <2>2
    <3> QED BY <1>6, <2>1, <3>1, <3>2, <3>3, <3>4 DEF Reflects
  <2>3. CASE ~writes
    BY <1>4, <2>1, <2>3
  <2> QED BY <2>2, <2>3
<1>8. TxOK("changes", q, oldPV[p], 0, channel, changes, txChanges')
  BY <1>5, <1>6, <1>7 DEF TxOK
<1>9. /\ pc'[p] = "changes" /\ req'[p] = q /\ oldPV'[p] = oldPV[p] /\ done'[p] = 0
      /\ channel' = channel /\ changes' = changes
  BY <1>1, <1>2 DEF tables
<1> QED BY <1>8, <1>9, TxThen

\* A change of the transaction.
LEMMA TxChange ==
  ASSUME ChannelInv, HeadInv, SyncInv, OrderlyOwner, NEW p \in Pushers, PushChange(p)
  PROVE  TxAdds(p)'
<1> DEFINE q == req[p]
           n == done[p]
           e == q.changes[n + 1]
<1>1. /\ pc[p] = "changes" /\ UNCHANGED <<tables, pc, req, oldPV>> /\ done' = [done EXCEPT ![p] = @ + 1]
      /\ n < Len(q.changes) /\ e.ours /\ txChanges' = [txChanges EXCEPT ![e.seq] = e.row]
  BY DEF PushChange
<1>2. /\ TxOK("changes", q, oldPV[p], n, channel, changes, txChanges) /\ NotStale(q) /\ LogOK
      /\ q \in Pushes /\ txChanges \in ChangeTable /\ done \in [Pushers -> Nat] /\ n \in Nat
  BY <1>1, InTx
<1>3. e.seq \in Seqs /\ e.row \in ChangeRow
  BY <1>1, <1>2, ChangeFields
<1>4. /\ n + 1 \in DOMAIN q.changes /\ DOMAIN q.changes = 1..Len(q.changes) /\ Len(q.changes) \in Nat
      /\ DOMAIN q.messages = 1..Len(q.messages) /\ q.messages \in Seq(Message) /\ q.changes \in Seq(Extra)
  BY <1>1, <1>2, PushFields
<1>5. /\ txChanges'[e.seq] = e.row
      /\ \A s \in Seqs : s # e.seq => txChanges'[s] = txChanges[s]
  BY <1>1, <1>2, <1>3 DEF ChangeTable
<1>6. ASSUME NEW j \in DOMAIN q.changes, j <= n + 1, j # n + 1 PROVE j <= n
  BY <1>2, <1>4, <1>6
<1>7. ASSUME CanCommit(q)
      PROVE  /\ \A s \in Seqs \ SeqsOf(q) : txChanges'[s] = changes[s]
             /\ channel # NoRow /\ q.owner = channel.owner /\ q.lastSeq = channel.lastSeq => txChanges' = changes
             /\ Reflects(txChanges', q, Len(q.messages), n + 1)
  <2>1. /\ \A s \in Seqs \ SeqsOf(q) : txChanges[s] = changes[s]
        /\ channel # NoRow /\ q.owner = channel.owner /\ q.lastSeq = channel.lastSeq => txChanges = changes
        /\ Reflects(txChanges, q, Len(q.messages), n)
    BY <1>2, <1>7 DEF TxOK
  <2>2. e.seq \in SeqsOf(q)
    BY <1>4 DEF SeqsOf
  <2>3. ASSUME channel # NoRow, q.owner = channel.owner, q.lastSeq = channel.lastSeq PROVE txChanges' = changes
    <3>1. Reflects(changes, q, Len(q.messages), Len(q.changes)) /\ txChanges = changes
      BY <1>2, <1>7, <2>1, <2>3, LastPush
    <3>2. changes[e.seq] = e.row
      BY <1>1, <1>2, <1>4, <3>1 DEF Reflects
    <3> QED BY <1>1, <1>2, <3>1, <3>2 DEF ChangeTable
  <2>4. ASSUME NEW j \in DOMAIN q.changes, j <= n + 1
        PROVE  txChanges'[q.changes[j].seq] = q.changes[j].row
    <3>1. CASE j = n + 1
      BY <1>5, <3>1
    <3>2. CASE j # n + 1
      <4>1. q.changes[j].seq # e.seq
        BY <1>2, <1>4, <1>7, <3>2 DEF OrderlyOwner
      <4>2. q.changes[j].seq \in Seqs
        <5>1. q.changes[j] \in Extra
          BY <1>4
        <5> QED BY <5>1 DEF Extra
      <4> QED BY <1>5, <1>6, <2>1, <2>4, <3>2, <4>1, <4>2 DEF Reflects
    <3> QED BY <3>1, <3>2
  <2>5. ASSUME NEW j \in DOMAIN q.messages, j <= Len(q.messages)
        PROVE  Names(txChanges'[q.messages[j].seq], q.messages[j])
    <3>1. q.messages[j].seq # e.seq
      BY <1>2, <1>4, <1>7 DEF OrderlyOwner
    <3>2. q.messages[j].seq \in Seqs
      <4>1. q.messages[j] \in Message
        BY <1>4
      <4> QED BY <4>1 DEF Message
    <3> QED BY <1>5, <2>1, <2>5, <3>1, <3>2 DEF Reflects
  <2> QED BY <1>5, <2>1, <2>2, <2>3, <2>4, <2>5 DEF Reflects
<1>8. /\ Acceptable(q) /\ oldPV[p] = IF channel = NoRow THEN 0 ELSE channel.pv
      /\ \A i \in DOMAIN q.changes : i <= n + 1 => q.changes[i].ours
  BY <1>1, <1>2, <1>6 DEF TxOK
<1>9. TxOK("changes", q, oldPV[p], n + 1, channel, changes, txChanges')
  BY <1>7, <1>8 DEF TxOK
<1>10. /\ pc'[p] = "changes" /\ req'[p] = q /\ oldPV'[p] = oldPV[p] /\ done'[p] = n + 1
       /\ channel' = channel /\ changes' = changes
  BY <1>1, <1>2 DEF tables
<1> QED BY <1>9, <1>10, TxThen

-----------------------------------------------------------------------------
(* The committed log.                                                      *)

\* S has at most one member.
Single(S) == \A a, b \in S : a = b

\* The log goes on above its head: the head does not fall, and while the channel
\* keeps its owner no row up to it changes.
Grows ==
    /\ owners \subseteq owners'
    /\ channel # NoRow =>
          /\ channel' # NoRow /\ channel.lastSeq <= channel'.lastSeq
          /\ Single(owners') => \A s \in Seqs : s <= channel.lastSeq => changes'[s] = changes[s]

\* A commit makes the log go on.
LEMMA CommitGrows ==
  ASSUME ChannelInv, HeadInv, SyncInv, OrderlyOwner, NEW p \in Pushers, PushCommit(p)
  PROVE  LogOK' /\ Grows
<1> DEFINE q == req[p]
<1>1. /\ pc[p] = "changes" /\ done[p] = Len(q.changes)
      /\ channel' = txChannel /\ changes' = txChanges
      /\ owners' = owners \cup {txChannel.owner}
  BY DEF PushCommit
<1>2. /\ TxOK("changes", q, oldPV[p], done[p], channel, changes, txChanges) /\ NotStale(q) /\ LogOK
      /\ WithinHead(q) /\ q \in Pushes /\ txChannel = Upserted(q)
  BY <1>1, InTx
<1>3. DOMAIN q.changes = 1..Len(q.changes) /\ q.lastSeq \in Seqs /\ Upserted(q) # NoRow
  BY <1>2, PushFields, RowsExist
<1>4. CanCommit(q)
  <2>1. \A i \in DOMAIN q.changes : q.changes[i].ours
    BY <1>1, <1>2, <1>3 DEF TxOK
  <2> QED BY <1>2, <2>1 DEF TxOK, CanCommit, Acceptable, WithinHead
<1>5. /\ \A s \in Seqs \ SeqsOf(q) : changes'[s] = changes[s]
      /\ channel # NoRow /\ q.owner = channel.owner /\ q.lastSeq = channel.lastSeq => changes' = changes
      /\ Reflects(changes', q, Len(q.messages), Len(q.changes))
  BY <1>1, <1>2, <1>4 DEF TxOK
<1>6. /\ channel'.lastSeq = q.lastSeq /\ channel' = Upserted(q) /\ channel' # NoRow
      /\ channel'.owner = q.owner /\ owners' = owners \cup {q.owner}
  BY <1>1, <1>2, <1>3 DEF Upserted
<1>7. ASSUME channel # NoRow
      PROVE  /\ channel.lastSeq <= q.lastSeq /\ channel.lastSeq \in Int /\ q.lastSeq \in Int
             /\ Single(owners') => \A s \in Seqs : s <= channel.lastSeq => changes'[s] = changes[s]
  <2>1. PICK r \in Pushes : CanCommit(r) /\ channel = Upserted(r)
    BY <1>2, <1>7 DEF LogOK
  <2>2. r.lastSeq = channel.lastSeq /\ r.owner = channel.owner /\ r.lastSeq \in Seqs
    BY <2>1, PushFields DEF Upserted
  <2>3. channel.lastSeq <= q.lastSeq
    BY <1>2, <1>3, <1>7, <2>2 DEF NotStale, Seqs
  <2>4. Single(owners') => r.owner = q.owner
    BY <1>2, <1>6, <1>7, <2>2 DEF Single, LogOK
  <2>5. r.lastSeq \in Int /\ q.lastSeq \in Int
    BY <1>3, <2>2 DEF Seqs
  <2>6. ASSUME Single(owners'), q.lastSeq = channel.lastSeq, NEW s \in Seqs PROVE changes'[s] = changes[s]
    BY <1>5, <1>7, <2>2, <2>4, <2>6
  <2>7. ASSUME Single(owners'), q.lastSeq # channel.lastSeq, NEW s \in Seqs, s <= channel.lastSeq
        PROVE  changes'[s] = changes[s]
    <3>1. r.lastSeq < q.lastSeq
      BY <2>2, <2>3, <2>5, <2>7
    <3>2. \A x \in SeqsOf(q) : x > r.lastSeq
      BY <1>2, <1>4, <2>1, <2>4, <2>7, <3>1 DEF OrderlyOwner
    <3>3. s \notin SeqsOf(q)
      BY <2>2, <2>5, <2>7, <3>2 DEF Seqs
    <3> QED BY <1>5, <3>3
  <2> QED BY <2>2, <2>3, <2>5, <2>6, <2>7
<1>8. Grows
  BY <1>6, <1>7 DEF Grows
<1>9. ASSUME NEW s \in Seqs, changes'[s] # NoRow PROVE s <= q.lastSeq
  <2>1. CASE s \in SeqsOf(q)
    BY <1>2, <1>4, <2>1 DEF OrderlyOwner
  <2>2. CASE s \notin SeqsOf(q)
    <3>1. channel # NoRow /\ s <= channel.lastSeq
      BY <1>2, <1>5, <1>9, <2>2 DEF LogOK
    <3> QED BY <1>7, <3>1 DEF Seqs
  <2> QED BY <2>1, <2>2
<1>10. LogOK'
  <2>1. \E r \in Pushes : /\ CanCommit(r) /\ channel' = Upserted(r)
                          /\ Reflects(changes', r, Len(r.messages), Len(r.changes))
    BY <1>2, <1>4, <1>5, <1>6
  <2>2. \A s \in Seqs : changes'[s] # NoRow => channel' # NoRow /\ s <= channel'.lastSeq
    BY <1>6, <1>9
  <2>3. channel'.owner \in owners'
    BY <1>6
  <2> QED BY <2>1, <2>2, <2>3 DEF LogOK, CanCommit, Acceptable, WithinHead, Upserted, Reflects, Names
<1> QED BY <1>8, <1>10

\* A step that does not commit.
LEMMA SameLog ==
  ASSUME ChannelInv, SyncInv, UNCHANGED <<channel, changes, owners>>
  PROVE  LogOK' /\ Grows
<1>1. LogOK'
  BY DEF SyncInv, LogOK, CanCommit, Acceptable, WithinHead, Upserted, Reflects, Names
<1>2. channel # NoRow => channel.lastSeq \in Int
  BY DEF ChannelInv, TypeOK, ChannelRow, Seqs
<1> QED BY <1>1, <1>2 DEF Grows

-----------------------------------------------------------------------------
(* The subscribers.                                                        *)

\* A subscriber at cursor c with the rows r, the last_seq l it has read and the
\* current_last_seq u, over the owners so far, the head and the log.
SubscriberOK(l, c, u, r, own, head, log) ==
    /\ l # NoRow => head # NoRow /\ l <= head.lastSeq
    /\ c # 0 => head # NoRow /\ c <= head.lastSeq
    /\ u # 0 => head # NoRow /\ u <= head.lastSeq
    /\ \A s \in Seqs : s > c => r[s] = NoRow
    /\ Single(own) => \A s \in Seqs : 0 < s /\ s <= c => r[s] = log[s]
    /\ Single(own) => \A s \in Seqs : c < s /\ s <= u => log[s] = NoRow

\* This is what SyncInv says of it, ...
LEMMA ReaderNow ==
  ASSUME SyncInv, NEW rd \in Readers
  PROVE  SubscriberOK(readLast[rd], cursor[rd], upTo[rd], seen[rd], owners, channel, changes)
  BY DEF SyncInv, ReaderOK, SubscribersMissNothing, SyncEndsComplete, OneOwner, Single, SubscriberOK

\* ... and all it says of the subscribers.
LEMMA ReadersThen ==
  ASSUME \A rd \in Readers : SubscriberOK(readLast'[rd], cursor'[rd], upTo'[rd], seen'[rd], owners', channel', changes')
  PROVE  (\A rd \in Readers : ReaderOK(rd)') /\ SubscribersMissNothing' /\ SyncEndsComplete'
  BY DEF ReaderOK, SubscribersMissNothing, SyncEndsComplete, OneOwner, Single, SubscriberOK

\* The types of a subscriber.
LEMMA ReaderTypes ==
  ASSUME ChannelInv, NEW rd \in Readers
  PROVE  /\ readLast[rd] \in Seqs \cup {NoRow} /\ cursor[rd] \in Seqs /\ upTo[rd] \in Seqs
         /\ seen[rd] \in ChangeTable /\ changes \in ChangeTable
         /\ channel # NoRow => channel.lastSeq \in Seqs
  BY DEF ChannelInv, TypeOK, ChannelRow

\* When the log goes on above the head, a subscriber that is not served is as it was.
LEMMA ReaderWaits ==
  ASSUME ChannelInv, SyncInv, TypeOK', Grows, NEW rd \in Readers,
         readLast'[rd] \in {readLast[rd], NoRow}, cursor'[rd] = cursor[rd], upTo'[rd] = upTo[rd],
         seen'[rd] = seen[rd]
  PROVE  SubscriberOK(readLast'[rd], cursor'[rd], upTo'[rd], seen'[rd], owners', channel', changes')
<1>1. SubscriberOK(readLast[rd], cursor[rd], upTo[rd], seen[rd], owners, channel, changes)
  BY ReaderNow
<1>2. /\ readLast[rd] \in Seqs \cup {NoRow} /\ cursor[rd] \in Seqs /\ upTo[rd] \in Seqs
      /\ channel # NoRow => channel.lastSeq \in Seqs
  BY ReaderTypes
<1>3. channel' # NoRow => channel'.lastSeq \in Seqs
  BY DEF TypeOK, ChannelRow
<1>4. Seqs \subseteq Nat
  BY DEF Seqs
<1>a. Single(owners') => Single(owners)
  BY DEF Grows, Single
<1>5. CASE channel = NoRow
  <2>1. readLast'[rd] = NoRow /\ cursor[rd] = 0 /\ upTo[rd] = 0
    BY <1>1, <1>5 DEF SubscriberOK
  <2>2. \A s \in Seqs : ~(0 < s /\ s <= 0)
    BY <1>4
  <2> QED BY <1>1, <2>1, <2>2 DEF SubscriberOK
<1>6. CASE channel # NoRow
  <2>1. /\ channel' # NoRow /\ channel.lastSeq <= channel'.lastSeq
        /\ Single(owners') => \A s \in Seqs : s <= channel.lastSeq => changes'[s] = changes[s]
    BY <1>6 DEF Grows
  <2>2. /\ channel.lastSeq \in Nat /\ channel'.lastSeq \in Nat /\ cursor[rd] \in Nat /\ upTo[rd] \in Nat
        /\ readLast[rd] # NoRow => readLast[rd] \in Nat
    BY <1>2, <1>3, <1>4, <1>6, <2>1
  <2>3. cursor[rd] <= channel.lastSeq /\ upTo[rd] <= channel.lastSeq
    BY <1>1, <2>2 DEF SubscriberOK
  <2>4. /\ cursor[rd] <= channel'.lastSeq /\ upTo[rd] <= channel'.lastSeq
        /\ readLast'[rd] # NoRow => readLast'[rd] <= channel'.lastSeq
    BY <1>1, <2>1, <2>2, <2>3 DEF SubscriberOK
  <2>5. ASSUME Single(owners'), NEW s \in Seqs, s <= cursor[rd] \/ s <= upTo[rd]
        PROVE  changes'[s] = changes[s]
    <3>1. s <= channel.lastSeq
      BY <1>4, <2>2, <2>3, <2>5
    <3> QED BY <2>1, <2>5, <3>1
  <2> QED BY <1>1, <1>a, <2>1, <2>4, <2>5 DEF SubscriberOK
<1> QED BY <1>5, <1>6

\* A page: the subscriber has every row up to its last, and without has_more there is
\* none above.
LEMMA PageTaken ==
  ASSUME ChannelInv, SyncInv, NEW rd \in Readers, SyncItems(rd)
  PROVE  SubscriberOK(readLast'[rd], cursor'[rd], upTo'[rd], seen'[rd], owners', channel', changes')
<1> DEFINE found == {s \in Seqs : changes[s] # NoRow /\ Above(s, rd)}
           page == FirstN(found, PageLimit)
           c == cursor[rd]
           l == readLast[rd]
<1>1. SubscriberOK(l, c, upTo[rd], seen[rd], owners, channel, changes) /\ LogOK
  BY ReaderNow DEF SyncInv
<1>2. /\ l \in Seqs /\ c \in Seqs /\ changes \in ChangeTable
      /\ channel # NoRow => channel.lastSeq \in Seqs
  BY ReaderTypes DEF SyncItems
<1>3. PICK next \in page \cup {c} :
        /\ \A s \in page : s <= next
        /\ page # {} => next \in page
        /\ cursor' = [cursor EXCEPT ![rd] = next]
  BY DEF SyncItems
<1>4. /\ cursor \in [Readers -> Seqs] /\ upTo \in [Readers -> Seqs] /\ seen \in [Readers -> ChangeTable]
      /\ readLast \in [Readers -> Seqs \cup {NoRow}]
  BY DEF ChannelInv, TypeOK
<1>5. /\ upTo' = [upTo EXCEPT ![rd] = IF HasMore(found) THEN 0 ELSE l]
      /\ seen' = [seen EXCEPT ![rd] = [s \in Seqs |-> IF s \in page THEN changes[s] ELSE @[s]]]
      /\ readLast' = [readLast EXCEPT ![rd] = NoRow]
      /\ channel' = channel /\ changes' = changes /\ owners' = owners /\ l # NoRow
  BY DEF SyncItems, tables
<1>6. /\ Seqs \subseteq Nat /\ IsFiniteSet(Seqs) /\ 0 \in Seqs /\ PageLimit \in Nat
  BY ChannelConstantsOK, FS_Interval DEF Seqs
<1>7. found \subseteq Nat /\ IsFiniteSet(found) /\ found \subseteq Seqs
  BY <1>6, FS_Subset
<1>8. \A s \in Seqs : s \in found <=> changes[s] # NoRow /\ s > c
  BY DEF Above
<1>9. page \subseteq found
  BY DEF FirstN
<1>10. ASSUME NEW s \in found, s <= next, page # {} PROVE s \in page
  BY <1>3, <1>6, <1>7, <1>10, PageIsClosed
<1>11. ~HasMore(found) => page = found
  BY <1>6, <1>7, LastPage DEF HasMore
<1> HIDE DEF found, page
<1>12. /\ cursor'[rd] = next /\ readLast'[rd] = NoRow /\ upTo'[rd] = (IF HasMore(found) THEN 0 ELSE l)
       /\ \A s \in Seqs : seen'[rd][s] = IF s \in page THEN changes[s] ELSE seen[rd][s]
  BY <1>3, <1>4, <1>5
<1>13. next \in Nat /\ c \in Nat /\ c <= next /\ (page = {} => next = c)
  <2>1. c \in Nat
    BY <1>2, <1>6
  <2>2. CASE next \in page
    <3>1. next \in Seqs /\ next > c
      BY <1>7, <1>8, <1>9, <2>2
    <3>2. next \in Nat
      BY <1>6, <3>1
    <3> QED BY <2>1, <2>2, <3>1, <3>2
  <2>3. CASE next = c
    BY <2>1, <2>3
  <2> QED BY <1>3, <2>2, <2>3
<1>14. ASSUME next # 0 PROVE channel # NoRow /\ next <= channel.lastSeq
  <2>1. CASE next \in page
    <3>1. next \in Seqs /\ changes[next] # NoRow
      BY <1>7, <1>8, <1>9, <2>1
    <3> QED BY <1>1, <3>1 DEF LogOK
  <2>2. CASE next = c
    BY <1>1, <1>14, <2>2 DEF SubscriberOK
  <2> QED BY <1>3, <2>1, <2>2
<1>15. ASSUME NEW s \in Seqs, s > next PROVE seen'[rd][s] = NoRow
  <2>1. s \notin page /\ s > c
    BY <1>3, <1>6, <1>13, <1>15
  <2> QED BY <1>1, <1>12, <2>1 DEF SubscriberOK
<1>16. ASSUME Single(owners), NEW s \in Seqs, 0 < s, s <= next PROVE seen'[rd][s] = changes[s]
  <2>1. CASE s <= c
    <3>1. s \notin page
      BY <1>6, <1>8, <1>9, <1>13, <2>1
    <3> QED BY <1>1, <1>12, <1>16, <2>1, <3>1 DEF SubscriberOK
  <2>2. CASE ~(s <= c)
    <3>1. s > c /\ page # {} /\ seen[rd][s] = NoRow
      BY <1>1, <1>6, <1>13, <1>16, <2>2 DEF SubscriberOK
    <3>2. CASE changes[s] = NoRow
      BY <1>12, <3>1, <3>2
    <3>3. CASE changes[s] # NoRow
      BY <1>8, <1>10, <1>12, <1>16, <3>1, <3>3
    <3> QED BY <3>2, <3>3
  <2> QED BY <2>1, <2>2
<1>17. ASSUME upTo'[rd] # 0
       PROVE  channel # NoRow /\ upTo'[rd] <= channel.lastSeq
  BY <1>1, <1>5, <1>12, <1>17 DEF SubscriberOK
<1>18. ASSUME NEW s \in Seqs, next < s, s <= upTo'[rd] PROVE changes[s] = NoRow
  <2>1. ~HasMore(found)
    <3>1. ~(s <= 0)
      BY <1>6, <1>13, <1>18
    <3> QED BY <1>12, <1>18, <3>1
  <2>2. page = found
    BY <1>11, <2>1
  <2>3. s \notin page /\ s > c
    BY <1>3, <1>6, <1>13, <1>18
  <2> QED BY <1>8, <2>2, <2>3
<1> QED BY <1>5, <1>12, <1>14, <1>15, <1>16, <1>17, <1>18 DEF SubscriberOK

\* The head is read first: no commit in between takes it back.
LEMMA HeadRead ==
  ASSUME ChannelInv, SyncInv, NEW rd \in Readers, SyncHead(rd)
  PROVE  SubscriberOK(readLast'[rd], cursor'[rd], upTo'[rd], seen'[rd], owners', channel', changes')
<1>1. /\ readLast'[rd] = channel.lastSeq /\ cursor' = cursor /\ upTo' = upTo /\ seen' = seen
      /\ channel' = channel /\ changes' = changes /\ owners' = owners /\ channel # NoRow
  BY DEF SyncHead, tables, ChannelInv, TypeOK
<1>2. channel.lastSeq \in Int
  BY <1>1, ReaderTypes DEF Seqs
<1>3. SubscriberOK(readLast[rd], cursor[rd], upTo[rd], seen[rd], owners, channel, changes)
  BY ReaderNow
<1> QED BY <1>1, <1>2, <1>3 DEF SubscriberOK

\* A step of the reader rd leaves the others alone.
LEMMA OtherReaders ==
  ASSUME ChannelInv, SyncInv, NEW rd \in Readers, SyncHead(rd) \/ SyncItems(rd) \/ ListMessages(rd),
         NEW x \in Readers, x # rd
  PROVE  /\ readLast'[x] = readLast[x] /\ cursor'[x] = cursor[x] /\ upTo'[x] = upTo[x]
         /\ seen'[x] = seen[x]
<1>1. /\ cursor \in [Readers -> Seqs] /\ upTo \in [Readers -> Seqs] /\ seen \in [Readers -> ChangeTable]
      /\ readLast \in [Readers -> Seqs \cup {NoRow}]
  BY DEF ChannelInv, TypeOK
<1>2. CASE SyncHead(rd) \/ ListMessages(rd)
  BY <1>1, <1>2 DEF SyncHead, ListMessages
<1>3. CASE SyncItems(rd)
  <2>1. \E n : cursor' = [cursor EXCEPT ![rd] = n]
    BY <1>3 DEF SyncItems
  <2>2. (\E n : upTo' = [upTo EXCEPT ![rd] = n]) /\ (\E n : seen' = [seen EXCEPT ![rd] = n])
        /\ readLast' = [readLast EXCEPT ![rd] = NoRow]
    BY <1>3 DEF SyncItems
  <2> QED BY <1>1, <2>1, <2>2
<1> QED BY <1>2, <1>3

-----------------------------------------------------------------------------
(* The theorem.                                                            *)

\* Every step of a channel with one push at a time and orderly owners keeps SyncInv.
LEMMA SyncNext ==
  ASSUME ChannelInv, HeadInv, SyncInv, [Next]_vars, TypeOK', \A p, x \in Pushers : p = x, OrderlyOwner
  PROVE  SyncInv'
<1> DEFINE Subscribed == \A rd \in Readers :
              SubscriberOK(readLast'[rd], cursor'[rd], upTo'[rd], seen'[rd], owners', channel', changes')
           Goal == (\A p \in Pushers : TxAdds(p)') /\ LogOK' /\ Subscribed
<1>0. /\ pc \in [Pushers -> {"idle", "checked", "messages", "changes"}] /\ req \in [Pushers -> Pushes \cup {NoRow}]
      /\ oldPV \in [Pushers -> Nat] /\ done \in [Pushers -> Nat]
  BY DEF ChannelInv, TypeOK
<1>a. SUFFICES Goal
  BY ReadersThen DEF SyncInv
<1>b. ASSUME Grows, UNCHANGED readVars PROVE Subscribed
  BY <1>b, ReaderWaits DEF readVars
<1>c. ASSUME UNCHANGED <<tables, txVars, pushVars, owners>> PROVE (\A p \in Pushers : TxAdds(p)') /\ LogOK' /\ Grows
  <2>1. \A p \in Pushers : TxOK(pc[p], req[p], oldPV[p], done[p], channel, changes, txChanges)
    BY TxNow DEF SyncInv
  <2>2. \A p \in Pushers : TxOK(pc'[p], req'[p], oldPV'[p], done'[p], channel', changes', txChanges')
    BY <1>c, <2>1 DEF tables, txVars, pushVars
  <2> QED BY <1>c, <2>2, TxThen, SameLog DEF tables
<1>1. ASSUME NEW p \in Pushers, NEW q \in Pushes, PushCheck(p, q) PROVE Goal
  <2>1. pc'[p] = "checked" /\ req'[p] = q /\ Acceptable(q)
        /\ oldPV'[p] = IF channel = NoRow THEN 0 ELSE channel.pv
    BY <1>0, <1>1 DEF PushCheck
  <2>2. UNCHANGED <<channel, changes, owners>> /\ UNCHANGED readVars
    BY <1>1 DEF PushCheck, tables
  <2>3. TxOK(pc'[p], req'[p], oldPV'[p], done'[p], channel', changes', txChanges')
    BY <2>1, <2>2, TxOutside
  <2> QED BY <1>b, <2>2, <2>3, TxThen, SameLog
<1>2. ASSUME NEW p \in Pushers, PushBegin(p) PROVE Goal
  <2>1. /\ UNCHANGED <<channel, changes, owners>> /\ UNCHANGED readVars /\ pc[p] = "checked"
        /\ pc'[p] = "messages" /\ req'[p] = req[p] /\ oldPV'[p] = oldPV[p] /\ done'[p] = done[p]
        /\ txChanges' = changes
    BY <1>0, <1>2 DEF PushBegin, tables
  <2>2. req[p] \in Pushes /\ done[p] = 0
    BY <2>1, RequestOf DEF ChannelInv, PushOK
  <2>3. TxOK("checked", req[p], oldPV[p], done[p], channel, changes, txChanges)
    BY <2>1, TxNow DEF SyncInv
  <2>4. Reflects(changes, req[p], 0, 0)
    <3>1. req[p].messages \in Seq(Message) /\ req[p].changes \in Seq(Extra)
      BY <2>2, PushFields
    <3>2. (\A i \in DOMAIN req[p].messages : ~(i <= 0)) /\ (\A i \in DOMAIN req[p].changes : ~(i <= 0))
      BY <3>1
    <3> QED BY <3>2 DEF Reflects
  <2>5. TxOK("messages", req[p], oldPV[p], 0, channel, changes, changes)
    BY <2>3, <2>4 DEF TxOK
  <2> QED BY <1>b, <2>1, <2>2, <2>5, TxThen, SameLog
<1>3. ASSUME NEW p \in Pushers, PushMessage(p) \/ PushProfile(p) \/ PushChange(p) PROVE Goal
  <2>1. TxAdds(p)'
    BY <1>3, TxMessage, TxProfile, TxChange
  <2>2. UNCHANGED <<channel, changes, owners>> /\ UNCHANGED readVars
    BY <1>3 DEF PushMessage, PushProfile, PushChange, tables
  <2> QED BY <1>b, <2>1, <2>2, SameLog
<1>4. ASSUME NEW p \in Pushers, Forget(p) PROVE \A x \in Pushers : TxAdds(x)'
  <2>1. pc'[p] = "idle"
    BY <1>0, <1>4 DEF Forget
  <2>2. TxOK(pc'[p], req'[p], oldPV'[p], done'[p], channel', changes', txChanges')
    BY <2>1, TxOutside
  <2> QED BY <2>2, TxThen
<1>5. ASSUME NEW p \in Pushers, PushCommit(p) PROVE Goal
  <2>1. Forget(p) /\ UNCHANGED readVars
    BY <1>5 DEF PushCommit
  <2> QED BY <1>b, <1>4, <1>5, <2>1, CommitGrows
<1>6. ASSUME NEW p \in Pushers, PushRollback(p) \/ PushTimesOut(p) PROVE Goal
  <2>1. Forget(p) /\ UNCHANGED readVars /\ UNCHANGED <<channel, changes, owners>>
    BY <1>6 DEF PushRollback, PushTimesOut, tables
  <2> QED BY <1>b, <1>4, <2>1, SameLog
<1>7. ASSUME NEW rd \in Readers, SyncHead(rd) \/ SyncItems(rd) \/ ListMessages(rd) PROVE Goal
  <2>1. UNCHANGED <<tables, txVars, pushVars, owners>>
    BY <1>7 DEF SyncHead, SyncItems, ListMessages
  <2>2. ASSUME NEW x \in Readers
        PROVE  SubscriberOK(readLast'[x], cursor'[x], upTo'[x], seen'[x], owners', channel', changes')
    <3>1. CASE x # rd
      <4>1. /\ readLast'[x] = readLast[x] /\ cursor'[x] = cursor[x] /\ upTo'[x] = upTo[x]
            /\ seen'[x] = seen[x]
        BY <1>7, <3>1, OtherReaders
      <4> QED BY <1>c, <2>1, <4>1, ReaderWaits
    <3>2. CASE x = rd /\ SyncHead(rd)
      BY <3>2, HeadRead
    <3>3. CASE x = rd /\ SyncItems(rd)
      BY <3>3, PageTaken
    <3>4. CASE x = rd /\ ListMessages(rd)
      BY <1>c, <2>1, <3>4, ReaderWaits DEF ListMessages
    <3> QED BY <1>7, <3>1, <3>2, <3>3, <3>4
  <2> QED BY <1>c, <2>1, <2>2
<1>8. CASE Crash
  <2>1. UNCHANGED <<channel, changes, owners>> /\ UNCHANGED <<cursor, seen, upTo>>
        /\ readLast' = [rd \in Readers |-> NoRow] /\ pc' = [p \in Pushers |-> "idle"]
    BY <1>8 DEF Crash, tables
  <2>2. ASSUME NEW p \in Pushers PROVE TxAdds(p)'
    <3>1. TxOK(pc'[p], req'[p], oldPV'[p], done'[p], channel', changes', txChanges')
      BY <2>1, TxOutside
    <3> QED BY <3>1, TxThen
  <2>3. Subscribed
    BY <2>1, SameLog, ReaderWaits
  <2> QED BY <2>1, <2>2, <2>3, SameLog
<1>9. CASE UNCHANGED vars
  <2>1. UNCHANGED <<tables, txVars, pushVars, owners>> /\ UNCHANGED readVars
    BY <1>9 DEF vars
  <2> QED BY <1>b, <1>c, <2>1
<1> HIDE DEF Goal
<1> QED BY <1>1, <1>2, <1>3, <1>5, <1>6, <1>7, <1>8, <1>9 DEF Next, TxStep

\* With one push at a time and orderly owners, SyncInv holds in every reachable state,
\* also after the channel has passed to another peer.
THEOREM SyncInvariance ==
  ASSUME \A p, x \in Pushers : p = x, OrderlyOwner
  PROVE  Spec => []SyncInv
<1>1. Init => SyncInv
  <2> SUFFICES ASSUME Init PROVE SyncInv
    OBVIOUS
  <2>1. \A p \in Pushers : TxAdds(p)
    BY DEF Init, TxAdds
  <2>2. LogOK
    BY DEF Init, LogOK
  <2>3. \A rd \in Readers : ReaderOK(rd)
    BY DEF Init, ReaderOK
  <2>4. \A s \in Seqs : s \in Nat
    BY DEF Seqs
  <2>5. SubscribersMissNothing /\ SyncEndsComplete
    BY <2>4 DEF Init, SubscribersMissNothing, SyncEndsComplete
  <2> QED BY <2>1, <2>2, <2>3, <2>5 DEF SyncInv
<1>2. (ChannelInv /\ HeadInv) /\ TypeOK' /\ SyncInv /\ [Next]_vars => SyncInv'
  BY SyncNext
<1>3. ChannelInv => TypeOK
  BY DEF ChannelInv
<1> QED BY <1>1, <1>2, <1>3, HeadInvariance, PTL DEF Spec

\* With one push at a time and an orderly owner, a subscriber that follows
\* next_after_seq misses nothing as long as the channel keeps its owner, for every
\* page limit (SyncChanges).
THEOREM SubscribersCorrect ==
  ASSUME \A p, x \in Pushers : p = x, OrderlyOwner
  PROVE  Spec => []SubscribersMissNothing
<1>1. SyncInv => SubscribersMissNothing
  BY DEF SyncInv
<1> QED BY <1>1, SyncInvariance, PTL

\* Under the same conditions an answer without has_more leaves nothing out up to its
\* current_last_seq, although the two are read apart (SyncChanges).
THEOREM SyncEndCorrect ==
  ASSUME \A p, x \in Pushers : p = x, OrderlyOwner
  PROVE  Spec => []SyncEndsComplete
<1>1. SyncInv => SyncEndsComplete
  BY DEF SyncInv
<1> QED BY <1>1, SyncInvariance, PTL

================================================================================
