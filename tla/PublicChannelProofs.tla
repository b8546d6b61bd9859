------------------------- MODULE PublicChannelProofs -------------------------
(***************************************************************************)
(* What TLAPS proves about PublicChannel.  For every set of push requests, *)
(* pushers and readers: types, the index, the versions of messages, the    *)
(* atomicity of a push.  For one push at a time also: the head, the owner  *)
(* and the messages within the head.                                       *)
(***************************************************************************)
EXTENDS PublicChannel, TLAPS

-----------------------------------------------------------------------------
(* Requests.                                                               *)

\* The fields of a request that may arrive.
LEMMA PushFields ==
  ASSUME NEW q \in Pushes
  PROVE  /\ q # NoRow
         /\ q.owner \in Peers /\ q.pv \in Nat /\ q.lastId \in Nat /\ q.lastSeq \in Seqs
         /\ q.messages \in Seq(Message)
         /\ q.changes \in Seq(Extra)
         /\ Upserted(q) \in ChannelRow
<1>1. q \in Push /\ NoRow \notin Push
  BY ChannelConstantsOK
<1> QED BY <1>1 DEF Push, Upserted, ChannelRow

\* The message PushMessage writes.
LEMMA MessageFields ==
  ASSUME NEW q \in Pushes, NEW n \in Nat, n < Len(q.messages)
  PROVE  LET m == q.messages[n + 1]
         IN m.id \in Ids /\ m.ver \in Nat /\ m.seq \in Seqs
<1>1. q.messages \in Seq(Message) /\ n + 1 \in 1..Len(q.messages)
  BY PushFields
<1>2. q.messages[n + 1] \in Message
  BY <1>1
<1> QED BY <1>2 DEF Message

\* The change PushChange writes.
LEMMA ChangeFields ==
  ASSUME NEW q \in Pushes, NEW n \in Nat, n < Len(q.changes)
  PROVE  LET e == q.changes[n + 1] IN e.seq \in Seqs /\ e.row \in ChangeRow
<1>1. q.changes \in Seq(Extra) /\ n + 1 \in 1..Len(q.changes)
  BY PushFields
<1>2. q.changes[n + 1] \in Extra
  BY <1>1
<1> QED BY <1>2 DEF Extra

\* A row that exists is not NoRow.
LEMMA RowsExist ==
  /\ NoRow \notin MessageRow /\ NoRow \notin ChangeRow /\ NoRow \notin ChannelRow
  /\ NoRow \notin Pushes
  BY ChannelConstantsOK

\* The rows upsertChange leaves are rows.
LEMMA ChangeTypes ==
  ASSUME NEW row \in ChangeRow \cup {NoRow}
  PROVE  /\ \A m : m.id \in Ids /\ m.ver \in Nat => MessageChange(m, row) \in ChangeRow
         /\ \A pv \in Nat : ProfileChange(pv, row) \in ChangeRow
<1>1. CASE row = NoRow
  BY <1>1 DEF ChangeRow, MessageChange, ProfileChange
<1>2. CASE row # NoRow
  <2>1. row \in ChangeRow
    BY <1>2
  <2> QED BY <1>2, <2>1 DEF ChangeRow, MessageChange, ProfileChange
<1> QED BY <1>1, <1>2

-----------------------------------------------------------------------------
(* Types.                                                                  *)

\* An empty database and idle goroutines have their types.
LEMMA TypeInit == Init => TypeOK
<1> SUFFICES ASSUME Init PROVE TypeOK
  OBVIOUS
<1>1. 0 \in Seqs
  BY ChannelConstantsOK DEF Seqs
<1> QED BY <1>1, ChannelConstantsOK DEF Init, TypeOK, MessageTable, ChangeTable

\* A push that is under way has a request.
LEMMA RequestOf ==
  ASSUME ChannelInv, NEW p \in Pushers, pc[p] # "idle"
  PROVE  req[p] \in Pushes
  BY DEF ChannelInv, TypeOK, PushOK

\* Ending a transaction leaves no trace of it.
LEMMA EndTxTypes ==
  EndTx => /\ conn' = NoHolder /\ txChannel' = NoRow
           /\ txMessages' \in MessageTable /\ txChanges' \in ChangeTable
           /\ \A id \in Ids : txMessages'[id] = NoRow
  BY DEF EndTx, MessageTable, ChangeTable

\* A goroutine that returns keeps none of its locals.
LEMMA ForgetTypes ==
  ASSUME TypeOK, NEW p \in Pushers, Forget(p)
  PROVE  /\ pc' \in [Pushers -> {"idle", "checked", "messages", "changes"}]
         /\ req' \in [Pushers -> Pushes \cup {NoRow}]
         /\ oldPV' \in [Pushers -> Nat]
         /\ done' \in [Pushers -> Nat]
         /\ \A x \in Pushers : pc'[x] = IF x = p THEN "idle" ELSE pc[x]
  BY DEF TypeOK, Forget

\* The statements of an open transaction keep the types.
LEMMA TypeTx ==
  ASSUME ChannelInv, NEW p \in Pushers, TxStep(p)
  PROVE  TypeOK'
<1>0. TypeOK /\ NoHolder \notin Pushers
  BY ChannelConstantsOK DEF ChannelInv
<1>1. CASE PushMessage(p)
  <2> DEFINE m == req[p].messages[done[p] + 1]
  <2>1. req[p] \in Pushes /\ done[p] \in Nat /\ done[p] < Len(req[p].messages)
    BY <1>0, <1>1, RequestOf DEF PushMessage, TypeOK
  <2>2. m.id \in Ids /\ m.ver \in Nat /\ m.seq \in Seqs
    BY <2>1, MessageFields
  <2>3. txMessages' = [txMessages EXCEPT ![m.id] = [ver |-> m.ver, seq |-> m.seq]]
    BY <1>1 DEF PushMessage
  <2>4. txChanges' = [txChanges EXCEPT ![m.seq] = MessageChange(m, txChanges[m.seq])]
    BY <1>1 DEF PushMessage
  <2>5. txMessages' \in MessageTable
    BY <1>0, <2>2, <2>3 DEF TypeOK, MessageTable, MessageRow
  <2>6. MessageChange(m, txChanges[m.seq]) \in ChangeRow
    <3>1. txChanges[m.seq] \in ChangeRow \cup {NoRow}
      BY <1>0, <2>2 DEF TypeOK, ChangeTable
    <3> QED BY <2>2, <3>1, ChangeTypes
  <2>7. txChanges' \in ChangeTable
    BY <1>0, <2>2, <2>4, <2>6 DEF TypeOK, ChangeTable
  <2>8. done' \in [Pushers -> Nat]
    BY <1>0, <1>1 DEF PushMessage, TypeOK
  <2> QED BY <1>0, <1>1, <2>5, <2>7, <2>8 DEF PushMessage, tables, readVars, TypeOK
<1>2. CASE PushProfile(p)
  <2> DEFINE q == req[p]
  <2>1. q \in Pushes
    BY <1>2, RequestOf DEF PushProfile
  <2>2. q.lastSeq \in Seqs /\ q.pv \in Nat
    BY <2>1, PushFields
  <2>3. txChanges' = [txChanges EXCEPT ![q.lastSeq] = ProfileChange(q.pv, txChanges[q.lastSeq])]
        \/ txChanges' = txChanges
    BY <1>2 DEF PushProfile
  <2>4. ProfileChange(q.pv, txChanges[q.lastSeq]) \in ChangeRow
    <3>1. txChanges[q.lastSeq] \in ChangeRow \cup {NoRow}
      BY <1>0, <2>2 DEF TypeOK, ChangeTable
    <3> QED BY <2>2, <3>1, ChangeTypes
  <2>5. txChanges' \in ChangeTable
    BY <1>0, <2>2, <2>3, <2>4 DEF TypeOK, ChangeTable
  <2>6. done' \in [Pushers -> Nat]
        /\ pc' \in [Pushers -> {"idle", "checked", "messages", "changes"}]
        /\ \A x \in Pushers : pc'[x] \in {"messages", "changes"} <=> conn = x
    BY <1>0, <1>2 DEF PushProfile, TypeOK
  <2> QED BY <1>0, <1>2, <2>5, <2>6 DEF PushProfile, tables, readVars, TypeOK
<1>3. CASE PushChange(p)
  <2> DEFINE e == req[p].changes[done[p] + 1]
  <2>1. req[p] \in Pushes /\ done[p] \in Nat /\ done[p] < Len(req[p].changes)
    BY <1>0, <1>3, RequestOf DEF PushChange, TypeOK
  <2>2. e.seq \in Seqs /\ e.row \in ChangeRow
    BY <2>1, ChangeFields
  <2>3. txChanges' = [txChanges EXCEPT ![e.seq] = e.row]
    BY <1>3 DEF PushChange
  <2>4. txChanges' \in ChangeTable
    BY <1>0, <2>2, <2>3 DEF TypeOK, ChangeTable
  <2>5. done' \in [Pushers -> Nat]
    BY <1>0, <1>3 DEF PushChange, TypeOK
  <2> QED BY <1>0, <1>3, <2>4, <2>5 DEF PushChange, tables, readVars, TypeOK
<1>4. CASE PushCommit(p)
  <2>1. /\ channel' \in ChannelRow \cup {NoRow}
        /\ messages' \in MessageTable
        /\ changes' \in ChangeTable
    BY <1>0, <1>4 DEF PushCommit, TypeOK
  <2>a. owners' \subseteq Peers
    <3>1. txChannel.owner \in Peers
      BY <1>4, PushFields, RequestOf DEF PushCommit, ChannelInv, PushOK, Upserted
    <3> QED BY <1>0, <1>4, <3>1 DEF PushCommit, TypeOK
  <2>2. EndTx /\ Forget(p) /\ UNCHANGED <<readVars, faults>>
    BY <1>4 DEF PushCommit
  <2>3. /\ readLast' \in [Readers -> Seqs \cup {NoRow}]
        /\ cursor' \in [Readers -> Seqs]
        /\ seen' \in [Readers -> ChangeTable]
        /\ upTo' \in [Readers -> Seqs]
        /\ before' \in [Readers -> {0} \cup Ids]
        /\ listed' \in [Readers -> {"none", "page", "not_found"}]
        /\ faults' \in Nat
    BY <1>0, <2>2 DEF readVars, TypeOK
  <2>4. \A x \in Pushers : pc'[x] \in {"messages", "changes"} <=> conn' = x
    <3>1. conn = p
      BY <1>0, <1>4 DEF PushCommit, TypeOK
    <3>2. \A x \in Pushers \ {p} : pc[x] \notin {"messages", "changes"}
      BY <1>0, <3>1 DEF TypeOK
    <3>3. \A x \in Pushers : pc'[x] = IF x = p THEN "idle" ELSE pc[x]
      BY <1>0, <2>2, ForgetTypes
    <3>4. conn' = NoHolder
      BY <2>2, EndTxTypes
    <3> QED BY <1>0, <3>2, <3>3, <3>4
  <2> QED BY <1>0, <2>1, <2>a, <2>2, <2>3, <2>4, EndTxTypes, ForgetTypes DEF TypeOK
<1>5. CASE PushRollback(p)
  BY <1>0, <1>5, EndTxTypes, ForgetTypes DEF PushRollback, tables, readVars, TypeOK
<1> QED BY <1>1, <1>2, <1>3, <1>4, <1>5 DEF TxStep

\* Every step keeps the types.
LEMMA TypeNext == ChannelInv /\ [Next]_vars => TypeOK'
<1> SUFFICES ASSUME ChannelInv, [Next]_vars PROVE TypeOK'
  OBVIOUS
<1>0. TypeOK /\ NoHolder \notin Pushers
  BY ChannelConstantsOK DEF ChannelInv
<1>1. ASSUME NEW p \in Pushers, NEW q \in Pushes, PushCheck(p, q) PROVE TypeOK'
  <2>1. oldPV' \in [Pushers -> Nat]
    BY <1>0, <1>1 DEF PushCheck, TypeOK, ChannelRow
  <2> QED BY <1>0, <1>1, <2>1 DEF PushCheck, tables, txVars, readVars, TypeOK
<1>2. ASSUME NEW p \in Pushers, PushBegin(p) PROVE TypeOK'
  <2>1. txChannel' \in ChannelRow
    BY <1>2, RequestOf, PushFields DEF PushBegin
  <2> QED BY <1>0, <1>2, <2>1 DEF PushBegin, Free, tables, readVars, TypeOK
<1>3. ASSUME NEW p \in Pushers, PushTimesOut(p) PROVE TypeOK'
  BY <1>0, <1>3, ForgetTypes DEF PushTimesOut, tables, txVars, readVars, TypeOK
<1>4. ASSUME NEW rd \in Readers, SyncHead(rd) PROVE TypeOK'
  BY <1>0, <1>4 DEF SyncHead, tables, txVars, pushVars, TypeOK, ChannelRow
<1>5. ASSUME NEW rd \in Readers, SyncItems(rd) PROVE TypeOK'
  <2> DEFINE page == FirstN({s \in Seqs : changes[s] # NoRow /\ Above(s, rd)}, PageLimit)
  <2>1. page \subseteq Seqs
    BY DEF FirstN
  <2>2. readLast[rd] \in Seqs /\ cursor[rd] \in Seqs
    BY <1>0, <1>5 DEF SyncItems, TypeOK
  <2>3. PICK next \in page \cup {cursor[rd]} : cursor' = [cursor EXCEPT ![rd] = next]
    BY <1>5 DEF SyncItems
  <2>4. cursor' \in [Readers -> Seqs]
    BY <1>0, <2>1, <2>2, <2>3 DEF TypeOK
  <2>8. 0 \in Seqs
    BY ChannelConstantsOK DEF Seqs
  <2>9. upTo' \in [Readers -> Seqs]
    BY <1>0, <1>5, <2>2, <2>8 DEF SyncItems, TypeOK
  <2>5. seen' = [seen EXCEPT ![rd] = [s \in Seqs |-> IF s \in page THEN changes[s] ELSE @[s]]]
    BY <1>5 DEF SyncItems
  <2> HIDE DEF page
  <2>6. seen' \in [Readers -> ChangeTable]
    BY <1>0, <2>1, <2>5 DEF TypeOK, ChangeTable
  <2>7. readLast' \in [Readers -> Seqs \cup {NoRow}]
    BY <1>0, <1>5 DEF SyncItems, TypeOK
  <2> QED BY <1>0, <1>5, <2>4, <2>6, <2>7, <2>9 DEF SyncItems, tables, txVars, pushVars, TypeOK
<1>6. ASSUME NEW rd \in Readers, ListMessages(rd) PROVE TypeOK'
  <2>1. before' \in [Readers -> {0} \cup Ids] /\ listed' \in [Readers -> {"none", "page", "not_found"}]
    <3> DEFINE below == {id \in Ids : messages[id] # NoRow /\ (before[rd] # 0 => id < before[rd])}
               page == {id \in below : Cardinality({x \in below : x > id}) < PageLimit}
    <3>1. CASE /\ listed' = [listed EXCEPT ![rd] = "not_found"]
               /\ before' = [before EXCEPT ![rd] = 0]
      BY <1>0, <3>1 DEF TypeOK
    <3>2. CASE /\ listed' = [listed EXCEPT ![rd] = "page"]
               /\ \E low \in page : before' = [before EXCEPT ![rd] = low]
      <4>1. page \subseteq Ids
        OBVIOUS
      <4> HIDE DEF page
      <4> QED BY <1>0, <3>2, <4>1 DEF TypeOK
    <3> QED BY <1>6, <3>1, <3>2 DEF ListMessages
  <2> QED BY <1>0, <1>6, <2>1 DEF ListMessages, tables, txVars, pushVars, TypeOK
<1>7. CASE Crash
  BY <1>0, <1>7, EndTxTypes, ChannelConstantsOK DEF Crash, tables, TypeOK
<1>8. CASE UNCHANGED vars
  BY <1>0, <1>8 DEF vars, tables, txVars, pushVars, readVars, TypeOK
<1> QED BY <1>1, <1>2, <1>3, <1>4, <1>5, <1>6, <1>7, <1>8, TypeTx DEF Next

-----------------------------------------------------------------------------
(* What an open transaction has done so far.                               *)

\* Superseding is transitive.
LEMMA FollowsTwice ==
  ASSUME NEW a \in MessageTable, NEW b \in MessageTable, NEW c \in MessageTable,
         Follows(a, b), Follows(b, c)
  PROVE  Follows(a, c)
<1> SUFFICES ASSUME NEW id \in Ids, a[id] # NoRow
    PROVE  /\ c[id] # NoRow
           /\ \/ c[id].ver > a[id].ver
              \/ c[id].ver = a[id].ver /\ c[id].seq >= a[id].seq
  BY DEF Follows
<1>1. b[id] # NoRow /\ c[id] # NoRow
  BY DEF Follows
<1>2. a[id] \in MessageRow /\ b[id] \in MessageRow /\ c[id] \in MessageRow
  BY <1>1 DEF MessageTable
<1>3. /\ a[id].ver \in Nat /\ b[id].ver \in Nat /\ c[id].ver \in Nat
      /\ a[id].seq \in Int /\ b[id].seq \in Int /\ c[id].seq \in Int
  BY <1>2 DEF MessageRow, Seqs
<1> QED BY <1>1, <1>3 DEF Follows

\* A table follows itself.
LEMMA FollowsItself ==
  ASSUME NEW a \in MessageTable
  PROVE  Follows(a, a)
<1> SUFFICES ASSUME NEW id \in Ids, a[id] # NoRow PROVE a[id].seq >= a[id].seq
  BY DEF Follows
<1>1. a[id] \in MessageRow
  BY DEF MessageTable
<1> QED BY <1>1 DEF MessageRow, Seqs

\* One message of the transaction: the table follows the one before, and the
\* message is in it.
LEMMA MessageWritten ==
  ASSUME ChannelInv, NEW p \in Pushers, PushMessage(p)
  PROVE  LET m == req[p].messages[done[p] + 1]
         IN /\ req[p] \in Pushes /\ done[p] \in Nat /\ done[p] < Len(req[p].messages)
            /\ m.id \in Ids /\ m.ver \in Nat /\ m.seq \in Seqs
            /\ txMessages' = [txMessages EXCEPT ![m.id] = [ver |-> m.ver, seq |-> m.seq]]
            /\ txChanges' = [txChanges EXCEPT ![m.seq] = MessageChange(m, txChanges[m.seq])]
            /\ txMessages'[m.id] = [ver |-> m.ver, seq |-> m.seq]
            /\ txMessages'[m.id] # NoRow
            /\ Follows(txMessages, txMessages')
<1> DEFINE m == req[p].messages[done[p] + 1]
           row == [ver |-> m.ver, seq |-> m.seq]
<1>0. TypeOK /\ txMessages \in MessageTable
  BY DEF ChannelInv, TypeOK
<1>1. req[p] \in Pushes /\ done[p] \in Nat /\ done[p] < Len(req[p].messages)
  BY <1>0, RequestOf DEF PushMessage, TypeOK
<1>2. m.id \in Ids /\ m.ver \in Nat /\ m.seq \in Seqs
  BY <1>1, MessageFields
<1>3. /\ txMessages' = [txMessages EXCEPT ![m.id] = row]
      /\ txChanges' = [txChanges EXCEPT ![m.seq] = MessageChange(m, txChanges[m.seq])]
      /\ Supersedes(m, txMessages[m.id])
  BY DEF PushMessage
<1>4. row \in MessageRow /\ row # NoRow
  BY <1>2, RowsExist DEF MessageRow
<1>5. txMessages'[m.id] = row /\ \A id \in Ids : id # m.id => txMessages'[id] = txMessages[id]
  BY <1>0, <1>2, <1>3 DEF MessageTable
<1>6. Follows(txMessages, txMessages')
  <2> SUFFICES ASSUME NEW id \in Ids, txMessages[id] # NoRow
      PROVE  /\ txMessages'[id] # NoRow
             /\ \/ txMessages'[id].ver > txMessages[id].ver
                \/ txMessages'[id].ver = txMessages[id].ver /\ txMessages'[id].seq >= txMessages[id].seq
    BY DEF Follows
  <2>1. CASE id = m.id
    <3>1. txMessages'[id].ver = m.ver /\ txMessages'[id].seq = m.seq /\ txMessages'[id] # NoRow
      BY <1>4, <1>5, <2>1
    <3> QED BY <1>3, <2>1, <3>1 DEF Supersedes
  <2>2. CASE id # m.id
    <3>1. Follows(txMessages, txMessages)
      BY <1>0, FollowsItself
    <3> QED BY <1>5, <2>2, <3>1 DEF Follows
  <2> QED BY <2>1, <2>2
<1> QED BY <1>1, <1>2, <1>3, <1>4, <1>5, <1>6

\* Only the holder of the connection is inside its transaction.
LEMMA OneTransaction ==
  ASSUME TypeOK, NEW p \in Pushers, NEW x \in Pushers, x # p,
         pc[p] \in {"messages", "changes"}
  PROVE  pc[x] \in {"idle", "checked"}
  BY DEF TypeOK

\* A push that is not inside its transaction does not care about the tables.
LEMMA OutsideOK ==
  ASSUME NEW x \in Pushers, PushOK(x), pc[x] \in {"idle", "checked"},
         pc'[x] = pc[x], req'[x] = req[x], done'[x] = done[x]
  PROVE  PushOK(x)'
  BY DEF PushOK

\* A push that has returned satisfies its invariant.
LEMMA IdleOK ==
  ASSUME NEW x \in Pushers, pc'[x] = "idle", done'[x] = 0
  PROVE  PushOK(x)'
  BY DEF PushOK

\* A step that changes neither the push, the transaction nor messages.
LEMMA UnchangedOK ==
  ASSUME NEW x \in Pushers, PushOK(x), pc'[x] = pc[x], req'[x] = req[x],
         done'[x] = done[x], UNCHANGED <<messages, txChannel, txMessages>>
  PROVE  PushOK(x)'
  BY DEF PushOK, Written, Follows

\* The statements of p's transaction keep PushOK for everyone.
LEMMA PushOKTx ==
  ASSUME ChannelInv, NEW p \in Pushers, TxStep(p), NEW x \in Pushers
  PROVE  PushOK(x)'
<1>0. TypeOK /\ PushOK(x) /\ PushOK(p)
  BY DEF ChannelInv
<1>1. pc[p] \in {"messages", "changes"}
  BY DEF TxStep, PushMessage, PushProfile, PushChange, PushCommit, PushRollback
<1>2. CASE x # p
  <2>1. pc'[x] = pc[x] /\ req'[x] = req[x] /\ done'[x] = done[x]
    BY <1>0, <1>2 DEF TxStep, PushMessage, PushProfile, PushChange, PushCommit, PushRollback,
                      Forget, TypeOK
  <2>2. pc[x] \in {"idle", "checked"}
    BY <1>0, <1>1, <1>2, OneTransaction
  <2> QED BY <1>0, <2>1, <2>2, OutsideOK
<1>3. CASE x = p
  <2>1. CASE PushMessage(p)
    <3> DEFINE m == req[p].messages[done[p] + 1]
    <3>1. /\ req[p] \in Pushes /\ done[p] \in Nat /\ done[p] < Len(req[p].messages)
          /\ m.id \in Ids /\ m.ver \in Nat
          /\ txMessages'[m.id] = [ver |-> m.ver, seq |-> m.seq]
          /\ txMessages'[m.id] # NoRow
          /\ Follows(txMessages, txMessages')
      BY <2>1, MessageWritten
    <3>2. /\ pc[p] = "messages" /\ pc' = pc /\ req' = req /\ messages' = messages
          /\ txChannel' = txChannel /\ done'[p] = done[p] + 1
      BY <1>0, <2>1 DEF PushMessage, tables, TypeOK
    <3>3. Follows(messages', txMessages')
      <4>1. messages \in MessageTable /\ txMessages \in MessageTable /\ txMessages' \in MessageTable
        BY <1>0, <2>1, TypeTx DEF TypeOK, TxStep
      <4>2. Follows(messages, txMessages)
        BY <1>0, <3>2 DEF PushOK
      <4>3. Follows(messages, txMessages')
        BY <3>1, <4>1, <4>2, FollowsTwice
      <4> QED BY <3>2, <4>3
    <3>4. ASSUME NEW i \in DOMAIN req[p].messages, i <= done[p] + 1
          PROVE  Written(req[p].messages[i])'
      <4> DEFINE n == req[p].messages[i]
      <4>0. i \in Nat /\ n.id \in Ids /\ n.ver \in Nat /\ i \in 1..Len(req[p].messages)
        <5>1. req[p].messages \in Seq(Message)
          BY <3>1, PushFields
        <5>2. i \in 1..Len(req[p].messages) /\ n \in Message
          BY <5>1
        <5>3. i \in Nat
          BY <5>1, <5>2
        <5>4. n.id \in Ids /\ n.ver \in Nat
          <6> HIDE DEF n
          <6> QED BY <5>2 DEF Message
        <5> QED BY <5>2, <5>3, <5>4
      <4>1. CASE i = done[p] + 1
        <5>1. txMessages'[n.id] # NoRow /\ txMessages'[n.id].ver >= n.ver
          BY <3>1, <4>1
        <5> QED BY <3>2, <5>1 DEF Written
      <4>2. CASE i # done[p] + 1
        <5>1. i <= done[p]
          BY <3>1, <3>4, <4>0, <4>2
        <5>2. txMessages[n.id] # NoRow /\ txMessages[n.id].ver >= n.ver
          BY <1>0, <3>2, <5>1 DEF PushOK, Written
        <5>3. txMessages'[n.id] # NoRow /\ txMessages'[n.id].ver >= txMessages[n.id].ver
          <6>1. /\ txMessages'[n.id] # NoRow
                /\ txMessages'[n.id].ver > txMessages[n.id].ver
                   \/ txMessages'[n.id].ver = txMessages[n.id].ver
            BY <3>1, <4>0, <5>2 DEF Follows
          <6>2. txMessages[n.id] \in MessageRow /\ txMessages'[n.id] \in MessageRow
            BY <1>0, <2>1, <4>0, <5>2, <6>1, TypeTx DEF TypeOK, MessageTable, TxStep
          <6> QED BY <6>1, <6>2 DEF MessageRow
        <5>4. txMessages[n.id].ver \in Nat /\ txMessages'[n.id].ver \in Nat
          <6>1. txMessages[n.id] \in MessageRow /\ txMessages'[n.id] \in MessageRow
            BY <1>0, <2>1, <4>0, <5>2, <5>3, TypeTx DEF TypeOK, MessageTable, TxStep
          <6> QED BY <6>1 DEF MessageRow
        <5>5. txMessages'[n.id].ver >= n.ver
          BY <4>0, <5>2, <5>3, <5>4
        <5> QED BY <3>2, <5>3, <5>5 DEF Written
      <4> QED BY <4>1, <4>2
    <3>5. txChannel' = Upserted(req'[p])
      BY <1>0, <3>2 DEF PushOK, Upserted
    <3> QED BY <1>0, <1>3, <3>1, <3>2, <3>3, <3>4, <3>5, RowsExist DEF PushOK
  <2>2. CASE PushProfile(p)
    <3>1. /\ pc[p] = "messages" /\ pc'[p] = "changes" /\ req' = req /\ messages' = messages
          /\ txChannel' = txChannel /\ txMessages' = txMessages /\ done[p] = Len(req[p].messages)
      BY <1>0, <2>2 DEF PushProfile, tables, TypeOK
    <3>2. \A i \in DOMAIN req[p].messages : i <= done[p]
      <4>1. req[p].messages \in Seq(Message)
        BY <3>1, RequestOf, PushFields
      <4> QED BY <3>1, <4>1
    <3> QED BY <1>0, <1>3, <3>1, <3>2 DEF PushOK, Written, Follows, Upserted
  <2>3. CASE PushChange(p)
    <3>1. /\ pc[p] = "changes" /\ pc' = pc /\ req' = req /\ messages' = messages
          /\ txChannel' = txChannel /\ txMessages' = txMessages
      BY <2>3 DEF PushChange, tables
    <3> QED BY <1>0, <1>3, <3>1 DEF PushOK, Written, Follows, Upserted
  <2>4. CASE PushCommit(p) \/ PushRollback(p)
    BY <1>0, <1>3, <2>4, IdleOK DEF PushCommit, PushRollback, Forget, TypeOK
  <2> QED BY <2>1, <2>2, <2>3, <2>4 DEF TxStep
<1> QED BY <1>2, <1>3

\* Every step keeps what is known of every push.
LEMMA PushOKNext ==
  ASSUME ChannelInv, [Next]_vars, NEW x \in Pushers
  PROVE  PushOK(x)'
<1>0. TypeOK /\ PushOK(x)
  BY DEF ChannelInv
<1>1. ASSUME NEW p \in Pushers, NEW q \in Pushes, PushCheck(p, q) PROVE PushOK(x)'
  <2>1. CASE x = p
    <3>1. pc'[x] = "checked" /\ req'[x] = q /\ done'[x] = done[x] /\ pc[x] = "idle"
      BY <1>0, <1>1, <2>1 DEF PushCheck, TypeOK
    <3> QED BY <1>0, <3>1, RowsExist DEF PushOK
  <2>2. CASE x # p
    BY <1>0, <1>1, <2>2, UnchangedOK DEF PushCheck, tables, txVars, TypeOK
  <2> QED BY <2>1, <2>2
<1>2. ASSUME NEW p \in Pushers, PushBegin(p) PROVE PushOK(x)'
  <2>0. messages' = messages /\ txMessages' = messages /\ req' = req /\ done' = done
    BY <1>2 DEF PushBegin, tables
  <2>1. CASE x = p
    <3>1. pc[x] = "checked" /\ pc'[x] = "messages" /\ txChannel' = Upserted(req[x])
      BY <1>0, <1>2, <2>1 DEF PushBegin, TypeOK
    <3>2. Follows(messages', txMessages')
      <4>1. Follows(messages, messages)
        BY <1>0, FollowsItself DEF TypeOK
      <4> QED BY <2>0, <4>1
    <3>3. \A i \in DOMAIN req[x].messages : ~(i <= done[x])
      <4>1. req[x].messages \in Seq(Message)
        BY <3>1, RequestOf, PushFields
      <4>2. done[x] = 0
        BY <1>0, <3>1 DEF PushOK
      <4> QED BY <4>1, <4>2
    <3>4. req[x] # NoRow
      BY <1>0, <3>1 DEF PushOK
    <3>5. txChannel' = Upserted(req'[x])
      BY <2>0, <3>1
    <3> QED BY <2>0, <3>1, <3>2, <3>3, <3>4, <3>5 DEF PushOK
  <2>2. CASE x # p
    <3>1. pc'[x] = pc[x] /\ pc[x] \in {"idle", "checked"}
      BY <1>0, <1>2, <2>2, ChannelConstantsOK DEF PushBegin, Free, TypeOK
    <3> QED BY <1>0, <2>0, <3>1, OutsideOK
  <2> QED BY <2>1, <2>2
<1>3. ASSUME NEW p \in Pushers, TxStep(p) PROVE PushOK(x)'
  BY <1>3, PushOKTx
<1>4. ASSUME NEW p \in Pushers, PushTimesOut(p) PROVE PushOK(x)'
  <2>1. CASE x = p
    BY <1>0, <1>4, <2>1, IdleOK DEF PushTimesOut, Forget, TypeOK
  <2>2. CASE x # p
    BY <1>0, <1>4, <2>2, UnchangedOK DEF PushTimesOut, Forget, tables, txVars, TypeOK
  <2> QED BY <2>1, <2>2
<1>5. ASSUME NEW rd \in Readers, SyncHead(rd) \/ SyncItems(rd) \/ ListMessages(rd) PROVE PushOK(x)'
  BY <1>0, <1>5, UnchangedOK DEF SyncHead, SyncItems, ListMessages, tables, txVars, pushVars
<1>6. CASE Crash
  BY <1>6, IdleOK DEF Crash
<1>7. CASE UNCHANGED vars
  BY <1>0, <1>7, UnchangedOK DEF vars, tables, txVars, pushVars
<1> QED BY <1>1, <1>2, <1>3, <1>4, <1>5, <1>6, <1>7 DEF Next

-----------------------------------------------------------------------------
(* The index of the messages.                                              *)

\* A table without messages is indexed by anything.
LEMMA EmptyIndexed ==
  ASSUME NEW rows, NEW log, \A id \in Ids : rows[id] = NoRow
  PROVE  Indexed(rows, log)
  BY DEF Indexed

\* One message of the transaction: it gets the row at its seq, which no other
\* message has.
LEMMA IndexMessage ==
  ASSUME ChannelInv, NEW p \in Pushers, PushMessage(p), Indexed(txMessages, txChanges)
  PROVE  Indexed(txMessages', txChanges')
<1> DEFINE m == req[p].messages[done[p] + 1]
<1>0. txMessages \in MessageTable /\ txChanges \in ChangeTable
  BY DEF ChannelInv, TypeOK
<1>1. /\ m.id \in Ids /\ m.ver \in Nat /\ m.seq \in Seqs
      /\ txMessages' = [txMessages EXCEPT ![m.id] = [ver |-> m.ver, seq |-> m.seq]]
      /\ txChanges' = [txChanges EXCEPT ![m.seq] = MessageChange(m, txChanges[m.seq])]
  BY MessageWritten
<1>2. SeqIsFree(m)
  BY DEF PushMessage
<1>3. /\ txChanges'[m.seq].id = m.id /\ txChanges'[m.seq].ver = m.ver
      /\ txChanges'[m.seq] # NoRow
  <2>1. txChanges'[m.seq] = MessageChange(m, txChanges[m.seq])
    BY <1>0, <1>1 DEF ChangeTable
  <2>2. txChanges[m.seq] \in ChangeRow \cup {NoRow}
    BY <1>0, <1>1 DEF ChangeTable
  <2>3. MessageChange(m, txChanges[m.seq]) \in ChangeRow
    BY <1>1, <2>2, ChangeTypes
  <2> QED BY <2>1, <2>3, RowsExist DEF MessageChange
<1> SUFFICES ASSUME NEW id \in Ids, txMessages'[id] # NoRow
    PROVE  /\ txChanges'[txMessages'[id].seq] # NoRow
           /\ txChanges'[txMessages'[id].seq].id = id
           /\ txChanges'[txMessages'[id].seq].ver = txMessages'[id].ver
  BY DEF Indexed
<1>4. CASE id = m.id
  <2>1. txMessages'[id] = [ver |-> m.ver, seq |-> m.seq]
    BY <1>0, <1>1, <1>4 DEF MessageTable
  <2> QED BY <1>3, <1>4, <2>1
<1>5. CASE id # m.id
  <2>1. txMessages'[id] = txMessages[id]
    BY <1>0, <1>1, <1>5 DEF MessageTable
  <2>2. txMessages[id].seq \in Seqs
    BY <1>0, <2>1 DEF MessageTable, MessageRow
  <2>3. txMessages[id].seq # m.seq
    BY <1>2, <1>5, <2>1 DEF SeqIsFree
  <2>4. txChanges'[txMessages[id].seq] = txChanges[txMessages[id].seq]
    BY <1>0, <1>1, <2>2, <2>3 DEF ChangeTable
  <2> QED BY <2>1, <2>4 DEF Indexed
<1> QED BY <1>4, <1>5

\* A profile change keeps the message_id and version of the row it lands on.
LEMMA IndexProfile ==
  ASSUME ChannelInv, NEW p \in Pushers, PushProfile(p), Indexed(txMessages, txChanges)
  PROVE  Indexed(txMessages', txChanges')
<1> DEFINE q == req[p]
           new == ProfileChange(q.pv, txChanges[q.lastSeq])
<1>0. txMessages \in MessageTable /\ txChanges \in ChangeTable
  BY DEF ChannelInv, TypeOK
<1>1. q.lastSeq \in Seqs /\ q.pv \in Nat
  BY RequestOf, PushFields DEF PushProfile
<1>2. txMessages' = txMessages
  BY DEF PushProfile
<1>3. CASE txChanges' = txChanges
  BY <1>2, <1>3
<1>4. CASE txChanges' = [txChanges EXCEPT ![q.lastSeq] = new]
  <2>1. txChanges[q.lastSeq] \in ChangeRow \cup {NoRow}
    BY <1>0, <1>1 DEF ChangeTable
  <2>2. new # NoRow
    BY <1>1, <2>1, ChangeTypes, RowsExist
  <2>3. txChanges[q.lastSeq] # NoRow =>
           new.id = txChanges[q.lastSeq].id /\ new.ver = txChanges[q.lastSeq].ver
    BY DEF ProfileChange
  <2> HIDE DEF new
  <2>4. \A s \in Seqs : txChanges[s] # NoRow =>
           /\ txChanges'[s] # NoRow
           /\ txChanges'[s].id = txChanges[s].id /\ txChanges'[s].ver = txChanges[s].ver
    BY <1>0, <1>1, <1>4, <2>2, <2>3 DEF ChangeTable
  <2>5. \A id \in Ids : txMessages[id] # NoRow => txMessages[id].seq \in Seqs
    BY <1>0 DEF MessageTable, MessageRow
  <2> QED BY <1>2, <2>4, <2>5 DEF Indexed
<1> QED BY <1>3, <1>4 DEF PushProfile

\* Pushes without changes of their own keep both pairs of tables indexed.
LEMMA IndexNext ==
  ASSUME ChannelInv, [Next]_vars, \A q \in Pushes : q.changes = <<>>
  PROVE  Indexed(messages', changes') /\ Indexed(txMessages', txChanges')
<1>0. Indexed(messages, changes) /\ Indexed(txMessages, txChanges)
  BY DEF ChannelInv
<1>1. CASE UNCHANGED <<messages, changes, txMessages, txChanges>>
  BY <1>0, <1>1
<1>2. ASSUME NEW p \in Pushers, PushBegin(p)
      PROVE  Indexed(messages', changes') /\ Indexed(txMessages', txChanges')
  BY <1>0, <1>2 DEF PushBegin, tables
<1>3. ASSUME NEW p \in Pushers, PushMessage(p)
      PROVE  Indexed(messages', changes') /\ Indexed(txMessages', txChanges')
  BY <1>0, <1>3, IndexMessage DEF PushMessage, tables
<1>4. ASSUME NEW p \in Pushers, PushProfile(p)
      PROVE  Indexed(messages', changes') /\ Indexed(txMessages', txChanges')
  BY <1>0, <1>4, IndexProfile DEF PushProfile, tables
<1>5. ASSUME NEW p \in Pushers, PushChange(p) PROVE FALSE
  <2>1. req[p] \in Pushes /\ done[p] \in Nat /\ done[p] < Len(req[p].changes)
    BY <1>5, RequestOf DEF PushChange, ChannelInv, TypeOK
  <2>2. req[p].changes = <<>>
    BY <2>1
  <2> QED BY <2>1, <2>2
<1>6. ASSUME NEW p \in Pushers, PushCommit(p)
      PROVE  Indexed(messages', changes') /\ Indexed(txMessages', txChanges')
  BY <1>0, <1>6, EndTxTypes, EmptyIndexed DEF PushCommit
<1>7. ASSUME NEW p \in Pushers, PushRollback(p)
      PROVE  Indexed(messages', changes') /\ Indexed(txMessages', txChanges')
  BY <1>0, <1>7, EndTxTypes, EmptyIndexed DEF PushRollback, tables
<1>8. CASE Crash
  BY <1>0, <1>8, EndTxTypes, EmptyIndexed DEF Crash, tables
<1> QED BY <1>1, <1>2, <1>3, <1>4, <1>5, <1>6, <1>7, <1>8
        DEF Next, TxStep, PushCheck, PushTimesOut, SyncHead, SyncItems, ListMessages,
            vars, tables, txVars

-----------------------------------------------------------------------------
(* Theorems for any pushes, however they interleave.                       *)

\* ChannelInv holds in every reachable state: the types, what every open
\* transaction has done, and the index of the committed and the open tables.
THEOREM ChannelInvariance == Spec => []ChannelInv
<1>1. Init => ChannelInv
  <2> SUFFICES ASSUME Init PROVE ChannelInv
    OBVIOUS
  <2>1. \A p \in Pushers : PushOK(p)
    BY DEF Init, PushOK
  <2>2. Indexed(messages, changes) /\ Indexed(txMessages, txChanges)
    BY EmptyIndexed DEF Init
  <2> QED BY <2>1, <2>2, TypeInit DEF ChannelInv
<1>2. ChannelInv /\ [Next]_vars => ChannelInv'
  <2> SUFFICES ASSUME ChannelInv, [Next]_vars PROVE ChannelInv'
    OBVIOUS
  <2>1. TypeOK'
    BY TypeNext
  <2>2. \A p \in Pushers : PushOK(p)'
    BY PushOKNext
  <2>3. (\A q \in Pushes : q.changes = <<>>) =>
           Indexed(messages', changes') /\ Indexed(txMessages', txChanges')
    BY IndexNext
  <2> QED BY <2>1, <2>2, <2>3 DEF ChannelInv, Indexed
<1> QED BY <1>1, <1>2, PTL DEF Spec

\* The connection, the tables and the goroutines of the channel store keep
\* their types; in particular a Push holds the connection exactly while it is
\* inside its transaction.
THEOREM ChannelTypeCorrect == Spec => []TypeOK
<1>1. ChannelInv => TypeOK
  BY DEF ChannelInv
<1> QED BY <1>1, ChannelInvariance, PTL

\* A subscriber that reads the change rows learns of every stored message, also
\* where upsertChange has let a profile change share a message's row.
THEOREM IndexCorrect == Spec => []MessagesIndexed
<1>1. ChannelInv => MessagesIndexed
  BY DEF ChannelInv, MessagesIndexed, Indexed
<1> QED BY <1>1, ChannelInvariance, PTL

\* Committed tables change only when a Push commits.
LEMMA OnlyCommits ==
  ASSUME [Next]_vars, tables' # tables
  PROVE  \E p \in Pushers : PushCommit(p)
  BY DEF Next, TxStep, PushCheck, PushBegin, PushMessage, PushProfile, PushChange, PushRollback,
         PushTimesOut, SyncHead, SyncItems, ListMessages, Crash, vars

\* Neither version nor, within a version, seq of a stored message falls, although
\* any number of pushes of old and new versions interleave.
THEOREM VersionsCorrect == Spec => VersionsNeverRegress
<1>1. ChannelInv /\ [Next]_vars => Follows(messages, messages')
  <2> SUFFICES ASSUME ChannelInv, [Next]_vars PROVE Follows(messages, messages')
    OBVIOUS
  <2>1. messages \in MessageTable
    BY DEF ChannelInv, TypeOK
  <2>2. CASE tables' = tables
    BY <2>1, <2>2, FollowsItself DEF tables
  <2>3. CASE tables' # tables
    <3>1. PICK p \in Pushers : PushCommit(p)
      BY <2>3, OnlyCommits
    <3>2. messages' = txMessages /\ pc[p] = "changes"
      BY <3>1 DEF PushCommit
    <3> QED BY <3>2 DEF ChannelInv, PushOK
  <2> QED BY <2>2, <2>3
<1>2. ChannelInv /\ [Next]_vars =>
        [\A id \in Ids : messages[id] # NoRow =>
            LET old == messages[id]
                new == messages'[id]
            IN /\ new # NoRow
               /\ new.ver > old.ver \/ (new.ver = old.ver /\ new.seq >= old.seq)]_vars
  BY <1>1 DEF Follows
<1> QED BY <1>2, ChannelInvariance, PTL DEF Spec, VersionsNeverRegress

\* A push is visible as a whole or not at all, whatever statement fails.
THEOREM AtomicPush == Spec => PushIsAtomic
<1>1. ASSUME ChannelInv, [Next]_vars, tables' # tables
      PROVE  \E p \in Pushers :
                /\ req[p] # NoRow
                /\ channel' = Upserted(req[p])
                /\ \A i \in DOMAIN req[p].messages :
                      LET m == req[p].messages[i]
                      IN messages'[m.id] # NoRow /\ messages'[m.id].ver >= m.ver
  <2>1. PICK p \in Pushers : PushCommit(p)
    BY <1>1, OnlyCommits
  <2>2. pc[p] = "changes" /\ channel' = txChannel /\ messages' = txMessages
    BY <2>1 DEF PushCommit
  <2>3. PushOK(p)
    BY <1>1 DEF ChannelInv
  <2>4. req[p] # NoRow /\ txChannel = Upserted(req[p])
    BY <2>2, <2>3 DEF PushOK
  <2>5. \A i \in DOMAIN req[p].messages : Written(req[p].messages[i])
    BY <2>2, <2>3 DEF PushOK
  <2> QED BY <2>2, <2>4, <2>5 DEF Written
<1>2. ChannelInv /\ [Next]_vars =>
        [tables' # tables =>
          \E p \in Pushers :
             /\ req[p] # NoRow
             /\ channel' = Upserted(req[p])
             /\ \A i \in DOMAIN req[p].messages :
                   LET m == req[p].messages[i]
                   IN messages'[m.id] # NoRow /\ messages'[m.id].ver >= m.ver]_vars
  BY <1>1
<1> QED BY <1>2, ChannelInvariance, PTL DEF Spec, PushIsAtomic

-----------------------------------------------------------------------------
(* Theorems for pushes that are served one at a time.                      *)

\* The parts of HeadInv about a push and about a pair of tables.
HeadChecked(p) == pc[p] # "idle" => Acceptable(req[p]) /\ NotStale(req[p]) /\ WithinHead(req[p])
WithinRow(rows, head) ==
    \A id \in Ids : rows[id] # NoRow => head # NoRow /\ rows[id].seq <= head.lastSeq

\* The checks of a push hold until it commits, as no other push runs.
LEMMA HeadNext ==
  ASSUME ChannelInv, HeadInv, [Next]_vars, \A p, x \in Pushers : p = x
  PROVE  HeadInv'
<1>0. TypeOK
  BY DEF ChannelInv
<1>a. \A x \in Pushers : HeadChecked(x)
  BY DEF HeadInv, HeadChecked
<1>b. WithinRow(messages, channel)
  BY DEF HeadInv, WithinRow
<1>c. conn # NoHolder => WithinRow(txMessages, txChannel)
  <2>1. ASSUME conn # NoHolder PROVE txChannel # NoRow
    <3>1. conn \in Pushers /\ pc[conn] \in {"messages", "changes"}
      BY <1>0, <2>1 DEF TypeOK
    <3>2. txChannel = Upserted(req[conn]) /\ req[conn] \in Pushes
      BY <3>1, RequestOf DEF ChannelInv, PushOK
    <3> QED BY <3>2, PushFields, RowsExist
  <2> QED BY <2>1 DEF HeadInv, WithinRow
<1>d. SUFFICES /\ \A x \in Pushers : HeadChecked(x)'
               /\ WithinRow(messages', channel')
               /\ conn' # NoHolder => WithinRow(txMessages', txChannel')
  BY DEF HeadInv, HeadChecked, WithinRow
<1>1. ASSUME NEW p \in Pushers, NEW q \in Pushes, PushCheck(p, q)
      PROVE  /\ \A x \in Pushers : HeadChecked(x)'
             /\ WithinRow(messages', channel')
             /\ conn' # NoHolder => WithinRow(txMessages', txChannel')
  <2>1. Acceptable(q) /\ NotStale(q) /\ WithinHead(q) /\ channel' = channel /\ req'[p] = q
    BY <1>0, <1>1 DEF PushCheck, tables, TypeOK
  <2>2. NotStale(q)'
    BY <2>1 DEF NotStale
  <2>3. HeadChecked(p)'
    BY <2>1, <2>2 DEF HeadChecked, Acceptable, NotStale, WithinHead
  <2> QED BY <1>1, <1>b, <1>c, <2>3 DEF PushCheck, tables, txVars
<1>2. ASSUME NEW p \in Pushers, PushBegin(p)
      PROVE  /\ \A x \in Pushers : HeadChecked(x)'
             /\ WithinRow(messages', channel')
             /\ WithinRow(txMessages', txChannel')
  <2>1. /\ pc[p] = "checked" /\ channel' = channel /\ messages' = messages /\ req' = req
        /\ txMessages' = messages /\ txChannel' = Upserted(req[p])
    BY <1>2 DEF PushBegin, tables
  <2>2. req[p] \in Pushes /\ NotStale(req[p])
    BY <1>a, <2>1, RequestOf DEF HeadChecked
  <2>3. txChannel' # NoRow /\ txChannel'.lastSeq = req[p].lastSeq /\ req[p].lastSeq \in Int
    BY <2>1, <2>2, PushFields, RowsExist DEF Upserted, Seqs
  <2>4. ASSUME NEW id \in Ids, messages[id] # NoRow
        PROVE  messages[id].seq <= req[p].lastSeq
    <3>1. /\ channel # NoRow /\ messages[id].seq <= channel.lastSeq
          /\ channel.lastSeq <= req[p].lastSeq
      BY <1>b, <2>2, <2>4 DEF WithinRow, NotStale
    <3>2. messages[id] \in MessageRow /\ channel \in ChannelRow
      BY <1>0, <2>4, <3>1 DEF TypeOK, MessageTable
    <3>3. messages[id].seq \in Int /\ channel.lastSeq \in Int
      BY <3>2 DEF MessageRow, ChannelRow, Seqs
    <3> QED BY <2>3, <3>1, <3>3
  <2>5. WithinRow(txMessages', txChannel')
    BY <2>1, <2>3, <2>4 DEF WithinRow
  <2>6. \A x \in Pushers : HeadChecked(x)'
    <3>1. HeadChecked(p)'
      BY <1>a, <2>1, <2>2 DEF HeadChecked, Acceptable, NotStale, WithinHead
    <3> QED BY <3>1
  <2> QED BY <1>b, <2>1, <2>5, <2>6
<1>3. ASSUME NEW p \in Pushers, PushMessage(p)
      PROVE  /\ \A x \in Pushers : HeadChecked(x)'
             /\ WithinRow(messages', channel')
             /\ WithinRow(txMessages', txChannel')
  <2> DEFINE m == req[p].messages[done[p] + 1]
  <2>1. /\ pc[p] = "messages" /\ pc' = pc /\ req' = req /\ channel' = channel
        /\ messages' = messages /\ txChannel' = txChannel
    BY <1>3 DEF PushMessage, tables
  <2>2. /\ req[p] \in Pushes /\ done[p] \in Nat /\ done[p] < Len(req[p].messages)
        /\ m.id \in Ids
        /\ txMessages' = [txMessages EXCEPT ![m.id] = [ver |-> m.ver, seq |-> m.seq]]
    BY <1>3, MessageWritten
  <2>3. conn = p /\ txChannel = Upserted(req[p]) /\ WithinHead(req[p])
    BY <1>0, <1>a, <2>1 DEF TypeOK, ChannelInv, PushOK, HeadChecked
  <2>4. done[p] + 1 \in DOMAIN req[p].messages
    BY <2>2, PushFields
  <2>5. m.seq <= txChannel.lastSeq /\ txChannel # NoRow
    BY <2>2, <2>3, <2>4, PushFields, RowsExist DEF WithinHead, Upserted
  <2>6. WithinRow(txMessages, txChannel)
    BY <1>c, <2>3, ChannelConstantsOK
  <2>7. WithinRow(txMessages', txChannel')
    BY <1>0, <2>1, <2>2, <2>5, <2>6 DEF WithinRow, TypeOK, MessageTable
  <2> QED BY <1>a, <1>b, <2>1, <2>7 DEF HeadChecked, Acceptable, NotStale, WithinHead
<1>4. ASSUME NEW p \in Pushers, PushProfile(p) \/ PushChange(p)
      PROVE  /\ \A x \in Pushers : HeadChecked(x)'
             /\ WithinRow(messages', channel')
             /\ conn' # NoHolder => WithinRow(txMessages', txChannel')
  <2>1. /\ req' = req /\ channel' = channel /\ messages' = messages /\ conn' = conn
        /\ txChannel' = txChannel /\ txMessages' = txMessages /\ pc[p] # "idle"
    BY <1>4 DEF PushProfile, PushChange, tables
  <2>2. HeadChecked(p)'
    BY <1>a, <2>1 DEF HeadChecked, Acceptable, NotStale, WithinHead
  <2> QED BY <1>b, <1>c, <2>1, <2>2
<1>5. ASSUME NEW p \in Pushers, PushCommit(p)
      PROVE  /\ \A x \in Pushers : HeadChecked(x)'
             /\ WithinRow(messages', channel')
             /\ conn' = NoHolder
  <2>1. /\ pc[p] = "changes" /\ channel' = txChannel /\ messages' = txMessages
        /\ conn' = NoHolder /\ pc'[p] = "idle"
    BY <1>0, <1>5, EndTxTypes DEF PushCommit, Forget, TypeOK
  <2>2. conn # NoHolder
    BY <1>0, <2>1, ChannelConstantsOK DEF TypeOK
  <2> QED BY <1>c, <2>1, <2>2 DEF HeadChecked
<1>6. ASSUME NEW p \in Pushers, PushRollback(p) \/ PushTimesOut(p)
      PROVE  /\ \A x \in Pushers : HeadChecked(x)'
             /\ WithinRow(messages', channel')
             /\ conn' # NoHolder => WithinRow(txMessages', txChannel')
  <2>1. /\ channel' = channel /\ messages' = messages /\ pc'[p] = "idle"
        /\ conn' = NoHolder \/ UNCHANGED txVars
    BY <1>0, <1>6, EndTxTypes DEF PushRollback, PushTimesOut, Forget, tables, TypeOK
  <2> QED BY <1>b, <1>c, <2>1 DEF HeadChecked, txVars
<1>7. CASE \/ \E rd \in Readers : SyncHead(rd) \/ SyncItems(rd) \/ ListMessages(rd)
           \/ UNCHANGED vars
  <2>1. UNCHANGED <<channel, messages, conn, txChannel, txMessages, pc, req>>
    BY <1>7 DEF SyncHead, SyncItems, ListMessages, vars, tables, txVars, pushVars
  <2> QED BY <1>a, <1>b, <1>c, <2>1 DEF HeadChecked, Acceptable, NotStale, WithinHead
<1>8. CASE Crash
  BY <1>8, <1>b, EndTxTypes DEF Crash, tables, HeadChecked
<1> QED BY <1>1, <1>2, <1>3, <1>4, <1>5, <1>6, <1>7, <1>8 DEF Next, TxStep

\* With at most one pusher, HeadInv is an invariant as well.
THEOREM HeadInvariance ==
  ASSUME \A p, x \in Pushers : p = x
  PROVE  Spec => [](ChannelInv /\ HeadInv)
<1>1. Init => HeadInv
  BY DEF Init, HeadInv
<1>2. ChannelInv /\ HeadInv /\ [Next]_vars => HeadInv'
  BY HeadNext
<1> QED BY <1>1, <1>2, ChannelInvariance, PTL DEF Spec

\* What a commit of the only pusher replaces.
LEMMA HeadCommit ==
  ASSUME ChannelInv, HeadInv, [Next]_vars, channel # NoRow, channel' # channel
  PROVE  \E p \in Pushers : /\ channel' = Upserted(req[p]) /\ channel' # NoRow
                            /\ req[p] # NoRow /\ Acceptable(req[p])
                            /\ req[p].lastSeq >= channel.lastSeq
                            /\ req[p].headOwner = channel.owner
<1>1. PICK p \in Pushers : PushCommit(p)
  BY OnlyCommits DEF tables
<1>2. pc[p] = "changes" /\ channel' = txChannel
  BY <1>1 DEF PushCommit
<1>3. req[p] \in Pushes /\ req[p] # NoRow /\ txChannel = Upserted(req[p]) /\ NotStale(req[p]) /\ Acceptable(req[p])
  BY <1>2, RequestOf DEF ChannelInv, PushOK, HeadInv
<1> QED BY <1>2, <1>3, PushFields, RowsExist DEF NotStale

\* One push at a time: head.last_seq never falls, whatever is pushed in whatever
\* order.  Two pushes at a time break it (the check precedes BeginTx).
THEOREM HeadCorrect ==
  ASSUME \A p, x \in Pushers : p = x
  PROVE  Spec => HeadNeverRegresses
<1>1. ASSUME ChannelInv, HeadInv, [Next]_vars, channel # NoRow
      PROVE  channel' # NoRow /\ channel'.lastSeq >= channel.lastSeq
  <2>1. channel.lastSeq >= channel.lastSeq
    <3>1. channel \in ChannelRow
      BY <1>1 DEF ChannelInv, TypeOK
    <3> QED BY <3>1 DEF ChannelRow, Seqs
  <2> QED BY <1>1, <2>1, HeadCommit DEF Upserted
<1>2. ChannelInv /\ HeadInv /\ [Next]_vars =>
        [channel # NoRow => channel' # NoRow /\ channel'.lastSeq >= channel.lastSeq]_vars
  BY <1>1
<1> QED BY <1>2, HeadInvariance, PTL DEF Spec, HeadNeverRegresses

\* One push at a time: the channel passes to another peer only by a push of that
\* peer with a head that names the owner so far, whatever requests arrive.
THEOREM OwnerCorrect ==
  ASSUME \A p, x \in Pushers : p = x
  PROVE  Spec => OwnerChangesOnlyByHead
<1>1. ASSUME ChannelInv, HeadInv, [Next]_vars, channel # NoRow, channel'.owner # channel.owner
      PROVE  \E p \in Pushers : /\ req[p] # NoRow
                                /\ req[p].peer = channel'.owner
                                /\ req[p].headOwner = channel.owner
  BY <1>1, HeadCommit DEF Upserted, Acceptable
<1>2. ChannelInv /\ HeadInv /\ [Next]_vars =>
        [channel # NoRow /\ channel'.owner # channel.owner =>
           \E p \in Pushers : /\ req[p] # NoRow
                              /\ req[p].peer = channel'.owner
                              /\ req[p].headOwner = channel.owner]_vars
  BY <1>1
<1> QED BY <1>2, HeadInvariance, PTL DEF Spec, OwnerChangesOnlyByHead

\* One push at a time: no stored message lies beyond the head that is served.
THEOREM WithinHeadCorrect ==
  ASSUME \A p, x \in Pushers : p = x
  PROVE  Spec => []MessagesWithinHead
<1>1. HeadInv => MessagesWithinHead
  BY DEF HeadInv, MessagesWithinHead
<1> QED BY <1>1, HeadInvariance, PTL
=============================================================================
