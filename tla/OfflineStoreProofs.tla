-------------------------- MODULE OfflineStoreProofs --------------------------
(***************************************************************************)
(* What TLAPS proves about OfflineStore, for every set of recipients,      *)
(* message ids, handlers and shards and every quota, batch size, TTL and   *)
(* bound: the inductive invariant IndInv, the safety properties it         *)
(* implies (the quota of bytes with the sums of FiniteSums), the two       *)
(* action properties, and the refinement of Mailbox.                       *)
(***************************************************************************)
EXTENDS OfflineStore, FiniteSums

-----------------------------------------------------------------------------
(* Prefixes of finite sets of numbers and of keys.                         *)

\* A handler that serves nobody still names a recipient.
LEMMA AnyRecipientType == AnyRecipient \in Recipients
  BY ConstantsOK DEF AnyRecipient

\* An iterator that is stopped early has seen a prefix: this is why a batch of
\* AckMessages leaves no older message behind.
LEMMA FirstNPrefix ==
  ASSUME NEW S \in SUBSET Nat, IsFiniteSet(S), NEW k \in Nat,
         NEW d \in FirstN(S, k), NEW x \in S, x <= d
  PROVE  x \in FirstN(S, k)
<1> DEFINE Below(y) == {z \in S : z < y}
<1>a. d \in S /\ \A z \in S : z \in Nat
  BY DEF FirstN
<1>b. ASSUME NEW z \in S, z < x PROVE z < d
  BY <1>a, <1>b
<1>1. Below(x) \subseteq Below(d) /\ Below(d) \subseteq S
  BY <1>b
<1>2. IsFiniteSet(Below(d))
  BY <1>1, FS_Subset
<1>3. Cardinality(Below(x)) <= Cardinality(Below(d))
  BY <1>1, <1>2, FS_Subset
<1>4. IsFiniteSet(Below(x)) /\ Cardinality(Below(d)) \in Nat /\ Cardinality(Below(x)) \in Nat
  BY <1>1, <1>2, FS_Subset, FS_CardinalityType
<1>5. Cardinality(Below(d)) < k
  BY DEF FirstN
<1>6. Cardinality(Below(x)) < k
  BY <1>3, <1>4, <1>5
<1> QED BY <1>6 DEF FirstN

\* A batch that is not full has seen everything: the loop of AckMessages may
\* stop there.
LEMMA FirstNShort ==
  ASSUME NEW S \in SUBSET Nat, IsFiniteSet(S), NEW k \in Nat,
         Cardinality(FirstN(S, k)) < k
  PROVE  FirstN(S, k) = S
<1> DEFINE F == FirstN(S, k)
           Below(y) == {z \in S : z < y}
<1>1. F \subseteq S
  BY DEF FirstN
<1>2. SUFFICES ASSUME S \ F # {} PROVE FALSE
  BY <1>1
<1>3. PICK m \in S \ F : \A x \in S \ F : m <= x
  BY <1>2, NatMin
<1>a. \A z \in S : z \in Nat
  OBVIOUS
<1>b. ASSUME NEW z \in S, z < m PROVE z \in F
  BY <1>a, <1>b, <1>3
<1>4. Below(m) \subseteq F
  BY <1>b
<1>5. IsFiniteSet(F) /\ IsFiniteSet(Below(m))
  BY <1>1, FS_Subset
<1>6. Cardinality(Below(m)) <= Cardinality(F)
  BY <1>4, <1>5, FS_Subset
<1>7. Cardinality(Below(m)) \in Nat /\ Cardinality(F) \in Nat
  BY <1>5, FS_CardinalityType
<1>8. ~(Cardinality(Below(m)) < k)
  BY <1>3 DEF FirstN
<1> QED BY <1>6, <1>7, <1>8

\* The same for the expired keys a scan returns: a batch that is not full is
\* all there was.
LEMMA ScanShort ==
  ASSUME NEW D \in SUBSET ExpKey, IsFiniteSet(D), NEW n \in Nat, NEW R,
         R = {k \in D : Cardinality({j \in D : KeyBefore(j, k)}) < n},
         Cardinality(R) < n
  PROVE  R = D
<1> DEFINE below == [k \in D |-> {j \in D : KeyBefore(j, k)}]
           rank == [k \in D |-> Cardinality(below[k])]
           Ranks == {rank[k] : k \in D \ R}
<1>1. SUFFICES ASSUME D \ R # {} PROVE FALSE
  OBVIOUS
<1>2. \A k \in D : below[k] \subseteq D /\ \A j \in D : j \in below[k] <=> KeyBefore(j, k)
  OBVIOUS
<1>3. R = {k \in D : rank[k] < n}
  OBVIOUS
<1> HIDE DEF below
<1>4. \A k \in D : IsFiniteSet(below[k]) /\ Cardinality(below[k]) \in Nat
  BY <1>2, FS_Subset, FS_CardinalityType
<1>5. \A k \in D : rank[k] = Cardinality(below[k]) /\ rank[k] \in Nat
  BY <1>4
<1> HIDE DEF rank
<1>6. PICK k \in D \ R : \A x \in D \ R : rank[k] <= rank[x]
  <2>1. Ranks \in SUBSET Nat /\ Ranks # {}
    BY <1>1, <1>5
  <2>2. PICK m \in Ranks : \A x \in Ranks : m <= x
    BY <2>1, NatMin
  <2>3. PICK k \in D \ R : m = rank[k]
    BY <2>2
  <2>4. \A x \in D \ R : rank[x] \in Ranks
    OBVIOUS
  <2> QED BY <2>2, <2>3, <2>4
<1>7. ASSUME NEW j \in D, KeyBefore(j, k) PROVE j \in R
  <2>1. \A i \in D : KeyBefore(i, j) => KeyBefore(i, k) /\ i # j
    <3> TAKE i \in D
    <3>1. Recipients \subseteq Nat
      BY ConstantsOK
    <3>2. Seqs \subseteq Nat
      BY DEF Seqs
    <3>3. \A e \in ExpKey : e.exp \in Nat /\ e.r \in Nat /\ e.s \in Nat
      BY <3>1, <3>2 DEF ExpKey
    <3>4. i \in ExpKey /\ j \in ExpKey /\ k \in ExpKey
      OBVIOUS
    <3> QED BY <1>7, <3>3, <3>4 DEF KeyBefore
  <2>2. below[j] \subseteq below[k] /\ below[j] # below[k]
    BY <1>2, <1>7, <2>1
  <2>3. rank[j] <= rank[k] /\ rank[j] # rank[k]
    BY <2>2, <1>4, <1>5, FS_Subset
  <2>4. rank[j] \in Nat /\ rank[k] \in Nat
    BY <1>5
  <2>5. ~(rank[k] <= rank[j])
    BY <2>3, <2>4
  <2> QED BY <2>5, <1>6
<1>8. below[k] \subseteq R
  BY <1>2, <1>7
<1>9. IsFiniteSet(R) /\ Cardinality(R) \in Nat
  BY FS_Subset, FS_CardinalityType
<1>10. rank[k] <= Cardinality(R)
  <2>1. Cardinality(below[k]) <= Cardinality(R)
    BY <1>8, <1>9, FS_Subset
  <2> QED BY <2>1, <1>5
<1>11. ~(rank[k] < n) /\ rank[k] \in Nat
  BY <1>3, <1>5
<1> QED BY <1>9, <1>10, <1>11

-----------------------------------------------------------------------------
(* Type correctness.                                                       *)

\* The constants in the form the proofs use them.
LEMMA ConstantFacts ==
  /\ Recipients \subseteq Nat /\ Recipients # {}
  /\ ShardOf \in [Recipients -> Shards]
  /\ TTLs \subseteq Nat \ {0}
  /\ MaxMessages \in Nat
  /\ AckDeleteBatch \in Nat \ {0}
  /\ GCBatchSize \in Nat \ {0}
  /\ MaxSeq \in Nat /\ 0 \in 0..MaxSeq
  /\ NoMsg \notin Entry
  /\ NoHolder \notin Handlers
  BY ConstantsOK

\* The number of a message removed or returned is a sequence number.
LEMMA FirstNSubset == \A S, k : FirstN(S, k) \subseteq S
  BY DEF FirstN

\* What deleting messages does to the msg/ and dup/ keys.
LEMMA WithoutType ==
  ASSUME TypeOK, NEW r \in Recipients, NEW gone \in SUBSET Seqs
  PROVE  /\ WithoutMsgs(r, gone) \in [Recipients -> [Seqs -> Entry \cup {NoMsg}]]
         /\ WithoutDups(r, gone) \in [Recipients -> [MsgIds -> 0..MaxSeq]]
  BY ConstantFacts DEF TypeOK, WithoutMsgs, WithoutDups

\* Each operation writes values of the declared types.
LEMMA TypeStep == TypeOK /\ [Next]_vars => TypeOK'
<1> SUFFICES ASSUME TypeOK, [Next]_vars PROVE TypeOK'
  OBVIOUS
<1> USE ConstantFacts, AnyRecipientType
<1>1. ASSUME NEW r \in Recipients, NEW id \in MsgIds, NEW ttl \in TTLs, StoreMessage(r, id, ttl)
      PROVE TypeOK'
  <2> DEFINE s == lastSeq[r] + 1
             entry == [id |-> id, exp |-> now + ttl]
             key == [exp |-> entry.exp, r |-> r, s |-> s]
  <2>1. s \in Seqs /\ entry \in Entry /\ key \in ExpKey
    BY <1>1 DEF TypeOK, StoreMessage, NextSeq, Seqs, Entry, ExpKey
  <2>2. CASE OverQuota(r, id)
    <3>1. dup' = [dup EXCEPT ![r][id] = 0]
      BY <1>1, <2>2 DEF StoreMessage
    <3>2. dup' \in [Recipients -> [MsgIds -> 0..MaxSeq]]
      BY <3>1 DEF TypeOK
    <3> QED BY <1>1, <2>2, <3>2 DEF TypeOK, StoreMessage, handlerVars, gcVars, envVars
  <2>3. CASE ~OverQuota(r, id)
    <3>1. msg' = [msg EXCEPT ![r][s] = entry] /\ dup' = [dup EXCEPT ![r][id] = s]
          /\ exp' = exp \cup {key} /\ lastSeq' = [lastSeq EXCEPT ![r] = s]
      BY <1>1, <2>3 DEF StoreMessage, NextSeq
    <3>2. IsFiniteSet(exp')
      BY <3>1, FS_AddElement DEF TypeOK
    <3>3. s \in 0..MaxSeq
      BY <2>1 DEF Seqs
    <3> HIDE DEF s, entry, key
    <3> QED BY <1>1, <2>1, <3>1, <3>2, <3>3 DEF TypeOK, StoreMessage, handlerVars, gcVars, envVars
  <2> QED BY <2>2, <2>3
<1>2. ASSUME NEW h \in Handlers, HandlerStep(h) PROVE TypeOK'
  <2> USE DEF TypeOK, dbVars, gcVars, envVars, Forget
  <2>1. ASSUME NEW r \in Recipients, NEW a \in AfterSeqs, NEW l \in FetchLimits, FetchMessages(h, r, a, l)
        PROVE TypeOK'
    <3>1. FirstN(Visible(r, a), l) \subseteq Seqs
      BY FirstNSubset DEF Visible, Live
    <3> QED BY <2>1, <3>1 DEF FetchMessages
  <2>2. CASE MarkBegin(h)
    BY <2>2 DEF MarkBegin
  <2>3. CASE MarkDelivered(h)
    <3>1. PICK f \in delivered[rcpt[h]]..MaxSeq : delivered' = [delivered EXCEPT ![rcpt[h]] = f]
      BY <2>3 DEF MarkDelivered, SetDelivered
    <3>2. f \in 0..MaxSeq
      <4>1. delivered[rcpt[h]] \in 0..MaxSeq
        OBVIOUS
      <4> QED BY <4>1
    <3> QED BY <2>3, <3>1, <3>2 DEF MarkDelivered
  <2>4. CASE MarkDeliveredFails(h)
    BY <2>4 DEF MarkDeliveredFails
  <2>5. ASSUME NEW r \in Recipients, NEW n \in 0..MaxSeq, AckAlreadyDone(h, r, n) PROVE TypeOK'
    BY <2>5 DEF AckAlreadyDone
  <2>6. ASSUME NEW r \in Recipients, NEW n \in 0..MaxSeq, AckBegin(h, r, n) PROVE TypeOK'
    BY <2>6 DEF AckBegin
  <2>7. CASE AckDeleteSome(h)
    <3> DEFINE r == rcpt[h]
               gone == FirstN(ToDelete(h), AckDeleteBatch)
    <3>1. r \in Recipients /\ gone \in SUBSET Seqs
      BY FirstNSubset DEF ToDelete, Live
    <3>2. PICK d \in gone :
             /\ msg' = WithoutMsgs(r, gone)
             /\ dup' = WithoutDups(r, gone)
             /\ exp' = exp \ {ExpKeyOf(r, s) : s \in gone}
             /\ acked' = [acked EXCEPT ![r] = IF d >= @ THEN d ELSE @]
             /\ deletedUntil' = [deletedUntil EXCEPT ![h] = d]
             /\ IF AckLoopEnds(h, gone, d) THEN AckReturn(h) ELSE UNCHANGED <<pc, lock>>
      BY <2>7 DEF AckDeleteSome
    <3>3. UNCHANGED <<lastSeq, delivered, rcpt, items, at, ackSeq, gcpc, gcNow, gcRefs, gcFull, now, faults, handed>>
      BY <2>7 DEF AckDeleteSome
    <3>4. d \in 0..MaxSeq
      BY <3>1, <3>2 DEF Seqs
    <3>5. exp' \subseteq ExpKey /\ IsFiniteSet(exp')
      BY <3>2, FS_Subset
    <3>6. msg' \in [Recipients -> [Seqs -> Entry \cup {NoMsg}]] /\ dup' \in [Recipients -> [MsgIds -> 0..MaxSeq]]
      BY <3>1, <3>2, WithoutType
    <3> HIDE DEF r, gone
    <3>7. pc' \in [Handlers -> {"idle", "fetched", "marking", "acking", "acked"}]
          /\ lock' \in [Shards -> Handlers \cup {NoHolder}]
      BY <3>2 DEF AckReturn
    <3> QED BY <3>1, <3>2, <3>3, <3>4, <3>5, <3>6, <3>7
  <2>8. CASE AckDeleteNone(h)
    BY <2>8 DEF AckDeleteNone, AckReturn
  <2>9. CASE AckAborts(h)
    <3>1. lock' \in [Shards -> Handlers \cup {NoHolder}]
      BY <2>9 DEF AckAborts
    <3> QED BY <2>9, <3>1 DEF AckAborts
  <2>10. CASE AckReply(h)
    BY <2>10 DEF AckReply
  <2> QED BY <1>2, <2>1, <2>2, <2>3, <2>4, <2>5, <2>6, <2>7, <2>8, <2>9, <2>10 DEF HandlerStep
<1>3. CASE GCTick
  BY <1>3 DEF TypeOK, GCTick, dbVars, handlerVars, envVars
<1>4. CASE GCScan
  <2>1. Scanned \subseteq ExpKey
    BY DEF TypeOK, Scanned
  <2> QED BY <1>4, <2>1 DEF TypeOK, GCScan, dbVars, handlerVars, envVars
<1>5. ASSUME NEW k \in gcRefs, GCDelete(k) PROVE TypeOK'
  <2> DEFINE gone == Live(k.r) \cap {k.s}
  <2>1. k.r \in Recipients /\ gone \in SUBSET Seqs
    BY DEF TypeOK, ExpKey, Live
  <2>2. msg' \in [Recipients -> [Seqs -> Entry \cup {NoMsg}]] /\ dup' \in [Recipients -> [MsgIds -> 0..MaxSeq]]
    BY <1>5, <2>1, WithoutType DEF GCDelete
  <2>3. exp' \subseteq ExpKey /\ IsFiniteSet(exp')
    BY <1>5, FS_RemoveElement DEF TypeOK, GCDelete
  <2> QED BY <1>5, <2>2, <2>3 DEF TypeOK, GCDelete, AfterBatch, handlerVars, envVars
<1>6. CASE GCFails \/ GCScanFails
  BY <1>6 DEF TypeOK, GCFails, GCScanFails, dbVars, handlerVars, envVars
<1>7. CASE Tick
  BY <1>7 DEF TypeOK, Tick, dbVars, handlerVars, gcVars
<1>8. CASE Crash
  <2>1. /\ lock' \in [Shards -> Handlers \cup {NoHolder}]
        /\ pc' \in [Handlers -> {"idle", "fetched", "marking", "acking", "acked"}]
        /\ rcpt' \in [Handlers -> Recipients] /\ items' \in [Handlers -> SUBSET Seqs]
        /\ at' \in [Handlers -> Nat]
    BY <1>8 DEF Crash
  <2>2. ackSeq' \in [Handlers -> 0..MaxSeq] /\ deletedUntil' \in [Handlers -> 0..MaxSeq]
    BY <1>8 DEF Crash
  <2>3. gcpc' \in {"sleep", "scan", "delete", "failed"} /\ gcRefs' \subseteq ExpKey /\ gcFull' \in BOOLEAN
    BY <1>8 DEF Crash
  <2>a. gcNow' \in Nat /\ faults' \in Nat
    BY <1>8 DEF TypeOK, Crash
  <2>4. UNCHANGED <<msg, dup, exp, lastSeq, delivered, acked, now, handed>>
    BY <1>8 DEF Crash, dbVars
  <2> QED BY <2>1, <2>2, <2>3, <2>a, <2>4 DEF TypeOK
<1>9. CASE UNCHANGED vars
  BY <1>9 DEF TypeOK, vars, dbVars, handlerVars, gcVars, envVars
<1> QED BY <1>1, <1>2, <1>3, <1>4, <1>5, <1>6, <1>7, <1>8, <1>9 DEF Next

\* The initial values have their types.
LEMMA TypeInit == Init => TypeOK
<1> SUFFICES ASSUME Init PROVE TypeOK
  OBVIOUS
<1> USE ConstantFacts, AnyRecipientType DEF Init
<1>1. /\ msg \in [Recipients -> [Seqs -> Entry \cup {NoMsg}]]
      /\ dup \in [Recipients -> [MsgIds -> 0..MaxSeq]]
  OBVIOUS
<1>2. exp \subseteq ExpKey /\ IsFiniteSet(exp)
  BY FS_EmptySet
<1>3. /\ lastSeq \in [Recipients -> 0..MaxSeq]
      /\ delivered \in [Recipients -> 0..MaxSeq]
      /\ acked \in [Recipients -> 0..MaxSeq]
      /\ ackSeq \in [Handlers -> 0..MaxSeq]
      /\ deletedUntil \in [Handlers -> 0..MaxSeq]
  OBVIOUS
<1> QED BY <1>1, <1>2, <1>3 DEF TypeOK

\* Every variable keeps its type in every behaviour.
THEOREM TypeCorrect == Spec => []TypeOK
  BY TypeInit, TypeStep, PTL DEF Spec

-----------------------------------------------------------------------------
(* How the database may change in one step.                                *)

\* Numbers only grow, and a message in the new state is an old one, untouched,
\* or a new one above every number given so far that has not expired.
MsgsStep ==
    \A q \in Recipients :
        /\ lastSeq[q] <= lastSeq'[q]
        /\ \A s \in Live(q)' :
              \/ s \in Live(q) /\ msg'[q][s] = msg[q][s]
              \/ s > lastSeq[q] /\ msg'[q][s].exp > now

\* Frontiers, the clock and the record of fetches only grow.
GrowStep ==
    /\ now <= now'
    /\ \A q \in Recipients :
          /\ acked[q] <= acked'[q]
          /\ delivered[q] <= delivered'[q]
          /\ handed[q] \subseteq handed'[q]

\* The values the variables have, one by one.
LEMMA TypeFacts ==
  ASSUME TypeOK
  PROVE  /\ \A q \in Recipients :
              /\ lastSeq[q] \in Nat /\ delivered[q] \in Nat /\ acked[q] \in Nat
              /\ Live(q) \subseteq Seqs
              /\ \A s \in Live(q) : s \in Nat /\ msg[q][s] \in Entry /\ msg[q][s].exp \in Nat
                                    /\ msg[q][s].id \in MsgIds
         /\ \A h \in Handlers : /\ rcpt[h] \in Recipients /\ ShardOf[rcpt[h]] \in Shards
                                /\ at[h] \in Nat /\ ackSeq[h] \in Nat /\ deletedUntil[h] \in Nat
         /\ \A k \in gcRefs \cup exp : k.exp \in Nat /\ k.r \in Recipients /\ k.s \in Seqs /\ k.s \in Nat
         /\ now \in Nat /\ gcNow \in Nat
<1> USE ConstantFacts DEF TypeOK
<1>1. \A q \in Recipients : lastSeq[q] \in 0..MaxSeq /\ delivered[q] \in 0..MaxSeq /\ acked[q] \in 0..MaxSeq
  OBVIOUS
<1>2. \A q \in Recipients, s \in Seqs : s \in Nat /\ msg[q][s] \in Entry \cup {NoMsg}
  BY DEF Seqs
<1>3. \A e \in Entry : e.exp \in Nat /\ e.id \in MsgIds
  BY DEF Entry
<1>4. \A h \in Handlers : ackSeq[h] \in 0..MaxSeq /\ deletedUntil[h] \in 0..MaxSeq
  OBVIOUS
<1>5. \A k \in ExpKey : k.exp \in Nat /\ k.r \in Recipients /\ k.s \in Seqs /\ k.s \in Nat
  BY DEF ExpKey, Seqs
<1>6. \A q \in Recipients :
         /\ lastSeq[q] \in Nat /\ delivered[q] \in Nat /\ acked[q] \in Nat
         /\ Live(q) \subseteq Seqs
         /\ \A s \in Live(q) : s \in Nat /\ msg[q][s] \in Entry /\ msg[q][s].exp \in Nat
                               /\ msg[q][s].id \in MsgIds
  BY <1>1, <1>2, <1>3 DEF Live
<1>7. \A h \in Handlers : /\ rcpt[h] \in Recipients /\ ShardOf[rcpt[h]] \in Shards
                          /\ at[h] \in Nat /\ ackSeq[h] \in Nat /\ deletedUntil[h] \in Nat
  <2>1. \A h \in Handlers : rcpt[h] \in Recipients /\ at[h] \in Nat
    OBVIOUS
  <2>2. \A q \in Recipients : ShardOf[q] \in Shards
    OBVIOUS
  <2>3. \A n \in 0..MaxSeq : n \in Nat
    OBVIOUS
  <2> QED BY <1>4, <2>1, <2>2, <2>3
<1>8. \A k \in gcRefs \cup exp : k.exp \in Nat /\ k.r \in Recipients /\ k.s \in Seqs /\ k.s \in Nat
  BY <1>5
<1> QED BY <1>6, <1>7, <1>8

\* Deleting the messages in gone, key by key.
LEMMA DeleteFacts ==
  ASSUME TypeOK, NEW r \in Recipients, NEW gone \in SUBSET Seqs,
         msg' = WithoutMsgs(r, gone), dup' = WithoutDups(r, gone)
  PROVE  /\ \A q \in Recipients, s \in Seqs :
              msg'[q][s] = IF q = r /\ s \in gone THEN NoMsg ELSE msg[q][s]
         /\ \A q \in Recipients, s \in Seqs :
              s \in Live(q)' <=> s \in Live(q) /\ ~(q = r /\ s \in gone)
         /\ \A q \in Recipients, id \in MsgIds :
              dup'[q][id] = IF q = r /\ \E s \in gone : msg[r][s].id = id THEN 0 ELSE dup[q][id]
<1>1. \A q \in Recipients, s \in Seqs :
         msg'[q][s] = IF q = r /\ s \in gone THEN NoMsg ELSE msg[q][s]
  BY DEF TypeOK, WithoutMsgs
<1>2. \A q \in Recipients, s \in Seqs :
         s \in Live(q)' <=> s \in Live(q) /\ ~(q = r /\ s \in gone)
  BY <1>1 DEF Live
<1>3. \A q \in Recipients, id \in MsgIds :
         dup'[q][id] = IF q = r /\ \E s \in gone : msg[r][s].id = id THEN 0 ELSE dup[q][id]
  BY DEF TypeOK, WithoutDups
<1> QED BY <1>1, <1>2, <1>3

\* Deleting messages with all their keys keeps the indexes in agreement.
LEMMA DeleteKeepsIndexes ==
  ASSUME TypeOK, TypeOK', IndexesAgree, NEW r \in Recipients, NEW gone \in SUBSET Live(r),
         msg' = WithoutMsgs(r, gone), dup' = WithoutDups(r, gone),
         exp' = exp \ {ExpKeyOf(r, s) : s \in gone}
  PROVE  IndexesAgree'
<1> gone \in SUBSET Seqs
  BY DEF Live
<1>1. \A q \in Recipients, s \in Seqs :
         msg'[q][s] = IF q = r /\ s \in gone THEN NoMsg ELSE msg[q][s]
  BY DeleteFacts
<1>2. \A q \in Recipients, s \in Seqs :
         s \in Live(q)' <=> s \in Live(q) /\ ~(q = r /\ s \in gone)
  BY DeleteFacts
<1>3. \A q \in Recipients, id \in MsgIds :
         dup'[q][id] = IF q = r /\ \E s \in gone : msg[r][s].id = id THEN 0 ELSE dup[q][id]
  BY DeleteFacts
<1>4. \A q \in Recipients : Live(q) \subseteq Seqs /\ Live(q)' \subseteq Seqs
  BY DEF Live
<1>5. ASSUME NEW q \in Recipients, NEW id \in MsgIds, dup'[q][id] # 0
      PROVE  dup'[q][id] \in Live(q)' /\ msg'[q][dup'[q][id]].id = id
  <2>1. dup'[q][id] = dup[q][id] /\ ~(q = r /\ \E s \in gone : msg[r][s].id = id)
    BY <1>3, <1>5
  <2>2. dup[q][id] \in Live(q) /\ msg[q][dup[q][id]].id = id
    BY <1>5, <2>1 DEF IndexesAgree
  <2>3. ~(q = r /\ dup[q][id] \in gone)
    BY <2>1, <2>2
  <2> QED BY <1>1, <1>2, <1>4, <2>1, <2>2, <2>3
<1>6. ASSUME NEW q \in Recipients, NEW s \in Live(q)'
      PROVE  dup'[q][msg'[q][s].id] = s
  <2>1. s \in Seqs /\ s \in Live(q) /\ ~(q = r /\ s \in gone) /\ msg'[q][s] = msg[q][s]
    BY <1>1, <1>2, <1>4
  <2>2. msg[q][s].id \in MsgIds /\ dup[q][msg[q][s].id] = s
    BY <2>1, TypeFacts DEF IndexesAgree
  <2>3. ASSUME q = r, NEW x \in gone, msg[r][x].id = msg[q][s].id PROVE FALSE
    BY <2>1, <2>2, <2>3 DEF IndexesAgree
  <2> QED BY <1>3, <2>1, <2>2, <2>3
<1>7. ASSUME NEW k \in exp' PROVE k.s \in Live(k.r)' /\ k = [exp |-> msg'[k.r][k.s].exp, r |-> k.r, s |-> k.s]
  <2>1. k \in exp /\ k.r \in Recipients /\ k.s \in Seqs
    BY TypeFacts
  <2>2. k.s \in Live(k.r) /\ k = [exp |-> msg[k.r][k.s].exp, r |-> k.r, s |-> k.s]
    BY <2>1 DEF IndexesAgree, ExpKeyOf
  <2>3. ~(k.r = r /\ k.s \in gone)
    BY <2>2 DEF ExpKeyOf
  <2> QED BY <1>1, <1>2, <2>1, <2>2, <2>3
<1>8. ASSUME NEW q \in Recipients, NEW s \in Live(q)'
      PROVE  [exp |-> msg'[q][s].exp, r |-> q, s |-> s] \in exp'
  <2>1. s \in Seqs /\ s \in Live(q) /\ ~(q = r /\ s \in gone) /\ msg'[q][s] = msg[q][s]
    BY <1>1, <1>2, <1>4
  <2>2. ExpKeyOf(q, s) \in exp
    BY <2>1 DEF IndexesAgree
  <2>3. ExpKeyOf(q, s) \notin {ExpKeyOf(r, x) : x \in gone}
    BY <2>1 DEF ExpKeyOf
  <2> QED BY <2>1, <2>2, <2>3 DEF ExpKeyOf
<1> QED BY <1>5, <1>6, <1>7, <1>8 DEF IndexesAgree, ExpKeyOf

-----------------------------------------------------------------------------
(* Frames: what a step of someone else leaves intact.                      *)

\* Adding keys for a message under a fresh number, or no change at all, or a
\* deletion: the collector's picture stays right if the collector does nothing.
LEMMA CollectorFrame ==
  ASSUME TypeOK, TypeOK', RefsAreDead, BatchIsComplete, GCPassComplete,
         MsgsStep, now <= now', UNCHANGED gcVars
  PROVE  RefsAreDead' /\ BatchIsComplete' /\ GCPassComplete'
<1> USE TypeFacts DEF gcVars
<1>1. RefsAreDead'
  <2>1. gcNow' <= now'
    BY DEF RefsAreDead, TypeOK
  <2>2. ASSUME NEW k \in gcRefs'
        PROVE  k.exp <= gcNow' /\ k.s <= lastSeq'[k.r] /\ (k.s \in Live(k.r)' => msg'[k.r][k.s].exp = k.exp)
    <3>1. k.r \in Recipients /\ k.s \in Nat /\ k.exp <= gcNow /\ k.s <= lastSeq[k.r]
          /\ (k.s \in Live(k.r) => msg[k.r][k.s].exp = k.exp)
      BY DEF RefsAreDead
    <3>2. lastSeq[k.r] \in Nat /\ lastSeq'[k.r] \in Nat /\ lastSeq[k.r] <= lastSeq'[k.r]
      BY <3>1 DEF MsgsStep, TypeOK
    <3>3. k.s \in Live(k.r)' => k.s \in Live(k.r) /\ msg'[k.r][k.s] = msg[k.r][k.s]
      BY <3>1, <3>2 DEF MsgsStep
    <3> QED BY <3>1, <3>2, <3>3
  <2> QED BY <2>1, <2>2 DEF RefsAreDead
<1>2. ASSUME NEW q \in Recipients, NEW s \in Live(q)', msg'[q][s].exp <= gcNow'
      PROVE  s \in Live(q) /\ msg'[q][s] = msg[q][s]
  <2>1. gcNow \in Nat /\ now \in Nat /\ gcNow <= now
    BY DEF RefsAreDead
  <2>2. msg'[q][s].exp \in Nat
    <3>1. msg'[q][s] \in Entry \cup {NoMsg} /\ msg'[q][s] # NoMsg
      BY DEF TypeOK, Live
    <3> QED BY <3>1 DEF Entry
  <2>3. ~(msg'[q][s].exp > now)
    BY <1>2, <2>1, <2>2
  <2> QED BY <2>3 DEF MsgsStep
<1>3. BatchIsComplete'
  BY <1>2 DEF BatchIsComplete, ExpKeyOf
<1>4. GCPassComplete'
  <2>1. SUFFICES ASSUME gcpc' = "sleep", NEW q \in Recipients, NEW s \in Live(q)'
                 PROVE  msg'[q][s].exp > gcNow'
    BY DEF GCPassComplete
  <2>2. msg'[q][s].exp \in Nat /\ gcNow' \in Nat
    <3>1. msg'[q][s] \in Entry \cup {NoMsg} /\ msg'[q][s] # NoMsg
      BY DEF TypeOK, Live
    <3> QED BY <3>1 DEF Entry, TypeOK
  <2>3. ASSUME msg'[q][s].exp <= gcNow' PROVE FALSE
    <3>1. s \in Live(q) /\ msg'[q][s] = msg[q][s]
      BY <1>2, <2>3
    <3>2. msg[q][s].exp > gcNow
      BY <2>1, <3>1 DEF GCPassComplete
    <3> QED BY <2>2, <2>3, <3>1, <3>2
  <2> QED BY <2>2, <2>3
<1> QED BY <1>1, <1>3, <1>4

\* A handler keeps what it knows when others store, fetch, ack, collect, or let
\* time pass, as long as nobody takes its lock or moves its acked frontier.
LEMMA HandlerFrame ==
  ASSUME TypeOK, TypeOK', MsgsStep, GrowStep, NEW g \in Handlers, HandlerOK(g),
         pc'[g] = pc[g], rcpt'[g] = rcpt[g], items'[g] = items[g], at'[g] = at[g],
         ackSeq'[g] = ackSeq[g], deletedUntil'[g] = deletedUntil[g],
         pc[g] = "acking" => /\ lock'[ShardOf[rcpt[g]]] = lock[ShardOf[rcpt[g]]]
                             /\ acked'[rcpt[g]] = acked[rcpt[g]]
  PROVE  HandlerOK(g)'
<1> DEFINE r == rcpt[g]
<1>1. /\ r \in Recipients /\ at[g] \in Nat /\ ackSeq[g] \in Nat /\ deletedUntil[g] \in Nat
      /\ lastSeq[r] \in Nat /\ delivered[r] \in Nat /\ acked[r] \in Nat /\ now \in Nat
  BY TypeFacts
<1>2. lastSeq'[r] \in Nat /\ delivered'[r] \in Nat /\ acked'[r] \in Nat /\ now' \in Nat
  <2>1. lastSeq'[r] \in 0..MaxSeq /\ delivered'[r] \in 0..MaxSeq /\ acked'[r] \in 0..MaxSeq /\ now' \in Nat
    BY <1>1 DEF TypeOK
  <2> QED BY <2>1, ConstantFacts
<1>3. /\ lastSeq[r] <= lastSeq'[r] /\ acked[r] <= acked'[r] /\ delivered[r] <= delivered'[r]
      /\ handed[r] \subseteq handed'[r] /\ now <= now'
  BY <1>1 DEF MsgsStep, GrowStep
<1>4. /\ items'[g] \subseteq handed'[rcpt'[g]] /\ at'[g] <= now'
      /\ pc'[g] \in {"idle", "acking", "acked"} => items'[g] = {}
  BY <1>1, <1>2, <1>3 DEF HandlerOK
<1>5. pc'[g] = "acking" => /\ lock'[ShardOf[rcpt'[g]]] = g
                           /\ ackSeq'[g] <= delivered'[rcpt'[g]]
                           /\ deletedUntil'[g] = acked'[rcpt'[g]]
  BY <1>1, <1>2, <1>3 DEF HandlerOK
<1>6. ASSUME pc'[g] = "acked"
      PROVE  /\ ackSeq'[g] <= lastSeq'[rcpt'[g]]
             /\ \A s \in Live(r)' : s > ackSeq'[g]
             /\ deletedUntil'[g] <= acked'[rcpt'[g]]
  <2>1. ackSeq[g] <= lastSeq[r] /\ (\A s \in Live(r) : s > ackSeq[g]) /\ deletedUntil[g] <= acked[r]
    BY <1>6 DEF HandlerOK
  <2>2. ASSUME NEW s \in Live(r)' PROVE s > ackSeq[g]
    <3>1. s \in Nat
      BY DEF Live, Seqs
    <3>2. s \in Live(r) \/ s > lastSeq[r]
      BY <1>1 DEF MsgsStep
    <3> QED BY <1>1, <2>1, <3>1, <3>2
  <2> QED BY <1>1, <1>2, <1>3, <2>1, <2>2
<1>7. Live(rcpt[g])' = Live(r)'
  BY DEF Live
<1> QED BY <1>4, <1>5, <1>6, <1>7 DEF HandlerOK, Live

\* The safety invariants survive a step that leaves the database alone.
LEMMA DbFrame ==
  ASSUME IndInv, TypeOK', UNCHANGED dbVars, now <= now',
         \A q \in Recipients : handed[q] \subseteq handed'[q]
  PROVE  MsgsStep /\ GrowStep /\ IndexesAgree' /\ FrontiersOrdered' /\ NothingSkipped'
<1> USE DEF dbVars
<1>1. \A q \in Recipients : lastSeq[q] \in Nat /\ delivered[q] \in Nat /\ acked[q] \in Nat
  BY TypeFacts DEF IndInv
<1>2. \A q \in Recipients : Live(q)' = Live(q)
  BY DEF Live
<1>3. MsgsStep /\ GrowStep
  BY <1>1, <1>2 DEF MsgsStep, GrowStep
<1>4. IndexesAgree' /\ FrontiersOrdered'
  BY <1>2 DEF IndInv, IndexesAgree, FrontiersOrdered, ExpKeyOf, Live
<1>5. NothingSkipped'
  <2>1. now \in Nat /\ now' \in Nat
    BY DEF IndInv, TypeOK
  <2>2. \A q \in Recipients : \A s \in Live(q) : msg[q][s].exp \in Nat
    BY TypeFacts DEF IndInv
  <2> QED BY <1>2, <2>1, <2>2 DEF IndInv, NothingSkipped
<1> QED BY <1>3, <1>4, <1>5

\* A step of a handler, or of nobody, that only grows the frontiers keeps what
\* every idle party knows.
LEMMA AllHandlersFrame ==
  ASSUME IndInv, TypeOK', MsgsStep, GrowStep, UNCHANGED <<lock, handlerVars, acked>>
  PROVE  HandlersOK' /\ HoldersAck'
<1>1. ASSUME NEW g \in Handlers PROVE HandlerOK(g)'
  BY HandlerFrame DEF IndInv, HandlersOK, handlerVars
<1>2. HoldersAck'
  BY DEF IndInv, HoldersAck, handlerVars
<1> QED BY <1>1, <1>2 DEF HandlersOK

\* storeMessageWithQuota preserves the invariant.
LEMMA StoreStep ==
  ASSUME IndInv, TypeOK', NEW r \in Recipients, NEW id \in MsgIds, NEW ttl \in TTLs,
         StoreMessage(r, id, ttl)
  PROVE  IndInv' /\ MsgsStep /\ GrowStep
<1> DEFINE n == lastSeq[r] + 1
           entry == [id |-> id, exp |-> now + ttl]
           key == [exp |-> now + ttl, r |-> r, s |-> n]
<1> TypeOK
  BY DEF IndInv
<1>1. /\ now \in Nat /\ ttl \in Nat /\ ttl > 0 /\ now + ttl \in Nat /\ now + ttl > now
      /\ n \in Seqs /\ n \in Nat /\ lastSeq[r] \in Nat
  <2>1. now \in Nat /\ ttl \in Nat /\ ttl > 0 /\ lastSeq[r] \in Nat
    BY ConstantFacts, TypeFacts
  <2> QED BY <2>1, ConstantFacts DEF StoreMessage, NextSeq, Seqs
<1>2. UNCHANGED <<delivered, acked, lock, handlerVars, gcVars, now, handed>>
  BY DEF StoreMessage, envVars
<1>3. now <= now' /\ UNCHANGED gcVars /\ \A q \in Recipients : handed[q] \subseteq handed'[q]
  BY <1>1, <1>2
<1>4. CASE OverQuota(r, id)
  <2>1. dup' = [dup EXCEPT ![r][id] = 0] /\ UNCHANGED <<msg, exp, lastSeq>>
    BY <1>4 DEF StoreMessage
  <2>2. dup[r][id] = 0
    BY DEF StoreMessage, IsDuplicate, IndInv, IndexesAgree, Live
  <2>3. dup' = dup
    BY <2>1, <2>2 DEF TypeOK
  <2>4. UNCHANGED dbVars
    BY <1>2, <2>1, <2>3 DEF dbVars
  <2>5. MsgsStep /\ GrowStep /\ IndexesAgree' /\ FrontiersOrdered' /\ NothingSkipped'
    BY <1>3, <2>4, DbFrame
  <2>6. HandlersOK' /\ HoldersAck'
    BY <1>2, <2>5, AllHandlersFrame
  <2>7. RefsAreDead' /\ BatchIsComplete' /\ GCPassComplete'
    BY <1>3, <2>5, CollectorFrame DEF IndInv
  <2>8. HandedWasStored'
    BY <1>2, <2>1 DEF IndInv, HandedWasStored
  <2> QED BY <2>5, <2>6, <2>7, <2>8 DEF IndInv
<1>5. CASE ~OverQuota(r, id)
  <2>1. msg' = [msg EXCEPT ![r][n] = entry] /\ dup' = [dup EXCEPT ![r][id] = n]
        /\ exp' = exp \cup {key} /\ lastSeq' = [lastSeq EXCEPT ![r] = n]
    BY <1>5 DEF StoreMessage, NextSeq
  <2>2. entry \in Entry /\ entry # NoMsg /\ entry.id = id /\ entry.exp = now + ttl
    BY <1>1, ConstantFacts DEF Entry
  <2>3. n \notin Live(r)
    BY <1>1, TypeFacts DEF IndInv, FrontiersOrdered
  <2>a. \A q \in Recipients : lastSeq'[q] = IF q = r THEN n ELSE lastSeq[q]
    BY <2>1 DEF TypeOK
  <2>b. \A q \in Recipients, i \in MsgIds : dup'[q][i] = IF q = r /\ i = id THEN n ELSE dup[q][i]
    BY <2>1 DEF TypeOK
  <2> HIDE DEF entry
  <2>4. \A q \in Recipients, s \in Seqs : msg'[q][s] = IF q = r /\ s = n THEN entry ELSE msg[q][s]
    BY <1>1, <2>1 DEF TypeOK
  <2>5. \A q \in Recipients, s \in Seqs : s \in Live(q)' <=> s \in Live(q) \/ (q = r /\ s = n)
    BY <2>2, <2>4 DEF Live
  <2>6. \A q \in Recipients : Live(q) \subseteq Seqs /\ Live(q)' \subseteq Seqs
    BY DEF Live
  <2> HIDE DEF n
  <2>7. MsgsStep
    <3>1. \A q \in Recipients : lastSeq[q] <= lastSeq'[q]
      BY <1>1, <2>a, TypeFacts DEF n
    <3>2. n > lastSeq[r]
      BY <1>1 DEF n
    <3>3. ASSUME NEW q \in Recipients, NEW s \in Live(q)'
          PROVE  (s \in Live(q) /\ msg'[q][s] = msg[q][s]) \/ (s > lastSeq[q] /\ msg'[q][s].exp > now)
      <4>1. s \in Seqs
        BY <2>6
      <4>2. CASE q = r /\ s = n
        BY <1>1, <2>2, <2>4, <3>2, <4>1, <4>2
      <4>3. CASE ~(q = r /\ s = n)
        BY <2>4, <2>5, <4>1, <4>3
      <4> QED BY <4>2, <4>3
    <3> QED BY <3>1, <3>3 DEF MsgsStep
  <2>8. GrowStep
    BY <1>2, <1>3, TypeFacts DEF GrowStep
  <2>9. IndexesAgree'
    <3>1. dup[r][id] = 0
      BY DEF StoreMessage, IsDuplicate, IndInv, IndexesAgree, Live
    <3>2. n # 0
      BY <1>1 DEF n
    <3>3. ASSUME NEW q \in Recipients, NEW i \in MsgIds, dup'[q][i] # 0
          PROVE  dup'[q][i] \in Live(q)' /\ msg'[q][dup'[q][i]].id = i
      <4>1. CASE q = r /\ i = id
        BY <1>1, <2>2, <2>b, <2>4, <2>5, <4>1
      <4>2. CASE ~(q = r /\ i = id)
        <5>1. dup[q][i] # 0 /\ dup'[q][i] = dup[q][i]
          BY <2>b, <3>3, <4>2
        <5>2. dup[q][i] \in Live(q) /\ msg[q][dup[q][i]].id = i
          BY <5>1 DEF IndInv, IndexesAgree
        <5> QED BY <2>3, <2>4, <2>5, <2>6, <5>1, <5>2
      <4> QED BY <4>1, <4>2
    <3>4. ASSUME NEW q \in Recipients, NEW s \in Live(q)' PROVE dup'[q][msg'[q][s].id] = s
      <4>1. s \in Seqs
        BY <2>6
      <4>2. CASE q = r /\ s = n
        BY <2>2, <2>b, <2>4, <4>1, <4>2
      <4>3. CASE ~(q = r /\ s = n)
        <5>1. s \in Live(q) /\ msg'[q][s] = msg[q][s]
          BY <2>4, <2>5, <4>1, <4>3
        <5>2. dup[q][msg[q][s].id] = s /\ msg[q][s].id \in MsgIds
          BY <5>1, TypeFacts DEF IndInv, IndexesAgree
        <5>3. s # 0
          BY <4>1 DEF Seqs
        <5> QED BY <2>b, <3>1, <5>1, <5>2, <5>3
      <4> QED BY <4>2, <4>3
    <3>5. ASSUME NEW k \in exp'
          PROVE  k.s \in Live(k.r)' /\ k = [exp |-> msg'[k.r][k.s].exp, r |-> k.r, s |-> k.s]
      <4>1. CASE k = key
        <5>1. k.r = r /\ k.s = n /\ k.exp = now + ttl
          BY <4>1
        <5>2. msg'[r][n] = entry /\ n \in Live(r)'
          BY <1>1, <2>4, <2>5
        <5> QED BY <2>2, <4>1, <5>1, <5>2
      <4>2. CASE k \in exp
        <5>1. k.s \in Live(k.r) /\ k = [exp |-> msg[k.r][k.s].exp, r |-> k.r, s |-> k.s]
              /\ k.r \in Recipients /\ k.s \in Seqs
          BY <4>2, TypeFacts DEF IndInv, IndexesAgree, ExpKeyOf
        <5>2. ~(k.r = r /\ k.s = n)
          BY <2>3, <5>1
        <5>3. msg'[k.r][k.s] = msg[k.r][k.s] /\ k.s \in Live(k.r)'
          BY <2>4, <2>5, <5>1, <5>2
        <5> QED BY <5>1, <5>3
      <4> QED BY <2>1, <4>1, <4>2
    <3>6. ASSUME NEW q \in Recipients, NEW s \in Live(q)'
          PROVE  [exp |-> msg'[q][s].exp, r |-> q, s |-> s] \in exp'
      <4>1. s \in Seqs
        BY <2>6
      <4>2. CASE q = r /\ s = n
        BY <2>1, <2>2, <2>4, <4>1, <4>2
      <4>3. CASE ~(q = r /\ s = n)
        <5>1. s \in Live(q) /\ msg'[q][s] = msg[q][s]
          BY <2>4, <2>5, <4>1, <4>3
        <5>2. [exp |-> msg[q][s].exp, r |-> q, s |-> s] \in exp
          BY <5>1 DEF IndInv, IndexesAgree, ExpKeyOf
        <5> QED BY <2>1, <5>1, <5>2
      <4> QED BY <4>2, <4>3
    <3> QED BY <3>3, <3>4, <3>5, <3>6 DEF IndexesAgree, ExpKeyOf
  <2>10. FrontiersOrdered'
    <3>1. n = lastSeq[r] + 1
      BY DEF n
    <3>2. ASSUME NEW q \in Recipients
          PROVE  /\ acked'[q] <= delivered'[q] /\ delivered'[q] <= lastSeq'[q]
                 /\ \A s \in Live(q)' : acked'[q] < s /\ s <= lastSeq'[q]
      <4>1. /\ acked[q] \in Nat /\ delivered[q] \in Nat /\ lastSeq[q] \in Nat
            /\ acked[q] <= delivered[q] /\ delivered[q] <= lastSeq[q]
            /\ \A s \in Live(q) : s \in Nat /\ acked[q] < s /\ s <= lastSeq[q]
        BY TypeFacts DEF IndInv, FrontiersOrdered
      <4>2. acked'[q] = acked[q] /\ delivered'[q] = delivered[q]
        BY <1>2
      <4>3. \A s \in Live(q)' : s \in Live(q) \/ (q = r /\ s = n)
        BY <2>5, <2>6
      <4> QED BY <1>1, <2>a, <3>1, <4>1, <4>2, <4>3
    <3> QED BY <3>2 DEF FrontiersOrdered
  <2>11. NothingSkipped'
    <3>1. n = lastSeq[r] + 1
      BY DEF n
    <3>2. ASSUME NEW q \in Recipients, NEW s \in Live(q)', s <= delivered'[q]
          PROVE  s \in handed'[q] \/ msg'[q][s].exp <= now'
      <4>1. delivered'[q] = delivered[q] /\ delivered[q] \in Nat /\ delivered[q] <= lastSeq[q] /\ s \in Seqs
        BY <1>2, <2>6, TypeFacts DEF IndInv, FrontiersOrdered
      <4>2. ~(q = r /\ s = n)
        BY <1>1, <3>1, <3>2, <4>1
      <4>3. s \in Live(q) /\ msg'[q][s] = msg[q][s]
        BY <2>4, <2>5, <4>1, <4>2
      <4> QED BY <1>2, <3>2, <4>1, <4>3 DEF IndInv, NothingSkipped
    <3> QED BY <3>2 DEF NothingSkipped
  <2>12. HandlersOK' /\ HoldersAck'
    BY <1>2, <2>7, <2>8, AllHandlersFrame
  <2>13. RefsAreDead' /\ BatchIsComplete' /\ GCPassComplete'
    BY <1>3, <2>7, CollectorFrame DEF IndInv
  <2>14. HandedWasStored'
    <3>1. ASSUME NEW q \in Recipients, NEW s \in handed'[q] PROVE s <= lastSeq'[q]
      <4>1. s \in Nat /\ s <= lastSeq[q] /\ lastSeq[q] \in Nat /\ lastSeq'[q] \in Nat
        <5>1. handed[q] \in SUBSET Seqs /\ lastSeq'[q] \in 0..MaxSeq
          BY DEF TypeOK
        <5>2. s \in Seqs /\ s <= lastSeq[q]
          BY <1>2, <5>1 DEF IndInv, HandedWasStored
        <5> QED BY <5>1, <5>2, TypeFacts, ConstantFacts DEF Seqs
      <4> QED BY <2>7, <4>1 DEF MsgsStep
    <3> QED BY <3>1 DEF HandedWasStored
  <2> QED BY <2>7, <2>8, <2>9, <2>10, <2>11, <2>12, <2>13, <2>14 DEF IndInv
<1> QED BY <1>4, <1>5

-----------------------------------------------------------------------------
(* The steps of a handler.                                                 *)

\* The other handlers keep their locals.
OthersKeep(h) ==
    \A g \in Handlers \ {h} :
        /\ pc'[g] = pc[g] /\ rcpt'[g] = rcpt[g] /\ items'[g] = items[g]
        /\ at'[g] = at[g] /\ ackSeq'[g] = ackSeq[g] /\ deletedUntil'[g] = deletedUntil[g]

\* A step outside AckMessages leaves the other handlers and all locks intact.
LEMMA OutsideAck ==
  ASSUME IndInv, TypeOK', MsgsStep, GrowStep, NEW h \in Handlers, OthersKeep(h),
         UNCHANGED <<lock, acked>>, pc[h] # "acking"
  PROVE  (\A g \in Handlers \ {h} : HandlerOK(g)') /\ HoldersAck'
<1>1. ASSUME NEW g \in Handlers \ {h} PROVE HandlerOK(g)'
  BY HandlerFrame DEF IndInv, HandlersOK, OthersKeep
<1>2. ASSUME NEW x \in Shards, lock'[x] # NoHolder
      PROVE  pc'[lock'[x]] = "acking" /\ ShardOf[rcpt'[lock'[x]]] = x
  <2>1. lock[x] \in Handlers /\ pc[lock[x]] = "acking" /\ ShardOf[rcpt[lock[x]]] = x
    BY <1>2 DEF IndInv, TypeOK, HoldersAck
  <2> QED BY <2>1 DEF OthersKeep
<1> QED BY <1>1, <1>2 DEF HoldersAck

\* A step of AckMessages touches one lock, free or its own, and the acked
\* frontiers behind that lock: no other handler relies on either.
LEMMA InsideAck ==
  ASSUME IndInv, TypeOK', MsgsStep, GrowStep, NEW h \in Handlers, OthersKeep(h),
         NEW sh \in Shards, lock[sh] \in {NoHolder, h},
         \A x \in Shards \ {sh} : lock'[x] = lock[x],
         \A q \in Recipients : ShardOf[q] # sh => acked'[q] = acked[q],
         pc[h] = "acking" => ShardOf[rcpt[h]] = sh,
         lock'[sh] # NoHolder => lock'[sh] = h /\ pc'[h] = "acking" /\ ShardOf[rcpt'[h]] = sh
  PROVE  (\A g \in Handlers \ {h} : HandlerOK(g)') /\ HoldersAck'
<1>1. ASSUME NEW g \in Handlers \ {h} PROVE HandlerOK(g)'
  <2>1. HandlerOK(g) /\ rcpt[g] \in Recipients /\ ShardOf[rcpt[g]] \in Shards
    BY TypeFacts DEF IndInv, HandlersOK
  <2>2. pc[g] = "acking" => ShardOf[rcpt[g]] # sh
    BY <2>1, ConstantFacts DEF HandlerOK
  <2> QED BY <2>1, <2>2, HandlerFrame DEF IndInv, OthersKeep
<1>2. ASSUME NEW x \in Shards \ {sh}, lock'[x] # NoHolder
      PROVE  pc'[lock'[x]] = "acking" /\ ShardOf[rcpt'[lock'[x]]] = x
  <2>1. lock[x] \in Handlers /\ pc[lock[x]] = "acking" /\ ShardOf[rcpt[lock[x]]] = x /\ lock'[x] = lock[x]
    BY <1>2 DEF IndInv, TypeOK, HoldersAck
  <2>2. lock[x] # h
    BY <2>1
  <2> QED BY <2>1, <2>2 DEF OthersKeep
<1> QED BY <1>1, <1>2 DEF HoldersAck

\* A step that leaves the database alone and moves one handler outside
\* AckMessages: what is left to show is about that handler.
LEMMA QuietStep ==
  ASSUME IndInv, TypeOK', NEW h \in Handlers, OthersKeep(h), HandedWasStored',
         UNCHANGED <<dbVars, lock, gcVars, now>>, pc[h] # "acking",
         \A q \in Recipients : handed[q] \subseteq handed'[q],
         HandlerOK(h)'
  PROVE  IndInv' /\ MsgsStep /\ GrowStep
<1>1. now <= now'
  BY DEF IndInv, TypeOK
<1>2. MsgsStep /\ GrowStep /\ IndexesAgree' /\ FrontiersOrdered' /\ NothingSkipped'
  BY <1>1, DbFrame
<1>3. RefsAreDead' /\ BatchIsComplete' /\ GCPassComplete'
  BY <1>1, <1>2, CollectorFrame DEF IndInv
<1>4. (\A g \in Handlers \ {h} : HandlerOK(g)') /\ HoldersAck'
  BY <1>2, OutsideAck DEF dbVars
<1> QED BY <1>2, <1>3, <1>4 DEF IndInv, HandlersOK

\* FetchMessages preserves the invariant: what it returns is on record.
LEMMA FetchStep ==
  ASSUME IndInv, TypeOK', NEW h \in Handlers, NEW r \in Recipients, NEW a \in AfterSeqs,
         NEW l \in FetchLimits, FetchMessages(h, r, a, l)
  PROVE  IndInv' /\ MsgsStep /\ GrowStep
<1> DEFINE found == FirstN(Visible(r, a), l)
<1> TypeOK
  BY DEF IndInv
<1>1. /\ pc[h] = "idle" /\ pc' = [pc EXCEPT ![h] = "fetched"] /\ rcpt' = [rcpt EXCEPT ![h] = r]
      /\ items' = [items EXCEPT ![h] = found] /\ handed' = [handed EXCEPT ![r] = @ \cup found]
      /\ UNCHANGED <<dbVars, lock, at, ackSeq, deletedUntil, gcVars, now>>
  BY DEF FetchMessages, envVars
<1>2. found \subseteq Live(r)
  BY FirstNSubset DEF Visible
<1> HIDE DEF found
<1>3. OthersKeep(h) /\ \A q \in Recipients : handed[q] \subseteq handed'[q]
  BY <1>1 DEF TypeOK, OthersKeep
<1>4. HandlerOK(h)'
  <2>1. pc'[h] = "fetched" /\ rcpt'[h] = r /\ items'[h] = found /\ found \subseteq handed'[r]
    BY <1>1 DEF TypeOK
  <2>2. at'[h] <= now'
    BY <1>1 DEF IndInv, HandlersOK, HandlerOK
  <2> QED BY <2>1, <2>2 DEF HandlerOK
<1>5. HandedWasStored'
  <2>1. ASSUME NEW q \in Recipients, NEW s \in handed'[q] PROVE s <= lastSeq'[q]
    <3>1. s \in handed[q] \/ (q = r /\ s \in found)
      BY <1>1 DEF TypeOK
    <3>2. lastSeq' = lastSeq
      BY <1>1 DEF dbVars
    <3> QED BY <1>2, <3>1, <3>2 DEF IndInv, HandedWasStored, FrontiersOrdered
  <2> QED BY <2>1 DEF HandedWasStored
<1> QED BY <1>1, <1>3, <1>4, <1>5, QuietStep

\* So do the other steps of a handler that write nothing to the database.
LEMMA QuietSteps ==
  ASSUME IndInv, TypeOK', NEW h \in Handlers,
         \/ MarkBegin(h) \/ MarkDeliveredFails(h) \/ AckReply(h)
         \/ \E r \in Recipients, n \in 0..MaxSeq : AckAlreadyDone(h, r, n)
  PROVE  IndInv' /\ MsgsStep /\ GrowStep
<1> TypeOK /\ AnyRecipient \in Recipients
  BY AnyRecipientType DEF IndInv
<1>1. UNCHANGED <<dbVars, lock, gcVars, now, handed>> /\ pc[h] # "acking" /\ OthersKeep(h)
  <2>1. CASE MarkBegin(h)
    BY <2>1 DEF MarkBegin, envVars, TypeOK, OthersKeep
  <2>2. CASE MarkDeliveredFails(h) \/ AckReply(h)
    <3>1. Forget(h) /\ UNCHANGED <<dbVars, lock, gcVars, now, handed>> /\ pc[h] # "acking"
      BY <2>2 DEF MarkDeliveredFails, AckReply, envVars
    <3> QED BY <3>1 DEF Forget, TypeOK, OthersKeep
  <2>3. CASE \E r \in Recipients, n \in 0..MaxSeq : AckAlreadyDone(h, r, n)
    BY <2>3 DEF AckAlreadyDone, envVars, TypeOK, OthersKeep
  <2> QED BY <2>1, <2>2, <2>3
<1>2. HandlerOK(h)'
  <2>1. CASE MarkBegin(h)
    <3>1. pc'[h] = "marking" /\ at'[h] = now /\ rcpt' = rcpt /\ items' = items
      BY <2>1 DEF MarkBegin, TypeOK
    <3>2. now <= now' /\ items[h] \subseteq handed[rcpt[h]]
      BY <1>1 DEF TypeOK, IndInv, HandlersOK, HandlerOK
    <3> QED BY <1>1, <3>1, <3>2 DEF HandlerOK
  <2>2. CASE MarkDeliveredFails(h) \/ AckReply(h)
    <3>1. Forget(h)
      BY <2>2 DEF MarkDeliveredFails, AckReply
    <3>2. pc'[h] = "idle" /\ items'[h] = {} /\ at'[h] = 0
      BY <3>1 DEF Forget, TypeOK
    <3>3. 0 <= now'
      BY DEF TypeOK
    <3> QED BY <3>2, <3>3 DEF HandlerOK
  <2>3. ASSUME NEW r \in Recipients, NEW n \in 0..MaxSeq, AckAlreadyDone(h, r, n) PROVE HandlerOK(h)'
    <3>1. /\ n <= acked[r] /\ pc[h] = "idle" /\ pc'[h] = "acked" /\ rcpt'[h] = r /\ ackSeq'[h] = n
          /\ deletedUntil'[h] = acked[r] /\ items' = items /\ at' = at
      BY <2>3 DEF AckAlreadyDone, TypeOK
    <3>2. items[h] = {} /\ at[h] <= now
      BY <3>1 DEF IndInv, HandlersOK, HandlerOK
    <3>3. /\ acked[r] \in Nat /\ lastSeq[r] \in Nat /\ delivered[r] \in Nat /\ n \in Nat
          /\ acked[r] <= delivered[r] /\ delivered[r] <= lastSeq[r]
          /\ \A s \in Live(r) : s \in Nat /\ acked[r] < s
      BY TypeFacts, ConstantFacts DEF IndInv, FrontiersOrdered
    <3>4. Live(r)' = Live(r) /\ acked' = acked /\ lastSeq' = lastSeq
      BY <1>1 DEF Live, dbVars
    <3>5. n <= lastSeq[r] /\ (\A s \in Live(r) : s > n) /\ acked[r] <= acked[r]
      BY <3>1, <3>3
    <3> QED BY <1>1, <3>1, <3>2, <3>4, <3>5 DEF HandlerOK, Live
  <2> QED BY <2>1, <2>2, <2>3
<1>3. HandedWasStored'
  BY <1>1 DEF dbVars, IndInv, HandedWasStored
<1> QED BY <1>1, <1>2, <1>3, QuietStep

\* MarkDelivered preserves the invariant: every number the frontier moves over
\* is stored, so given before, and fetched or expired.
LEMMA MarkStep ==
  ASSUME IndInv, TypeOK', NEW h \in Handlers, MarkDelivered(h)
  PROVE  IndInv' /\ MsgsStep /\ GrowStep
<1> DEFINE r == rcpt[h]
<1> TypeOK /\ AnyRecipient \in Recipients
  BY AnyRecipientType DEF IndInv
<1>1. PICK f \in delivered[r]..MaxSeq : StopsAt(h, f) /\ delivered' = [delivered EXCEPT ![r] = f]
  BY DEF MarkDelivered, SetDelivered
<1>2. /\ pc[h] = "marking" /\ Forget(h)
      /\ UNCHANGED <<msg, dup, exp, lastSeq, acked, lock, gcVars, now, handed>>
  BY DEF MarkDelivered, envVars
<1>3. /\ r \in Recipients /\ delivered[r] \in Nat /\ lastSeq[r] \in Nat /\ acked[r] \in Nat
      /\ at[h] \in Nat /\ now \in Nat /\ at[h] <= now /\ items[h] \subseteq handed[r]
  BY TypeFacts DEF IndInv, HandlersOK, HandlerOK
<1>4. f \in Nat /\ delivered[r] <= f /\ f \in 0..MaxSeq
  BY <1>1, <1>3, ConstantFacts
<1>5. \A q \in Recipients : Live(q)' = Live(q)
  BY <1>2 DEF Live
<1>6. \A q \in Recipients : delivered'[q] = IF q = r THEN f ELSE delivered[q]
  BY <1>1 DEF TypeOK
<1>7. \A s \in Seqs : delivered[r] < s /\ s <= f =>
          s \in Live(r) /\ (msg[r][s].exp <= at[h] \/ s \in items[h])
  BY <1>1 DEF StopsAt, Passes
<1> HIDE DEF r
<1>8. MsgsStep /\ GrowStep
  <2>1. MsgsStep
    BY <1>2, <1>5, TypeFacts DEF MsgsStep
  <2>2. \A q \in Recipients : delivered[q] <= delivered'[q]
    BY <1>4, <1>6, TypeFacts
  <2> QED BY <1>2, <2>1, <2>2, TypeFacts DEF GrowStep
<1>9. IndexesAgree'
  BY <1>2 DEF IndInv, IndexesAgree, ExpKeyOf, Live
<1>10. FrontiersOrdered'
  <2>1. f <= lastSeq[r]
    <3>1. CASE f = delivered[r]
      BY <1>3, <3>1 DEF IndInv, FrontiersOrdered
    <3>2. CASE f # delivered[r]
      <4>1. f \in Seqs
        BY <1>3, <1>4, <3>2 DEF Seqs
      <4>2. f \in Live(r)
        BY <1>3, <1>4, <1>7, <3>2, <4>1
      <4> QED BY <1>3, <4>2 DEF IndInv, FrontiersOrdered
    <3> QED BY <3>1, <3>2
  <2>2. ASSUME NEW q \in Recipients
        PROVE  /\ acked'[q] <= delivered'[q] /\ delivered'[q] <= lastSeq'[q]
               /\ \A s \in Live(q)' : acked'[q] < s /\ s <= lastSeq'[q]
    <3>1. /\ acked[q] \in Nat /\ delivered[q] \in Nat /\ lastSeq[q] \in Nat
          /\ acked[q] <= delivered[q] /\ delivered[q] <= lastSeq[q]
          /\ \A s \in Live(q) : acked[q] < s /\ s <= lastSeq[q]
      BY TypeFacts DEF IndInv, FrontiersOrdered
    <3> QED BY <1>2, <1>4, <1>5, <1>6, <2>1, <3>1
  <2> QED BY <2>2 DEF FrontiersOrdered
<1>11. NothingSkipped'
  <2>1. ASSUME NEW q \in Recipients, NEW s \in Live(q), s <= delivered'[q]
        PROVE  s \in handed[q] \/ msg[q][s].exp <= now
    <3>1. s \in Seqs /\ s \in Nat /\ msg[q][s].exp \in Nat /\ delivered[q] \in Nat
      BY TypeFacts
    <3>2. CASE s <= delivered[q]
      BY <3>2 DEF IndInv, NothingSkipped
    <3>3. CASE ~(s <= delivered[q])
      <4>1. q = r /\ delivered[r] < s /\ s <= f
        BY <1>6, <2>1, <3>1, <3>3
      <4>2. msg[r][s].exp <= at[h] \/ s \in items[h]
        BY <1>7, <3>1, <4>1
      <4> QED BY <1>3, <3>1, <4>1, <4>2
    <3> QED BY <3>2, <3>3
  <2> QED BY <1>2, <1>5, <2>1 DEF NothingSkipped
<1>12. OthersKeep(h) /\ pc'[h] = "idle" /\ items'[h] = {} /\ at'[h] = 0
  BY <1>2 DEF Forget, TypeOK, OthersKeep
<1>13. HandlersOK' /\ HoldersAck'
  <2>1. 0 <= now'
    BY <1>2, <1>3
  <2>2. HandlerOK(h)'
    BY <1>12, <2>1 DEF HandlerOK
  <2> QED BY <1>2, <1>8, <1>12, <2>2, OutsideAck DEF HandlersOK
<1>14. RefsAreDead' /\ BatchIsComplete' /\ GCPassComplete'
  <2>1. now <= now' /\ UNCHANGED gcVars
    BY <1>2, <1>3
  <2> QED BY <1>8, <2>1, CollectorFrame DEF IndInv
<1>15. HandedWasStored'
  BY <1>2 DEF IndInv, HandedWasStored
<1> QED BY <1>8, <1>9, <1>10, <1>11, <1>13, <1>14, <1>15 DEF IndInv

\* AckBegin preserves the invariant: it takes a free lock.
LEMMA AckBeginStep ==
  ASSUME IndInv, TypeOK', NEW h \in Handlers, NEW r \in Recipients, NEW n \in 0..MaxSeq,
         AckBegin(h, r, n)
  PROVE  IndInv' /\ MsgsStep /\ GrowStep
<1> DEFINE sh == ShardOf[r]
<1> TypeOK
  BY DEF IndInv
<1>1. sh \in Shards /\ now \in Nat /\ acked[r] \in Nat
  BY TypeFacts, ConstantFacts
<1>2. /\ pc[h] = "idle" /\ lock[sh] = NoHolder /\ n <= delivered[r]
      /\ UNCHANGED <<dbVars, items, at, gcVars, now, handed>>
  BY DEF AckBegin, Unlocked, Admissible, envVars
<1>3. /\ OthersKeep(h) /\ pc'[h] = "acking" /\ rcpt'[h] = r /\ ackSeq'[h] = n
      /\ deletedUntil'[h] = acked[r]
      /\ lock'[sh] = h /\ \A x \in Shards \ {sh} : lock'[x] = lock[x]
  BY <1>1 DEF AckBegin, TypeOK, OthersKeep
<1> HIDE DEF sh
<1>4. now <= now' /\ \A q \in Recipients : handed[q] \subseteq handed'[q]
  BY <1>1, <1>2
<1>5. MsgsStep /\ GrowStep /\ IndexesAgree' /\ FrontiersOrdered' /\ NothingSkipped'
  BY <1>2, <1>4, DbFrame
<1>6. RefsAreDead' /\ BatchIsComplete' /\ GCPassComplete'
  BY <1>2, <1>4, <1>5, CollectorFrame DEF IndInv
<1>7. (\A g \in Handlers \ {h} : HandlerOK(g)') /\ HoldersAck'
  BY <1>1, <1>2, <1>3, <1>5, InsideAck DEF dbVars, sh
<1>8. HandlerOK(h)'
  <2>1. items[h] = {} /\ at[h] <= now
    BY <1>2 DEF IndInv, HandlersOK, HandlerOK
  <2> QED BY <1>2, <1>3, <2>1 DEF HandlerOK, dbVars, sh
<1>9. HandedWasStored'
  BY <1>2 DEF IndInv, HandedWasStored, dbVars
<1> QED BY <1>5, <1>6, <1>7, <1>8, <1>9 DEF IndInv, HandlersOK

\* Facts about a handler inside AckMessages.
LEMMA AckingFacts ==
  ASSUME IndInv, NEW h \in Handlers, pc[h] = "acking"
  PROVE  /\ rcpt[h] \in Recipients /\ ShardOf[rcpt[h]] \in Shards
         /\ lock[ShardOf[rcpt[h]]] = h
         /\ ackSeq[h] \in Nat /\ ackSeq[h] <= delivered[rcpt[h]]
         /\ deletedUntil[h] = acked[rcpt[h]]
         /\ acked[rcpt[h]] \in Nat /\ delivered[rcpt[h]] \in Nat /\ lastSeq[rcpt[h]] \in Nat
         /\ items[h] = {} /\ at[h] <= now
         /\ ToDelete(h) \subseteq Live(rcpt[h]) /\ ToDelete(h) \in SUBSET Nat /\ IsFiniteSet(ToDelete(h))
<1> TypeOK
  BY DEF IndInv
<1>1. ToDelete(h) \subseteq Live(rcpt[h]) /\ ToDelete(h) \subseteq 1..MaxSeq
  BY DEF ToDelete, Live, Seqs
<1>2. IsFiniteSet(1..MaxSeq) /\ (1..MaxSeq) \subseteq Nat
  BY ConstantFacts, FS_Interval
<1>3. IsFiniteSet(ToDelete(h))
  BY <1>1, <1>2, FS_Subset
<1> QED BY <1>1, <1>2, <1>3, TypeFacts DEF IndInv, HandlersOK, HandlerOK

\* What one batch of AckMessages deletes: every stored message up to its last
\* number, and if the loop ends there, everything the request covers.
LEMMA BatchFacts ==
  ASSUME IndInv, NEW h \in Handlers, pc[h] = "acking", NEW gone, NEW d \in gone,
         gone = FirstN(ToDelete(h), AckDeleteBatch), \A s \in gone : s <= d
  PROVE  /\ gone \subseteq Live(rcpt[h])
         /\ d \in Nat /\ d <= ackSeq[h] /\ acked[rcpt[h]] < d
         /\ \A s \in Live(rcpt[h]) : s \in gone <=> s <= d
         /\ AckLoopEnds(h, gone, d) => \A s \in Live(rcpt[h]) : s <= ackSeq[h] => s \in gone
<1> DEFINE r == rcpt[h]
           T == ToDelete(h)
<1> TypeOK
  BY DEF IndInv
<1>1. /\ r \in Recipients /\ T \subseteq Live(r) /\ T \in SUBSET Nat /\ IsFiniteSet(T) /\ ackSeq[h] \in Nat
      /\ AckDeleteBatch \in Nat
  BY AckingFacts, ConstantFacts
<1>2. gone \subseteq T
  BY FirstNSubset
<1>3. \A s \in Live(r) : s \in Nat /\ (s \in T <=> s <= ackSeq[h])
  BY <1>1, TypeFacts DEF ToDelete
<1>4. d \in Nat /\ d <= ackSeq[h] /\ d \in Live(r)
  BY <1>1, <1>2, <1>3
<1>5. acked[r] < d
  BY <1>1, <1>4 DEF IndInv, FrontiersOrdered
<1> HIDE DEF T
<1>6. ASSUME NEW s \in Live(r), s <= d PROVE s \in gone
  <2>1. s \in T
    <3>1. s \in Nat /\ (s \in T <=> s <= ackSeq[h])
      BY <1>3
    <3> QED BY <1>1, <1>4, <1>6, <3>1
  <2> QED BY <1>1, <1>6, <2>1, FirstNPrefix DEF T
<1>7. ASSUME AckLoopEnds(h, gone, d), NEW s \in Live(r), s <= ackSeq[h] PROVE s \in gone
  <2>1. CASE Cardinality(gone) < AckDeleteBatch
    <3>1. gone = T
      BY <1>1, <2>1, FirstNShort DEF T
    <3> QED BY <1>3, <1>7, <3>1
  <2>2. CASE d >= ackSeq[h]
    <3>1. s \in Nat /\ ackSeq[h] \in Nat /\ d \in Nat
      BY <1>1, <1>3, <1>4
    <3>2. s <= d
      BY <1>7, <2>2, <3>1
    <3> QED BY <1>6, <3>2
  <2> QED BY <1>7, <2>1, <2>2 DEF AckLoopEnds
<1> QED BY <1>1, <1>2, <1>4, <1>5, <1>6, <1>7

\* One batch of AckMessages preserves the invariant.
LEMMA AckDeleteSomeStep ==
  ASSUME IndInv, TypeOK', NEW h \in Handlers, AckDeleteSome(h)
  PROVE  IndInv' /\ MsgsStep /\ GrowStep
<1> TypeOK
  BY DEF IndInv
<1>a. PICK r \in Recipients : r = rcpt[h]
  BY TypeFacts
<1> DEFINE gone == FirstN(ToDelete(h), AckDeleteBatch)
           sh == ShardOf[r]
<1>b. PICK d \in gone :
         /\ \A s \in gone : s <= d
         /\ msg' = WithoutMsgs(rcpt[h], gone)
         /\ dup' = WithoutDups(rcpt[h], gone)
         /\ exp' = exp \ {ExpKeyOf(rcpt[h], s) : s \in gone}
         /\ acked' = [acked EXCEPT ![rcpt[h]] = IF d >= @ THEN d ELSE @]
         /\ deletedUntil' = [deletedUntil EXCEPT ![h] = d]
         /\ IF AckLoopEnds(h, gone, d) THEN AckReturn(h) ELSE UNCHANGED <<pc, lock>>
  BY DEF AckDeleteSome
<1>1. /\ \A s \in gone : s <= d
      /\ msg' = WithoutMsgs(r, gone)
      /\ dup' = WithoutDups(r, gone)
      /\ exp' = exp \ {ExpKeyOf(r, s) : s \in gone}
      /\ acked' = [acked EXCEPT ![r] = IF d >= @ THEN d ELSE @]
      /\ deletedUntil' = [deletedUntil EXCEPT ![h] = d]
      /\ IF AckLoopEnds(h, gone, d) THEN AckReturn(h) ELSE UNCHANGED <<pc, lock>>
  BY <1>a, <1>b
<1>2. pc[h] = "acking" /\ UNCHANGED <<lastSeq, delivered, rcpt, items, at, ackSeq, gcVars, now, handed>>
  BY DEF AckDeleteSome, envVars
<1>3. /\ r \in Recipients /\ sh \in Shards /\ lock[sh] = h
      /\ ackSeq[h] \in Nat /\ ackSeq[h] <= delivered[r] /\ deletedUntil[h] = acked[r]
      /\ acked[r] \in Nat /\ delivered[r] \in Nat /\ lastSeq[r] \in Nat
      /\ items[h] = {} /\ at[h] <= now
  BY <1>a, <1>2, AckingFacts
<1>4. /\ gone \subseteq Live(r) /\ d \in Nat /\ d <= ackSeq[h] /\ acked[r] < d
      /\ \A s \in Live(r) : s \in gone <=> s <= d
      /\ AckLoopEnds(h, gone, d) => \A s \in Live(r) : s <= ackSeq[h] => s \in gone
  BY <1>a, <1>1, <1>2, BatchFacts
<1>5. gone \in SUBSET Seqs
  BY <1>4 DEF Live
<1> HIDE DEF gone, sh
<1>6. \A q \in Recipients, s \in Seqs :
         /\ msg'[q][s] = IF q = r /\ s \in gone THEN NoMsg ELSE msg[q][s]
         /\ s \in Live(q)' <=> s \in Live(q) /\ ~(q = r /\ s \in gone)
  BY <1>1, <1>3, <1>5, DeleteFacts
<1>7. \A q \in Recipients : \A s \in Live(q)' :
         s \in Seqs /\ s \in Live(q) /\ ~(q = r /\ s \in gone) /\ msg'[q][s] = msg[q][s]
  <2>1. \A q \in Recipients : Live(q)' \subseteq Seqs
    BY DEF Live
  <2> QED BY <1>6, <2>1
<1>8. /\ \A q \in Recipients : acked'[q] = IF q = r THEN d ELSE acked[q]
      /\ deletedUntil'[h] = d
  BY <1>1, <1>3, <1>4 DEF TypeOK
<1>9. MsgsStep /\ GrowStep
  <2>1. MsgsStep
    BY <1>2, <1>7, TypeFacts DEF MsgsStep
  <2>2. \A q \in Recipients : acked[q] <= acked'[q] /\ delivered[q] <= delivered'[q]
    BY <1>2, <1>3, <1>4, <1>8, TypeFacts
  <2> QED BY <1>2, <2>1, <2>2, TypeFacts DEF GrowStep
<1>10. IndexesAgree'
  BY <1>1, <1>3, <1>4, DeleteKeepsIndexes DEF IndInv
<1>11. FrontiersOrdered'
  <2>1. ASSUME NEW q \in Recipients
        PROVE  /\ acked'[q] <= delivered'[q] /\ delivered'[q] <= lastSeq'[q]
               /\ \A s \in Live(q)' : acked'[q] < s /\ s <= lastSeq'[q]
    <3>1. /\ acked[q] <= delivered[q] /\ delivered[q] <= lastSeq[q]
          /\ \A s \in Live(q) : s \in Nat /\ acked[q] < s /\ s <= lastSeq[q]
      BY TypeFacts DEF IndInv, FrontiersOrdered
    <3>2. CASE q = r
      <4>1. acked'[q] = d /\ d <= delivered[r]
        BY <1>3, <1>4, <1>8, <3>2
      <4>2. \A s \in Live(q)' : s \in Live(q) /\ ~(s <= d)
        BY <1>4, <1>7, <3>2
      <4>3. \A s \in Live(q)' : d < s /\ s <= lastSeq[q]
        BY <1>4, <3>1, <4>2
      <4> QED BY <1>2, <3>1, <3>2, <4>1, <4>3
    <3>3. CASE q # r
      BY <1>2, <1>7, <1>8, <3>1, <3>3
    <3> QED BY <3>2, <3>3
  <2> QED BY <2>1 DEF FrontiersOrdered
<1>12. NothingSkipped'
  BY <1>2, <1>7 DEF IndInv, NothingSkipped
<1>13. OthersKeep(h) /\ rcpt' = rcpt /\ items' = items /\ at' = at /\ ackSeq' = ackSeq
  BY <1>1, <1>2 DEF OthersKeep, AckReturn, TypeOK
<1>14. ASSUME AckLoopEnds(h, gone, d) PROVE HandlersOK' /\ HoldersAck'
  <2>1. pc' = [pc EXCEPT ![h] = "acked"] /\ lock' = [lock EXCEPT ![sh] = NoHolder]
    BY <1>a, <1>1, <1>14 DEF AckReturn, sh
  <2>2. pc'[h] = "acked" /\ lock'[sh] = NoHolder /\ \A x \in Shards \ {sh} : lock'[x] = lock[x]
    BY <1>3, <2>1 DEF TypeOK
  <2>3. HandlerOK(h)'
    <3>1. ackSeq[h] <= lastSeq[r]
      BY <1>3 DEF IndInv, FrontiersOrdered
    <3>2. ASSUME NEW s \in Live(r)' PROVE s > ackSeq[h]
      <4>1. s \in Live(r) /\ s \notin gone /\ s \in Nat
        BY <1>7, TypeFacts
      <4>2. ~(s <= ackSeq[h])
        BY <1>4, <1>14, <4>1
      <4> QED BY <1>3, <4>1, <4>2
    <3>3. d <= acked'[r] /\ rcpt'[h] = r
      BY <1>a, <1>3, <1>4, <1>8, <1>13
    <3>4. items'[h] = {} /\ at'[h] <= now' /\ ackSeq'[h] <= lastSeq'[r] /\ deletedUntil'[h] <= acked'[r]
      BY <1>2, <1>3, <1>8, <1>13, <3>1, <3>3
    <3>5. \A s \in Live(rcpt[h])' : s > ackSeq'[h]
      BY <1>13, <3>2, <3>3 DEF Live
    <3> QED BY <2>2, <3>3, <3>4, <3>5 DEF HandlerOK
  <2>4. (\A g \in Handlers \ {h} : HandlerOK(g)') /\ HoldersAck'
    <3>1. \A q \in Recipients : ShardOf[q] # sh => acked'[q] = acked[q]
      BY <1>8 DEF sh
    <3> QED BY <1>3, <1>9, <1>13, <2>2, <3>1, InsideAck, <1>a DEF sh
  <2> QED BY <2>3, <2>4 DEF HandlersOK
<1>15. ASSUME ~AckLoopEnds(h, gone, d) PROVE HandlersOK' /\ HoldersAck'
  <2>1. UNCHANGED <<pc, lock>>
    BY <1>1, <1>15
  <2>2. HandlerOK(h)'
    BY <1>a, <1>2, <1>3, <1>8, <1>13, <2>1 DEF HandlerOK, sh
  <2>3. (\A g \in Handlers \ {h} : HandlerOK(g)') /\ HoldersAck'
    <3>1. \A q \in Recipients : ShardOf[q] # sh => acked'[q] = acked[q]
      BY <1>8 DEF sh
    <3> QED BY <1>2, <1>3, <1>9, <1>13, <2>1, <3>1, InsideAck, <1>a DEF sh
  <2> QED BY <2>2, <2>3 DEF HandlersOK
<1>16. RefsAreDead' /\ BatchIsComplete' /\ GCPassComplete'
  <2>1. now <= now' /\ UNCHANGED gcVars
    BY <1>2, TypeFacts
  <2> QED BY <1>9, <2>1, CollectorFrame DEF IndInv
<1>17. HandedWasStored'
  BY <1>2 DEF IndInv, HandedWasStored
<1>18. HandlersOK' /\ HoldersAck'
  BY <1>14, <1>15
<1> QED BY <1>9, <1>10, <1>11, <1>12, <1>16, <1>17, <1>18 DEF IndInv

\* The last iteration of AckMessages preserves the invariant: nothing up to
\* ack_seq is stored, so the acked frontier may jump there.
LEMMA AckDeleteNoneStep ==
  ASSUME IndInv, TypeOK', NEW h \in Handlers, AckDeleteNone(h)
  PROVE  IndInv' /\ MsgsStep /\ GrowStep
<1> TypeOK
  BY DEF IndInv
<1>1. PICK r \in Recipients : r = rcpt[h]
  BY TypeFacts
<1> DEFINE sh == ShardOf[r]
<1>2. /\ pc[h] = "acking" /\ ToDelete(h) = {}
      /\ UNCHANGED <<msg, dup, exp, lastSeq, delivered, rcpt, items, at, ackSeq, gcVars, now, handed>>
      /\ pc' = [pc EXCEPT ![h] = "acked"] /\ lock' = [lock EXCEPT ![sh] = NoHolder]
  BY <1>1 DEF AckDeleteNone, AckReturn, envVars
<1>3. /\ sh \in Shards /\ lock[sh] = h
      /\ ackSeq[h] \in Nat /\ ackSeq[h] <= delivered[r] /\ deletedUntil[h] = acked[r]
      /\ acked[r] \in Nat /\ delivered[r] \in Nat /\ lastSeq[r] \in Nat
      /\ items[h] = {} /\ at[h] <= now
  BY <1>1, <1>2, AckingFacts
<1>4. \A q \in Recipients : Live(q)' = Live(q) /\ \A s \in Live(q) : s \in Nat
  BY <1>2, TypeFacts DEF Live
<1>5. \A s \in Live(r) : s > ackSeq[h]
  <2>1. \A s \in Live(r) : ~(s <= ackSeq[h])
    BY <1>1, <1>2 DEF ToDelete
  <2> QED BY <1>3, <1>4, <2>1
<1>6. PICK a \in Nat : /\ acked[r] <= a /\ a <= delivered[r] /\ deletedUntil'[h] = a
                       /\ \A s \in Live(r) : a < s
                       /\ \A q \in Recipients : acked'[q] = IF q = r THEN a ELSE acked[q]
                       /\ \A g \in Handlers \ {h} : deletedUntil'[g] = deletedUntil[g]
  <2>1. CASE deletedUntil[h] < ackSeq[h]
    <3>1. acked' = [acked EXCEPT ![r] = ackSeq[h]] /\ deletedUntil' = [deletedUntil EXCEPT ![h] = ackSeq[h]]
      BY <1>1, <2>1 DEF AckDeleteNone
    <3>2. \A q \in Recipients : acked'[q] = IF q = r THEN ackSeq[h] ELSE acked[q]
      BY <3>1 DEF TypeOK
    <3>3. deletedUntil'[h] = ackSeq[h] /\ \A g \in Handlers \ {h} : deletedUntil'[g] = deletedUntil[g]
      BY <3>1 DEF TypeOK
    <3>4. acked[r] <= ackSeq[h] /\ \A s \in Live(r) : ackSeq[h] < s
      BY <1>3, <1>4, <1>5, <2>1
    <3> QED BY <1>3, <3>2, <3>3, <3>4
  <2>2. CASE ~(deletedUntil[h] < ackSeq[h])
    <3>1. UNCHANGED <<acked, deletedUntil>>
      BY <2>2 DEF AckDeleteNone
    <3>2. acked[r] <= acked[r] /\ acked[r] <= delivered[r] /\ \A s \in Live(r) : acked[r] < s
      BY <1>3 DEF IndInv, FrontiersOrdered
    <3> QED BY <1>3, <3>1, <3>2
  <2> QED BY <2>1, <2>2
<1> HIDE DEF sh
<1>7. MsgsStep /\ GrowStep
  <2>1. MsgsStep
    BY <1>2, <1>4, TypeFacts DEF MsgsStep
  <2>2. \A q \in Recipients : acked[q] <= acked'[q] /\ delivered[q] <= delivered'[q]
    BY <1>2, <1>6, TypeFacts
  <2> QED BY <1>2, <2>1, <2>2, TypeFacts DEF GrowStep
<1>8. IndexesAgree' /\ NothingSkipped'
  BY <1>2 DEF IndInv, IndexesAgree, NothingSkipped, ExpKeyOf, Live
<1>9. FrontiersOrdered'
  <2>1. \A q \in Recipients :
           /\ acked'[q] <= delivered[q] /\ delivered[q] <= lastSeq[q]
           /\ \A s \in Live(q) : acked'[q] < s /\ s <= lastSeq[q]
    BY <1>6 DEF IndInv, FrontiersOrdered
  <2> QED BY <1>2, <1>4, <2>1 DEF FrontiersOrdered
<1>10. OthersKeep(h)
  BY <1>2, <1>6 DEF OthersKeep, TypeOK
<1>11. pc'[h] = "acked" /\ lock'[sh] = NoHolder /\ \A x \in Shards \ {sh} : lock'[x] = lock[x]
  BY <1>2, <1>3 DEF TypeOK
<1>12. HandlerOK(h)'
  <2>1. ackSeq[h] <= lastSeq[r]
    BY <1>3 DEF IndInv, FrontiersOrdered
  <2>2. rcpt'[h] = r /\ deletedUntil'[h] <= acked'[r] /\ ackSeq'[h] <= lastSeq'[r]
    BY <1>1, <1>2, <1>6, <2>1
  <2>3. \A s \in Live(rcpt[h])' : s > ackSeq'[h]
    BY <1>1, <1>2, <1>5 DEF Live
  <2> QED BY <1>2, <1>3, <1>11, <2>2, <2>3 DEF HandlerOK
<1>13. (\A g \in Handlers \ {h} : HandlerOK(g)') /\ HoldersAck'
  <2>1. \A q \in Recipients : ShardOf[q] # sh => acked'[q] = acked[q]
    BY <1>6 DEF sh
  <2> QED BY <1>1, <1>3, <1>7, <1>10, <1>11, <2>1, InsideAck DEF sh
<1>14. RefsAreDead' /\ BatchIsComplete' /\ GCPassComplete'
  <2>1. now <= now' /\ UNCHANGED gcVars
    BY <1>2, TypeFacts
  <2> QED BY <1>7, <2>1, CollectorFrame DEF IndInv
<1>15. HandedWasStored'
  BY <1>2 DEF IndInv, HandedWasStored
<1> QED BY <1>7, <1>8, <1>9, <1>12, <1>13, <1>14, <1>15 DEF IndInv, HandlersOK

\* An aborted AckMessages preserves the invariant: batches are all or nothing
\* and the deferred unlock runs.
LEMMA AckAbortsStep ==
  ASSUME IndInv, TypeOK', NEW h \in Handlers, AckAborts(h)
  PROVE  IndInv' /\ MsgsStep /\ GrowStep
<1> TypeOK /\ AnyRecipient \in Recipients
  BY AnyRecipientType DEF IndInv
<1>1. PICK sh \in Shards : sh = ShardOf[rcpt[h]]
  BY TypeFacts
<1>2. /\ pc[h] = "acking" /\ lock' = [lock EXCEPT ![sh] = NoHolder] /\ Forget(h)
      /\ UNCHANGED <<dbVars, gcVars, now, handed>>
  BY <1>1 DEF AckAborts, envVars
<1>3. lock[sh] = h
  BY <1>1, <1>2, AckingFacts
<1>4. OthersKeep(h) /\ pc'[h] = "idle" /\ items'[h] = {} /\ at'[h] = 0
  BY <1>2 DEF Forget, TypeOK, OthersKeep
<1>5. lock'[sh] = NoHolder /\ \A x \in Shards \ {sh} : lock'[x] = lock[x]
  BY <1>2 DEF TypeOK
<1>6. now <= now' /\ 0 <= now' /\ \A q \in Recipients : handed[q] \subseteq handed'[q]
  BY <1>2, TypeFacts
<1>7. MsgsStep /\ GrowStep /\ IndexesAgree' /\ FrontiersOrdered' /\ NothingSkipped'
  BY <1>2, <1>6, DbFrame
<1>8. RefsAreDead' /\ BatchIsComplete' /\ GCPassComplete'
  BY <1>2, <1>6, <1>7, CollectorFrame DEF IndInv
<1>9. (\A g \in Handlers \ {h} : HandlerOK(g)') /\ HoldersAck'
  BY <1>1, <1>2, <1>3, <1>4, <1>5, <1>7, InsideAck DEF dbVars
<1>10. HandlerOK(h)'
  BY <1>4, <1>6 DEF HandlerOK
<1>11. HandedWasStored'
  BY <1>2 DEF IndInv, HandedWasStored, dbVars
<1> QED BY <1>7, <1>8, <1>9, <1>10, <1>11 DEF IndInv, HandlersOK

-----------------------------------------------------------------------------
(* The steps of the collector and of the environment.                      *)

\* Steps that leave the database and every handler alone.
LEMMA CalmStep ==
  ASSUME IndInv, TypeOK', UNCHANGED <<dbVars, lock, handlerVars, handed>>, now <= now',
         RefsAreDead', BatchIsComplete', GCPassComplete'
  PROVE  IndInv' /\ MsgsStep /\ GrowStep
<1>1. \A q \in Recipients : handed[q] \subseteq handed'[q]
  OBVIOUS
<1>2. MsgsStep /\ GrowStep /\ IndexesAgree' /\ FrontiersOrdered' /\ NothingSkipped'
  BY <1>1, DbFrame
<1>3. HandlersOK' /\ HoldersAck'
  BY <1>2, AllHandlersFrame DEF dbVars
<1>4. HandedWasStored'
  BY DEF IndInv, HandedWasStored, dbVars
<1> QED BY <1>2, <1>3, <1>4 DEF IndInv

\* A tick of the worker, a failed pass and the clock preserve the invariant.
LEMMA CalmSteps ==
  ASSUME IndInv, TypeOK', GCTick \/ GCScanFails \/ GCFails \/ Tick
  PROVE  IndInv' /\ MsgsStep /\ GrowStep
<1> TypeOK
  BY DEF IndInv
<1>1. CASE GCTick \/ GCScanFails
  <2>1. /\ gcpc' \in {"scan", "failed"}
        /\ UNCHANGED <<dbVars, lock, handlerVars, gcNow, gcRefs, now, handed>> /\ now <= now'
    BY <1>1, TypeFacts DEF GCTick, GCScanFails, envVars
  <2>2. RefsAreDead'
    BY <2>1 DEF IndInv, RefsAreDead, Live, dbVars
  <2>3. BatchIsComplete' /\ GCPassComplete'
    BY <2>1 DEF BatchIsComplete, GCPassComplete
  <2> QED BY <2>1, <2>2, <2>3, CalmStep
<1>2. CASE GCFails
  <2>1. /\ gcpc' = "failed" /\ gcRefs' = {}
        /\ UNCHANGED <<dbVars, lock, handlerVars, gcNow, now, handed>> /\ now <= now'
    BY <1>2, TypeFacts DEF GCFails
  <2>2. RefsAreDead'
    BY <2>1 DEF IndInv, RefsAreDead
  <2>3. BatchIsComplete' /\ GCPassComplete'
    BY <2>1 DEF BatchIsComplete, GCPassComplete
  <2> QED BY <2>1, <2>2, <2>3, CalmStep
<1>3. CASE Tick
  <2>1. UNCHANGED <<dbVars, lock, handlerVars, gcVars, handed>> /\ now <= now'
    BY <1>3, TypeFacts DEF Tick
  <2>2. MsgsStep
    BY <2>1, DbFrame
  <2>3. RefsAreDead' /\ BatchIsComplete' /\ GCPassComplete'
    BY <2>1, <2>2, CollectorFrame DEF IndInv
  <2> QED BY <2>1, <2>3, CalmStep
<1> QED BY <1>1, <1>2, <1>3

\* A scan preserves the invariant: a batch that is not full is all that is due.
LEMMA ScanStep ==
  ASSUME IndInv, TypeOK', GCScan
  PROVE  IndInv' /\ MsgsStep /\ GrowStep
<1> DEFINE due == {k \in exp : Due(k)}
           refs == {k \in due : Cardinality({j \in due : KeyBefore(j, k)}) < GCBatchSize}
<1> TypeOK
  BY DEF IndInv
<1>a. Scanned = refs
  BY DEF Scanned
<1>1. /\ gcNow' = now /\ gcRefs' = refs
      /\ gcFull' = (Cardinality(refs) >= GCBatchSize)
      /\ gcpc' = IF refs = {} THEN "sleep" ELSE "delete"
      /\ UNCHANGED <<dbVars, lock, handlerVars, now, handed>> /\ now <= now'
  <2> HIDE DEF refs
  <2> QED BY <1>a, TypeFacts DEF GCScan, envVars
<1>2. due \in SUBSET ExpKey /\ IsFiniteSet(due) /\ refs \subseteq due
  BY FS_Subset DEF TypeOK
<1>3. IsFiniteSet(refs) /\ Cardinality(refs) \in Nat /\ GCBatchSize \in Nat /\ GCBatchSize > 0
  <2>1. IsFiniteSet(refs)
    <3> HIDE DEF due, refs
    <3> QED BY <1>2, FS_Subset
  <2>2. Cardinality(refs) \in Nat
    <3> HIDE DEF refs
    <3> QED BY <2>1, FS_CardinalityType
  <2> QED BY <2>1, <2>2, ConstantFacts
<1>4. Cardinality(refs) < GCBatchSize => refs = due
  BY <1>2, <1>3, ScanShort
<1>5. refs = {} => due = {}
  BY <1>3, <1>4, FS_EmptySet
<1>6. \A k \in exp : k \in due <=> k.exp <= now
  BY DEF Due
<1> HIDE DEF due, refs
<1>7. \A q \in Recipients : Live(q)' = Live(q)
  BY <1>1 DEF Live, dbVars
<1>8. \A q \in Recipients : \A s \in Live(q) :
         ExpKeyOf(q, s) \in exp /\ (ExpKeyOf(q, s) \in due <=> msg[q][s].exp <= now)
  BY <1>6 DEF IndInv, IndexesAgree, ExpKeyOf
<1>9. RefsAreDead'
  <2>1. \A k \in refs : k \in exp /\ k.exp <= now
    BY <1>2, <1>6 DEF due
  <2>2. ASSUME NEW k \in refs PROVE k.s <= lastSeq[k.r] /\ (k.s \in Live(k.r) => msg[k.r][k.s].exp = k.exp)
    <3>1. k.r \in Recipients /\ k.s \in Live(k.r) /\ k = ExpKeyOf(k.r, k.s)
      BY <2>1, TypeFacts DEF IndInv, IndexesAgree
    <3> QED BY <3>1 DEF IndInv, FrontiersOrdered, ExpKeyOf
  <2> QED BY <1>1, <2>1, <2>2 DEF RefsAreDead, Live, dbVars
<1>10. BatchIsComplete'
  <2>1. ASSUME gcpc' = "delete", ~gcFull', NEW q \in Recipients, NEW s \in Live(q), msg[q][s].exp <= now
        PROVE  ExpKeyOf(q, s) \in refs
    <3>1. ~(Cardinality(refs) >= GCBatchSize)
      BY <1>1, <2>1
    <3>2. refs = due
      BY <1>3, <1>4, <3>1
    <3> QED BY <1>8, <2>1, <3>2
  <2> QED BY <1>1, <1>7, <2>1 DEF BatchIsComplete, ExpKeyOf, dbVars
<1>11. GCPassComplete'
  <2>1. ASSUME gcpc' = "sleep", NEW q \in Recipients, NEW s \in Live(q)
        PROVE  msg[q][s].exp > now
    <3>1. ~(msg[q][s].exp <= now)
      BY <1>1, <1>5, <1>8, <2>1
    <3> QED BY <3>1, TypeFacts
  <2> QED BY <1>1, <1>7, <2>1 DEF GCPassComplete, dbVars
<1> QED BY <1>1, <1>9, <1>10, <1>11, CalmStep

\* Deleting one collected key preserves the invariant, although the message may
\* have been acknowledged since the scan.
LEMMA GCDeleteStep ==
  ASSUME IndInv, TypeOK', NEW k \in gcRefs, GCDelete(k)
  PROVE  IndInv' /\ MsgsStep /\ GrowStep
<1> DEFINE r == k.r
           gone == Live(r) \cap {k.s}
<1> TypeOK
  BY DEF IndInv
<1>1. /\ gcpc = "delete"
      /\ msg' = WithoutMsgs(r, gone) /\ dup' = WithoutDups(r, gone) /\ exp' = exp \ {k}
      /\ gcRefs' = gcRefs \ {k} /\ gcpc' = IF gcRefs = {k} THEN AfterBatch ELSE "delete"
      /\ UNCHANGED <<lastSeq, delivered, acked, lock, handlerVars, gcNow, gcFull, now, handed>>
  BY DEF GCDelete, envVars
<1>2. /\ r \in Recipients /\ k.s \in Seqs /\ k \in ExpKey
      /\ (k.s \in Live(r) => msg[r][k.s].exp = k.exp)
  BY TypeFacts DEF TypeOK, IndInv, RefsAreDead
<1>3. gone \in SUBSET Live(r) /\ gone \in SUBSET Seqs
  BY DEF Live
<1>4. exp' = exp \ {ExpKeyOf(r, s) : s \in gone}
  <2>1. k = [exp |-> k.exp, r |-> k.r, s |-> k.s]
    BY <1>2 DEF ExpKey
  <2>2. CASE k.s \in Live(r)
    <3>1. gone = {k.s} /\ ExpKeyOf(r, k.s) = k
      BY <1>2, <2>1, <2>2 DEF ExpKeyOf
    <3> QED BY <1>1, <3>1
  <2>3. CASE k.s \notin Live(r)
    <3>1. gone = {} /\ k \notin exp
      BY <2>3 DEF IndInv, IndexesAgree
    <3> QED BY <1>1, <3>1
  <2> QED BY <2>2, <2>3
<1> HIDE DEF gone
<1>5. \A q \in Recipients, s \in Seqs :
         /\ msg'[q][s] = IF q = r /\ s \in gone THEN NoMsg ELSE msg[q][s]
         /\ s \in Live(q)' <=> s \in Live(q) /\ ~(q = r /\ s \in gone)
  BY <1>1, <1>2, <1>3, DeleteFacts
<1>6. \A q \in Recipients : \A s \in Live(q)' :
         s \in Seqs /\ s \in Live(q) /\ ~(q = r /\ s \in gone) /\ msg'[q][s] = msg[q][s]
  <2>1. \A q \in Recipients : Live(q)' \subseteq Seqs
    BY DEF Live
  <2> QED BY <1>5, <2>1
<1>7. MsgsStep /\ GrowStep
  <2>1. MsgsStep
    BY <1>1, <1>6, TypeFacts DEF MsgsStep
  <2> QED BY <1>1, <2>1, TypeFacts DEF GrowStep
<1>8. IndexesAgree'
  BY <1>1, <1>2, <1>3, <1>4, DeleteKeepsIndexes DEF IndInv
<1>9. FrontiersOrdered' /\ NothingSkipped'
  BY <1>1, <1>6 DEF IndInv, FrontiersOrdered, NothingSkipped
<1>10. HandlersOK' /\ HoldersAck'
  BY <1>1, <1>7, AllHandlersFrame
<1>11. HandedWasStored'
  BY <1>1 DEF IndInv, HandedWasStored
<1>12. RefsAreDead'
  <2>1. ASSUME NEW j \in gcRefs'
        PROVE  j.exp <= gcNow /\ j.s <= lastSeq[j.r] /\ (j.s \in Live(j.r)' => msg'[j.r][j.s].exp = j.exp)
    <3>1. j \in gcRefs /\ j.r \in Recipients
      BY <1>1, TypeFacts
    <3> QED BY <1>6, <3>1 DEF IndInv, RefsAreDead
  <2> QED BY <1>1, <2>1 DEF IndInv, RefsAreDead
<1>13. ASSUME ~gcFull, NEW q \in Recipients, NEW s \in Live(q)', msg'[q][s].exp <= gcNow
       PROVE  ExpKeyOf(q, s) \in gcRefs \ {k} /\ msg'[q][s] = msg[q][s]
  <2>1. s \in Live(q) /\ ~(q = r /\ s \in gone) /\ msg'[q][s] = msg[q][s]
    BY <1>6
  <2>2. ExpKeyOf(q, s) \in gcRefs
    BY <1>1, <1>13, <2>1 DEF IndInv, BatchIsComplete
  <2>3. ExpKeyOf(q, s) # k
    BY <2>1 DEF ExpKeyOf, gone
  <2> QED BY <2>1, <2>2, <2>3
<1>14. BatchIsComplete'
  BY <1>1, <1>13 DEF BatchIsComplete, ExpKeyOf
<1>15. GCPassComplete'
  <2>1. ASSUME gcpc' = "sleep", NEW q \in Recipients, NEW s \in Live(q)'
        PROVE  msg'[q][s].exp > gcNow
    <3>1. gcRefs = {k} /\ ~gcFull
      BY <1>1, <2>1 DEF AfterBatch
    <3>2. ~(msg'[q][s].exp <= gcNow)
      BY <1>13, <3>1
    <3>3. msg'[q][s].exp \in Nat /\ gcNow \in Nat
      BY <1>6, TypeFacts
    <3> QED BY <3>2, <3>3
  <2> QED BY <1>1, <2>1 DEF GCPassComplete
<1> QED BY <1>7, <1>8, <1>9, <1>10, <1>11, <1>12, <1>14, <1>15 DEF IndInv

\* A crash preserves the invariant: committed batches stay, locals and locks go.
LEMMA CrashStep ==
  ASSUME IndInv, TypeOK', Crash
  PROVE  IndInv' /\ MsgsStep /\ GrowStep
<1> TypeOK
  BY DEF IndInv
<1>1. /\ lock' = [sh \in Shards |-> NoHolder] /\ pc' = [h \in Handlers |-> "idle"]
      /\ items' = [h \in Handlers |-> {}] /\ at' = [h \in Handlers |-> 0]
      /\ gcpc' = "sleep" /\ gcNow' = 0 /\ gcRefs' = {}
      /\ UNCHANGED <<dbVars, now, handed>> /\ now <= now' /\ 0 <= now'
  BY TypeFacts DEF Crash
<1>2. MsgsStep /\ GrowStep /\ IndexesAgree' /\ FrontiersOrdered' /\ NothingSkipped'
  <2>1. \A q \in Recipients : handed[q] \subseteq handed'[q]
    BY <1>1
  <2> QED BY <1>1, <2>1, DbFrame
<1>3. HandlersOK' /\ HoldersAck' /\ HandedWasStored'
  BY <1>1 DEF HandlersOK, HandlerOK, HoldersAck, IndInv, HandedWasStored, dbVars
<1>4. RefsAreDead' /\ BatchIsComplete'
  BY <1>1 DEF RefsAreDead, BatchIsComplete
<1>5. GCPassComplete'
  <2>1. ASSUME NEW q \in Recipients, NEW s \in Live(q) PROVE msg[q][s].exp > 0
    <3>1. msg[q][s] \in Entry
      BY TypeFacts
    <3> QED BY <3>1 DEF Entry
  <2> QED BY <1>1, <2>1 DEF GCPassComplete, Live, dbVars
<1> QED BY <1>2, <1>3, <1>4, <1>5 DEF IndInv

-----------------------------------------------------------------------------
(* The theorems.                                                           *)

\* Every step preserves the invariant, adds messages only under fresh numbers
\* and moves no frontier back.
LEMMA InductiveStep ==
  ASSUME IndInv, Next
  PROVE  IndInv' /\ MsgsStep /\ GrowStep
<1>1. TypeOK'
  BY TypeStep DEF IndInv
<1>2. ASSUME NEW r \in Recipients, NEW id \in MsgIds, NEW ttl \in TTLs, StoreMessage(r, id, ttl)
      PROVE IndInv' /\ MsgsStep /\ GrowStep
  BY <1>1, <1>2, StoreStep
<1>3. ASSUME NEW h \in Handlers, HandlerStep(h) PROVE IndInv' /\ MsgsStep /\ GrowStep
  <2>1. ASSUME NEW r \in Recipients, NEW a \in AfterSeqs, NEW l \in FetchLimits, FetchMessages(h, r, a, l)
        PROVE IndInv' /\ MsgsStep /\ GrowStep
    BY <1>1, <2>1, FetchStep
  <2>2. CASE MarkDelivered(h)
    BY <1>1, <2>2, MarkStep
  <2>3. ASSUME NEW r \in Recipients, NEW n \in 0..MaxSeq, AckBegin(h, r, n)
        PROVE IndInv' /\ MsgsStep /\ GrowStep
    BY <1>1, <2>3, AckBeginStep
  <2>4. CASE AckDeleteSome(h)
    BY <1>1, <2>4, AckDeleteSomeStep
  <2>5. CASE AckDeleteNone(h)
    BY <1>1, <2>5, AckDeleteNoneStep
  <2>6. CASE AckAborts(h)
    BY <1>1, <2>6, AckAbortsStep
  <2>7. CASE \/ MarkBegin(h) \/ MarkDeliveredFails(h) \/ AckReply(h)
             \/ \E r \in Recipients, n \in 0..MaxSeq : AckAlreadyDone(h, r, n)
    BY <1>1, <2>7, QuietSteps
  <2> QED BY <1>3, <2>1, <2>2, <2>3, <2>4, <2>5, <2>6, <2>7 DEF HandlerStep
<1>4. CASE GCTick \/ GCScanFails \/ GCFails \/ Tick
  BY <1>1, <1>4, CalmSteps
<1>5. CASE GCScan
  BY <1>1, <1>5, ScanStep
<1>6. ASSUME NEW k \in gcRefs, GCDelete(k) PROVE IndInv' /\ MsgsStep /\ GrowStep
  BY <1>1, <1>6, GCDeleteStep
<1>7. CASE Crash
  BY <1>1, <1>7, CrashStep
<1> QED BY <1>2, <1>3, <1>4, <1>5, <1>6, <1>7 DEF Next

\* The invariant does not look at anything outside the variables.
LEMMA InvStutter == IndInv /\ UNCHANGED vars => IndInv'
<1> SUFFICES ASSUME IndInv, UNCHANGED vars PROVE IndInv'
  OBVIOUS
<1> USE DEF vars, dbVars, handlerVars, gcVars, envVars
<1>1. TypeOK'
  BY TypeStep DEF IndInv
<1>2. IndexesAgree' /\ FrontiersOrdered' /\ NothingSkipped'
  BY DEF IndInv, IndexesAgree, FrontiersOrdered, NothingSkipped, ExpKeyOf, Live
<1>3. HandlersOK' /\ HoldersAck' /\ HandedWasStored'
  BY DEF IndInv, HandlersOK, HandlerOK, HoldersAck, HandedWasStored, Live
<1>4. RefsAreDead' /\ BatchIsComplete' /\ GCPassComplete'
  BY DEF IndInv, RefsAreDead, BatchIsComplete, GCPassComplete, ExpKeyOf, Live
<1> QED BY <1>1, <1>2, <1>3, <1>4 DEF IndInv

\* An empty database satisfies it.
LEMMA InvInit == Init => IndInv
<1> SUFFICES ASSUME Init PROVE IndInv
  OBVIOUS
<1>1. TypeOK
  BY TypeInit
<1>2. \A q \in Recipients : Live(q) = {}
  BY DEF Init, Live
<1>3. IndexesAgree /\ FrontiersOrdered /\ NothingSkipped
  BY <1>2 DEF Init, IndexesAgree, FrontiersOrdered, NothingSkipped
<1>4. HandlersOK /\ HoldersAck /\ HandedWasStored
  BY DEF Init, HandlersOK, HandlerOK, HoldersAck, HandedWasStored
<1>5. RefsAreDead /\ BatchIsComplete /\ GCPassComplete
  BY <1>2 DEF Init, RefsAreDead, BatchIsComplete, GCPassComplete
<1> QED BY <1>1, <1>3, <1>4, <1>5 DEF IndInv

\* IndInv holds throughout, whatever handlers, collector, clock and crashes do.
THEOREM Invariance == Spec => []IndInv
<1>1. IndInv /\ [Next]_vars => IndInv'
  BY InductiveStep, InvStutter
<1> QED BY <1>1, InvInit, PTL DEF Spec

\* The msg/, dup/ and exp/ keys always agree.
THEOREM IndexesCorrect == Spec => []IndexesAgree
<1>1. IndInv => IndexesAgree
  BY DEF IndInv
<1> QED BY <1>1, Invariance, PTL

\* acked <= delivered <= seq, and nothing acknowledged is stored.
THEOREM FrontiersCorrect == Spec => []FrontiersOrdered
<1>1. IndInv => FrontiersOrdered
  BY DEF IndInv
<1> QED BY <1>1, Invariance, PTL

\* The delivered frontier passes over fetched or expired messages only.
THEOREM FrontierIsEarned == Spec => []NothingSkipped
<1>1. IndInv => NothingSkipped
  BY DEF IndInv
<1> QED BY <1>1, Invariance, PTL

\* After an ack has been answered OK, nothing it covers is stored.
THEOREM AckIsFinal == Spec => []AckConfirmedGone
<1>1. IndInv => AckConfirmedGone
  BY DEF IndInv, HandlersOK, HandlerOK, AckConfirmedGone
<1> QED BY <1>1, Invariance, PTL

\* A pass of the collector that ends without an error is complete.
THEOREM PassIsComplete == Spec => []GCPassComplete
<1>1. IndInv => GCPassComplete
  BY DEF IndInv
<1> QED BY <1>1, Invariance, PTL

\* Sequence numbers are never reused and messages never altered.
THEOREM NumbersAreFresh == Spec => SeqsAreFresh
<1> DEFINE A == \A r \in Recipients, s \in Seqs :
                   msg'[r][s] # NoMsg /\ msg'[r][s] # msg[r][s]
                      => s > lastSeq[r] /\ s > delivered[r] /\ s \notin handed[r]
<1>1. ASSUME IndInv, [Next]_vars PROVE [A]_vars
  <2>1. CASE UNCHANGED vars
    BY <2>1
  <2>2. ASSUME Next, NEW r \in Recipients, NEW s \in Seqs, msg'[r][s] # NoMsg, msg'[r][s] # msg[r][s]
        PROVE  s > lastSeq[r] /\ s > delivered[r] /\ s \notin handed[r]
    <3>1. MsgsStep
      BY <1>1, <2>2, InductiveStep
    <3>2. s \in Live(r)'
      BY <2>2 DEF Live
    <3>3. s > lastSeq[r]
      BY <2>2, <3>1, <3>2 DEF MsgsStep
    <3>4. s \in Nat /\ lastSeq[r] \in Nat /\ delivered[r] \in Nat /\ delivered[r] <= lastSeq[r]
      BY <1>1, TypeFacts DEF IndInv, FrontiersOrdered, Seqs
    <3>5. s \notin handed[r]
      BY <1>1, <3>3, <3>4 DEF IndInv, HandedWasStored
    <3> QED BY <3>3, <3>4, <3>5
  <2> QED BY <1>1, <2>1, <2>2
<1> QED BY <1>1, Invariance, PTL DEF Spec, SeqsAreFresh

\* The steps that delete nothing: all but a batch of AckMessages and a step of
\* the collector.
LEMMA OnlyTwoDelete ==
  ASSUME IndInv, Next
  PROVE  \/ \E h \in Handlers : AckDeleteSome(h)
         \/ \E k \in gcRefs : GCDelete(k)
         \/ \E r \in Recipients, id \in MsgIds, ttl \in TTLs : StoreMessage(r, id, ttl)
         \/ \E h \in Handlers, r \in Recipients, a \in AfterSeqs, l \in FetchLimits : FetchMessages(h, r, a, l)
         \/ Tick
         \/ UNCHANGED <<msg, lastSeq, now, handed>>
<1> USE DEF dbVars, envVars
<1>1. ASSUME NEW h \in Handlers, HandlerStep(h)
      PROVE  \/ AckDeleteSome(h)
             \/ \E r \in Recipients, a \in AfterSeqs, l \in FetchLimits : FetchMessages(h, r, a, l)
             \/ UNCHANGED <<msg, lastSeq, now, handed>>
  BY <1>1 DEF HandlerStep, MarkBegin, MarkDelivered, MarkDeliveredFails, AckAlreadyDone, AckBegin,
              AckDeleteNone, AckAborts, AckReply
<1>2. GCTick \/ GCScan \/ GCScanFails \/ GCFails \/ Crash => UNCHANGED <<msg, lastSeq, now, handed>>
  BY DEF GCTick, GCScan, GCScanFails, GCFails, Crash
<1> QED BY <1>1, <1>2 DEF Next

\* What a batch of AckMessages deletes was fetched or has expired.
LEMMA AckedWasHanded ==
  ASSUME IndInv, NEW h \in Handlers, AckDeleteSome(h)
  PROVE  \E d \in Seqs :
            /\ msg' = WithoutMsgs(rcpt[h], {s \in Live(rcpt[h]) : s <= d})
            /\ d <= ackSeq[h]
            /\ \A s \in Live(rcpt[h]) : s <= d => s \in handed[rcpt[h]] \/ msg[rcpt[h]][s].exp <= now
            /\ pc[h] = "acking" /\ UNCHANGED <<lastSeq, now, handed>>
<1> DEFINE r == rcpt[h]
           gone == FirstN(ToDelete(h), AckDeleteBatch)
<1> TypeOK
  BY DEF IndInv
<1>1. PICK d \in gone : (\A s \in gone : s <= d) /\ msg' = WithoutMsgs(r, gone)
  BY DEF AckDeleteSome
<1>2. pc[h] = "acking" /\ UNCHANGED <<lastSeq, now, handed>>
  BY DEF AckDeleteSome, envVars
<1>3. /\ r \in Recipients /\ ackSeq[h] \in Nat /\ ackSeq[h] <= delivered[r] /\ delivered[r] \in Nat
  BY <1>2, AckingFacts
<1>4. /\ gone \subseteq Live(r) /\ d \in Nat /\ d <= ackSeq[h]
      /\ \A s \in Live(r) : s \in gone <=> s <= d
  BY <1>1, <1>2, BatchFacts
<1> HIDE DEF gone, r
<1>5. d \in Seqs /\ gone = {s \in Live(r) : s <= d}
  BY <1>1, <1>4 DEF Live
<1>6. ASSUME NEW s \in Live(r), s <= d PROVE s \in handed[r] \/ msg[r][s].exp <= now
  <2>1. s \in Nat
    BY <1>3, TypeFacts
  <2>2. s <= delivered[r]
    BY <1>3, <1>4, <1>6, <2>1
  <2> QED BY <1>3, <2>2 DEF IndInv, NothingSkipped
<1>7. msg' = WithoutMsgs(r, {s \in Live(r) : s <= d})
  BY <1>1, <1>5
<1> QED BY <1>2, <1>4, <1>5, <1>6, <1>7 DEF r

\* A step removes a message only when it has expired, or when it was fetched and
\* an ack that covers it is being served.
LEMMA RemovalStep ==
  ASSUME IndInv, Next, NEW r \in Recipients, NEW s \in Live(r), msg'[r][s] = NoMsg
  PROVE  \/ msg[r][s].exp <= now
         \/ /\ s \in handed[r]
            /\ \E h \in Handlers : pc[h] = "acking" /\ rcpt[h] = r /\ s <= ackSeq[h]
<1> TypeOK
  BY DEF IndInv
<1>1. s \in Seqs /\ s \in Nat /\ msg[r][s] # NoMsg /\ msg[r][s].exp \in Nat
  BY TypeFacts DEF Live
<1>2. ASSUME NEW h \in Handlers, AckDeleteSome(h)
      PROVE  \/ msg[r][s].exp <= now
             \/ s \in handed[r] /\ pc[h] = "acking" /\ rcpt[h] = r /\ s <= ackSeq[h]
  <2>1. PICK d \in Seqs :
           /\ msg' = WithoutMsgs(rcpt[h], {x \in Live(rcpt[h]) : x <= d})
           /\ d <= ackSeq[h]
           /\ \A x \in Live(rcpt[h]) : x <= d => x \in handed[rcpt[h]] \/ msg[rcpt[h]][x].exp <= now
           /\ pc[h] = "acking"
    BY <1>2, AckedWasHanded
  <2>2. r = rcpt[h] /\ s <= d
    BY <1>1, <2>1 DEF WithoutMsgs, TypeOK
  <2>3. d \in Nat /\ ackSeq[h] \in Nat
    BY TypeFacts DEF Seqs
  <2> QED BY <1>1, <2>1, <2>2, <2>3
<1>3. ASSUME NEW k \in gcRefs, GCDelete(k) PROVE msg[r][s].exp <= now
  <2>1. msg' = WithoutMsgs(k.r, Live(k.r) \cap {k.s}) /\ k.r \in Recipients
    BY <1>3, TypeFacts DEF GCDelete
  <2>2. r = k.r /\ s = k.s
    BY <1>1, <2>1 DEF WithoutMsgs, TypeOK
  <2>3. k.exp <= gcNow /\ gcNow <= now /\ msg[r][s].exp = k.exp /\ k.exp \in Nat /\ gcNow \in Nat /\ now \in Nat
    BY <2>2, TypeFacts DEF IndInv, RefsAreDead
  <2> QED BY <2>3
<1>4. ASSUME NEW q \in Recipients, NEW id \in MsgIds, NEW ttl \in TTLs, StoreMessage(q, id, ttl)
      PROVE FALSE
  <2> DEFINE n == lastSeq[q] + 1
             entry == [id |-> id, exp |-> now + ttl]
  <2>1. msg' = msg \/ msg' = [msg EXCEPT ![q][n] = entry]
    BY <1>4 DEF StoreMessage, NextSeq
  <2>2. n \in Seqs /\ entry \in Entry
    BY <1>4, ConstantFacts DEF StoreMessage, NextSeq, Seqs, Entry, TypeOK
  <2>3. entry # NoMsg
    BY <2>2, ConstantFacts
  <2> HIDE DEF n, entry
  <2>4. ASSUME msg' = [msg EXCEPT ![q][n] = entry] PROVE FALSE
    <3>1. msg'[r][s] = IF r = q /\ s = n THEN entry ELSE msg[r][s]
      BY <1>1, <2>2, <2>4 DEF TypeOK
    <3> QED BY <1>1, <2>3, <3>1
  <2>5. ASSUME msg' = msg PROVE FALSE
    BY <1>1, <2>5
  <2> QED BY <2>1, <2>4, <2>5
<1>5. ASSUME \/ \E h \in Handlers, q \in Recipients, a \in AfterSeqs, l \in FetchLimits : FetchMessages(h, q, a, l)
             \/ Tick
             \/ UNCHANGED <<msg, lastSeq, now, handed>>
      PROVE FALSE
  BY <1>1, <1>5 DEF FetchMessages, Tick, dbVars
<1> QED BY <1>2, <1>3, <1>4, <1>5, OnlyTwoDelete

\* No message is removed before it has expired or been fetched and acknowledged.
THEOREM RemovalIsJustified == Spec => NoPrematureRemoval
<1> DEFINE A == \A r \in Recipients : \A s \in Live(r) :
                   msg'[r][s] = NoMsg =>
                      \/ msg[r][s].exp <= now
                      \/ /\ s \in handed[r]
                         /\ \E h \in Handlers : pc[h] = "acking" /\ rcpt[h] = r /\ s <= ackSeq[h]
<1>1. ASSUME IndInv, [Next]_vars PROVE [A]_vars
  BY <1>1, RemovalStep
<1> QED BY <1>1, Invariance, PTL DEF Spec, NoPrematureRemoval

-----------------------------------------------------------------------------
(* The quotas.                                                             *)

\* The messages of a recipient are finitely many.
LEMMA LiveIsFinite == \A r : IsFiniteSet(Live(r))
<1>1. \A r : Live(r) \subseteq Seqs
  BY DEF Live
<1>2. IsFiniteSet(Seqs)
  BY ConstantFacts, FS_Interval DEF Seqs
<1> QED BY <1>1, <1>2, FS_Subset

\* A step adds no message to a recipient, or a single one that the quotas admit.
LEMMA LiveStep ==
  ASSUME IndInv, [Next]_vars, NEW r \in Recipients
  PROVE  \/ Live(r)' \subseteq Live(r)
         \/ \E id \in MsgIds, n \in Seqs :
               /\ ~OverQuota(r, id)
               /\ n \notin Live(r)
               /\ Live(r)' = Live(r) \cup {n}
               /\ msg'[r][n].id = id
<1> TypeOK
  BY DEF IndInv
<1>1. ASSUME NEW q \in Recipients, NEW id \in MsgIds, NEW ttl \in TTLs, StoreMessage(q, id, ttl)
      PROVE  \/ Live(r)' \subseteq Live(r)
             \/ \E n \in Seqs : /\ ~OverQuota(r, id) /\ n \notin Live(r)
                                /\ Live(r)' = Live(r) \cup {n} /\ msg'[r][n].id = id
  <2> DEFINE n == lastSeq[q] + 1
             entry == [id |-> id, exp |-> now + ttl]
  <2>1. msg' = msg \/ (~OverQuota(q, id) /\ msg' = [msg EXCEPT ![q][n] = entry])
    BY <1>1 DEF StoreMessage, NextSeq
  <2>2. n \in Seqs /\ entry \in Entry
    BY <1>1, ConstantFacts DEF StoreMessage, NextSeq, Seqs, Entry, TypeOK
  <2>3. entry # NoMsg /\ entry.id = id
    BY <2>2, ConstantFacts
  <2>4. n \notin Live(q)
    BY TypeFacts DEF IndInv, FrontiersOrdered
  <2> HIDE DEF n, entry
  <2>5. CASE msg' = msg
    BY <2>5 DEF Live
  <2>6. CASE ~OverQuota(q, id) /\ msg' = [msg EXCEPT ![q][n] = entry]
    <3>1. \A s \in Seqs : msg'[r][s] = IF r = q /\ s = n THEN entry ELSE msg[r][s]
      BY <2>2, <2>6 DEF TypeOK
    <3>2. CASE r # q
      BY <3>1, <3>2 DEF Live
    <3>3. CASE r = q
      <4>1. Live(r)' = Live(r) \cup {n}
        BY <2>2, <2>3, <3>1, <3>3 DEF Live
      <4>2. msg'[r][n].id = id
        BY <2>2, <2>3, <3>1, <3>3
      <4> QED BY <2>2, <2>4, <2>6, <3>3, <4>1, <4>2
    <3> QED BY <3>2, <3>3
  <2> QED BY <2>1, <2>5, <2>6
<1>2. ASSUME NEW h \in Handlers, AckDeleteSome(h) PROVE Live(r)' \subseteq Live(r)
  <2>1. PICK G : msg' = WithoutMsgs(rcpt[h], G)
    BY <1>2 DEF AckDeleteSome
  <2> QED BY <2>1 DEF WithoutMsgs, Live, TypeOK
<1>3. ASSUME NEW k \in gcRefs, GCDelete(k) PROVE Live(r)' \subseteq Live(r)
  <2>1. PICK G : msg' = WithoutMsgs(k.r, G)
    BY <1>3 DEF GCDelete
  <2> QED BY <2>1 DEF WithoutMsgs, Live, TypeOK
<1>4. ASSUME \/ \E h \in Handlers, q \in Recipients, a \in AfterSeqs, l \in FetchLimits : FetchMessages(h, q, a, l)
             \/ Tick
             \/ UNCHANGED <<msg, lastSeq, now, handed>>
      PROVE  Live(r)' \subseteq Live(r)
  BY <1>4 DEF FetchMessages, Tick, dbVars, Live
<1>5. ASSUME UNCHANGED vars PROVE Live(r)' \subseteq Live(r)
  BY <1>5 DEF vars, dbVars, Live
<1> QED BY <1>1, <1>2, <1>3, <1>4, <1>5, OnlyTwoDelete

\* The quota check counts the messages there are when the new one is written,
\* so a recipient never has more than max_messages_per_recipient.
THEOREM QuotaCorrect == Spec => []CountQuotaHeld
<1>1. Init => CountQuotaHeld
  <2> SUFFICES ASSUME Init, MaxMessages > 0, NEW r \in Recipients PROVE Cardinality(Live(r)) <= MaxMessages
    BY DEF CountQuotaHeld
  <2>1. Live(r) = {}
    BY DEF Init, Live
  <2>2. Cardinality(Live(r)) = 0
    BY <2>1, FS_EmptySet
  <2>3. MaxMessages \in Nat
    BY ConstantsOK
  <2> QED BY <2>2, <2>3
<1>2. ASSUME IndInv, CountQuotaHeld, [Next]_vars PROVE CountQuotaHeld'
  <2> SUFFICES ASSUME MaxMessages > 0, NEW r \in Recipients PROVE Cardinality(Live(r)') <= MaxMessages
    BY DEF CountQuotaHeld, Live
  <2> DEFINE L == Live(r)
             K == Live(r)'
  <2>1. IsFiniteSet(L) /\ Cardinality(L) \in Nat /\ MaxMessages \in Nat
    BY LiveIsFinite, FS_CardinalityType, ConstantsOK
  <2>2. Cardinality(L) <= MaxMessages
    BY <1>2 DEF CountQuotaHeld
  <2>3. CASE K \subseteq L
    <3> HIDE DEF L, K
    <3>1. IsFiniteSet(K) /\ Cardinality(K) <= Cardinality(L)
      BY <2>1, <2>3, FS_Subset
    <3>2. Cardinality(K) \in Nat
      BY <3>1, FS_CardinalityType
    <3>3. Cardinality(K) <= MaxMessages
      BY <2>1, <2>2, <3>1, <3>2
    <3> QED BY <3>3 DEF K
  <2>4. ASSUME NEW id \in MsgIds, NEW n \in Seqs, ~OverQuota(r, id), n \notin L, K = L \cup {n}
        PROVE  Cardinality(K) <= MaxMessages
    <3>1. Cardinality(L) < MaxMessages
      BY <2>1, <2>4 DEF OverQuota
    <3> HIDE DEF L, K
    <3>2. Cardinality(L \cup {n}) = Cardinality(L) + 1
      BY <2>1, <2>4, FS_AddElement
    <3> QED BY <2>1, <2>4, <3>1, <3>2
  <2> QED BY <1>2, <2>3, <2>4, LiveStep
<1> QED BY <1>1, <1>2, Invariance, PTL DEF Spec

\* The bytes of a recipient's messages, as recipientUsageLocked adds them up in
\* its loop, are a sum over them.
LEMMA BytesAreASum ==
  ASSUME NEW L, IsFiniteSet(L), NEW f
  PROVE  MapThenSumSet(LAMBDA s : Size[f[s].id], L) = SumOver([s \in L |-> Size[f[s].id]], L)
<1> DEFINE g == [s \in L |-> Size[f[s].id]]
           Adds(it) == it = [s \in SUBSET L |->
                                IF s = {} THEN 0 ELSE Size[f[Any(s)].id] + it[s \ {Any(s)}]]
           total == CHOOSE it : Adds(it)
<1>1. ASSUME NEW it PROVE Adds(it) <=> IsSum(it, g, L)
  <2>1. ASSUME NEW s \in SUBSET L, s # {} PROVE Size[f[Any(s)].id] = g[Any(s)]
    BY <2>1, AnyFacts
  <2> HIDE DEF g
  <2>2. [s \in SUBSET L |-> IF s = {} THEN 0 ELSE Size[f[Any(s)].id] + it[s \ {Any(s)}]]
        = [s \in SUBSET L |-> IF s = {} THEN 0 ELSE g[Any(s)] + it[s \ {Any(s)}]]
    BY <2>1
  <2> QED BY <2>2 DEF IsSum
<1>2. MapThenSumSet(LAMBDA s : Size[f[s].id], L) = total[L]
  BY DEF MapThenSumSet, MapThenFoldSet, Any
<1> HIDE DEF Adds, g
<1>3. PICK it : Adds(it)
  BY <1>1, SumExists
<1>4. Adds(total)
  BY <1>3
<1> HIDE DEF total
<1>5. total[L] = SumOver(g, L)
  BY <1>1, <1>4, SumIs
<1> QED BY <1>2, <1>5 DEF g

\* The size of each of them.
Bytes(r) == [s \in Live(r) |-> Size[msg[r][s].id]]

\* Nor more bytes than max_bytes_per_recipient: what is added under the lock is
\* the size of the new message, and everything else only removes messages.
THEOREM ByteQuotaCorrect == Spec => []ByteQuotaHeld
<1> DEFINE Added == \A r \in Recipients : UsedBytes(r) = SumOver(Bytes(r), Live(r))
<1>1. Added
  BY LiveIsFinite, BytesAreASum DEF UsedBytes, Bytes
<1>2. Init => ByteQuotaHeld
  <2> SUFFICES ASSUME Init, MaxBytes > 0, NEW r \in Recipients PROVE UsedBytes(r) <= MaxBytes
    BY DEF ByteQuotaHeld
  <2>1. Live(r) = {}
    BY DEF Init, Live
  <2>2. SumOver(Bytes(r), Live(r)) = 0
    BY <2>1, LiveIsFinite, SumUnfold
  <2> QED BY <1>1, <2>2, ConstantsOK
<1>3. ASSUME Added, Added', IndInv, IndInv', ByteQuotaHeld, [Next]_vars PROVE ByteQuotaHeld'
  <2> SUFFICES ASSUME MaxBytes > 0, NEW r \in Recipients PROVE UsedBytes(r)' <= MaxBytes
    BY DEF ByteQuotaHeld
  <2> DEFINE L == Live(r)
             K == Live(r)'
             f == Bytes(r)
             g == Bytes(r)'
  <2>1. L \subseteq Seqs /\ K \subseteq Seqs /\ IsFiniteSet(L) /\ IsFiniteSet(K)
    <3>1. L \subseteq Seqs /\ K \subseteq Seqs /\ IsFiniteSet(L)
      BY LiveIsFinite DEF Live
    <3>2. IsFiniteSet(Seqs)
      BY ConstantFacts, FS_Interval DEF Seqs
    <3> QED BY <3>1, <3>2, FS_Subset
  <2>2. UsedBytes(r) = SumOver(f, L) /\ UsedBytes(r)' = SumOver(g, K)
    BY <1>3
  <2>3. /\ \A s \in L : f[s] = Size[msg[r][s].id] /\ f[s] \in Nat
        /\ \A s \in K : g[s] = Size[msg'[r][s].id] /\ g[s] \in Nat
    <3>1. TypeOK /\ TypeOK'
      BY <1>3 DEF IndInv
    <3>2. \A s \in L : msg[r][s] \in Entry
      BY <3>1, TypeFacts
    <3>3. \A s \in K : msg'[r][s] \in Entry
      BY <2>1, <3>1 DEF TypeOK, Live
    <3>4. \A e \in Entry : Size[e.id] \in Nat
      BY ConstantsOK DEF Entry
    <3> QED BY <3>2, <3>3, <3>4 DEF Bytes
  <2>4. \A s \in L \cap K : f[s] = g[s]
    <3>1. MsgsStep \/ UNCHANGED vars
      BY <1>3, InductiveStep
    <3>2. CASE MsgsStep
      <4>1. ASSUME NEW s \in L \cap K PROVE msg'[r][s] = msg[r][s]
        <5>1. s \in Nat /\ lastSeq[r] \in Nat /\ s <= lastSeq[r]
          BY <1>3, TypeFacts DEF IndInv, FrontiersOrdered
        <5> QED BY <3>2, <5>1 DEF MsgsStep
      <4> QED BY <2>3, <4>1
    <3>3. CASE UNCHANGED vars
      <4>1. UNCHANGED msg
        BY <3>3 DEF vars, dbVars
      <4> QED BY <2>3, <4>1
    <3> QED BY <3>1, <3>2, <3>3
  <2>5. SumOver(f, L) <= MaxBytes /\ SumOver(f, L) \in Nat /\ MaxBytes \in Nat
    BY <1>3, <2>1, <2>2, <2>3, SumType, ConstantsOK DEF ByteQuotaHeld
  <2>6. CASE K \subseteq L
    <3> HIDE DEF L, K, f, g
    <3>1. SumOver(f, K) = SumOver(g, K)
      BY <2>1, <2>4, <2>6, SumSame
    <3>2. SumOver(f, K) <= SumOver(f, L)
      BY <2>1, <2>3, <2>6, SumMonotone
    <3>3. SumOver(g, K) \in Nat
      BY <2>1, <2>3, SumType
    <3> QED BY <2>2, <2>5, <3>1, <3>2, <3>3
  <2>7. ASSUME NEW id \in MsgIds, NEW n \in Seqs, ~OverQuota(r, id), n \notin L, K = L \cup {n}, msg'[r][n].id = id
        PROVE  UsedBytes(r)' <= MaxBytes
    <3>1. ~(UsedBytes(r) + Size[id] > MaxBytes) /\ Size[id] \in Nat
      BY <2>7, ConstantsOK DEF OverQuota
    <3>2. n \in K /\ g[n] = Size[id] /\ K \ {n} = L
      BY <2>3, <2>7
    <3> HIDE DEF L, K, f, g
    <3>3. SumOver(g, K) = g[n] + SumOver(g, L)
      BY <2>1, <2>3, <3>2, SumRemove
    <3>4. SumOver(g, L) = SumOver(f, L)
      BY <2>1, <2>4, <2>7, SumSame
    <3> QED BY <2>2, <2>5, <3>1, <3>2, <3>3, <3>4
  <2> QED BY <1>3, <2>6, <2>7, LiveStep
<1>4. []Added
  BY <1>1, PTL
<1> QED BY <1>2, <1>3, <1>4, Invariance, PTL DEF Spec

-----------------------------------------------------------------------------
(* The refinement of Mailbox.                                              *)

\* A stored message is accepted; a refused one changes nothing of the mailbox.
LEMMA StoreAccepts ==
  ASSUME IndInv, NEW r \in Recipients, NEW id \in MsgIds, NEW ttl \in TTLs, StoreMessage(r, id, ttl)
  PROVE  M!Accept(r) \/ UNCHANGED <<msg, lastSeq, handed, now>>
<1> DEFINE n == lastSeq[r] + 1
           entry == [id |-> id, exp |-> now + ttl]
<1> TypeOK
  BY DEF IndInv
<1>1. UNCHANGED <<handed, now>>
  BY DEF StoreMessage, envVars
<1>2. \/ UNCHANGED <<msg, lastSeq>>
      \/ msg' = [msg EXCEPT ![r][n] = entry] /\ lastSeq' = [lastSeq EXCEPT ![r] = n]
  BY DEF StoreMessage, NextSeq
<1>3. n \in Seqs /\ entry \in Entry /\ entry.exp > now
  <2>1. now \in Nat /\ ttl \in Nat \ {0} /\ lastSeq[r] \in Nat /\ MaxSeq \in Nat
    BY ConstantFacts, TypeFacts
  <2> QED BY <2>1, ConstantFacts DEF StoreMessage, NextSeq, Seqs, Entry
<1> HIDE DEF n, entry
<1>4. ASSUME msg' = [msg EXCEPT ![r][n] = entry], lastSeq' = [lastSeq EXCEPT ![r] = n]
      PROVE  M!Accept(r)
  <2>1. msg'[r][n] = entry
    BY <1>3, <1>4 DEF TypeOK
  <2>2. msg' = [msg EXCEPT ![r][n] = msg'[r][n]]
    BY <1>4, <2>1
  <2> QED BY <1>1, <1>3, <1>4, <2>1, <2>2 DEF M!Accept, n
<1> QED BY <1>1, <1>2, <1>4

\* A fetch hands over messages that are stored and alive.
LEMMA FetchHandsOver ==
  ASSUME IndInv, NEW h \in Handlers, NEW r \in Recipients, NEW a \in AfterSeqs, NEW l \in FetchLimits,
         FetchMessages(h, r, a, l)
  PROVE  \E S \in SUBSET Seqs : M!HandOver(r, S)
<1> DEFINE S == FirstN(Visible(r, a), l)
<1>1. S \subseteq Live(r) /\ \A s \in S : msg[r][s].exp > now
  BY DEF FirstN, Visible
<1>2. handed' = [handed EXCEPT ![r] = @ \cup S] /\ UNCHANGED <<msg, lastSeq, now>>
  BY DEF FetchMessages, dbVars, envVars
<1> HIDE DEF S
<1>3. Live(r) \subseteq Seqs /\ Live(r) = M!InBox(r)
  BY DEF Live, M!InBox
<1>4. M!HandOver(r, S)
  BY <1>1, <1>2, <1>3 DEF M!HandOver
<1> QED BY <1>1, <1>3, <1>4

\* A batch of AckMessages confirms everything up to its last number.
LEMMA AckConfirms ==
  ASSUME IndInv, NEW h \in Handlers, AckDeleteSome(h)
  PROVE  \E r \in Recipients, d \in Seqs : M!Confirm(r, d)
<1>1. PICK d \in Seqs :
         /\ msg' = WithoutMsgs(rcpt[h], {s \in Live(rcpt[h]) : s <= d})
         /\ \A s \in Live(rcpt[h]) : s <= d => s \in handed[rcpt[h]] \/ msg[rcpt[h]][s].exp <= now
         /\ UNCHANGED <<lastSeq, now, handed>>
  BY AckedWasHanded
<1>2. PICK r \in Recipients : r = rcpt[h]
  BY DEF IndInv, TypeOK
<1>3. M!Confirm(r, d)
  BY <1>1, <1>2 DEF M!Confirm, M!Without, M!InBox, WithoutMsgs, Live
<1> QED BY <1>3

\* A step of the collector expires one message, or finds it gone already.
LEMMA CollectorExpires ==
  ASSUME IndInv, NEW k \in gcRefs, GCDelete(k)
  PROVE  \/ \E r \in Recipients, s \in Seqs : M!Expire(r, s)
         \/ UNCHANGED <<msg, lastSeq, handed, now>>
<1> DEFINE gone == Live(k.r) \cap {k.s}
<1> TypeOK
  BY DEF IndInv
<1>1. k.r \in Recipients /\ k.s \in Seqs
  BY DEF TypeOK, ExpKey
<1>2. msg' = WithoutMsgs(k.r, gone) /\ UNCHANGED <<lastSeq, handed, now>>
  BY DEF GCDelete, envVars
<1>3. CASE k.s \notin Live(k.r)
  <2>1. gone = {}
    BY <1>3
  <2>2. msg' = msg
    BY <1>1, <1>2, <2>1 DEF WithoutMsgs, TypeOK
  <2> QED BY <1>2, <2>2
<1>4. CASE k.s \in Live(k.r)
  <2>1. gone = {k.s}
    BY <1>4
  <2>2. k.exp <= gcNow /\ gcNow <= now /\ msg[k.r][k.s].exp = k.exp
        /\ k.exp \in Nat /\ gcNow \in Nat /\ now \in Nat
    BY <1>4, TypeFacts DEF IndInv, RefsAreDead
  <2>3. msg[k.r][k.s].exp <= now
    BY <2>2
  <2>4. M!Expire(k.r, k.s)
    BY <1>1, <1>2, <1>4, <2>1, <2>3 DEF M!Expire, M!Without, M!InBox, WithoutMsgs, Live
  <2> QED BY <1>1, <2>4
<1> QED BY <1>3, <1>4

\* The store implements the mailbox: hiding the other keys, the frontiers, the
\* locks and the collector, each step is a step of Mailbox or a stutter.
THEOREM Refinement == Spec => ImplementsMailbox
<1>1. Init => M!MInit
  BY DEF Init, M!MInit
<1>2. ASSUME IndInv, [Next]_vars PROVE [M!MNext]_(M!mvars)
  <2>1. CASE UNCHANGED vars
    BY <2>1 DEF vars, dbVars, envVars, M!mvars
  <2>2. ASSUME NEW h \in Handlers, AckDeleteSome(h) PROVE M!MNext
    BY <1>2, <2>2, AckConfirms DEF M!MNext
  <2>3. ASSUME NEW k \in gcRefs, GCDelete(k) PROVE [M!MNext]_(M!mvars)
    BY <1>2, <2>3, CollectorExpires DEF M!MNext, M!mvars
  <2>4. ASSUME NEW r \in Recipients, NEW id \in MsgIds, NEW ttl \in TTLs, StoreMessage(r, id, ttl)
        PROVE  [M!MNext]_(M!mvars)
    BY <1>2, <2>4, StoreAccepts DEF M!MNext, M!mvars
  <2>5. ASSUME NEW h \in Handlers, NEW r \in Recipients, NEW a \in AfterSeqs, NEW l \in FetchLimits,
               FetchMessages(h, r, a, l)
        PROVE  M!MNext
    BY <1>2, <2>5, FetchHandsOver DEF M!MNext
  <2>6. ASSUME Tick PROVE M!MNext
    BY <2>6 DEF Tick, dbVars, M!MNext, M!Tick
  <2>7. ASSUME UNCHANGED <<msg, lastSeq, now, handed>> PROVE [M!MNext]_(M!mvars)
    BY <2>7 DEF M!mvars
  <2> QED BY <1>2, <2>1, <2>2, <2>3, <2>4, <2>5, <2>6, <2>7, OnlyTwoDelete
<1> QED BY <1>1, <1>2, Invariance, PTL DEF Spec, ImplementsMailbox, M!MSpec
===============================================================================
