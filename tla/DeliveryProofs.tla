---------------------------- MODULE DeliveryProofs ----------------------------
(***************************************************************************)
(* What TLAPS proves about Delivery, for every set of recipients, message  *)
(* ids, handlers and shards and every quota, batch size, TTL and bound:    *)
(* the composition does nothing the store alone would not do, so that all  *)
(* theorems of OfflineStoreProofs hold of it, and no message is lost       *)
(* between a sender that was told of it and the client it is meant for.    *)
(***************************************************************************)
EXTENDS Delivery, OfflineStoreProofs

-----------------------------------------------------------------------------
(* The composition is the store at work.                                   *)

\* Every step of the composition is one of the store's, or leaves it alone.
LEMMA StoreMoves == DeliveryNext => [Next]_vars
<1> SUFFICES ASSUME DeliveryNext PROVE [Next]_vars
  OBVIOUS
<1>1. ASSUME NEW r \in Recipients, NEW id \in MsgIds, NEW ttl \in TTLs, SendNew(r, id, ttl)
      PROVE  Next
  BY <1>1 DEF SendNew, Next
<1>2. ASSUME NEW r \in Recipients, NEW id \in MsgIds, SendAgain(r, id) PROVE UNCHANGED vars
  BY <1>2 DEF SendAgain
<1>3. ASSUME NEW h \in Handlers, NEW r \in Recipients \ Slashed, NEW a \in Seqs \cup {0}, NEW l \in FetchLimits,
             ClientFetch(h, r, a, l)
      PROVE  Next
  <2>1. a \in AfterSeqs
    BY ConstantFacts DEF AfterSeqs, Seqs
  <2> QED BY <1>3, <2>1 DEF ClientFetch, Next, HandlerStep
<1>4. ASSUME NEW h \in Handlers, Arrives(h) \/ GetsLost(h) PROVE Next
  BY <1>4 DEF Arrives, GetsLost, FetchAnswered, Next, HandlerStep
<1>5. ASSUME NEW h \in Handlers, NEW r \in Recipients \ Slashed, NEW n \in Seqs, ClientAck(h, r, n) PROVE Next
  <2>1. n \in 0..MaxSeq
    BY ConstantFacts DEF Seqs
  <2> QED BY <1>5, <2>1 DEF ClientAck, Next, HandlerStep
<1>6. CASE NodeStep
  BY <1>6 DEF NodeStep, Next, HandlerStep
<1> QED BY <1>1, <1>2, <1>3, <1>4, <1>5, <1>6 DEF DeliveryNext

\* The node serves its clients as the store specifies, whatever is lost, late or
\* repeated around it.
THEOREM DeliveryUsesStore == DeliverySafe => Spec
<1>1. DeliveryInit => Init
  BY DEF DeliveryInit
<1>2. [DeliveryNext]_deliveryVars => [Next]_vars
  BY StoreMoves DEF deliveryVars
<1> QED BY <1>1, <1>2, PTL DEF DeliverySafe, Spec

-----------------------------------------------------------------------------
(* Complete sets.                                                          *)

\* Complete(r, S) after the step, of an r and an S named before it.
CompleteNext(r, S) ==
    \A n \in S, s \in Seqs :
        msg'[r][s] # NoMsg /\ s <= n => s \in S \/ msg'[r][s].exp <= now'

\* A complete set of fetched messages stays complete: new messages get numbers
\* above it.
LEMMA CompleteKept ==
  ASSUME IndInv, TypeOK', MsgsStep, GrowStep, NEW r \in Recipients, NEW S \in SUBSET handed[r],
         Complete(r, S)
  PROVE  CompleteNext(r, S)
<1> SUFFICES ASSUME NEW n \in S, NEW s \in Live(r)', s <= n
             PROVE  s \in S \/ msg'[r][s].exp <= now'
  BY DEF CompleteNext, Live
<1> TypeOK
  BY DEF IndInv
<1>1. /\ n \in Seqs /\ n \in Nat /\ n <= lastSeq[r] /\ lastSeq[r] \in Nat
      /\ s \in Seqs /\ s \in Nat /\ now \in Nat /\ now' \in Nat /\ now <= now'
  <2>1. n \in Seqs
    BY DEF TypeOK
  <2>2. s \in Seqs
    BY DEF Live
  <2>3. now' \in Nat
    BY DEF TypeOK
  <2> QED BY <2>1, <2>2, <2>3, TypeFacts DEF IndInv, HandedWasStored, GrowStep, Seqs
<1>2. ~(s > lastSeq[r])
  BY <1>1
<1>3. s \in Live(r) /\ msg'[r][s] = msg[r][s]
  BY <1>2 DEF MsgsStep
<1>4. msg[r][s].exp \in Nat
  BY <1>3, TypeFacts
<1>5. s \in S \/ msg[r][s].exp <= now
  BY <1>3 DEF Complete
<1> QED BY <1>1, <1>3, <1>4, <1>5

\* The union of two complete sets is complete.
LEMMA CompleteUnion ==
  ASSUME NEW r, NEW S, NEW T, Complete(r, S), Complete(r, T)
  PROVE  Complete(r, S \cup T)
  BY DEF Complete

-----------------------------------------------------------------------------
(* Nothing is lost, and what senders were told holds.                      *)

\* What a step may remove: what the client has, and what has expired.
LossStep ==
    \A r \in Recipients : \A s \in Live(r) :
        msg'[r][s] = NoMsg => s \in inbox[r] \/ msg[r][s].exp <= now

\* An ack deletes only what its client has, although it was granted up to the
\* delivered frontier: the client acknowledges a message it has, and below that
\* one its inbox is complete.
LEMMA NothingLostStep ==
  ASSUME DeliveryInv, Next
  PROVE  LossStep
<1> SUFFICES ASSUME NEW r \in Recipients, NEW s \in Live(r), msg'[r][s] = NoMsg
             PROVE  s \in inbox[r] \/ msg[r][s].exp <= now
  BY DEF LossStep
<1>1. IndInv
  BY DEF DeliveryInv
<1>2. ASSUME NEW h \in Handlers, pc[h] = "acking", rcpt[h] = r, s <= ackSeq[h]
      PROVE  s \in inbox[r] \/ msg[r][s].exp <= now
  <2>1. ackSeq[h] \in inbox[r] /\ Complete(r, inbox[r])
    BY <1>2 DEF DeliveryInv, AcksAreOfInbox, InboxComplete
  <2> QED BY <1>2, <2>1 DEF Complete
<1> QED BY <1>1, <1>2, RemovalStep

\* A message that is not removed is not altered either.
LEMMA KeptIsUnaltered ==
  ASSUME IndInv, MsgsStep, NEW r \in Recipients, NEW s \in Live(r), msg'[r][s] # NoMsg
  PROVE  s \in Live(r)' /\ msg'[r][s] = msg[r][s]
<1> TypeOK
  BY DEF IndInv
<1>1. s \in Nat /\ s \in Seqs /\ lastSeq[r] \in Nat /\ s <= lastSeq[r]
  BY TypeFacts DEF IndInv, FrontiersOrdered
<1>2. s \in Live(r)'
  BY <1>1 DEF Live
<1> QED BY <1>1, <1>2 DEF MsgsStep

\* What a sender was told before the step still holds after it.
LEMMA ToldStep ==
  ASSUME DeliveryInv, TypeOK', MsgsStep, GrowStep, LossStep,
         \A r \in Recipients : inbox[r] \subseteq inbox'[r],
         NEW t \in told
  PROVE  \/ t.s \in Live(t.r)' /\ msg'[t.r][t.s].exp = t.exp
         \/ t.s \in inbox'[t.r]
         \/ t.exp <= now'
<1>1. t.r \in Recipients /\ t.s \in Seqs /\ t.exp \in Nat
  BY DEF DeliveryInv, ClientTypeOK
<1>2. now \in Nat /\ now' \in Nat /\ now <= now'
  BY DEF DeliveryInv, IndInv, TypeOK, GrowStep
<1>3. CASE t.s \in Live(t.r) /\ msg[t.r][t.s].exp = t.exp
  <2>1. CASE msg'[t.r][t.s] = NoMsg
    <3>1. t.s \in inbox[t.r] \/ t.exp <= now
      BY <1>1, <1>3, <2>1 DEF LossStep
    <3> QED BY <1>1, <1>2, <3>1
  <2>2. CASE msg'[t.r][t.s] # NoMsg
    <3>1. IndInv
      BY DEF DeliveryInv
    <3>2. ASSUME NEW r \in Recipients, NEW s \in Live(r), msg'[r][s] # NoMsg, r = t.r, s = t.s
          PROVE  t.s \in Live(t.r)' /\ msg'[t.r][t.s].exp = t.exp
      BY <1>1, <1>3, <3>1, <3>2, KeptIsUnaltered DEF Live
    <3> QED BY <1>1, <1>3, <2>2, <3>2
  <2> QED BY <2>1, <2>2
<1>4. CASE t.s \in inbox[t.r]
  BY <1>1, <1>4
<1>5. CASE t.exp <= now
  BY <1>1, <1>2, <1>5
<1> QED BY <1>3, <1>4, <1>5 DEF DeliveryInv, AcceptedIsKept

-----------------------------------------------------------------------------
(* One lemma for each kind of step.                                        *)

\* What every step of the composition gives about the store.
LEMMA StoreFacts ==
  ASSUME DeliveryInv, Next
  PROVE  /\ IndInv /\ TypeOK /\ IndInv' /\ TypeOK' /\ MsgsStep /\ GrowStep /\ LossStep
         /\ \A r \in Recipients, s \in Seqs : s \in Live(r)' <=> msg'[r][s] # NoMsg
<1>1. IndInv /\ TypeOK
  BY DEF DeliveryInv, IndInv
<1>2. IndInv' /\ MsgsStep /\ GrowStep
  BY <1>1, InductiveStep
<1>3. TypeOK'
  BY <1>2 DEF IndInv
<1>4. LossStep
  BY NothingLostStep
<1> QED BY <1>1, <1>2, <1>3, <1>4 DEF Live

\* The inboxes and answers on their way stay complete when handlers only go on
\* or forget what they have.
LEMMA FlightsFrame ==
  ASSUME DeliveryInv, Next, UNCHANGED inbox,
         \A g \in Handlers : items'[g] = {} \/ (rcpt'[g] = rcpt[g] /\ items'[g] = items[g])
  PROVE  InboxWasHanded' /\ InboxComplete' /\ FlightsComplete'
<1>1. /\ IndInv /\ TypeOK /\ IndInv' /\ TypeOK' /\ MsgsStep /\ GrowStep
      /\ \A r \in Recipients, s \in Seqs : s \in Live(r)' <=> msg'[r][s] # NoMsg
  BY StoreFacts
<1>2. InboxWasHanded'
  BY <1>1 DEF DeliveryInv, InboxWasHanded, GrowStep
<1>3. ASSUME NEW r \in Recipients PROVE CompleteNext(r, inbox[r])
  BY <1>1, CompleteKept DEF DeliveryInv, InboxWasHanded, InboxComplete
<1>4. InboxComplete'
  BY <1>3 DEF InboxComplete, Complete, CompleteNext, Live
<1>5. ASSUME NEW g \in Handlers, NEW r \in Recipients, r = rcpt'[g]
      PROVE  CompleteNext(r, inbox[r] \cup items'[g])
  <2>1. CASE items'[g] = {}
    <3>1. inbox[r] \cup items'[g] = inbox[r]
      BY <2>1
    <3> QED BY <1>3, <3>1
  <2>2. CASE rcpt'[g] = rcpt[g] /\ items'[g] = items[g]
    <3>1. Complete(r, inbox[r] \cup items[g])
      BY <1>5, <2>2 DEF DeliveryInv, FlightsComplete
    <3>2. inbox[r] \cup items[g] \in SUBSET handed[r]
      BY <1>1, <1>5, <2>2 DEF DeliveryInv, InboxWasHanded, IndInv, HandlersOK, HandlerOK
    <3>3. CompleteNext(r, inbox[r] \cup items[g])
      BY <1>1, <3>1, <3>2, CompleteKept
    <3> QED BY <2>2, <3>3
  <2> QED BY <2>1, <2>2
<1>6. FlightsComplete'
  <2>1. \A g \in Handlers : rcpt'[g] \in Recipients
    BY <1>1 DEF TypeOK
  <2> QED BY <1>5, <2>1 DEF FlightsComplete, Complete, CompleteNext, Live
<1> QED BY <1>2, <1>4, <1>6

\* What senders were told holds when nobody is told anything new.
LEMMA ToldFrame ==
  ASSUME DeliveryInv, Next, UNCHANGED told, \A r \in Recipients : inbox[r] \subseteq inbox'[r]
  PROVE  AcceptedIsKept'
<1>1. TypeOK' /\ MsgsStep /\ GrowStep /\ LossStep
  BY StoreFacts
<1>2. ASSUME NEW t \in told
      PROVE  \/ t.s \in Live(t.r)' /\ msg'[t.r][t.s].exp = t.exp
             \/ t.s \in inbox'[t.r]
             \/ t.exp <= now'
  BY <1>1, ToldStep
<1> QED BY <1>2 DEF AcceptedIsKept

\* A step of the node that begins no ack and answers no fetch with new items.
LEMMA NodeFrame ==
  ASSUME DeliveryInv, Next, UNCHANGED clientVars,
         \A g \in Handlers :
            /\ items'[g] = {} \/ (rcpt'[g] = rcpt[g] /\ items'[g] = items[g])
            /\ pc'[g] = "acking" => pc[g] = "acking" /\ rcpt'[g] = rcpt[g] /\ ackSeq'[g] = ackSeq[g]
  PROVE  DeliveryInv'
<1>1. IndInv' /\ UNCHANGED <<inbox, told>>
  BY StoreFacts DEF clientVars
<1>2. InboxWasHanded' /\ InboxComplete' /\ FlightsComplete'
  BY <1>1, FlightsFrame
<1>3. AcceptedIsKept'
  BY <1>1, ToldFrame
<1>4. ClientTypeOK' /\ AcksAreOfInbox'
  BY <1>1 DEF DeliveryInv, ClientTypeOK, AcksAreOfInbox
<1> QED BY <1>1, <1>2, <1>3, <1>4 DEF DeliveryInv

\* The steps after which a handler goes on with what it has or forgets it.
LEMMA HandlersGoOn ==
  ASSUME DeliveryInv,
         \/ \E h \in Handlers : \/ MarkBegin(h) \/ MarkDelivered(h) \/ MarkDeliveredFails(h)
                                \/ AckDeleteSome(h) \/ AckDeleteNone(h) \/ AckAborts(h) \/ AckReply(h)
                                \/ \E r \in Recipients, n \in Seqs : AckAlreadyDone(h, r, n)
         \/ GCTick \/ GCScan \/ GCScanFails \/ (\E k \in gcRefs : GCDelete(k)) \/ GCFails \/ Tick \/ Crash
  PROVE  \A g \in Handlers :
            /\ items'[g] = {} \/ (rcpt'[g] = rcpt[g] /\ items'[g] = items[g])
            /\ pc'[g] = "acking" => pc[g] = "acking" /\ rcpt'[g] = rcpt[g] /\ ackSeq'[g] = ackSeq[g]
<1> DEFINE GoesOn(g) ==
             /\ items'[g] = {} \/ (rcpt'[g] = rcpt[g] /\ items'[g] = items[g])
             /\ pc'[g] = "acking" => pc[g] = "acking" /\ rcpt'[g] = rcpt[g] /\ ackSeq'[g] = ackSeq[g]
<1> TypeOK
  BY DEF DeliveryInv, IndInv
<1>1. ASSUME NEW h \in Handlers, MarkBegin(h), NEW g \in Handlers PROVE GoesOn(g)
  BY <1>1 DEF MarkBegin, TypeOK
<1>2. ASSUME NEW h \in Handlers, MarkDelivered(h) \/ MarkDeliveredFails(h) \/ AckAborts(h) \/ AckReply(h),
             NEW g \in Handlers
      PROVE  GoesOn(g)
  <2>1. Forget(h)
    BY <1>2 DEF MarkDelivered, MarkDeliveredFails, AckAborts, AckReply
  <2>2. CASE g = h
    BY <2>1, <2>2 DEF Forget, TypeOK
  <2>3. CASE g # h
    BY <2>1, <2>3 DEF Forget, TypeOK
  <2> QED BY <2>2, <2>3
<1>3. ASSUME NEW h \in Handlers, AckDeleteSome(h) \/ AckDeleteNone(h), NEW g \in Handlers PROVE GoesOn(g)
  <2>1. UNCHANGED <<rcpt, items, ackSeq>> /\ (AckReturn(h) \/ UNCHANGED pc)
    BY <1>3 DEF AckDeleteSome, AckDeleteNone
  <2>2. pc'[g] = "acking" => pc[g] = "acking"
    BY <2>1 DEF AckReturn, TypeOK
  <2> QED BY <2>1, <2>2
<1>4. ASSUME NEW h \in Handlers, NEW r \in Recipients, NEW n \in Seqs, AckAlreadyDone(h, r, n),
             NEW g \in Handlers
      PROVE  GoesOn(g)
  <2>1. CASE g = h
    <3>1. items[h] = {} /\ items' = items /\ pc'[h] = "acked"
      BY <1>4 DEF AckAlreadyDone, TypeOK, DeliveryInv, IndInv, HandlersOK, HandlerOK
    <3> QED BY <2>1, <3>1
  <2>2. CASE g # h
    BY <1>4, <2>2 DEF AckAlreadyDone, TypeOK
  <2> QED BY <2>1, <2>2
<1>5. ASSUME GCTick \/ GCScan \/ GCScanFails \/ (\E k \in gcRefs : GCDelete(k)) \/ GCFails \/ Tick, NEW g \in Handlers
      PROVE  GoesOn(g)
  <2>1. UNCHANGED handlerVars
    BY <1>5 DEF GCTick, GCScan, GCScanFails, GCDelete, GCFails, Tick
  <2> QED BY <2>1 DEF handlerVars
<1>6. ASSUME Crash, NEW g \in Handlers PROVE GoesOn(g)
  BY <1>6 DEF Crash
<1> QED BY <1>1, <1>2, <1>3, <1>4, <1>5, <1>6

\* An ack begins: its number is one the client has.
LEMMA ClientAckBegins ==
  ASSUME DeliveryInv, Next, NEW h \in Handlers, NEW r \in Recipients, NEW n \in inbox[r],
         AckBegin(h, r, n), UNCHANGED clientVars
  PROVE  DeliveryInv'
<1> TypeOK
  BY DEF DeliveryInv, IndInv
<1>1. IndInv' /\ UNCHANGED <<inbox, told>>
  BY StoreFacts DEF clientVars
<1>2. /\ pc[h] = "idle" /\ items' = items /\ rcpt' = [rcpt EXCEPT ![h] = r]
      /\ pc' = [pc EXCEPT ![h] = "acking"] /\ ackSeq' = [ackSeq EXCEPT ![h] = n]
  BY DEF AckBegin
<1>3. items[h] = {}
  BY <1>2 DEF DeliveryInv, IndInv, HandlersOK, HandlerOK
<1>4. \A g \in Handlers : items'[g] = {} \/ (rcpt'[g] = rcpt[g] /\ items'[g] = items[g])
  BY <1>2, <1>3 DEF TypeOK
<1>5. InboxWasHanded' /\ InboxComplete' /\ FlightsComplete'
  BY <1>1, <1>4, FlightsFrame
<1>6. AcceptedIsKept'
  BY <1>1, ToldFrame
<1>7. AcksAreOfInbox'
  <2>1. ASSUME NEW g \in Handlers, pc'[g] = "acking" PROVE ackSeq'[g] \in inbox[rcpt'[g]]
    <3>1. CASE g = h
      BY <1>2, <3>1 DEF TypeOK
    <3>2. CASE g # h
      BY <1>2, <2>1, <3>2 DEF TypeOK, DeliveryInv, AcksAreOfInbox
    <3> QED BY <3>1, <3>2
  <2> QED BY <1>1, <2>1 DEF AcksAreOfInbox
<1>8. ClientTypeOK'
  BY <1>1 DEF DeliveryInv, ClientTypeOK
<1> QED BY <1>1, <1>5, <1>6, <1>7, <1>8 DEF DeliveryInv

\* What FetchMessages returns fills the gap behind after_seq: with an inbox that
\* is complete up to there, it is complete up to the newest item.
LEMMA FetchIsComplete ==
  ASSUME DeliveryInv, NEW r \in Recipients, NEW a \in inbox[r] \cup {0}, NEW l \in FetchLimits
  PROVE  Complete(r, inbox[r] \cup FirstN(Visible(r, a), l))
<1> DEFINE V == Visible(r, a)
           found == FirstN(V, l)
<1> TypeOK
  BY DEF DeliveryInv, IndInv
<1>1. Complete(r, inbox[r]) /\ inbox[r] \subseteq Seqs
  BY DEF DeliveryInv, InboxComplete, ClientTypeOK
<1>2. /\ a \in Nat /\ (a + 1) % (MaxUint + 1) = a + 1 /\ now \in Nat
  <2>1. MaxSeq \in Nat /\ MaxUint \in Nat /\ MaxSeq < MaxUint /\ a \in 0..MaxSeq
    BY <1>1, ConstantsOK DEF Seqs
  <2>2. a \in Nat /\ a + 1 \in 0..MaxUint
    BY <2>1
  <2> QED BY <2>1, <2>2, TypeFacts
<1>3. V \in SUBSET Nat /\ IsFiniteSet(V) /\ V \subseteq Live(r)
  <2>1. V \subseteq Live(r) /\ Live(r) \subseteq 1..MaxSeq
    BY DEF Visible, Live, Seqs
  <2>2. IsFiniteSet(1..MaxSeq) /\ (1..MaxSeq) \subseteq Nat
    BY ConstantFacts, FS_Interval
  <2>3. IsFiniteSet(V)
    BY <2>1, <2>2, FS_Subset
  <2> QED BY <2>1, <2>2, <2>3
<1>4. \A s \in Live(r) : s > a => s \in V \/ msg[r][s].exp <= now
  <2>1. ASSUME NEW s \in Live(r), s > a, ~(msg[r][s].exp <= now) PROVE s \in V
    <3>1. s \in Nat /\ msg[r][s].exp \in Nat
      BY TypeFacts
    <3>2. s >= a + 1 /\ msg[r][s].exp > now
      BY <1>2, <2>1, <3>1
    <3> QED BY <1>2, <3>2 DEF Visible
  <2> QED BY <2>1
<1>5. found \subseteq V
  BY FirstNSubset
<1> HIDE DEF V
<1>6. ASSUME NEW n \in found, NEW s \in Live(r), s <= n
      PROVE  s \in inbox[r] \cup found \/ msg[r][s].exp <= now
  <2>1. s \in Nat /\ s \in Seqs /\ s # 0
    BY TypeFacts, ConstantFacts DEF Seqs
  <2>2. CASE s > a
    <3>1. CASE s \in V
      <4>1. l \in Nat
        BY ConstantsOK
      <4>2. s \in found
        BY <1>3, <1>6, <3>1, <4>1, FirstNPrefix
      <4> QED BY <4>2
    <3>2. CASE msg[r][s].exp <= now
      BY <3>2
    <3> QED BY <1>4, <2>2, <3>1, <3>2
  <2>3. CASE ~(s > a)
    <3>1. s <= a /\ a # 0
      BY <1>2, <2>1, <2>3
    <3>2. a \in inbox[r]
      BY <3>1
    <3> QED BY <1>1, <3>1, <3>2 DEF Complete
  <2> QED BY <2>2, <2>3
<1>7. ASSUME NEW n \in inbox[r], NEW s \in Live(r), s <= n
      PROVE  s \in inbox[r] \cup found \/ msg[r][s].exp <= now
  BY <1>1, <1>7 DEF Complete
<1>8. Complete(r, inbox[r] \cup found)
  BY <1>6, <1>7 DEF Complete
<1> QED BY <1>8 DEF V

\* A fetch begins.
LEMMA ClientFetches ==
  ASSUME DeliveryInv, Next, NEW h \in Handlers, NEW r \in Recipients, NEW a \in inbox[r] \cup {0},
         NEW l \in FetchLimits, FetchMessages(h, r, a, l), UNCHANGED clientVars
  PROVE  DeliveryInv'
<1> DEFINE found == FirstN(Visible(r, a), l)
<1> TypeOK
  BY DEF DeliveryInv, IndInv
<1>1. IndInv' /\ TypeOK' /\ GrowStep /\ UNCHANGED <<inbox, told>>
  BY StoreFacts DEF clientVars
<1>2. Complete(r, inbox[r] \cup found)
  BY FetchIsComplete
<1>3. /\ rcpt' = [rcpt EXCEPT ![h] = r] /\ items' = [items EXCEPT ![h] = found]
      /\ pc' = [pc EXCEPT ![h] = "fetched"] /\ UNCHANGED <<msg, now, ackSeq>>
  BY DEF FetchMessages, dbVars, envVars
<1> HIDE DEF found
<1>4. InboxWasHanded' /\ InboxComplete'
  BY <1>1, <1>3 DEF DeliveryInv, InboxWasHanded, InboxComplete, Complete, Live, GrowStep
<1>5. ASSUME NEW g \in Handlers PROVE Complete(rcpt[g], inbox[rcpt[g]] \cup items[g])'
  <2>1. CASE g = h
    <3>1. rcpt'[g] = r /\ items'[g] = found
      BY <1>3, <2>1 DEF TypeOK
    <3> QED BY <1>1, <1>2, <1>3, <3>1 DEF Complete, Live
  <2>2. CASE g # h
    <3>1. rcpt'[g] = rcpt[g] /\ items'[g] = items[g]
      BY <1>3, <2>2 DEF TypeOK
    <3>2. Complete(rcpt[g], inbox[rcpt[g]] \cup items[g])
      BY DEF DeliveryInv, FlightsComplete
    <3> QED BY <1>1, <1>3, <3>1, <3>2 DEF Complete, Live
  <2> QED BY <2>1, <2>2
<1>6. AcceptedIsKept'
  BY <1>1, ToldFrame
<1>7. AcksAreOfInbox'
  <2>1. ASSUME NEW g \in Handlers, pc'[g] = "acking" PROVE ackSeq'[g] \in inbox[rcpt'[g]]
    <3>1. g # h
      BY <1>3, <2>1 DEF TypeOK
    <3> QED BY <1>3, <2>1, <3>1 DEF TypeOK, DeliveryInv, AcksAreOfInbox
  <2> QED BY <1>1, <2>1 DEF AcksAreOfInbox
<1>8. ClientTypeOK'
  BY <1>1 DEF DeliveryInv, ClientTypeOK
<1> QED BY <1>1, <1>4, <1>5, <1>6, <1>7, <1>8 DEF DeliveryInv, FlightsComplete

\* An answer arrives: the inbox with it is complete, and so is every answer
\* still on its way, joined to it.
LEMMA AnswerArrives ==
  ASSUME DeliveryInv, Next, NEW h \in Handlers, Arrives(h)
  PROVE  DeliveryInv'
<1> DEFINE r == rcpt[h]
<1> TypeOK
  BY DEF DeliveryInv, IndInv
<1>1. IndInv' /\ TypeOK' /\ GrowStep
  BY StoreFacts
<1>2. /\ inbox' = [inbox EXCEPT ![r] = @ \cup items[h]] /\ told' = told
      /\ Forget(h) /\ UNCHANGED <<msg, now>>
  BY DEF Arrives, FetchAnswered, MarkDelivered, MarkDeliveredFails, dbVars, envVars
<1>3. r \in Recipients /\ items[h] \subseteq Seqs /\ items[h] \subseteq handed[r]
  BY DEF TypeOK, DeliveryInv, IndInv, HandlersOK, HandlerOK
<1>4. \A q \in Recipients : inbox'[q] = IF q = r THEN inbox[q] \cup items[h] ELSE inbox[q]
  BY <1>2 DEF DeliveryInv, ClientTypeOK
<1>5. ClientTypeOK'
  BY <1>2, <1>3 DEF DeliveryInv, ClientTypeOK
<1>6. ASSUME NEW q \in Recipients PROVE Complete(q, inbox'[q])
  <2>1. CASE q = r
    BY <1>4, <2>1 DEF DeliveryInv, FlightsComplete
  <2>2. CASE q # r
    BY <1>4, <2>2 DEF DeliveryInv, InboxComplete
  <2> QED BY <2>1, <2>2
<1>7. InboxComplete'
  BY <1>2, <1>6 DEF InboxComplete, Complete, Live
<1>8. InboxWasHanded'
  BY <1>1, <1>3, <1>4 DEF DeliveryInv, InboxWasHanded, GrowStep
<1>9. /\ items'[h] = {} /\ pc'[h] = "idle" /\ rcpt'[h] \in Recipients
      /\ \A g \in Handlers : g # h => /\ rcpt'[g] = rcpt[g] /\ items'[g] = items[g]
                                      /\ pc'[g] = pc[g] /\ ackSeq'[g] = ackSeq[g]
  BY <1>1, <1>2 DEF Forget, TypeOK
<1>10. ASSUME NEW g \in Handlers, NEW q \in Recipients, q = rcpt'[g]
       PROVE  Complete(q, inbox'[q] \cup items'[g])
  <2>1. CASE g = h
    <3>1. inbox'[q] \cup items'[g] = inbox'[q]
      BY <1>9, <2>1
    <3> QED BY <1>6, <3>1
  <2>2. CASE g # h
    <3>1. Complete(q, inbox[q] \cup items[g]) /\ items'[g] = items[g]
      BY <1>9, <1>10, <2>2 DEF DeliveryInv, FlightsComplete
    <3>2. Complete(q, inbox'[q] \cup (inbox[q] \cup items[g]))
      BY <1>6, <3>1, CompleteUnion
    <3>3. inbox'[q] \cup (inbox[q] \cup items[g]) = inbox'[q] \cup items'[g]
      BY <1>4, <3>1
    <3> QED BY <3>2, <3>3
  <2> QED BY <2>1, <2>2
<1>11. FlightsComplete'
  <2>1. \A g \in Handlers : rcpt'[g] \in Recipients
    BY <1>1 DEF TypeOK
  <2> QED BY <1>2, <1>10, <2>1 DEF FlightsComplete, Complete, Live
<1>12. AcceptedIsKept'
  <2>1. \A q \in Recipients : inbox[q] \subseteq inbox'[q]
    BY <1>4
  <2> QED BY <1>2, <2>1, ToldFrame
<1>13. AcksAreOfInbox'
  <2>1. ASSUME NEW g \in Handlers, pc'[g] = "acking" PROVE ackSeq'[g] \in inbox'[rcpt'[g]]
    <3>1. g # h /\ rcpt'[g] = rcpt[g] /\ ackSeq'[g] = ackSeq[g] /\ pc[g] = "acking" /\ rcpt[g] \in Recipients
      BY <1>9, <2>1 DEF TypeOK
    <3>2. ackSeq[g] \in inbox[rcpt[g]]
      BY <3>1 DEF DeliveryInv, AcksAreOfInbox
    <3> QED BY <1>4, <3>1, <3>2
  <2> QED BY <2>1 DEF AcksAreOfInbox
<1> QED BY <1>1, <1>5, <1>7, <1>8, <1>11, <1>12, <1>13 DEF DeliveryInv

\* A sender is told something: it is true of the message at that moment.
LEMMA SenderIsTold ==
  ASSUME DeliveryInv, TypeOK', MsgsStep, GrowStep, LossStep, UNCHANGED inbox,
         NEW r \in Recipients, NEW s \in Seqs, NEW e \in Nat, TellSender(r, s, e),
         msg'[r][s] # NoMsg, msg'[r][s].exp = e
  PROVE  AcceptedIsKept' /\ ClientTypeOK'
<1> DEFINE new == [r |-> r, s |-> s, exp |-> e]
<1>1. told' \subseteq told \cup {new}
  BY DEF TellSender
<1>2. ASSUME NEW t \in told
      PROVE  \/ t.s \in Live(t.r)' /\ msg'[t.r][t.s].exp = t.exp
             \/ t.s \in inbox'[t.r]
             \/ t.exp <= now'
  BY ToldStep
<1>3. new.s \in Live(new.r)' /\ msg'[new.r][new.s].exp = new.exp
  BY DEF Live
<1>4. new \in [r : Recipients, s : Seqs, exp : Nat]
  OBVIOUS
<1> HIDE DEF new
<1>5. AcceptedIsKept'
  BY <1>1, <1>2, <1>3 DEF AcceptedIsKept
<1>6. ClientTypeOK'
  BY <1>1, <1>4 DEF DeliveryInv, ClientTypeOK
<1> QED BY <1>5, <1>6

\* The handlers have no part in a store request.
LEMMA SendersFrame ==
  ASSUME DeliveryInv, Next, UNCHANGED <<inbox, handlerVars>>
  PROVE  /\ InboxWasHanded' /\ InboxComplete' /\ FlightsComplete' /\ AcksAreOfInbox'
<1>1. UNCHANGED <<pc, rcpt, items, ackSeq>>
  BY DEF handlerVars
<1>2. InboxWasHanded' /\ InboxComplete' /\ FlightsComplete'
  BY <1>1, FlightsFrame
<1> QED BY <1>1, <1>2 DEF DeliveryInv, AcksAreOfInbox

\* A new message is sent.
LEMMA SenderSendsNew ==
  ASSUME DeliveryInv, Next, NEW r \in Recipients, NEW id \in MsgIds, NEW ttl \in TTLs, SendNew(r, id, ttl)
  PROVE  DeliveryInv'
<1> DEFINE n == lastSeq[r] + 1
           entry == [id |-> id, exp |-> now + ttl]
<1>1. /\ IndInv' /\ TypeOK /\ TypeOK' /\ MsgsStep /\ GrowStep /\ LossStep
  BY StoreFacts
<1>2. UNCHANGED <<inbox, handlerVars>> /\ StoreMessage(r, id, ttl)
  BY DEF SendNew, StoreMessage
<1>3. InboxWasHanded' /\ InboxComplete' /\ FlightsComplete' /\ AcksAreOfInbox'
  BY <1>2, SendersFrame
<1>4. AcceptedIsKept' /\ ClientTypeOK'
  <2>1. CASE lastSeq'[r] = lastSeq[r]
    <3>1. told' = told
      BY <2>1 DEF SendNew
    <3>2. AcceptedIsKept'
      BY <1>2, <3>1, ToldFrame
    <3> QED BY <1>2, <3>1, <3>2 DEF DeliveryInv, ClientTypeOK
  <2>2. CASE lastSeq'[r] # lastSeq[r]
    <3>1. ~OverQuota(r, id)
      BY <1>2, <2>2 DEF StoreMessage
    <3>2. /\ msg' = [msg EXCEPT ![r][n] = entry] /\ lastSeq' = [lastSeq EXCEPT ![r] = n] /\ n <= MaxSeq
      BY <1>2, <3>1 DEF StoreMessage, NextSeq
    <3>3. n \in Seqs /\ entry \in Entry /\ now + ttl \in Nat
      BY <1>1, <3>2, ConstantFacts DEF Seqs, Entry, TypeOK
    <3>4. lastSeq'[r] = n /\ msg'[r][n] = entry
      BY <1>1, <3>2, <3>3 DEF TypeOK
    <3>5. TellSender(r, n, now + ttl)
      BY <2>2, <3>4 DEF SendNew
    <3>6. msg'[r][n] # NoMsg /\ msg'[r][n].exp = now + ttl
      BY <3>3, <3>4, ConstantFacts
    <3> HIDE DEF n, entry
    <3> QED BY <1>1, <1>2, <3>3, <3>5, <3>6, SenderIsTold
  <2> QED BY <2>1, <2>2
<1> QED BY <1>1, <1>3, <1>4 DEF DeliveryInv

\* A message is sent again: the sender is told about the one that is there.
LEMMA SenderSendsAgain ==
  ASSUME DeliveryInv, NEW r \in Recipients, NEW id \in MsgIds, SendAgain(r, id)
  PROVE  DeliveryInv'
<1> DEFINE s == dup[r][id]
<1> TypeOK
  BY DEF DeliveryInv, IndInv
<1>1. UNCHANGED <<vars, inbox>> /\ TellSender(r, s, msg[r][s].exp) /\ s # 0 /\ msg[r][s] # NoMsg
  BY DEF SendAgain, IsDuplicate
<1>2. s \in Seqs /\ s \in Live(r) /\ msg[r][s].exp \in Nat
  <2>1. s \in Seqs
    BY <1>1, ConstantFacts DEF TypeOK, Seqs
  <2>2. s \in Live(r)
    BY <1>1, <2>1 DEF Live
  <2> QED BY <2>1, <2>2, TypeFacts
<1>3. IndInv'
  BY <1>1, InvStutter DEF DeliveryInv
<1>4. UNCHANGED <<msg, lastSeq, now, acked, delivered, handed, pc, rcpt, items, ackSeq>>
  BY <1>1 DEF vars, dbVars, envVars, handlerVars
<1>5. TypeOK' /\ MsgsStep /\ GrowStep /\ LossStep
  <2>1. TypeOK'
    BY <1>3 DEF IndInv
  <2>2. MsgsStep /\ GrowStep
    BY <1>4, TypeFacts DEF MsgsStep, GrowStep, Live
  <2>3. LossStep
    BY <1>4 DEF LossStep, Live
  <2> QED BY <2>1, <2>2, <2>3
<1> HIDE DEF s
<1>6. AcceptedIsKept' /\ ClientTypeOK'
  <2>1. msg'[r][s] # NoMsg /\ msg'[r][s].exp = msg[r][s].exp
    BY <1>1, <1>4
  <2> DEFINE e == msg[r][s].exp
  <2>2. e \in Nat /\ TellSender(r, s, e) /\ msg'[r][s].exp = e
    BY <1>1, <1>2, <2>1
  <2> HIDE DEF e
  <2> QED BY <1>1, <1>2, <1>5, <2>1, <2>2, SenderIsTold
<1>7. InboxWasHanded' /\ InboxComplete' /\ FlightsComplete' /\ AcksAreOfInbox'
  BY <1>1, <1>4 DEF DeliveryInv, InboxWasHanded, InboxComplete, FlightsComplete, AcksAreOfInbox, Complete, Live
<1> QED BY <1>3, <1>6, <1>7 DEF DeliveryInv

-----------------------------------------------------------------------------
(* The theorems.                                                           *)

\* Every step preserves the invariant.
LEMMA DeliveryStep ==
  ASSUME DeliveryInv, DeliveryNext
  PROVE  DeliveryInv'
<1>1. ASSUME NEW r \in Recipients, NEW id \in MsgIds, NEW ttl \in TTLs, SendNew(r, id, ttl)
      PROVE  DeliveryInv'
  <2>1. Next
    BY <1>1 DEF SendNew, Next
  <2> QED BY <1>1, <2>1, SenderSendsNew
<1>2. ASSUME NEW r \in Recipients, NEW id \in MsgIds, SendAgain(r, id) PROVE DeliveryInv'
  BY <1>2, SenderSendsAgain
<1>3. ASSUME NEW h \in Handlers, NEW r \in Recipients \ Slashed, NEW a \in Seqs \cup {0}, NEW l \in FetchLimits,
             ClientFetch(h, r, a, l)
      PROVE  DeliveryInv'
  <2>1. a \in AfterSeqs
    BY ConstantFacts DEF AfterSeqs, Seqs
  <2>2. Next /\ a \in inbox[r] \cup {0} /\ FetchMessages(h, r, a, l) /\ UNCHANGED clientVars
    BY <1>3, <2>1 DEF ClientFetch, Next, HandlerStep
  <2> QED BY <2>2, ClientFetches
<1>4. ASSUME NEW h \in Handlers, Arrives(h) PROVE DeliveryInv'
  <2>1. Next
    BY <1>4 DEF Arrives, FetchAnswered, Next, HandlerStep
  <2> QED BY <1>4, <2>1, AnswerArrives
<1>5. ASSUME NEW h \in Handlers, GetsLost(h) PROVE DeliveryInv'
  <2>1. Next /\ (MarkDelivered(h) \/ MarkDeliveredFails(h)) /\ UNCHANGED clientVars
    BY <1>5 DEF GetsLost, FetchAnswered, Next, HandlerStep
  <2> QED BY <2>1, HandlersGoOn, NodeFrame
<1>6. ASSUME NEW h \in Handlers, NEW r \in Recipients \ Slashed, NEW n \in Seqs, ClientAck(h, r, n)
      PROVE  DeliveryInv'
  <2>1. n \in 0..MaxSeq
    BY ConstantFacts DEF Seqs
  <2>2. Next /\ n \in inbox[r] /\ UNCHANGED clientVars /\ (AckAlreadyDone(h, r, n) \/ AckBegin(h, r, n))
    BY <1>6, <2>1 DEF ClientAck, Next, HandlerStep
  <2>3. CASE AckAlreadyDone(h, r, n)
    BY <2>2, <2>3, HandlersGoOn, NodeFrame
  <2>4. CASE AckBegin(h, r, n)
    BY <2>2, <2>4, ClientAckBegins
  <2> QED BY <2>2, <2>3, <2>4
<1>7. CASE NodeStep
  <2>1. Next /\ UNCHANGED clientVars
    BY <1>7 DEF NodeStep, Next, HandlerStep
  <2>2. \A g \in Handlers :
           /\ items'[g] = {} \/ (rcpt'[g] = rcpt[g] /\ items'[g] = items[g])
           /\ pc'[g] = "acking" => pc[g] = "acking" /\ rcpt'[g] = rcpt[g] /\ ackSeq'[g] = ackSeq[g]
    BY <1>7, HandlersGoOn DEF NodeStep
  <2> QED BY <2>1, <2>2, NodeFrame
<1> QED BY <1>1, <1>2, <1>3, <1>4, <1>5, <1>6, <1>7 DEF DeliveryNext

\* The invariant of the composition holds throughout, whatever is lost or late.
THEOREM DeliveryInvariance == DeliverySafe => []DeliveryInv
<1>1. DeliveryInit => DeliveryInv
  <2> SUFFICES ASSUME DeliveryInit PROVE DeliveryInv
    OBVIOUS
  <2>1. IndInv /\ TypeOK
    BY InvInit DEF DeliveryInit, IndInv
  <2>2. \A r \in Recipients : inbox[r] = {}
    BY DEF DeliveryInit
  <2>3. ClientTypeOK /\ InboxWasHanded /\ InboxComplete /\ AcceptedIsKept
    BY <2>2 DEF DeliveryInit, ClientTypeOK, InboxWasHanded, InboxComplete, Complete, AcceptedIsKept
  <2>4. \A h \in Handlers : rcpt[h] \in Recipients /\ items[h] = {} /\ pc[h] = "idle"
    BY <2>1 DEF DeliveryInit, Init, TypeOK
  <2>5. FlightsComplete /\ AcksAreOfInbox
    BY <2>2, <2>4 DEF FlightsComplete, Complete, AcksAreOfInbox
  <2> QED BY <2>1, <2>3, <2>5 DEF DeliveryInv
<1>2. DeliveryInv /\ UNCHANGED deliveryVars => DeliveryInv'
  <2> SUFFICES ASSUME DeliveryInv, UNCHANGED deliveryVars PROVE DeliveryInv'
    OBVIOUS
  <2>1. UNCHANGED <<vars, inbox, told, msg, now, handed, pc, rcpt, items, ackSeq>>
    BY DEF deliveryVars, clientVars, vars, dbVars, envVars, handlerVars
  <2>2. IndInv'
    BY <2>1, InvStutter DEF DeliveryInv
  <2>3. ClientTypeOK' /\ InboxWasHanded' /\ InboxComplete' /\ AcceptedIsKept'
    BY <2>1 DEF DeliveryInv, ClientTypeOK, InboxWasHanded, InboxComplete, Complete, AcceptedIsKept, Live
  <2>4. FlightsComplete' /\ AcksAreOfInbox'
    BY <2>1 DEF DeliveryInv, FlightsComplete, Complete, AcksAreOfInbox, Live
  <2> QED BY <2>2, <2>3, <2>4 DEF DeliveryInv
<1>3. DeliveryInv /\ [DeliveryNext]_deliveryVars => DeliveryInv'
  BY <1>2, DeliveryStep
<1> QED BY <1>1, <1>3, PTL DEF DeliverySafe

\* No message leaves the node before it has expired unless its client has it.
THEOREM NothingIsLost == DeliverySafe => NothingLost
<1> DEFINE A == \A r \in Recipients : \A s \in Live(r) :
                   msg'[r][s] = NoMsg => s \in inbox[r] \/ msg[r][s].exp <= now
<1>1. ASSUME DeliveryInv, [DeliveryNext]_deliveryVars PROVE [A]_deliveryVars
  <2>1. CASE Next
    BY <1>1, <2>1, NothingLostStep DEF LossStep
  <2>2. CASE UNCHANGED vars
    <3>1. UNCHANGED msg
      BY <2>2 DEF vars, dbVars
    <3> QED BY <3>1 DEF Live
  <2>3. CASE UNCHANGED deliveryVars
    BY <2>3
  <2> QED BY <1>1, <2>1, <2>2, <2>3, StoreMoves
<1> QED BY <1>1, DeliveryInvariance, PTL DEF DeliverySafe, NothingLost

\* What a sender was told holds until the expiry it knows.
THEOREM AcceptedCorrect == DeliverySafe => []AcceptedIsKept
<1>1. DeliveryInv => AcceptedIsKept
  BY DEF DeliveryInv
<1> QED BY <1>1, DeliveryInvariance, PTL

\* A finite set of numbers has its maximum, which is what Max chooses.
LEMMA CursorInInbox ==
  ASSUME DeliveryInv, NEW r \in Recipients
  PROVE  Cursor(r) \in inbox[r] \cup {0}
<1> DEFINE S == inbox[r] \cup {0}
           T == {x \in Nat : \A y \in S : y <= x}
<1>1. S \in SUBSET Nat /\ \A y \in S : y <= MaxSeq
  BY ConstantFacts DEF DeliveryInv, ClientTypeOK, Seqs
<1>2. T \in SUBSET Nat /\ MaxSeq \in T
  BY <1>1, ConstantFacts
<1>3. PICK m \in T : \A x \in T : m <= x
  BY <1>2, NatMin
<1>4. m \in Nat /\ \A y \in S : y <= m
  OBVIOUS
<1>5. m \in S
  <2> SUFFICES ASSUME m \notin S PROVE FALSE
    OBVIOUS
  <2>1. 0 \in S /\ m # 0 /\ m - 1 \in Nat
    BY <1>4
  <2>2. \A y \in S : y <= m - 1
    BY <1>1, <1>4
  <2>3. m - 1 \in T
    BY <2>1, <2>2
  <2> QED BY <1>3, <1>4, <2>1, <2>3
<1> QED BY <1>4, <1>5 DEF Cursor, Max

\* A client that asks for what comes after its newest message misses nothing.
THEOREM CursorCorrect == DeliverySafe => []CursorMissesNothing
<1>1. DeliveryInv => CursorMissesNothing
  <2> SUFFICES ASSUME DeliveryInv, NEW r \in Recipients, NEW s \in Live(r), s <= Cursor(r)
               PROVE  s \in inbox[r] \/ msg[r][s].exp <= now
    BY DEF CursorMissesNothing
  <2>1. s \in Nat /\ s # 0
    BY ConstantFacts DEF Live, Seqs
  <2>2. Cursor(r) \in inbox[r]
    BY <2>1, CursorInInbox
  <2> QED BY <2>2 DEF DeliveryInv, InboxComplete, Complete
<1> QED BY <1>1, DeliveryInvariance, PTL
===============================================================================
