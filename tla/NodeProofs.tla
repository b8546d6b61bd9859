------------------------------ MODULE NodeProofs ------------------------------
(***************************************************************************)
(* What TLAPS proves about Node, for every number of keys as well as every *)
(* value of the constants of RequestGate: the process around the gate, as  *)
(* it starts, fails, stops and is killed, takes only steps the gate may    *)
(* take, so that all that RequestGateProofs shows holds of the whole node; *)
(* the peer id is stable; and OK is answered only for what is stored.      *)
(***************************************************************************)
EXTENDS Node, RequestGateProofs

-----------------------------------------------------------------------------
(* The node is a gate.                                                     *)

\* A step of the process is a step of the gate or none that the gate can see.  A
\* closed database answers as a failing one does; the end of the process, by
\* whatever way, is a restart of the gate.
LEMMA NodeStepIsGateStep == [NodeNext]_nodeVars => [GateNext]_gateVars
<1> SUFFICES ASSUME [NodeNext]_nodeVars PROVE [GateNext]_gateVars
  OBVIOUS
<1>1. ASSUME Ends PROVE GateNext
  BY <1>1 DEF Ends, GateNext
<1>2. CASE Boot
  BY <1>2 DEF Boot, OpenStore, LoadOrCreateIdentityKey, WriteKey, NewHost, Start
<1>3. CASE OpenChannelsFails \/ CloseHost \/ CloseStores
  BY <1>3 DEF OpenChannelsFails, CloseHost, CloseStores
<1>4. CASE NewFails \/ Exit \/ Kill
  BY <1>1, <1>4 DEF NewFails, Exit, Kill
<1>5. ASSUME NEW h \in Handlers, Serve(h) PROVE GateNext
  <2>1. ASSUME StorageFails(h) PROVE StoreMessage(h) \/ FetchMessages(h) \/ AckMessages(h)
    <3>1. /\ pc[h] \in {"store", "fetch", "ack"} /\ Answer(h, "INTERNAL_ERROR", {})
          /\ UNCHANGED <<req, window, box, minute, passed>>
      BY <2>1 DEF StorageFails
    <3>2. CASE pc[h] = "store"
      BY <3>1, <3>2 DEF StoreMessage
    <3>3. CASE pc[h] = "fetch"
      BY <3>1, <3>3 DEF FetchMessages
    <3>4. CASE pc[h] = "ack"
      <4>1. {} \in SUBSET OwnMessages(req[h].to) /\ "INTERNAL_ERROR" \in {"OK", "INTERNAL_ERROR"} /\ box' = box \ {}
        BY <3>1
      <4> QED BY <3>1, <3>4, <4>1 DEF AckMessages
    <3> QED BY <3>1, <3>2, <3>3, <3>4
  <2>2. ServeStep(h)
    BY <1>5, <2>1 DEF Serve, ServeStep
  <2> QED BY <2>2 DEF GateNext
<1>6. ASSUME NEW h \in Handlers, Receive(h) PROVE GateNext
  BY <1>6 DEF Receive, GateNext
<1>7. CASE Collect \/ Clock
  BY <1>7 DEF Collect, Clock, GateNext
<1>8. CASE UNCHANGED nodeVars
  BY <1>8 DEF nodeVars
<1> QED BY <1>2, <1>3, <1>4, <1>5, <1>6, <1>7, <1>8 DEF NodeNext

\* The whole node, seen from its streams, behaves as RequestGate does: every theorem
\* about the gate is one about the node.
THEOREM NodeUsesGate == NodeSpec => GateSpec
<1>1. NodeInit => GateInit
  BY DEF NodeInit
<1> QED BY <1>1, NodeStepIsGateStep, PTL DEF NodeSpec, GateSpec

\* In particular its limiters, its store, its pages and its frames are in order.
THEOREM NodeGateCorrect ==
  NodeSpec => [](BudgetKept /\ StoredIsVouchedFor /\ PagesStayUnderRecipient /\ FramesSuffice)
  BY NodeUsesGate, GateInvariance, GateInvImplies, PTL

-----------------------------------------------------------------------------
(* The identity.                                                           *)

\* What is said of the process alone.
BootTypeOK ==
    /\ phase \in {"off", "opened", "writing", "identified", "serving", "failing", "running",
                  "closing", "closed"}
    /\ storeOpen \in BOOLEAN
    /\ hostOpen \in BOOLEAN
    /\ keyFile \in Keys \cup {0, NoKey}
    /\ key \in Keys \cup {NoKey}
    /\ generated \in 0..MaxKeys
    /\ announced \subseteq Keys

BootInv == BootTypeOK /\ IdentityOK

\* Neither of the marks is a key.
LEMMA KeyFacts == /\ 0 \notin Keys /\ NoKey \notin Keys /\ MaxKeys \in Nat
                  /\ \A n \in 0..MaxKeys : n < MaxKeys => n + 1 \in Keys /\ n + 1 \in 0..MaxKeys
  BY NodeConstantsOK DEF Keys

\* The process begins with them, ...
LEMMA BootInvInit == NodeInit => BootInv
<1> SUFFICES ASSUME NodeInit PROVE BootInv
  OBVIOUS
<1>1. generated \in 0..MaxKeys
  BY KeyFacts DEF NodeInit
<1>2. BootTypeOK /\ IdentityOK
  BY <1>1 DEF NodeInit, BootTypeOK, IdentityOK
<1> QED BY <1>2 DEF BootInv

\* ... and keeps them.
LEMMA BootInvStep == BootInv /\ [NodeNext]_nodeVars => BootInv'
<1> SUFFICES ASSUME BootInv, [NodeNext]_nodeVars PROVE BootInv'
  OBVIOUS
<1> USE KeyFacts DEF BootInv
<1> HIDE DEF Keys
<1>1. ASSUME Ends PROVE BootInv'
  BY <1>1 DEF Ends, BootTypeOK, IdentityOK
<1>2. CASE OpenStore
  BY <1>2 DEF OpenStore, BootTypeOK, IdentityOK
<1>3. CASE LoadOrCreateIdentityKey
  <2>1. CASE CreateKey
    BY <1>3, <2>1 DEF LoadOrCreateIdentityKey, CreateKey, BootTypeOK, IdentityOK
  <2>2. CASE LoadKey
    BY <1>3, <2>2 DEF LoadOrCreateIdentityKey, LoadKey, BootTypeOK, IdentityOK
  <2> QED BY <1>3, <2>1, <2>2 DEF LoadOrCreateIdentityKey
<1>4. CASE WriteKey
  BY <1>4 DEF WriteKey, BootTypeOK, IdentityOK
<1>5. CASE NewHost
  BY <1>5 DEF NewHost, BootTypeOK, IdentityOK
<1>6. CASE Start \/ OpenChannelsFails
  BY <1>6 DEF Start, OpenChannelsFails, BootTypeOK, IdentityOK
<1>7. CASE CloseHost \/ CloseStores
  BY <1>7 DEF CloseHost, CloseStores, BootTypeOK, IdentityOK
<1>8. CASE NewFails \/ Exit \/ Kill
  BY <1>1, <1>8 DEF NewFails, Exit, Kill
<1>9. ASSUME UNCHANGED <<bootVars, announced>> PROVE BootInv'
  BY <1>9 DEF bootVars, BootTypeOK, IdentityOK
<1>10. CASE (\E h \in Handlers : Serve(h) \/ Receive(h)) \/ Collect \/ Clock
  BY <1>9, <1>10 DEF Serve, Receive, Collect, Clock
<1>11. CASE UNCHANGED nodeVars
  BY <1>9, <1>11 DEF nodeVars
<1> QED BY <1>2, <1>3, <1>4, <1>5, <1>6, <1>7, <1>8, <1>10, <1>11 DEF NodeNext, Boot

\* The inductive invariant of the process.
THEOREM NodeInvariance == NodeSpec => []BootInv
  BY BootInvInit, BootInvStep, PTL DEF NodeSpec

\* The types of the node.
THEOREM NodeTypeCorrect == NodeSpec => []NodeTypeOK
<1>1. GateTypeOK /\ BootInv => NodeTypeOK
  BY DEF NodeTypeOK, BootInv, BootTypeOK
<1> QED BY <1>1, NodeUsesGate, GateTypeCorrect, NodeInvariance, PTL

\* The node is never seen under two peer ids, however often and wherever in its start
\* it is killed (LoadOrCreateIdentityKey, NewHost).
THEOREM PeerIdCorrect == NodeSpec => []PeerIdStable
<1>1. BootInv => PeerIdStable
  <2> SUFFICES ASSUME BootInv PROVE Cardinality(announced) <= 1
    BY DEF PeerIdStable
  <2>1. announced = {} \/ announced = {keyFile}
    BY DEF BootInv, IdentityOK
  <2>2. Cardinality({}) = 0 /\ Cardinality({keyFile}) = 1
    BY FS_EmptySet, FS_Singleton
  <2> QED BY <2>1, <2>2
<1> QED BY <1>1, NodeInvariance, PTL

-----------------------------------------------------------------------------
(* OK means stored.                                                        *)

\* The step: the only way from the store to an answer OK leaves the message there.
LEMMA StoredStep ==
  ASSUME GateInv, [NodeNext]_nodeVars, NEW h \in Handlers,
         pc[h] = "store", code'[h] = "OK", pc'[h] = "reply"
  PROVE  \E e \in box' : e.to = req[h].to /\ e.id = req[h].id
<1>1. /\ pc \in [Handlers -> {"idle", "limit", "verify", "store", "fetch", "ack", "reply", "reset"}]
      /\ code \in [Handlers -> Codes] /\ pc' # pc
  BY DEF GateInv, GateTypeOK
<1>2. ASSUME NEW g \in Handlers, NEW p, Goto(g, p) PROVE g = h /\ p = "reply"
  BY <1>1, <1>2 DEF Goto
<1>3. ASSUME StoreMessage(h) PROVE \E e \in box' : e.to = req[h].to /\ e.id = req[h].id
  <2> DEFINE e == Stored(req[h])
  <2>1. e.to = req[h].to /\ e.id = req[h].id
    BY DEF Stored
  <2>2. ASSUME NEW c, c # "OK", Answer(h, c, {}) PROVE FALSE
    BY <1>1, <2>2 DEF Answer
  <2>3. \/ (\E x \in box : x.to = e.to /\ x.id = e.id) /\ box' = box
        \/ box' = box \cup {e}
    BY <1>3, <2>2 DEF StoreMessage
  <2> HIDE DEF e
  <2> QED BY <2>1, <2>3
<1>4. ASSUME NEW g \in Handlers, Serve(g) PROVE StoreMessage(h)
  <2>1. ~AllowRemote(g) /\ ~AllowSender(g) /\ ~FetchMessages(g) /\ ~AckMessages(g)
    BY <1>2 DEF AllowRemote, AllowSender, FetchMessages, AckMessages, Answer
  <2>2. ~WriteRPC(g) /\ ~ResetStream(g)
    BY <1>2 DEF WriteRPC, ResetStream, Return
  <2>3. ~StorageFails(g)
    <3>1. ASSUME StorageFails(g) PROVE FALSE
      <4>1. g = h /\ code' = [code EXCEPT ![g] = "INTERNAL_ERROR"]
        BY <1>2, <3>1 DEF StorageFails, Answer
      <4> QED BY <1>1, <4>1
    <3> QED BY <3>1
  <2>4. StoreMessage(g)
    BY <1>4, <2>1, <2>2, <2>3 DEF Serve
  <2>5. g = h
    BY <1>2, <2>4 DEF StoreMessage, Answer
  <2> QED BY <2>4, <2>5
<1>5. ASSUME NEW g \in Handlers, Receive(g) PROVE FALSE
  <2>1. PICK q \in Requests : HandleRPC(g, q)
    BY <1>5 DEF Receive
  <2>2. pc[g] = "idle" /\ \E p : Goto(g, p)
    BY <2>1 DEF HandleRPC, Answer
  <2> QED BY <1>2, <2>2
<1>6. ~Ends
  BY DEF Ends, Restart
<1>7. ~UNCHANGED gateVars /\ ~UNCHANGED handlerVars
  BY <1>1 DEF gateVars, handlerVars
<1>8. ~Boot /\ ~OpenChannelsFails /\ ~CloseHost /\ ~CloseStores /\ ~UNCHANGED nodeVars
  BY <1>7 DEF Boot, OpenStore, LoadOrCreateIdentityKey, WriteKey, NewHost, Start, OpenChannelsFails,
              CloseHost, CloseStores, nodeVars
<1>9. ~NewFails /\ ~Exit /\ ~Kill
  BY <1>6 DEF NewFails, Exit, Kill
<1>10. ~Collect /\ ~Clock
  BY <1>7 DEF Collect, Expire, Clock, NextMinute
<1> QED BY <1>3, <1>4, <1>5, <1>8, <1>9, <1>10 DEF NodeNext

\* A store request is answered OK only if the message is in the database at that
\* moment, also while the process fails or closes (StoreService.Handle, app.Close).
THEOREM OKCorrect == NodeSpec => OKMeansStored
<1>1. GateInv /\ [NodeNext]_nodeVars =>
        [\A h \in Handlers :
            pc[h] = "store" /\ code'[h] = "OK" /\ pc'[h] = "reply" =>
               \E e \in box' : e.to = req[h].to /\ e.id = req[h].id]_nodeVars
  BY StoredStep
<1> QED BY <1>1, NodeUsesGate, GateInvariance, PTL DEF NodeSpec, OKMeansStored
===============================================================================
