--------------------------- MODULE RequestGateProofs ---------------------------
(***************************************************************************)
(* What TLAPS proves about RequestGate, for every set of handlers, peers   *)
(* and requests and every limit, TTL, size and frame length: the inductive *)
(* invariant GateInv, the safety properties it implies, and the two action *)
(* properties of the limiters.                                             *)
(***************************************************************************)
EXTENDS RequestGate, FiniteSums

-----------------------------------------------------------------------------
(* Constants and types.                                                    *)

\* The fields of a request that arrives.
LEMMA RequestFacts ==
  \A q \in Requests :
     /\ q.remote \in Peers /\ q.who \in Peers /\ q.to \in Recipients
     /\ q.frame \in 0..(Word - 1)
     /\ q.id \in Nat /\ q.size \in Nat /\ q.limit \in Int /\ q.ttl \in Int \cup {NoTTL}
     /\ q # NoRequest
  BY GateConstantsOK DEF Request

\* The constants in the form the proofs use them.
LEMMA GateConstants ==
  /\ Limit \in Int /\ DefaultTTL \in Int /\ MaxTTL \in Nat /\ MaxMessageSize \in Nat
  /\ FetchLimitMax \in Nat /\ Word \in Nat /\ Word > 0 /\ MaxMinute \in Nat
  /\ SmallFrame \in Nat /\ MessageOverhead \in Nat /\ RPCOverhead \in Nat
  /\ RequestWrap \in Nat /\ ItemWrap \in Nat /\ ReplyWrap \in Nat /\ ReplyWrap > 0
  /\ NoTTL \notin Int /\ NoRequest \notin Requests
  BY GateConstantsOK

\* The ttl a message is given is a number.
LEMMA TTLType == \A q \in Requests : EffectiveTTL(q) \in Int
  BY RequestFacts, GateConstants DEF EffectiveTTL

\* The request a handler serves.
LEMMA ServedRequest ==
  ASSUME GateTypeOK, NEW h \in Handlers, pc[h] # "idle"
  PROVE  req[h] \in Requests
  BY DEF GateTypeOK

\* The greater of two numbers.
LEMMA MaxOfTwo ==
  ASSUME NEW a \in Int, NEW b \in Int
  PROVE  /\ Max({a, b}) = IF a >= b THEN a ELSE b
         /\ Max({a, b}) \in Int /\ Max({a, b}) >= a /\ Max({a, b}) >= b
<1> DEFINE m == IF a >= b THEN a ELSE b
<1>1. m \in {a, b} /\ \A y \in {a, b} : m >= y
  OBVIOUS
<1>2. \A x \in {a, b} : (\A y \in {a, b} : x >= y) => x = m
  OBVIOUS
<1>3. Max({a, b}) = m
  BY <1>1, <1>2 DEF Max
<1> QED BY <1>3

-----------------------------------------------------------------------------
(* The limiters.                                                           *)

\* The window a limiter works with.
LEMMA CurrentType ==
  ASSUME GateTypeOK, NEW l \in Limiters, NEW p \in Peers
  PROVE  /\ window[l][p] \in Window /\ Current(l, p) \in Window
         /\ Current(l, p).start = minute /\ Current(l, p).count \in Nat
         /\ passed[l][p] \in Nat
<1>1. window[l][p] \in Window /\ minute \in Nat /\ passed[l][p] \in Nat
  BY DEF GateTypeOK
<1>2. \A w \in Window : w.start \in Nat /\ w.count \in Nat
  BY DEF Window
<1>3. [start |-> minute, count |-> 0] \in Window
  BY <1>1 DEF Window
<1> QED BY <1>1, <1>2, <1>3 DEF Current

\* Allow counts what it lets pass in the window of this minute and touches no
\* other peer's.
LEMMA AllowStep ==
  ASSUME GateTypeOK, WindowsAgree, NEW l \in Limiters, NEW p \in Peers,
         Pass(l, p) \/ Refuse(l, p), UNCHANGED minute
  PROVE  /\ window' \in [Limiters -> [Peers -> Window]]
         /\ passed' \in [Limiters -> [Peers -> Nat]]
         /\ WindowsAgree'
<1> DEFINE c == Current(l, p)
           w == [c EXCEPT !.count = @ + 1]
<1>1. c \in Window /\ c.start = minute /\ c.count \in Nat /\ passed[l][p] \in Nat /\ minute \in Nat
  BY CurrentType DEF GateTypeOK
<1>2. w \in Window /\ w.start = minute /\ w.count = c.count + 1
  BY <1>1 DEF Window
<1>3. Limit \in Int
  BY GateConstants
<1> HIDE DEF c, w
<1>4. passed' \in [Limiters -> [Peers -> Nat]]
  <2>1. passed' = passed \/ passed' = [passed EXCEPT ![l][p] = @ + 1]
    BY DEF Pass, Refuse
  <2>2. passed \in [Limiters -> [Peers -> Nat]]
    BY DEF GateTypeOK
  <2> QED BY <2>1, <2>2
<1>5. window' \in [Limiters -> [Peers -> Window]]
  <2>1. window' = window \/ window' = [window EXCEPT ![l][p] = c] \/ window' = [window EXCEPT ![l][p] = w]
    <3>1. CASE Pass(l, p)
      BY <3>1 DEF Pass, c, w
    <3>2. CASE Refuse(l, p)
      BY <3>2 DEF Refuse, c
    <3> QED BY <3>1, <3>2
  <2>2. window \in [Limiters -> [Peers -> Window]]
    BY DEF GateTypeOK
  <2> QED BY <1>1, <1>2, <2>1, <2>2
<1>6. ASSUME Limit > 0, NEW k \in Limiters, NEW q \in Peers
      PROVE  /\ window'[k][q].start <= minute
             /\ (IF window'[k][q].start = minute THEN window'[k][q].count ELSE 0) = passed'[k][q]
             /\ passed'[k][q] <= Limit
  <2>1. /\ window[k][q].start <= minute /\ window[k][q] \in Window
        /\ (IF window[k][q].start = minute THEN window[k][q].count ELSE 0) = passed[k][q]
        /\ passed[k][q] <= Limit
    BY <1>6, CurrentType DEF WindowsAgree, Current
  <2>2. CASE k = l /\ q = p
    <3>1. CASE Pass(l, p)
      <4>1. window'[l][p] = w /\ passed'[l][p] = passed[l][p] + 1 /\ c.count < Limit
        BY <1>3, <1>6, <3>1 DEF Pass, HasRoom, GateTypeOK, c, w
      <4>2. c.count = passed[l][p]
        BY <1>6 DEF WindowsAgree, c
      <4> QED BY <1>1, <1>2, <1>3, <2>2, <4>1, <4>2
    <3>2. CASE Refuse(l, p)
      <4>1. window'[l][p] = c /\ passed'[l][p] = passed[l][p]
        BY <3>2 DEF Refuse, GateTypeOK, c
      <4>2. c.count = passed[l][p]
        BY <1>6 DEF WindowsAgree, c
      <4> QED BY <1>1, <2>1, <2>2, <4>1, <4>2
    <3> QED BY <3>1, <3>2
  <2>3. CASE ~(k = l /\ q = p)
    <3>1. window'[k][q] = window[k][q] /\ passed'[k][q] = passed[k][q]
      BY <1>3, <1>6, <2>3 DEF Pass, Refuse, GateTypeOK
    <3> QED BY <2>1, <3>1
  <2> QED BY <2>2, <2>3
<1>7. WindowsAgree'
  <2>1. ASSUME Limit > 0, NEW k \in Limiters, NEW q \in Peers
        PROVE  (Current(k, q).count)' = IF window'[k][q].start = minute THEN window'[k][q].count ELSE 0
    BY DEF Current
  <2> QED BY <1>6, <2>1 DEF WindowsAgree
<1> QED BY <1>4, <1>5, <1>7

-----------------------------------------------------------------------------
(* Frames.                                                                 *)

\* A request within the limits fits into the frame a server reads.
LEMMA RequestFits ==
  ASSUME FramesAreSound, NEW q \in Requests, WithinLimits(q)
  PROVE  FrameFits(q.frame, RPCRequest)
<1> DEFINE a == MaxMessageSize + MessageOverhead
           m == Max({a, SmallFrame})
           n == Max({a + RPCOverhead, SmallFrame + RPCOverhead})
<1> USE GateConstants
<1>1. a \in Nat /\ q.frame \in Nat /\ q.frame < Word /\ 0 < q.frame /\ q.size \in Nat
  BY RequestFacts DEF WithinLimits
<1>2. m >= a /\ m >= SmallFrame /\ m \in Int
  BY <1>1, MaxOfTwo
<1>3. m = (IF a >= SmallFrame THEN a ELSE SmallFrame) /\ m + RPCOverhead < Word
  <2>1. m + RPCOverhead < Word
    BY DEF FramesAreSound
  <2>2. a \in Int /\ SmallFrame \in Int
    BY <1>1
  <2> HIDE DEF a
  <2>3. m = IF a >= SmallFrame THEN a ELSE SmallFrame
    BY <2>2, MaxOfTwo
  <2> QED BY <2>1, <2>3
<1>4. n = IF a + RPCOverhead >= SmallFrame + RPCOverhead THEN a + RPCOverhead ELSE SmallFrame + RPCOverhead
  <2>1. a + RPCOverhead \in Int /\ SmallFrame + RPCOverhead \in Int
    BY <1>1
  <2> HIDE DEF a
  <2> QED BY <2>1, MaxOfTwo
<1>5. n = m + RPCOverhead /\ n \in Nat /\ n < Word
  <2> HIDE DEF a, m, n
  <2> QED BY <1>1, <1>2, <1>3, <1>4
<1>6. RPCRequest = n
  <2>1. RPCRequest = n % Word
    BY DEF RPCRequest
  <2> HIDE DEF a, m, n
  <2> QED BY <1>5, <2>1
<1>7. q.frame <= n
  <2>1. CASE q.method = "offline.store"
    <3>1. q.frame <= q.size + RequestWrap /\ q.size <= MaxMessageSize /\ RequestWrap <= MessageOverhead + RPCOverhead
      BY <2>1 DEF WithinLimits, FramesAreSound
    <3>2. q.frame <= a + RPCOverhead
      BY <1>1, <3>1
    <3> HIDE DEF a, m, n
    <3> QED BY <1>1, <1>2, <1>5, <3>2
  <2>2. CASE q.method # "offline.store"
    <3>1. q.frame <= SmallFrame
      BY <2>2 DEF WithinLimits
    <3> HIDE DEF a, m, n
    <3> QED BY <1>1, <1>2, <1>5, <3>1
  <2> QED BY <2>1, <2>2
<1>8. q.frame % Word = q.frame
  BY <1>1
<1> HIDE DEF a, m, n
<1> QED BY <1>1, <1>6, <1>7, <1>8 DEF FrameFits

\* The length of a response is a sum over its messages.
LEMMA ReplyIsASum ==
  ASSUME NEW S, IsFiniteSet(S)
  PROVE  ReplySize(S) = ReplyWrap + SumOver([e \in S |-> e.size + ItemWrap], S)
<1> DEFINE g == [e \in S |-> e.size + ItemWrap]
           Adds(it) == it = [s \in SUBSET S |->
                                IF s = {} THEN 0 ELSE (Any(s).size + ItemWrap) + it[s \ {Any(s)}]]
           total == CHOOSE it : Adds(it)
<1>1. ASSUME NEW it PROVE Adds(it) <=> IsSum(it, g, S)
  <2>1. ASSUME NEW s \in SUBSET S, s # {} PROVE Any(s).size + ItemWrap = g[Any(s)]
    BY <2>1, AnyFacts
  <2> HIDE DEF g
  <2>2. [s \in SUBSET S |-> IF s = {} THEN 0 ELSE (Any(s).size + ItemWrap) + it[s \ {Any(s)}]]
        = [s \in SUBSET S |-> IF s = {} THEN 0 ELSE g[Any(s)] + it[s \ {Any(s)}]]
    BY <2>1
  <2> QED BY <2>2 DEF IsSum
<1>2. ReplySize(S) = ReplyWrap + total[S]
  BY DEF ReplySize, MapThenSumSet, MapThenFoldSet, Any
<1> HIDE DEF Adds, g
<1>3. PICK it : Adds(it)
  BY <1>1, SumExists
<1>4. Adds(total)
  BY <1>3
<1> HIDE DEF total
<1>5. total[S] = SumOver(g, S)
  BY <1>1, <1>4, SumIs
<1> QED BY <1>2, <1>5 DEF g

\* Every page of messages within the limits fits into a response.
LEMMA ReplyFits ==
  ASSUME FramesAreSound, NEW S \in SUBSET Envelope, IsFiniteSet(S), Cardinality(S) <= FetchLimitMax,
         \A e \in S : e.size <= MaxMessageSize
  PROVE  FrameFits(ReplySize(S), RPCResponse)
<1> DEFINE g == [e \in S |-> e.size + ItemWrap]
           b == MaxMessageSize + ItemWrap
           c == Cardinality(S)
           sum == SumOver(g, S)
           full == MaxMessageSize * FetchLimitMax
           wraps == ItemWrap * FetchLimitMax
           m == Max({full + MessageOverhead, SmallFrame})
<1> USE GateConstants
<1>1. ReplySize(S) = ReplyWrap + sum
  BY ReplyIsASum
<1>2. \A e \in S : g[e] \in Nat /\ g[e] <= b
  BY DEF Envelope
<1>3. c \in Nat /\ b \in Nat /\ c <= FetchLimitMax
  BY FS_CardinalityType
<1> HIDE DEF g
<1>4. sum \in Nat
  BY <1>2, SumType
<1>5. sum <= b * c
  <2> HIDE DEF b
  <2> QED BY <1>2, <1>3, SumBound
<1>6. b * c <= b * FetchLimitMax /\ b * c \in Nat /\ b * FetchLimitMax \in Nat
  <2> HIDE DEF b, c
  <2>1. FetchLimitMax - c \in Nat
    BY <1>3
  <2>2. b * (FetchLimitMax - c) \in Nat
    BY <1>3, <2>1
  <2>3. b * FetchLimitMax = b * c + b * (FetchLimitMax - c) /\ b * c \in Nat
    BY <1>3, <2>1
  <2> QED BY <2>2, <2>3
<1>7. b * FetchLimitMax = full + wraps /\ full \in Nat /\ wraps \in Nat
  OBVIOUS
<1>8. wraps + ReplyWrap <= MessageOverhead + RPCOverhead
  BY DEF FramesAreSound
<1>9. m >= full + MessageOverhead /\ m \in Int
  <2> DEFINE x == full + MessageOverhead
  <2>1. x \in Int /\ SmallFrame \in Int
    BY <1>7
  <2>2. Max({x, SmallFrame}) >= x /\ Max({x, SmallFrame}) \in Int
    <3> HIDE DEF x
    <3> QED BY <2>1, MaxOfTwo
  <2> QED BY <2>2
<1>10. m + RPCOverhead < Word /\ RPCResponse = (m + RPCOverhead) % Word
  BY DEF FramesAreSound, RPCResponse, FetchResponse
<1> HIDE DEF sum, b, c, full, wraps, m
<1>11. ReplyWrap + sum <= m + RPCOverhead /\ 0 < ReplyWrap + sum /\ ReplyWrap + sum \in Nat
  BY <1>3, <1>4, <1>5, <1>6, <1>7, <1>8, <1>9
<1>12. RPCResponse = m + RPCOverhead /\ (ReplyWrap + sum) % Word = ReplyWrap + sum
  BY <1>9, <1>10, <1>11
<1> QED BY <1>1, <1>11, <1>12 DEF FrameFits

-----------------------------------------------------------------------------
(* The invariant in three parts: every handler by itself, the store and    *)
(* the limiters.                                                           *)

Places == {"idle", "limit", "verify", "store", "fetch", "ack", "reply", "reset"}

\* A handler at place p with the request q, the answer c and the page S.
LocalOK(p, q, c, S) ==
    /\ p \in Places /\ q \in Requests \cup {NoRequest} /\ c \in Codes /\ S \in SUBSET Envelope
    /\ p # "idle" => q # NoRequest
    /\ p \in {"limit", "verify", "store"} => Checked(q) /\ q.method = "offline.store"
    /\ p = "store" => q.signed /\ ~TooLarge(q)
    /\ p = "fetch" => Checked(q) /\ q.method = "offline.fetch"
    /\ p \notin {"reply", "reset"} => S = {}
    /\ IsFiniteSet(S) /\ Cardinality(S) <= FetchLimitMax
    /\ \A e \in S : e.size <= MaxMessageSize /\ e.to \in Under(q.remote)
    /\ FramesAreSound => (p = "reset" => ~WithinLimits(q))

HandlersOK ==
    /\ pc \in [Handlers -> Places]
    /\ req \in [Handlers -> Requests \cup {NoRequest}]
    /\ code \in [Handlers -> Codes]
    /\ page \in [Handlers -> SUBSET Envelope]
    /\ \A h \in Handlers : LocalOK(pc[h], req[h], code[h], page[h])

BoxOK == box \subseteq Envelope /\ IsFiniteSet(box) /\ StoredIsVouchedFor

LimitersOK ==
    /\ window \in [Limiters -> [Peers -> Window]]
    /\ minute \in Nat
    /\ passed \in [Limiters -> [Peers -> Nat]]
    /\ WindowsAgree

\* These are all of it.
LEMMA InvParts == GateInv <=> HandlersOK /\ BoxOK /\ LimitersOK
<1>1. ASSUME GateInv PROVE HandlersOK /\ BoxOK /\ LimitersOK
  <2>1. ASSUME NEW h \in Handlers PROVE LocalOK(pc[h], req[h], code[h], page[h])
    <3>1. /\ pc[h] \in Places /\ req[h] \in Requests \cup {NoRequest} /\ code[h] \in Codes
          /\ page[h] \in SUBSET Envelope /\ (pc[h] # "idle" => req[h] # NoRequest)
      BY <1>1 DEF GateInv, GateTypeOK, Places
    <3>2. /\ pc[h] \in {"limit", "verify", "store"} => Checked(req[h]) /\ req[h].method = "offline.store"
          /\ pc[h] = "store" => req[h].signed /\ ~TooLarge(req[h])
          /\ pc[h] = "fetch" => Checked(req[h]) /\ req[h].method = "offline.fetch"
      BY <1>1 DEF GateInv, ProgressOK
    <3>3. /\ pc[h] \notin {"reply", "reset"} => page[h] = {}
          /\ IsFiniteSet(page[h]) /\ Cardinality(page[h]) <= FetchLimitMax
          /\ \A e \in page[h] : e.size <= MaxMessageSize /\ e.to \in Under(req[h].remote)
      BY <1>1 DEF GateInv, PagesOK, PagesStayUnderRecipient
    <3>4. FramesAreSound => (pc[h] = "reset" => ~WithinLimits(req[h]))
      BY <1>1 DEF GateInv, FramesSuffice
    <3> QED BY <3>1, <3>2, <3>3, <3>4 DEF LocalOK
  <2>2. HandlersOK
    BY <1>1, <2>1 DEF GateInv, GateTypeOK, HandlersOK, Places
  <2> QED BY <1>1, <2>2 DEF GateInv, GateTypeOK, BoxOK, LimitersOK
<1>2. ASSUME HandlersOK, BoxOK, LimitersOK PROVE GateInv
  <2>1. GateTypeOK
    BY <1>2 DEF HandlersOK, BoxOK, LimitersOK, GateTypeOK, Places, LocalOK
  <2>2. ProgressOK
    BY <1>2 DEF HandlersOK, LocalOK, ProgressOK
  <2>3. PagesOK /\ PagesStayUnderRecipient
    BY <1>2 DEF HandlersOK, LocalOK, PagesOK, PagesStayUnderRecipient
  <2>4. FramesSuffice
    BY <1>2 DEF HandlersOK, LocalOK, FramesSuffice
  <2> QED BY <1>2, <2>1, <2>2, <2>3, <2>4 DEF GateInv, BoxOK, LimitersOK
<1> QED BY <1>1, <1>2

\* A step of one handler.
LEMMA HandlerMoves ==
  ASSUME HandlersOK, NEW h \in Handlers, NEW p, NEW q, NEW c, NEW S, LocalOK(p, q, c, S),
         pc' = [pc EXCEPT ![h] = p], req' = [req EXCEPT ![h] = q],
         code' = [code EXCEPT ![h] = c], page' = [page EXCEPT ![h] = S]
  PROVE  HandlersOK'
<1>1. /\ pc' \in [Handlers -> Places] /\ req' \in [Handlers -> Requests \cup {NoRequest}]
      /\ code' \in [Handlers -> Codes] /\ page' \in [Handlers -> SUBSET Envelope]
  BY DEF HandlersOK, LocalOK
<1>2. ASSUME NEW g \in Handlers PROVE LocalOK(pc'[g], req'[g], code'[g], page'[g])
  <2>1. CASE g = h
    <3>1. pc'[g] = p /\ req'[g] = q /\ code'[g] = c /\ page'[g] = S
      BY <2>1 DEF HandlersOK
    <3> QED BY <3>1
  <2>2. CASE g # h
    <3>1. pc'[g] = pc[g] /\ req'[g] = req[g] /\ code'[g] = code[g] /\ page'[g] = page[g]
      BY <2>2 DEF HandlersOK
    <3> QED BY <3>1 DEF HandlersOK
  <2> QED BY <2>1, <2>2
<1>3. ASSUME NEW g \in Handlers PROVE LocalOK(pc[g], req[g], code[g], page[g])'
  BY <1>2 DEF LocalOK, Checked, RefusedAtOnce, RefusedByServer, RefusedStore, RefusedFetch, RefusedAck,
              EffectiveTTL, TooLarge, WithinLimits, FramesAreSound
<1> QED BY <1>1, <1>3 DEF HandlersOK

\* An answer without messages is always in order, ...
LEMMA EmptyAnswer ==
  ASSUME NEW q \in Requests, NEW c \in Codes
  PROVE  LocalOK("reply", q, c, {})
<1>1. Cardinality({}) = 0 /\ IsFiniteSet({})
  BY FS_EmptySet
<1>2. 0 <= FetchLimitMax
  BY GateConstants
<1> QED BY <1>1, <1>2, RequestFacts DEF LocalOK, Places

\* ... and so is a handler without a request.
LEMMA IdleHandler == LocalOK("idle", NoRequest, "OK", {})
<1>1. Cardinality({}) = 0 /\ IsFiniteSet({})
  BY FS_EmptySet
<1>2. 0 <= FetchLimitMax
  BY GateConstants
<1> QED BY <1>1, <1>2 DEF LocalOK, Places, Codes

\* The request and the locals of a handler at work.
LEMMA AtWork ==
  ASSUME HandlersOK, NEW h \in Handlers, pc[h] # "idle"
  PROVE  /\ req[h] \in Requests
         /\ req' = req => req' = [req EXCEPT ![h] = req[h]]
         /\ LocalOK(pc[h], req[h], code[h], page[h])
         /\ code' = code => code' = [code EXCEPT ![h] = code[h]]
         /\ page' = page => page' = [page EXCEPT ![h] = page[h]]
  BY DEF HandlersOK, LocalOK

-----------------------------------------------------------------------------
(* What a step leaves alone.                                               *)

\* The handlers, when no step is theirs.
LEMMA HandlersSame ==
  ASSUME HandlersOK, UNCHANGED handlerVars
  PROVE  HandlersOK'
<1>1. pc' = pc /\ req' = req /\ code' = code /\ page' = page
  BY DEF handlerVars
<1>2. ASSUME NEW g \in Handlers PROVE LocalOK(pc'[g], req'[g], code'[g], page'[g])
  BY <1>1 DEF HandlersOK
<1>3. ASSUME NEW g \in Handlers PROVE LocalOK(pc[g], req[g], code[g], page[g])'
  BY <1>2 DEF LocalOK, Checked, RefusedAtOnce, RefusedByServer, RefusedStore, RefusedFetch, RefusedAck,
              EffectiveTTL, TooLarge, WithinLimits, FramesAreSound
<1> QED BY <1>1, <1>3 DEF HandlersOK

\* The limiters, when neither is asked and no minute begins.
LEMMA LimitersSame ==
  ASSUME LimitersOK, UNCHANGED <<window, minute, passed>>
  PROVE  LimitersOK'
  BY DEF LimitersOK, WindowsAgree, Current

\* Removing messages, or none, keeps what is said of each.
LEMMA BoxShrinks ==
  ASSUME BoxOK, box' \subseteq box
  PROVE  BoxOK'
<1>1. IsFiniteSet(box')
  BY FS_Subset DEF BoxOK
<1>2. StoredIsVouchedFor'
  BY DEF BoxOK, StoredIsVouchedFor, Stored, EffectiveTTL
<1> QED BY <1>1, <1>2 DEF BoxOK

\* A step of the limiter l for the peer p.
LEMMA LimiterMoves ==
  ASSUME GateInv, NEW l \in Limiters, NEW p \in Peers, Pass(l, p) \/ Refuse(l, p), UNCHANGED minute
  PROVE  LimitersOK'
<1>1. GateTypeOK /\ WindowsAgree /\ LimitersOK
  BY InvParts DEF GateInv
<1>2. /\ window' \in [Limiters -> [Peers -> Window]] /\ passed' \in [Limiters -> [Peers -> Nat]]
      /\ WindowsAgree'
  BY <1>1, AllowStep
<1> QED BY <1>1, <1>2 DEF LimitersOK

\* An answer of a handler at work.
LEMMA AnswerStep ==
  ASSUME HandlersOK, NEW h \in Handlers, pc[h] # "idle", NEW c \in Codes, Answer(h, c, {}), UNCHANGED req
  PROVE  HandlersOK'
<1>1. req[h] \in Requests /\ req' = [req EXCEPT ![h] = req[h]]
  BY AtWork
<1>2. LocalOK("reply", req[h], c, {})
  BY <1>1, EmptyAnswer
<1>3. pc' = [pc EXCEPT ![h] = "reply"] /\ code' = [code EXCEPT ![h] = c] /\ page' = [page EXCEPT ![h] = {}]
  BY DEF Answer, Goto
<1> QED BY <1>1, <1>2, <1>3, HandlerMoves

\* A step of a handler at work to the place p, without an answer.
LEMMA GotoStep ==
  ASSUME HandlersOK, NEW h \in Handlers, pc[h] # "idle", NEW p, Goto(h, p), UNCHANGED <<req, code, page>>,
         LocalOK(p, req[h], code[h], page[h])
  PROVE  HandlersOK'
<1>1. /\ req' = [req EXCEPT ![h] = req[h]] /\ code' = [code EXCEPT ![h] = code[h]]
      /\ page' = [page EXCEPT ![h] = page[h]] /\ pc' = [pc EXCEPT ![h] = p]
  BY AtWork DEF Goto
<1>2. PICK q, c, S : q = req[h] /\ c = code[h] /\ S = page[h]
  OBVIOUS
<1>3. /\ req' = [req EXCEPT ![h] = q] /\ code' = [code EXCEPT ![h] = c] /\ page' = [page EXCEPT ![h] = S]
      /\ pc' = [pc EXCEPT ![h] = p] /\ LocalOK(p, q, c, S)
  BY <1>1, <1>2
<1> QED BY <1>3, HandlerMoves

-----------------------------------------------------------------------------
(* The checks that a request has behind it.                                *)

\* A request that is not refused has been parsed.
LEMMA CheckedByServer ==
  ASSUME NEW q, Checked(q)
  PROVE  q.parses /\ q.requestId /\ q.method # "unknown"
<1>1. ~RefusedByServer(q, "RPC_INVALID_REQUEST") /\ ~RefusedByServer(q, "RPC_MISSING_REQUEST_ID")
      /\ ~RefusedByServer(q, "RPC_UNKNOWN_METHOD")
  BY DEF Checked, RefusedAtOnce, Codes
<1> QED BY <1>1 DEF RefusedByServer

\* A store request that is not refused has a ttl within the limit, ...
LEMMA CheckedStore ==
  ASSUME NEW q \in Requests, Checked(q), q.method = "offline.store"
  PROVE  q.valid /\ 0 < EffectiveTTL(q) /\ EffectiveTTL(q) <= MaxTTL
<1>1. ~RefusedStore(q, "INVALID_PAYLOAD") /\ ~RefusedStore(q, "TTL_TOO_LARGE")
  BY CheckedByServer DEF Checked, RefusedAtOnce, Codes
<1>2. q.valid /\ ~(EffectiveTTL(q) <= 0) /\ ~(EffectiveTTL(q) > MaxTTL)
  BY <1>1 DEF RefusedStore
<1> QED BY <1>2, TTLType, GateConstants

\* ... and a fetch request comes from the recipient itself and asks for no more than
\* the limit.
LEMMA CheckedFetch ==
  ASSUME NEW q \in Requests, Checked(q), q.method = "offline.fetch"
  PROVE  q.limit <= FetchLimitMax /\ q.remote = q.to
<1>1. ~RefusedFetch(q, "INVALID_PAYLOAD") /\ ~RefusedFetch(q, "UNAUTHORIZED")
  BY CheckedByServer DEF Checked, RefusedAtOnce, Codes
<1>2. ~(q.limit > FetchLimitMax) /\ q.remote = q.to
  BY <1>1 DEF RefusedFetch
<1> QED BY <1>2, RequestFacts, GateConstants

-----------------------------------------------------------------------------
(* One lemma per action.                                                   *)

\* A request arrives: a frame within the limits is never refused for its length, and
\* a request goes on only when all checks that need nothing else are behind it.
LEMMA HandleRPCInv ==
  ASSUME GateInv, NEW h \in Handlers, NEW q \in Requests, HandleRPC(h, q)
  PROVE  GateInv'
<1>1. HandlersOK /\ BoxOK /\ LimitersOK
  BY InvParts
<1>2. BoxOK' /\ LimitersOK'
  BY <1>1, BoxShrinks, LimitersSame DEF HandleRPC
<1>3. LocalOK("idle", req[h], code[h], page[h]) /\ code[h] \in Codes /\ page[h] = {}
  BY <1>1 DEF HandlersOK, HandleRPC, LocalOK
<1>4. req' = [req EXCEPT ![h] = q]
  BY DEF HandleRPC
<1>5. ASSUME UNCHANGED <<code, page>>
      PROVE  code' = [code EXCEPT ![h] = code[h]] /\ page' = [page EXCEPT ![h] = {}]
  BY <1>1, <1>3, <1>5 DEF HandlersOK
<1>6. ASSUME NEW p, LocalOK(p, q, code[h], {}), Goto(h, p), UNCHANGED <<code, page>>
      PROVE  HandlersOK'
  <2>1. PICK c : c = code[h]
    OBVIOUS
  <2>2. /\ pc' = [pc EXCEPT ![h] = p] /\ code' = [code EXCEPT ![h] = c] /\ page' = [page EXCEPT ![h] = {}]
        /\ LocalOK(p, q, c, {})
    BY <1>5, <1>6, <2>1 DEF Goto
  <2> QED BY <1>1, <1>4, <2>2, HandlerMoves
<1>7. LocalOK("reply", q, code[h], {})
  BY <1>3, EmptyAnswer
<1>8. ASSUME ~FrameFits(q.frame, RPCRequest), Goto(h, "reset"), UNCHANGED <<code, page>>
      PROVE  HandlersOK'
  <2>1. FramesAreSound => ~WithinLimits(q)
    BY <1>8, RequestFits
  <2>2. LocalOK("reset", q, code[h], {})
    BY <1>7, <2>1 DEF LocalOK, Places
  <2> QED BY <1>6, <1>8, <2>2
<1>9. ASSUME NEW c \in Codes, Answer(h, c, {}) PROVE HandlersOK'
  <2>1. pc' = [pc EXCEPT ![h] = "reply"] /\ code' = [code EXCEPT ![h] = c] /\ page' = [page EXCEPT ![h] = {}]
    BY <1>9 DEF Answer, Goto
  <2> QED BY <1>1, <1>4, <2>1, EmptyAnswer, HandlerMoves
<1>10. ASSUME Checked(q), Goto(h, FirstStep(q)), UNCHANGED <<code, page>>
       PROVE  HandlersOK'
  <2>1. q.method # "unknown" /\ q.method \in Methods \cup {"unknown"}
    BY <1>10, CheckedByServer, GateConstantsOK DEF Request
  <2>2. FirstStep(q) \in {"limit", "fetch", "ack"}
        /\ (FirstStep(q) = "limit" => q.method = "offline.store")
        /\ (FirstStep(q) = "fetch" => q.method = "offline.fetch")
    BY DEF FirstStep
  <2>3. LocalOK(FirstStep(q), q, code[h], {})
    BY <1>7, <1>10, <2>2 DEF LocalOK, Places
  <2> QED BY <1>6, <1>10, <2>3
<1>11. HandlersOK'
  BY <1>6, <1>8, <1>9, <1>10 DEF HandleRPC, Checked
<1> QED BY <1>2, <1>11, InvParts, PTL

\* The remote peer is charged.
LEMMA AllowRemoteInv ==
  ASSUME GateInv, NEW h \in Handlers, AllowRemote(h)
  PROVE  GateInv'
<1>1. HandlersOK /\ BoxOK /\ LimitersOK /\ pc[h] = "limit"
  BY InvParts DEF AllowRemote
<1>2. req[h] \in Requests /\ LocalOK("limit", req[h], code[h], page[h]) /\ req[h].remote \in Peers
  BY <1>1, AtWork, RequestFacts
<1>3. BoxOK'
  BY <1>1, BoxShrinks DEF AllowRemote
<1>4. LimitersOK'
  BY <1>2, LimiterMoves DEF AllowRemote, Limiters
<1>5. LocalOK("verify", req[h], code[h], page[h])
  BY <1>2 DEF LocalOK, Places
<1>6. HandlersOK'
  <2>1. CASE Goto(h, "verify") /\ UNCHANGED <<code, page>>
    <3>1. UNCHANGED <<req, code, page>> /\ pc[h] # "idle"
      BY <1>1, <2>1 DEF AllowRemote
    <3> QED BY <1>1, <1>5, <2>1, <3>1, GotoStep
  <2>2. CASE Answer(h, "RATE_LIMITED", {})
    <3>1. UNCHANGED req /\ pc[h] # "idle" /\ "RATE_LIMITED" \in Codes
      BY <1>1 DEF AllowRemote, Codes
    <3> QED BY <1>1, <2>2, <3>1, AnswerStep
  <2> QED BY <2>1, <2>2 DEF AllowRemote
<1> QED BY <1>3, <1>4, <1>6, InvParts, PTL

\* The sender is charged, once its signature has been verified.
LEMMA AllowSenderInv ==
  ASSUME GateInv, NEW h \in Handlers, AllowSender(h)
  PROVE  GateInv'
<1>1. HandlersOK /\ BoxOK /\ LimitersOK /\ pc[h] = "verify" /\ UNCHANGED <<req, box, minute>>
  BY InvParts DEF AllowSender
<1>2. req[h] \in Requests /\ LocalOK("verify", req[h], code[h], page[h]) /\ req[h].who \in Peers
  BY <1>1, AtWork, RequestFacts
<1>3. BoxOK'
  BY <1>1, BoxShrinks
<1>4. LimitersOK'
  <2>1. CASE UNCHANGED <<window, passed>>
    BY <1>1, <2>1, LimitersSame
  <2>2. CASE Pass("sender", req[h].who) \/ Refuse("sender", req[h].who)
    BY <1>1, <1>2, <2>2, LimiterMoves DEF Limiters
  <2> QED BY <2>1, <2>2 DEF AllowSender
<1>5. HandlersOK'
  <2>1. CASE Goto(h, "store") /\ UNCHANGED <<code, page>> /\ req[h].signed /\ ~TooLarge(req[h])
    <3>1. UNCHANGED <<req, code, page>> /\ pc[h] # "idle"
      BY <1>1, <2>1
    <3>2. LocalOK("store", req[h], code[h], page[h])
      BY <1>2, <2>1 DEF LocalOK, Places
    <3> QED BY <1>1, <2>1, <3>1, <3>2, GotoStep
  <2>2. ASSUME NEW c \in {"INVALID_SIGNATURE", "RATE_LIMITED", "MESSAGE_TOO_LARGE"}, Answer(h, c, {})
        PROVE  HandlersOK'
    <3>1. pc[h] # "idle" /\ c \in Codes
      BY <1>1, <2>2 DEF Codes
    <3> QED BY <1>1, <2>2, <3>1, AnswerStep
  <2> QED BY <2>1, <2>2 DEF AllowSender
<1> QED BY <1>3, <1>4, <1>5, InvParts, PTL

\* The message that a request which came this far would store.
LEMMA StoredFacts ==
  ASSUME HandlersOK, NEW h \in Handlers, pc[h] = "store"
  PROVE  LET q == req[h]
             e == Stored(q)
         IN /\ q \in Requests /\ q.valid /\ q.signed
            /\ e \in Envelope /\ 0 < e.ttl /\ e.ttl <= MaxTTL /\ e.size <= MaxMessageSize
<1> DEFINE q == req[h]
           t == EffectiveTTL(q)
<1>1. q \in Requests /\ LocalOK("store", q, code[h], page[h])
  BY AtWork
<1>2. Checked(q) /\ q.method = "offline.store" /\ q.signed /\ ~TooLarge(q)
  BY <1>1 DEF LocalOK
<1>3. q.valid /\ 0 < t /\ t <= MaxTTL /\ t \in Int
  BY <1>1, <1>2, CheckedStore, TTLType
<1>4. q.id \in Nat /\ q.who \in Peers /\ q.to \in Recipients /\ q.size \in Nat /\ MaxMessageSize \in Nat
  BY <1>1, RequestFacts, GateConstants
<1>5. q.size <= MaxMessageSize
  BY <1>2, <1>4 DEF TooLarge
<1>6. t \in Nat
  BY <1>3
<1> HIDE DEF t
<1>7. Stored(q) = [id |-> q.id, from |-> q.who, to |-> q.to, ttl |-> t, size |-> q.size]
  BY DEF Stored, t
<1>8. Stored(q) \in Envelope /\ Stored(q).ttl = t /\ Stored(q).size = q.size
  BY <1>4, <1>6, <1>7 DEF Envelope
<1> QED BY <1>1, <1>2, <1>3, <1>5, <1>8

\* A message is stored, or not.
LEMMA StoreMessageInv ==
  ASSUME GateInv, NEW h \in Handlers, StoreMessage(h)
  PROVE  GateInv'
<1> DEFINE e == Stored(req[h])
<1>1. /\ HandlersOK /\ BoxOK /\ LimitersOK /\ pc[h] = "store"
      /\ UNCHANGED <<req, window, minute, passed>>
  BY InvParts DEF StoreMessage
<1>2. LimitersOK'
  BY <1>1, LimitersSame
<1>3. HandlersOK'
  <2>1. PICK c \in {"OK", "RECIPIENT_QUOTA_EXCEEDED", "INTERNAL_ERROR"} : Answer(h, c, {})
    BY DEF StoreMessage
  <2>2. c \in Codes /\ pc[h] # "idle"
    BY <1>1 DEF Codes
  <2> QED BY <1>1, <2>1, <2>2, AnswerStep
<1>4. BoxOK'
  <2>1. CASE UNCHANGED box
    BY <1>1, <2>1, BoxShrinks
  <2>2. CASE box' = box \cup {e}
    <3>1. /\ req[h] \in Requests /\ req[h].valid /\ req[h].signed
          /\ e \in Envelope /\ 0 < e.ttl /\ e.ttl <= MaxTTL /\ e.size <= MaxMessageSize
      BY <1>1, StoredFacts
    <3>2. IsFiniteSet(box')
      BY <1>1, <2>2, FS_AddElement DEF BoxOK
    <3>3. ASSUME NEW x \in box'
          PROVE  /\ 0 < x.ttl /\ x.ttl <= MaxTTL /\ x.size <= MaxMessageSize
                 /\ \E q \in Requests : q.valid /\ q.signed /\ Stored(q) = x
      <4>1. CASE x \in box
        BY <1>1, <4>1 DEF BoxOK, StoredIsVouchedFor
      <4>2. CASE x = e
        BY <3>1, <4>2
      <4> QED BY <2>2, <4>1, <4>2
    <3>4. StoredIsVouchedFor'
      BY <3>3 DEF StoredIsVouchedFor, Stored, EffectiveTTL
    <3> QED BY <1>1, <2>2, <3>1, <3>2, <3>4 DEF BoxOK
  <2> QED BY <2>1, <2>2 DEF StoreMessage
<1> QED BY <1>2, <1>3, <1>4, InvParts, PTL

\* A page of what is stored goes to the peer that asked for its own messages.
LEMMA FetchMessagesInv ==
  ASSUME GateInv, NEW h \in Handlers, FetchMessages(h)
  PROVE  GateInv'
<1>1. /\ HandlersOK /\ BoxOK /\ LimitersOK /\ pc[h] = "fetch"
      /\ UNCHANGED <<req, window, box, minute, passed>>
  BY InvParts DEF FetchMessages
<1>2. LimitersOK' /\ BoxOK'
  BY <1>1, LimitersSame, BoxShrinks
<1>3. /\ req[h] \in Requests /\ LocalOK("fetch", req[h], code[h], page[h])
      /\ req' = [req EXCEPT ![h] = req[h]]
  BY <1>1, AtWork
<1>4. req[h].limit <= FetchLimitMax /\ req[h].remote = req[h].to /\ req[h].limit \in Int
  BY <1>3, CheckedFetch, RequestFacts DEF LocalOK
<1>5. ASSUME NEW items \in SUBSET BoxOf(req[h].to), Cardinality(items) <= req[h].limit, Answer(h, "OK", items)
      PROVE  HandlersOK'
  <2>1. items \subseteq box /\ \A e \in items : e.to \in Under(req[h].to)
    BY DEF BoxOf
  <2>2. IsFiniteSet(items) /\ Cardinality(items) \in Nat
    BY <1>1, <2>1, FS_Subset, FS_CardinalityType DEF BoxOK
  <2>3. Cardinality(items) <= FetchLimitMax
    BY <1>4, <1>5, <2>2, GateConstants
  <2>4. \A e \in items : e.size <= MaxMessageSize /\ e.to \in Under(req[h].remote)
    BY <1>1, <1>4, <2>1 DEF BoxOK, StoredIsVouchedFor
  <2>5. items \in SUBSET Envelope /\ "OK" \in Codes /\ req[h] # NoRequest
    BY <1>1, <1>3, <2>1, RequestFacts DEF BoxOK, Codes
  <2>6. PICK q : q = req[h]
    OBVIOUS
  <2>7. LocalOK("reply", q, "OK", items)
    BY <1>3, <2>2, <2>3, <2>4, <2>5, <2>6 DEF LocalOK, Places
  <2>8. /\ pc' = [pc EXCEPT ![h] = "reply"] /\ code' = [code EXCEPT ![h] = "OK"]
        /\ page' = [page EXCEPT ![h] = items] /\ req' = [req EXCEPT ![h] = q]
    BY <1>3, <1>5, <2>6 DEF Answer, Goto
  <2> QED BY <1>1, <2>7, <2>8, HandlerMoves
<1>6. ASSUME Answer(h, "INTERNAL_ERROR", {}) PROVE HandlersOK'
  <2>1. pc[h] # "idle" /\ "INTERNAL_ERROR" \in Codes
    BY <1>1 DEF Codes
  <2> QED BY <1>1, <1>6, <2>1, AnswerStep
<1>7. HandlersOK'
  BY <1>5, <1>6 DEF FetchMessages
<1> QED BY <1>2, <1>7, InvParts, PTL

\* An acknowledgement deletes messages, or none.
LEMMA AckMessagesInv ==
  ASSUME GateInv, NEW h \in Handlers, AckMessages(h)
  PROVE  GateInv'
<1>1. /\ HandlersOK /\ BoxOK /\ LimitersOK /\ pc[h] = "ack"
      /\ UNCHANGED <<req, window, minute, passed>>
  BY InvParts DEF AckMessages
<1>2. box' \subseteq box
  BY DEF AckMessages
<1>3. LimitersOK' /\ BoxOK'
  BY <1>1, <1>2, LimitersSame, BoxShrinks
<1>4. HandlersOK'
  <2>1. PICK c \in {"OK", "INTERNAL_ERROR", "INVALID_PAYLOAD"} : Answer(h, c, {})
    BY DEF AckMessages
  <2>2. c \in Codes /\ pc[h] # "idle"
    BY <1>1 DEF Codes
  <2> QED BY <1>1, <2>1, <2>2, AnswerStep
<1> QED BY <1>3, <1>4, InvParts, PTL

\* A goroutine returns.
LEMMA ReturnInv ==
  ASSUME GateInv, NEW h \in Handlers, Return(h)
  PROVE  GateInv'
<1>1. HandlersOK /\ BoxOK /\ LimitersOK /\ UNCHANGED <<window, box, minute, passed>>
  BY InvParts DEF Return
<1>2. LimitersOK' /\ BoxOK'
  BY <1>1, LimitersSame, BoxShrinks
<1>3. /\ pc' = [pc EXCEPT ![h] = "idle"] /\ req' = [req EXCEPT ![h] = NoRequest]
      /\ code' = [code EXCEPT ![h] = "OK"] /\ page' = [page EXCEPT ![h] = {}]
  BY DEF Return, Goto
<1>4. HandlersOK'
  BY <1>1, <1>3, IdleHandler, HandlerMoves
<1> QED BY <1>2, <1>4, InvParts, PTL

\* With sound frame limits no answer is too long to be written.
LEMMA WriteRPCInv ==
  ASSUME GateInv, NEW h \in Handlers, WriteRPC(h)
  PROVE  GateInv'
<1>1. CASE Return(h)
  BY <1>1, ReturnInv
<1>2. CASE /\ ~FrameFits(ReplySize(page[h]), RPCResponse)
           /\ Goto(h, "reset") /\ UNCHANGED <<req, code, page, window, box, minute, passed>>
  <2>1. HandlersOK /\ BoxOK /\ LimitersOK /\ pc[h] = "reply"
    BY InvParts DEF WriteRPC
  <2>2. LimitersOK' /\ BoxOK'
    BY <1>2, <2>1, LimitersSame, BoxShrinks
  <2>3. LocalOK("reply", req[h], code[h], page[h])
    BY <2>1, AtWork
  <2>4. ~FramesAreSound
    BY <1>2, <2>3, ReplyFits DEF LocalOK
  <2>5. LocalOK("reset", req[h], code[h], page[h])
    BY <2>3, <2>4 DEF LocalOK, Places
  <2>6. HandlersOK'
    BY <1>2, <2>1, <2>5, GotoStep
  <2> QED BY <2>2, <2>6, InvParts, PTL
<1> QED BY <1>1, <1>2 DEF WriteRPC

\* A message expires.
LEMMA ExpireInv ==
  ASSUME GateInv, NEW e, Expire(e)
  PROVE  GateInv'
<1>1. HandlersOK /\ BoxOK /\ LimitersOK
  BY InvParts
<1>2. HandlersOK' /\ LimitersOK' /\ BoxOK'
  BY <1>1, HandlersSame, LimitersSame, BoxShrinks DEF Expire
<1> QED BY <1>2, InvParts, PTL

\* A minute begins: no window is of this minute yet, and nothing has passed in it.
LEMMA NextMinuteInv ==
  ASSUME GateInv, NextMinute
  PROVE  GateInv'
<1>1. HandlersOK /\ BoxOK /\ LimitersOK
  BY InvParts
<1>2. HandlersOK' /\ BoxOK'
  BY <1>1, HandlersSame, BoxShrinks DEF NextMinute
<1>3. /\ window' = window /\ minute' = minute + 1 /\ minute \in Nat
      /\ passed' = [l \in Limiters |-> [p \in Peers |-> 0]]
  BY <1>1 DEF NextMinute, LimitersOK
<1>4. ASSUME Limit > 0, NEW l \in Limiters, NEW p \in Peers
      PROVE  window[l][p].start <= minute /\ window[l][p].start \in Nat
  BY <1>1, <1>4 DEF LimitersOK, WindowsAgree, Window
<1>5. ASSUME Limit > 0, NEW l \in Limiters, NEW p \in Peers
      PROVE  /\ window'[l][p].start <= minute' /\ window'[l][p].start # minute'
             /\ passed'[l][p] = 0 /\ 0 <= Limit
  BY <1>3, <1>4, <1>5, GateConstants
<1>6. WindowsAgree'
  BY <1>5 DEF WindowsAgree, Current
<1>7. LimitersOK'
  BY <1>1, <1>3, <1>6 DEF LimitersOK
<1> QED BY <1>2, <1>7, InvParts, PTL

\* The values the process begins with.
Fresh ==
    /\ pc = [h \in Handlers |-> "idle"]
    /\ req = [h \in Handlers |-> NoRequest]
    /\ code = [h \in Handlers |-> "OK"]
    /\ page = [h \in Handlers |-> {}]
    /\ window = [l \in Limiters |-> [p \in Peers |-> [start |-> 0, count |-> 0]]]
    /\ passed = [l \in Limiters |-> [p \in Peers |-> 0]]

\* They satisfy the invariant, whatever the clock shows.
LEMMA FreshInv == Fresh /\ minute \in Nat => HandlersOK /\ LimitersOK
<1> SUFFICES ASSUME Fresh, minute \in Nat
             PROVE  HandlersOK /\ LimitersOK
  OBVIOUS
<1>1. HandlersOK
  <2>1. /\ pc \in [Handlers -> Places] /\ req \in [Handlers -> Requests \cup {NoRequest}]
        /\ code \in [Handlers -> Codes] /\ page \in [Handlers -> SUBSET Envelope]
    BY DEF Fresh, Places, Codes
  <2>2. ASSUME NEW h \in Handlers PROVE LocalOK(pc[h], req[h], code[h], page[h])
    <3>1. pc[h] = "idle" /\ req[h] = NoRequest /\ code[h] = "OK" /\ page[h] = {}
      BY DEF Fresh
    <3> QED BY <3>1, IdleHandler
  <2> QED BY <2>1, <2>2 DEF HandlersOK
<1>2. [start |-> 0, count |-> 0] \in Window
  BY DEF Window
<1>3. window \in [Limiters -> [Peers -> Window]] /\ passed \in [Limiters -> [Peers -> Nat]]
  BY <1>2 DEF Fresh
<1>4. ASSUME Limit > 0, NEW l \in Limiters, NEW p \in Peers
      PROVE  window[l][p].start <= minute /\ Current(l, p).count = passed[l][p] /\ passed[l][p] <= Limit
  <2>1. window[l][p] = [start |-> 0, count |-> 0] /\ passed[l][p] = 0
    BY DEF Fresh
  <2> QED BY <1>4, <2>1, GateConstants DEF Current
<1>5. WindowsAgree
  BY <1>4 DEF WindowsAgree
<1> QED BY <1>1, <1>3, <1>5 DEF LimitersOK

\* The process restarts: the messages stay, everything else begins afresh.
LEMMA RestartInv ==
  ASSUME GateInv, Restart
  PROVE  GateInv'
<1>1. BoxOK /\ minute \in Nat
  BY InvParts DEF LimitersOK
<1>2. BoxOK'
  BY <1>1, BoxShrinks DEF Restart
<1>3. (Fresh /\ minute \in Nat)'
  BY <1>1 DEF Restart, Fresh
<1>4. HandlersOK' /\ LimitersOK'
  BY <1>3, FreshInv, PTL
<1> QED BY <1>2, <1>4, InvParts, PTL

-----------------------------------------------------------------------------
(* The theorems.                                                           *)

\* The gate starts with the invariant ...
LEMMA GateInvInit == GateInit => GateInv
<1> SUFFICES ASSUME GateInit PROVE GateInv
  OBVIOUS
<1>1. Fresh /\ minute \in Nat
  BY DEF GateInit, Fresh
<1>2. box = {} /\ IsFiniteSet({})
  BY FS_EmptySet DEF GateInit
<1>3. BoxOK
  BY <1>2 DEF BoxOK, StoredIsVouchedFor
<1> QED BY <1>1, <1>3, FreshInv, InvParts

\* ... and every step keeps it.
LEMMA GateInvStep == GateInv /\ [GateNext]_gateVars => GateInv'
<1> SUFFICES ASSUME GateInv, [GateNext]_gateVars PROVE GateInv'
  OBVIOUS
<1>1. ASSUME NEW h \in Handlers, ServeStep(h) PROVE GateInv'
  <2>1. CASE AllowRemote(h)
    BY <2>1, AllowRemoteInv
  <2>2. CASE AllowSender(h)
    BY <2>2, AllowSenderInv
  <2>3. CASE StoreMessage(h)
    BY <2>3, StoreMessageInv
  <2>4. CASE FetchMessages(h)
    BY <2>4, FetchMessagesInv
  <2>5. CASE AckMessages(h)
    BY <2>5, AckMessagesInv
  <2>6. CASE WriteRPC(h)
    BY <2>6, WriteRPCInv
  <2>7. CASE ResetStream(h)
    BY <2>7, ReturnInv DEF ResetStream
  <2> QED BY <1>1, <2>1, <2>2, <2>3, <2>4, <2>5, <2>6, <2>7 DEF ServeStep
<1>2. ASSUME NEW h \in Handlers, NEW q \in Requests, HandleRPC(h, q) PROVE GateInv'
  BY <1>2, HandleRPCInv
<1>3. ASSUME NEW e \in box, Expire(e) PROVE GateInv'
  BY <1>3, ExpireInv
<1>4. CASE NextMinute
  BY <1>4, NextMinuteInv
<1>5. CASE Restart
  BY <1>5, RestartInv
<1>6. CASE UNCHANGED gateVars
  <2>1. UNCHANGED handlerVars /\ UNCHANGED <<window, minute, passed>> /\ box' \subseteq box
    BY <1>6 DEF gateVars
  <2>2. HandlersOK' /\ BoxOK' /\ LimitersOK'
    BY <2>1, InvParts, HandlersSame, BoxShrinks, LimitersSame
  <2> QED BY <2>2, InvParts, PTL
<1> QED BY <1>1, <1>2, <1>3, <1>4, <1>5, <1>6 DEF GateNext

\* The inductive invariant of the gate.
THEOREM GateInvariance == GateSpec => []GateInv
  BY GateInvInit, GateInvStep, PTL DEF GateSpec

\* What the invariant says of the properties that the runs check.
LEMMA GateInvImplies ==
  GateInv => /\ GateTypeOK /\ BudgetKept /\ StoredIsVouchedFor
             /\ PagesStayUnderRecipient /\ FramesSuffice
  BY DEF GateInv, WindowsAgree, BudgetKept

\* The types of the gate.
THEOREM GateTypeCorrect == GateSpec => []GateTypeOK
  BY GateInvariance, GateInvImplies, PTL

\* No limiter lets more than Limit requests of a peer pass within a minute, for any
\* number of handlers and peers (Limiter.Allow).
THEOREM BudgetCorrect == GateSpec => []BudgetKept
  BY GateInvariance, GateInvImplies, PTL

\* Whatever is stored was signed by its sender and has a ttl and a size within the
\* limits (StoreService.Handle).
THEOREM VouchedForCorrect == GateSpec => []StoredIsVouchedFor
  BY GateInvariance, GateInvImplies, PTL

\* A page holds only what is stored under the key prefix of the peer it goes to: no
\* other peer's messages, though possibly those of an id that goes on after a slash
\* (FetchService.Handle, FetchMessages).
THEOREM PagesCorrect == GateSpec => []PagesStayUnderRecipient
  BY GateInvariance, GateInvImplies, PTL

\* With sound frame limits no request within the limits is reset for a length, of its
\* own or of its answer (frameLimits, ReadFrame, WriteFrame).
THEOREM FramesCorrect == GateSpec => []FramesSuffice
  BY GateInvariance, GateInvImplies, PTL

-----------------------------------------------------------------------------
(* The action properties of the limiters.                                  *)

\* Under the invariant a limiter refuses only a peer whose requests of this minute are
\* exactly Limit.
LEMMA RefuseMeansSpent ==
  ASSUME GateInv, NEW l \in Limiters, NEW p \in Peers, Refuse(l, p)
  PROVE  passed[l][p] = Limit
<1>1. Limit \in Int /\ Limit > 0 /\ ~(Current(l, p).count < Limit)
  BY GateConstants DEF Refuse, HasRoom
<1>2. passed[l][p] \in Nat /\ Current(l, p).count = passed[l][p] /\ passed[l][p] <= Limit
  BY <1>1, CurrentType DEF GateInv, WindowsAgree
<1> QED BY <1>1, <1>2

\* A step of the handler g that gives it the code c leaves the codes of others.
LEMMA OnlyOneAnswers ==
  ASSUME GateInv, NEW g \in Handlers, NEW h \in Handlers, NEW c, code' = [code EXCEPT ![g] = c]
  PROVE  code'[h] = code[h] \/ (h = g /\ code'[h] = c)
  BY DEF GateInv, GateTypeOK

\* The step: only an Allow that returned false answers RATE_LIMITED.
LEMMA RefusedStep ==
  ASSUME GateInv, [GateNext]_gateVars, NEW h \in Handlers,
         code[h] # "RATE_LIMITED", code'[h] = "RATE_LIMITED"
  PROVE  \/ pc[h] = "limit" /\ passed["remote"][req[h].remote] = Limit
         \/ pc[h] = "verify" /\ passed["sender"][req[h].who] = Limit
<1>1. GateTypeOK /\ HandlersOK
  BY InvParts DEF GateInv
<1>2. code' # code
  OBVIOUS
<1>3. ASSUME NEW g \in Handlers, AllowRemote(g)
      PROVE  pc[h] = "limit" /\ passed["remote"][req[h].remote] = Limit
  <2>1. Refuse("remote", req[g].remote) /\ Answer(g, "RATE_LIMITED", {}) /\ pc[g] = "limit"
    BY <1>2, <1>3 DEF AllowRemote
  <2>2. h = g
    BY <2>1, OnlyOneAnswers DEF Answer
  <2>3. req[g].remote \in Peers /\ "remote" \in Limiters
    BY <1>1, <2>1, ServedRequest, RequestFacts DEF Limiters
  <2> QED BY <2>1, <2>2, <2>3, RefuseMeansSpent
<1>4. ASSUME NEW g \in Handlers, AllowSender(g)
      PROVE  pc[h] = "verify" /\ passed["sender"][req[h].who] = Limit
  <2>1. pc[g] = "verify"
    BY <1>4 DEF AllowSender
  <2>2. ASSUME NEW c \in {"INVALID_SIGNATURE", "MESSAGE_TOO_LARGE"}, Answer(g, c, {}) PROVE FALSE
    BY <2>2, OnlyOneAnswers DEF Answer
  <2>3. Refuse("sender", req[g].who) /\ Answer(g, "RATE_LIMITED", {})
    BY <1>2, <1>4, <2>2 DEF AllowSender
  <2>4. h = g
    BY <2>3, OnlyOneAnswers DEF Answer
  <2>5. req[g].who \in Peers /\ "sender" \in Limiters
    BY <1>1, <2>1, ServedRequest, RequestFacts DEF Limiters
  <2> QED BY <2>1, <2>3, <2>4, <2>5, RefuseMeansSpent
<1>5. ASSUME NEW g \in Handlers, NEW c, code' = [code EXCEPT ![g] = c], c # "RATE_LIMITED"
      PROVE  FALSE
  BY <1>5, OnlyOneAnswers
<1>6. ASSUME NEW g \in Handlers, StoreMessage(g) \/ FetchMessages(g) \/ AckMessages(g) PROVE FALSE
  <2>1. PICK c \in {"OK", "RECIPIENT_QUOTA_EXCEEDED", "INTERNAL_ERROR", "INVALID_PAYLOAD"} :
             code' = [code EXCEPT ![g] = c]
    BY <1>6 DEF StoreMessage, FetchMessages, AckMessages, Answer
  <2> QED BY <1>5, <2>1
<1>7. ASSUME NEW g \in Handlers, WriteRPC(g) \/ ResetStream(g) PROVE FALSE
  <2>1. code' = [code EXCEPT ![g] = "OK"]
    BY <1>2, <1>7 DEF WriteRPC, ResetStream, Return
  <2> QED BY <1>5, <2>1
<1>8. ASSUME NEW g \in Handlers, NEW q \in Requests, HandleRPC(g, q) PROVE FALSE
  <2>1. PICK c \in Codes : RefusedAtOnce(q, c) /\ Answer(g, c, {})
    BY <1>2, <1>8 DEF HandleRPC
  <2>2. c # "RATE_LIMITED"
    BY <2>1 DEF RefusedAtOnce, RefusedByServer, RefusedStore, RefusedFetch, RefusedAck
  <2> QED BY <1>5, <2>1, <2>2 DEF Answer
<1>9. ASSUME (\E e \in box : Expire(e)) \/ NextMinute \/ UNCHANGED gateVars PROVE FALSE
  BY <1>2, <1>9 DEF Expire, NextMinute, gateVars, handlerVars
<1>10. ASSUME Restart PROVE FALSE
  BY <1>10 DEF Restart
<1> QED BY <1>3, <1>4, <1>6, <1>7, <1>8, <1>9, <1>10 DEF GateNext, ServeStep

\* A request is refused as RATE_LIMITED only when the peer has spent this minute's
\* limit (Limiter.Allow, StoreService.Handle).
THEOREM RefusalsCorrect == GateSpec => RefusedOnlyWhenSpent
<1>1. GateInv /\ [GateNext]_gateVars =>
        [\A h \in Handlers : code[h] # "RATE_LIMITED" /\ code'[h] = "RATE_LIMITED" =>
            \/ pc[h] = "limit" /\ passed["remote"][req[h].remote] = Limit
            \/ pc[h] = "verify" /\ passed["sender"][req[h].who] = Limit]_gateVars
  BY RefusedStep
<1> QED BY <1>1, GateInvariance, PTL DEF GateSpec, RefusedOnlyWhenSpent

\* The step: only AllowSender charges a sender, for a request it signed.
LEMMA ChargeStep ==
  ASSUME GateInv, [GateNext]_gateVars, NEW p \in Peers, passed'["sender"][p] > passed["sender"][p]
  PROVE  \E h \in Handlers : pc[h] = "verify" /\ req[h].who = p /\ req[h].signed
<1>1. GateTypeOK /\ passed \in [Limiters -> [Peers -> Nat]] /\ "sender" \in Limiters /\ "remote" \in Limiters
  BY DEF GateInv, GateTypeOK, Limiters
<1>2. passed' # passed /\ passed["sender"][p] \in Nat
  BY <1>1
<1>3. ASSUME NEW h \in Handlers, AllowSender(h) PROVE pc[h] = "verify" /\ req[h].who = p /\ req[h].signed
  <2>1. pc[h] = "verify" /\ req[h].signed /\ Pass("sender", req[h].who)
    BY <1>2, <1>3 DEF AllowSender, Refuse
  <2>2. req[h].who \in Peers /\ passed' = [passed EXCEPT !["sender"][req[h].who] = @ + 1]
    BY <1>1, <2>1, ServedRequest, RequestFacts DEF Pass
  <2>3. req[h].who = p
    BY <1>1, <1>2, <2>2
  <2> QED BY <2>1, <2>3
<1>4. ASSUME NEW h \in Handlers, AllowRemote(h) PROVE FALSE
  <2>1. pc[h] = "limit" /\ passed' = [passed EXCEPT !["remote"][req[h].remote] = @ + 1]
    BY <1>2, <1>4 DEF AllowRemote, Pass, Refuse
  <2>2. passed'["sender"] = passed["sender"]
    BY <1>1, <2>1
  <2> QED BY <1>2, <2>2
<1>5. ASSUME NEW h \in Handlers,
             \/ StoreMessage(h) \/ FetchMessages(h) \/ AckMessages(h) \/ WriteRPC(h) \/ ResetStream(h)
             \/ \E q \in Requests : HandleRPC(h, q)
      PROVE  FALSE
  BY <1>2, <1>5 DEF StoreMessage, FetchMessages, AckMessages, WriteRPC, ResetStream, Return, HandleRPC
<1>6. ASSUME NextMinute \/ Restart PROVE FALSE
  <2>1. passed'["sender"][p] = 0
    BY <1>1, <1>6 DEF NextMinute, Restart
  <2> QED BY <1>2, <2>1
<1>7. ASSUME (\E e \in box : Expire(e)) \/ UNCHANGED gateVars PROVE FALSE
  BY <1>2, <1>7 DEF Expire, gateVars
<1> QED BY <1>3, <1>4, <1>5, <1>6, <1>7 DEF GateNext, ServeStep

\* A sender's minute is spent only by requests it signed (StoreService.Handle
\* verifies before it charges).
THEOREM SendersCorrect == GateSpec => SendersPayForTheirOwn
<1>1. GateInv /\ [GateNext]_gateVars =>
        [\A p \in Peers : passed'["sender"][p] > passed["sender"][p] =>
            \E h \in Handlers : pc[h] = "verify" /\ req[h].who = p /\ req[h].signed]_gateVars
  BY ChargeStep
<1> QED BY <1>1, GateInvariance, PTL DEF GateSpec, SendersPayForTheirOwn

================================================================================
