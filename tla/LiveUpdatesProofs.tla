------------------------- MODULE LiveUpdatesProofs -------------------------
(***************************************************************************)
(* Proofs about LiveUpdates, for any symbols, prices, portfolios, sockets  *)
(* and bounds.  The registry is handled by the lemmas proved for it alone: *)
(* Reg is ConnectionManager with its proofs, applied to what the           *)
(* subscriber broadcasts.                                                  *)
(***************************************************************************)
EXTENDS LiveUpdates, TLAPS

Reg == INSTANCE ConnectionManagerProofs WITH Payloads <- AllMetrics

Stages == {"starting", "listening", "loading", "pricing", "broadcasting", "dead"}

\* The types of everything outside the registry.
Types ==
    /\ cache \in [Symbols -> Prices \cup {None}] /\ owed \subseteq Symbols
    /\ price \in [Symbols -> Prices]
    /\ exists \subseteq Portfolios /\ holds \in [Portfolios -> SUBSET Symbols]
    /\ sub \in Stages
    /\ queue \in Seq(Symbols) /\ Len(queue) <= MaxQueue
    /\ sym \in Symbols \cup {None}
    /\ ids \subseteq Portfolios /\ affected \subseteq Portfolios
    /\ rows \in [Portfolios -> SUBSET Symbols]
    /\ prices \in [Symbols -> Prices \cup {None}]
    /\ missed \in BOOLEAN
    /\ slips \in Nat /\ faults \in Nat /\ outages \in Nat /\ edits \in Nat /\ restarts \in Nat

\* A broadcast is under way only inside a handling, which by then has loaded
\* what it was to load.
PhaseOK ==
    /\ at # None => sub = "broadcasting"
    /\ sub \in {"pricing", "broadcasting"} => ids = {}

Queued(s) == \E k \in 1..Len(queue) : queue[k] = s

\* Nothing is shown to anybody before the subscriber listens.
EarlyOK ==
    /\ sub # "dead"
    /\ sub = "starting" => \A w \in Sockets : view[w] = None

\* What was loaded is what the portfolios hold, and what is sent is made of it
\* and of the prices read.
RowsOK ==
    /\ exists = Portfolios
    /\ \A p \in affected : rows[p] = holds[p]
    /\ at # None => msg = Metrics(holds[at], prices)

\* Only sockets that were registered are sent to, and only what is meant for
\* them: one that is new starts from an empty view.
Served(w) == ep[w] \in {"receive", "left", "failed"}
ViewsOK ==
    /\ \A w \in Sockets : view[w] # None => Served(w)
    /\ at # None => Served(it) /\ Of[it] = at

\* A price that has changed since the handler read it is announced again.
PricesOK ==
    sub = "broadcasting" =>
        \A s \in Symbols : cache[s] \in {None, prices[s]} \/ s \in owed \/ Queued(s)

AllComing == \A w \in Sockets, s \in Symbols : Outdated(w, s) => Coming(w, s)

Quiet == EarlyOK /\ RowsOK /\ ViewsOK /\ PricesOK /\ AllComing
Inv == Reg!FullInv /\ Types /\ PhaseOK /\ (Untroubled => Quiet)

-----------------------------------------------------------------------------
(* The registry *)

LEMMA RegistryAssumption == Reg!SocketsAssumption
  BY LiveAssumption DEF Reg!SocketsAssumption, IsFiniteSet, Reg!IsFiniteSet

\* What is computed for a portfolio is something that may be broadcast.
LEMMA MetricsType ==
    ASSUME NEW ss \in SUBSET Symbols, NEW pr \in [Symbols -> Prices \cup {None}]
    PROVE  Metrics(ss, pr) \in AllMetrics
<1> DEFINE priced == {t \in ss : pr[t] # None}
<1>1. Metrics(ss, pr) \in [priced -> Prices]
  BY DEF Metrics
<1>2. priced \in SUBSET Symbols
  OBVIOUS
<1> QED BY <1>1, <1>2 DEF AllMetrics

\* The iterator's comparison is the same in both instances of the registry.
LEMMA SameSize == CM!SizeChanged <=> Reg!SizeChanged
  BY DEF CM!SizeChanged, Reg!SizeChanged, CM!Cardinality, Reg!Cardinality,
         CM!IsFiniteSet, Reg!IsFiniteSet

LEMMA RegistryInit == Init => Reg!FullInv
<1>1. CM!Init => Reg!Init
  BY DEF CM!Init, Reg!Init
<1> QED BY <1>1, RegistryAssumption, Reg!InitInv DEF Init

LEMMA CmUnchanged ==
    ASSUME Reg!FullInv, UNCHANGED cmVars PROVE Reg!FullInv'
<1>1. UNCHANGED Reg!vars
  BY DEF cmVars, Reg!vars, Reg!registry, Reg!clients, Reg!loop
<1> QED BY <1>1, RegistryAssumption, Reg!NextInv

LEMMA EndpointKeepsRegistry ==
    ASSUME Reg!FullInv, NEW w \in Sockets,
           Endpoint(w) \/ EndpointBreaks(w) \/ BrowserGone(w)
    PROVE  Reg!FullInv'
<1>1. CASE CM!Connect(w)
  <2>1. Reg!Connect(w)
    BY <1>1 DEF CM!Connect, Reg!Connect, CM!Register, Reg!Register, CM!Disturb, Reg!Disturb
  <2> QED BY <2>1, RegistryAssumption, Reg!ConnectKeeps
<1>2. CASE CM!Leave(w)
  <2>1. Reg!Leave(w)
    BY <1>2 DEF CM!Leave, Reg!Leave, CM!Disconnect, Reg!Disconnect, CM!Disturb, Reg!Disturb
  <2> QED BY <2>1, RegistryAssumption, Reg!LeaveKeeps
<1>3. CASE CM!Open(w) \/ CM!Refuse(w) \/ CM!Authorize(w) \/ CM!HandshakeFails(w)
           \/ CM!PeerGone(w) \/ CM!Break(w)
  <2>1. Reg!Open(w) \/ Reg!Refuse(w) \/ Reg!Authorize(w) \/ Reg!HandshakeFails(w)
           \/ Reg!PeerGone(w) \/ Reg!Break(w)
    BY <1>3 DEF CM!Open, CM!Refuse, CM!Authorize, CM!HandshakeFails, CM!PeerGone, CM!Break,
       Reg!Open, Reg!Refuse, Reg!Authorize, Reg!HandshakeFails, Reg!PeerGone, Reg!Break,
       CM!registry, Reg!registry, CM!loop, Reg!loop
  <2> QED BY <2>1, RegistryAssumption, Reg!EndpointOutside
<1> QED BY <1>1, <1>2, <1>3 DEF Endpoint, EndpointBreaks, BrowserGone

LEMMA BroadcastKeepsRegistry ==
    ASSUME Reg!FullInv, Types,
           BroadcastGoesOn \/ BroadcastAborts \/ \E p \in Portfolios : Broadcast(p)
    PROVE  Reg!FullInv'
<1> USE DEF CM!SendReturns, Reg!SendReturns, CM!SendSucceeds, Reg!SendSucceeds,
            CM!SendFails, Reg!SendFails, CM!registry, Reg!registry, CM!clients, Reg!clients
<1>1. CASE CM!SendNext
  <2>1. Reg!SendNext
    BY <1>1, SameSize DEF CM!SendNext, Reg!SendNext, CM!Ahead, Reg!Ahead
  <2> QED BY <2>1, RegistryAssumption, Reg!SendNextKeeps
<1>2. CASE CM!SendLast
  <2>1. Reg!SendLast
    BY <1>2, SameSize DEF CM!SendLast, Reg!SendLast, CM!Ahead, Reg!Ahead,
       CM!Disconnect, Reg!Disconnect, CM!Idle, Reg!Idle
  <2> QED BY <2>1, RegistryAssumption, Reg!SendLastKeeps
<1>3. CASE CM!SendThenAbort
  <2>1. Reg!SendThenAbort
    BY <1>3, SameSize DEF CM!SendThenAbort, Reg!SendThenAbort, CM!Idle, Reg!Idle
  <2> QED BY <2>1, RegistryAssumption, Reg!SendThenAbortKeeps
<1>4. ASSUME NEW p \in Portfolios, Broadcast(p) PROVE Reg!FullInv'
  <2>1. Metrics(rows[p], prices) \in AllMetrics
    BY MetricsType DEF Types
  <2>2. CASE UNCHANGED cmVars
    BY <2>2, CmUnchanged
  <2>3. CASE CM!Begin(p, Metrics(rows[p], prices))
    <3>1. Reg!Begin(p, Metrics(rows[p], prices))
      BY <2>3 DEF CM!Begin, Reg!Begin
    <3> QED BY <2>1, <3>1, RegistryAssumption, Reg!BeginKeeps
  <2> QED BY <1>4, <2>2, <2>3 DEF Broadcast
<1> QED BY <1>1, <1>2, <1>3, <1>4 DEF BroadcastGoesOn, BroadcastAborts

\* After the end of the process there is nothing left that could be wrong.
LEMMA RestartKeepsRegistry ==
    ASSUME Reg!FullInv, Restart PROVE Reg!FullInv'
<1>1. /\ keys' = {} /\ conns' = [p \in Portfolios |-> {}]
      /\ ep' \in [Sockets -> Reg!Endpoints \ {"receive"}]
      /\ at' = None /\ it' = None /\ msg' = None /\ start' = {} /\ seen' = {}
      /\ sent' = {} /\ dead' = {} /\ churned' = FALSE /\ detached' = FALSE
      /\ UNCHANGED <<peer, breaks, view>>
  BY DEF Restart, CM!Idle, Reg!FullInv, Reg!Inv, Reg!TypeOK, Reg!Endpoints
<1>2. Reg!TypeOK'
  BY <1>1 DEF Reg!FullInv, Reg!Inv, Reg!TypeOK, Reg!Endpoints
<1>3. Reg!LoopOK' /\ Reg!IterationOK'
  BY <1>1 DEF Reg!LoopOK, Reg!IterationOK
<1>4. Reg!Registered'
  BY <1>1 DEF Reg!Registered, Reg!LiveStayRegistered, Reg!NoGhosts, Reg!NoEmptyEntries,
              Reg!Live
<1> QED BY <1>2, <1>3, <1>4 DEF Reg!FullInv, Reg!Inv

LEMMA RegistryKeeps ==
    ASSUME Reg!FullInv, Types, [Next]_vars PROVE Reg!FullInv'
<1>1. CASE UNCHANGED cmVars
  BY <1>1, CmUnchanged
<1>2. CASE \E w \in Sockets : Endpoint(w) \/ EndpointBreaks(w) \/ BrowserGone(w)
  BY <1>2, EndpointKeepsRegistry
<1>3. CASE BroadcastGoesOn \/ BroadcastAborts \/ \E p \in Portfolios : Broadcast(p)
  BY <1>3, BroadcastKeepsRegistry
<1>4. CASE Restart
  BY <1>4, RestartKeepsRegistry
<1> QED
  BY <1>1, <1>2, <1>3, <1>4
  DEF Next, vars, SubscriberStep, Subscribe, Receive, ReadPrices, HandlingEnds, Load, HandlerFails,
      SubscriberDies, Reconnect, FeedPut, FeedAnnounce, FeedExpire, FeedSlip, MovePrice,
      EditPosition, DeletePortfolio

-----------------------------------------------------------------------------
(* Types and phases *)

LEMMA InitTypes == Init => Types /\ PhaseOK
<1> SUFFICES ASSUME Init PROVE Types /\ PhaseOK
  OBVIOUS
<1>1. cache \in [Symbols -> Prices \cup {None}] /\ owed \subseteq Symbols /\ slips \in Nat
  BY DEF Init, Feed!Init
<1>2. rows \in [Portfolios -> SUBSET Symbols] /\ prices \in [Symbols -> Prices \cup {None}]
  BY DEF Init, NoRows, Unread
<1>3. queue \in Seq(Symbols) /\ Len(queue) <= MaxQueue
  BY LiveAssumption DEF Init
<1>4. at = None
  BY DEF Init, CM!Init
<1> QED BY <1>1, <1>2, <1>3, <1>4 DEF Init, Types, Stages, PhaseOK

LEMMA ForgetTypes ==
    ASSUME Forget
    PROVE  /\ sym' \in Symbols \cup {None} /\ ids' \subseteq Portfolios
           /\ affected' \subseteq Portfolios /\ rows' \in [Portfolios -> SUBSET Symbols]
           /\ prices' \in [Symbols -> Prices \cup {None}]
           /\ ids' = {}
  BY DEF Forget, NoRows, Unread

\* Endpoints come and go around a broadcast, whose payload and recipients
\* they do not touch.
LEMMA EndpointsOutside ==
    ASSUME NEW w \in Sockets, Endpoint(w) \/ EndpointBreaks(w) \/ BrowserGone(w)
    PROVE  /\ UNCHANGED <<at, it, msg, start, sent, dead, view>>
           /\ UNCHANGED <<feedVars, world, subVars, queue>>
  BY DEF Endpoint, EndpointBreaks, BrowserGone, CM!Open, CM!Authorize, CM!Refuse, CM!Connect,
         CM!HandshakeFails, CM!Leave, CM!Break, CM!PeerGone, CM!loop, CM!Disturb

\* One step per group of actions that change the same variables.
LEMMA TypesKept ==
    ASSUME Reg!FullInv, Types, PhaseOK, [Next]_vars PROVE Types' /\ PhaseOK'
<1> USE LiveAssumption
<1>1. CASE UNCHANGED vars
  BY <1>1 DEF vars, feedVars, cmVars, world, subVars, handler, Types, PhaseOK
<1>2. CASE Subscribe \/ Receive \/ ReadPrices
  <2>1. UNCHANGED <<cache, owed, slips, at, price, exists, holds, edits, restarts,
                    affected, rows, missed, faults, outages>>
    BY <1>2 DEF Subscribe, Receive, ReadPrices, feedVars, cmVars, world, handler
  <2>2. CASE Subscribe
    BY <2>1, <2>2 DEF Subscribe, handler, Types, PhaseOK, Stages
  <2>3. CASE Receive
    <3>1. queue # <<>> /\ queue' = Tail(queue) /\ Head(queue) \in Symbols
      BY <2>3 DEF Receive, Types
    <3>2. queue' \in Seq(Symbols) /\ Len(queue') <= MaxQueue
      BY <3>1 DEF Types
    <3>3. keys \subseteq Portfolios
      BY DEF Reg!FullInv, Reg!Inv, Reg!TypeOK
    <3> QED BY <2>1, <2>3, <3>1, <3>2, <3>3 DEF Receive, Types, PhaseOK, Stages
  <2>4. CASE ReadPrices
    BY <2>1, <2>4 DEF ReadPrices, Types, PhaseOK, Stages
  <2> QED BY <1>2, <2>2, <2>3, <2>4
<1>3. ASSUME NEW p \in Portfolios, Load(p) PROVE Types' /\ PhaseOK'
  <2>1. UNCHANGED <<cache, owed, slips, at, price, exists, holds, edits, restarts,
                    queue, missed, faults, outages>>
    BY <1>3 DEF Load, feedVars, cmVars, world
  <2>2. CASE Listen
    BY <1>3, <2>1, <2>2, ForgetTypes DEF Load, Listen, Types, PhaseOK, Stages
  <2>3. CASE ~Listen
    <3>1. /\ sub' = IF ids = {p} THEN "pricing" ELSE "loading"
          /\ ids' = ids \ {p} /\ UNCHANGED <<sym, prices>>
          /\ affected' \in {affected, affected \cup {p}}
          /\ rows' \in {rows, [rows EXCEPT ![p] = holds[p]]}
      BY <1>3, <2>3 DEF Load
    <3> QED BY <1>3, <2>1, <3>1 DEF Load, Types, PhaseOK, Stages
  <2> QED BY <2>2, <2>3
<1>4. ASSUME NEW p \in Portfolios, Broadcast(p) PROVE Types' /\ PhaseOK'
  BY <1>4 DEF Broadcast, Busy, feedVars, world, Types, PhaseOK, Stages
<1>5. CASE HandlingEnds \/ HandlerFails \/ BroadcastAborts
  <2>1. Listen /\ (at' = None) /\ missed' \in {missed, TRUE}
        /\ UNCHANGED <<cache, owed, slips, price, exists, holds, edits, restarts, queue, outages>>
        /\ faults' \in {faults, faults + 1}
    BY <1>5 DEF HandlingEnds, HandlerFails, BroadcastAborts, feedVars, world, cmVars, Busy,
                PhaseOK, CM!SendThenAbort, CM!Idle
  <2>2. sub' = "listening" /\ Forget
    BY <2>1 DEF Listen
  <2>3. faults' \in Nat
    BY <2>1 DEF Types
  <2>4. missed' \in BOOLEAN
    BY <2>1, Zenon DEF Types
  <2> QED BY <2>1, <2>2, <2>3, <2>4, ForgetTypes DEF Types, PhaseOK, Stages
<1>6. CASE BroadcastGoesOn
  <2>1. at' \in {at, None} /\ at # None
    BY <1>6 DEF BroadcastGoesOn, CM!SendNext, CM!SendLast, CM!SendReturns, CM!Idle
  <2> QED BY <1>6, <2>1 DEF BroadcastGoesOn, feedVars, world, handler, Types, PhaseOK, Stages
<1>7. CASE SubscriberDies \/ Reconnect
  <2>1. /\ sub' = sub \/ (sub' = "dead" /\ sub \in {"starting", "listening"})
        /\ outages' = outages + 1
    BY <1>7 DEF SubscriberDies, Reconnect
  <2>2. queue' = <<>>
    BY <1>7 DEF SubscriberDies, Reconnect
  <2>3. UNCHANGED <<feedVars, cmVars, world, handler, missed, faults>>
    BY <1>7 DEF SubscriberDies, Reconnect
  <2> QED BY <2>1, <2>2, <2>3 DEF feedVars, world, handler, cmVars, Types, PhaseOK, Stages
<1>8. ASSUME NEW s \in Symbols, FeedPut(s) \/ FeedExpire(s) \/ FeedSlip(s) \/ MovePrice(s)
      PROVE  Types' /\ PhaseOK'
  BY <1>8 DEF FeedPut, FeedExpire, FeedSlip, MovePrice, Feed!Put, Feed!Expire, cmVars, world,
              feedVars, subVars, handler, Types, PhaseOK, Stages
<1>9. ASSUME NEW s \in Symbols, FeedAnnounce(s) PROVE Types' /\ PhaseOK'
  <2>1. queue' \in {queue, Append(queue, s)} /\ Len(queue) < MaxQueue
    BY <1>9 DEF FeedAnnounce, Deliver
  <2>2. queue' \in Seq(Symbols) /\ Len(queue') <= MaxQueue
    BY <2>1 DEF Types
  <2> QED BY <1>9, <2>2 DEF FeedAnnounce, Feed!Announce, cmVars, world, subVars, handler,
                            Types, PhaseOK, Stages
<1>10. ASSUME NEW p \in Portfolios,
              DeletePortfolio(p) \/ \E s \in Symbols : EditPosition(p, s)
       PROVE  Types' /\ PhaseOK'
  BY <1>10 DEF EditPosition, DeletePortfolio, Edit, cmVars, feedVars, subVars, handler,
               Types, PhaseOK, Stages
<1>11. ASSUME NEW w \in Sockets, Endpoint(w) \/ EndpointBreaks(w) \/ BrowserGone(w)
       PROVE  Types' /\ PhaseOK'
  BY <1>11, EndpointsOutside DEF feedVars, world, subVars, handler, Types, PhaseOK, Stages
<1>12. CASE Restart
  <2>1. owed' \subseteq owed /\ at' = None
    BY <1>12 DEF Restart, CM!Idle
  <2> QED BY <1>12, <2>1, ForgetTypes DEF Restart, Types, PhaseOK, Stages
<1> QED
  BY <1>1, <1>2, <1>3, <1>4, <1>5, <1>6, <1>7, <1>8, <1>9, <1>10, <1>11, <1>12
  DEF Next, SubscriberStep
-----------------------------------------------------------------------------
(* Troubles *)

\* What goes on while nothing fails, nothing is edited and no broadcast is cut
\* short.
CalmStep ==
    \/ UNCHANGED vars
    \/ Subscribe \/ Receive \/ ReadPrices \/ HandlingEnds \/ BroadcastGoesOn
    \/ \E p \in Portfolios : Load(p) \/ Broadcast(p)
    \/ \E s \in Symbols : FeedPut(s) \/ FeedAnnounce(s) \/ FeedExpire(s) \/ MovePrice(s)
    \/ \E w \in Sockets : Endpoint(w) \/ EndpointBreaks(w) \/ BrowserGone(w)

\* Troubles are counted and the counters only grow: if there are none after a
\* step, there were none before it and it was a calm one.
LEMMA TroublesLast ==
    ASSUME Types, [Next]_vars, Untroubled' PROVE Untroubled /\ CalmStep
<1>1. ~HandlerFails /\ ~SubscriberDies /\ ~Reconnect /\ ~BroadcastAborts /\ ~Restart
  BY DEF HandlerFails, SubscriberDies, Reconnect, BroadcastAborts, Restart, Untroubled, Types
<1>2. \A s \in Symbols : ~FeedSlip(s)
  BY DEF FeedSlip, Untroubled, Types
<1>3. \A p \in Portfolios : ~DeletePortfolio(p) /\ \A s \in Symbols : ~EditPosition(p, s)
  BY DEF DeletePortfolio, EditPosition, Edit, Untroubled, Types
<1>4. CalmStep
  BY <1>1, <1>2, <1>3 DEF Next, SubscriberStep, CalmStep
<1>5. UNCHANGED <<slips, faults, outages, edits, restarts>> /\ (missed => missed')
  <2>1. CASE UNCHANGED vars \/ Subscribe \/ Receive \/ ReadPrices \/ HandlingEnds
    BY <2>1 DEF vars, feedVars, world, subVars, Subscribe, Receive, ReadPrices, HandlingEnds
  <2>2. CASE \E p \in Portfolios : Load(p) \/ Broadcast(p)
    BY <2>2 DEF Load, Broadcast, feedVars, world
  <2>3. CASE \E s \in Symbols : FeedPut(s) \/ FeedAnnounce(s) \/ FeedExpire(s) \/ MovePrice(s)
    BY <2>3 DEF FeedPut, FeedAnnounce, FeedExpire, MovePrice, Feed!Put, Feed!Announce, Feed!Expire,
                feedVars, world, subVars
  <2>4. CASE \E w \in Sockets : Endpoint(w) \/ EndpointBreaks(w) \/ BrowserGone(w)
    BY <2>4, EndpointsOutside DEF feedVars, world, subVars
  <2>5. CASE BroadcastGoesOn
    BY <2>5, Zenon DEF BroadcastGoesOn, feedVars, world
  <2> QED BY <1>4, <2>1, <2>2, <2>3, <2>4, <2>5 DEF CalmStep
<1> QED BY <1>4, <1>5 DEF Untroubled

-----------------------------------------------------------------------------
(* The queue *)

LEMMA QueueTail ==
    ASSUME queue \in Seq(Symbols), queue # <<>>, queue' = Tail(queue), NEW s, Queued(s)
    PROVE  s = Head(queue) \/ Queued(s)'
<1>1. PICK k \in 1..Len(queue) : queue[k] = s
  BY DEF Queued
<1>2. CASE k = 1
  BY <1>1, <1>2
<1>3. CASE k # 1
  <2>1. k - 1 \in 1..Len(Tail(queue)) /\ Tail(queue)[k - 1] = s
    BY <1>1, <1>3
  <2> QED BY <2>1 DEF Queued
<1> QED BY <1>2, <1>3

LEMMA QueueAppend ==
    ASSUME queue \in Seq(Symbols), NEW t \in Symbols, queue' = Append(queue, t)
    PROVE  Queued(t)' /\ \A s : Queued(s) => Queued(s)'
<1>1. Len(queue) + 1 \in 1..Len(queue') /\ queue'[Len(queue) + 1] = t
  OBVIOUS
<1>2. \A k \in 1..Len(queue) : k \in 1..Len(queue') /\ queue'[k] = queue[k]
  OBVIOUS
<1> QED BY <1>1, <1>2 DEF Queued

-----------------------------------------------------------------------------
(* Nothing is forgotten *)

\* An endpoint only ever goes on: one that was served stays so, and is live
\* only if it was.
LEMMA EndpointsGoOn ==
    ASSUME Reg!FullInv, NEW w \in Sockets, Endpoint(w) \/ EndpointBreaks(w) \/ BrowserGone(w),
           NEW v \in Sockets, Served(v)
    PROVE  Served(v)' /\ (CM!Live(v)' => CM!Live(v))
  BY DEF Served, CM!Live, Reg!FullInv, Reg!Inv, Reg!TypeOK, Endpoint, EndpointBreaks, BrowserGone,
         CM!Open, CM!Authorize, CM!Refuse, CM!Connect, CM!HandshakeFails, CM!Leave, CM!Break,
         CM!PeerGone

LEMMA EndpointsKeepQuiet ==
    ASSUME Reg!FullInv, Types, Quiet,
           NEW w \in Sockets, Endpoint(w) \/ EndpointBreaks(w) \/ BrowserGone(w)
    PROVE  Quiet'
<1>1. /\ UNCHANGED <<at, it, msg, sent, view, cache, owed, exists, holds>>
      /\ UNCHANGED <<sub, sym, ids, affected, rows, prices, queue>>
  BY EndpointsOutside DEF feedVars, world, subVars, handler
<1>2. EarlyOK' /\ RowsOK' /\ PricesOK'
  BY <1>1 DEF Quiet, EarlyOK, RowsOK, PricesOK, Queued
<1>3. ViewsOK'
  BY <1>1, EndpointsGoOn DEF Quiet, ViewsOK, Reg!FullInv, Reg!Inv, Reg!LoopOK
<1>4. ASSUME NEW v \in Sockets, NEW s \in Symbols, Outdated(v, s)' PROVE Coming(v, s)'
  <2>1. Outdated(v, s)
    BY <1>1, <1>4, EndpointsGoOn DEF Outdated, Shows, Quiet, ViewsOK
  <2> QED BY <1>1, <2>1 DEF Quiet, AllComing, Coming
<1> QED BY <1>2, <1>3, <1>4 DEF Quiet, AllComing

LEMMA FeedKeepsQuiet ==
    ASSUME Types, Quiet, NEW s0 \in Symbols, FeedPut(s0) \/ FeedExpire(s0) \/ MovePrice(s0)
    PROVE  Quiet'
<1>1. /\ UNCHANGED <<ep, peer, at, it, msg, sent, view, exists, holds>>
      /\ UNCHANGED <<sub, sym, ids, affected, rows, prices, queue>>
  BY DEF FeedPut, FeedExpire, MovePrice, cmVars, world, subVars, handler
<1>2. /\ owed \subseteq owed'
      /\ \A s \in Symbols : cache'[s] \in {None, cache[s]} \/ s \in owed'
  BY DEF FeedPut, FeedExpire, MovePrice, Feed!Put, Feed!Expire, feedVars, Types
<1>3. EarlyOK' /\ RowsOK' /\ ViewsOK'
  BY <1>1 DEF Quiet, EarlyOK, RowsOK, ViewsOK, Served
<1>4. PricesOK'
  BY <1>1, <1>2 DEF Quiet, PricesOK, Queued
<1>5. ASSUME NEW v \in Sockets, NEW s \in Symbols, Outdated(v, s)' PROVE Coming(v, s)'
  <2>1. cache'[s] = cache[s] \/ s \in owed'
    BY <1>2, <1>5 DEF Outdated
  <2> QED BY <1>1, <1>2, <1>5, <2>1 DEF Quiet, AllComing, Outdated, Shows, Coming, CM!Live
<1> QED BY <1>3, <1>4, <1>5 DEF Quiet, AllComing

LEMMA AnnounceKeepsQuiet ==
    ASSUME Types, Quiet, NEW s0 \in Symbols, FeedAnnounce(s0)
    PROVE  Quiet'
<1>1. /\ UNCHANGED <<ep, peer, at, it, msg, sent, view, cache, exists, holds>>
      /\ UNCHANGED <<sub, sym, ids, affected, rows, prices>> /\ owed' = owed \ {s0}
  BY DEF FeedAnnounce, Feed!Announce, cmVars, world, subVars, handler
<1>2. EarlyOK' /\ RowsOK' /\ ViewsOK'
  BY <1>1 DEF Quiet, EarlyOK, RowsOK, ViewsOK, Served
<1>3. CASE sub = "starting"
  BY <1>1, <1>2, <1>3 DEF Quiet, EarlyOK, AllComing, PricesOK, Outdated
<1>4. CASE sub # "starting"
  <2>1. queue' = Append(queue, s0)
    BY <1>4 DEF FeedAnnounce, Deliver, Quiet, EarlyOK
  <2>2. Queued(s0)' /\ \A s : Queued(s) => Queued(s)'
    BY <2>1, QueueAppend DEF Types
  <2>3. PricesOK'
    BY <1>1, <2>2 DEF Quiet, PricesOK
  <2>4. ASSUME NEW v \in Sockets, NEW s \in Symbols, Outdated(v, s)' PROVE Coming(v, s)'
    BY <1>1, <2>2, <2>4 DEF Quiet, AllComing, Outdated, Shows, Coming, Queued, CM!Live
  <2> QED BY <1>2, <2>3, <2>4 DEF Quiet, AllComing
<1> QED BY <1>3, <1>4

\* A message is taken up: who would be updated because of it is watched, hence
\* loaded.
LEMMA ReceiveKeepsQuiet ==
    ASSUME Reg!FullInv, Types, PhaseOK, Quiet, Receive
    PROVE  Quiet'
<1>1. /\ UNCHANGED <<ep, peer, at, it, msg, sent, view, cache, owed, exists, holds>>
      /\ UNCHANGED <<affected, rows, prices>>
      /\ sub = "listening" /\ sub' \in {"listening", "loading"}
      /\ queue # <<>> /\ queue' = Tail(queue)
  BY DEF Receive, cmVars, feedVars, world
<1>2. EarlyOK' /\ RowsOK' /\ ViewsOK' /\ PricesOK'
  BY <1>1 DEF Quiet, EarlyOK, RowsOK, ViewsOK, PricesOK, Served
<1>3. ASSUME NEW v \in Sockets, NEW s \in Symbols, Outdated(v, s)' PROVE Coming(v, s)'
  <2>1. Outdated(v, s)
    BY <1>1, <1>3 DEF Outdated, Shows, CM!Live
  <2>2. Of[v] \in keys
    BY <2>1 DEF Outdated, CM!Live, Reg!FullInv, Reg!Inv, Reg!Registered, Reg!LiveStayRegistered,
                Reg!Live
  <2>3. sub' = "loading" /\ sym' = Head(queue) /\ ids' = keys
    BY <2>2 DEF Receive
  <2>4. s \in owed \/ Queued(s)
    BY <1>1, <2>1 DEF Quiet, AllComing, Coming, Queued
  <2>5. s \in owed' \/ s = Head(queue) \/ Queued(s)'
    BY <1>1, <2>4, QueueTail DEF Types
  <2> QED BY <2>2, <2>3, <2>5 DEF Coming, Queued
<1> QED BY <1>2, <1>3 DEF Quiet, AllComing

\* A portfolio that holds the symbol is kept, and with it the handling goes on.
LEMMA LoadKeepsQuiet ==
    ASSUME Reg!FullInv, Types, PhaseOK, Quiet, NEW p \in Portfolios, Load(p)
    PROVE  Quiet'
<1>1. /\ UNCHANGED <<ep, peer, at, it, msg, sent, view, cache, owed, exists, holds, queue>>
      /\ sub = "loading" /\ sub' \in {"listening", "loading", "pricing"} /\ at = None
  BY DEF Load, Listen, cmVars, feedVars, world, PhaseOK
<1>2. \A q \in affected' : rows'[q] = holds[q]
  BY DEF Load, Listen, Forget, Types, Quiet, RowsOK
<1>3. EarlyOK' /\ RowsOK' /\ ViewsOK' /\ PricesOK'
  BY <1>1, <1>2 DEF Quiet, EarlyOK, RowsOK, ViewsOK, PricesOK, Served
<1>4. ASSUME NEW v \in Sockets, NEW s \in Symbols, Outdated(v, s)' PROVE Coming(v, s)'
  <2>1. Outdated(v, s)
    BY <1>1, <1>4 DEF Outdated, Shows, CM!Live
  <2>2. s \in owed \/ Queued(s) \/ (sym = s /\ Of[v] \in ids \cup affected)
    BY <1>1, <2>1 DEF Quiet, AllComing, Coming, Queued
  <2>3. CASE sym = s /\ Of[v] \in ids \cup affected
    <3>1. Of[v] = p => p \in exists /\ sym \in holds[p]
      BY <2>1, <2>3 DEF Outdated, Quiet, RowsOK
    <3>2. /\ sub' \in {"loading", "pricing"} /\ sym' = s
          /\ Of[v] \in ids' \cup affected'
      BY <2>3, <3>1 DEF Load
    <3> QED BY <3>2 DEF Coming
  <2> QED BY <1>1, <2>2, <2>3 DEF Coming, Queued
<1> QED BY <1>3, <1>4 DEF Quiet, AllComing

LEMMA HandlerKeepsQuiet ==
    ASSUME Reg!FullInv, Types, PhaseOK, Quiet, Subscribe \/ ReadPrices \/ HandlingEnds
    PROVE  Quiet'
<1>1. /\ UNCHANGED <<ep, peer, at, it, msg, sent, view, cache, owed, exists, holds, queue>>
      /\ at = None
  BY DEF Subscribe, ReadPrices, HandlingEnds, Busy, cmVars, feedVars, world, PhaseOK
<1>2. sub' # "dead" /\ (sub' # "starting")
  BY DEF Subscribe, ReadPrices, HandlingEnds, Listen
<1>3. affected' \in {affected, {}} /\ (affected' # {} => rows' = rows)
  BY DEF Subscribe, ReadPrices, HandlingEnds, Listen, Forget, handler
<1>4. PricesOK'
  BY DEF Subscribe, ReadPrices, HandlingEnds, Listen, PricesOK, feedVars
<1>5. EarlyOK' /\ RowsOK' /\ ViewsOK'
  BY <1>1, <1>2, <1>3 DEF Quiet, EarlyOK, RowsOK, ViewsOK, Served
<1>6. ASSUME NEW v \in Sockets, NEW s \in Symbols, Outdated(v, s)' PROVE Coming(v, s)'
  <2>1. Outdated(v, s) /\ Coming(v, s)
    BY <1>1, <1>6 DEF Outdated, Shows, CM!Live, Quiet, AllComing
  <2>2. Of[v] # None
    BY LiveAssumption
  <2>3. CASE s \in owed \/ Queued(s)
    BY <1>1, <2>3 DEF Coming, Queued
  <2>4. CASE sub \in {"loading", "pricing"} /\ sym = s /\ Of[v] \in ids \cup affected
    BY <1>1, <2>4 DEF Subscribe, ReadPrices, HandlingEnds, Busy, PhaseOK, Coming, feedVars
  <2>5. CASE sub = "broadcasting" /\ Of[v] \in affected
    BY <2>5 DEF Subscribe, ReadPrices, HandlingEnds, Busy
  <2> QED BY <1>1, <2>1, <2>2, <2>3, <2>4, <2>5 DEF Coming, Queued
<1> QED BY <1>4, <1>5, <1>6 DEF Quiet, AllComing

\* Who is live is in the set that is broadcast to.
LEMMA LiveIsMember ==
    ASSUME Reg!FullInv, NEW w \in Sockets, CM!Live(w) PROVE w \in conns[Of[w]]
  BY DEF CM!Live, Reg!FullInv, Reg!Inv, Reg!Registered, Reg!LiveStayRegistered, Reg!Live

LEMMA MemberIsServed ==
    ASSUME Reg!FullInv, NEW p \in Portfolios, NEW w \in conns[p]
    PROVE  w \in Sockets /\ Served(w) /\ Of[w] = p
  BY DEF Served, Reg!FullInv, Reg!Inv, Reg!TypeOK, Reg!Registered, Reg!NoGhosts

LEMMA BroadcastKeepsQuiet ==
    ASSUME Reg!FullInv, Types, PhaseOK, Quiet, NEW p \in Portfolios, Broadcast(p)
    PROVE  Quiet'
<1>1. /\ UNCHANGED <<ep, peer, view, cache, owed, exists, holds, queue>>
      /\ UNCHANGED <<sub, sym, rows, prices>>
      /\ sub = "broadcasting" /\ at = None /\ p \in affected /\ affected' = affected \ {p}
  BY DEF Broadcast, Busy, cmVars, feedVars, world, CM!Begin, CM!clients
<1>2. \/ conns[p] = {} /\ at' = None
      \/ /\ at' = p /\ it' \in conns[p] /\ sent' = {}
         /\ msg' = Metrics(rows[p], prices)
  BY <1>1 DEF Broadcast, cmVars, CM!Begin
<1>3. EarlyOK' /\ PricesOK'
  BY <1>1 DEF Quiet, EarlyOK, PricesOK, Queued
<1>4. RowsOK'
  BY <1>1, <1>2 DEF Quiet, RowsOK, Metrics
<1>5. ViewsOK'
  BY <1>1, <1>2, MemberIsServed DEF Quiet, ViewsOK, Served
<1>6. ASSUME NEW v \in Sockets, NEW s \in Symbols, Outdated(v, s)' PROVE Coming(v, s)'
  <2>1. Outdated(v, s) /\ Coming(v, s)
    BY <1>1, <1>6 DEF Outdated, Shows, CM!Live, Quiet, AllComing
  <2>2. v \in conns[Of[v]] /\ Of[v] # None
    BY <2>1, LiveIsMember, LiveAssumption DEF Outdated
  <2>3. CASE s \in owed \/ Queued(s)
    BY <1>1, <2>3 DEF Coming, Queued
  <2>4. CASE prices[s] = cache[s] /\ Of[v] \in affected
    BY <1>1, <1>2, <2>2, <2>4 DEF Coming
  <2> QED BY <1>1, <2>1, <2>2, <2>3, <2>4 DEF Coming, Queued
<1> QED BY <1>3, <1>4, <1>5, <1>6 DEF Quiet, AllComing

\* What a send puts on a browser's page is made of prices that the cache still
\* has, or that are announced again.
LEMMA SendShows ==
    ASSUME Reg!FullInv, Types, PhaseOK, Quiet, CM!SendReturns,
           UNCHANGED <<ep, peer, cache, holds>>,
           NEW v \in Sockets, v = it, NEW s \in Symbols, Outdated(v, s)'
    PROVE  s \in owed \/ Queued(s)
<1>1. at # None /\ it \in Sockets /\ at \in Portfolios /\ peer[v] = "open"
  BY DEF CM!SendReturns, Outdated, CM!Live, Reg!FullInv, Reg!Inv, Reg!LoopOK
<1>2. view' = [view EXCEPT ![v] = msg]
  BY <1>1 DEF CM!SendReturns, CM!SendSucceeds, CM!SendFails
<1>3. view'[v] = Metrics(holds[at], prices)
  BY <1>1, <1>2 DEF Quiet, RowsOK, Reg!FullInv, Reg!Inv, Reg!TypeOK
<1>4. s \in holds[at] /\ cache[s] # None
  BY <1>1 DEF Outdated, Quiet, ViewsOK
<1>5. ASSUME prices[s] = cache[s] PROVE FALSE
  <2>1. s \in DOMAIN view'[v] /\ view'[v][s] = cache[s]
    BY <1>3, <1>4, <1>5 DEF Metrics
  <2> QED BY <2>1 DEF Outdated, Shows
<1>6. sub = "broadcasting"
  BY <1>1 DEF PhaseOK
<1> QED BY <1>4, <1>5, <1>6 DEF Quiet, PricesOK

LEMMA SendingKeepsQuiet ==
    ASSUME Reg!FullInv, Types, PhaseOK, Quiet, BroadcastGoesOn, ~missed'
    PROVE  Quiet'
<1>1. /\ UNCHANGED <<ep, peer, cache, owed, exists, holds, queue>>
      /\ UNCHANGED <<sub, sym, ids, affected, rows, prices>>
  BY DEF BroadcastGoesOn, CM!SendNext, CM!SendLast, CM!clients, feedVars, world, handler
<1>2. /\ CM!SendReturns /\ at # None /\ it \in Sockets /\ at \in Portfolios
      /\ sub = "broadcasting"
  BY DEF BroadcastGoesOn, CM!SendNext, CM!SendLast, CM!SendReturns, Reg!FullInv, Reg!Inv,
         Reg!LoopOK, PhaseOK
<1>3. \A v \in Sockets \ {it} : view'[v] = view[v]
  BY <1>2 DEF CM!SendReturns, CM!SendSucceeds, CM!SendFails, Reg!FullInv, Reg!Inv, Reg!TypeOK
<1>4. \/ at' = at /\ msg' = msg /\ it' \in conns[at]
      \/ at' = None
  BY DEF BroadcastGoesOn, CM!SendNext, CM!SendLast, CM!Ahead, CM!Idle
<1>5. EarlyOK' /\ RowsOK' /\ PricesOK'
  BY <1>1, <1>2, <1>4 DEF Quiet, EarlyOK, RowsOK, PricesOK, Queued
<1>6. ViewsOK'
  BY <1>1, <1>2, <1>3, <1>4, MemberIsServed DEF Quiet, ViewsOK, Served
<1>7. ASSUME NEW v \in Sockets \ {it}, CM!Live(v), Of[v] = at, v \notin sent
      PROVE  at' = at /\ v \notin sent'
  <2>1. v \notin sent' /\ dead' \subseteq dead \cup {it}
    BY <1>2, <1>7 DEF CM!SendReturns, CM!SendSucceeds, CM!SendFails
  <2>2. CASE CM!SendNext
    BY <2>1, <2>2 DEF CM!SendNext
  <2>3. CASE CM!SendLast
    <3>1. at' = None
      BY <2>3 DEF CM!SendLast, CM!Idle
    <3>2. ~churned
      BY <3>1 DEF BroadcastGoesOn
    <3>3. conns[at] \subseteq sent \cup dead \cup {it}
      BY <1>2, <2>3, <3>2 DEF CM!SendLast, CM!Ahead, Reg!FullInv, Reg!IterationOK
    <3>4. v \in dead
      BY <1>7, <3>3, LiveIsMember
    <3> QED BY <1>7, <3>4 DEF CM!Live, Reg!FullInv, Reg!Inv, Reg!LoopOK
  <2> QED BY <2>2, <2>3 DEF BroadcastGoesOn
<1>8. ASSUME NEW v \in Sockets, NEW s \in Symbols, Outdated(v, s)' PROVE Coming(v, s)'
  <2>1. CASE v = it
    BY <1>1, <1>2, <1>8, <2>1, SendShows DEF Coming, Queued
  <2>2. CASE v # it
    <3>1. Outdated(v, s) /\ Coming(v, s)
      BY <1>1, <1>3, <1>8, <2>2 DEF Outdated, Shows, CM!Live, Quiet, AllComing
    <3>2. at = Of[v] /\ v \notin sent => at' = at /\ v \notin sent'
      BY <1>7, <2>2, <3>1 DEF Outdated
    <3> QED BY <1>1, <1>2, <3>1, <3>2 DEF Coming
  <2> QED BY <2>1, <2>2
<1> QED BY <1>5, <1>6, <1>8 DEF Quiet, AllComing

-----------------------------------------------------------------------------
(* The inductive invariant *)

LEMMA InitQuiet == Init => Quiet
<1> SUFFICES ASSUME Init PROVE Quiet
  OBVIOUS
<1>1. at = None /\ \A w \in Sockets : view[w] = None
  BY DEF Init, CM!Init
<1> QED BY <1>1 DEF Init, Quiet, EarlyOK, RowsOK, ViewsOK, PricesOK, AllComing, Outdated

LEMMA CalmKeepsQuiet ==
    ASSUME Reg!FullInv, Types, PhaseOK, Quiet, CalmStep, ~missed'
    PROVE  Quiet'
<1>1. CASE UNCHANGED vars
  BY <1>1 DEF vars, feedVars, cmVars, world, subVars, handler, Quiet, EarlyOK, RowsOK, ViewsOK,
              PricesOK, AllComing, Served, Queued, Outdated, Shows, Coming, CM!Live
<1>2. CASE Subscribe \/ ReadPrices \/ HandlingEnds
  BY <1>2, HandlerKeepsQuiet
<1>3. CASE Receive
  BY <1>3, ReceiveKeepsQuiet
<1>4. CASE BroadcastGoesOn
  BY <1>4, SendingKeepsQuiet
<1>5. CASE \E p \in Portfolios : Load(p) \/ Broadcast(p)
  BY <1>5, LoadKeepsQuiet, BroadcastKeepsQuiet
<1>6. CASE \E s \in Symbols : FeedPut(s) \/ FeedAnnounce(s) \/ FeedExpire(s) \/ MovePrice(s)
  BY <1>6, FeedKeepsQuiet, AnnounceKeepsQuiet
<1>7. CASE \E w \in Sockets : Endpoint(w) \/ EndpointBreaks(w) \/ BrowserGone(w)
  BY <1>7, EndpointsKeepQuiet
<1> QED BY <1>1, <1>2, <1>3, <1>4, <1>5, <1>6, <1>7 DEF CalmStep

LEMMA InitInv == Init => Inv
  BY RegistryInit, InitTypes, InitQuiet DEF Inv

LEMMA NextInv == Inv /\ [Next]_vars => Inv'
<1> SUFFICES ASSUME Inv, [Next]_vars PROVE Inv'
  OBVIOUS
<1>1. Reg!FullInv /\ Types /\ PhaseOK
  BY DEF Inv
<1>2. Reg!FullInv' /\ Types' /\ PhaseOK'
  BY <1>1, RegistryKeeps, TypesKept
<1>3. ASSUME Untroubled' PROVE Quiet'
  <2>1. Quiet /\ CalmStep /\ ~missed'
    BY <1>1, <1>3, TroublesLast DEF Inv, Untroubled
  <2> QED BY <1>1, <2>1, CalmKeepsQuiet
<1> QED BY <1>2, <1>3 DEF Inv

-----------------------------------------------------------------------------
(* Theorems *)

\* The state keeps its shape, whoever comes, goes, fails or is started again:
\* what is broadcast is always a payload, what is handled a portfolio or a
\* symbol there is (subscriber.py, manager.py).
THEOREM TypeCorrect == Spec => []TypeOK
<1>1. Inv => TypeOK
  <2> SUFFICES ASSUME Inv PROVE TypeOK
    OBVIOUS
  <2>1. CM!TypeOK
    BY DEF Inv, Reg!FullInv, Reg!Inv, Reg!TypeOK, CM!TypeOK
  <2> QED BY <2>1 DEF Inv, Types, Stages, TypeOK
<1> QED BY <1>1, InitInv, NextInv, PTL DEF Spec

\* As long as nothing fails and nothing is edited, no price is forgotten: a
\* browser that shows another price than the cached one is about to be sent
\* that one, however prices, messages, queries, broadcasts and other browsers
\* interleave (handle_price_update of subscriber.py).
THEOREM NoPriceForgotten == Spec => []NothingForgotten
<1>1. Inv => NothingForgotten
  BY DEF Inv, NothingForgotten, Quiet, AllComing
<1> QED BY <1>1, InitInv, NextInv, PTL DEF Spec

\* With the subscriber as its only broadcaster and whatever fails around it,
\* the end of the process included, the registry stays right: live sockets are
\* in it, others are not, and an entry has members (manager.py).
THEOREM RegistryStaysRight ==
    Spec => [](CM!LiveStayRegistered /\ CM!NoGhosts /\ CM!NoEmptyEntries)
<1>1. Inv => CM!LiveStayRegistered /\ CM!NoGhosts /\ CM!NoEmptyEntries
  BY DEF Inv, Reg!FullInv, Reg!Inv, Reg!Registered, Reg!LiveStayRegistered, Reg!NoGhosts,
         Reg!NoEmptyEntries, Reg!Live, CM!LiveStayRegistered, CM!NoGhosts, CM!NoEmptyEntries,
         CM!Live
<1> QED BY <1>1, InitInv, NextInv, PTL DEF Spec

\* The subscriber is given no more than the components promise: but for the
\* end of the process, every step is one of the feed that PriceIngestor
\* implements, and one of the registry with its endpoints as they are checked
\* and proved alone.
THEOREM ComponentsAsPromised ==
    Spec => /\ Feed!Init /\ [][Feed!Next \/ Restart]_feedVars
            /\ CM!Init /\ [][CM!Next \/ Restart]_(CM!vars)
<1> DEFINE FeedStep == [Feed!Next \/ Restart]_feedVars
           RegistryStep == [CM!Next \/ Restart]_(CM!vars)
<1>1. Inv /\ [Next]_vars => FeedStep
  <2> SUFFICES ASSUME Inv, [Next]_vars, ~Restart, ~UNCHANGED feedVars PROVE Feed!Next
    OBVIOUS
  <2>1. PICK s \in Symbols : FeedPut(s) \/ FeedAnnounce(s) \/ FeedExpire(s) \/ FeedSlip(s)
    BY EndpointsOutside
    DEF Next, vars, SubscriberStep, Subscribe, Receive, ReadPrices, HandlingEnds, Load, Broadcast,
        BroadcastGoesOn, BroadcastAborts, HandlerFails, SubscriberDies, Reconnect, MovePrice,
        EditPosition, DeletePortfolio
  <2>2. price[s] \in Prices
    BY DEF Inv, Types
  <2>3. CASE FeedPut(s) \/ FeedAnnounce(s) \/ FeedExpire(s)
    BY <2>2, <2>3 DEF FeedPut, FeedAnnounce, FeedExpire, Feed!Next
  <2>4. CASE FeedSlip(s)
    BY <2>2, <2>4 DEF FeedSlip, Feed!Next, Feed!Slip
  <2> QED BY <2>1, <2>3, <2>4
<1>2. Inv /\ [Next]_vars => RegistryStep
  <2> SUFFICES ASSUME Inv, [Next]_vars, ~Restart, ~UNCHANGED CM!vars PROVE CM!Next
    OBVIOUS
  <2>1. ~UNCHANGED cmVars
    BY DEF cmVars, CM!vars, CM!registry, CM!clients, CM!loop
  <2>2. \/ \E w \in Sockets : Endpoint(w) \/ EndpointBreaks(w) \/ BrowserGone(w)
        \/ BroadcastGoesOn \/ BroadcastAborts \/ \E p \in Portfolios : Broadcast(p)
    BY <2>1
    DEF Next, vars, SubscriberStep, Subscribe, Receive, ReadPrices, HandlingEnds, Load,
        HandlerFails, SubscriberDies, Reconnect, FeedPut, FeedAnnounce, FeedExpire, FeedSlip,
        MovePrice, EditPosition, DeletePortfolio
  <2>3. ASSUME NEW p \in Portfolios, Broadcast(p) PROVE CM!Next
    <3>1. Metrics(rows[p], prices) \in AllMetrics
      BY MetricsType DEF Inv, Types
    <3> QED BY <2>1, <2>3, <3>1 DEF Broadcast, CM!Next
  <2>4. ASSUME NEW w \in Sockets, Endpoint(w) \/ EndpointBreaks(w) \/ BrowserGone(w) PROVE CM!Next
    BY <2>4 DEF Endpoint, EndpointBreaks, BrowserGone, CM!Next, CM!EndpointStep
  <2> QED BY <2>2, <2>3, <2>4 DEF BroadcastGoesOn, BroadcastAborts, CM!Next, CM!BroadcastStep
<1>3. Init => Feed!Init /\ CM!Init
  BY DEF Init
<1> QED BY <1>1, <1>2, <1>3, InitInv, NextInv, PTL DEF Spec

=============================================================================
