---------------------------- MODULE LiveUpdates ----------------------------
(***************************************************************************)
(* How a price reaches a browser, inside one backend process: the Redis    *)
(* subscriber (app/websocket/subscriber.py) between the price feed         *)
(* (PriceFeed, what the ingestors of all processes promise), the position  *)
(* tables, and the WebSocket registry (ConnectionManager).                 *)
(*                                                                         *)
(* A message names a symbol.  The handler takes the watched portfolios,    *)
(* loads each from the database, keeps those holding the symbol, reads the *)
(* prices of all their symbols in one round trip, and broadcasts to the    *)
(* portfolios one after the other.  It awaits at each of these, so prices, *)
(* rows and connections it has already looked at go on changing.           *)
(***************************************************************************)
EXTENDS Integers, Sequences, FiniteSets

CONSTANTS
    Symbols, Prices, Sockets, Portfolios, Of, None,
    MaxQueue,       \* bound on messages waiting at the subscriber
    MaxMoves,       \* bound on changes of the prices the ingestors report
    MaxEdits,       \* bound on changes of positions and portfolios
    MaxSlips,       \* bound on announcements the feed may lose
    MaxFaults,      \* bound on failures inside the message handler
    MaxOutages,     \* bound on losses of the Redis connection
    MaxBreaks,      \* bound on endpoints ended by an unexpected exception
    MaxDelays,      \* bound on prices that expire while their announcement is under way
    MaxRestarts     \* bound on ends of the backend process

VARIABLES
    cache, owed, slips,                              \* PriceFeed
    keys, conns, ep, peer, view, breaks,             \* ConnectionManager
    at, it, msg, start, seen, sent, dead, churned, detached,
    price,     \* what the ingestors currently report for each symbol
    exists,    \* the portfolios in the database
    holds,     \* the symbols of each portfolio's positions
    sub,       \* where the subscriber task is
    queue,     \* messages delivered to its connection, not yet handled
    sym,       \* the symbol of the message being handled
    ids,       \* watched portfolios still to be loaded
    affected,  \* loaded portfolios still to be broadcast to
    rows,      \* their symbols, as loaded
    prices,    \* the prices read for them
    missed,    \* a broadcast was cut short or its set changed (ghost)
    moves, edits, faults, outages, delays, restarts    \* bounded counters

\* The payload for a portfolio holding ss: positions without a price are
\* left out (compute_portfolio_metrics).
Metrics(ss, pr) == [s \in {t \in ss : pr[t] # None} |-> pr[s]]
AllMetrics == UNION {[ss -> Prices] : ss \in SUBSET Symbols}

ASSUME LiveAssumption ==
    /\ IsFiniteSet(Sockets) /\ Of \in [Sockets -> Portfolios]
    /\ None \notin Sockets \cup Portfolios \cup Symbols \cup Prices \cup AllMetrics
    /\ MaxQueue \in Nat /\ MaxMoves \in Nat /\ MaxEdits \in Nat /\ MaxSlips \in Nat
    /\ MaxFaults \in Nat /\ MaxOutages \in Nat /\ MaxBreaks \in Nat /\ MaxDelays \in Nat
    /\ MaxRestarts \in Nat

Feed == INSTANCE PriceFeed
CM   == INSTANCE ConnectionManager WITH Payloads <- AllMetrics

feedVars == <<cache, owed, slips>>
world    == <<price, exists, holds, moves, edits, delays, restarts>>
handler  == <<sym, ids, affected, rows, prices>>
subVars  == <<sub, handler, missed, faults, outages>>
cmVars   == <<keys, conns, ep, peer, breaks, view,
              at, it, msg, start, seen, sent, dead, churned, detached>>
vars     == <<feedVars, cmVars, world, subVars, queue>>

NoRows == [p \in Portfolios |-> {}]
Unread == [s \in Symbols |-> None]

Init ==
    /\ Feed!Init
    /\ CM!Init
    /\ price \in [Symbols -> Prices]
    /\ exists = Portfolios
    /\ holds \in [Portfolios -> SUBSET Symbols]
    /\ sub = "starting" /\ queue = <<>>
    /\ sym = None /\ ids = {} /\ affected = {} /\ rows = NoRows /\ prices = Unread
    /\ missed = FALSE
    /\ moves = 0 /\ edits = 0 /\ faults = 0 /\ outages = 0 /\ delays = 0
    /\ restarts = 0

-----------------------------------------------------------------------------
(* The subscriber task *)

Forget ==
    /\ sym' = None /\ ids' = {} /\ affected' = {}
    /\ rows' = NoRows /\ prices' = Unread

\* The handler returned or raised: wait for the next message.
Listen ==
    /\ sub' = "listening"
    /\ Forget

Subscribe ==
    /\ sub = "starting"
    /\ sub' = "listening"
    /\ UNCHANGED <<feedVars, cmVars, world, handler, missed, faults, outages, queue>>

\* A message arrives: take a copy of the watched portfolio ids.
Receive ==
    /\ sub = "listening" /\ queue # <<>>
    /\ queue' = Tail(queue)
    /\ IF keys = {}
       THEN UNCHANGED <<sub, sym, ids>>
       ELSE sub' = "loading" /\ sym' = Head(queue) /\ ids' = keys
    /\ UNCHANGED <<feedVars, cmVars, world, affected, rows, prices,
                   missed, faults, outages>>

\* get_by_id: each watched portfolio in a query of its own.
Load(p) ==
    /\ sub = "loading" /\ p \in ids
    /\ LET hit  == p \in exists /\ sym \in holds[p]
           then == IF hit THEN affected \cup {p} ELSE affected
       IN IF ids = {p} /\ then = {}
          THEN Listen
          ELSE /\ sub' = IF ids = {p} THEN "pricing" ELSE "loading"
               /\ ids' = ids \ {p}
               /\ affected' = then
               /\ rows' = IF hit THEN [rows EXCEPT ![p] = holds[p]] ELSE rows
               /\ UNCHANGED <<sym, prices>>
    /\ UNCHANGED <<feedVars, cmVars, world, missed, faults, outages, queue>>

\* get_prices: one MULTI/EXEC for the symbols of all affected portfolios.
ReadPrices ==
    /\ sub = "pricing"
    /\ prices' = cache
    /\ sub' = "broadcasting"
    /\ UNCHANGED <<feedVars, cmVars, world, sym, ids, affected, rows,
                   missed, faults, outages, queue>>

\* The handler is between two broadcasts: it does not yield to the event
\* loop there.
Busy == sub = "broadcasting" /\ at = None

Broadcast(p) ==
    /\ Busy /\ p \in affected
    /\ affected' = affected \ {p}
    /\ IF conns[p] = {}
       THEN UNCHANGED cmVars
       ELSE CM!Begin(p, Metrics(rows[p], prices))
    /\ UNCHANGED <<feedVars, world, sub, sym, ids, rows, prices,
                   missed, faults, outages, queue>>

HandlingEnds ==
    /\ Busy /\ affected = {}
    /\ Listen
    /\ UNCHANGED <<feedVars, cmVars, world, missed, faults, outages, queue>>

BroadcastGoesOn ==
    /\ CM!SendNext \/ CM!SendLast
    /\ missed' = (missed \/ (at' = None /\ churned))
    /\ UNCHANGED <<feedVars, world, sub, handler, faults, outages, queue>>

\* The RuntimeError leaves the handler: the portfolios still to be broadcast
\* to are dropped with it.
BroadcastAborts ==
    /\ CM!SendThenAbort
    /\ missed' = TRUE
    /\ Listen
    /\ UNCHANGED <<feedVars, world, faults, outages, queue>>

\* A database or Redis call of the handler raises: the message is dropped.
HandlerFails ==
    /\ sub \in {"loading", "pricing"}
    /\ faults < MaxFaults /\ faults' = faults + 1
    /\ Listen
    /\ UNCHANGED <<feedVars, cmVars, world, missed, outages, queue>>

\* subscribe() or listen() raises outside the try: the task is over, and
\* nobody starts it again.
SubscriberDies ==
    /\ sub \in {"starting", "listening"}
    /\ outages < MaxOutages /\ outages' = outages + 1
    /\ sub' = "dead" /\ queue' = <<>>
    /\ UNCHANGED <<feedVars, cmVars, world, handler, missed, faults>>

\* The client library reconnects by itself: what was published meanwhile is
\* lost.
Reconnect ==
    /\ sub \notin {"starting", "dead"}
    /\ outages < MaxOutages /\ outages' = outages + 1
    /\ queue' = <<>>
    /\ UNCHANGED <<feedVars, cmVars, world, sub, handler, missed, faults>>

-----------------------------------------------------------------------------
(* The feed *)

Held(s) == \E p \in exists : s \in holds[p]

\* (Mutants of Deliver: messages that arrive while one is handled are lost;
\* messages are not decoded.)
DeliverIfIdle(s) ==
    queue' = IF sub # "listening" THEN queue ELSE Append(queue, s)
DeliverRaw(s) ==
    queue' = IF sub \in {"starting", "dead"} THEN queue ELSE Append(queue, <<s>>)

\* A published message reaches a subscriber that is connected.
Deliver(s) ==
    queue' = IF sub \in {"starting", "dead"} THEN queue ELSE Append(queue, s)

FeedPut(s) ==
    /\ Held(s)
    /\ Feed!Put(s, price[s])
    /\ UNCHANGED <<cmVars, world, subVars, queue>>

FeedAnnounce(s) ==
    /\ s \in owed
    /\ Len(queue) < MaxQueue
    /\ Feed!Announce(s)
    /\ Deliver(s)
    /\ UNCHANGED <<cmVars, world, subVars>>

\* s is on its way to the browsers.
UnderWay(s) ==
    \/ s \in owed
    \/ \E k \in 1..Len(queue) : queue[k] = s
    \/ sym = s

\* (Mutant of FeedExpire: prices are cached without a lifetime.)
FeedKeeps(s) == cache[s] # None /\ FALSE /\ UNCHANGED vars

FeedExpire(s) ==
    /\ cache[s] # None
    /\ \/ ~UnderWay(s) /\ UNCHANGED delays
       \/ UnderWay(s) /\ delays < MaxDelays /\ delays' = delays + 1
    /\ Feed!Expire(s)
    /\ UNCHANGED <<cmVars, price, exists, holds, moves, edits, restarts, subVars, queue>>

FeedSlip(s) ==
    /\ slips < MaxSlips /\ slips' = slips + 1
    /\ \/ Held(s) /\ cache' = [cache EXCEPT ![s] = price[s]] /\ UNCHANGED owed
       \/ s \in owed /\ owed' = owed \ {s} /\ UNCHANGED cache
    /\ UNCHANGED <<cmVars, world, subVars, queue>>

MovePrice(s) ==
    /\ moves < MaxMoves /\ moves' = moves + 1
    /\ \E p \in Prices \ {price[s]} : price' = [price EXCEPT ![s] = p]
    /\ UNCHANGED <<feedVars, cmVars, exists, holds, edits, delays, restarts, subVars, queue>>

-----------------------------------------------------------------------------
(* The REST side and the browsers *)

Edit == edits < MaxEdits /\ edits' = edits + 1

EditPosition(p, s) ==
    /\ Edit /\ p \in exists
    /\ holds' = [holds EXCEPT ![p] = IF s \in @ THEN @ \ {s} ELSE @ \cup {s}]
    /\ UNCHANGED <<feedVars, cmVars, price, exists, moves, delays, restarts, subVars, queue>>

DeletePortfolio(p) ==
    /\ Edit /\ p \in exists
    /\ exists' = exists \ {p}
    /\ holds' = [holds EXCEPT ![p] = {}]
    /\ UNCHANGED <<feedVars, cmVars, price, moves, delays, restarts, subVars, queue>>

Endpoint(w) ==
    /\ ~Busy
    /\ \/ CM!Open(w)
       \/ Of[w] \in exists /\ CM!Authorize(w)
       \/ ep[w] = "lookup" /\ Of[w] \notin exists /\ CM!Refuse(w)
       \/ CM!Connect(w) \/ CM!HandshakeFails(w) \/ CM!Leave(w)
    /\ UNCHANGED <<feedVars, world, subVars, queue>>

EndpointBreaks(w) ==
    /\ ~Busy /\ CM!Break(w)
    /\ UNCHANGED <<feedVars, world, subVars, queue>>

BrowserGone(w) ==
    /\ CM!PeerGone(w)
    /\ UNCHANGED <<feedVars, world, subVars, queue>>

-----------------------------------------------------------------------------
(* The process (the lifespan of app/main.py) *)

\* The process ends, stopped or crashed, wherever its tasks are, and another
\* one starts with an empty registry and a new subscriber.  Redis and the
\* database keep what they have; an announcement the process owed may be
\* lost; browsers that are there go on showing what they showed, and connect
\* again.
Restart ==
    /\ restarts < MaxRestarts /\ restarts' = restarts + 1
    /\ \E lost \in SUBSET owed : owed' = owed \ lost
    /\ keys' = {} /\ conns' = [p \in Portfolios |-> {}]
    /\ ep' = [w \in Sockets |->
                  IF ep[w] \in {"refused", "left", "failed"} THEN ep[w]
                  ELSE IF peer[w] = "open" THEN "new" ELSE "failed"]
    /\ CM!Idle /\ sent' = {} /\ dead' = {}
    /\ sub' = "starting" /\ queue' = <<>> /\ Forget
    /\ UNCHANGED <<cache, slips, peer, breaks, view, price, exists, holds,
                   moves, edits, delays, missed, faults, outages>>

-----------------------------------------------------------------------------

SubscriberStep ==
    \/ Subscribe \/ Receive \/ ReadPrices \/ HandlingEnds
    \/ \E p \in Portfolios : Load(p) \/ Broadcast(p)
    \/ BroadcastGoesOn \/ BroadcastAborts

Next ==
    \/ SubscriberStep
    \/ HandlerFails \/ SubscriberDies \/ Reconnect
    \/ \E s \in Symbols :
           FeedPut(s) \/ FeedAnnounce(s) \/ FeedExpire(s) \/ FeedSlip(s) \/ MovePrice(s)
    \/ \E p \in Portfolios, s \in Symbols : EditPosition(p, s)
    \/ \E p \in Portfolios : DeletePortfolio(p)
    \/ \E w \in Sockets : Endpoint(w) \/ EndpointBreaks(w) \/ BrowserGone(w)
    \/ Restart

Spec == Init /\ [][Next]_vars

\* The event loop runs every task that can go on, and the feed keeps what
\* PriceIngestor shows of it: a price that differs or is missing is put,
\* what is owed is announced, and a price that is left alone expires.
Fairness ==
    /\ WF_vars(SubscriberStep)
    /\ \A w \in Sockets : WF_vars(Endpoint(w))
    /\ \A s \in Symbols :
           /\ WF_vars(cache[s] # price[s] /\ FeedPut(s))
           /\ WF_vars(FeedAnnounce(s))
           /\ WF_vars(FeedExpire(s))

FairSpec == Spec /\ Fairness

-----------------------------------------------------------------------------
(* Properties *)

TypeOK ==
    /\ CM!TypeOK
    /\ cache \in [Symbols -> Prices \cup {None}] /\ owed \subseteq Symbols
    /\ price \in [Symbols -> Prices]
    /\ exists \subseteq Portfolios /\ holds \in [Portfolios -> SUBSET Symbols]
    /\ sub \in {"starting", "listening", "loading", "pricing", "broadcasting", "dead"}
    /\ queue \in Seq(Symbols) /\ Len(queue) <= MaxQueue
    /\ sym \in Symbols \cup {None}
    /\ ids \subseteq Portfolios /\ affected \subseteq Portfolios
    /\ rows \in [Portfolios -> SUBSET Symbols]
    /\ prices \in [Symbols -> Prices \cup {None}]
    /\ missed \in BOOLEAN

Shows(w, s) == s \in DOMAIN view[w] /\ view[w][s] = cache[s]

\* The browser of w has been updated before, and shows another price for s
\* than the cache has.
Outdated(w, s) ==
    /\ CM!Live(w) /\ view[w] # None
    /\ s \in holds[Of[w]] /\ cache[s] # None
    /\ ~Shows(w, s)

\* An update of w that will show the cached price of s is on its way.
Coming(w, s) ==
    LET p == Of[w] IN
    \/ s \in owed
    \/ \E k \in 1..Len(queue) : queue[k] = s
    \/ sub \in {"loading", "pricing"} /\ sym = s /\ p \in ids \cup affected
    \/ /\ sub = "broadcasting" /\ prices[s] = cache[s]
       /\ p \in affected \/ (at = p /\ w \notin sent)

Untroubled ==
    slips = 0 /\ faults = 0 /\ outages = 0 /\ edits = 0 /\ restarts = 0 /\ ~missed

\* Prices change, expire and are announced while the handler works on older
\* ones; still no price is forgotten: a browser that shows an outdated price
\* is about to be sent the current one.
NothingForgotten ==
    Untroubled => \A w \in Sockets, s \in Symbols : Outdated(w, s) => Coming(w, s)

\* A browser that stays connected to a portfolio that goes on holding s gets
\* the price of s: failures, lost announcements, aborted broadcasts, edits and
\* restarts of the process only delay it until the price expires, is put again
\* and announced again.  (A subscriber that has died stays dead until then.)
ViewsConverge ==
    \A w \in Sockets, s \in Symbols :
        (<>[](CM!Live(w) /\ s \in holds[Of[w]]) /\ <>[](sub # "dead"))
            => []<>(view[w] # None /\ Shows(w, s))

\* main.py, line 39: "redis unavailable on startup -- continuing anyway".
\* The same, though the connection to Redis was down for a while.
ViewsSurviveOutage ==
    \A w \in Sockets, s \in Symbols :
        <>[](CM!Live(w) /\ s \in holds[Of[w]])
            => []<>(view[w] # None /\ Shows(w, s))

=============================================================================
