--------------------------- MODULE PriceIngestor ---------------------------
(***************************************************************************)
(* The market-data side of the tracker: the background task run_ingestor   *)
(* (app/market_data/ingestor.py), the Finnhub provider it polls            *)
(* (app/market_data/finnhub_provider.py) and the Redis price cache it      *)
(* keeps (app/cache/price_cache.py).                                       *)
(*                                                                         *)
(* A tick reads the symbols held in any portfolio, asks the provider for   *)
(* each of them, and then, symbol by symbol, GETs the cached price, skips  *)
(* the symbol if it is unchanged, SETEXes the new price and PUBLISHes it.  *)
(* Every one of these is an await, so several backend processes (a rolling *)
(* deployment runs the old and the new one together) interleave there, and *)
(* a process can crash, be shut down, or see Redis fail there.             *)
(*                                                                         *)
(* Time is counted in poll intervals: the action Elapse is the passing of  *)
(* one.  What the subscriber does with a publication is in LiveUpdates.    *)
(***************************************************************************)
EXTENDS Integers, FiniteSets

CONSTANTS
    Processes,    \* backend processes, each with its own ingestor task
    Leaving,      \* the processes a deployment may shut down for good
    Symbols,
    Prices,       \* what the market quotes (already rounded to cents)
    Fallback,     \* the price invented for a symbol with no known quote
    None,         \* no price, no symbol
    TTL,          \* lifetime of a cached price, in poll intervals
    PromptTicks,  \* TRUE: every tick ends within its poll interval
    MaxMoves,     \* bound on the changes of quotes and of held symbols
    MaxMisses,    \* bound on failed quote requests
    MaxFaults     \* bound on failed Redis or database calls, crashes, kills

ASSUME ConstantsAssumption ==
    /\ None \notin Symbols \cup Prices \cup {Fallback}
    /\ Leaving \subseteq Processes
    /\ TTL \in Nat \ {0}
    /\ PromptTicks \in BOOLEAN
    /\ MaxMoves \in Nat /\ MaxMisses \in Nat /\ MaxFaults \in Nat

Priced == Prices \cup {Fallback}

VARIABLES
    quote,    \* the market's price of each symbol
    held,     \* the symbols of all positions in the database
    cache,    \* Redis: price:<symbol>
    ttl,      \* Redis: the intervals a cached price has left
    silent,   \* symbols whose cached price was never published (ghost)
    pc,       \* where each ingestor task is
    todo,     \* symbols its tick has still to fetch, then to compare
    new,      \* new_prices: the prices fetched in this tick
    cur,      \* the symbol being written and published
    last,     \* the provider's _last_prices
    moves, misses, faults   \* bounded counters

market == <<quote, held, moves>>
redis  == <<cache, ttl, silent>>
task   == <<pc, todo, new, cur, last>>
vars   == <<market, redis, task, misses, faults>>

NoPrices == [s \in Symbols |-> None]

Init ==
    /\ quote \in [Symbols -> Prices]
    /\ held \in SUBSET Symbols
    /\ cache = NoPrices
    /\ ttl = [s \in Symbols |-> 0]
    /\ silent = {}
    /\ pc = [i \in Processes |-> "awake"]
    /\ todo = [i \in Processes |-> {}]
    /\ new = [i \in Processes |-> NoPrices]
    /\ cur = [i \in Processes |-> None]
    /\ last = [i \in Processes |-> NoPrices]
    /\ moves = 0 /\ misses = 0 /\ faults = 0

-----------------------------------------------------------------------------
(* Redis *)

\* set_price: SETEX stores the price and starts its lifetime.
SetPrice(s, price) ==
    /\ cache' = [cache EXCEPT ![s] = price]
    /\ ttl' = [ttl EXCEPT ![s] = TTL]
    /\ silent' = silent \cup {s}

\* PUBLISH: subscribers re-read the cache, so any later publication for the
\* symbol, by any process, announces what is cached now.
Announce(s) ==
    /\ silent' = silent \ {s}
    /\ UNCHANGED <<cache, ttl>>

\* (Mutant of Unchanged: a missing price counts as unchanged.)
UnchangedOrMissing(s, price) == cache[s] \in {price, None}

\* GET compared with the fetched price: the symbol is skipped if equal.
Unchanged(s, price) == cache[s] = price

Expire(s) ==
    /\ cache[s] # None /\ ttl[s] = 0
    /\ cache' = [cache EXCEPT ![s] = None]
    /\ UNCHANGED <<ttl, silent, market, task, misses, faults>>

-----------------------------------------------------------------------------
(* One tick of the ingestor task of process i *)

\* The tick is over, or was aborted: sleep for one poll interval.
Asleep(i) ==
    /\ pc' = [pc EXCEPT ![i] = "asleep"]
    /\ todo' = [todo EXCEPT ![i] = {}]
    /\ new' = [new EXCEPT ![i] = NoPrices]
    /\ cur' = [cur EXCEPT ![i] = None]

ReadSymbols(i) ==
    /\ pc[i] = "awake"
    /\ IF held = {}
       THEN Asleep(i)
       ELSE /\ pc' = [pc EXCEPT ![i] = "fetching"]
            /\ todo' = [todo EXCEPT ![i] = held]
            /\ UNCHANGED <<new, cur>>
    /\ UNCHANGED <<last, market, redis, misses, faults>>

\* (Mutant of Fetched: compare what is held by now, not what was fetched.)
FetchedThenHeld(i, s, price) ==
    /\ new' = [new EXCEPT ![i][s] = price]
    /\ IF todo[i] = {s}
       THEN /\ pc' = [pc EXCEPT ![i] = "comparing"]
            /\ todo' = [todo EXCEPT ![i] = held \cup {s}]
       ELSE /\ todo' = [todo EXCEPT ![i] = @ \ {s}]
            /\ UNCHANGED pc
    /\ UNCHANGED <<cur, market, redis, faults>>

\* The provider answers price for s; after the last symbol the tick goes on
\* to compare the fetched prices with the cached ones.
Fetched(i, s, price) ==
    /\ new' = [new EXCEPT ![i][s] = price]
    /\ IF todo[i] = {s}
       THEN /\ pc' = [pc EXCEPT ![i] = "comparing"]
            /\ todo' = [todo EXCEPT ![i] = {t \in Symbols : new[i][t] # None} \cup {s}]
       ELSE /\ todo' = [todo EXCEPT ![i] = @ \ {s}]
            /\ UNCHANGED pc
    /\ UNCHANGED <<cur, market, redis, faults>>

\* (Mutant of FetchQuote: a symbol once quoted is not asked for again.)
FetchQuoteOnce(i, s) ==
    /\ pc[i] = "fetching" /\ s \in todo[i]
    /\ last' = [last EXCEPT ![i][s] = IF @ = None THEN quote[s] ELSE @]
    /\ Fetched(i, s, last'[i][s])
    /\ UNCHANGED misses

FetchQuote(i, s) ==
    /\ pc[i] = "fetching" /\ s \in todo[i]
    /\ last' = [last EXCEPT ![i][s] = quote[s]]
    /\ Fetched(i, s, quote[s])
    /\ UNCHANGED misses

\* The price reported when the quote request failed.
Substitute(i, s) == IF last[i][s] # None THEN last[i][s] ELSE Fallback

\* (Mutant of FetchMiss: the invented price is remembered as a quote.)
FetchMissRemembered(i, s) ==
    /\ pc[i] = "fetching" /\ s \in todo[i]
    /\ misses < MaxMisses /\ misses' = misses + 1
    /\ Fetched(i, s, Substitute(i, s))
    /\ last' = [last EXCEPT ![i][s] = Substitute(i, s)]

FetchMiss(i, s) ==
    /\ pc[i] = "fetching" /\ s \in todo[i]
    /\ misses < MaxMisses /\ misses' = misses + 1
    /\ Fetched(i, s, Substitute(i, s))
    /\ UNCHANGED last

\* Symbol s is dealt with: go on to the next one, or end the tick.
NextSymbol(i, s) ==
    IF todo[i] = {s}
    THEN Asleep(i)
    ELSE /\ pc' = [pc EXCEPT ![i] = "comparing"]
         /\ todo' = [todo EXCEPT ![i] = @ \ {s}]
         /\ cur' = [cur EXCEPT ![i] = None]
         /\ UNCHANGED new

\* (Mutant of Skip: an unchanged price has its lifetime renewed.)
SkipRenewing(i, s) ==
    /\ pc[i] = "comparing" /\ s \in todo[i]
    /\ Unchanged(s, new[i][s])
    /\ ttl' = [ttl EXCEPT ![s] = TTL]
    /\ NextSymbol(i, s)
    /\ UNCHANGED <<cache, silent, last, market, misses, faults>>

Skip(i, s) ==
    /\ pc[i] = "comparing" /\ s \in todo[i]
    /\ Unchanged(s, new[i][s])
    /\ NextSymbol(i, s)
    /\ UNCHANGED <<last, market, redis, misses, faults>>

Differs(i, s) ==
    /\ pc[i] = "comparing" /\ s \in todo[i]
    /\ ~Unchanged(s, new[i][s])
    /\ pc' = [pc EXCEPT ![i] = "writing"]
    /\ cur' = [cur EXCEPT ![i] = s]
    /\ UNCHANGED <<todo, new, last, market, redis, misses, faults>>

\* (Mutant of Write: the first price of a symbol is no change to publish.)
WriteFirstSilently(i) ==
    /\ pc[i] = "writing"
    /\ SetPrice(cur[i], new[i][cur[i]])
    /\ IF cache[cur[i]] = None
       THEN NextSymbol(i, cur[i])
       ELSE pc' = [pc EXCEPT ![i] = "publishing"] /\ UNCHANGED <<todo, new, cur>>
    /\ UNCHANGED <<last, market, misses, faults>>

Write(i) ==
    /\ pc[i] = "writing"
    /\ SetPrice(cur[i], new[i][cur[i]])
    /\ pc' = [pc EXCEPT ![i] = "publishing"]
    /\ UNCHANGED <<todo, new, cur, last, market, misses, faults>>

Publish(i) ==
    /\ pc[i] = "publishing"
    /\ Announce(cur[i])
    /\ NextSymbol(i, cur[i])
    /\ UNCHANGED <<last, market, misses, faults>>

-----------------------------------------------------------------------------
(* Failures.  A call that was under way when the process died, or that the *)
(* client saw fail, may or may not have reached Redis.                     *)

InFlight(i) ==
    \/ UNCHANGED redis
    \/ pc[i] = "writing" /\ SetPrice(cur[i], new[i][cur[i]])
    \/ pc[i] = "publishing" /\ Announce(cur[i])

Fault == faults < MaxFaults /\ faults' = faults + 1

Alive(i) == pc[i] \notin {"down", "stopped"}

\* A database or Redis call raises: run_ingestor logs it, the tick is over.
TickFails(i) ==
    /\ pc[i] \in {"awake", "comparing", "writing", "publishing"}
    /\ Fault /\ InFlight(i) /\ Asleep(i)
    /\ UNCHANGED <<last, market, misses>>

\* The process is gone, and with it the provider's memory.
Halt(i, how) ==
    /\ pc' = [pc EXCEPT ![i] = how]
    /\ todo' = [todo EXCEPT ![i] = {}]
    /\ new' = [new EXCEPT ![i] = NoPrices]
    /\ cur' = [cur EXCEPT ![i] = None]
    /\ last' = [last EXCEPT ![i] = NoPrices]
    /\ UNCHANGED <<market, misses>>

Crash(i) == Alive(i) /\ Fault /\ InFlight(i) /\ Halt(i, "down")

Restart(i) ==
    /\ pc[i] = "down"
    /\ pc' = [pc EXCEPT ![i] = "awake"]
    /\ UNCHANGED <<todo, new, cur, last, market, redis, misses, faults>>

\* lifespan cancels the task, wherever it is waiting; only a cancelled sleep
\* is sure to interrupt nothing.
Shutdown(i) ==
    /\ i \in Leaving /\ Alive(i)
    /\ IF pc[i] = "asleep" THEN UNCHANGED <<redis, faults>>
                           ELSE Fault /\ InFlight(i)
    /\ Halt(i, "stopped")

-----------------------------------------------------------------------------
(* The environment *)

\* A poll interval passes: lifetimes shorten, sleepers wake.
Elapse ==
    /\ \A s \in Symbols : cache[s] = None \/ ttl[s] > 0
    /\ PromptTicks => \A i \in Processes : pc[i] = "asleep" \/ ~Alive(i)
    /\ ttl' = [s \in Symbols |-> IF ttl[s] > 0 THEN ttl[s] - 1 ELSE 0]
    /\ pc' = [i \in Processes |-> IF pc[i] = "asleep" THEN "awake" ELSE pc[i]]
    /\ UNCHANGED <<cache, silent, todo, new, cur, last, market, misses, faults>>

Move == moves < MaxMoves /\ moves' = moves + 1

MoveQuote(s) ==
    /\ Move
    /\ \E p \in Prices \ {quote[s]} : quote' = [quote EXCEPT ![s] = p]
    /\ UNCHANGED <<held, redis, task, misses, faults>>

\* A position is added for s, or the last position in s is deleted.
ChangeHeld(s) ==
    /\ Move
    /\ held' = IF s \in held THEN held \ {s} ELSE held \cup {s}
    /\ UNCHANGED <<quote, redis, task, misses, faults>>

-----------------------------------------------------------------------------

TickStep(i) ==
    \/ ReadSymbols(i)
    \/ \E s \in Symbols : FetchQuote(i, s) \/ FetchMiss(i, s)
    \/ \E s \in Symbols : Skip(i, s) \/ Differs(i, s)
    \/ Write(i)
    \/ Publish(i)

Next ==
    \/ \E i \in Processes : TickStep(i)
    \/ \E i \in Processes : TickFails(i) \/ Crash(i) \/ Restart(i) \/ Shutdown(i)
    \/ \E s \in Symbols : Expire(s) \/ MoveQuote(s) \/ ChangeHeld(s)
    \/ Elapse

Spec == Init /\ [][Next]_vars

\* The event loop goes on, Redis expires keys, time passes, and a crashed
\* process is started again by the service scheduler.
Fairness ==
    /\ \A i \in Processes : WF_vars(TickStep(i)) /\ WF_vars(Restart(i))
    /\ \A s \in Symbols : WF_vars(Expire(s))
    /\ WF_vars(Elapse)

FairSpec == Spec /\ Fairness

-----------------------------------------------------------------------------
(* Properties *)

TypeOK ==
    /\ quote \in [Symbols -> Prices]
    /\ held \subseteq Symbols
    /\ cache \in [Symbols -> Priced \cup {None}]
    /\ ttl \in [Symbols -> 0..TTL]
    /\ silent \subseteq Symbols
    /\ pc \in [Processes -> {"asleep", "awake", "fetching", "comparing",
                             "writing", "publishing", "down", "stopped"}]
    /\ todo \in [Processes -> SUBSET Symbols]
    /\ new \in [Processes -> [Symbols -> Priced \cup {None}]]
    /\ cur \in [Processes -> Symbols \cup {None}]
    /\ last \in [Processes -> [Symbols -> Prices \cup {None}]]
    /\ moves \in 0..MaxMoves /\ misses \in 0..MaxMisses /\ faults \in 0..MaxFaults

\* As long as no call failed and no process died inside a tick, a cached
\* price that was not published is one that some ingestor is just about to
\* publish -- whatever the number of processes that write the cache, and
\* although each of them skips a symbol that another has already cached.
NoSilentPrice ==
    faults = 0 =>
        \A s \in silent : \E i \in Processes : pc[i] = "publishing" /\ cur[i] = s

\* What a tick acts on was fetched in that tick: it never writes an absent
\* price, nor a symbol it has not still to deal with.
TickIsConsistent ==
    \A i \in Processes :
        /\ pc[i] = "comparing" => \A s \in todo[i] : new[i][s] # None
        /\ pc[i] \in {"writing", "publishing"} =>
               cur[i] \in todo[i] /\ \A s \in todo[i] : new[i][s] # None

Running == \E i \in Processes : pc[i] # "stopped"

\* A price that was cached and never published (Redis failed, or the process
\* died, between the SETEX and the PUBLISH) is skipped as unchanged by every
\* later tick; only its lifetime ends that.  So in the end it is published,
\* unless nobody holds the symbol any more or no ingestor is left.
SilenceEnds ==
    \A s \in Symbols :
        (s \in silent) ~> (s \notin silent \/ s \notin held \/ ~Running)

\* When the market rests, the ingestors bring the cached price of a held
\* symbol to the quote -- and no stale price, substitute or fallback held by
\* another process ever replaces it again.
CacheTracksQuote ==
    \A s \in Symbols :
        <>[](cache[s] \in {quote[s], None} \/ s \notin held \/ ~Running)

\* The cached price of a held symbol does not stay away: after it expires
\* some tick finds it missing and writes it again, changed or not.
HeldIsPriced ==
    \A s \in Symbols :
        []<>(cache[s] # None \/ s \notin held \/ ~Running)

\* price_cache.py, line 7: "prices expire after 60
\* seconds if ingestor stops".  While an ingestor runs, on time and without
\* a failure, the price of a symbol that stays held does not expire.
KeptWhileRunning ==
    [][\A s \in Symbols :
           (cache[s] # None /\ s \in held /\ s \in held' /\ Running)
               => cache'[s] # None]_vars

\* finnhub_provider.py, line 28: "Falls back to cached price on API failure".
\* A price that came from the market is never replaced by an invented one.
CachedSurvivesFailure ==
    [][\A s \in Symbols : cache[s] \in Prices => cache'[s] # Fallback]_vars

-----------------------------------------------------------------------------
(* The promise to the other components *)

\* The symbols some ingestor is about to publish.
Owed == {s \in silent : \E i \in Processes : pc[i] = "publishing" /\ cur[i] = s}

Feed == INSTANCE PriceFeed WITH owed <- Owed, slips <- faults,
                                Prices <- Priced, MaxSlips <- MaxFaults

\* Seen from outside, ticks, processes and lifetimes disappear: prices are
\* put, announced and expire, and no announcement is lost without a fault.
ImplementsFeed == Feed!Spec

=============================================================================
