# Portfolio tracker: TLA+ specifications

Specifications of the real-time portfolio tracker in this repository: a FastAPI
backend (`app/`) that polls stock prices into Redis and pushes portfolio values
over WebSockets, and a React client (`frontend/src/`) that shows them. TLC checks
them on small instances; TLAPS proves the main invariants for every instance.

Paths below are relative to the repository root.

## The system

| Component | Source | State | Operations | Talks to |
|---|---|---|---|---|
| Price ingestor | `app/market_data/ingestor.py` | none between ticks | a tick every 5 s: read held symbols, fetch, compare, `setex`, `publish` | database, provider, Redis |
| Finnhub provider | `app/market_data/finnhub_provider.py` | `_last_prices`, in memory | `fetch_prices`: one request per symbol, last price or a hard-coded one on failure | Finnhub |
| Price cache | `app/cache/price_cache.py` | Redis `price:<symbol>`, 60 s lifetime | `set_price`, `get_price`, `get_prices` | Redis |
| Redis subscriber | `app/websocket/subscriber.py` | its pub/sub connection | per message: watched ids, load portfolios, read prices, broadcast | Redis, database, registry |
| Connection registry | `app/websocket/manager.py` | `_connections`: portfolio → set of sockets | `connect`, `disconnect`, `broadcast_to_portfolio` | browsers |
| WebSocket endpoint | `app/websocket/router.py` | one coroutine per socket | check token and owner, register, receive until closed | database, registry |
| Lifespan | `app/main.py` | the two tasks of the process | start, cancel | |
| REST: portfolios, positions | `app/api/v1`, `app/domain`, `app/repositories`, `app/dependencies.py` | PostgreSQL rows | create, read, update, delete in one transaction per request | database, cache |
| Accounts | `app/domain/auth`, `app/core/security.py` | users | register, log in | database |
| Calculator | `app/domain/portfolio/calculator.py` | pure | market value, profit and loss, rounding | |
| Browser socket | `frontend/src/ws/usePortfolioSocket.js` | last payload, retry timer | connect, reconnect after 3 s, close on unmount | endpoint |
| Detail page | `frontend/src/pages/PortfolioDetailPage.jsx` | REST answer, form | load, add, delete; live payload shadows the REST answer | REST, browser socket |

A price goes provider → ingestor → cache and pub/sub message (symbol only matters)
→ subscriber → registry → browser. The message carries the price, but the subscriber
reads the cache again; so the message is a hint and the cache is the truth.

What makes it hard:

- *Interleaving at awaits.* Ingestor, subscriber and endpoints share one event loop;
  two processes share the cache during a rolling deployment (`.github/workflows/deploy.yml`
  forces a new deployment; the service has `desiredCount: 1`, so the old and the new
  task overlap).
- *Partial failure.* `setex` and `publish` are two calls. An error or a cancellation
  between them leaves a price nobody was told of, and every later tick skips it.
- *Lost messages.* Redis pub/sub keeps nothing for a subscriber that is away.
- *The live set.* A broadcast iterates over a set that other coroutines change.
- *Expiry* both removes prices that are still wanted and repairs lost messages.
- *Check-then-act in transactions.* At READ COMMITTED what a request has checked may no
  longer hold when it writes, and deletions are not even written before the commit, which
  may come after the answer.
- *Closures and shared refs in the browser.* Each run of the hook's effect has its own
  `connect`, all runs share one flag, one socket and one timer.

What correctness means, per component:

- ingestor and cache: a written price is announced unless something failed; after a
  failure it is announced in the end; the cache returns to the market's price and stays;
- registry: live sockets stay registered, gone ones do not come back, an undisturbed
  broadcast reaches everyone, every broadcast ends;
- the pipeline: a browser showing an outdated price is about to be sent the current one;
  whatever went wrong, views converge;
- REST: no orphans, no duplicates, no mixed updates, acknowledged means durable;
- browser: shows the portfolio of its URL, and what the server last said of it.

## Modules

| Module | Models | Checked by | Proofs |
|---|---|---|---|
| `PriceFeed` | abstract: prices are put, announced, expire; announcements are lost only to slips | refined by `PriceIngestor` | |
| `PriceIngestor` | ticks of any number of processes, provider memory, cache with lifetimes, failures | `MCPriceIngestor` | `PriceIngestorProofs` |
| `ConnectionManager` | registry, endpoints, broadcast over the live set | `MCConnectionManager` | `ConnectionManagerProofs` |
| `LiveUpdates` | subscriber, composed of `PriceFeed` and `ConnectionManager` | `MCLiveUpdates` | `LiveUpdatesProofs` |
| `PortfolioSocket` | the browser's hook, over changes of portfolio and unmounting | as part of `DetailPage` | `PortfolioSocketProofs` |
| `DetailPage` | the page around its hook: its GETs as the server answers them, form, what is displayed | `MCDetailPage` | `DetailPageProofs` |
| `AtomicStore` | abstract: a request does all it was asked for at once, or nothing, to its user's rows | refined by `PortfolioStore` | |
| `PortfolioStore` | requests that write the database, statement by statement | `MCPortfolioStore` | `PortfolioStoreProofs`, `PortfolioStoreAckProofs`, `PortfolioStoreAtomicProofs` |

### PriceIngestor

`pc[i]` is where the task of process `i` awaits: `awake` (about to query symbols),
`fetching`, `comparing` (GET under way), `writing` (SETEX), `publishing`, `asleep`;
`down` after a crash, `stopped` after a shutdown. `todo`, `new`, `cur`, `last` are the
locals of the tick and the provider's `_last_prices`. `cache` and `ttl` are Redis. The
order in which a tick handles its symbols is that of a Python set and is left open
twice (fetching, comparing), which allows more than the code does.

`silent` is a ghost: the symbols written but not published since. Any publication of
the symbol settles it, since subscribers read the cache.

A call under way when something fails may have reached Redis or not (`InFlight`). A
failure of the database or Redis ends the tick (`TickFails`); `Crash` loses `last`;
`Shutdown` is the cancellation by the lifespan, at any await, and only a cancelled
sleep is no fault. Time is counted in poll intervals (`Elapse`), lifetimes too; the
code's 60 s are 12 intervals of 5 s, the runs use 2. With `PromptTicks` every tick ends
within its interval; without it a tick may take any number of them, as ten seconds of
timeout per symbol can.

### ConnectionManager

A step is what happens between two awaits. `ep[w]` is where the endpoint of socket `w`
is; registering is one step with the return of `accept`. The loop of a broadcast has
its state in `at`, `it`, `start`, `seen`, `sent`, `dead`; one step is: the awaited send
returns or raises, then the iterator moves. CPython's rules for that are the external
part: `SizeChanged` (the size is compared before the end of the set is noticed, so
even a change during the last send raises), and, when a change kept the size, an
iterator that may visit or skip anything (`churned`), since additions can rebuild the
table. `detached` says that the dict entry was deleted, so that the iterator's set is
no longer the one new sockets go to. A send may suspend only under back-pressure or on
a closing transport; the model lets every send suspend. A send to a browser that is gone
may raise or not.

### LiveUpdates

`sub` is where the subscriber task awaits. `Receive` copies the watched ids, `Load(p)`
is one `get_by_id` (each a query of its own, reading what is committed by then),
`ReadPrices` the `MULTI`/`EXEC`, `Broadcast(p)` starts `ConnectionManager`'s loop. Between
two broadcasts the handler does not yield; `Busy` keeps the endpoints from running
there. An abort leaves the handler (`BroadcastAborts`), an error of a database or Redis call
drops the message (`HandlerFails`), an error in `subscribe` or `listen` ends the task for
good (`SubscriberDies`); newer clients reconnect by themselves and lose what was
published meanwhile (`Reconnect`).

Payloads keep what the properties tell apart: which symbols have which price.
The feed puts the price the ingestors currently report; `FeedSlip` is a lost announcement. A
price may expire while its announcement is on its way, `MaxDelays` times (a minute of lifetime
against milliseconds of handling, unless something hangs).

`Restart` is the end of the process, by the lifespan or a crash, wherever its tasks are,
together with the start of the next: registry, handler and queue are gone, announcements it
owed may be lost, a dead subscriber is replaced. Redis keeps the cached prices, so the next
ingestor skips them; browsers keep the payload they show (`view`) and connect again, which the
model gives the same name.

### PortfolioStore

A request is one transaction of the session `get_db` yields. `pc[r]` is the statement it
runs next: `check` and `find` are the SELECTs, `insert` and `update` the flushes inside the
handlers, `delete`, `drop` and `cascade` what the commit's flush sends for a deletion, and
`commit`. The committed rows are `users`, `folios`, `positions` and `held` (quantity and
average cost); a row carries the number of the request that made it.

- *SELECT* sees what is committed by then. `FindPosition` may get the object that came with the
  portfolio (SQLAlchemy's identity map returns a live object unrefreshed; whether the
  collector has taken it is open) or the current row. The two SELECTs that load a portfolio
  and its positions are one step: a change between them has the effect of one after it.
- *Locks.* `wrote[r]` are the rows updated or deleted and not committed, an insert stands at
  `commit`. `Blocks` says who waits for whom: the same e-mail, the same row, and the
  foreign key of an inserted position against the deletion of its portfolio. The positions
  of one deletion are locked at once; the code deletes them in the order of their keys, the
  same for everybody. `Deadlock` ends a request of a cycle of two.
- *The answer.* `AckFirst` is the order in which FastAPI, from 0.118 on, sends the response and
  runs the rest of `get_db`; `pyproject.toml` asks for 0.115 or later, which allows both. The
  run takes the harder one, the proofs both.
- `Fail` is a database call that raises; during the commit the server may have committed.

`AtomicStore` is what is left of it from outside: the same rows and calls, and one step per request
that is carried out. The refinement mapping is the identity: the abstract variables are among those
of `PortfolioStore`. It promises no more than READ COMMITTED gives: a symbol may be there
twice, and an update may set some of its columns, or none (it found the rest unchanged).

`committed` and `prior` are history: whose transaction went through, and which requests had
ended when a request arrived (two requests overlap when neither is in the `prior` of the other).

### PortfolioSocket

One instance of the detail page, from mounting to after unmounting; a new visit is a new
instance with refs of its own. A step is one task of the browser's event loop. `runs` counts
the runs of the effect and `of` is the portfolio each closed over; the id changes without
unmounting when the history jumps from one portfolio's page to another's, and React's
StrictMode (`main.jsx`) re-runs the effect once in the development build. `st[w]` is the
`readyState`, `run[w]` the run whose `connect` made the socket; `timers` are the pending timeouts,
each named after the socket whose `onclose` set it; `wsRef`, `retryTimer`, `unmounted` are the
refs. A closed socket reports it in a later task (`closing`); by then the next run has reset
`unmounted`, so the old run connects again: to the old portfolio, or a second time to the
same one. What holds in spite of that are the properties; what does not is that a page shows
only its own portfolio, and that leaving it closes every socket it opened.

### DetailPage

`PortfolioSocket` and the component around it, each of whose steps is a step of the hook or
leaves the hook alone. The server is what a client knows of it. A position is `posted`, `stored`
some time later, before or after the POST is answered (`AckFirst` in `PortfolioStore` is the
reason), and `priced` by a later tick; its price may expire (`Expire`) and come back (`Price`).
`lapsed` remembers whose price has expired since the page was opened; no step depends on it.

A GET is `asked`, then takes the two steps of `get_portfolio`: `FindRows(g)` up to the database's
answer, `ReadPrices(g)` from the cache's, which leaves out what has no price
(`portfolio/service.py:28-35`, `calculator.py:37-40`). What is left is `answered`, and arrives
(`Loaded`, `Reread`). Positions and prices change between these steps. Each run of the load effect
has a GET of its own, and they may overtake each other; that of the form is number `ReGet`.

`adding` is where `handleAddPosition` is, `target` the id it closed over. What is shown is
`display`: a payload if there is one, else the last answer. A payload shows what is stored and
priced; how it comes about is the subject of `LiveUpdates`, and here it arrives when it is computed.
Adding is the only change a page can make: neither answers nor payloads have the `id`
its delete button sends (`calculator.py:21-29`), and the server refuses that request.

At the beginning what is stored is priced; a page that finds it unpriced is one whose price has
expired first.

## Runs

| Run | Question | Expected |
|---|---|---|
| `ingestor` | one process, two symbols, one fault, one missed quote, two moves of the market or the positions | passes |
| `ingestor_rolling` | two processes on one cache, the old one shut down anywhere; two faults | passes |
| `ingestor_lifetime` | do prices expire only when the ingestor stops? | violated |
| `ingestor_fallback` | is a failed request answered from the cache? | violated |
| `connections` | three sockets of one portfolio against repeated broadcasts | passes |
| `connections_churn` | does a broadcast reach everyone who stays? | violated |
| `live_churn` | two browsers coming and going while prices move, expire and are announced | passes |
| `live_troubles` | one browser and one of each trouble, a restart of the process among them | passes |
| `live_outage` | do live updates survive Redis being away? | violated |
| `store` | three requests at once against one portfolio, answered before the commit, one failure | passes |
| `store_duplicates` | is there one position per symbol? | violated |
| `page` | the page and its hook through two runs of their effects, one broken connection or added position, one failing call or expiring price, and leaving | passes |

Why the bounds are enough: the interesting orders involve two writers of one key, or one
socket joining or leaving during the send to another, a third being the one that misses
out; prices only matter as equal or different, so two values (and the fallback) do; a
lifetime of two intervals separates "renewed in time" from "expires between two ticks".
Of the hook's runs, two are enough for an old one to interfere; the safety of the hook for more
runs and breaks is proved. One added position separates an answer or payload from before it
from one after it, which is all a page can get wrong about it. In the
page's run a broken connection and an added position exclude each other (`MaxEvents`), as do a
failing call and an expiry (`MaxTroubles`), to keep it small: to the page, a broken connection is a
pause of the payloads, and they may pause anyway. The safety properties are proved for any
bounds. Races in the store need two requests, and a third to set the stage (add the position) or to
find what the two left; `MaxRequests = 5` counts the two that made the initial rows.
Counters (`MaxMoves`, `MaxMisses`, `MaxFaults`, `MaxSlips`, `MaxEdits`, `MaxOutages`,
`MaxBreaks`, `MaxDelays`, `MaxRestarts`, `MaxAdds`, `MaxEvents`, `MaxTroubles`) bound what the
environment does, so that the liveness properties speak about the time after the last disturbance; `MaxQueue` bounds the messages waiting.

Deadlock is not checked for the runs of `ConnectionManager`, `LiveUpdates`, `PortfolioStore` and `DetailPage`: a
socket or a request is used once, and when all are over nothing is left to do. (That
requests do not wait for each other for ever is `RequestsEnd`.)

Findings of the violated runs:

- *Expiry while running.* An unchanged price is skipped and its lifetime not renewed, so
  it expires after 60 s although the ingestor runs; until the next tick the position is
  missing from REST answers and payloads. But that expiry is also what repairs a lost
  publication: `SilenceEnds` fails for a `Skip` that renews the lifetime (its mutant).
- *Fallback.* After a restart, one failed request overwrites the cached market price with
  a hard-coded one.
- *Churn.* A socket joining or leaving during a broadcast aborts it for everyone else.
- *Outage.* Redis being away at the wrong moment ends the subscriber for good.
- *Duplicates.* Two overlapping adds put a symbol into a portfolio twice, and every further
  add of it is an internal error.

### Properties

- `NoSilentPrice`: without a fault, an unannounced cached price is about to be
  published, for any number of processes.
- `TickIsConsistent`: a tick writes only what it fetched.
- `SilenceEnds`, `CacheTracksQuote`, `HeldIsPriced`: recovery of announcements, of the
  right price, of a price at all.
- `ImplementsFeed`: the ingestors refine `PriceFeed`.
- `LiveStayRegistered`, `NoGhosts`, `NoEmptyEntries`: the registry against the endpoints.
- `UndisturbedIsComplete`, `BroadcastEnds`, `GoneUnregistered`: the broadcast and the leaving.
- `NothingForgotten`: an outdated view is about to be updated: the announcement is owed,
  queued, or being handled with the price read not before it, though prices may expire meanwhile.
- `ViewsConverge`: a browser that stays gets the price, whatever failed and however often the
  process was restarted, unless the subscriber task is dead for good. (A restart is the only
  thing that brings it back.)

- `PositionsHaveFolio`, `OnlyRacesDuplicate`, `EmailsUnique`: what locks, constraints and checks
  make of concurrent requests; retrying after a failure or in doubt creates no duplicate.
- `UndisturbedUpdate`: an update writes the columns that differ from what it loaded; unless
  another update of the position was committed since it arrived, the result is what was asked for.
- `ImplementsAtomicStore`: the requests refine `AtomicStore`. What a request checked in its first
  statements (the owner, the portfolio of a position, the account) still holds when its commit
  writes; a deletion leaves nothing of the portfolio, not even what was added meanwhile; a
  request that fails, wherever it fails, leaves nothing.
- `AckedHappens`: an answer sent before the commit comes true, unless a database call fails.
  Deletions are the delicate part: the victim of a deadlock has answered already, and
  what it promised is done by the other side.
- `SomebodyGoesOn`, `RequestsEnd`: while requests are under way one of them need not wait, or two
  wait for each other, which the server resolves; and no request waits for ever.
- `OnePerRun`, `NeverGivesUp`: a run of the effect never has two attempts, and the run that
  counts always has one, although all overwrite each other's timer.
- `LeavesFewer`: leaving a page leaves nothing behind if the effect ran once, and otherwise
  the attempts of one run less than there were (a leak of one connection per further run is
  possible; its messages are ignored, and it is not renewed once it breaks).
- `BadgeIsTrue`, `Reconnects`: what the badge shows.
- `OnlyExpiryTakesBack`: before its first payload, a page opened once takes back what it has shown
  only where the price has expired. That it does so then follows from *Expiry while running*: the
  re-read after an add may leave out a position whose price did not move for a minute, and the page
  shows it again only when a payload comes. Other than that no order of loads, re-reads, commits
  and ticks takes anything back. It rests on the form not being there before the load was
  answered (its mutant shows it at once); with a second run of the effect it does not hold.
- `PageComesRight`: whichever answer arrived last, and whatever old runs display meanwhile, a page
  that stays shows its own portfolio and all its positions in the end. This is owed to the
  payloads: the page of a portfolio without priced positions, reached from another one's page, may
  go on showing the other's late answer, which is why the property excludes it. Nor does it hold
  after a failed load, even one of the previous portfolio: the error hides the page for good
  (`PortfolioDetailPage.jsx:58,89`).

### Fairness

- Ingestor: weak fairness of each task's steps (the event loop runs what can run, and every
  call returns or raises: quote requests have a timeout), of `Restart` (the container
  scheduler replaces a crashed task), of expiry and of time. None for `Shutdown` and the market.
- Registry: weak fairness of the broadcast and of each endpoint. For sends this means that
  a browser that stops reading is closed in the end (the server pings every socket and
  closes it when no answer comes); until then it holds up everybody.
- Pipeline: the same, and of the feed what `PriceIngestor` shows of it: a differing or
  missing price is put (`HeldIsPriced`, `CacheTracksQuote`), what is owed is announced
  (`NoSilentPrice` and the task's fairness), a price left alone expires.
- Store: weak fairness of the statements taken together (something goes on while something
  can). There are finitely many requests and each has finitely many statements, so that is enough.
- Page: weak fairness of each socket's events and timers, of the requests and their answers, of
  putting a missing price (`HeldIsPriced`); of payloads, that they keep coming on an open
  connection of the page's current run for a portfolio that holds something: prices move, or expire
  and are announced again (`ViewsConverge`). `MaxTroubles` bounds the expiries, so in the end
  payloads show all positions.

## Proofs

`PriceIngestorProofs`, for any processes, symbols, prices, lifetime and bounds, from
`ConstantsAssumption`:

- `TypeCorrect`, `TickConsistent`: the inductive invariant is `TypeOK /\ TickIsConsistent`.
  `TypeOK` alone is not inductive: `Write` uses `cur[i]` and `new[i][cur[i]]` unchecked.
- `NothingSilent`: inductive with it. Interruptions are faults, except the
  cancelled sleep; of the others only `Write` and `Publish` touch `silent`.
- `FeedImplemented`: the refinement, step by step (`StepKinds` sorts the actions by what
  the feed sees). `owed` is mapped to the silent symbols some process is publishing.

`ConnectionManagerProofs`, for any sockets and portfolios, from `SocketsAssumption`:

- `TypeCorrect`, `LiveRegistered`, `NoGhostRegistered`, `EntriesHaveMembers`: one inductive
  invariant. `LiveStayRegistered` needs that the dead of a broadcast have no browser
  any more (`LoopOK`), as pruning happens long after the failed send.
- `UndisturbedComplete`: while the set is unchanged the iterator is exact (`IterationOK`).

`PortfolioStoreProofs`, for any calls, number of requests and failures, answering before or
after the commit, from `StoreAssumption`:

- `TypeCorrect`, `NoOrphans`, `DuplicatesAreRaces`, `OneAccountPerEmail`,
  `UndisturbedUpdatesWhole`: one inductive invariant. Per request it says what its stage
  means: what it has locked (`LocksOK`), what its insert relies on (`InsertOK`), that what it
  loaded is still there unless disturbed (`LoadedOK`). Per pair of requests it says what locks
  exclude (`Compatible`); without that part no check would survive until the commit. A
  deletion of a portfolio that has reached its commit has locked every position in it, which
  is why the cascade is a statement of its own in the model.

`PortfolioSocketProofs`, for any portfolios, number of runs and failures, from `SocketAssumption`:

- `TypeCorrect`, `OneAttemptPerRun`, `AlwaysTrying`, `LeavingEndsOne`, `BadgeCorrect`: one
  inductive invariant. `LastOK` (the socket made last is alive, or the timer set last is
  pending) is why leaving always ends one run. That sockets do not run out is a count
  (`CountOK`): sockets made, and timeouts and closing sockets that may lead to more.

`DetailPageProofs`, for any portfolios, runs, submissions and failures, from `PageAssumption`:

- `PageUsesHook`: each step of the page is a step of the hook or invisible to it, so the theorems
  above hold in the page.
- `PageTypeCorrect`: inductive with the hook's invariant.
- `OnlyExpiriesTakeBack`: while the effects have run once and no payload has come, a load is on
  its way only until something is shown (`LoadOK`), and an add begins only after that (`AddOK`).
  What a GET holds is stored, and once its prices are read, priced or lapsed (`RowsOK`); so is what
  is shown (`ShownOK`). As nothing stored goes away, the re-read finds all that is shown, and
  what it then leaves out has lost its price.

`PortfolioStoreAckProofs`, from the same assumption:

- `AcknowledgedHappens`: an answer given before the commit can only be lost to a failure or to
  a deadlock. The invariant says what the victim of a deadlock leaves behind (`DebtOK`): its portfolio
  is gone, or another request is about to delete it (`Deleting`), as the one it waited for now goes on.
  When that one falls victim to a third, the third takes over.
- `OnlyDeletionsDeadlock`: who waits and has locked something is deleting a portfolio and keeps to
  its rows (`DeletionOK`), so two that wait for each other delete the same one.
- `LocksResolve`: of the waiting deletions of a portfolio at most one has locked it; the others wait
  for that one, and it for one of them. So there are no larger circles, and the model's
  `Deadlock`, which ends a request of a circle of two, leaves out none.

`PortfolioStoreAtomicProofs`, from the same assumption:

- `AtomicImplemented`: the refinement, step by step. A request that is asked for is `Ask`, a commit (or
  a failure during which the server committed) is `CarryOut`, one case per kind of request
  (`AtomicCarryOut`), and every other step changes nothing the abstract store sees (`AtomicStutter`).
  The commit needs what earlier statements have found (`OwnOK`): owner and portfolio of a row never
  change, a deleted row never comes back, and a deletion at its commit has locked what it is to delete
  or it is gone. That what it has locked is exactly the contents of the portfolio takes the other
  invariants: `LocksOK`, `PositionsHaveFolio` and `DeletionOK`.

`LiveUpdatesProofs`, for any symbols, prices, portfolios, sockets and bounds, from `LiveAssumption`:

- `RegistryStaysRight`: the registry's invariant, kept by the lemmas of `ConnectionManagerProofs`
  (`Reg` is an instance of it), by the way the subscriber uses it, and by the end of the process.
- `TypeCorrect`: needs that a broadcast is under way only while a message is handled (`PhaseOK`).
- `NoPriceForgotten`: `NothingForgotten` is not inductive. That the current price is sent needs that
  what was loaded is what the portfolios hold and the payload is made of it (`RowsOK`); that a price
  which changed since it was read is announced again (`PricesOK`); that only registered sockets have
  been shown anything, so that nobody becomes live with an old view, and that a broadcast sends each
  what is meant for it (`ViewsOK`); that nobody was shown anything before the subscriber listens,
  when messages are not kept (`EarlyOK`); and, from the registry, that watched portfolios are
  found and that an unchanged set is visited completely. All of this holds as long as there was no
  trouble, and troubles are counted (`TroublesLast`).
- `ComponentsAsPromised`: the composition asks of the feed and of the registry no step they do
  not have, but for `Restart`, which neither has: it empties the registry and may lose several
  announcements at once.

Liveness (`ViewsConverge`, `RequestsEnd`, `Reconnects` and the others under fairness) stays with TLC:
the prover does not handle `ENABLED`. Every invariant that a passing run checks is proved.

## Not modelled

Tokens and password hashing (libraries), login and the requests that only read (but `get_portfolio`, in
`DetailPage`), settings, logging, health check, OpenAPI, the
mock provider (a random walk for development), the forms of the other pages,
infrastructure, the calculator's decimal arithmetic (without state, and unit-tested). Of the
detail page, the typed input and the delete button, whose request cannot succeed. The number of
pooled connections: a call that raises stands for an empty pool, in the tick, in the handler and
at the subscription.

## Plan

1. `PriceIngestor`, `ConnectionManager`, `LiveUpdates`, `PortfolioStore`, `PortfolioSocket`,
   `DetailPage` — done.
2. Proofs of every invariant, of the action properties and of both refinements — done.
3. Further: an abstract specification of what a browser is promised, between `PriceFeed` and
   its view, that `LiveUpdates` implements while nothing fails.
