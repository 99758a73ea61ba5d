----------------------------- MODULE DetailPage -----------------------------
(***************************************************************************)
(* The detail page (frontend/src/pages/PortfolioDetailPage.jsx) around its *)
(* hook: what it loads and re-reads over REST, the form that adds a        *)
(* position, and which of the answers and payloads the reader gets to see. *)
(*                                                                         *)
(* The server is what a client knows of it: a position is stored some time *)
(* after it was posted, before or after the answer (see AckFirst in        *)
(* PortfolioStore); then it gets a price, which may expire and come back;  *)
(* a read finds the positions first and then keeps those that have a price *)
(* (get_portfolio, compute_portfolio_metrics); payloads show the same, and *)
(* come for portfolios that hold something.                                *)
(* Nothing is ever deleted here, since neither answers nor payloads carry  *)
(* the id that the delete button passes on (calculator.py, lines 21-29),   *)
(* and that request is refused.                                            *)
(***************************************************************************)
EXTENDS PortfolioSocket

CONSTANTS
    Filled,      \* portfolios that hold positions to begin with
    MaxAdds,     \* bound on submissions of the form
    MaxEvents,   \* bound on submissions and broken connections together
    MaxTroubles  \* bound on REST calls that fail and prices that expire, together

ASSUME PageAssumption ==
    /\ Filled \subseteq Portfolios
    /\ MaxAdds \in Nat /\ MaxEvents \in Nat /\ MaxTroubles \in Nat

\* <<p, 0>> is what the portfolio p holds to begin with, <<p, k>> what the form
\* adds to it by submission k.
Positions == Portfolios \X (0..MaxAdds)
Held(positions, p) == {x \in positions : x[1] = p}

\* The GETs of the page: one for each run of the load effect, and that of the form.
ReGet == 0
Gets == Runs \cup {ReGet}

VARIABLES
    posted,      \* positions the server has received and not stored yet
    stored,      \* positions it has stored
    priced,      \* those of them that have a price in the cache
    lapsed,      \* (ghost) those whose price has expired since the page was opened
    live,        \* positions the payload in data shows
    get,         \* how far each GET is
    rows,        \* the positions it has so far
    portfolio, loadError,   \* the state of the page
    adding,      \* where handleAddPosition is
    target,      \* the id it closed over
    adds, troubles          \* bounded counters

prices == <<priced, lapsed>>
server == <<posted, stored, prices>>
form   == <<adding, target, adds>>
gets   == <<get, rows>>
page   == <<server, live, gets, portfolio, loadError, form, troubles>>
pageVars == <<vars, page>>

PageInit ==
    /\ Init
    /\ posted = {} /\ stored = {<<p, 0>> : p \in Filled}
    /\ priced = stored /\ lapsed = {}
    /\ live = {}
    /\ get = [g \in Gets |-> IF g = 1 THEN "asked" ELSE "none"]
    /\ rows = [g \in Gets |-> {}]
    /\ portfolio = None /\ loadError = FALSE
    /\ adding = "no" /\ target = of[1] /\ adds = 0
    /\ troubles = 0

\* (Mutant of display: the answer hides the payloads.)
loadedFirst == IF portfolio = None /\ data # None THEN <<data, live>> ELSE portfolio

\* display = liveData ?? portfolio
display == IF data # None THEN <<data, live>> ELSE portfolio

Trouble == troubles < MaxTroubles /\ troubles' = troubles + 1

-----------------------------------------------------------------------------
(* The server *)

\* The transaction of the POST commits.
Store(x) ==
    /\ x \in posted
    /\ posted' = posted \ {x} /\ stored' = stored \cup {x}
    /\ UNCHANGED <<vars, prices, live, gets, portfolio, loadError, form, troubles>>

\* A tick of the ingestor puts the price that is missing.
Price(x) ==
    /\ x \in stored \ priced
    /\ priced' = priced \cup {x}
    /\ UNCHANGED <<vars, posted, stored, lapsed, live, gets, portfolio, loadError, form, troubles>>

\* The ingestor skips a price that does not change, and its lifetime ends.
Expire(x) ==
    /\ x \in priced /\ Trouble
    /\ priced' = priced \ {x} /\ lapsed' = lapsed \cup {x}
    /\ UNCHANGED <<vars, posted, stored, live, gets, portfolio, loadError, form>>

\* The portfolio in the URL of a GET.
Wanted(g) == IF g = ReGet THEN target ELSE of[g]

\* get_portfolio up to its first await: the positions as they are stored.
FindRows(g) ==
    /\ get[g] = "asked"
    /\ get' = [get EXCEPT ![g] = "found"]
    /\ rows' = [rows EXCEPT ![g] = Held(stored, Wanted(g))]
    /\ UNCHANGED <<vars, server, live, portfolio, loadError, form, troubles>>

\* Its second: the prices.  A position without one is left out of the answer.
ReadPrices(g) ==
    /\ get[g] = "found"
    /\ get' = [get EXCEPT ![g] = "answered"]
    /\ rows' = [rows EXCEPT ![g] = @ \cap priced]
    /\ UNCHANGED <<vars, server, live, portfolio, loadError, form, troubles>>

\* The GET is over, with or without success.
GetEnds(g) ==
    /\ get' = [get EXCEPT ![g] = "none"]
    /\ rows' = [rows EXCEPT ![g] = {}]

-----------------------------------------------------------------------------
(* The load effect *)

\* It depends on the id, and so runs whenever the hook's effect does.  (The
\* second run of StrictMode follows the first at once.)
ReloadPage ==
    /\ Rerun
    /\ of[runs + 1] # of[runs] \/ get[runs] = "asked"
    /\ get' = [get EXCEPT ![runs + 1] = "asked"]
    /\ UNCHANGED <<rows, server, live, portfolio, loadError, form, troubles>>

\* Whichever answer arrives last is kept.
Loaded(n) ==
    /\ get[n] = "answered"
    /\ portfolio' = <<of[n], rows[n]>>
    /\ GetEnds(n)
    /\ UNCHANGED <<vars, server, live, loadError, form, troubles>>

LoadFails(n) ==
    /\ get[n] # "none"
    /\ Trouble
    /\ loadError' = TRUE
    /\ GetEnds(n)
    /\ UNCHANGED <<vars, server, live, portfolio, form>>

-----------------------------------------------------------------------------
(* handleAddPosition *)

\* (Mutant of FormShown: the form is there while the page is loading.)
FormAtOnce == ~unmounted

\* Early returns: neither form nor button while loading, or after an error.
FormShown == ~unmounted /\ ~loadError /\ display # None

Submit ==
    /\ FormShown /\ adding = "no"
    /\ adds < MaxAdds /\ adds + breaks < MaxEvents
    /\ adds' = adds + 1
    /\ adding' = "posting" /\ target' = of[runs]
    /\ posted' = posted \cup {<<of[runs], adds + 1>>}
    /\ UNCHANGED <<vars, stored, prices, live, gets, portfolio, loadError, troubles>>

\* (Mutant of Posted: the re-read is not awaited, the button enabled at once.)
PostedNoWait ==
    /\ adding = "posting"
    /\ adding' = "no"
    /\ get' = [get EXCEPT ![ReGet] = "asked"]
    /\ UNCHANGED <<vars, server, live, rows, portfolio, loadError, target, adds, troubles>>

\* The POST is answered: re-read the portfolio.
Posted ==
    /\ adding = "posting"
    /\ adding' = "reading"
    /\ get' = [get EXCEPT ![ReGet] = "asked"]
    /\ UNCHANGED <<vars, server, live, rows, portfolio, loadError, target, adds, troubles>>

AddEnds == adding' = "no" /\ GetEnds(ReGet) /\ UNCHANGED <<target, adds>>

Reread ==
    /\ get[ReGet] = "answered"
    /\ portfolio' = <<target, rows[ReGet]>>
    /\ AddEnds
    /\ UNCHANGED <<vars, server, live, loadError, troubles>>

\* The POST is refused, or its answer or the re-read is lost.
AddFails ==
    /\ adding # "no"
    /\ Trouble /\ AddEnds
    /\ \/ UNCHANGED posted
       \/ adding = "posting" /\ posted' = posted \ {<<target, adds>>}
    /\ UNCHANGED <<vars, stored, prices, live, portfolio, loadError>>

-----------------------------------------------------------------------------
(* Payloads *)

\* What the ingestors fetch a price for is announced again and again.
Announced(p) == Held(stored, p) # {}

\* A payload shows what is stored and priced.  (When it is computed: how, and
\* what comes in between, is LiveUpdates.  To the page it is as if it came then.)
Payload(w) ==
    /\ OnMessage(w) /\ Announced(of[run[w]])
    /\ live' = Held(priced, of[run[w]])
    /\ UNCHANGED <<server, gets, portfolio, loadError, form, troubles>>

\* The state of the page is gone with it; what its promises still do sets
\* nothing, and their requests are served without it.
LeavePage ==
    /\ Leave
    /\ get' = [g \in Gets |-> "none"] /\ rows' = [g \in Gets |-> {}]
    /\ portfolio' = None /\ loadError' = FALSE
    /\ adding' = "no"
    /\ UNCHANGED <<server, live, target, adds, troubles>>

-----------------------------------------------------------------------------

PageStep ==
    \/ \E g \in Gets : FindRows(g) \/ ReadPrices(g)
    \/ \E n \in Runs : Loaded(n)
    \/ Posted \/ Reread
    \/ \E x \in Positions : Store(x)

HookStep == \E w \in Sockets : OnOpen(w) \/ OnClose(w) \/ Retry(w)

PageNext ==
    \/ ReloadPage \/ LeavePage
    \/ PageStep
    \/ \E x \in Positions : Price(x) \/ Expire(x)
    \/ Submit \/ AddFails \/ \E n \in Runs : LoadFails(n)
    \/ HookStep /\ adds + breaks' <= MaxEvents /\ UNCHANGED page
    \/ \E w \in Sockets : Payload(w)

PageSpec == PageInit /\ [][PageNext]_pageVars

\* The hook's, and: requests are served and answered; what has no price gets
\* one; payloads come again and again to the run that counts.  (PageStep as a
\* whole is enough, as it cannot go on for ever.)
PageFairSpec ==
    /\ PageSpec /\ Fairness
    /\ WF_pageVars(PageStep)
    /\ WF_pageVars(\E x \in Positions : Price(x))
    /\ WF_pageVars(\E w \in Sockets : run[w] = runs /\ Payload(w))

-----------------------------------------------------------------------------
(* Properties *)

\* What is priced is stored, and nobody re-reads but an add that is under way:
\* the button stays disabled until the re-read is answered.
PageTypeOK ==
    /\ posted \subseteq Positions /\ stored \subseteq Positions
    /\ priced \subseteq stored /\ lapsed \subseteq Positions
    /\ live \subseteq Positions
    /\ get \in [Gets -> {"none", "asked", "found", "answered"}]
    /\ rows \in [Gets -> SUBSET Positions]
    /\ portfolio \in (Portfolios \X SUBSET Positions) \cup {None} /\ loadError \in BOOLEAN
    /\ adding \in {"no", "posting", "reading"} /\ target \in Portfolios
    /\ get[ReGet] # "none" => adding = "reading"
    /\ adds \in 0..MaxAdds /\ troubles \in 0..MaxTroubles

\* A page that was opened once and has had no payload takes back a position it
\* has shown only when the position's price has expired meanwhile (answers leave
\* out what has no price): not because answers overtake each other, nor because
\* a position may be stored after its POST was answered.  The form is not there
\* before the load has been answered.
OnlyExpiryTakesBack ==
    [][portfolio # None /\ runs' = 1 /\ data' = None /\ ~unmounted' =>
           /\ portfolio'[1] = portfolio[1]
           /\ portfolio[2] \ portfolio'[2] \subseteq lapsed]_pageVars

\* Whichever answer won, whatever it left out, whatever the last payload hides
\* and older runs put in its place: a page that stays, and could load, shows its
\* own portfolio with all its positions again and again -- if the portfolio is
\* announced, or was the first.
PageComesRight ==
    /\ [](~unmounted /\ ~loadError)
    /\ <>[](runs = 1 \/ Announced(of[runs]))
    => []<>(display = <<of[runs], Held(stored, of[runs])>>)

=============================================================================
