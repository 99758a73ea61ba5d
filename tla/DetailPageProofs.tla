-------------------------- MODULE DetailPageProofs --------------------------
(***************************************************************************)
(* Proofs about DetailPage, for any portfolios, any number of runs, added  *)
(* positions and failures.  A page does to its hook what the hook allows,  *)
(* so all that PortfolioSocketProofs shows holds in the page.              *)
(***************************************************************************)
EXTENDS DetailPage, PortfolioSocketProofs

LEMMA PageInitImplements == PageInit => Init
  BY DEF PageInit

LEMMA PageStepImplements == [PageNext]_pageVars => [Next]_vars
<1> SUFFICES ASSUME [PageNext]_pageVars PROVE [Next]_vars
  OBVIOUS
<1>1. CASE ReloadPage \/ LeavePage
  BY <1>1 DEF ReloadPage, LeavePage, Next
<1>2. CASE PageStep
  BY <1>2 DEF PageStep, FindRows, ReadPrices, Loaded, Posted, Reread, Store
<1>3. CASE \E x \in Positions : Price(x) \/ Expire(x)
  BY <1>3 DEF Price, Expire
<1>4. CASE Submit \/ AddFails \/ \E n \in Runs : LoadFails(n)
  BY <1>4 DEF Submit, AddFails, LoadFails
<1>5. CASE HookStep
  BY <1>5 DEF HookStep, Next
<1>6. CASE \E w \in Sockets : Payload(w)
  BY <1>6 DEF Payload, Next
<1>7. CASE UNCHANGED pageVars
  BY <1>7 DEF pageVars
<1> QED BY <1>1, <1>2, <1>3, <1>4, <1>5, <1>6, <1>7 DEF PageNext

\* Whatever the page does around its hook, the hook behaves as specified: its
\* theorems hold in the page.
THEOREM PageUsesHook == PageSpec => Spec
  BY PageInitImplements, PageStepImplements, PTL DEF PageSpec, Spec

-----------------------------------------------------------------------------
(* Types *)

PageInv == Inv /\ PageTypeOK

USE PageAssumption, SocketAssumption

LEMMA RunsAndGets == Runs \subseteq Gets /\ ReGet \in Gets /\ ReGet \notin Runs /\ 1 \in Runs
  BY DEF Runs, Gets, ReGet

LEMMA PageInitInv == PageInit => PageInv
<1> SUFFICES ASSUME PageInit PROVE PageInv
  OBVIOUS
<1>1. Inv
  BY InitInv DEF PageInit
<1>2. of[1] \in Portfolios
  BY <1>1, RunsAndGets DEF Inv, TypeOK
<1>3. stored \subseteq Positions
  BY DEF PageInit, Positions
<1>4. get[ReGet] = "none"
  BY RunsAndGets DEF PageInit, ReGet
<1>5. PageTypeOK
  <2>1. /\ get \in [Gets -> {"none", "asked", "found", "answered"}]
        /\ rows \in [Gets -> SUBSET Positions]
    BY DEF PageInit
  <2>2. /\ posted \subseteq Positions /\ stored \subseteq Positions
        /\ priced \subseteq stored /\ lapsed \subseteq Positions /\ live \subseteq Positions
    BY <1>3 DEF PageInit
  <2>3. adds \in 0..MaxAdds /\ troubles \in 0..MaxTroubles
    BY DEF PageInit
  <2> QED BY <1>2, <1>4, <2>1, <2>2, <2>3 DEF PageInit, PageTypeOK
<1> QED BY <1>1, <1>5 DEF PageInv

LEMMA StepTypes ==
    ASSUME PageInv, Inv', [PageNext]_pageVars PROVE PageTypeOK'
<1> USE DEF PageInv, PageTypeOK
<1>0. TypeOK /\ of[runs] \in Portfolios /\ \A n \in Runs : of[n] \in Portfolios
  BY DEF Inv, TypeOK
<1> USE RunsAndGets
<1>1. CASE ReloadPage
  <2>1. runs + 1 \in Runs /\ runs + 1 # ReGet
    BY <1>0, <1>1 DEF ReloadPage, Rerun, Runs, ReGet, TypeOK
  <2> QED BY <1>1, <2>1 DEF ReloadPage, server, prices, form
<1>2. CASE LeavePage
  BY <1>2 DEF LeavePage, server, prices, form
<1>3. CASE PageStep
  <2>1. ASSUME NEW g \in Gets, FindRows(g) PROVE PageTypeOK'
    <3>1. Held(stored, Wanted(g)) \subseteq Positions
      BY DEF Held
    <3> QED BY <2>1, <3>1 DEF FindRows, server, prices, form
  <2>2. ASSUME NEW g \in Gets, ReadPrices(g) PROVE PageTypeOK'
    <3>1. rows[g] \cap priced \subseteq Positions
      OBVIOUS
    <3> QED BY <2>2, <3>1 DEF ReadPrices, server, prices, form
  <2>3. ASSUME NEW n \in Runs, Loaded(n) PROVE PageTypeOK'
    <3>1. <<of[n], rows[n]>> \in Portfolios \X SUBSET Positions
      BY <1>0
    <3>2. get'[ReGet] = get[ReGet]
      BY <2>3 DEF Loaded, GetEnds
    <3> QED BY <2>3, <3>1, <3>2 DEF Loaded, GetEnds, server, prices, form
  <2>4. CASE Posted
    BY <2>4 DEF Posted, server, prices
  <2>5. CASE Reread
    <3>1. <<target, rows[ReGet]>> \in Portfolios \X SUBSET Positions
      OBVIOUS
    <3>2. get'[ReGet] = "none"
      BY <2>5 DEF Reread, AddEnds, GetEnds
    <3> QED BY <2>5, <3>1, <3>2 DEF Reread, AddEnds, GetEnds, server, prices
  <2>6. ASSUME NEW x \in Positions, Store(x) PROVE PageTypeOK'
    BY <2>6 DEF Store, prices, gets, form
  <2> QED BY <1>3, <2>1, <2>2, <2>3, <2>4, <2>5, <2>6 DEF PageStep
<1>4. ASSUME NEW x \in Positions, Price(x) \/ Expire(x) PROVE PageTypeOK'
  BY <1>4 DEF Price, Expire, Trouble, gets, form
<1>5. CASE Submit
  <2>1. adds + 1 \in 0..MaxAdds
    BY <1>5 DEF Submit
  <2>2. <<of[runs], adds + 1>> \in Positions
    BY <1>0, <2>1 DEF Positions
  <2> QED BY <1>0, <1>5, <2>1, <2>2 DEF Submit, prices, gets
<1>6. CASE AddFails
  <2>1. get'[ReGet] = "none" /\ posted' \subseteq Positions
    BY <1>6 DEF AddFails, AddEnds, GetEnds
  <2> QED BY <1>6, <2>1 DEF AddFails, AddEnds, GetEnds, Trouble, prices
<1>7. ASSUME NEW n \in Runs, LoadFails(n) PROVE PageTypeOK'
  <2>1. get'[ReGet] = get[ReGet]
    BY <1>7 DEF LoadFails, GetEnds
  <2> QED BY <1>7, <2>1 DEF LoadFails, GetEnds, Trouble, server, prices, form
<1>8. ASSUME NEW w \in Sockets, Payload(w) PROVE PageTypeOK'
  <2>1. Held(priced, of[run[w]]) \subseteq Positions
    BY DEF Held
  <2> QED BY <1>8, <2>1 DEF Payload, server, prices, gets, form
<1>9. CASE UNCHANGED page
  BY <1>9 DEF page, server, prices, gets, form
<1> QED BY <1>1, <1>2, <1>3, <1>4, <1>5, <1>6, <1>7, <1>8, <1>9 DEF PageNext, pageVars

LEMMA PageNextInv == PageInv /\ [PageNext]_pageVars => PageInv'
  BY NextInv, PageStepImplements, StepTypes DEF PageInv

LEMMA PageInvariant == PageSpec => []PageInv
  BY PageInitInv, PageNextInv, PTL DEF PageSpec

\* The page is well typed; what is priced is stored, and while the re-read of an
\* add is under way no other add begins.
THEOREM PageTypeCorrect == PageSpec => []PageTypeOK
<1>1. PageInv => PageTypeOK
  BY DEF PageInv
<1> QED BY <1>1, PageInvariant, PTL

-----------------------------------------------------------------------------
(* Loads and re-reads *)

\* While the effects have run once and no payload has come: the load is on its
\* way only until something is shown, and an add only begins after that.
First == runs = 1 /\ data = None /\ ~unmounted

LoadOK == \A n \in Runs : get[n] # "none" => n = 1 /\ portfolio = None

AddOK == adding # "no" => portfolio # None /\ target = of[1]

\* What an answer holds, or will, is of the page's portfolio and stored; what it
\* holds had a price when the prices were read, and has it still or lost it since.
Seen == priced \cup lapsed

RowsOK ==
    \A g \in Gets :
        /\ get[g] \in {"found", "answered"} => rows[g] \subseteq Held(stored, of[1])
        /\ get[g] = "answered" => rows[g] \subseteq Seen

\* So does what is shown.  A re-read finds all of it, and then leaves out no more
\* than what has lost its price.
ShownOK ==
    portfolio # None =>
        /\ portfolio[1] = of[1]
        /\ portfolio[2] \subseteq Held(stored, of[1]) \cap Seen
        /\ get[ReGet] = "found" => portfolio[2] \subseteq rows[ReGet]
        /\ get[ReGet] = "answered" => portfolio[2] \ rows[ReGet] \subseteq lapsed

FirstInv == LoadOK /\ AddOK /\ RowsOK /\ ShownOK
FirstOK == First => FirstInv

\* What OnlyExpiryTakesBack says of a step.
NotTakenBack ==
    portfolio # None =>
        /\ portfolio'[1] = portfolio[1]
        /\ portfolio[2] \ portfolio'[2] \subseteq lapsed

LEMMA FirstInit == PageInit => FirstOK
  BY RunsAndGets DEF PageInit, FirstOK, FirstInv, LoadOK, AddOK, RowsOK, ShownOK, ReGet

\* The hook does not go back to the state First, nor change the portfolio in it.
LEMMA FirstBefore ==
    ASSUME Inv, [Next]_vars, First' PROVE First /\ of' = of
<1> USE DEF First
<1>1. runs \in Nat \ {0} /\ None \notin Portfolios
  BY DEF Inv, TypeOK, Runs
<1>2. CASE Rerun
  BY <1>1, <1>2 DEF Rerun
<1>3. CASE Leave
  BY <1>3 DEF Leave
<1>4. ASSUME NEW w \in Sockets, OnMessage(w) PROVE First /\ of' = of
  BY <1>1, <1>4 DEF OnMessage, Inv, TypeOK
<1>5. ASSUME NEW w \in Sockets, OnOpen(w) \/ OnClose(w) \/ Retry(w) PROVE First /\ of' = of
  BY <1>5 DEF OnOpen, OnClose, Closes, Retry, refs
<1>6. CASE UNCHANGED vars
  BY <1>6 DEF vars, refs
<1> QED BY <1>2, <1>3, <1>4, <1>5, <1>6 DEF Next

LEMMA FirstNext ==
    ASSUME PageInv, FirstOK, [PageNext]_pageVars, First'
    PROVE  FirstInv' /\ NotTakenBack
<1> DEFINE P == FirstInv' /\ NotTakenBack
<1> SUFFICES P
  OBVIOUS
<1>0. First /\ of' = of /\ LoadOK /\ AddOK /\ RowsOK /\ ShownOK
  BY FirstBefore, PageStepImplements DEF PageInv, FirstOK, FirstInv
<1>1. /\ get \in [Gets -> {"none", "asked", "found", "answered"}]
      /\ rows \in [Gets -> SUBSET Positions]
      /\ get[ReGet] # "none" => adding = "reading"
  BY DEF PageInv, PageTypeOK
<1> USE <1>0, <1>1, RunsAndGets DEF FirstInv, LoadOK, AddOK, RowsOK, ShownOK, NotTakenBack
<1>2. CASE ReloadPage
  BY <1>2 DEF ReloadPage, Rerun, First
<1>3. CASE LeavePage
  BY <1>3 DEF LeavePage, Leave, First
<1>4. ASSUME NEW g \in Gets, FindRows(g) PROVE P
  <2>1. Wanted(g) = of[1]
    BY <1>4 DEF FindRows, Wanted, Gets
  <2>2. /\ get[g] = "asked" /\ get' = [get EXCEPT ![g] = "found"]
        /\ rows' = [rows EXCEPT ![g] = Held(stored, of[1])]
        /\ UNCHANGED <<stored, priced, lapsed, portfolio, adding, target>>
    BY <1>4, <2>1 DEF FindRows, server, prices, form
  <2>3. RowsOK'
    BY <2>2 DEF Seen
  <2> QED BY <2>2, <2>3 DEF Seen
<1>5. ASSUME NEW g \in Gets, ReadPrices(g) PROVE P
  <2>1. /\ get[g] = "found" /\ get' = [get EXCEPT ![g] = "answered"]
        /\ rows' = [rows EXCEPT ![g] = @ \cap priced]
        /\ UNCHANGED <<stored, priced, lapsed, portfolio, adding, target>>
    BY <1>5 DEF ReadPrices, server, prices, form
  <2>2. RowsOK'
    BY <2>1 DEF Seen
  <2>3. ShownOK'
    BY <2>1 DEF Seen
  <2> QED BY <2>1, <2>2, <2>3
<1>6. ASSUME NEW n \in Runs, Loaded(n) PROVE P
  <2>1. n = 1 /\ portfolio = None /\ adding = "no" /\ get[ReGet] = "none"
    BY <1>6 DEF Loaded
  <2>2. /\ portfolio' = <<of[1], rows[1]>>
        /\ get' = [get EXCEPT ![1] = "none"] /\ rows' = [rows EXCEPT ![1] = {}]
        /\ UNCHANGED <<stored, priced, lapsed, adding, target>>
    BY <1>6, <2>1 DEF Loaded, GetEnds, server, prices, form
  <2>3. rows[1] \subseteq Held(stored, of[1]) \cap Seen
    BY <1>6, <2>1 DEF Loaded
  <2> QED BY <2>1, <2>2, <2>3 DEF Seen
<1>7. ASSUME NEW n \in Runs, LoadFails(n) PROVE P
  BY <1>7 DEF LoadFails, GetEnds, server, prices, form, Seen
<1>8. CASE Posted
  <2>1. get[ReGet] = "none" /\ portfolio # None /\ target = of[1]
    BY <1>8 DEF Posted
  <2>2. /\ adding' = "reading" /\ get' = [get EXCEPT ![ReGet] = "asked"]
        /\ UNCHANGED <<rows, stored, priced, lapsed, portfolio, target>>
    BY <1>8 DEF Posted, server, prices
  <2> QED BY <2>1, <2>2 DEF Seen
<1>9. CASE Reread
  <2>1. get[ReGet] = "answered" /\ portfolio # None /\ target = of[1]
    BY <1>9 DEF Reread
  <2>2. /\ portfolio' = <<of[1], rows[ReGet]>> /\ adding' = "no"
        /\ get' = [get EXCEPT ![ReGet] = "none"] /\ rows' = [rows EXCEPT ![ReGet] = {}]
        /\ UNCHANGED <<stored, priced, lapsed>>
    BY <1>9, <2>1 DEF Reread, AddEnds, GetEnds, server, prices
  <2>3. rows[ReGet] \subseteq Held(stored, of[1]) \cap Seen
    BY <2>1
  <2>4. \A n \in Runs : get'[n] = "none"
    BY <2>1, <2>2
  <2>5. portfolio'[2] = rows[ReGet] /\ portfolio[2] \ rows[ReGet] \subseteq lapsed
    BY <2>1, <2>2
  <2> QED BY <2>1, <2>2, <2>3, <2>4, <2>5 DEF Seen
<1>10. ASSUME NEW x \in Positions, Store(x) PROVE P
  <2>1. stored' = stored \cup {x} /\ UNCHANGED <<priced, lapsed, get, rows, portfolio, adding, target>>
    BY <1>10 DEF Store, prices, gets, form
  <2>2. Held(stored, of[1]) \subseteq Held(stored, of[1])'
    BY <2>1 DEF Held
  <2> QED BY <2>1, <2>2 DEF Seen
<1>11. ASSUME NEW x \in Positions, Price(x) \/ Expire(x) PROVE P
  <2>1. /\ Seen \subseteq Seen' /\ lapsed \subseteq lapsed'
        /\ UNCHANGED <<stored, get, rows, portfolio, adding, target>>
    BY <1>11 DEF Price, Expire, gets, form, Seen
  <2> QED BY <2>1
<1>12. CASE Submit
  <2>1. portfolio # None /\ get[ReGet] = "none"
    BY <1>12 DEF Submit, FormShown, display, First
  <2>2. target' = of[1] /\ UNCHANGED <<stored, priced, lapsed, get, rows, portfolio>>
    BY <1>12 DEF Submit, First, prices, gets
  <2> QED BY <2>1, <2>2 DEF Seen
<1>13. CASE AddFails
  <2>1. /\ adding' = "no"
        /\ get' = [get EXCEPT ![ReGet] = "none"] /\ rows' = [rows EXCEPT ![ReGet] = {}]
        /\ UNCHANGED <<stored, priced, lapsed, portfolio>>
    BY <1>13 DEF AddFails, AddEnds, GetEnds, prices
  <2> QED BY <2>1 DEF Seen
<1>14. CASE UNCHANGED page \/ \E w \in Sockets : Payload(w)
  <2>1. UNCHANGED <<stored, priced, lapsed, get, rows, portfolio, adding, target>>
    BY <1>14 DEF page, server, prices, gets, form, Payload
  <2> QED BY <2>1 DEF Seen
<1> QED BY <1>2, <1>3, <1>4, <1>5, <1>6, <1>7, <1>8, <1>9, <1>10, <1>11, <1>12, <1>13, <1>14
        DEF PageNext, PageStep, pageVars

\* A page opened once takes back a position it has shown, before its first payload
\* came, only because its price expired, however loads, re-reads, the server's
\* commits, the ingestor's ticks and expiries are ordered.
THEOREM OnlyExpiriesTakeBack == PageSpec => OnlyExpiryTakesBack
<1>1. PageInv /\ FirstOK /\ [PageNext]_pageVars => FirstOK'
  BY FirstNext DEF FirstOK
<1>2. PageSpec => [](PageInv /\ FirstOK)
  BY <1>1, FirstInit, PageInvariant, PTL DEF PageSpec
<1>3. PageInv /\ FirstOK /\ [PageNext]_pageVars =>
          [portfolio # None /\ runs' = 1 /\ data' = None /\ ~unmounted' =>
               /\ portfolio'[1] = portfolio[1]
               /\ portfolio[2] \ portfolio'[2] \subseteq lapsed]_pageVars
  BY FirstNext DEF First, NotTakenBack
<1> QED BY <1>2, <1>3, PTL DEF PageSpec, OnlyExpiryTakesBack

=============================================================================
