--------------------------- MODULE PortfolioSocket ---------------------------
(***************************************************************************)
(* The browser's end of the live updates: the hook usePortfolioSocket      *)
(* (frontend/src/ws/usePortfolioSocket.js) in one instance of the detail   *)
(* page, from mounting to unmounting, and what is left behind then.        *)
(*                                                                         *)
(* Each run of the hook's effect has a connect of its own, with the        *)
(* portfolio it closed over; its onclose arranges for the next attempt.    *)
(* But all runs share the flag, the socket and the timer in the refs.  The *)
(* cleanup closes the last socket, whose onclose comes later, when the     *)
(* next run has set the flag again: the old run then goes on connecting.   *)
(*                                                                         *)
(* A step is one task of the browser's event loop.                         *)
(***************************************************************************)
EXTENDS Integers

CONSTANTS
    Portfolios,
    None,         \* no data
    Strict,       \* React's StrictMode of the development build
    MaxRuns,      \* bound on runs of the effect
    MaxBreaks     \* bound on connections that fail or break

ASSUME SocketAssumption ==
    /\ MaxRuns \in Nat \ {0} /\ MaxBreaks \in Nat
    /\ Strict \in BOOLEAN /\ None \notin Portfolios

Runs == 1..MaxRuns
\* Every failure, and every run's closing of its predecessor's socket, leads to
\* one more socket at most.
Sockets == 1..(2 * MaxRuns + MaxBreaks)

VARIABLES
    runs,        \* how often the effect has run
    of,          \* the portfolio each run closed over
    made,        \* how many sockets were made
    st, run,     \* readyState of each socket, the run whose connect made it
    timers,      \* sockets whose onclose has set a timeout that is pending
    wsRef, retryTimer, unmounted,   \* the refs; a timeout is named after its socket
    data, status,                   \* the state of the hook
    breaks       \* bounded counter

refs   == <<wsRef, retryTimer, unmounted>>
vars   == <<runs, of, made, st, run, timers, refs, data, status, breaks>>

\* connect, as the run n has it
Connect(n, sockets) ==
    /\ made' = made + 1
    /\ st' = [sockets EXCEPT ![made + 1] = "connecting"]
    /\ run' = [run EXCEPT ![made + 1] = n]
    /\ wsRef' = made + 1
    /\ status' = IF unmounted THEN status ELSE "connecting"

Init ==
    /\ runs = 1 /\ of \in [Runs -> Portfolios]
    /\ made = 1
    /\ st = [w \in Sockets |-> IF w = 1 THEN "connecting" ELSE "none"]
    /\ run = [w \in Sockets |-> 1]
    /\ timers = {}
    /\ wsRef = 1 /\ retryTimer = None /\ unmounted = FALSE
    /\ data = None /\ status = "connecting"
    /\ breaks = 0

-----------------------------------------------------------------------------
(* The effect runs again, and ends *)

\* ws.close(): the close event comes later.
Close(w) == IF st[w] \in {"connecting", "open"} THEN [st EXCEPT ![w] = "closing"] ELSE st

\* The id in the URL changes while the page stays, and React runs cleanup and
\* effect in one go.  StrictMode does so once for every page it mounts.
Rerun ==
    /\ ~unmounted /\ runs < MaxRuns
    /\ \/ of[runs + 1] # of[runs]
       \/ Strict /\ runs = 1 /\ made = 1 /\ st[1] = "connecting"
    /\ runs' = runs + 1
    /\ timers' = timers \ {retryTimer}
    /\ Connect(runs + 1, Close(wsRef))
    /\ UNCHANGED <<of, retryTimer, unmounted, data, breaks>>

\* (Mutant of Leave: the cleanup forgets the timer.)
LeaveTicking ==
    /\ ~unmounted /\ unmounted' = TRUE
    /\ st' = Close(wsRef)
    /\ UNCHANGED <<runs, of, made, run, timers, wsRef, retryTimer, data, status, breaks>>

\* The page is unmounted: the cleanup alone.
Leave ==
    /\ ~unmounted /\ unmounted' = TRUE
    /\ timers' = timers \ {retryTimer}
    /\ st' = Close(wsRef)
    /\ UNCHANGED <<runs, of, made, run, wsRef, retryTimer, data, status, breaks>>

-----------------------------------------------------------------------------
(* The handlers *)

OnOpen(w) ==
    /\ st[w] = "connecting"
    /\ st' = [st EXCEPT ![w] = "open"]
    /\ status' = IF unmounted THEN status ELSE "live"
    /\ UNCHANGED <<runs, of, made, run, timers, refs, data, breaks>>

\* A payload is about the portfolio the socket was opened for.
OnMessage(w) ==
    /\ st[w] = "open" /\ ~unmounted
    /\ data' = of[run[w]]
    /\ UNCHANGED <<runs, of, made, st, run, timers, refs, status, breaks>>

\* The connection is refused or breaks, or close() has been called.
Closes(w) ==
    /\ \/ st[w] = "closing" /\ UNCHANGED breaks
       \/ /\ st[w] \in {"connecting", "open"}
          /\ breaks < MaxBreaks /\ breaks' = breaks + 1
    /\ st' = [st EXCEPT ![w] = "closed"]
    /\ UNCHANGED <<runs, of, made, run, wsRef, unmounted, data>>

\* (Mutant of OnClose: a connection that was never open is not tried again.)
OnCloseIfOpened(w) ==
    /\ Closes(w)
    /\ IF unmounted \/ st[w] = "connecting"
       THEN UNCHANGED <<timers, retryTimer, status>>
       ELSE /\ status' = "reconnecting"
            /\ timers' = timers \cup {w} /\ retryTimer' = w

\* (Mutant of OnClose: it clears the timeout that was set last.)
OnCloseOneTimer(w) ==
    /\ Closes(w)
    /\ IF unmounted
       THEN UNCHANGED <<timers, retryTimer, status>>
       ELSE /\ status' = "reconnecting"
            /\ timers' = (timers \ {retryTimer}) \cup {w} /\ retryTimer' = w

\* (Mutant of OnClose: the badge is left to the next attempt.)
OnCloseSilently(w) ==
    /\ Closes(w)
    /\ IF unmounted
       THEN UNCHANGED <<timers, retryTimer, status>>
       ELSE timers' = timers \cup {w} /\ retryTimer' = w /\ UNCHANGED status

OnClose(w) ==
    /\ Closes(w)
    /\ IF unmounted
       THEN UNCHANGED <<timers, retryTimer, status>>
       ELSE /\ status' = "reconnecting"
            /\ timers' = timers \cup {w} /\ retryTimer' = w

\* (Mutant of Retry: an interval where a timeout was meant.)
RetryAgain(w) ==
    /\ w \in timers
    /\ Connect(run[w], st)
    /\ UNCHANGED <<runs, of, timers, retryTimer, unmounted, data, breaks>>

\* The timeout set by the onclose of w is over.
Retry(w) ==
    /\ w \in timers
    /\ timers' = timers \ {w}
    /\ Connect(run[w], st)
    /\ UNCHANGED <<runs, of, retryTimer, unmounted, data, breaks>>

-----------------------------------------------------------------------------

Next ==
    \/ Rerun \/ Leave
    \/ \E w \in Sockets : OnOpen(w) \/ OnMessage(w) \/ OnClose(w) \/ Retry(w)

Spec == Init /\ [][Next]_vars

\* Timeouts end and closed sockets report it; as long as connections do not
\* fail they are opened.  Nobody has to leave, nothing has to break.
Fairness ==
    \A w \in Sockets :
        /\ WF_vars(OnOpen(w)) /\ WF_vars(Retry(w))
        /\ WF_vars(st[w] = "closing" /\ OnClose(w))

-----------------------------------------------------------------------------
(* Properties *)

TypeOK ==
    /\ runs \in Runs /\ of \in [Runs -> Portfolios]
    /\ made \in Sockets
    /\ st \in [Sockets -> {"none", "connecting", "open", "closing", "closed"}]
    /\ run \in [Sockets -> Runs]
    /\ timers \subseteq Sockets
    /\ wsRef \in Sockets /\ retryTimer \in Sockets \cup {None} /\ unmounted \in BOOLEAN
    /\ data \in Portfolios \cup {None}
    /\ status \in {"connecting", "live", "reconnecting"}
    /\ breaks \in 0..MaxBreaks

\* The socket w is a connection, or will lead to one.
Alive(w) ==
    \/ st[w] \in {"connecting", "open"} \/ w \in timers
    \/ st[w] = "closing" /\ ~unmounted

\* However failures, timeouts and new runs interleave, a run of the effect never
\* has two connections or attempts at once.
OnePerRun == \A v, w \in Sockets : Alive(v) /\ Alive(w) /\ run[v] = run[w] => v = w

\* While the page is there its portfolio is connected, or will be: neither the
\* timer of an old run, cleared or overwritten, nor an old run's late onclose
\* takes the last attempt away from the run that counts.
NeverGivesUp == ~unmounted => \E w \in Sockets : run[w] = runs /\ Alive(w)

\* The page that is left leaves fewer connections behind than the effect had
\* runs: none, if it ran once.
LeavesFewer == unmounted => \E n \in 1..runs : \A w \in Sockets : Alive(w) => run[w] # n

\* As long as the effect has run once only, the badge says how things are.
BadgeIsTrue ==
    runs = 1 /\ ~unmounted =>
        /\ status = "live" <=> \E w \in Sockets : st[w] = "open"
        /\ status = "reconnecting" <=> timers # {}

\* When failures end, a page that stays is connected for good and says so, even
\* if older runs still interfere.
Reconnects ==
    []~unmounted =>
        <>[](status = "live" /\ \E w \in Sockets : run[w] = runs /\ st[w] = "open")

=============================================================================
