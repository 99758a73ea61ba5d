------------------------- MODULE ConnectionManager -------------------------
(***************************************************************************)
(* The registry of WebSocket connections (app/websocket/manager.py), the   *)
(* endpoint that fills and empties it (app/websocket/router.py), and the   *)
(* broadcast that walks it.                                                *)
(*                                                                         *)
(* All of it runs on one event loop, so a step here is what happens        *)
(* between two awaits.  The hazard is the await inside the for loop of     *)
(* broadcast_to_portfolio: the loop iterates over the live set, and while  *)
(* a send is under way other endpoints add themselves to that set or leave *)
(* it.  CPython's set iterator compares the size of the set with the size  *)
(* it had when the iteration began, at every step, the one that would end  *)
(* the loop included, and raises RuntimeError if they differ.  If one      *)
(* socket left and another came the sizes agree, and what the iterator     *)
(* still visits depends on the slots of the hash table.                    *)
(***************************************************************************)
EXTENDS Integers, FiniteSets

CONSTANTS
    Sockets,       \* WebSocket connections, each used once
    Portfolios,
    Of,            \* the portfolio in the URL of each socket
    Payloads,      \* what broadcasts carry
    None,          \* no socket, no portfolio, no payload
    MaxBreaks      \* bound on endpoints ended by an unexpected exception

ASSUME SocketsAssumption ==
    /\ IsFiniteSet(Sockets)
    /\ Of \in [Sockets -> Portfolios]
    /\ None \notin Sockets \cup Portfolios \cup Payloads
    /\ MaxBreaks \in Nat

VARIABLES
    keys,      \* the keys of _connections
    conns,     \* _connections[p], {} where there is no entry
    ep,        \* where the endpoint coroutine of each socket is
    peer,      \* "open" until the browser is gone
    view,      \* the payload each browser received last
    breaks,    \* bounded counter
    (* the broadcast under way; at = None when there is none *)
    at,        \* the portfolio broadcast to
    it,        \* the socket whose send_json is awaited
    msg,       \* the payload
    start,     \* the members when the iteration began
    seen,      \* members the iterator will not visit again
    sent,      \* members whose send_json returned
    dead,      \* members whose send_json raised
    churned,   \* the set was changed since the iteration began
    detached   \* its entry was deleted: the iterator's set is out of the dict

registry == <<keys, conns>>
clients  == <<ep, peer, breaks>>
loop     == <<at, it, msg, start, seen, sent, dead, churned, detached>>
vars     == <<registry, clients, view, loop>>

Init ==
    /\ keys = {}
    /\ conns = [p \in Portfolios |-> {}]
    /\ ep = [w \in Sockets |-> "new"]
    /\ peer = [w \in Sockets |-> "open"]
    /\ view = [w \in Sockets |-> None]
    /\ breaks = 0
    /\ at = None /\ it = None /\ msg = None
    /\ start = {} /\ seen = {} /\ sent = {} /\ dead = {}
    /\ churned = FALSE /\ detached = FALSE

-----------------------------------------------------------------------------
(* The registry *)

\* (Mutant of Register: the dict is keyed by the socket.)
RegisterUnderSocket(w, p) ==
    /\ keys' = keys \cup {w}
    /\ conns' = [conns EXCEPT ![p] = @ \cup {w}]

\* connect, after the accept
Register(w, p) ==
    /\ keys' = keys \cup {p}
    /\ conns' = [conns EXCEPT ![p] = @ \cup {w}]

\* (Mutant of Disconnect: the entry is deleted with members in it.)
DisconnectDropsEntry(ws, p) ==
    /\ conns' = [conns EXCEPT ![p] = {}]
    /\ keys' = keys \ {p}

\* (Mutant of Disconnect: an empty set stays in the dict.)
DisconnectKeepsEntry(ws, p) ==
    /\ conns' = [conns EXCEPT ![p] = @ \ ws]
    /\ UNCHANGED keys

\* disconnect of every socket in ws: discard it, delete an empty entry
Disconnect(ws, p) ==
    /\ conns' = [conns EXCEPT ![p] = @ \ ws]
    /\ keys' = IF conns[p] \subseteq ws THEN keys \ {p} ELSE keys

\* What a change of the set of p does to an iteration over that set.  The
\* slots of the hash table may have moved, so members may be visited again.
Disturb(p, changed, emptied) ==
    /\ IF at = p /\ changed /\ ~detached
       THEN churned' = TRUE /\ seen' = {} /\ detached' = emptied
       ELSE UNCHANGED <<churned, seen, detached>>
    /\ UNCHANGED <<at, it, msg, start, sent, dead>>

-----------------------------------------------------------------------------
(* The endpoint *)

\* The handshake arrives with a valid token: the portfolio is looked up.
Open(w) ==
    /\ ep[w] = "new"
    /\ ep' = [ep EXCEPT ![w] = "lookup"]
    /\ UNCHANGED <<registry, peer, breaks, view, loop>>

\* No portfolio, another user's portfolio, or no valid token: closed.
Refuse(w) ==
    /\ ep[w] \in {"new", "lookup"}
    /\ ep' = [ep EXCEPT ![w] = "refused"]
    /\ UNCHANGED <<registry, peer, breaks, view, loop>>

Authorize(w) ==
    /\ ep[w] = "lookup"
    /\ ep' = [ep EXCEPT ![w] = "accept"]
    /\ UNCHANGED <<registry, peer, breaks, view, loop>>

\* accept() returned; registering is part of the same step.
Connect(w) ==
    /\ ep[w] = "accept"
    /\ Register(w, Of[w])
    /\ Disturb(Of[w], TRUE, FALSE)
    /\ ep' = [ep EXCEPT ![w] = "receive"]
    /\ UNCHANGED <<peer, breaks, view>>

\* The database call or accept() raised: the socket was never registered.
HandshakeFails(w) ==
    /\ ep[w] = "lookup" \/ (ep[w] = "accept" /\ peer[w] = "gone")
    /\ ep' = [ep EXCEPT ![w] = "failed"]
    /\ UNCHANGED <<registry, peer, breaks, view, loop>>

PeerGone(w) ==
    /\ ep[w] \in {"lookup", "accept", "receive"} /\ peer[w] = "open"
    /\ peer' = [peer EXCEPT ![w] = "gone"]
    /\ UNCHANGED <<registry, ep, breaks, view, loop>>

\* (Mutant of Leave: while its portfolio is broadcast to, leave the
\* unregistering to the pruning.)
LeaveToPruning(w) ==
    /\ ep[w] = "receive" /\ peer[w] = "gone"
    /\ IF at = Of[w]
       THEN UNCHANGED <<registry, loop>>
       ELSE Disconnect({w}, Of[w]) /\ Disturb(Of[w], FALSE, FALSE)
    /\ ep' = [ep EXCEPT ![w] = "left"]
    /\ UNCHANGED <<peer, breaks, view>>

\* receive_text raises WebSocketDisconnect.
Leave(w) ==
    /\ ep[w] = "receive" /\ peer[w] = "gone"
    /\ Disconnect({w}, Of[w])
    /\ Disturb(Of[w], w \in conns[Of[w]], conns[Of[w]] = {w})
    /\ ep' = [ep EXCEPT ![w] = "left"]
    /\ UNCHANGED <<peer, breaks, view>>

\* receive_text raises anything else: nothing catches it, disconnect is not
\* called, and the server closes the connection.
Break(w) ==
    /\ ep[w] = "receive"
    /\ breaks < MaxBreaks /\ breaks' = breaks + 1
    /\ ep' = [ep EXCEPT ![w] = "failed"]
    /\ peer' = [peer EXCEPT ![w] = "gone"]
    /\ UNCHANGED <<registry, view, loop>>

-----------------------------------------------------------------------------
(* broadcast_to_portfolio *)

Begin(p, m) ==
    /\ at = None /\ conns[p] # {}
    /\ \E w \in conns[p] : it' = w /\ seen' = {w}
    /\ at' = p /\ msg' = m /\ start' = conns[p]
    /\ sent' = {} /\ dead' = {} /\ churned' = FALSE /\ detached' = FALSE
    /\ UNCHANGED <<registry, clients, view>>

\* send_json returns: the payload is on its way, and is received if the
\* browser is still there.  (Data for a browser that is gone may be buffered
\* or dropped without an exception.)
SendSucceeds ==
    /\ sent' = sent \cup {it}
    /\ view' = IF peer[it] = "open" THEN [view EXCEPT ![it] = msg] ELSE view
    /\ UNCHANGED dead

\* (Mutant of SendFails: the exception is swallowed.)
SendFailsSilently ==
    /\ peer[it] = "gone"
    /\ UNCHANGED <<dead, sent, view>>

\* send_json raises: only for a connection that is closed or broken.
SendFails ==
    /\ peer[it] = "gone"
    /\ dead' = dead \cup {it}
    /\ UNCHANGED <<sent, view>>

SendReturns == at # None /\ (SendSucceeds \/ SendFails)

\* The size of the set that is iterated over differs from the first one's.
SizeChanged == detached \/ Cardinality(conns[at]) # Cardinality(start)

Idle ==
    /\ at' = None /\ it' = None /\ msg' = None
    /\ start' = {} /\ seen' = {} /\ churned' = FALSE /\ detached' = FALSE

\* Members the iterator may visit next.
Ahead == conns[at] \ seen

\* (Mutant of SendNext: the iterator goes round and never runs out.)
SendAgain ==
    /\ SendReturns
    /\ ~SizeChanged
    /\ \E w \in conns[at] \ {it} : it' = w /\ seen' = {w}
    /\ UNCHANGED <<registry, clients, at, msg, start, churned, detached>>

SendNext ==
    /\ SendReturns
    /\ ~SizeChanged
    /\ \E w \in Ahead : it' = w /\ seen' = seen \cup {w}
    /\ UNCHANGED <<registry, clients, at, msg, start, churned, detached>>

\* The set is exhausted (after a change of equal size, possibly too early):
\* prune the dead.
SendLast ==
    /\ SendReturns
    /\ ~SizeChanged
    /\ Ahead = {} \/ churned
    /\ Disconnect(dead', at)
    /\ Idle
    /\ UNCHANGED clients

\* RuntimeError: Set changed size during iteration.  Nothing is pruned and
\* the remaining members are not sent to.
SendThenAbort ==
    /\ SendReturns
    /\ SizeChanged
    /\ Idle
    /\ UNCHANGED <<registry, clients>>

-----------------------------------------------------------------------------

EndpointStep(w) ==
    \/ Open(w) \/ Refuse(w) \/ Authorize(w)
    \/ Connect(w) \/ HandshakeFails(w) \/ Leave(w)

BroadcastStep == SendNext \/ SendLast \/ SendThenAbort

Next ==
    \/ \E w \in Sockets : EndpointStep(w) \/ PeerGone(w) \/ Break(w)
    \/ \E p \in Portfolios, m \in Payloads : Begin(p, m)
    \/ BroadcastStep

Spec == Init /\ [][Next]_vars

\* The event loop runs every coroutine that can go on; the peers are fair to
\* nobody, and nothing has to be broadcast.
FairSpec ==
    Spec /\ WF_vars(BroadcastStep)
         /\ \A w \in Sockets : WF_vars(EndpointStep(w))

-----------------------------------------------------------------------------
(* Properties *)

TypeOK ==
    /\ keys \subseteq Portfolios
    /\ conns \in [Portfolios -> SUBSET Sockets]
    /\ ep \in [Sockets -> {"new", "lookup", "accept", "receive", "left",
                           "failed", "refused"}]
    /\ peer \in [Sockets -> {"open", "gone"}]
    /\ view \in [Sockets -> Payloads \cup {None}]
    /\ breaks \in 0..MaxBreaks
    /\ at \in Portfolios \cup {None}
    /\ it \in Sockets \cup {None}
    /\ msg \in Payloads \cup {None}
    /\ start \subseteq Sockets /\ seen \subseteq Sockets
    /\ sent \subseteq Sockets /\ dead \subseteq Sockets
    /\ churned \in BOOLEAN /\ detached \in BOOLEAN

Live(w) == ep[w] = "receive" /\ peer[w] = "open"

\* Whatever joins, leaves and broadcasts interleave, a socket whose browser
\* is there and whose endpoint is receiving is registered, under a portfolio
\* the subscriber will find: no disconnect of another socket, no pruning, no
\* deleted entry takes it out.
LiveStayRegistered ==
    \A w \in Sockets : Live(w) => w \in conns[Of[w]] /\ Of[w] \in keys

\* A socket whose endpoint ran disconnect is not registered again, and one
\* that was never accepted is not registered at all.
NoGhosts ==
    \A p \in Portfolios : \A w \in conns[p] : Of[w] = p /\ ep[w] \in {"receive", "failed"}

\* An entry exists exactly as long as it has a member: the subscriber does
\* not load portfolios nobody watches, and entries do not pile up.
NoEmptyEntries == \A p \in Portfolios : p \in keys <=> conns[p] # {}

\* A broadcast whose set nobody changed has dealt with every member when it
\* ends: each was sent the payload or has been unregistered.
UndisturbedIsComplete ==
    [][(at # None /\ at' = None /\ ~churned)
           => \A w \in start : w \in sent' \/ w \notin conns'[at]]_vars

\* A broadcast does not hold the subscriber for ever.
BroadcastEnds == at # None ~> at = None

\* Once its browser is gone a receiving endpoint unregisters its socket for
\* good, whatever broadcasts are under way -- unless the endpoint fails.
GoneUnregistered ==
    \A w \in Sockets :
        (ep[w] = "receive" /\ peer[w] = "gone")
            ~> (ep[w] = "failed" \/ [](\A p \in Portfolios : w \notin conns[p]))

\* subscriber.py, line 19: when a price changes the subscriber "broadcasts
\* updated metrics".  Every socket that was registered when the broadcast
\* began and is still live when it ends has been sent the payload.
BroadcastReachesAll ==
    [][(at # None /\ at' = None)
           => \A w \in start : Live(w) /\ Live(w)' => w \in sent']_vars

=============================================================================
