---------------------- MODULE ConnectionManagerProofs ----------------------
(***************************************************************************)
(* Proofs about ConnectionManager, for any sockets, portfolios, payloads   *)
(* and any number of broken endpoints.                                     *)
(***************************************************************************)
EXTENDS ConnectionManager, TLAPS

Endpoints == {"new", "lookup", "accept", "receive", "left", "failed", "refused"}

\* There is a socket being sent to exactly while there is a broadcast, and
\* what the broadcast will prune has no browser any more.
LoopOK ==
    /\ at = None => it = None
    /\ at # None => at \in Portfolios /\ it \in Sockets
    /\ \A w \in dead : peer[w] = "gone"

\* While nobody has changed the set, the iterator is exact: it walks the
\* members, and has visited the ones sent to, the dead ones and the current.
IterationOK ==
    /\ detached => churned
    /\ at # None /\ ~churned =>
           conns[at] = start /\ seen = sent \cup dead \cup {it}

Registered == LiveStayRegistered /\ NoGhosts /\ NoEmptyEntries
Inv == TypeOK /\ LoopOK /\ Registered
FullInv == Inv /\ IterationOK

LEMMA InitInv == Init => FullInv
<1> SUFFICES ASSUME Init PROVE FullInv
  OBVIOUS
<1>1. TypeOK
  <2>1. breaks \in 0..MaxBreaks
    BY SocketsAssumption DEF Init
  <2>2. ep \in [Sockets -> Endpoints] /\ peer \in [Sockets -> {"open", "gone"}]
    BY DEF Init, Endpoints
  <2> QED BY <2>1, <2>2 DEF Init, TypeOK, Endpoints
<1>2. LoopOK /\ IterationOK
  BY DEF Init, LoopOK, IterationOK
<1>3. Registered
  BY DEF Init, Registered, LiveStayRegistered, NoGhosts, NoEmptyEntries, Live
<1> QED BY <1>1, <1>2, <1>3 DEF FullInv, Inv

-----------------------------------------------------------------------------
(* The registry operations *)

\* Registering a socket under its own portfolio, as its endpoint starts to
\* receive, keeps the registry right.
LEMMA RegisterKeeps ==
    ASSUME Inv, NEW w \in Sockets, Register(w, Of[w]),
           ep' = [ep EXCEPT ![w] = "receive"], peer' = peer
    PROVE  /\ keys' \subseteq Portfolios
           /\ conns' \in [Portfolios -> SUBSET Sockets]
           /\ Registered'
<1>1. Of[w] \in Portfolios
  BY SocketsAssumption
<1>2. keys' \subseteq Portfolios /\ conns' \in [Portfolios -> SUBSET Sockets]
  BY <1>1 DEF Register, Inv, TypeOK
<1>3. LiveStayRegistered'
  BY <1>1, SocketsAssumption DEF Register, Inv, TypeOK, Registered, LiveStayRegistered, Live
<1>4. NoGhosts'
  BY <1>1 DEF Register, Inv, TypeOK, Registered, NoGhosts
<1>5. NoEmptyEntries'
  BY <1>1 DEF Register, Inv, TypeOK, Registered, NoEmptyEntries
<1> QED BY <1>2, <1>3, <1>4, <1>5 DEF Registered

\* Unregistering sockets none of which is live keeps it right, too: whoever
\* stays has an entry.
LEMMA DisconnectKeeps ==
    ASSUME Inv, NEW ws \in SUBSET Sockets, NEW p \in Portfolios, Disconnect(ws, p),
           \A w \in ws : ~Live(w)'
    PROVE  /\ keys' \subseteq Portfolios
           /\ conns' \in [Portfolios -> SUBSET Sockets]
           /\ ep' = ep /\ peer' = peer => Registered'
<1>1. keys' \subseteq Portfolios /\ conns' \in [Portfolios -> SUBSET Sockets]
  BY DEF Disconnect, Inv, TypeOK
<1>2. ASSUME ep' = ep, peer' = peer PROVE LiveStayRegistered'
  BY <1>2, SocketsAssumption DEF Disconnect, Inv, TypeOK, Registered, LiveStayRegistered, Live
<1>3. ASSUME ep' = ep, peer' = peer PROVE NoGhosts'
  BY <1>3 DEF Disconnect, Inv, TypeOK, Registered, NoGhosts
<1>4. NoEmptyEntries'
  BY DEF Disconnect, Inv, TypeOK, Registered, NoEmptyEntries
<1> QED BY <1>1, <1>2, <1>3, <1>4 DEF Registered

\* A change of the set under iteration is noticed or marked.
LEMMA DisturbKeeps ==
    ASSUME Inv, NEW p, NEW changed \in BOOLEAN, NEW emptied \in BOOLEAN,
           Disturb(p, changed, emptied)
    PROVE  /\ at' = at /\ it' = it /\ msg' = msg /\ start' = start
           /\ sent' = sent /\ dead' = dead
           /\ seen' \subseteq Sockets
           /\ churned' \in BOOLEAN /\ detached' \in BOOLEAN
           /\ (detached => churned) => (detached' => churned')
           /\ ~churned' => /\ ~churned /\ seen' = seen
                           /\ at # p \/ ~changed \/ detached
<1>1. CASE at = p /\ changed /\ ~detached
  BY <1>1 DEF Disturb, Inv, TypeOK
<1>2. CASE ~(at = p /\ changed /\ ~detached)
  BY <1>2 DEF Disturb, Inv, TypeOK
<1> QED BY <1>1, <1>2

-----------------------------------------------------------------------------
(* The endpoint steps *)

\* Steps of an endpoint that is not in the registry, or that only loses its
\* browser, leave registry and loop alone.
LEMMA EndpointOutside ==
    ASSUME FullInv, NEW w \in Sockets,
           Open(w) \/ Refuse(w) \/ Authorize(w) \/ HandshakeFails(w) \/ PeerGone(w) \/ Break(w)
    PROVE  FullInv'
<1> USE DEF Open, Refuse, Authorize, HandshakeFails, PeerGone, Break, registry, loop
<1>1. /\ UNCHANGED <<registry, view, loop>>
      /\ \A v \in Sockets : peer[v] = "gone" => peer'[v] = "gone"
      /\ \A v \in Sockets : Live(v)' => Live(v)
      /\ \A v \in Sockets : ep[v] \in {"receive", "failed"} => ep'[v] \in {"receive", "failed"}
      /\ ep' \in [Sockets -> Endpoints] /\ peer' \in [Sockets -> {"open", "gone"}]
    BY DEF FullInv, Inv, TypeOK, Live, Endpoints
<1>2. breaks' \in 0..MaxBreaks
    BY SocketsAssumption DEF FullInv, Inv, TypeOK
<1>3. TypeOK'
    BY <1>1, <1>2 DEF FullInv, Inv, TypeOK, Endpoints
<1>4. LoopOK' /\ IterationOK'
    BY <1>1 DEF FullInv, Inv, TypeOK, LoopOK, IterationOK
<1>5. Registered'
    BY <1>1 DEF FullInv, Inv, TypeOK, Registered, LiveStayRegistered, NoGhosts, NoEmptyEntries
<1> QED BY <1>3, <1>4, <1>5 DEF FullInv, Inv

LEMMA ConnectKeeps ==
    ASSUME FullInv, NEW w \in Sockets, Connect(w)
    PROVE  FullInv'
<1>1. Register(w, Of[w]) /\ Disturb(Of[w], TRUE, FALSE) /\ Of[w] \in Portfolios
  BY SocketsAssumption DEF Connect
<1>2. ep' = [ep EXCEPT ![w] = "receive"] /\ UNCHANGED <<peer, breaks, view>>
  BY DEF Connect
<1>3. keys' \subseteq Portfolios /\ conns' \in [Portfolios -> SUBSET Sockets] /\ Registered'
  BY <1>1, <1>2, RegisterKeeps DEF FullInv
<1>4. /\ at' = at /\ it' = it /\ msg' = msg /\ start' = start
      /\ sent' = sent /\ dead' = dead /\ seen' \subseteq Sockets
      /\ churned' \in BOOLEAN /\ detached' \in BOOLEAN
      /\ detached' => churned'
      /\ ~churned' => ~churned /\ seen' = seen /\ at # Of[w]
  BY <1>1, DisturbKeeps DEF FullInv, IterationOK
<1>5. TypeOK'
  BY <1>2, <1>3, <1>4 DEF FullInv, Inv, TypeOK
<1>6. LoopOK'
  BY <1>2, <1>4 DEF FullInv, Inv, LoopOK
<1>7. IterationOK'
  BY <1>1, <1>4 DEF FullInv, Inv, TypeOK, LoopOK, IterationOK, Register
<1> QED BY <1>3, <1>5, <1>6, <1>7 DEF FullInv, Inv

LEMMA LeaveKeeps ==
    ASSUME FullInv, NEW w \in Sockets, Leave(w)
    PROVE  FullInv'
<1> DEFINE p == Of[w]
<1>1. p \in Portfolios
  BY SocketsAssumption
<1>2. /\ Disconnect({w}, p) /\ Disturb(p, w \in conns[p], conns[p] = {w})
      /\ ep' = [ep EXCEPT ![w] = "left"] /\ UNCHANGED <<peer, breaks, view>>
      /\ peer[w] = "gone"
  BY DEF Leave
<1>3. /\ keys' \subseteq Portfolios /\ conns' \in [Portfolios -> SUBSET Sockets]
      /\ \A q \in Portfolios : conns'[q] = IF q = p THEN conns[q] \ {w} ELSE conns[q]
  BY <1>1, <1>2 DEF Disconnect, FullInv, Inv, TypeOK
<1>4. /\ at' = at /\ it' = it /\ msg' = msg /\ start' = start
      /\ sent' = sent /\ dead' = dead /\ seen' \subseteq Sockets
      /\ churned' \in BOOLEAN /\ detached' \in BOOLEAN
      /\ detached' => churned'
      /\ ~churned' => ~churned /\ seen' = seen /\ (at # p \/ w \notin conns[p])
  <2>1. (w \in conns[p]) \in BOOLEAN /\ (conns[p] = {w}) \in BOOLEAN
    OBVIOUS
  <2> QED BY <1>2, <2>1, DisturbKeeps DEF FullInv, IterationOK
<1>5. TypeOK'
  BY <1>2, <1>3, <1>4 DEF FullInv, Inv, TypeOK
<1>6. LoopOK'
  BY <1>2, <1>4 DEF FullInv, Inv, LoopOK
<1>7. IterationOK'
  <2>1. ASSUME at # None, ~churned' PROVE conns'[at] = conns[at]
    BY <1>3, <1>4, <2>1 DEF FullInv, Inv, LoopOK
  <2> QED BY <1>4, <2>1 DEF FullInv, IterationOK
<1>8. Registered'
  <2>1. LiveStayRegistered'
    BY <1>1, <1>2, SocketsAssumption
    DEF Disconnect, FullInv, Inv, TypeOK, Registered, LiveStayRegistered, Live
  <2>2. NoGhosts'
    BY <1>2, <1>3 DEF FullInv, Inv, TypeOK, Registered, NoGhosts
  <2>3. NoEmptyEntries'
    BY <1>1, <1>2 DEF Disconnect, FullInv, Inv, TypeOK, Registered, NoEmptyEntries
  <2> QED BY <2>1, <2>2, <2>3 DEF Registered
<1> QED BY <1>5, <1>6, <1>7, <1>8 DEF FullInv, Inv

-----------------------------------------------------------------------------
(* The broadcast steps *)

LEMMA BeginKeeps ==
    ASSUME FullInv, NEW p \in Portfolios, NEW m \in Payloads, Begin(p, m)
    PROVE  FullInv'
<1>1. PICK w \in conns[p] : it' = w /\ seen' = {w}
  BY DEF Begin
<1>2. w \in Sockets
  BY DEF FullInv, Inv, TypeOK
<1>3. /\ at' = p /\ msg' = m /\ start' = conns[p]
      /\ sent' = {} /\ dead' = {} /\ churned' = FALSE /\ detached' = FALSE
      /\ UNCHANGED <<keys, conns, ep, peer, breaks, view>>
  BY DEF Begin, registry, clients
<1>4. TypeOK'
  BY <1>1, <1>2, <1>3 DEF FullInv, Inv, TypeOK
<1>5. LoopOK' /\ IterationOK'
  BY <1>1, <1>2, <1>3, SocketsAssumption DEF LoopOK, IterationOK
<1>6. Registered'
  BY <1>3 DEF FullInv, Inv, Registered, LiveStayRegistered, Live, NoGhosts, NoEmptyEntries
<1> QED BY <1>4, <1>5, <1>6 DEF FullInv, Inv

\* What the return of a send leaves behind.
LEMMA SendReturned ==
    ASSUME FullInv, SendReturns
    PROVE  /\ at \in Portfolios /\ it \in Sockets
           /\ view' \in [Sockets -> Payloads \cup {None}]
           /\ sent' \subseteq Sockets /\ dead' \subseteq Sockets
           /\ \A w \in dead' : peer[w] = "gone"
           /\ sent' \cup dead' = sent \cup dead \cup {it}
<1>1. at \in Portfolios /\ it \in Sockets
  BY DEF SendReturns, FullInv, Inv, LoopOK
<1>2. CASE SendSucceeds
  BY <1>1, <1>2 DEF SendSucceeds, FullInv, Inv, TypeOK, LoopOK
<1>3. CASE SendFails
  BY <1>1, <1>3 DEF SendFails, FullInv, Inv, TypeOK, LoopOK
<1> QED BY <1>1, <1>2, <1>3 DEF SendReturns

LEMMA SendNextKeeps ==
    ASSUME FullInv, SendNext
    PROVE  FullInv'
<1>1. PICK w \in Ahead : it' = w /\ seen' = seen \cup {w}
  BY DEF SendNext
<1>2. w \in Sockets
  BY SendReturned DEF SendNext, Ahead, FullInv, Inv, TypeOK
<1>3. UNCHANGED <<keys, conns, ep, peer, breaks, at, msg, start, churned, detached>>
  BY DEF SendNext, registry, clients
<1>4. TypeOK'
  BY <1>1, <1>2, <1>3, SendReturned DEF SendNext, FullInv, Inv, TypeOK
<1>5. LoopOK'
  BY <1>1, <1>2, <1>3, SendReturned, SocketsAssumption DEF SendNext, LoopOK
<1>6. IterationOK'
  BY <1>1, <1>3, SendReturned DEF SendNext, SendReturns, FullInv, IterationOK
<1>7. Registered'
  BY <1>3 DEF FullInv, Inv, Registered, LiveStayRegistered, Live, NoGhosts, NoEmptyEntries
<1> QED BY <1>4, <1>5, <1>6, <1>7 DEF FullInv, Inv

LEMMA IdleKeeps ==
    ASSUME FullInv, SendReturns, Idle, UNCHANGED clients,
           keys' \subseteq Portfolios, conns' \in [Portfolios -> SUBSET Sockets]
    PROVE  TypeOK' /\ LoopOK' /\ IterationOK'
<1>1. TypeOK'
  BY SendReturned DEF Idle, clients, FullInv, Inv, TypeOK
<1>2. LoopOK' /\ IterationOK'
  BY SendReturned DEF Idle, clients, LoopOK, IterationOK
<1> QED BY <1>1, <1>2

LEMMA SendLastKeeps ==
    ASSUME FullInv, SendLast
    PROVE  FullInv'
<1>1. SendReturns /\ Disconnect(dead', at) /\ Idle /\ UNCHANGED clients
  BY DEF SendLast
<1>2. /\ at \in Portfolios /\ dead' \in SUBSET Sockets
      /\ \A w \in dead' : peer[w] = "gone" /\ ep' = ep /\ peer' = peer
  BY <1>1, SendReturned DEF clients
<1>3. \A w \in dead' : ~Live(w)'
  BY <1>2 DEF Live
<1>4. /\ keys' \subseteq Portfolios /\ conns' \in [Portfolios -> SUBSET Sockets]
      /\ Registered'
  BY <1>1, <1>2, <1>3, DisconnectKeeps DEF FullInv, clients
<1> QED BY <1>1, <1>4, IdleKeeps DEF FullInv, Inv

LEMMA SendThenAbortKeeps ==
    ASSUME FullInv, SendThenAbort
    PROVE  FullInv'
<1>1. SendReturns /\ Idle /\ UNCHANGED clients /\ UNCHANGED <<keys, conns>>
  BY DEF SendThenAbort, registry
<1>2. TypeOK' /\ LoopOK' /\ IterationOK'
  BY <1>1, IdleKeeps DEF FullInv, Inv, TypeOK
<1>3. Registered'
  BY <1>1 DEF clients, FullInv, Inv, Registered, LiveStayRegistered, Live, NoGhosts, NoEmptyEntries
<1> QED BY <1>2, <1>3 DEF FullInv, Inv

LEMMA NextInv == FullInv /\ [Next]_vars => FullInv'
<1> SUFFICES ASSUME FullInv, [Next]_vars PROVE FullInv'
  OBVIOUS
<1>1. ASSUME NEW w \in Sockets, EndpointStep(w) \/ PeerGone(w) \/ Break(w) PROVE FullInv'
  BY <1>1, EndpointOutside, ConnectKeeps, LeaveKeeps DEF EndpointStep
<1>2. ASSUME NEW p \in Portfolios, NEW m \in Payloads, Begin(p, m) PROVE FullInv'
  BY <1>2, BeginKeeps
<1>3. CASE BroadcastStep
  BY <1>3, SendNextKeeps, SendLastKeeps, SendThenAbortKeeps DEF BroadcastStep
<1>4. CASE UNCHANGED vars
  <2>1. TypeOK'
    BY <1>4 DEF vars, registry, clients, loop, FullInv, Inv, TypeOK
  <2>2. LoopOK' /\ IterationOK'
    BY <1>4 DEF vars, registry, clients, loop, FullInv, Inv, LoopOK, IterationOK
  <2>3. Registered'
    BY <1>4 DEF vars, registry, clients, FullInv, Inv, Registered, LiveStayRegistered, Live,
                NoGhosts, NoEmptyEntries
  <2> QED BY <2>1, <2>2, <2>3 DEF FullInv, Inv
<1> QED BY <1>1, <1>2, <1>3, <1>4 DEF Next

-----------------------------------------------------------------------------

\* Every reachable state has the declared types.
THEOREM TypeCorrect == Spec => []TypeOK
<1>1. FullInv => TypeOK
  BY DEF FullInv, Inv
<1> QED BY <1>1, InitInv, NextInv, PTL DEF Spec

\* Nothing ever takes a live socket out of the registry.
THEOREM LiveRegistered == Spec => []LiveStayRegistered
<1>1. FullInv => LiveStayRegistered
  BY DEF FullInv, Inv, Registered
<1> QED BY <1>1, InitInv, NextInv, PTL DEF Spec

\* Nothing ever puts a socket back whose endpoint has left.
THEOREM NoGhostRegistered == Spec => []NoGhosts
<1>1. FullInv => NoGhosts
  BY DEF FullInv, Inv, Registered
<1> QED BY <1>1, InitInv, NextInv, PTL DEF Spec

\* The subscriber is told of exactly the portfolios that have a socket.
THEOREM EntriesHaveMembers == Spec => []NoEmptyEntries
<1>1. FullInv => NoEmptyEntries
  BY DEF FullInv, Inv, Registered
<1> QED BY <1>1, InitInv, NextInv, PTL DEF Spec

\* A broadcast over a set nobody changes reaches or prunes every member.
THEOREM UndisturbedComplete == Spec => UndisturbedIsComplete
<1> DEFINE Complete == (at # None /\ at' = None /\ ~churned)
                          => \A w \in start : w \in sent' \/ w \notin conns'[at]
<1>1. FullInv /\ [Next]_vars => [Complete]_vars
  <2> SUFFICES ASSUME FullInv, [Next]_vars, at # None, at' = None, ~churned, NEW w \in start
               PROVE  w \in sent' \/ w \notin conns'[at]
    OBVIOUS
  <2>1. conns[at] = start /\ seen = sent \cup dead \cup {it} /\ ~detached
    BY DEF FullInv, IterationOK
  <2>2. SendLast
    <3>1. ~SizeChanged
      BY <2>1 DEF SizeChanged
    <3>2. SendLast \/ SendThenAbort
      BY SocketsAssumption
      DEF Next, vars, loop, EndpointStep, Open, Refuse, Authorize, Connect, HandshakeFails, Leave,
          PeerGone, Break, Begin, BroadcastStep, SendNext, Disturb
    <3> QED BY <3>1, <3>2 DEF SendThenAbort
  <2>3. Ahead = {}
    BY <2>2 DEF SendLast
  <2>4. w \in sent' \/ w \in dead'
    BY <2>1, <2>2, <2>3, SendReturned DEF SendLast, Ahead
  <2>5. conns'[at] = conns[at] \ dead'
    BY <2>2, SendReturned DEF SendLast, Disconnect, FullInv, Inv, TypeOK
  <2> QED BY <2>4, <2>5
<1>2. Spec => [][Complete]_vars
  BY <1>1, InitInv, NextInv, PTL DEF Spec
<1> QED BY <1>2 DEF UndisturbedIsComplete

=============================================================================
