------------------------ MODULE PortfolioSocketProofs ------------------------
(***************************************************************************)
(* Proofs about PortfolioSocket, for any portfolios, any number of runs    *)
(* and failures, with or without StrictMode.                               *)
(***************************************************************************)
EXTENDS PortfolioSocket, FiniteSetTheorems, TLAPS

\* Sockets are made in order, by runs there have been.
SocketsOK ==
    /\ \A w \in Sockets : w > made => st[w] = "none"
    /\ \A w \in Sockets : run[w] <= runs
    /\ \A w \in timers : st[w] = "closed"
    /\ wsRef <= made

\* What the cleanup closes and clears includes the last thing that happened.
LastOK == ~unmounted => st[wsRef] \in {"connecting", "open"} \/ retryTimer \in timers

\* What will, or may, lead to a further socket, and how many there may be.
Pending == timers \cup {w \in Sockets : st[w] = "closing" /\ ~unmounted}
CountOK == made + Cardinality(Pending) <= 2 * runs - 1 + breaks

\* Until the effect runs again, the one attempt there is sets the badge.
BadgeOK ==
    runs = 1 /\ ~unmounted =>
        \A w \in Sockets : Alive(w) =>
            \/ st[w] = "connecting" /\ status = "connecting"
            \/ st[w] = "open" /\ status = "live"
            \/ w \in timers /\ status = "reconnecting"

Inv ==
    /\ TypeOK /\ SocketsOK /\ LastOK /\ CountOK /\ BadgeOK
    /\ OnePerRun /\ NeverGivesUp /\ LeavesFewer

LEMMA SocketsFinite == IsFiniteSet(Sockets)
  BY FS_Interval, SocketAssumption DEF Sockets

LEMMA PendingFinite ==
    ASSUME TypeOK PROVE IsFiniteSet(Pending) /\ Cardinality(Pending) \in Nat
<1>1. Pending \subseteq Sockets
  BY DEF Pending, TypeOK
<1> QED BY <1>1, SocketsFinite, FS_Subset, FS_CardinalityType

\* There is always room for one socket more.
LEMMA RoomToRetry ==
    ASSUME Inv, NEW w \in timers PROVE made + 1 \in Sockets
<1>1. IsFiniteSet(Pending) /\ w \in Pending
  BY PendingFinite DEF Inv, Pending
<1>2. Cardinality(Pending) # 0 /\ Cardinality(Pending) \in Nat
  BY <1>1, FS_EmptySet, FS_CardinalityType
<1> QED BY <1>2, SocketAssumption DEF Inv, TypeOK, CountOK, Sockets, Runs

LEMMA RoomToRerun ==
    ASSUME Inv, runs < MaxRuns PROVE made + 1 \in Sockets
<1>1. Cardinality(Pending) \in Nat
  BY PendingFinite DEF Inv
<1> QED BY <1>1, SocketAssumption DEF Inv, TypeOK, CountOK, Sockets, Runs

LEMMA InitInv == Init => Inv
<1> SUFFICES ASSUME Init PROVE Inv
  OBVIOUS
<1>1. 1 \in Sockets /\ 1 \in Runs /\ 0 \in 0..MaxBreaks
  BY SocketAssumption DEF Sockets, Runs
<1>2. TypeOK
  BY <1>1 DEF Init, TypeOK
<1>3. Pending = {}
  BY DEF Init, Pending
<1>4. CountOK
  BY <1>3, FS_EmptySet DEF Init, CountOK
<1>5. \A w \in Sockets : Alive(w) <=> w = 1
  BY DEF Init, Alive
<1>6. OnePerRun /\ NeverGivesUp /\ LeavesFewer /\ BadgeOK
  BY <1>1, <1>5 DEF Init, OnePerRun, NeverGivesUp, LeavesFewer, BadgeOK
<1>7. SocketsOK /\ LastOK
  BY <1>1 DEF Init, SocketsOK, LastOK, Sockets
<1> QED BY <1>2, <1>4, <1>6, <1>7 DEF Inv

-----------------------------------------------------------------------------
(* The count *)

LEMMA Numbers ==
    ASSUME TypeOK
    PROVE  /\ runs \in Int /\ made \in Int /\ breaks \in Int /\ made + 1 \in Int
           /\ 1 <= made /\ 1 <= runs /\ runs <= MaxRuns /\ wsRef \in Int
  BY SocketAssumption DEF TypeOK, Runs, Sockets

LEMMA CountFewer ==
    ASSUME Inv, TypeOK', Pending' \subseteq Pending, made' = made, runs' = runs,
           breaks' \in {breaks, breaks + 1}
    PROVE  CountOK'
<1>1. Cardinality(Pending') <= Cardinality(Pending)
  BY PendingFinite, FS_Subset DEF Inv
<1>2. Cardinality(Pending') \in Nat /\ Cardinality(Pending) \in Nat
  BY PendingFinite, FS_Subset, FS_CardinalityType DEF Inv
<1> QED BY <1>1, <1>2, Numbers DEF Inv, CountOK

LEMMA CountOneMore ==
    ASSUME NEW S, IsFiniteSet(S), NEW T, NEW w, T \subseteq S \cup {w}
    PROVE  IsFiniteSet(T) /\ Cardinality(T) \in Nat /\ Cardinality(S) \in Nat
           /\ Cardinality(T) <= Cardinality(S) + 1
<1>0. Cardinality(S) \in Nat
  BY FS_CardinalityType
<1>1. IsFiniteSet(S \cup {w}) /\ Cardinality(S \cup {w}) \in Nat
      /\ Cardinality(S \cup {w}) <= Cardinality(S) + 1
  <2>1. /\ IsFiniteSet(S \cup {w})
        /\ Cardinality(S \cup {w}) = IF w \in S THEN Cardinality(S) ELSE Cardinality(S) + 1
    BY FS_AddElement
  <2> QED BY <1>0, <2>1
<1>2. IsFiniteSet(T) /\ Cardinality(T) <= Cardinality(S \cup {w})
  BY <1>1, FS_Subset
<1>3. Cardinality(T) \in Nat
  BY <1>2, FS_CardinalityType
<1> QED BY <1>0, <1>1, <1>2, <1>3

LEMMA CountOneLess ==
    ASSUME NEW S, IsFiniteSet(S), NEW w \in S, NEW T, T \subseteq S \ {w}
    PROVE  IsFiniteSet(T) /\ Cardinality(T) \in Nat /\ Cardinality(S) \in Nat
           /\ Cardinality(T) + 1 <= Cardinality(S)
<1>1. IsFiniteSet(S \ {w}) /\ Cardinality(S \ {w}) = Cardinality(S) - 1
  BY FS_RemoveElement
<1>2. IsFiniteSet(T) /\ Cardinality(T) <= Cardinality(S \ {w})
  BY <1>1, FS_Subset
<1> QED BY <1>1, <1>2, FS_CardinalityType

-----------------------------------------------------------------------------
(* One lemma per action *)

LEMMA OnOpenKeeps == ASSUME Inv, NEW w \in Sockets, OnOpen(w) PROVE Inv'
<1>1. /\ st[w] = "connecting" /\ st' = [st EXCEPT ![w] = "open"]
      /\ status' = IF unmounted THEN status ELSE "live"
      /\ UNCHANGED <<runs, of, made, run, timers, wsRef, retryTimer, unmounted, data, breaks>>
  BY DEF OnOpen, refs
<1>2. TypeOK'
  BY <1>1 DEF Inv, TypeOK
<1>3. \A v \in Sockets : Alive(v)' <=> Alive(v)
  BY <1>1 DEF Inv, TypeOK, Alive
<1>4. OnePerRun' /\ NeverGivesUp' /\ LeavesFewer'
  BY <1>1, <1>3 DEF Inv, OnePerRun, NeverGivesUp, LeavesFewer
<1>5. SocketsOK' /\ LastOK'
  BY <1>1 DEF Inv, TypeOK, SocketsOK, LastOK
<1>6. CountOK'
  <2>1. Pending' \subseteq Pending
    BY <1>1 DEF Inv, TypeOK, Pending
  <2> QED BY <1>1, <1>2, <2>1, CountFewer
<1>7. BadgeOK'
  <2>1. runs = 1 /\ ~unmounted => \A v \in Sockets : Alive(v) => v = w
    BY <1>1, SocketAssumption DEF Inv, TypeOK, OnePerRun, SocketsOK, Alive, Runs
  <2> QED BY <1>1, <1>3, <2>1 DEF Inv, TypeOK, BadgeOK
<1> QED BY <1>2, <1>4, <1>5, <1>6, <1>7 DEF Inv

LEMMA OnMessageKeeps == ASSUME Inv, NEW w \in Sockets, OnMessage(w) PROVE Inv'
<1>1. UNCHANGED <<runs, of, made, st, run, timers, wsRef, retryTimer, unmounted, status, breaks>>
      /\ data' = of[run[w]]
  BY DEF OnMessage, refs
<1>2. TypeOK'
  BY <1>1 DEF Inv, TypeOK
<1>3. Pending' = Pending /\ \A v \in Sockets : Alive(v)' <=> Alive(v)
  BY <1>1 DEF Pending, Alive
<1>4. CountOK'
  BY <1>1, <1>2, <1>3, CountFewer
<1> QED BY <1>1, <1>2, <1>3, <1>4 DEF Inv, SocketsOK, LastOK, BadgeOK, OnePerRun,
        NeverGivesUp, LeavesFewer

LEMMA OnCloseKeeps == ASSUME Inv, NEW w \in Sockets, OnClose(w) PROVE Inv'
<1>1. /\ st[w] \in {"connecting", "open", "closing"} /\ st' = [st EXCEPT ![w] = "closed"]
      /\ UNCHANGED <<runs, of, made, run, wsRef, unmounted, data>>
      /\ \/ breaks' = breaks /\ st[w] = "closing"
         \/ breaks' = breaks + 1 /\ breaks < MaxBreaks
  BY DEF OnClose, Closes
<1>2. IF unmounted THEN UNCHANGED <<timers, retryTimer, status>>
      ELSE status' = "reconnecting" /\ timers' = timers \cup {w} /\ retryTimer' = w
  BY DEF OnClose
<1>3. TypeOK'
  BY <1>1, <1>2, SocketAssumption DEF Inv, TypeOK
<1>4. \A v \in Sockets : Alive(v)' => Alive(v)
  BY <1>1, <1>2 DEF Inv, TypeOK, Alive
<1>5. ~unmounted => \A v \in Sockets : Alive(v) => Alive(v)'
  BY <1>1, <1>2 DEF Inv, TypeOK, Alive
<1>6. OnePerRun' /\ NeverGivesUp' /\ LeavesFewer'
  BY <1>1, <1>4, <1>5 DEF Inv, OnePerRun, NeverGivesUp, LeavesFewer
<1>7. SocketsOK' /\ LastOK'
  BY <1>1, <1>2 DEF Inv, TypeOK, SocketsOK, LastOK
<1>8. CountOK'
  <2>1. CASE unmounted \/ st[w] = "closing"
    <3>1. Pending' \subseteq Pending
      BY <1>1, <1>2, <2>1 DEF Inv, TypeOK, Pending
    <3>2. breaks' \in {breaks, breaks + 1}
      BY <1>1
    <3> QED BY <1>1, <1>3, <3>1, <3>2, CountFewer
  <2>2. CASE ~unmounted /\ st[w] # "closing"
    <3>1. Pending' \subseteq Pending \cup {w}
      BY <1>1, <1>2, <2>2 DEF Inv, TypeOK, Pending
    <3>2. /\ Cardinality(Pending') \in Nat /\ Cardinality(Pending) \in Nat
          /\ Cardinality(Pending') <= Cardinality(Pending) + 1
      BY <3>1, PendingFinite, CountOneMore DEF Inv
    <3> QED BY <1>1, <2>2, <3>2, Numbers DEF Inv, CountOK
  <2> QED BY <2>1, <2>2
<1>9. BadgeOK'
  <2>1. runs = 1 /\ ~unmounted => \A v \in Sockets : Alive(v) => v = w
    BY <1>1, SocketAssumption DEF Inv, TypeOK, OnePerRun, SocketsOK, Alive, Runs
  <2> QED BY <1>1, <1>2, <1>4, <2>1 DEF Inv, TypeOK, BadgeOK
<1> QED BY <1>3, <1>6, <1>7, <1>8, <1>9 DEF Inv

LEMMA RetryKeeps == ASSUME Inv, NEW w \in Sockets, Retry(w) PROVE Inv'
<1> DEFINE n == made + 1
<1>1. /\ w \in timers /\ timers' = timers \ {w} /\ made' = n
      /\ st' = [st EXCEPT ![n] = "connecting"] /\ run' = [run EXCEPT ![n] = run[w]]
      /\ wsRef' = n /\ status' = IF unmounted THEN status ELSE "connecting"
      /\ UNCHANGED <<runs, of, retryTimer, unmounted, data, breaks>>
  BY DEF Retry, Connect
<1>2. n \in Sockets
  BY <1>1, RoomToRetry
<1>3. st[n] = "none" /\ n \notin timers /\ w # n /\ st[w] = "closed" /\ n > made
  BY <1>1, <1>2, Numbers DEF Inv, SocketsOK
<1>4. TypeOK'
  BY <1>1, <1>2 DEF Inv, TypeOK
<1>5. \A v \in Sockets : Alive(v)' <=> v = n \/ (Alive(v) /\ v # w)
  BY <1>1, <1>2, <1>3 DEF Inv, TypeOK, Alive
<1>6. Alive(w) /\ ~Alive(n)
  BY <1>1, <1>3 DEF Alive
<1>7. run'[n] = run[w] /\ \A v \in Sockets \ {n} : run'[v] = run[v]
  BY <1>1, <1>2 DEF Inv, TypeOK
<1> HIDE DEF n
<1>8. OnePerRun'
  BY <1>5, <1>6, <1>7 DEF Inv, OnePerRun
<1>9. NeverGivesUp'
  BY <1>1, <1>2, <1>5, <1>6, <1>7 DEF Inv, NeverGivesUp
<1>10. LeavesFewer'
  BY <1>1, <1>5, <1>6, <1>7 DEF Inv, LeavesFewer
<1>11. SocketsOK'
  <2>1. ASSUME NEW v \in Sockets, v > made' PROVE st'[v] = "none"
    <3>1. v > made /\ v # n
      BY <1>1, <2>1, Numbers DEF n, Inv, Sockets
    <3> QED BY <1>1, <3>1 DEF Inv, TypeOK, SocketsOK
  <2>2. \A v \in Sockets : run'[v] <= runs'
    BY <1>1, <1>7 DEF Inv, SocketsOK
  <2>3. \A v \in timers' : st'[v] = "closed"
    BY <1>1, <1>3 DEF Inv, TypeOK, SocketsOK
  <2>4. wsRef' <= made'
    BY <1>1, Numbers DEF Inv, n
  <2> QED BY <2>1, <2>2, <2>3, <2>4 DEF SocketsOK
<1>12. LastOK'
  BY <1>1, <1>2 DEF Inv, TypeOK, LastOK
<1>13. CountOK'
  <2>1. Pending' \subseteq Pending \ {w} /\ w \in Pending
    BY <1>1, <1>2, <1>3 DEF Inv, TypeOK, Pending
  <2>2. /\ Cardinality(Pending') \in Nat /\ Cardinality(Pending) \in Nat
        /\ Cardinality(Pending') + 1 <= Cardinality(Pending)
    BY <2>1, PendingFinite, CountOneLess DEF Inv
  <2> QED BY <1>1, <2>2, Numbers DEF Inv, CountOK, n
<1>14. BadgeOK'
  <2>1. runs = 1 /\ ~unmounted => \A v \in Sockets : Alive(v) => v = w
    BY <1>1, <1>6, SocketAssumption DEF Inv, TypeOK, OnePerRun, SocketsOK, Runs
  <2> QED BY <1>1, <1>2, <1>5, <2>1 DEF Inv, TypeOK, BadgeOK
<1> QED BY <1>4, <1>8, <1>9, <1>10, <1>11, <1>12, <1>13, <1>14 DEF Inv

\* What is alive after the cleanup, and that a run has no attempt left then.
LEMMA CloseEffect ==
    ASSUME Inv, ~unmounted
    PROVE  /\ Close(wsRef) \in [Sockets -> {"none", "connecting", "open", "closing", "closed"}]
           /\ \A v \in Sockets \ {wsRef} : Close(wsRef)[v] = st[v]
           /\ st[wsRef] \in {"connecting", "open"} => Close(wsRef)[wsRef] = "closing"
           /\ st[wsRef] \notin {"connecting", "open"} => Close(wsRef)[wsRef] = st[wsRef]
  BY DEF Inv, TypeOK, Close

LEMMA LeaveKeeps == ASSUME Inv, Leave PROVE Inv'
<1>1. /\ ~unmounted /\ unmounted' = TRUE /\ timers' = timers \ {retryTimer} /\ st' = Close(wsRef)
      /\ UNCHANGED <<runs, of, made, run, wsRef, retryTimer, data, status, breaks>>
  BY DEF Leave
<1>2. TypeOK'
  BY <1>1, CloseEffect DEF Inv, TypeOK
<1>3. \A v \in Sockets : Alive(v)' => Alive(v)
  BY <1>1, CloseEffect DEF Inv, TypeOK, Alive
<1>4. OnePerRun' /\ NeverGivesUp' /\ BadgeOK' /\ LastOK'
  BY <1>1, <1>3 DEF Inv, OnePerRun, NeverGivesUp, BadgeOK, LastOK
<1>5. LeavesFewer'
  <2>1. PICK w \in Sockets : Alive(w) /\ ~Alive(w)'
    <3>1. CASE st[wsRef] \in {"connecting", "open"}
      <4>1. wsRef \in Sockets /\ Alive(wsRef) /\ wsRef \notin timers
        BY <3>1 DEF Inv, TypeOK, SocketsOK, Alive
      <4> QED BY <1>1, <3>1, <4>1, CloseEffect DEF Alive
    <3>2. CASE retryTimer \in timers
      <4>1. retryTimer \in Sockets /\ Alive(retryTimer) /\ st[retryTimer] = "closed"
        BY <3>2 DEF Inv, TypeOK, SocketsOK, Alive
      <4>2. st'[retryTimer] = "closed"
        BY <1>1, <4>1, CloseEffect
      <4> QED BY <1>1, <4>1, <4>2 DEF Alive
    <3> QED BY <1>1, <3>1, <3>2 DEF Inv, LastOK
  <2>2. \A v \in Sockets : Alive(v)' => run[v] # run[w]
    BY <1>3, <2>1 DEF Inv, OnePerRun
  <2>3. run[w] \in 1..runs
    BY Numbers DEF Inv, TypeOK, SocketsOK, Runs
  <2> QED BY <1>1, <2>2, <2>3 DEF LeavesFewer
<1>6. SocketsOK'
  <2>1. \A v \in Sockets : v > made => st'[v] = "none"
    BY <1>1, CloseEffect DEF Inv, SocketsOK
  <2>2. \A v \in timers' : st'[v] = "closed"
    BY <1>1, CloseEffect DEF Inv, TypeOK, SocketsOK
  <2> QED BY <1>1, <2>1, <2>2 DEF Inv, SocketsOK
<1>7. CountOK'
  <2>1. Pending' \subseteq Pending
    BY <1>1 DEF Pending
  <2> QED BY <1>1, <1>2, <2>1, CountFewer
<1> QED BY <1>2, <1>4, <1>5, <1>6, <1>7 DEF Inv

LEMMA RerunKeeps == ASSUME Inv, Rerun PROVE Inv'
<1> DEFINE n == made + 1
           k == runs + 1
<1>1. /\ ~unmounted /\ runs < MaxRuns /\ runs' = k /\ timers' = timers \ {retryTimer} /\ made' = n
      /\ st' = [Close(wsRef) EXCEPT ![n] = "connecting"] /\ run' = [run EXCEPT ![n] = k]
      /\ wsRef' = n /\ status' = "connecting"
      /\ UNCHANGED <<of, retryTimer, unmounted, data, breaks>>
  BY DEF Rerun, Connect
<1>2. n \in Sockets
  BY <1>1, RoomToRerun
<1>3. st[n] = "none" /\ n \notin timers /\ n # wsRef /\ Close(wsRef)[n] = "none"
  <2>1. n > made /\ st[n] = "none"
    BY <1>2, Numbers DEF Inv, SocketsOK
  <2>2. n # wsRef
    BY <2>1, Numbers DEF Inv, SocketsOK
  <2> QED BY <1>1, <1>2, <2>1, <2>2, CloseEffect DEF Inv, SocketsOK
<1>4. k \in Runs /\ k > runs /\ k # 1
  BY <1>1, Numbers, SocketAssumption DEF Inv, Runs
<1>5. TypeOK'
  BY <1>1, <1>2, <1>4, CloseEffect DEF Inv, TypeOK
<1>6. st'[n] = "connecting" /\ run'[n] = k /\ \A v \in Sockets \ {n} : run'[v] = run[v]
      /\ \A u \in Sockets \ {n} : st'[u] = Close(wsRef)[u]
  BY <1>1, <1>2, CloseEffect DEF Inv, TypeOK
<1>7. \A v \in Sockets \ {n} : Alive(v)' => Alive(v)
  BY <1>1, <1>6, CloseEffect DEF Alive
<1>8. \A v \in Sockets : run[v] # k
  BY <1>4, Numbers DEF Inv, TypeOK, SocketsOK, Runs
<1> HIDE DEF n, k
<1>9. OnePerRun'
  BY <1>6, <1>7, <1>8 DEF Inv, OnePerRun
<1>10. NeverGivesUp' /\ LeavesFewer' /\ LastOK' /\ BadgeOK'
  BY <1>1, <1>2, <1>4, <1>6 DEF NeverGivesUp, LeavesFewer, LastOK, BadgeOK, Alive
<1>11. SocketsOK'
  <2>1. ASSUME NEW v \in Sockets, v > made' PROVE st'[v] = "none"
    <3>1. v > made /\ v # n
      BY <1>1, <2>1, Numbers DEF n, Inv, Sockets
    <3> QED BY <1>1, <1>6, <3>1, CloseEffect DEF Inv, SocketsOK
  <2>2. \A v \in Sockets : run'[v] <= runs'
    <3>1. \A v \in Sockets : run[v] <= runs /\ run[v] \in Int
      BY DEF Inv, SocketsOK, TypeOK, Runs
    <3>2. runs' >= runs /\ runs' = k /\ runs' \in Int /\ runs \in Int
      BY <1>1, Numbers DEF k, Inv
    <3> QED BY <1>6, <3>1, <3>2
  <2>3. \A v \in timers' : st'[v] = "closed"
    BY <1>1, <1>3, <1>6, CloseEffect DEF Inv, TypeOK, SocketsOK
  <2>4. wsRef' <= made'
    BY <1>1, Numbers DEF Inv, n
  <2> QED BY <2>1, <2>2, <2>3, <2>4 DEF SocketsOK
<1>12. CountOK'
  <2>1. Pending' \subseteq Pending \cup {wsRef}
    BY <1>1, <1>6, CloseEffect DEF Pending
  <2>2. /\ Cardinality(Pending') \in Nat /\ Cardinality(Pending) \in Nat
        /\ Cardinality(Pending') <= Cardinality(Pending) + 1
    BY <2>1, PendingFinite, CountOneMore DEF Inv
  <2> QED BY <1>1, <2>2, Numbers DEF Inv, CountOK, n, k
<1> QED BY <1>5, <1>9, <1>10, <1>11, <1>12 DEF Inv

-----------------------------------------------------------------------------

LEMMA NextInv == Inv /\ [Next]_vars => Inv'
<1> SUFFICES ASSUME Inv, [Next]_vars PROVE Inv'
  OBVIOUS
<1>1. CASE Next
  BY <1>1, RerunKeeps, LeaveKeeps, OnOpenKeeps, OnMessageKeeps, OnCloseKeeps, RetryKeeps DEF Next
<1>2. CASE UNCHANGED vars
  <2>1. UNCHANGED <<runs, of, made, st, run, timers, wsRef, retryTimer, unmounted, data, status,
                    breaks>>
    BY <1>2 DEF vars, refs
  <2>2. Pending' = Pending /\ \A v \in Sockets : Alive(v)' <=> Alive(v)
    BY <2>1 DEF Pending, Alive
  <2>3. CountOK'
    BY <2>1, <2>2 DEF Inv, CountOK
  <2> QED BY <2>1, <2>2, <2>3 DEF Inv, TypeOK, SocketsOK, LastOK, BadgeOK, OnePerRun,
          NeverGivesUp, LeavesFewer
<1> QED BY <1>1, <1>2

LEMMA Invariant == Spec => []Inv
  BY InitInv, NextInv, PTL DEF Spec

\* The hook is well typed; in particular, the sockets it makes are bounded by
\* its runs and the failures.
THEOREM TypeCorrect == Spec => []TypeOK
<1>1. Inv => TypeOK
  BY DEF Inv
<1> QED BY <1>1, Invariant, PTL

\* No run of the effect ever has two connections or attempts.
THEOREM OneAttemptPerRun == Spec => []OnePerRun
<1>1. Inv => OnePerRun
  BY DEF Inv
<1> QED BY <1>1, Invariant, PTL

\* While the page is there, its portfolio is connected or will be.
THEOREM AlwaysTrying == Spec => []NeverGivesUp
<1>1. Inv => NeverGivesUp
  BY DEF Inv
<1> QED BY <1>1, Invariant, PTL

\* Leaving the page ends the attempts of one run at least.
THEOREM LeavingEndsOne == Spec => []LeavesFewer
<1>1. Inv => LeavesFewer
  BY DEF Inv
<1> QED BY <1>1, Invariant, PTL

\* Until the effect runs again the badge shows the state of the connection.
THEOREM BadgeCorrect == Spec => []BadgeIsTrue
<1>1. Inv => BadgeIsTrue
  <2> SUFFICES ASSUME Inv, runs = 1, ~unmounted
               PROVE  /\ status = "live" <=> \E w \in Sockets : st[w] = "open"
                      /\ status = "reconnecting" <=> timers # {}
    BY DEF BadgeIsTrue
  <2>1. PICK v \in Sockets : Alive(v)
    BY DEF Inv, NeverGivesUp
  <2>2. \A w \in Sockets : Alive(w) => w = v
    BY <2>1, SocketAssumption DEF Inv, TypeOK, OnePerRun, SocketsOK, Runs
  <2>3. \A w \in timers : w \in Sockets /\ st[w] = "closed"
    BY DEF Inv, TypeOK, SocketsOK
  <2> QED BY <2>1, <2>2, <2>3 DEF Inv, BadgeOK, Alive
<1> QED BY <1>1, Invariant, PTL
=============================================================================
