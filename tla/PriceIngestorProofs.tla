------------------------ MODULE PriceIngestorProofs ------------------------
(***************************************************************************)
(* Proofs about PriceIngestor, for any number of processes, symbols and    *)
(* prices, any lifetime and any bounds.                                    *)
(***************************************************************************)
EXTENDS PriceIngestor, TLAPS

\* The type invariant is not inductive alone: a tick writes cur[i] and
\* new[i][cur[i]] without looking at them again, so they must be a symbol
\* and a price by then.
Inv == TypeOK /\ TickIsConsistent

States == {"asleep", "awake", "fetching", "comparing", "writing",
           "publishing", "down", "stopped"}

LEMMA InitInv == Init => Inv
BY ConstantsAssumption DEF Init, Inv, TypeOK, TickIsConsistent, NoPrices

-----------------------------------------------------------------------------
(* What the shared parts of the actions preserve *)

\* Putting a task to sleep keeps its variables well typed and consistent.
LEMMA AsleepTask ==
    ASSUME Inv, NEW i \in Processes, Asleep(i)
    PROVE  /\ pc' \in [Processes -> States]
           /\ todo' \in [Processes -> SUBSET Symbols]
           /\ new' \in [Processes -> [Symbols -> Priced \cup {None}]]
           /\ cur' \in [Processes -> Symbols \cup {None}]
           /\ TickIsConsistent'
BY DEF Inv, TypeOK, TickIsConsistent, Asleep, NoPrices, States

\* So does going on to the next symbol.
LEMMA NextSymbolTask ==
    ASSUME Inv, NEW i \in Processes, NEW s \in todo[i], NextSymbol(i, s),
           pc[i] \in {"comparing", "writing", "publishing"}
    PROVE  /\ pc' \in [Processes -> States]
           /\ todo' \in [Processes -> SUBSET Symbols]
           /\ new' \in [Processes -> [Symbols -> Priced \cup {None}]]
           /\ cur' \in [Processes -> Symbols \cup {None}]
           /\ TickIsConsistent'
<1>1. CASE todo[i] = {s}
  BY <1>1, AsleepTask DEF NextSymbol
<1>2. CASE todo[i] # {s}
  <2>1. /\ pc' = [pc EXCEPT ![i] = "comparing"]
        /\ todo' = [todo EXCEPT ![i] = @ \ {s}]
        /\ cur' = [cur EXCEPT ![i] = None]
        /\ new' = new
    BY <1>2 DEF NextSymbol
  <2>2. \A t \in todo[i] : new[i][t] # None
    BY DEF Inv, TickIsConsistent
  <2>3. TickIsConsistent'
    BY <2>1, <2>2 DEF Inv, TypeOK, TickIsConsistent
  <2> QED BY <2>1, <2>3 DEF Inv, TypeOK, States
<1> QED BY <1>1, <1>2

\* A process that halts forgets its tick.
LEMMA HaltTask ==
    ASSUME Inv, NEW i \in Processes, NEW how \in {"down", "stopped"}, Halt(i, how)
    PROVE  /\ pc' \in [Processes -> States]
           /\ todo' \in [Processes -> SUBSET Symbols]
           /\ new' \in [Processes -> [Symbols -> Priced \cup {None}]]
           /\ cur' \in [Processes -> Symbols \cup {None}]
           /\ last' \in [Processes -> [Symbols -> Prices \cup {None}]]
           /\ TickIsConsistent'
BY DEF Inv, TypeOK, TickIsConsistent, Halt, NoPrices, States

\* What a call in flight may do to Redis is well typed.
LEMMA InFlightRedis ==
    ASSUME Inv, NEW i \in Processes, InFlight(i)
    PROVE  /\ cache' \in [Symbols -> Priced \cup {None}]
           /\ ttl' \in [Symbols -> 0..TTL]
           /\ silent' \subseteq Symbols
<1>1. CASE UNCHANGED redis
  BY <1>1 DEF Inv, TypeOK, redis
<1>2. CASE pc[i] = "writing" /\ SetPrice(cur[i], new[i][cur[i]])
  BY <1>2, ConstantsAssumption DEF Inv, TypeOK, TickIsConsistent, SetPrice
<1>3. CASE pc[i] = "publishing" /\ Announce(cur[i])
  BY <1>3 DEF Inv, TypeOK, Announce
<1> QED BY <1>1, <1>2, <1>3 DEF InFlight

LEMMA FaultCount ==
    ASSUME faults \in 0..MaxFaults, Fault
    PROVE  faults' \in 0..MaxFaults
BY ConstantsAssumption DEF Fault

\* The provider's answer is a price, and the tick goes on to compare only
\* symbols it has fetched.
LEMMA FetchedTask ==
    ASSUME Inv, NEW i \in Processes, NEW s \in todo[i], NEW price \in Priced,
           pc[i] = "fetching", Fetched(i, s, price)
    PROVE  /\ pc' \in [Processes -> States]
           /\ todo' \in [Processes -> SUBSET Symbols]
           /\ new' \in [Processes -> [Symbols -> Priced \cup {None}]]
           /\ cur' \in [Processes -> Symbols \cup {None}]
           /\ TickIsConsistent'
<1>1. s \in Symbols /\ price # None
  BY ConstantsAssumption DEF Inv, TypeOK, Priced
<1>2. CASE todo[i] = {s}
  <2>1. /\ new' = [new EXCEPT ![i][s] = price]
        /\ pc' = [pc EXCEPT ![i] = "comparing"]
        /\ todo' = [todo EXCEPT ![i] = {t \in Symbols : new[i][t] # None} \cup {s}]
        /\ cur' = cur
    BY <1>2 DEF Fetched
  <2>2. new' \in [Processes -> [Symbols -> Priced \cup {None}]]
    BY <2>1, <1>1 DEF Inv, TypeOK
  <2>3. todo' \in [Processes -> SUBSET Symbols]
    BY <2>1, <1>1 DEF Inv, TypeOK
  <2>4. \A t \in todo'[i] : new'[i][t] # None
    BY <2>1, <1>1 DEF Inv, TypeOK
  <2>5. \A j \in Processes \ {i} : pc'[j] = pc[j] /\ todo'[j] = todo[j] /\ new'[j] = new[j]
    BY <2>1 DEF Inv, TypeOK
  <2>6. TickIsConsistent'
    BY <2>1, <2>4, <2>5 DEF Inv, TypeOK, TickIsConsistent
  <2> QED BY <2>1, <2>2, <2>3, <2>6 DEF Inv, TypeOK, States
<1>3. CASE todo[i] # {s}
  BY <1>1, <1>3 DEF Fetched, Inv, TypeOK, TickIsConsistent, States
<1> QED BY <1>2, <1>3

-----------------------------------------------------------------------------

LEMMA NextInv == Inv /\ [Next]_vars => Inv'
<1> SUFFICES ASSUME Inv, [Next]_vars PROVE Inv'
  OBVIOUS
<1> USE DEF States
<1>1. ASSUME NEW i \in Processes, ReadSymbols(i) PROVE Inv'
  <2>1. CASE held = {}
    BY <1>1, <2>1, AsleepTask DEF ReadSymbols, Inv, TypeOK, market, redis
  <2>2. CASE held # {}
    BY <1>1, <2>2 DEF ReadSymbols, Inv, TypeOK, TickIsConsistent, market, redis
  <2> QED BY <2>1, <2>2
<1>2. ASSUME NEW i \in Processes, NEW s \in Symbols, FetchQuote(i, s) PROVE Inv'
  <2>1. s \in todo[i] /\ quote[s] \in Priced /\ pc[i] = "fetching" /\ Fetched(i, s, quote[s])
    BY <1>2 DEF FetchQuote, Inv, TypeOK, Priced
  <2>2. last' \in [Processes -> [Symbols -> Prices \cup {None}]]
    BY <1>2 DEF FetchQuote, Inv, TypeOK
  <2> QED BY <1>2, <2>1, <2>2, FetchedTask DEF FetchQuote, Fetched, Inv, TypeOK, market, redis
<1>3. ASSUME NEW i \in Processes, NEW s \in Symbols, FetchMiss(i, s) PROVE Inv'
  <2>1. Substitute(i, s) \in Priced
    BY DEF Substitute, Inv, TypeOK, Priced
  <2>2. s \in todo[i] /\ pc[i] = "fetching" /\ Fetched(i, s, Substitute(i, s))
    BY <1>3 DEF FetchMiss
  <2>3. misses' \in 0..MaxMisses
    BY <1>3, ConstantsAssumption DEF FetchMiss, Inv, TypeOK
  <2> QED BY <1>3, <2>1, <2>2, <2>3, FetchedTask DEF FetchMiss, Fetched, Inv, TypeOK, market, redis
<1>4. ASSUME NEW i \in Processes, NEW s \in Symbols, Skip(i, s) PROVE Inv'
  BY <1>4, NextSymbolTask DEF Skip, Inv, TypeOK, market, redis
<1>5. ASSUME NEW i \in Processes, NEW s \in Symbols, Differs(i, s) PROVE Inv'
  BY <1>5 DEF Differs, Inv, TypeOK, TickIsConsistent, market, redis
<1>6. ASSUME NEW i \in Processes, Write(i) PROVE Inv'
  <2>1. InFlight(i)
    BY <1>6 DEF Write, InFlight
  <2>2. TickIsConsistent'
    BY <1>6 DEF Write, Inv, TypeOK, TickIsConsistent
  <2> QED BY <1>6, <2>1, <2>2, InFlightRedis DEF Write, Inv, TypeOK, market
<1>7. ASSUME NEW i \in Processes, Publish(i) PROVE Inv'
  <2>1. InFlight(i)
    BY <1>7 DEF Publish, InFlight
  <2>2. cur[i] \in todo[i]
    BY <1>7 DEF Publish, Inv, TickIsConsistent
  <2> QED BY <1>7, <2>1, <2>2, InFlightRedis, NextSymbolTask DEF Publish, Inv, TypeOK, market
<1>8. ASSUME NEW i \in Processes, TickFails(i) PROVE Inv'
  BY <1>8, InFlightRedis, AsleepTask, FaultCount DEF TickFails, Inv, TypeOK, market
<1>9. ASSUME NEW i \in Processes, Crash(i) PROVE Inv'
  BY <1>9, InFlightRedis, HaltTask, FaultCount DEF Crash, Halt, Inv, TypeOK, market
<1>10. ASSUME NEW i \in Processes, Restart(i) PROVE Inv'
  BY <1>10 DEF Restart, Inv, TypeOK, TickIsConsistent, market, redis
<1>11. ASSUME NEW i \in Processes, Shutdown(i) PROVE Inv'
  <2>1. CASE pc[i] = "asleep"
    BY <1>11, <2>1, HaltTask DEF Shutdown, Halt, Inv, TypeOK, market, redis
  <2>2. CASE pc[i] # "asleep"
    BY <1>11, <2>2, InFlightRedis, HaltTask, FaultCount DEF Shutdown, Halt, Inv, TypeOK, market
  <2> QED BY <2>1, <2>2
<1>12. ASSUME NEW s \in Symbols, Expire(s) PROVE Inv'
  BY <1>12 DEF Expire, Inv, TypeOK, TickIsConsistent, market, task
<1>13. ASSUME NEW s \in Symbols, MoveQuote(s) PROVE Inv'
  BY <1>13, ConstantsAssumption DEF MoveQuote, Move, Inv, TypeOK, TickIsConsistent, task, redis
<1>14. ASSUME NEW s \in Symbols, ChangeHeld(s) PROVE Inv'
  BY <1>14, ConstantsAssumption DEF ChangeHeld, Move, Inv, TypeOK, TickIsConsistent, task, redis
<1>15. ASSUME Elapse PROVE Inv'
  <2>1. ttl' \in [Symbols -> 0..TTL]
    BY <1>15, ConstantsAssumption DEF Elapse, Inv, TypeOK
  <2>2. pc' \in [Processes -> States] /\ TickIsConsistent'
    BY <1>15 DEF Elapse, Inv, TypeOK, TickIsConsistent
  <2> QED BY <1>15, <2>1, <2>2 DEF Elapse, Inv, TypeOK, market
<1>16. ASSUME UNCHANGED vars PROVE Inv'
  BY <1>16 DEF vars, market, redis, task, Inv, TypeOK, TickIsConsistent
<1> QED
  BY <1>1, <1>2, <1>3, <1>4, <1>5, <1>6, <1>7, <1>8, <1>9, <1>10, <1>11,
     <1>12, <1>13, <1>14, <1>15, <1>16 DEF Next, TickStep

\* Every reachable state has the declared types.
THEOREM TypeCorrect == Spec => []TypeOK
<1>1. Inv => TypeOK
  BY DEF Inv
<1> QED BY <1>1, InitInv, NextInv, PTL DEF Spec

\* A tick only writes prices it fetched, for symbols it has still to handle.
THEOREM TickConsistent == Spec => []TickIsConsistent
<1>1. Inv => TickIsConsistent
  BY DEF Inv
<1> QED BY <1>1, InitInv, NextInv, PTL DEF Spec

-----------------------------------------------------------------------------
(* Who is about to publish what *)

Publishing(i, s) == pc[i] = "publishing" /\ cur[i] = s

SamePublishers ==
    \A i \in Processes, s \in Symbols : Publishing(i, s)' <=> Publishing(i, s)

\* Only i stops publishing, or never was.
OthersPublish(i) ==
    \A j \in Processes \ {i}, s \in Symbols : Publishing(j, s)' <=> Publishing(j, s)

LEMMA OwedIsPublishing == Owed = {s \in silent : \E i \in Processes : Publishing(i, s)}
BY DEF Owed, Publishing

LEMMA NextSymbolPublishers ==
    ASSUME Inv, NEW i \in Processes, NEW s \in Symbols, NextSymbol(i, s)
    PROVE  OthersPublish(i) /\ pc'[i] # "publishing"
BY DEF Inv, TypeOK, NextSymbol, Asleep, OthersPublish, Publishing

LEMMA AsleepPublishers ==
    ASSUME Inv, NEW i \in Processes, Asleep(i)
    PROVE  OthersPublish(i) /\ pc'[i] # "publishing"
BY DEF Inv, TypeOK, Asleep, OthersPublish, Publishing

LEMMA HaltPublishers ==
    ASSUME Inv, NEW i \in Processes, NEW how \in {"down", "stopped"}, Halt(i, how)
    PROVE  OthersPublish(i) /\ pc'[i] # "publishing"
BY DEF Inv, TypeOK, Halt, OthersPublish, Publishing

\* The steps that neither touch Redis nor start or end a publication.
QuietStep ==
    \/ \E i \in Processes :
           \/ ReadSymbols(i) \/ Restart(i)
           \/ \E s \in Symbols : FetchQuote(i, s) \/ FetchMiss(i, s)
           \/ \E s \in Symbols : Skip(i, s) \/ Differs(i, s)
    \/ \E s \in Symbols : MoveQuote(s) \/ ChangeHeld(s)
    \/ Elapse
    \/ UNCHANGED vars

LEMMA QuietSteps ==
    ASSUME Inv, QuietStep
    PROVE  SamePublishers /\ cache' = cache /\ silent' = silent /\ faults' = faults
<1> USE DEF Inv, TypeOK, SamePublishers, Publishing, redis, market, task
<1>1. ASSUME NEW i \in Processes, ReadSymbols(i)
      PROVE  SamePublishers /\ cache' = cache /\ silent' = silent /\ faults' = faults
  BY <1>1 DEF ReadSymbols, Asleep
<1>2. ASSUME NEW i \in Processes, Restart(i)
      PROVE  SamePublishers /\ cache' = cache /\ silent' = silent /\ faults' = faults
  BY <1>2 DEF Restart
<1>3. ASSUME NEW i \in Processes, NEW s \in Symbols, FetchQuote(i, s) \/ FetchMiss(i, s)
      PROVE  SamePublishers /\ cache' = cache /\ silent' = silent /\ faults' = faults
  BY <1>3 DEF FetchQuote, FetchMiss, Fetched
<1>4. ASSUME NEW i \in Processes, NEW s \in Symbols, Skip(i, s)
      PROVE  SamePublishers /\ cache' = cache /\ silent' = silent /\ faults' = faults
  <2>1. OthersPublish(i) /\ pc'[i] # "publishing" /\ pc[i] # "publishing"
    BY <1>4, NextSymbolPublishers DEF Skip
  <2> QED BY <1>4, <2>1 DEF Skip, OthersPublish
<1>5. ASSUME NEW i \in Processes, NEW s \in Symbols, Differs(i, s)
      PROVE  SamePublishers /\ cache' = cache /\ silent' = silent /\ faults' = faults
  BY <1>5 DEF Differs
<1>6. ASSUME NEW s \in Symbols, MoveQuote(s) \/ ChangeHeld(s)
      PROVE  SamePublishers /\ cache' = cache /\ silent' = silent /\ faults' = faults
  BY <1>6 DEF MoveQuote, ChangeHeld
<1>7. ASSUME Elapse
      PROVE  SamePublishers /\ cache' = cache /\ silent' = silent /\ faults' = faults
  BY <1>7 DEF Elapse
<1>8. ASSUME UNCHANGED vars
      PROVE  SamePublishers /\ cache' = cache /\ silent' = silent /\ faults' = faults
  BY <1>8 DEF vars
<1> QED BY <1>1, <1>2, <1>3, <1>4, <1>5, <1>6, <1>7, <1>8 DEF QuietStep

LEMMA QuietOwed ==
    ASSUME Inv, QuietStep
    PROVE  Owed' = Owed
<1>1. SamePublishers /\ silent' = silent
  BY QuietSteps
<1>2. silent \subseteq Symbols
  BY DEF Inv, TypeOK
<1>3. Owed' = {s \in silent' : \E i \in Processes : Publishing(i, s)'}
  BY DEF Owed, Publishing
<1> QED BY <1>1, <1>2, <1>3, OwedIsPublishing DEF SamePublishers

\* The steps that interrupt process i.
Interruption(i) ==
    \/ TickFails(i) \/ Crash(i)
    \/ Shutdown(i)

\* All of Next, sorted by what the feed sees of it.
LEMMA StepKinds ==
    ASSUME [Next]_vars
    PROVE  \/ QuietStep
           \/ \E i \in Processes : Write(i) \/ Publish(i) \/ Interruption(i)
           \/ \E s \in Symbols : Expire(s)
BY DEF Next, TickStep, QuietStep, Interruption

-----------------------------------------------------------------------------
(* No silent price without a fault *)

LEMMA SilentStep ==
    ASSUME Inv, NoSilentPrice, [Next]_vars
    PROVE  NoSilentPrice'
<1> SUFFICES ASSUME faults' = 0, NEW s \in silent'
             PROVE  \E i \in Processes : Publishing(i, s)'
  BY DEF NoSilentPrice, Publishing
<1>1. CASE QuietStep
  <2>1. faults = 0 /\ s \in silent /\ s \in Symbols
    BY <1>1, QuietSteps DEF Inv, TypeOK
  <2>2. PICK i \in Processes : Publishing(i, s)
    BY <2>1 DEF NoSilentPrice, Publishing
  <2> QED BY <1>1, <2>1, <2>2, QuietSteps DEF SamePublishers
<1>2. ASSUME NEW i \in Processes, Write(i) PROVE \E j \in Processes : Publishing(j, s)'
  <2>1. CASE s = cur[i]
    BY <1>2, <2>1 DEF Write, Publishing, Inv, TypeOK
  <2>2. CASE s # cur[i]
    <3>1. faults = 0 /\ s \in silent
      BY <1>2, <2>2 DEF Write, SetPrice
    <3>2. PICK j \in Processes : Publishing(j, s)
      BY <3>1 DEF NoSilentPrice, Publishing
    <3> QED BY <1>2, <3>2 DEF Write, Publishing, Inv, TypeOK
  <2> QED BY <2>1, <2>2
<1>3. ASSUME NEW i \in Processes, Publish(i) PROVE \E j \in Processes : Publishing(j, s)'
  <2>1. faults = 0 /\ s \in silent /\ s # cur[i]
    BY <1>3 DEF Publish, Announce
  <2>2. PICK j \in Processes : Publishing(j, s)
    BY <2>1 DEF NoSilentPrice, Publishing
  <2>3. j # i /\ s \in Symbols /\ cur[i] \in Symbols
    BY <1>3, <2>1, <2>2 DEF Publishing, Publish, Inv, TypeOK, TickIsConsistent
  <2> QED BY <1>3, <2>2, <2>3, NextSymbolPublishers DEF Publish, OthersPublish
<1>4. ASSUME NEW i \in Processes, Interruption(i) PROVE \E j \in Processes : Publishing(j, s)'
  <2>1. ~Fault
    BY DEF Fault, Inv, TypeOK
  <2>2. Shutdown(i) /\ pc[i] = "asleep"
    BY <1>4, <2>1 DEF Interruption, TickFails, Crash, Shutdown
  <2>3. faults = 0 /\ s \in silent /\ s \in Symbols
    BY <2>2 DEF Shutdown, redis, Inv, TypeOK
  <2>4. PICK j \in Processes : Publishing(j, s)
    BY <2>3 DEF NoSilentPrice, Publishing
  <2>5. j # i
    BY <2>2, <2>4 DEF Publishing
  <2> QED BY <2>2, <2>3, <2>4, <2>5, HaltPublishers DEF Shutdown, OthersPublish
<1>5. ASSUME NEW r \in Symbols, Expire(r) PROVE \E j \in Processes : Publishing(j, s)'
  BY <1>5 DEF Expire, task, NoSilentPrice, Publishing
<1> QED BY <1>1, <1>2, <1>3, <1>4, <1>5, StepKinds

\* Without a failed call or a process dying inside a tick, every cached price
\* that has not been published is about to be.
THEOREM NothingSilent == Spec => []NoSilentPrice
<1>1. Init => NoSilentPrice
  BY DEF Init, NoSilentPrice
<1>2. Inv /\ NoSilentPrice /\ [Next]_vars => NoSilentPrice'
  BY SilentStep
<1> QED BY <1>1, <1>2, InitInv, NextInv, PTL DEF Spec

-----------------------------------------------------------------------------
(* PriceIngestor implements PriceFeed *)

\* A step that neither starts nor ends a publication of another process
\* changes what is owed only through silent and through process i.
LEMMA OwedAfter ==
    ASSUME Inv, NEW i \in Processes, OthersPublish(i), silent' \subseteq Symbols
    PROVE  Owed' = {s \in silent' : \/ Publishing(i, s)'
                                   \/ \E j \in Processes \ {i} : Publishing(j, s)}
BY DEF Owed, Publishing, OthersPublish

LEMMA WriteIsPut ==
    ASSUME Inv, NEW i \in Processes, Write(i)
    PROVE  \E s \in Symbols, price \in Priced : Feed!Put(s, price)
<1>1. cur[i] \in Symbols /\ new[i][cur[i]] \in Priced
  BY DEF Write, Inv, TypeOK, TickIsConsistent
<1>2. OthersPublish(i) /\ \A s \in Symbols : Publishing(i, s)' <=> s = cur[i]
  BY DEF Write, Inv, TypeOK, OthersPublish, Publishing
<1>3. \A s \in Symbols : ~Publishing(i, s)
  BY DEF Write, Publishing
<1>4. silent' = silent \cup {cur[i]} /\ silent \subseteq Symbols
  BY DEF Write, SetPrice, Inv, TypeOK
<1>5. Owed' = Owed \cup {cur[i]}
  BY <1>1, <1>2, <1>3, <1>4, OwedAfter, OwedIsPublishing
<1>6. cache' = [cache EXCEPT ![cur[i]] = new[i][cur[i]]] /\ faults' = faults
  BY DEF Write, SetPrice
<1> QED BY <1>1, <1>5, <1>6 DEF Feed!Put

LEMMA PublishIsAnnounce ==
    ASSUME Inv, NEW i \in Processes, Publish(i)
    PROVE  \E s \in Symbols : Feed!Announce(s)
<1>1. cur[i] \in Symbols
  BY DEF Publish, Inv, TypeOK, TickIsConsistent
<1>2. OthersPublish(i) /\ pc'[i] # "publishing"
  BY <1>1, NextSymbolPublishers DEF Publish
<1>3. \A s \in Symbols : Publishing(i, s) <=> s = cur[i]
  BY DEF Publish, Publishing
<1>4. silent' = silent \ {cur[i]} /\ silent \subseteq Symbols
  BY DEF Publish, Announce, Inv, TypeOK
<1>5. Owed' = Owed \ {cur[i]}
  BY <1>2, <1>3, <1>4, OwedAfter, OwedIsPublishing DEF Publishing
<1> QED BY <1>1, <1>5 DEF Publish, Announce, Feed!Announce

LEMMA ExpireIsExpire ==
    ASSUME Inv, NEW s \in Symbols, Expire(s)
    PROVE  Feed!Expire(s)
<1>1. Owed' = Owed
  BY DEF Expire, task, Owed
<1> QED BY <1>1 DEF Expire, Feed!Expire

\* Whatever becomes of the call in flight, an interruption is a slip.
LEMMA InterruptionIsSlip ==
    ASSUME Inv, NEW i \in Processes, Interruption(i), Fault, InFlight(i)
    PROVE  Feed!Slip
<1>1. OthersPublish(i) /\ pc'[i] # "publishing"
  BY AsleepPublishers, HaltPublishers DEF Interruption, TickFails, Crash, Shutdown
<1>2. silent \subseteq Symbols /\ silent' \subseteq Symbols
  BY InFlightRedis DEF Inv, TypeOK
<1>3. Owed' = {s \in silent' : \E j \in Processes \ {i} : Publishing(j, s)}
  BY <1>1, <1>2, OwedAfter DEF Publishing
<1>4. CASE pc[i] = "writing" /\ SetPrice(cur[i], new[i][cur[i]])
  <2>1. cur[i] \in Symbols /\ new[i][cur[i]] \in Priced
    BY <1>4 DEF Inv, TypeOK, TickIsConsistent
  <2>2. Owed = {s \in silent : \E j \in Processes \ {i} : Publishing(j, s)}
    BY <1>4, OwedIsPublishing DEF Publishing
  <2>3. silent' = silent \cup {cur[i]}
    BY <1>4 DEF SetPrice
  <2>4. Owed' \in {Owed, Owed \cup {cur[i]}}
    BY <1>3, <2>2, <2>3
  <2> QED BY <1>4, <2>1, <2>4 DEF Fault, SetPrice, Feed!Slip
<1>5. CASE ~(pc[i] = "writing" /\ SetPrice(cur[i], new[i][cur[i]]))
  <2>1. cache' = cache
    BY <1>5 DEF InFlight, redis, Announce
  <2>2. CASE pc[i] = "publishing"
    <3>1. cur[i] \in Symbols /\ \A s \in Symbols : Publishing(i, s) <=> s = cur[i]
      BY <2>2 DEF Publishing, Inv, TypeOK, TickIsConsistent
    <3>2. silent' = silent \/ silent' = silent \ {cur[i]}
      BY <1>5 DEF InFlight, redis, Announce
    <3>3. Owed' = Owed \/ Owed' = Owed \ {cur[i]}
      BY <1>2, <1>3, <3>1, <3>2, OwedIsPublishing
    <3> QED BY <2>1, <3>1, <3>3 DEF Fault, Feed!Slip
  <2>3. CASE pc[i] # "publishing"
    <3>1. silent' = silent
      BY <1>5, <2>3 DEF InFlight, redis
    <3>2. Owed' = Owed
      BY <1>3, <2>3, <3>1, OwedIsPublishing DEF Publishing
    <3> QED BY <2>1, <3>2 DEF Fault, Feed!Slip
  <2> QED BY <2>2, <2>3
<1> QED BY <1>4, <1>5

\* A sleeping process that is shut down changes nothing the feed shows.
LEMMA CleanShutdown ==
    ASSUME Inv, NEW i \in Processes, Shutdown(i), pc[i] = "asleep"
    PROVE  UNCHANGED Feed!feedVars
<1>1. OthersPublish(i) /\ pc'[i] # "publishing"
  BY HaltPublishers DEF Shutdown
<1>2. silent' = silent /\ silent \subseteq Symbols
  BY DEF Shutdown, redis, Inv, TypeOK
<1>3. Owed' = Owed
  BY <1>1, <1>2, OwedAfter, OwedIsPublishing DEF Publishing
<1> QED BY <1>3 DEF Shutdown, redis, Feed!feedVars

\* Every behaviour of the ingestors is one of PriceFeed.
THEOREM FeedImplemented == Spec => ImplementsFeed
<1>1. Init => Feed!Init
  BY DEF Init, Feed!Init, Owed, NoPrices
<1>2. Inv /\ [Next]_vars => [Feed!Next]_Feed!feedVars
  <2> SUFFICES ASSUME Inv, [Next]_vars PROVE [Feed!Next]_Feed!feedVars
    OBVIOUS
  <2>1. CASE QuietStep
    BY <2>1, QuietOwed, QuietSteps DEF Feed!feedVars
  <2>2. ASSUME NEW i \in Processes, Write(i) PROVE Feed!Next
    BY <2>2, WriteIsPut DEF Feed!Next
  <2>3. ASSUME NEW i \in Processes, Publish(i) PROVE Feed!Next
    BY <2>3, PublishIsAnnounce DEF Feed!Next
  <2>4. ASSUME NEW i \in Processes, Interruption(i) PROVE [Feed!Next]_Feed!feedVars
    <3>1. CASE Shutdown(i) /\ pc[i] = "asleep"
      BY <3>1, CleanShutdown
    <3>2. CASE ~(Shutdown(i) /\ pc[i] = "asleep")
      <4>1. Fault /\ InFlight(i)
        BY <2>4, <3>2 DEF Interruption, TickFails, Crash, Shutdown
      <4> QED BY <2>4, <4>1, InterruptionIsSlip DEF Feed!Next
    <3> QED BY <3>1, <3>2
  <2>5. ASSUME NEW s \in Symbols, Expire(s) PROVE Feed!Next
    BY <2>5, ExpireIsExpire DEF Feed!Next
  <2> QED BY <2>1, <2>2, <2>3, <2>4, <2>5, StepKinds
<1> QED BY <1>1, <1>2, InitInv, NextInv, PTL DEF Spec, ImplementsFeed, Feed!Spec

=============================================================================
