------------------------ MODULE PortfolioStoreProofs ------------------------
(***************************************************************************)
(* Proofs about PortfolioStore, for any calls, any number of requests,     *)
(* either order of answer and commit, and any number of failures.          *)
(*                                                                         *)
(* What a request has checked is stale when it writes; what makes up for   *)
(* it are locks.  So the invariant says, per request, what its stage       *)
(* means (RequestOK), and, per pair of requests, what their locks exclude  *)
(* (Compatible).                                                           *)
(***************************************************************************)
EXTENDS PortfolioStore, TLAPS

Active(r) == pc[r] \notin {"idle", "done"}
Adding(r) == Inserted(r) /\ call[r].op = "add"
Registering(r) == Inserted(r) /\ call[r].op = "register"
SameKey(x, y) == call[x].folio = call[y].folio /\ call[x].name = call[y].name
SameName(x, y) == call[x].user = call[y].user /\ call[x].name = call[y].name

\* The operations that run each statement.
StageOK(r) ==
    /\ pc[r] = "find" => call[r].op \in {"add", "update", "remove"}
    /\ pc[r] = "insert" => call[r].op \in {"register", "create", "add"}
    /\ pc[r] = "update" => call[r].op = "update" /\ base[r] # None
    /\ pc[r] = "delete" => call[r].op \in {"delete_portfolio", "remove"}
    /\ pc[r] \in {"drop", "cascade"} => call[r].op = "delete_portfolio"
    /\ pc[r] = "commit" /\ call[r].op = "update" =>
           base[r] # None /\ (wrote[r] = {} => base[r] = call[r].pair)

\* The rows a transaction has locked, stage by stage.
LocksOK(r) ==
    /\ wrote[r] \subseteq positions \cup folios
    /\ wrote[r] # {} => pc[r] \in {"drop", "cascade", "commit"}
    /\ wrote[r] # {} => call[r].op \in {"delete_portfolio", "update", "remove"}
    /\ call[r].op = "update" =>
           wrote[r] \subseteq {call[r].position} /\ wrote[r] \subseteq positions
    /\ \A f \in folios \cap wrote[r] :
           /\ call[r].op = "delete_portfolio" /\ f = call[r].folio
           /\ pc[r] \in {"cascade", "commit"}
           /\ pc[r] = "commit" => Contents(f) \subseteq wrote[r]

\* What an insert relies on: its portfolio is there, its e-mail is not, and
\* rows with its key came from requests that had not ended when it arrived.
InsertOK(r) ==
    /\ Adding(r) => call[r].folio \in folios
    /\ Registering(r) => \A u \in users : call[u].name # call[r].name
    /\ pc[r] \in {"insert", "commit"} /\ call[r].op = "add" =>
           \A x \in positions : SameKey(x, r) => x \notin prior[r]
    /\ pc[r] \in {"insert", "commit"} /\ call[r].op = "create" =>
           \A x \in folios : SameName(x, r) => x \notin prior[r]

\* Nobody has committed an update of r's position since r arrived.
Undisturbed(r) ==
    \A t \in committed \ prior[r] :
        ~(call[t].op = "update" /\ call[t].position = call[r].position)

\* What an update has loaded is still there unless somebody disturbed it.
LoadedOK(r) ==
    base[r] # None =>
        /\ call[r].op = "update" /\ base[r] \in Pairs
        /\ call[r].position \in Requests /\ pc[call[r].position] = "done"
        /\ call[r].position \in positions /\ Undisturbed(r) => base[r] = held[call[r].position]

RequestOK(r) ==
    /\ pc[r] # "idle" => call[r] \in Call
    /\ pc[r] # "idle" /\ call[r].op \in {"add", "update"} => call[r].pair \in Pairs
    /\ ~Active(r) => wrote[r] = {} /\ base[r] = None
    /\ Active(r) => StageOK(r) /\ LocksOK(r) /\ InsertOK(r) /\ LoadedOK(r)
    /\ prior[r] \subseteq {t \in Requests : pc[t] = "done"}

\* Locks exclude each other; a portfolio a position is being inserted into is
\* not deleted; of two registrations of an e-mail one has to wait.
Compatible(r, t) ==
    /\ wrote[r] \cap wrote[t] = {}
    /\ Adding(r) => call[r].folio \notin wrote[t]
    /\ Registering(r) /\ Registering(t) => call[r].name # call[t].name

\* Rows were created by requests of their kind that have ended.
RowsOK ==
    /\ \A x \in positions : pc[x] = "done" /\ call[x].op = "add" /\ held[x] \in Pairs
    /\ \A f \in folios : pc[f] = "done" /\ call[f].op = "create"
    /\ \A u \in users : pc[u] = "done" /\ call[u].op = "register"
    /\ \A t \in committed : pc[t] = "done"

Store == PositionsHaveFolio /\ OnlyRacesDuplicate /\ EmailsUnique

Inv ==
    /\ TypeOK /\ RowsOK /\ Store
    /\ \A r \in Requests : RequestOK(r)
    /\ \A r, t \in Requests : r # t => Compatible(r, t)

LEMMA InitInv == Init => Inv
<1> SUFFICES ASSUME Init PROVE Inv
  OBVIOUS
<1>1. DOMAIN History = 1..Len(History) /\ DOMAIN History \subseteq Requests
      /\ \A i \in DOMAIN History : History[i] \in Call
  BY StoreAssumption DEF Requests
<1>2. Created("register") \subseteq Requests /\ Created("create") \subseteq Requests
  BY <1>1 DEF Created
<1>3. TypeOK
  <2>1. faults \in 0..MaxFaults
    BY StoreAssumption DEF Init
  <2>2. call \in [Requests -> Call \cup {None}]
    BY <1>1 DEF Init
  <2> QED BY <2>1, <2>2, <1>1, <1>2 DEF Init, TypeOK
<1>4. \A r \in Requests : r \in DOMAIN History => pc[r] = "done" /\ call[r] = History[r]
  BY DEF Init
<1>5. RowsOK
  BY <1>1, <1>4 DEF Init, RowsOK, Created
<1>6. Store
  <2>1. \A x, y \in users : call[x].name = call[y].name => x = y
    BY <1>1, <1>4, StoreAssumption DEF Init, Created
  <2>2. \A x, y \in folios : x # y => ~SameName(x, y)
    BY <1>1, <1>4, StoreAssumption DEF Init, Created, SameName
  <2> QED BY <2>1, <2>2 DEF Init, Store, PositionsHaveFolio, OnlyRacesDuplicate,
                         EmailsUnique, SameName
<1>7. \A r \in Requests : RequestOK(r)
  BY <1>1, <1>4, StoreAssumption DEF Init, RequestOK, Active
<1>8. \A r, t \in Requests : r # t => Compatible(r, t)
  BY DEF Init, Compatible, Adding, Registering, Inserted, At
<1> QED BY <1>3, <1>5, <1>6, <1>7, <1>8 DEF Inv

-----------------------------------------------------------------------------
(* Steps that commit nothing *)

\* Request r went on, and nothing but its own session changed.
Moved(r) ==
    /\ Active(r) /\ pc'[r] # "idle"
    /\ UNCHANGED <<call, users, folios, positions, held, committed, prior>>
    /\ \A t \in Requests \ {r} :
           pc'[t] = pc[t] /\ wrote'[t] = wrote[t] /\ base'[t] = base[t]

\* Then the other requests and the rows are as they were.
LEMMA MoveKeeps ==
    ASSUME Inv, NEW r \in Requests, Moved(r), TypeOK', RequestOK(r)',
           \A t \in Requests \ {r} : Compatible(r, t)' /\ Compatible(t, r)'
    PROVE  Inv'
<1>1. RowsOK'
  BY DEF Inv, RowsOK, Moved, Active, TypeOK
<1>2. Store'
  BY DEF Inv, Store, PositionsHaveFolio, OnlyRacesDuplicate, EmailsUnique, Overlapped, Moved
<1>3. ASSUME NEW t \in Requests PROVE RequestOK(t)'
  <2>1. CASE t = r
    BY <2>1
  <2>2. CASE t # r
    <3>1. RequestOK(t)
      BY DEF Inv
    <3>2. pc'[t] = pc[t] /\ wrote'[t] = wrote[t] /\ base'[t] = base[t]
          /\ call'[t] = call[t] /\ prior'[t] = prior[t]
      BY <2>2 DEF Moved
    <3>3. Active(t)' <=> Active(t)
      BY <3>2 DEF Active
    <3>4. StageOK(t) => StageOK(t)'
      BY <3>2 DEF StageOK
    <3>5. LocksOK(t) => LocksOK(t)'
      BY <3>2 DEF LocksOK, Moved, Contents
    <3>6. InsertOK(t) => InsertOK(t)'
      BY <3>2 DEF InsertOK, Moved, Adding, Registering, Inserted, At, SameKey, SameName
    <3>7. LoadedOK(t) => LoadedOK(t)'
      BY <3>2 DEF LoadedOK, Undisturbed, Moved, Active
    <3>8. \A u \in Requests : pc[u] = "done" => pc'[u] = "done"
      BY DEF Moved, Active
    <3> QED BY <3>1, <3>2, <3>3, <3>4, <3>5, <3>6, <3>7, <3>8 DEF RequestOK
  <2> QED BY <2>1, <2>2
<1>4. ASSUME NEW t \in Requests, NEW u \in Requests, t # u PROVE Compatible(t, u)'
  <2>1. CASE t = r \/ u = r
    BY <2>1, <1>4
  <2>2. CASE t # r /\ u # r
    BY <2>2, <1>4 DEF Inv, Compatible, Adding, Registering, Inserted, At, Moved
  <2> QED BY <2>1, <2>2
<1> QED BY <1>1, <1>2, <1>3, <1>4 DEF Inv

\* A request that gives up leaves everything to the others.
LEMMA EndKeeps ==
    ASSUME Inv, NEW r \in Requests, Active(r), NEW a \in {"ok", "refused", "error"}, End(r, a),
           UNCHANGED <<call, tables, history>>, faults' \in 0..MaxFaults
    PROVE  Inv'
<1>1. TypeOK'
  BY DEF Inv, TypeOK, End, Goto, tables, history
<1>2. Moved(r)
  BY DEF Moved, End, Goto, tables, history, Inv, TypeOK
<1>3. pc'[r] = "done" /\ wrote'[r] = {} /\ base'[r] = None
  BY DEF End, Goto, Inv, TypeOK
<1>4. RequestOK(r)'
  <2>1. RequestOK(r)
    BY DEF Inv
  <2> QED BY <1>2, <1>3, <2>1 DEF RequestOK, Active, Moved
<1>5. ASSUME NEW t \in Requests \ {r} PROVE Compatible(r, t)' /\ Compatible(t, r)'
  BY <1>2, <1>3 DEF Compatible, Adding, Registering, Inserted, At, Moved
<1> QED BY <1>1, <1>2, <1>4, <1>5, MoveKeeps

\* A request that goes on to a statement other than the commit, and locks
\* nothing more.
LEMMA GoesOn ==
    ASSUME Inv, NEW r \in Requests, Moved(r), pc'[r] # "commit", wrote'[r] = wrote[r],
           TypeOK', RequestOK(r)'
    PROVE  Inv'
<1>1. ASSUME NEW t \in Requests \ {r} PROVE Compatible(r, t)' /\ Compatible(t, r)'
  <2>1. Compatible(r, t) /\ Compatible(t, r)
    BY DEF Inv
  <2> QED BY <2>1 DEF Compatible, Adding, Registering, Inserted, At, Moved
<1> QED BY <1>1, MoveKeeps

\* A request that goes on to the commit of an insert.
LEMMA InsertGoesOn ==
    ASSUME Inv, NEW r \in Requests, Moved(r), wrote'[r] = wrote[r], TypeOK', RequestOK(r)',
           pc[r] = "insert",
           call[r].op = "add" => \A t \in Requests \ {r} : call[r].folio \notin wrote[t],
           call[r].op = "register" => \A t \in Requests \ {r} :
               Registering(t) => call[t].name # call[r].name
    PROVE  Inv'
<1>1. ASSUME NEW t \in Requests \ {r} PROVE Compatible(r, t)' /\ Compatible(t, r)'
  <2>1. Compatible(r, t) /\ Compatible(t, r) /\ RequestOK(r)
    BY DEF Inv
  <2>2. wrote[r] = {}
    BY <2>1 DEF RequestOK, LocksOK, Moved
  <2> QED BY <2>1, <2>2 DEF Compatible, Adding, Registering, Inserted, At, Moved
<1> QED BY <1>1, MoveKeeps

\* A request that locks rows nobody else has locked, and inserts nothing.
LEMMA LocksMore ==
    ASSUME Inv, NEW r \in Requests, Moved(r), TypeOK', RequestOK(r)',
           call[r].op \notin {"register", "create", "add"},
           \A t \in Requests \ {r} : (wrote'[r] \ wrote[r]) \cap wrote[t] = {},
           \A t \in Requests \ {r} : Adding(t) => call[t].folio \notin wrote'[r]
    PROVE  Inv'
<1>1. ASSUME NEW t \in Requests \ {r} PROVE Compatible(r, t)' /\ Compatible(t, r)'
  <2>1. Compatible(r, t) /\ Compatible(t, r)
    BY DEF Inv
  <2> QED BY <2>1 DEF Compatible, Adding, Registering, Inserted, At, Moved
<1> QED BY <1>1, MoveKeeps

-----------------------------------------------------------------------------
(* One lemma per statement *)

LEMMA RefuseKeeps == ASSUME Inv, NEW r \in Requests, Active(r), Refuse(r) PROVE Inv'
  BY EndKeeps DEF Refuse, Inv, TypeOK

LEMMA RaiseKeeps == ASSUME Inv, NEW r \in Requests, Active(r), Raise(r) PROVE Inv'
  BY EndKeeps DEF Raise, Inv, TypeOK

\* What RequestOK says of an active request, and what a move that writes
\* nothing keeps of it.
LEMMA ActiveOK ==
    ASSUME Inv, NEW r \in Requests, Active(r)
    PROVE  /\ StageOK(r) /\ LocksOK(r) /\ InsertOK(r) /\ LoadedOK(r)
           /\ call[r] \in Call /\ prior[r] \subseteq {t \in Requests : pc[t] = "done"}
           /\ call[r].op \in {"add", "update"} => call[r].pair \in Pairs
  BY DEF Inv, RequestOK, Active

LEMMA PartsSuffice ==
    ASSUME Inv, NEW r \in Requests, Moved(r), pc'[r] # "done",
           StageOK(r)', LocksOK(r)', InsertOK(r)', LoadedOK(r)'
    PROVE  RequestOK(r)'
<1>1. call'[r] \in Call /\ prior'[r] \subseteq {t \in Requests : pc[t] = "done"}
      /\ (call'[r].op \in {"add", "update"} => call'[r].pair \in Pairs)
  BY ActiveOK DEF Moved
<1>2. \A t \in Requests : pc[t] = "done" => pc'[t] = "done"
  BY DEF Moved, Active
<1>3. Active(r)'
  BY DEF Active, Moved
<1> QED BY <1>1, <1>2, <1>3 DEF RequestOK

\* A check that finds nothing wrong: on to the statement that inserts.
LEMMA CheckedKeeps ==
    ASSUME Inv, NEW r \in Requests, Active(r), pc[r] \in {"check", "find"},
           Goto(r, "insert"), UNCHANGED <<call, answer, session, tables, faults, history>>,
           call[r].op \in {"register", "create", "add"},
           call[r].op = "add" => SameSymbol(r) = {},
           call[r].op = "create" => \A f \in folios : ~SameName(f, r)
    PROVE  Inv'
<1>1. Moved(r)
  BY DEF Moved, Goto, session, tables, history, Inv, TypeOK
<1>2. TypeOK'
  BY DEF Inv, TypeOK, Goto, session, tables, history
<1>3. pc'[r] = "insert" /\ wrote'[r] = wrote[r] /\ base'[r] = base[r]
  BY DEF Goto, session, Inv, TypeOK
<1>4. wrote[r] = {}
  BY ActiveOK DEF LocksOK
<1>5. StageOK(r)' /\ LocksOK(r)' /\ LoadedOK(r)'
  <2>1. LoadedOK(r) /\ LocksOK(r)
    BY ActiveOK
  <2>2. LoadedOK(r)'
    BY <1>1, <1>3, <2>1 DEF LoadedOK, Undisturbed, Moved
  <2> QED BY <1>1, <1>3, <1>4, <2>1, <2>2 DEF StageOK, LocksOK, Moved
<1>6. InsertOK(r)'
  BY <1>1, <1>3 DEF InsertOK, Adding, Registering, Inserted, At, SameSymbol, Contents, SameKey,
                    SameName, Moved
<1>7. RequestOK(r)'
  BY <1>1, <1>3, <1>5, <1>6, PartsSuffice
<1> QED BY <1>1, <1>2, <1>3, <1>7, GoesOn

LEMMA CheckEmailKeeps == ASSUME Inv, NEW r \in Requests, CheckEmail(r) PROVE Inv'
<1>1. Active(r)
  BY DEF CheckEmail, At, Active
<1>2. CASE Refuse(r)
  BY <1>1, <1>2, RefuseKeeps
<1>3. CASE ~Refuse(r)
  BY <1>1, <1>3, CheckedKeeps DEF CheckEmail, At
<1> QED BY <1>2, <1>3

LEMMA CheckNameKeeps == ASSUME Inv, NEW r \in Requests, CheckName(r) PROVE Inv'
<1>1. Active(r)
  BY DEF CheckName, At, Active
<1>2. CASE Refuse(r)
  BY <1>1, <1>2, RefuseKeeps
<1>3. CASE ~Refuse(r)
  BY <1>1, <1>3, CheckedKeeps DEF CheckName, At, SameName
<1> QED BY <1>2, <1>3

LEMMA FindSymbolKeeps == ASSUME Inv, NEW r \in Requests, FindSymbol(r) PROVE Inv'
<1>1. Active(r)
  BY DEF FindSymbol, At, Active
<1>2. CASE Refuse(r) \/ Raise(r)
  BY <1>1, <1>2, RefuseKeeps, RaiseKeeps
<1>3. CASE ~(Refuse(r) \/ Raise(r))
  BY <1>1, <1>3, CheckedKeeps DEF FindSymbol, At
<1> QED BY <1>2, <1>3

LEMMA FindPortfolioKeeps == ASSUME Inv, NEW r \in Requests, FindPortfolio(r) PROVE Inv'
<1>1. Active(r)
  BY DEF FindPortfolio, At, Active
<1>2. CASE Refuse(r)
  BY <1>1, <1>2, RefuseKeeps
<1>3. CASE ~Refuse(r)
  <2> DEFINE x == call[r].position
             b == IF call[r].op = "update" /\ x \in Contents(call[r].folio)
                  THEN held[x] ELSE None
  <2>1. /\ Goto(r, "find") /\ base' = [base EXCEPT ![r] = b]
        /\ UNCHANGED <<call, answer, marked, wrote, tables, faults, history>>
        /\ pc[r] = "check" /\ call[r].op \in {"add", "update", "remove"}
    BY <1>3 DEF FindPortfolio, At
  <2>2. b # None => call[r].op = "update" /\ x \in positions /\ x \in Requests
                    /\ b = held[x] /\ b \in Pairs /\ pc[x] = "done"
    BY DEF Contents, Inv, RowsOK, TypeOK
  <2>3. Moved(r)
    BY <1>1, <2>1 DEF Moved, Goto, tables, history, Inv, TypeOK
  <2>4. b \in Pairs \cup {None}
    BY <2>2
  <2>5. TypeOK'
    BY <2>1, <2>4 DEF Inv, TypeOK, Goto, tables, history
  <2>6. pc'[r] = "find" /\ wrote'[r] = wrote[r] /\ base'[r] = b
    BY <2>1 DEF Goto, Inv, TypeOK
  <2>7. wrote[r] = {}
    BY <1>1, <2>1, ActiveOK DEF LocksOK
  <2>8. LoadedOK(r)'
    <3>1. \A y \in Requests : pc[y] = "done" => pc'[y] = "done"
      BY <2>3 DEF Moved, Active
    <3> QED BY <2>2, <2>3, <2>6, <3>1 DEF LoadedOK, Moved
  <2>9. StageOK(r)' /\ LocksOK(r)' /\ InsertOK(r)'
    BY <2>1, <2>3, <2>6, <2>7 DEF StageOK, LocksOK, InsertOK, Adding, Registering, Inserted, At, Moved
  <2>10. RequestOK(r)'
    BY <2>3, <2>6, <2>8, <2>9, PartsSuffice
  <2> QED BY <2>3, <2>5, <2>6, <2>10, GoesOn
<1> QED BY <1>2, <1>3

\* The handler returned, with a statement still to come that inserts nothing.
LEMMA ReturnTypes ==
    ASSUME Inv, NEW r \in Requests, NEW s \in {"delete", "commit"}, Return(r, s)
    PROVE  /\ pc' = [pc EXCEPT ![r] = s]
           /\ answer' \in [Requests -> {"none", "ok", "refused", "error"}]
  BY DEF Return, Goto, Inv, TypeOK

LEMMA MarkPortfolioKeeps == ASSUME Inv, NEW r \in Requests, MarkPortfolio(r) PROVE Inv'
<1>1. Active(r)
  BY DEF MarkPortfolio, At, Active
<1>2. CASE Refuse(r)
  BY <1>1, <1>2, RefuseKeeps
<1>3. CASE ~Refuse(r)
  <2>1. /\ Return(r, "delete") /\ marked' = [marked EXCEPT ![r] = Contents(call[r].folio)]
        /\ UNCHANGED <<call, base, wrote, tables, faults, history>>
        /\ pc[r] = "check" /\ call[r].op = "delete_portfolio"
    BY <1>3 DEF MarkPortfolio, At
  <2>2. /\ pc' = [pc EXCEPT ![r] = "delete"]
        /\ answer' \in [Requests -> {"none", "ok", "refused", "error"}]
    BY <2>1, ReturnTypes
  <2>3. Moved(r)
    BY <1>1, <2>1, <2>2 DEF Moved, tables, history, Inv, TypeOK
  <2>4. Contents(call[r].folio) \subseteq Requests
    BY DEF Contents, Inv, TypeOK
  <2>5. TypeOK'
    BY <2>1, <2>2, <2>4 DEF Inv, TypeOK, tables, history
  <2>6. pc'[r] = "delete" /\ wrote'[r] = wrote[r] /\ base'[r] = base[r]
    BY <2>1, <2>2 DEF Inv, TypeOK
  <2>7. wrote[r] = {} /\ base[r] = None
    BY <1>1, <2>1, ActiveOK DEF LocksOK, LoadedOK
  <2>8. StageOK(r)' /\ LocksOK(r)' /\ InsertOK(r)' /\ LoadedOK(r)'
    BY <2>1, <2>3, <2>6, <2>7 DEF StageOK, LocksOK, InsertOK, LoadedOK, Adding, Registering,
                                  Inserted, At, Moved
  <2>9. RequestOK(r)'
    BY <2>3, <2>6, <2>8, PartsSuffice
  <2> QED BY <2>3, <2>5, <2>6, <2>9, GoesOn
<1> QED BY <1>2, <1>3

LEMMA FindPositionKeeps == ASSUME Inv, NEW r \in Requests, FindPosition(r) PROVE Inv'
<1> DEFINE x == call[r].position
<1>1. Active(r) /\ pc[r] = "find"
  BY DEF FindPosition, At, Active
<1>2. CASE Refuse(r)
  BY <1>1, <1>2, RefuseKeeps
<1>3. x \in Contents(call[r].folio) => x \in positions /\ x \in Requests
                                       /\ held[x] \in Pairs /\ pc[x] = "done"
  BY DEF Contents, Inv, RowsOK, TypeOK
<1>4. CASE /\ x \in Contents(call[r].folio) /\ call[r].op = "update" /\ Goto(r, "update")
           /\ \E b \in {held[x], base[r]} \ {None} : base' = [base EXCEPT ![r] = b]
           /\ UNCHANGED <<answer, marked, call, wrote, tables, faults, history>>
  <2>1. PICK b \in {held[x], base[r]} \ {None} : base' = [base EXCEPT ![r] = b]
    BY <1>4
  <2>2. Moved(r)
    BY <1>1, <1>4, <2>1 DEF Moved, Goto, tables, history, Inv, TypeOK
  <2>3. LoadedOK(r) /\ b \in Pairs
    BY <1>1, <1>3, <1>4, ActiveOK DEF LoadedOK
  <2>4. TypeOK'
    BY <1>4, <2>1, <2>3 DEF Inv, TypeOK, Goto, tables, history
  <2>5. pc'[r] = "update" /\ wrote'[r] = wrote[r] /\ base'[r] = b
    BY <1>4, <2>1 DEF Goto, Inv, TypeOK
  <2>6. wrote[r] = {}
    BY <1>1, ActiveOK DEF LocksOK
  <2>7. LoadedOK(r)'
    <3>1. \A y \in Requests : pc[y] = "done" => pc'[y] = "done"
      BY <2>2 DEF Moved, Active
    <3> QED BY <1>3, <1>4, <2>1, <2>2, <2>3, <2>5, <3>1 DEF LoadedOK, Undisturbed, Moved
  <2>8. StageOK(r)' /\ LocksOK(r)' /\ InsertOK(r)'
    BY <1>4, <2>1, <2>2, <2>5, <2>6 DEF StageOK, LocksOK, InsertOK, Adding, Registering,
                                        Inserted, At, Moved
  <2>9. RequestOK(r)'
    BY <2>2, <2>5, <2>7, <2>8, PartsSuffice
  <2> QED BY <2>2, <2>4, <2>5, <2>9, GoesOn
<1>5. CASE /\ x \in Contents(call[r].folio) /\ call[r].op = "remove" /\ Return(r, "delete")
           /\ marked' = [marked EXCEPT ![r] = {x}]
           /\ UNCHANGED <<base, call, wrote, tables, faults, history>>
  <2>1. /\ pc' = [pc EXCEPT ![r] = "delete"]
        /\ answer' \in [Requests -> {"none", "ok", "refused", "error"}]
    BY <1>5, ReturnTypes
  <2>2. Moved(r)
    BY <1>1, <1>5, <2>1 DEF Moved, tables, history, Inv, TypeOK
  <2>3. TypeOK'
    BY <1>3, <1>5, <2>1 DEF Inv, TypeOK, tables, history
  <2>4. pc'[r] = "delete" /\ wrote'[r] = wrote[r] /\ base'[r] = base[r]
    BY <1>5, <2>1 DEF Inv, TypeOK
  <2>5. wrote[r] = {} /\ base[r] = None
    BY <1>1, <1>5, ActiveOK DEF LocksOK, LoadedOK
  <2>6. StageOK(r)' /\ LocksOK(r)' /\ InsertOK(r)' /\ LoadedOK(r)'
    BY <1>5, <2>2, <2>4, <2>5 DEF StageOK, LocksOK, InsertOK, LoadedOK, Adding, Registering,
                                  Inserted, At, Moved
  <2>7. RequestOK(r)'
    BY <2>2, <2>4, <2>6, PartsSuffice
  <2> QED BY <2>2, <2>3, <2>4, <2>7, GoesOn
<1> QED BY <1>2, <1>4, <1>5 DEF FindPosition, At

\* An insert that found its constraints satisfied.
LEMMA InsertedKeeps ==
    ASSUME Inv, NEW r \in Requests, pc[r] = "insert", Return(r, "commit"),
           UNCHANGED <<call, session, tables, faults, history>>,
           call[r].op = "add" => Free(r) /\ call[r].folio \in folios,
           call[r].op = "register" =>
               Free(r) /\ \A u \in users : call[u].name # call[r].name
    PROVE  Inv'
<1>1. Active(r)
  BY DEF Active
<1>2. /\ pc' = [pc EXCEPT ![r] = "commit"]
      /\ answer' \in [Requests -> {"none", "ok", "refused", "error"}]
  BY ReturnTypes
<1>3. Moved(r)
  BY <1>1, <1>2 DEF Moved, session, tables, history, Inv, TypeOK
<1>4. TypeOK'
  BY <1>2 DEF Inv, TypeOK, session, tables, history
<1>5. pc'[r] = "commit" /\ wrote'[r] = wrote[r] /\ base'[r] = base[r]
  BY <1>2 DEF session, Inv, TypeOK
<1>6. StageOK(r) /\ LocksOK(r) /\ InsertOK(r) /\ LoadedOK(r) /\ wrote[r] = {}
  BY <1>1, ActiveOK DEF LocksOK
<1>7. StageOK(r)' /\ LocksOK(r)' /\ LoadedOK(r)'
  <2>1. LoadedOK(r)'
    BY <1>3, <1>5, <1>6 DEF LoadedOK, Undisturbed, Moved, Active
  <2> QED BY <1>3, <1>5, <1>6, <2>1 DEF StageOK, LocksOK, Moved
<1>8. InsertOK(r)'
  BY <1>3, <1>5, <1>6 DEF InsertOK, Adding, Registering, Inserted, At, SameKey, SameName, Moved
<1>9. RequestOK(r)'
  BY <1>3, <1>5, <1>7, <1>8, PartsSuffice
<1>10. call[r].op = "add" => \A t \in Requests \ {r} : call[r].folio \notin wrote[t]
  BY DEF Free, Blocks, At
<1>11. call[r].op = "register" => \A t \in Requests \ {r} :
           Registering(t) => call[t].name # call[r].name
  BY DEF Free, Blocks, At, Registering
<1> QED BY <1>3, <1>4, <1>5, <1>9, <1>10, <1>11, InsertGoesOn

LEMMA InsertUserKeeps == ASSUME Inv, NEW r \in Requests, InsertUser(r) PROVE Inv'
<1>1. Active(r)
  BY DEF InsertUser, At, Active
<1>2. CASE Raise(r)
  BY <1>1, <1>2, RaiseKeeps
<1>3. CASE ~Raise(r)
  BY <1>3, InsertedKeeps DEF InsertUser, At
<1> QED BY <1>2, <1>3

LEMMA InsertPortfolioKeeps == ASSUME Inv, NEW r \in Requests, InsertPortfolio(r) PROVE Inv'
<1>1. Active(r)
  BY DEF InsertPortfolio, At, Active
<1>2. CASE Raise(r)
  BY <1>1, <1>2, RaiseKeeps
<1>3. CASE ~Raise(r)
  BY <1>3, InsertedKeeps DEF InsertPortfolio, At
<1> QED BY <1>2, <1>3

LEMMA InsertPositionKeeps == ASSUME Inv, NEW r \in Requests, InsertPosition(r) PROVE Inv'
<1>1. Active(r)
  BY DEF InsertPosition, At, Active
<1>2. CASE Raise(r)
  BY <1>1, <1>2, RaiseKeeps
<1>3. CASE ~Raise(r)
  BY <1>3, InsertedKeeps DEF InsertPosition, At
<1> QED BY <1>2, <1>3

\* Statements of updates and deletions: r locks the rows of W, which nobody
\* else has locked and no insert under way refers to.
LEMMA LockKeeps ==
    ASSUME Inv, NEW r \in Requests, Active(r), NEW W \in SUBSET Requests,
           NEW s \in {"drop", "cascade", "commit"}, pc' = [pc EXCEPT ![r] = s],
           wrote' = [wrote EXCEPT ![r] = W],
           answer' \in [Requests -> {"none", "ok", "refused", "error"}],
           UNCHANGED <<call, marked, base, tables, faults, history>>,
           call[r].op \in {"delete_portfolio", "update", "remove"},
           \A t \in Requests \ {r} : (W \ wrote[r]) \cap wrote[t] = {},
           \A t \in Requests \ {r} : Adding(t) => call[t].folio \notin W,
           s = "commit" /\ call[r].op = "update" =>
               base[r] # None /\ (W = {} => base[r] = call[r].pair),
           s \in {"drop", "cascade"} => call[r].op = "delete_portfolio",
           W \subseteq positions \cup folios,
           call[r].op = "update" => W \subseteq {call[r].position} /\ W \subseteq positions,
           \A f \in folios \cap W :
               /\ call[r].op = "delete_portfolio" /\ f = call[r].folio
               /\ s \in {"cascade", "commit"}
               /\ s = "commit" => Contents(f) \subseteq W
    PROVE  Inv'
<1>1. Moved(r)
  BY DEF Moved, tables, history, Inv, TypeOK
<1>2. TypeOK'
  BY DEF Inv, TypeOK, tables, history
<1>3. pc'[r] = s /\ wrote'[r] = W /\ base'[r] = base[r]
  BY DEF Inv, TypeOK
<1>4. LocksOK(r)'
  BY <1>1, <1>3 DEF LocksOK, Contents, Moved
<1>5. LoadedOK(r)'
  <2>1. LoadedOK(r)
    BY ActiveOK
  <2> QED BY <1>1, <1>3, <2>1 DEF LoadedOK, Undisturbed, Moved, Active
<1>6. StageOK(r)' /\ InsertOK(r)'
  BY <1>1, <1>3 DEF StageOK, InsertOK, Adding, Registering, Inserted, At, Moved
<1>7. RequestOK(r)'
  BY <1>1, <1>3, <1>4, <1>5, <1>6, PartsSuffice
<1> QED BY <1>1, <1>2, <1>3, <1>7, LocksMore

\* Ids tell positions from portfolios.
LEMMA KindsDisjoint == ASSUME Inv PROVE positions \cap folios = {}
  BY DEF Inv, RowsOK

LEMMA NoFolioLocked ==
    ASSUME Inv, NEW t \in Requests, Adding(t) PROVE call[t].folio \in folios
  BY ActiveOK DEF InsertOK, Adding, Inserted, At, Active

LEMMA UpdatePositionKeeps == ASSUME Inv, NEW r \in Requests, UpdatePosition(r) PROVE Inv'
<1>1. Active(r) /\ pc[r] = "update"
  BY DEF UpdatePosition, Active
<1>2. CASE Raise(r)
  BY <1>1, <1>2, RaiseKeeps
<1>3. CASE ~Raise(r)
  <2> DEFINE W == IF Dirty(r) = {} THEN {} ELSE {call[r].position}
  <2>1. call[r].op = "update" /\ base[r] # None /\ wrote[r] = {}
    BY <1>1, ActiveOK DEF StageOK, LocksOK
  <2>2. Return(r, "commit") /\ UNCHANGED <<call, marked, base, tables, faults, history>>
    BY <1>3 DEF UpdatePosition, session
  <2>3. wrote' = [wrote EXCEPT ![r] = W]
    BY <1>3, <2>1 DEF UpdatePosition, session, Inv, TypeOK
  <2>4. W \subseteq positions /\ \A t \in Requests \ {r} : W \cap wrote[t] = {}
    BY <1>1, <1>3, <2>1 DEF UpdatePosition, Free, Blocks
  <2>5. /\ pc' = [pc EXCEPT ![r] = "commit"]
        /\ answer' \in [Requests -> {"none", "ok", "refused", "error"}]
    BY <2>2, ReturnTypes
  <2>6. W \in SUBSET Requests
    BY <2>4 DEF Inv, TypeOK
  <2>7. W \cap folios = {} /\ \A t \in Requests : Adding(t) => call[t].folio \notin W
    BY <2>4, KindsDisjoint, NoFolioLocked
  <2>8. W = {} => base[r] = call[r].pair
    <3>1. base[r] \in Pairs /\ call[r].pair \in Pairs
      BY <1>1, <2>1, ActiveOK DEF LoadedOK
    <3> QED BY <3>1 DEF Dirty, Pairs
  <2> HIDE DEF W
  <2>9. W \subseteq {call[r].position}
    BY DEF W
  <2>10. /\ \A t \in Requests \ {r} : (W \ wrote[r]) \cap wrote[t] = {}
        /\ \A g \in folios \cap W :
               /\ call[r].op = "delete_portfolio" /\ g = call[r].folio
               /\ "commit" \in {"cascade", "commit"}
               /\ "commit" = "commit" => Contents(g) \subseteq W
    BY <2>4, <2>7
  <2>11. W \subseteq positions \cup folios
    BY <2>4
  <2>12. UNCHANGED <<call, marked, base, tables, faults, history>>
    BY <2>2
  <2> QED BY <1>1, <2>1, <2>3, <2>4, <2>5, <2>6, <2>7, <2>8, <2>9, <2>10,
             <2>11, <2>12, LockKeeps
<1> QED BY <1>2, <1>3

LEMMA DeletePositionsKeeps == ASSUME Inv, NEW r \in Requests, DeletePositions(r) PROVE Inv'
<1> DEFINE W == marked[r] \cap positions
           s == IF call[r].op = "remove" THEN "commit" ELSE "drop"
<1>1. Active(r) /\ pc[r] = "delete"
  BY DEF DeletePositions, Active
<1>2. call[r].op \in {"delete_portfolio", "remove"} /\ wrote[r] = {}
  BY <1>1, ActiveOK DEF StageOK, LocksOK
<1>3. /\ wrote' = [wrote EXCEPT ![r] = W] /\ pc' = [pc EXCEPT ![r] = s]
      /\ UNCHANGED <<call, answer, marked, base, tables, faults, history>>
  BY DEF DeletePositions, Goto
<1>4. \A t \in Requests \ {r} : W \cap wrote[t] = {}
  BY <1>1 DEF DeletePositions, Free, Blocks
<1>5. W \in SUBSET Requests /\ answer' \in [Requests -> {"none", "ok", "refused", "error"}]
  BY <1>3 DEF Inv, TypeOK
<1>6. W \cap folios = {} /\ W \subseteq positions
      /\ \A t \in Requests : Adding(t) => call[t].folio \notin W
  BY KindsDisjoint, NoFolioLocked
<1>7. s \in {"drop", "commit"} /\ (s = "drop" => call[r].op = "delete_portfolio")
  BY <1>2
<1> HIDE DEF W, s
<1>8. /\ \A t \in Requests \ {r} : (W \ wrote[r]) \cap wrote[t] = {}
      /\ \A g \in folios \cap W :
             /\ call[r].op = "delete_portfolio" /\ g = call[r].folio
             /\ s \in {"cascade", "commit"}
             /\ s = "commit" => Contents(g) \subseteq W
  BY <1>4, <1>6
<1>9. W \subseteq positions \cup folios
  BY <1>6
<1> QED BY <1>1, <1>2, <1>3, <1>5, <1>6, <1>7, <1>8, <1>9, LockKeeps

LEMMA DeletePortfolioKeeps == ASSUME Inv, NEW r \in Requests, DeletePortfolio(r) PROVE Inv'
<1> DEFINE f == call[r].folio
           W == IF f \in folios THEN wrote[r] \cup {f} ELSE wrote[r]
           s == IF f \in folios THEN "cascade" ELSE "commit"
<1>1. Active(r) /\ pc[r] = "drop"
  BY DEF DeletePortfolio, Active
<1>2. call[r].op = "delete_portfolio" /\ wrote[r] \subseteq positions \cup folios
      /\ wrote[r] \cap folios = {}
  BY <1>1, ActiveOK DEF StageOK, LocksOK
<1>3. /\ wrote' = [wrote EXCEPT ![r] = W] /\ pc' = [pc EXCEPT ![r] = s]
      /\ UNCHANGED <<call, answer, marked, base, tables, faults, history>>
  BY DEF DeletePortfolio, Goto, Inv, TypeOK
<1>4. \A t \in Requests \ {r} : f \notin wrote[t] /\ (Adding(t) => call[t].folio # f)
  BY <1>1 DEF DeletePortfolio, Free, Blocks, Adding
<1>5. W \in SUBSET Requests /\ W \subseteq positions \cup folios
      /\ answer' \in [Requests -> {"none", "ok", "refused", "error"}]
  BY <1>2, <1>3 DEF Inv, TypeOK
<1>6. \A t \in Requests \ {r} : (W \ wrote[r]) \cap wrote[t] = {}
  BY <1>4
<1>7. \A t \in Requests \ {r} : Adding(t) => call[t].folio \notin W
  BY <1>2, <1>4, KindsDisjoint, NoFolioLocked
<1>8. \A g \in folios \cap W : g = f /\ s = "cascade"
  BY <1>2
<1>9. s \in {"cascade", "commit"}
  OBVIOUS
<1> HIDE DEF W, s
<1> QED BY <1>1, <1>2, <1>3, <1>5, <1>6, <1>7, <1>8, <1>9, LockKeeps

LEMMA CascadePositionsKeeps == ASSUME Inv, NEW r \in Requests, CascadePositions(r) PROVE Inv'
<1> DEFINE f == call[r].folio
           W == wrote[r] \cup Contents(f)
<1>1. Active(r) /\ pc[r] = "cascade"
  BY DEF CascadePositions, Active
<1>2. call[r].op = "delete_portfolio" /\ wrote[r] \subseteq positions \cup folios
      /\ \A g \in wrote[r] \cap folios : g = f
  BY <1>1, ActiveOK DEF StageOK, LocksOK
<1>3. /\ wrote' = [wrote EXCEPT ![r] = W] /\ pc' = [pc EXCEPT ![r] = "commit"]
      /\ UNCHANGED <<call, answer, marked, base, tables, faults, history>>
  BY DEF CascadePositions, Goto, Inv, TypeOK
<1>4. \A t \in Requests \ {r} : Contents(f) \cap wrote[t] = {}
  BY <1>1 DEF CascadePositions, Free, Blocks
<1>5. Contents(f) \subseteq positions
  BY DEF Contents
<1>6. W \in SUBSET Requests /\ W \subseteq positions \cup folios
      /\ answer' \in [Requests -> {"none", "ok", "refused", "error"}]
  BY <1>2, <1>3, <1>5 DEF Inv, TypeOK
<1>7. \A t \in Requests \ {r} : Adding(t) => call[t].folio \notin W
  <2>1. \A t \in Requests \ {r} : Adding(t) => call[t].folio \notin wrote[r]
    BY DEF Inv, Compatible
  <2> QED BY <1>5, <2>1, KindsDisjoint, NoFolioLocked
<1>8. \A g \in folios \cap W : g = f /\ Contents(g) \subseteq W
  BY <1>2, <1>5, KindsDisjoint
<1> HIDE DEF W
<1>9. \A t \in Requests \ {r} : (W \ wrote[r]) \cap wrote[t] = {}
  BY <1>4 DEF W
<1>10. \A g \in folios \cap W :
           /\ call[r].op = "delete_portfolio" /\ g = call[r].folio
           /\ "commit" \in {"cascade", "commit"}
           /\ "commit" = "commit" => Contents(g) \subseteq W
  BY <1>2, <1>8
<1>11. call[r].op \in {"delete_portfolio", "update", "remove"} /\ call[r].op # "update"
  BY <1>2
<1>12. UNCHANGED <<call, marked, base, tables, faults, history>>
  BY <1>3
<1> QED BY <1>1, <1>3, <1>6, <1>7, <1>9, <1>10, <1>11, <1>12, LockKeeps

-----------------------------------------------------------------------------
(* The commit *)

\* What a commit does to the tables, by kind of request.
LEMMA CommitEffect ==
    ASSUME Inv, NEW r \in Requests, pc[r] = "commit", Apply(r)
    PROVE  /\ call[r].op \in Ops
           /\ wrote[r] \subseteq positions \cup folios
           /\ call[r].op \in {"register", "create", "add"} => wrote[r] = {}
           /\ call[r].op = "update" => /\ wrote[r] \in {{}, {call[r].position}}
                                       /\ wrote[r] \subseteq positions
                                       /\ base[r] \in Pairs
           /\ call[r].op # "update" =>
                  folios \ wrote[r] \subseteq folios' /\ positions \ wrote[r] \subseteq positions'
           /\ call[r].op = "update" => folios' = folios /\ positions' = positions
           /\ folios' \cap wrote[r] = {} /\ (call[r].op # "update" => positions' \cap wrote[r] = {})
           /\ \A f \in folios' : f \in folios \/ (f = r /\ call[r].op = "create")
           /\ \A x \in positions' : x \in positions \/ (x = r /\ call[r].op = "add")
           /\ users' = IF call[r].op = "register" THEN users \cup {r} ELSE users
           /\ r \notin positions /\ r \notin folios /\ r \notin users /\ r \notin committed
<1>1. Active(r)
  BY DEF Active
<1>2. StageOK(r) /\ LocksOK(r) /\ LoadedOK(r) /\ call[r] \in Call
  BY <1>1, ActiveOK
<1>3. call[r].op \in Ops
  BY <1>2 DEF Call
<1>4. r \notin positions /\ r \notin folios /\ r \notin users /\ r \notin committed
  BY DEF Inv, RowsOK
<1>5. /\ wrote[r] \subseteq positions \cup folios
      /\ call[r].op \in {"register", "create", "add"} => wrote[r] = {}
      /\ call[r].op = "update" => wrote[r] \subseteq {call[r].position} /\ wrote[r] \subseteq positions
      /\ call[r].op = "update" => base[r] \in Pairs
  BY <1>2 DEF LocksOK, StageOK, LoadedOK
<1>6. folios' \cap wrote[r] = {}
  BY <1>4, <1>5, KindsDisjoint DEF Apply, Deleted, New
<1>7. /\ users' = users \cup New(r, "register")
      /\ folios' = (folios \cup New(r, "create")) \ Deleted(r)
      /\ positions' = (positions \cup New(r, "add")) \ Deleted(r)
  BY DEF Apply
<1>8. call[r].op = "update" => folios' = folios /\ positions' = positions
  BY <1>7 DEF Deleted, New
<1>9. call[r].op # "update" =>
          /\ folios \ wrote[r] \subseteq folios' /\ positions \ wrote[r] \subseteq positions'
          /\ positions' \cap wrote[r] = {}
  BY <1>4, <1>5, <1>7 DEF Deleted, New
<1>10. /\ \A f \in folios' : f \in folios \/ (f = r /\ call[r].op = "create")
       /\ \A x \in positions' : x \in positions \/ (x = r /\ call[r].op = "add")
       /\ users' = IF call[r].op = "register" THEN users \cup {r} ELSE users
  BY <1>7 DEF New
<1> QED BY <1>3, <1>4, <1>5, <1>6, <1>8, <1>9, <1>10

\* Column values change only for the row that is inserted or updated.
LEMMA HeldEffect ==
    ASSUME Inv, NEW r \in Requests, pc[r] = "commit", Apply(r)
    PROVE  /\ held' \in [Requests -> Pairs \cup {None}]
           /\ \A x \in positions' : held'[x] \in Pairs
           /\ \A x \in positions : held'[x] # held[x] =>
                  call[r].op = "update" /\ x = call[r].position
           /\ call[r].op = "update" /\ wrote[r] # {} => held'[call[r].position] = Updated(r)
<1>1. \A x \in positions : x \in Requests /\ held[x] \in Pairs
  BY DEF Inv, TypeOK, RowsOK
<1>2. held \in [Requests -> Pairs \cup {None}]
  BY DEF Inv, TypeOK
<1>3. CASE call[r].op = "add"
  <2>1. held' = [held EXCEPT ![r] = call[r].pair] /\ call[r].pair \in Pairs
    BY <1>3, ActiveOK DEF Apply, Active
  <2> QED BY <1>1, <1>2, <1>3, <2>1, CommitEffect
<1>4. CASE call[r].op = "update" /\ wrote[r] # {}
  <2>1. wrote[r] = {call[r].position} /\ call[r].position \in positions
    BY <1>4, CommitEffect
  <2>2. held' = [held EXCEPT ![call[r].position] = Updated(r)]
    BY <1>4 DEF Apply
  <2>3. call[r].pair \in Pairs
    BY <1>4, ActiveOK DEF Active
  <2>4. Updated(r) \in Pairs
    BY <1>1, <2>1, <2>3 DEF Updated, Pairs
  <2> QED BY <1>1, <1>2, <1>4, <2>1, <2>2, <2>4, CommitEffect
<1>5. CASE call[r].op # "add" /\ ~(call[r].op = "update" /\ wrote[r] # {})
  BY <1>1, <1>2, <1>5, CommitEffect DEF Apply
<1> QED BY <1>3, <1>4, <1>5

\* The commit of r, with whatever answer.
Committed(r) ==
    /\ pc[r] = "commit" /\ Apply(r)
    /\ \E a \in {"ok", "refused", "error"} : End(r, a)
    /\ UNCHANGED <<call, prior>> /\ faults' \in 0..MaxFaults

LEMMA CommittedSession ==
    ASSUME Inv, NEW r \in Requests, Committed(r)
    PROVE  /\ pc'[r] = "done" /\ wrote'[r] = {} /\ base'[r] = None
           /\ call' = call /\ prior' = prior /\ committed' = committed \cup {r}
           /\ \A t \in Requests \ {r} :
                  pc'[t] = pc[t] /\ wrote'[t] = wrote[t] /\ base'[t] = base[t]
           /\ \A t \in Requests : pc[t] = "done" => pc'[t] = "done"
  BY DEF Committed, End, Goto, Apply, Inv, TypeOK

LEMMA CommittedTypes ==
    ASSUME Inv, NEW r \in Requests, Committed(r) PROVE TypeOK' /\ RowsOK'
<1>1. Apply(r) /\ pc[r] = "commit"
  BY DEF Committed
<1>2. TypeOK'
  <2>1. users' \subseteq Requests /\ folios' \subseteq Requests /\ positions' \subseteq Requests
    BY <1>1, CommitEffect DEF Inv, TypeOK
  <2>2. held' \in [Requests -> Pairs \cup {None}]
    BY <1>1, HeldEffect
  <2>3. committed' \subseteq Requests
    BY CommittedSession DEF Inv, TypeOK
  <2>4. PICK a \in {"ok", "refused", "error"} : End(r, a)
    BY DEF Committed
  <2>5. /\ pc' = [pc EXCEPT ![r] = "done"] /\ marked' = [marked EXCEPT ![r] = {}]
        /\ base' = [base EXCEPT ![r] = None] /\ wrote' = [wrote EXCEPT ![r] = {}]
        /\ UNCHANGED <<call, prior>> /\ faults' \in 0..MaxFaults
    BY <2>4 DEF Committed, End, Goto
  <2>6. answer' \in [Requests -> {"none", "ok", "refused", "error"}]
    BY <2>4 DEF End, Inv, TypeOK
  <2> QED BY <2>1, <2>2, <2>3, <2>5, <2>6 DEF Inv, TypeOK
<1>3. RowsOK'
  <2>1. \A x \in positions' : held'[x] \in Pairs
    BY <1>1, HeldEffect
  <2>2. RowsOK /\ TypeOK
    BY DEF Inv
  <2> QED BY <1>1, <2>1, <2>2, CommitEffect, CommittedSession DEF RowsOK, TypeOK
<1> QED BY <1>2, <1>3

LEMMA CommittedStore ==
    ASSUME Inv, NEW r \in Requests, Committed(r) PROVE Store'
<1>1. Apply(r) /\ pc[r] = "commit" /\ Active(r)
  BY DEF Committed, Active
<1>2. LocksOK(r) /\ InsertOK(r)
  BY <1>1, ActiveOK
<1>3. Store /\ TypeOK /\ RowsOK
  BY DEF Inv
<1>4. PositionsHaveFolio'
  <2> SUFFICES ASSUME NEW x \in positions' PROVE call[x].folio \in folios'
    BY CommittedSession DEF PositionsHaveFolio
  <2>1. CASE x = r /\ call[r].op = "add"
    <3>1. call[r].folio \in folios
      BY <1>1, <1>2, <2>1 DEF InsertOK, Adding, Inserted, At
    <3> QED BY <1>1, <2>1, <3>1, CommitEffect
  <2>2. CASE x \in positions
    <3>1. call[x].folio \in folios
      BY <1>3, <2>2 DEF Store, PositionsHaveFolio
    <3>2. CASE call[x].folio \in wrote[r] /\ call[r].op # "update"
      <4>1. x \in Contents(call[x].folio)
        BY <2>2 DEF Contents
      <4>2. x \in wrote[r]
        BY <1>1, <1>2, <3>1, <3>2, <4>1 DEF LocksOK
      <4> QED BY <1>1, <3>2, <4>2, CommitEffect
    <3>3. CASE call[x].folio \notin wrote[r] \/ call[r].op = "update"
      BY <1>1, <3>1, <3>3, CommitEffect
    <3> QED BY <3>2, <3>3
  <2> QED BY <1>1, <2>1, <2>2, CommitEffect
<1>5. \A x \in Requests : r \notin prior[x]
  <2>1. \A x \in Requests : prior[x] \subseteq {t \in Requests : pc[t] = "done"}
    BY DEF Inv, RequestOK
  <2> QED BY <1>1, <2>1
<1>6. OnlyRacesDuplicate'
  <2>1. \A x \in positions : call[r].op = "add" /\ SameKey(x, r) => x \notin prior[r]
    BY <1>1, <1>2 DEF InsertOK
  <2>2. \A x \in folios : call[r].op = "create" /\ SameName(x, r) => x \notin prior[r]
    BY <1>1, <1>2 DEF InsertOK
  <2>3. ASSUME NEW x \in positions', NEW y \in positions', x # y, SameKey(x, y)
        PROVE  Overlapped(x, y)
    <3>1. x \in Requests /\ y \in Requests
      BY <1>1, <1>3, CommitEffect DEF TypeOK
    <3> QED BY <1>1, <1>3, <1>5, <2>1, <2>3, <3>1, CommitEffect
            DEF Store, OnlyRacesDuplicate, Overlapped, SameKey
  <2>4. ASSUME NEW x \in folios', NEW y \in folios', x # y, SameName(x, y)
        PROVE  Overlapped(x, y)
    <3>1. x \in Requests /\ y \in Requests
      BY <1>1, <1>3, CommitEffect DEF TypeOK
    <3> QED BY <1>1, <1>3, <1>5, <2>2, <2>4, <3>1, CommitEffect
            DEF Store, OnlyRacesDuplicate, Overlapped, SameName
  <2> QED BY <2>3, <2>4, CommittedSession DEF OnlyRacesDuplicate, Overlapped, SameKey, SameName
<1>7. EmailsUnique'
  <2>1. call[r].op = "register" => \A u \in users : call[u].name # call[r].name
    BY <1>1, <1>2 DEF InsertOK, Registering, Inserted, At
  <2>2. \A x, y \in users : call[x].name = call[y].name => x = y
    BY <1>3 DEF Store, EmailsUnique
  <2>3. \A x \in users' : x \in users \/ (x = r /\ call[r].op = "register")
    BY <1>1, CommitEffect
  <2>4. \A x, y \in users' : call[x].name = call[y].name => x = y
    BY <2>1, <2>2, <2>3
  <2> QED BY <2>4, CommittedSession DEF EmailsUnique
<1> QED BY <1>4, <1>6, <1>7 DEF Store

LEMMA CommittedRequests ==
    ASSUME Inv, NEW r \in Requests, Committed(r), NEW t \in Requests PROVE RequestOK(t)'
<1>1. Apply(r) /\ pc[r] = "commit" /\ Active(r)
  BY DEF Committed, Active
<1>2. RequestOK(t) /\ RequestOK(r)
  BY DEF Inv
<1>3. CASE t = r
  BY <1>1, <1>2, <1>3, CommittedSession DEF RequestOK, Active
<1>4. CASE t # r
  <2>1. /\ pc'[t] = pc[t] /\ wrote'[t] = wrote[t] /\ base'[t] = base[t]
        /\ call' = call /\ prior' = prior /\ committed' = committed \cup {r}
        /\ \A y \in Requests : pc[y] = "done" => pc'[y] = "done"
    BY <1>4, CommittedSession
  <2>2. r \notin prior[t]
    BY <1>1, <1>2 DEF RequestOK
  <2>3. Compatible(r, t) /\ Compatible(t, r)
    BY <1>4 DEF Inv
  <2>4. ASSUME Active(t) PROVE StageOK(t)' /\ LocksOK(t)' /\ InsertOK(t)' /\ LoadedOK(t)'
    <3>1. StageOK(t) /\ LocksOK(t) /\ InsertOK(t) /\ LoadedOK(t)
      BY <2>4, ActiveOK
    <3>2. StageOK(t)'
      BY <2>1, <3>1 DEF StageOK
    <3>3. LocksOK(t)'
      <4>1. wrote[t] \cap wrote[r] = {}
        BY <2>3 DEF Compatible
      <4>2. wrote[t] \subseteq positions' \cup folios'
        BY <1>1, <3>1, <4>1, CommitEffect DEF LocksOK
      <4>3. call[t].op = "update" => wrote[t] \subseteq positions'
        BY <1>1, <3>1, <4>1, CommitEffect DEF LocksOK
      <4>4. \A f \in folios' \cap wrote[t] : f \in folios
        <5>1. r \notin wrote[t]
          BY <1>1, <3>1, CommitEffect DEF LocksOK
        <5> QED BY <1>1, <5>1, CommitEffect
      <4>5. \A f \in folios \cap wrote[t] : Contents(f)' \subseteq Contents(f)
        <5>1. Adding(r) => call[r].folio \notin wrote[t]
          BY <2>3 DEF Compatible
        <5>2. \A x \in positions' : call[x].folio \in wrote[t] => x \in positions
          BY <1>1, <5>1, CommitEffect DEF Adding, Inserted, At
        <5> QED BY <2>1, <5>2 DEF Contents
      <4> QED BY <2>1, <3>1, <4>2, <4>3, <4>4, <4>5 DEF LocksOK
    <3>4. InsertOK(t)'
      <4>1. Adding(t) => call[t].folio \in folios'
        BY <1>1, <2>3, <3>1, CommitEffect DEF InsertOK, Compatible
      <4>2. Registering(t) => \A u \in users' : call[u].name # call[t].name
        BY <1>1, <2>3, <3>1, CommitEffect DEF InsertOK, Compatible, Registering, Inserted, At
      <4>3. \A x \in positions' : x \in positions \/ x = r
        BY <1>1, CommitEffect
      <4>4. \A x \in folios' : x \in folios \/ x = r
        BY <1>1, CommitEffect
      <4> QED BY <2>1, <2>2, <3>1, <4>1, <4>2, <4>3, <4>4
              DEF InsertOK, Adding, Registering, Inserted, At, SameKey, SameName
    <3>5. LoadedOK(t)'
      <4> SUFFICES ASSUME base[t] # None, call[t].position \in positions', Undisturbed(t)'
                   PROVE  base[t] = held'[call[t].position]
        BY <2>1, <3>1 DEF LoadedOK
      <4>1. call[t].position \in positions
        BY <1>1, <3>1, CommitEffect DEF LoadedOK
      <4>2. Undisturbed(t) /\ ~(call[r].op = "update" /\ call[t].position = call[r].position)
        BY <1>1, <2>1, <2>2, CommitEffect DEF Undisturbed
      <4>3. held'[call[t].position] = held[call[t].position]
        BY <1>1, <4>1, <4>2, HeldEffect
      <4> QED BY <3>1, <4>1, <4>2, <4>3 DEF LoadedOK
    <3> QED BY <3>2, <3>3, <3>4, <3>5
  <2> QED BY <1>2, <2>1, <2>4 DEF RequestOK, Active
<1> QED BY <1>3, <1>4

LEMMA CommittedKeeps == ASSUME Inv, NEW r \in Requests, Committed(r) PROVE Inv'
<1>1. ASSUME NEW t \in Requests, NEW u \in Requests, t # u PROVE Compatible(t, u)'
  <2>1. Compatible(t, u)
    BY <1>1 DEF Inv
  <2> QED BY <1>1, <2>1, CommittedSession DEF Compatible, Adding, Registering, Inserted, At
<1> QED BY <1>1, CommittedTypes, CommittedStore, CommittedRequests DEF Inv

-----------------------------------------------------------------------------

LEMMA CommitKeeps == ASSUME Inv, NEW r \in Requests, Commit(r) PROVE Inv'
  BY CommittedKeeps DEF Commit, Committed, Inv, TypeOK

LEMMA FailKeeps == ASSUME Inv, NEW r \in Requests, Fail(r) PROVE Inv'
<1>1. Active(r) /\ faults' \in 0..MaxFaults /\ End(r, "error") /\ UNCHANGED <<call, prior>>
  BY StoreAssumption DEF Fail, Active, Inv, TypeOK
<1>2. CASE UNCHANGED <<tables, committed>>
  BY <1>1, <1>2, EndKeeps DEF history
<1>3. CASE pc[r] = "commit" /\ Apply(r)
  BY <1>1, <1>3, CommittedKeeps DEF Committed
<1> QED BY <1>2, <1>3 DEF Fail

LEMMA ArriveKeeps == ASSUME Inv, NEW r \in Requests, Arrive(r) PROVE Inv'
<1>1. PICK c \in Calls : call' = [call EXCEPT ![r] = c]
  BY DEF Arrive
<1>2. c \in Call /\ (c.op \in {"add", "update"} => c.pair \in Pairs)
  BY StoreAssumption
<1>3. /\ pc[r] = "idle" /\ pc' = [pc EXCEPT ![r] = "check"]
      /\ prior' = [prior EXCEPT ![r] = {t \in Requests : pc[t] = "done"}]
      /\ UNCHANGED <<answer, session, tables, faults, committed>>
  BY DEF Arrive
<1>4. TypeOK'
  BY <1>1, <1>2, <1>3 DEF Inv, TypeOK, session, tables
<1>5. /\ pc'[r] = "check" /\ call'[r] = c /\ prior'[r] = {t \in Requests : pc[t] = "done"}
      /\ wrote' = wrote /\ base' = base /\ UNCHANGED <<users, folios, positions, held, committed>>
      /\ \A t \in Requests \ {r} :
             pc'[t] = pc[t] /\ call'[t] = call[t] /\ prior'[t] = prior[t]
      /\ \A t \in Requests : pc[t] = "done" => pc'[t] = "done"
  BY <1>1, <1>3 DEF Inv, TypeOK, session, tables
<1>6. /\ r \notin positions /\ r \notin folios /\ r \notin users /\ r \notin committed
      /\ \A y \in positions \cup folios \cup users \cup committed : y \in Requests
  BY <1>3 DEF Inv, RowsOK, TypeOK
<1>7. RowsOK'
  BY <1>5, <1>6 DEF Inv, RowsOK
<1>8. Store'
  BY <1>5, <1>6 DEF Inv, Store, PositionsHaveFolio, OnlyRacesDuplicate, EmailsUnique, Overlapped
<1>9. ASSUME NEW t \in Requests PROVE RequestOK(t)'
  <2>1. RequestOK(t)
    BY DEF Inv
  <2>2. CASE t = r
    <3>1. wrote[r] = {} /\ base[r] = None
      BY <1>3, <2>1, <2>2 DEF RequestOK, Active
    <3>2. StageOK(r)' /\ LocksOK(r)' /\ InsertOK(r)' /\ LoadedOK(r)'
      BY <1>5, <3>1 DEF StageOK, LocksOK, InsertOK, LoadedOK, Adding, Registering, Inserted, At
    <3> QED BY <1>2, <1>3, <1>5, <2>2, <3>2 DEF RequestOK, Active
  <2>3. CASE t # r
    <3>1. ASSUME Active(t) PROVE StageOK(t)' /\ LocksOK(t)' /\ InsertOK(t)' /\ LoadedOK(t)'
      <4>1. StageOK(t) /\ LocksOK(t) /\ InsertOK(t) /\ LoadedOK(t)
        BY <3>1, ActiveOK
      <4>2. \A f : Contents(f)' = Contents(f)
        BY <1>5, <1>6 DEF Contents
      <4>3. LocksOK(t)'
        BY <1>5, <2>3, <4>1, <4>2 DEF LocksOK
      <4>4. Undisturbed(t)' => Undisturbed(t)
        BY <1>5, <1>6, <2>3 DEF Undisturbed
      <4>5. LoadedOK(t)'
        BY <1>5, <2>3, <4>1, <4>4 DEF LoadedOK
      <4> QED BY <1>5, <1>6, <2>3, <4>1, <4>3, <4>5
              DEF StageOK, InsertOK, Adding, Registering, Inserted, At, SameKey, SameName
    <3> QED BY <1>5, <2>1, <2>3, <3>1 DEF RequestOK, Active
  <2> QED BY <2>2, <2>3
<1>10. ASSUME NEW t \in Requests, NEW u \in Requests, t # u PROVE Compatible(t, u)'
  <2>1. Compatible(t, u)
    BY <1>10 DEF Inv
  <2> QED BY <1>3, <1>5, <2>1 DEF Compatible, Adding, Registering, Inserted, At
<1> QED BY <1>4, <1>7, <1>8, <1>9, <1>10 DEF Inv

LEMMA NextInv == Inv /\ [Next]_vars => Inv'
<1> SUFFICES ASSUME Inv, [Next]_vars PROVE Inv'
  OBVIOUS
<1>1. ASSUME NEW r \in Requests, Arrive(r) \/ Statement(r) \/ Fail(r) PROVE Inv'
  <2>1. ASSUME Deadlock(r) PROVE Inv'
    <3>1. Active(r)
      BY <2>1 DEF Deadlock, Blocks, At, Active
    <3> QED BY <2>1, <3>1, RaiseKeeps DEF Deadlock
  <2> QED BY <1>1, <2>1, ArriveKeeps, CheckEmailKeeps, CheckNameKeeps, FindPortfolioKeeps,
             FindSymbolKeeps, FindPositionKeeps, MarkPortfolioKeeps, InsertUserKeeps,
             InsertPortfolioKeeps, InsertPositionKeeps, UpdatePositionKeeps,
             DeletePositionsKeeps, DeletePortfolioKeeps, CascadePositionsKeeps,
             CommitKeeps, FailKeeps DEF Statement
<1>2. CASE UNCHANGED vars
  <2>1. UNCHANGED <<pc, call, answer, marked, base, wrote, users, folios, positions, held,
                    faults, committed, prior>>
    BY <1>2 DEF vars, session, tables, history
  <2>2. TypeOK' /\ RowsOK' /\ Store'
    BY <2>1 DEF Inv, TypeOK, RowsOK, Store, PositionsHaveFolio, OnlyRacesDuplicate,
                EmailsUnique, Overlapped
  <2>3. ASSUME NEW t \in Requests PROVE RequestOK(t)'
    <3>1. RequestOK(t)
      BY DEF Inv
    <3> QED BY <2>1, <3>1 DEF RequestOK, Active, StageOK, LocksOK, Contents, InsertOK, Adding,
               Registering, Inserted, At, SameKey, SameName, LoadedOK, Undisturbed
  <2>4. ASSUME NEW t \in Requests, NEW u \in Requests, t # u PROVE Compatible(t, u)'
    <3>1. Compatible(t, u)
      BY <2>4 DEF Inv
    <3> QED BY <2>1, <3>1 DEF Compatible, Adding, Registering, Inserted, At
  <2> QED BY <2>2, <2>3, <2>4 DEF Inv
<1> QED BY <1>1, <1>2 DEF Next

LEMMA Invariant == Spec => []Inv
  BY InitInv, NextInv, PTL DEF Spec

\* The state of requests, transactions and tables is well typed.
THEOREM TypeCorrect == Spec => []TypeOK
<1>1. Inv => TypeOK
  BY DEF Inv
<1> QED BY <1>1, Invariant, PTL

\* However adds and deletions interleave, no position is left without its
\* portfolio: an insert and a deletion of the portfolio wait for each other,
\* and the cascade finds what the session did not.
THEOREM NoOrphans == Spec => []PositionsHaveFolio
<1>1. Inv => PositionsHaveFolio
  BY DEF Inv, Store
<1> QED BY <1>1, Invariant, PTL

\* Duplicates of positions and portfolios come only from overlapping requests.
THEOREM DuplicatesAreRaces == Spec => []OnlyRacesDuplicate
<1>1. Inv => OnlyRacesDuplicate
  BY DEF Inv, Store
<1> QED BY <1>1, Invariant, PTL

\* An e-mail has one account.
THEOREM OneAccountPerEmail == Spec => []EmailsUnique
<1>1. Inv => EmailsUnique
  BY DEF Inv, Store
<1> QED BY <1>1, Invariant, PTL

LEMMA UpdateEffect ==
    ASSUME Inv, NEW r \in Requests, pc[r] = "commit", Apply(r), call[r].op = "update",
           call[r].position \in positions', Undisturbed(r)
    PROVE  held'[call[r].position] = call[r].pair
<1> DEFINE x == call[r].position
<1>1. Active(r)
  BY DEF Active
<1>2. base[r] # None /\ (wrote[r] = {} => base[r] = call[r].pair) /\ call[r].pair \in Pairs
  BY <1>1, ActiveOK DEF StageOK
<1>3. x \in positions
  BY CommitEffect
<1>4. base[r] = held[x] /\ held[x] \in Pairs /\ x \in Requests
  BY <1>1, <1>2, <1>3, ActiveOK DEF LoadedOK, Inv, RowsOK, TypeOK
<1>5. CASE wrote[r] = {}
  BY <1>2, <1>4, <1>5 DEF Apply
<1>6. CASE wrote[r] # {}
  <2>1. held'[x] = Updated(r)
    BY <1>6, HeldEffect
  <2>2. \A c \in Columns : (IF c \in Dirty(r) THEN call[r].pair[c] ELSE held[x][c]) = call[r].pair[c]
    BY <1>4 DEF Dirty
  <2>3. Updated(r) = [c \in Columns |-> call[r].pair[c]]
    BY <2>2 DEF Updated
  <2>4. [c \in Columns |-> call[r].pair[c]] = call[r].pair
    BY <1>2 DEF Pairs
  <2> QED BY <2>1, <2>3, <2>4
<1> QED BY <1>5, <1>6

\* Which steps commit.
LEMMA CommitSteps ==
    ASSUME Inv, [Next]_vars, NEW r \in Requests, r \in committed' \ committed
    PROVE  pc[r] = "commit" /\ Apply(r)
<1>1. CASE UNCHANGED vars
  BY <1>1 DEF vars, history
<1>2. ASSUME NEW t \in Requests, Arrive(t) \/ Statement(t) \/ Fail(t)
      PROVE  committed' = committed \/ (committed' = committed \cup {t} /\ pc[t] = "commit" /\ Apply(t))
  <2>1. CASE Commit(t) \/ Fail(t)
    BY <2>1 DEF Commit, Fail, Apply
  <2>2. CASE Arrive(t)
    BY <2>2 DEF Arrive
  <2>3. CASE Statement(t) /\ ~Commit(t)
    BY <2>3 DEF Statement, CheckEmail, CheckName, FindPortfolio, FindSymbol, FindPosition,
            MarkPortfolio, InsertUser, InsertPortfolio, InsertPosition, UpdatePosition,
            DeletePositions, DeletePortfolio, CascadePositions, Deadlock, Refuse, Raise, history
  <2> QED BY <1>2, <2>1, <2>2, <2>3
<1> QED BY <1>1, <1>2 DEF Next

\* An update nobody else's update interferes with leaves the pair it was asked
\* for, although it writes only the columns that differ from what it loaded.
THEOREM UndisturbedUpdatesWhole == Spec => UndisturbedUpdate
<1> DEFINE Whole ==
      \A r \in Requests :
          /\ r \in committed' \ committed /\ call[r].op = "update"
          /\ call[r].position \in positions'
          /\ \A t \in committed \ prior[r] :
                 ~(call[t].op = "update" /\ call[t].position = call[r].position)
          => held'[call[r].position] = call[r].pair
<1>1. Inv /\ [Next]_vars => Whole
  BY CommitSteps, UpdateEffect DEF Undisturbed
<1>2. Inv /\ [Next]_vars => [Whole]_vars
  BY <1>1
<1> QED BY <1>2, Invariant, PTL DEF Spec, UndisturbedUpdate
===========================================================================
