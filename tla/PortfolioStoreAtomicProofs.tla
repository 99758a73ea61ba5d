--------------------- MODULE PortfolioStoreAtomicProofs ---------------------
(***************************************************************************)
(* The proof that PortfolioStore implements AtomicStore: whatever its      *)
(* statements and locks do on the way, the commit of a request does all it *)
(* was asked for, to rows of its user, and no other step does anything.    *)
(*                                                                         *)
(* A commit has to justify checks made long before.  Rows never change     *)
(* their owner and never come back once deleted, so what was checked of    *)
(* them still holds (OwnOK); and a deletion has locked all it was to       *)
(* delete unless it is gone.                                               *)
(***************************************************************************)
EXTENDS PortfolioStoreAckProofs

\* The handler has found the portfolio to be its user's.
OwnsFolio(r) ==
    /\ call[r].folio \in Requests /\ pc[call[r].folio] = "done"
    /\ call[call[r].folio].user = call[r].user

\* ... and the position to be in it.
OwnsPosition(r) ==
    /\ call[r].position \in Requests /\ pc[call[r].position] = "done"
    /\ call[call[r].position].folio = call[r].folio

OwnOK(r) ==
    /\ pc[r] = "idle" => call[r] = None
    /\ Active(r) /\ pc[r] # "check" /\ call[r].op \in {"add", "update", "remove", "delete_portfolio"}
           => OwnsFolio(r)
    /\ pc[r] \in {"update", "delete", "commit"} /\ call[r].op \in {"update", "remove"}
           => OwnsPosition(r)
    /\ pc[r] = "delete" /\ call[r].op = "remove" => marked[r] = {call[r].position}
    /\ pc[r] = "commit" =>
           /\ call[r].op = "create" => call[r].user \in users
           /\ call[r].op = "remove" => /\ positions \cap {call[r].position} \subseteq wrote[r]
                                      /\ wrote[r] \subseteq {call[r].position}
           /\ call[r].op = "delete_portfolio" => folios \cap {call[r].folio} \subseteq wrote[r]

OwnInv == AckInv /\ \A r \in Requests : OwnOK(r)

LEMMA InitOwn == Init => OwnInv
<1> SUFFICES ASSUME Init PROVE OwnInv
  OBVIOUS
<1>1. \A r \in Requests : (pc[r] = "idle" /\ call[r] = None) \/ pc[r] = "done"
  BY DEF Init
<1> QED BY <1>1, InitAck DEF OwnInv, OwnOK, Active

-----------------------------------------------------------------------------
(* One request moves *)

\* What the others have checked still holds after a step of r.
LEMMA OthersOwn ==
    ASSUME OwnInv, NEW r \in Requests, pc[r] # "done",
           \A t \in Requests \ {r} :
               /\ pc'[t] = pc[t] /\ call'[t] = call[t]
               /\ marked'[t] = marked[t] /\ wrote'[t] = wrote[t],
           users \subseteq users',
           \A x \in positions' : x \in positions \/ pc[x] # "done",
           \A f \in folios' : f \in folios \/ pc[f] # "done",
           OwnOK(r)'
    PROVE  \A t \in Requests : OwnOK(t)'
<1> SUFFICES ASSUME NEW t \in Requests \ {r} PROVE OwnOK(t)'
  OBVIOUS
<1>1. OwnOK(t)
  BY DEF OwnInv
<1>2. \A x \in Requests : pc[x] = "done" => pc'[x] = "done" /\ call'[x] = call[x]
  OBVIOUS
<1>3. OwnsFolio(t) => OwnsFolio(t)'
  BY <1>2 DEF OwnsFolio
<1>4. OwnsPosition(t) => OwnsPosition(t)'
  BY <1>2 DEF OwnsPosition
<1>5. pc[t] = "commit" /\ call[t].op = "remove" =>
          positions' \cap {call[t].position} \subseteq positions
  BY <1>1 DEF OwnOK, OwnsPosition
<1>6. pc[t] = "commit" /\ call[t].op = "delete_portfolio" =>
          folios' \cap {call[t].folio} \subseteq folios
  BY <1>1 DEF OwnOK, OwnsFolio, Active
<1> QED BY <1>1, <1>3, <1>4, <1>5, <1>6 DEF OwnOK, Active

\* A request that ends has nothing left to justify.
LEMMA EndKeepsOwn ==
    ASSUME OwnInv, NEW r \in Requests, Active(r), NEW a \in {"ok", "refused", "error"}, End(r, a),
           UNCHANGED call, users \subseteq users',
           \A x \in positions' : x \in positions \/ x = r,
           \A f \in folios' : f \in folios \/ f = r
    PROVE  \A t \in Requests : OwnOK(t)'
<1>1. /\ pc'[r] = "done"
      /\ \A t \in Requests \ {r} :
             pc'[t] = pc[t] /\ marked'[t] = marked[t] /\ wrote'[t] = wrote[t]
  BY EndEffect DEF OwnInv, AckInv
<1>2. OwnOK(r)'
  BY <1>1 DEF OwnOK, Active
<1> QED BY <1>1, <1>2, OthersOwn DEF Active

LEMMA GiveUpKeepsOwn ==
    ASSUME OwnInv, NEW r \in Requests, Active(r), Refuse(r) \/ Raise(r)
    PROVE  \A t \in Requests : OwnOK(t)'
<1>1. PICK a \in {"refused", "error"} : End(r, a)
  BY DEF Refuse, Raise
<1>2. UNCHANGED <<call, users, folios, positions>>
  BY DEF Refuse, Raise, tables
<1> QED BY <1>1, <1>2, EndKeepsOwn

\* A request that goes on.
LEMMA GoOnKeepsOwn ==
    ASSUME OwnInv, NEW r \in Requests, Moved(r), OwnOK(r)',
           \A t \in Requests \ {r} : marked'[t] = marked[t]
    PROVE  \A t \in Requests : OwnOK(t)'
  BY OthersOwn DEF Moved, Active

\* What a request keeps of what it has checked when it goes on.
LEMMA ChecksLast ==
    ASSUME NEW r \in Requests, Moved(r)
    PROVE  /\ OwnsFolio(r) => OwnsFolio(r)'
           /\ OwnsPosition(r) => OwnsPosition(r)'
<1>1. \A x \in Requests : pc[x] = "done" => pc'[x] = "done"
  BY DEF Moved, Active
<1> QED BY <1>1 DEF OwnsFolio, OwnsPosition, Moved

-----------------------------------------------------------------------------
(* One lemma per group of statements *)

LEMMA ArriveKeepsOwn ==
    ASSUME OwnInv, NEW r \in Requests, Arrive(r) PROVE \A t \in Requests : OwnOK(t)'
<1>1. /\ pc[r] = "idle" /\ pc' = [pc EXCEPT ![r] = "check"]
      /\ \A t \in Requests \ {r} : call'[t] = call[t]
      /\ UNCHANGED <<marked, wrote, users, folios, positions>>
  BY DEF Arrive, session, tables, OwnInv, AckInv, Inv, TypeOK
<1>2. pc'[r] = "check" /\ \A t \in Requests \ {r} : pc'[t] = pc[t]
  BY <1>1 DEF OwnInv, AckInv, Inv, TypeOK
<1>3. OwnOK(r)'
  BY <1>2 DEF OwnOK
<1> QED BY <1>1, <1>2, <1>3, OthersOwn

\* The checks of accounts, names and symbols.
LEMMA NamesKeepOwn ==
    ASSUME OwnInv, NEW r \in Requests, CheckEmail(r) \/ CheckName(r) \/ FindSymbol(r)
    PROVE  \A t \in Requests : OwnOK(t)'
<1>1. /\ pc[r] \in {"check", "find"} /\ Active(r)
      /\ \/ call[r].op \in {"register", "create"}
         \/ pc[r] = "find" /\ call[r].op = "add"
  BY DEF CheckEmail, CheckName, FindSymbol, At, Active
<1>2. CASE Refuse(r) \/ Raise(r)
  BY <1>1, <1>2, GiveUpKeepsOwn
<1>3. CASE ~(Refuse(r) \/ Raise(r))
  <2>1. Goto(r, "insert") /\ UNCHANGED <<call, answer, session, tables, faults, history>>
    BY <1>3 DEF CheckEmail, CheckName, FindSymbol
  <2>2. Moved(r) /\ pc'[r] = "insert"
    BY <1>1, <2>1 DEF Moved, Goto, session, tables, history, OwnInv, AckInv, Inv, TypeOK
  <2>3. OwnOK(r)'
    BY <1>1, <2>1, <2>2, ChecksLast DEF OwnOK, OwnInv, Active
  <2> QED BY <2>1, <2>2, <2>3, GoOnKeepsOwn DEF session
<1> QED BY <1>2, <1>3

LEMMA FindPortfolioKeepsOwn ==
    ASSUME OwnInv, NEW r \in Requests, FindPortfolio(r) PROVE \A t \in Requests : OwnOK(t)'
<1>1. pc[r] = "check" /\ Active(r)
  BY DEF FindPortfolio, At, Active
<1>2. CASE Refuse(r)
  BY <1>1, <1>2, GiveUpKeepsOwn
<1>3. CASE ~Refuse(r)
  <2>1. /\ call[r].folio \in folios /\ call[call[r].folio].user = call[r].user
        /\ Goto(r, "find") /\ UNCHANGED <<call, answer, marked, wrote, tables, faults, history>>
        /\ \E b : base' = [base EXCEPT ![r] = b]
    BY <1>3 DEF FindPortfolio
  <2>2. Moved(r) /\ pc'[r] = "find"
    BY <1>1, <2>1 DEF Moved, Goto, tables, history, OwnInv, AckInv, Inv, TypeOK
  <2>3. OwnsFolio(r)
    BY <2>1 DEF OwnsFolio, OwnInv, AckInv, Inv, RowsOK, TypeOK
  <2>4. OwnOK(r)'
    BY <2>2, <2>3, ChecksLast DEF OwnOK
  <2> QED BY <2>1, <2>2, <2>4, GoOnKeepsOwn
<1> QED BY <1>2, <1>3

LEMMA MarkPortfolioKeepsOwn ==
    ASSUME OwnInv, NEW r \in Requests, MarkPortfolio(r) PROVE \A t \in Requests : OwnOK(t)'
<1>1. pc[r] = "check" /\ call[r].op = "delete_portfolio" /\ Active(r)
  BY DEF MarkPortfolio, At, Active
<1>2. CASE Refuse(r)
  BY <1>1, <1>2, GiveUpKeepsOwn
<1>3. CASE ~Refuse(r)
  <2>1. /\ call[r].folio \in folios /\ call[call[r].folio].user = call[r].user
        /\ marked' = [marked EXCEPT ![r] = Contents(call[r].folio)]
        /\ Return(r, "delete") /\ UNCHANGED <<call, base, wrote, tables, faults, history>>
    BY <1>3 DEF MarkPortfolio
  <2>2. Moved(r) /\ pc'[r] = "delete"
    BY <1>1, <2>1 DEF Moved, Return, Goto, tables, history, OwnInv, AckInv, Inv, TypeOK
  <2>3. OwnsFolio(r)
    BY <2>1 DEF OwnsFolio, OwnInv, AckInv, Inv, RowsOK, TypeOK
  <2>4. OwnOK(r)'
    BY <1>1, <2>1, <2>2, <2>3, ChecksLast DEF OwnOK
  <2>5. \A t \in Requests \ {r} : marked'[t] = marked[t]
    BY <2>1 DEF OwnInv, AckInv, Inv, TypeOK
  <2> QED BY <2>2, <2>4, <2>5, GoOnKeepsOwn
<1> QED BY <1>2, <1>3

LEMMA FindPositionKeepsOwn ==
    ASSUME OwnInv, NEW r \in Requests, FindPosition(r) PROVE \A t \in Requests : OwnOK(t)'
<1>1. pc[r] = "find" /\ call[r].op \in {"update", "remove"} /\ Active(r)
  BY DEF FindPosition, At, Active
<1>2. CASE Refuse(r)
  BY <1>1, <1>2, GiveUpKeepsOwn
<1>3. CASE ~Refuse(r)
  <2> DEFINE x == call[r].position
  <2>1. /\ x \in Contents(call[r].folio)
        /\ UNCHANGED <<call, wrote, tables, faults, history>>
        /\ \/ /\ call[r].op = "update" /\ pc' = [pc EXCEPT ![r] = "update"] /\ marked' = marked
              /\ \E b : base' = [base EXCEPT ![r] = b]
           \/ /\ call[r].op = "remove" /\ pc' = [pc EXCEPT ![r] = "delete"]
              /\ marked' = [marked EXCEPT ![r] = {x}] /\ base' = base
    BY <1>3 DEF FindPosition, Return, Goto
  <2>2. /\ Moved(r)
        /\ \/ call[r].op = "update" /\ pc'[r] = "update"
           \/ call[r].op = "remove" /\ pc'[r] = "delete" /\ marked'[r] = {x}
    BY <1>1, <2>1 DEF Moved, tables, history, OwnInv, AckInv, Inv, TypeOK
  <2>3. OwnsPosition(r) /\ OwnsFolio(r)
    BY <1>1, <2>1 DEF OwnsPosition, Contents, OwnInv, OwnOK, AckInv, Inv, RowsOK, TypeOK
  <2>4. OwnOK(r)'
    BY <2>1, <2>2, <2>3, ChecksLast DEF OwnOK
  <2>5. \A t \in Requests \ {r} : marked'[t] = marked[t]
    BY <2>1 DEF OwnInv, AckInv, Inv, TypeOK
  <2> QED BY <2>2, <2>4, <2>5, GoOnKeepsOwn
<1> QED BY <1>2, <1>3

LEMMA WritesKeepOwn ==
    ASSUME OwnInv, NEW r \in Requests,
           InsertUser(r) \/ InsertPortfolio(r) \/ InsertPosition(r) \/ UpdatePosition(r)
    PROVE  \A t \in Requests : OwnOK(t)'
<1>1. /\ pc[r] \in {"insert", "update"} /\ Active(r)
      /\ call[r].op \in {"register", "create", "add", "update"}
      /\ call[r].op = "update" <=> pc[r] = "update"
  BY ActiveOK DEF InsertUser, InsertPortfolio, InsertPosition, UpdatePosition, At, OwnInv, AckInv,
                  StageOK, Active
<1>2. CASE Raise(r)
  BY <1>1, <1>2, GiveUpKeepsOwn
<1>3. CASE ~Raise(r)
  <2>1. /\ Return(r, "commit")
        /\ wrote' = wrote \/ \E w : wrote' = [wrote EXCEPT ![r] = w]
        /\ UNCHANGED <<call, marked, base, tables, faults, history>>
        /\ call[r].op = "create" => call[r].user \in users
    BY <1>1, <1>3 DEF InsertUser, InsertPortfolio, InsertPosition, UpdatePosition, At, session
  <2>2. Moved(r) /\ pc'[r] = "commit"
    BY <1>1, <2>1 DEF Moved, tables, history, OwnInv, AckInv, Inv, TypeOK, Return, Goto
  <2>3. OwnOK(r)'
    BY <1>1, <2>1, <2>2, ChecksLast DEF OwnOK, OwnInv, Active, tables
  <2> QED BY <2>1, <2>2, <2>3, GoOnKeepsOwn
<1> QED BY <1>2, <1>3

\* A deletion has locked what it is to delete, or found it gone.
LEMMA DeletionsKeepOwn ==
    ASSUME OwnInv, NEW r \in Requests,
           DeletePositions(r) \/ DeletePortfolio(r) \/ CascadePositions(r)
    PROVE  \A t \in Requests : OwnOK(t)'
<1> DEFINE f == call[r].folio
           x == call[r].position
<1>1. pc[r] \in {"delete", "drop", "cascade"} /\ Active(r)
  BY DEF DeletePositions, DeletePortfolio, CascadePositions, Active
<1>2. UNCHANGED <<call, answer, marked, base, tables, faults, history>>
  BY DEF DeletePositions, DeletePortfolio, CascadePositions
<1>3. \E s \in {"drop", "cascade", "commit"} : pc' = [pc EXCEPT ![r] = s]
  BY DEF DeletePositions, DeletePortfolio, CascadePositions, Goto
<1>4. wrote' = wrote \/ \E w : wrote' = [wrote EXCEPT ![r] = w]
  BY DEF DeletePositions, DeletePortfolio, CascadePositions
<1>5. Moved(r) /\ pc'[r] \in {"drop", "cascade", "commit"}
  BY <1>1, <1>2, <1>3, <1>4 DEF Moved, tables, history, OwnInv, AckInv, Inv, TypeOK
<1>6. \/ call[r].op = "delete_portfolio"
      \/ call[r].op = "remove" /\ pc[r] = "delete" /\ DeletePositions(r)
  BY <1>1, ActiveOK DEF OwnInv, AckInv, StageOK, DeletePositions, DeletePortfolio, CascadePositions
<1>7. OwnsFolio(r)' /\ (call[r].op = "remove" => OwnsPosition(r)')
  BY <1>1, <1>5, <1>6, ChecksLast DEF OwnInv, OwnOK
<1>8. call[r].op = "remove" => /\ positions' \cap {x} \subseteq wrote'[r]
                               /\ wrote'[r] \subseteq {x}
  BY <1>2, <1>6 DEF DeletePositions, OwnInv, OwnOK, AckInv, Inv, TypeOK, tables
<1>9. pc'[r] = "commit" /\ call[r].op = "delete_portfolio" => folios' \cap {f} \subseteq wrote'[r]
  <2> SUFFICES ASSUME pc'[r] = "commit", call[r].op = "delete_portfolio", f \in folios
               PROVE  f \in wrote'[r]
    BY <1>2 DEF tables
  <2>1. CascadePositions(r)
    BY DEF DeletePositions, DeletePortfolio, Goto, OwnInv, AckInv, Inv, TypeOK
  <2>2. f \in wrote[r]
    BY <2>1 DEF CascadePositions, Active, OwnInv, AckInv, AckOK, DeletionOK
  <2> QED BY <2>1, <2>2 DEF CascadePositions, OwnInv, AckInv, Inv, TypeOK
<1>10. OwnOK(r)'
  BY <1>2, <1>5, <1>6, <1>7, <1>8, <1>9 DEF OwnOK
<1> QED BY <1>2, <1>5, <1>10, GoOnKeepsOwn

LEMMA CommitKeepsOwn ==
    ASSUME OwnInv, NEW r \in Requests, Commit(r) PROVE \A t \in Requests : OwnOK(t)'
<1>1. pc[r] = "commit" /\ Apply(r) /\ End(r, "ok") /\ UNCHANGED call
  BY DEF Commit
<1>2. /\ users \subseteq users'
      /\ \A x \in positions' : x \in positions \/ x = r
      /\ \A f \in folios' : f \in folios \/ f = r
  BY <1>1, CommitEffect DEF OwnInv, AckInv
<1> QED BY <1>1, <1>2, EndKeepsOwn DEF Active

LEMMA FailKeepsOwn ==
    ASSUME OwnInv, NEW r \in Requests, Fail(r) PROVE \A t \in Requests : OwnOK(t)'
<1>1. Active(r) /\ End(r, "error") /\ UNCHANGED call
  BY DEF Fail, Active
<1>2. /\ users \subseteq users'
      /\ \A x \in positions' : x \in positions \/ x = r
      /\ \A f \in folios' : f \in folios \/ f = r
  BY CommitEffect DEF Fail, tables, OwnInv, AckInv
<1> QED BY <1>1, <1>2, EndKeepsOwn

LEMMA NextOwn == OwnInv /\ [Next]_vars => OwnInv'
<1> SUFFICES ASSUME OwnInv, [Next]_vars PROVE \A t \in Requests : OwnOK(t)'
  BY NextAck DEF OwnInv
<1>1. CASE UNCHANGED vars
  BY <1>1 DEF vars, session, tables, history, OwnInv, OwnOK, OwnsFolio, OwnsPosition, Active
<1>2. ASSUME NEW r \in Requests, Arrive(r) \/ Statement(r) \/ Fail(r)
      PROVE  \A t \in Requests : OwnOK(t)'
  <2>1. ASSUME Deadlock(r) PROVE \A t \in Requests : OwnOK(t)'
    <3>1. Active(r)
      BY <2>1 DEF Deadlock, Blocks, At, Active
    <3> QED BY <2>1, <3>1, GiveUpKeepsOwn DEF Deadlock
  <2> QED BY <1>2, <2>1, ArriveKeepsOwn, NamesKeepOwn, FindPortfolioKeepsOwn, MarkPortfolioKeepsOwn,
             FindPositionKeepsOwn, WritesKeepOwn, DeletionsKeepOwn, CommitKeepsOwn, FailKeepsOwn
             DEF Statement
<1> QED BY <1>1, <1>2 DEF Next

-----------------------------------------------------------------------------
(* Steps of AtomicStore *)

LEMMA AtomicInit == Init => Atomic!Init
<1> SUFFICES ASSUME Init PROVE Atomic!Init
  OBVIOUS
<1>1. DOMAIN History \subseteq Requests /\ \A i \in DOMAIN History : History[i] # None
  BY StoreAssumption DEF Requests
<1>2. \A r \in Requests : call[r] = IF r \in DOMAIN History THEN History[r] ELSE None
  BY DEF Init
<1>3. DOMAIN History = {r \in Requests : call[r] # None}
  BY <1>1, <1>2
<1>4. \A op : Created(op) = {r \in DOMAIN History : call[r].op = op}
  BY <1>1, <1>2 DEF Created
<1> QED BY <1>3, <1>4 DEF Init, Atomic!Init

LEMMA AtomicAsk == ASSUME OwnInv, NEW r \in Requests, Arrive(r) PROVE Atomic!Ask(r)
<1>1. call[r] = None
  BY DEF Arrive, OwnInv, OwnOK
<1> QED BY <1>1 DEF Arrive, tables, Atomic!Ask, Atomic!tables

\* One case per kind of request: its commit does what it was asked for.
LEMMA AtomicCarryOut ==
    ASSUME OwnInv, NEW r \in Requests, pc[r] = "commit", Apply(r), UNCHANGED call
    PROVE  Atomic!CarryOut(r)
<1> DEFINE f == call[r].folio
           x == call[r].position
<1>1. Active(r) /\ Inv
  BY DEF Active, OwnInv, AckInv
<1>2. /\ call[r] \in Call /\ LocksOK(r) /\ InsertOK(r) /\ StageOK(r)
      /\ call[r].op \in {"add", "update"} => call[r].pair \in Pairs
  BY <1>1, ActiveOK
<1>3. /\ call[r].op \in {"add", "update", "remove", "delete_portfolio"} => Atomic!OwnFolio(r)
      /\ call[r].op \in {"update", "remove"} => Atomic!OwnPosition(r)
  BY <1>1 DEF OwnInv, OwnOK, OwnsFolio, OwnsPosition, Atomic!OwnFolio, Atomic!OwnPosition
<1>4. /\ users' = users \cup New(r, "register")
      /\ folios' = (folios \cup New(r, "create")) \ Deleted(r)
      /\ positions' = (positions \cup New(r, "add")) \ Deleted(r)
      /\ committed' = committed \cup {r}
      /\ held' = CASE call[r].op = "add" -> [held EXCEPT ![r] = call[r].pair]
                   [] call[r].op = "update" /\ wrote[r] # {} ->
                          [held EXCEPT ![x] = Updated(r)]
                   [] OTHER -> held
  BY DEF Apply
<1>5. call[r].op \in Ops /\ r \notin positions /\ r \notin folios /\ r \notin committed
      /\ (call[r].op \in {"register", "create", "add"} => wrote[r] = {})
  BY <1>1, CommitEffect
<1> SUFFICES \/ Atomic!Register(r) \/ Atomic!Create(r) \/ Atomic!Add(r)
             \/ Atomic!Update(r) \/ Atomic!Remove(r) \/ Atomic!DeletePortfolio(r)
  BY <1>2, <1>4, <1>5, StoreAssumption DEF Atomic!CarryOut
<1>6. CASE call[r].op = "register"
  BY <1>2, <1>4, <1>5, <1>6 DEF Atomic!Register, New, Deleted, InsertOK, Registering, Inserted, At
<1>7. CASE call[r].op = "create"
  BY <1>4, <1>5, <1>7 DEF Atomic!Create, New, Deleted, OwnInv, OwnOK
<1>8. CASE call[r].op = "add"
  BY <1>2, <1>3, <1>4, <1>5, <1>8 DEF Atomic!Add, New, Deleted, InsertOK, Adding, Inserted, At
<1>9. CASE call[r].op = "update"
  <2>1. UNCHANGED <<users, folios, positions>>
    BY <1>4, <1>9 DEF New, Deleted
  <2>2. CASE wrote[r] = {}
    BY <1>3, <1>4, <1>9, <2>1, <2>2 DEF Atomic!Update
  <2>3. CASE wrote[r] # {}
    <3>1. x \in positions
      BY <1>2, <1>9, <2>3 DEF LocksOK
    <3>2. /\ Dirty(r) \in SUBSET Columns
          /\ held' = [held EXCEPT ![x] =
                         [c \in Columns |-> IF c \in Dirty(r) THEN call[r].pair[c] ELSE @[c]]]
      BY <1>4, <1>9, <2>3 DEF Updated, Dirty
    <3> QED BY <1>3, <1>9, <2>1, <3>1, <3>2 DEF Atomic!Update
  <2> QED BY <2>2, <2>3
<1>10. CASE call[r].op = "remove"
  <2>1. positions \cap {x} \subseteq wrote[r] /\ wrote[r] \subseteq {x}
    BY <1>10 DEF OwnInv, OwnOK
  <2>2. folios \cap wrote[r] = {}
    BY <1>2, <1>10 DEF LocksOK
  <2> QED BY <1>3, <1>4, <1>10, <2>1, <2>2 DEF Atomic!Remove, New, Deleted
<1>11. CASE call[r].op = "delete_portfolio"
  <2>1. /\ folios \cap {f} \subseteq wrote[r] /\ folios \cap wrote[r] \subseteq {f}
        /\ f \in folios => Contents(f) \subseteq wrote[r]
    BY <1>2, <1>11 DEF OwnInv, OwnOK, LocksOK
  <2>2. folios' = folios \ {f}
    BY <1>4, <1>11, <2>1 DEF New, Deleted
  <2>3. ASSUME NEW y \in positions PROVE y \in wrote[r] <=> call[y].folio = f
    <3>1. call[y].folio = f => y \in wrote[r]
      BY <1>1, <2>1, <2>3 DEF Contents, Inv, Store, PositionsHaveFolio
    <3>2. y # f /\ (y \in wrote[r] => y = f \/ call[y].folio = f)
      BY <1>1, <1>11, <2>3 DEF OwnInv, AckInv, AckOK, DeletionOK, Inv, RowsOK
    <3> QED BY <3>1, <3>2
  <2>4. positions' = {y \in positions : call[y].folio # f}
    BY <1>4, <1>11, <2>3 DEF New, Deleted
  <2> QED BY <1>3, <1>4, <1>11, <2>2, <2>4 DEF Atomic!DeletePortfolio, New
<1> QED BY <1>5, <1>6, <1>7, <1>8, <1>9, <1>10, <1>11 DEF Ops

\* What is neither an arrival nor a commit cannot be seen.
LEMMA AtomicStutter ==
    ASSUME NEW r \in Requests, Statement(r), ~Commit(r)
    PROVE  UNCHANGED <<call, committed, tables>>
  BY DEF Statement, CheckEmail, CheckName, FindPortfolio, FindSymbol, FindPosition, MarkPortfolio,
         InsertUser, InsertPortfolio, InsertPosition, UpdatePosition, DeletePositions,
         DeletePortfolio, CascadePositions, Deadlock, Refuse, Raise, history

\* Every behaviour of the statements, locks and failures is one of requests
\* that do all they were asked for at once or nothing, and touch only what
\* their user owns (delete_portfolio with the positions added meanwhile).
THEOREM AtomicImplemented == Spec => ImplementsAtomicStore
<1>1. OwnInv /\ [Next]_vars => [Atomic!Next]_Atomic!vars
  <2> SUFFICES ASSUME OwnInv, [Next]_vars PROVE [Atomic!Next]_Atomic!vars
    OBVIOUS
  <2>1. CASE UNCHANGED vars
    BY <2>1 DEF vars, history, tables, Atomic!vars, Atomic!tables
  <2>2. ASSUME NEW r \in Requests, Arrive(r) \/ Statement(r) \/ Fail(r)
        PROVE  \/ Atomic!Ask(r) \/ Atomic!CarryOut(r)
               \/ UNCHANGED <<call, committed, tables>>
    <3>1. CASE Arrive(r)
      BY <3>1, AtomicAsk
    <3>2. CASE Commit(r)
      BY <3>2, AtomicCarryOut DEF Commit
    <3>3. CASE Statement(r) /\ ~Commit(r)
      BY <3>3, AtomicStutter
    <3>4. CASE Fail(r)
      BY <3>4, AtomicCarryOut DEF Fail
    <3> QED BY <2>2, <3>1, <3>2, <3>3, <3>4
  <2> QED BY <2>1, <2>2 DEF Next, Atomic!Next, Atomic!vars, Atomic!tables, tables
<1> QED BY <1>1, InitOwn, NextOwn, AtomicInit, PTL DEF Spec, ImplementsAtomicStore, Atomic!Spec

=============================================================================
