--------------------------- MODULE PortfolioStore ---------------------------
(***************************************************************************)
(* The requests that write the database: registration                      *)
(* (app/domain/auth), portfolios and positions (app/domain/portfolio,      *)
(* app/domain/position), with the session of app/dependencies.py around    *)
(* each of them.                                                           *)
(*                                                                         *)
(* A request is one PostgreSQL transaction at READ COMMITTED, and a step   *)
(* here is one statement: a SELECT sees what is committed by then, an      *)
(* INSERT, UPDATE or DELETE may first have to wait for the lock of another *)
(* transaction.  Every handler checks first and writes later; what it      *)
(* checked may no longer hold when it writes, and deletions are not even   *)
(* written before the commit.                                              *)
(*                                                                         *)
(* Ids are generated by the insert, so a row has the number of the request *)
(* that created it, and what never changes in a row (owner and name of a   *)
(* portfolio, portfolio and symbol of a position) is in that request's     *)
(* call.                                                                   *)
(***************************************************************************)
EXTENDS Integers, Sequences, FiniteSets

CONSTANTS
    Calls,         \* the calls clients may make
    History,       \* the calls that created the rows there are initially
    MaxRequests,   \* requests, those of History included
    Names,         \* e-mails, names of portfolios, symbols, without regard to case
    Amounts,       \* values of the columns quantity and average_cost
    None,          \* an argument the call does not have, no value
    AckFirst,      \* the framework answers before get_db commits
    MaxFaults      \* bound on failing database calls

Requests == 1..MaxRequests
Columns == {"quantity", "average_cost"}
Pairs == [Columns -> Amounts]
Ops == {"register", "create", "delete_portfolio", "add", "update", "remove"}
Call == [op : Ops, user : Requests \cup {None}, folio : Requests \cup {None},
         position : Requests \cup {None}, name : Names \cup {None},
         pair : Pairs \cup {None}]

ASSUME StoreAssumption ==
    /\ MaxRequests \in Nat /\ MaxFaults \in Nat /\ AckFirst \in BOOLEAN
    /\ \A c \in Calls : c \in Call /\ (c.op \in {"add", "update"} => c.pair \in Pairs)
    /\ History \in Seq(Call) /\ Len(History) <= MaxRequests
    /\ \A i \in DOMAIN History : History[i].op \in {"register", "create"}
    /\ \A i, j \in DOMAIN History :
           /\ i # j /\ History[i].op = History[j].op
           /\ History[i].op = "create" => History[i].user = History[j].user
           => History[i].name # History[j].name
    /\ None \notin Requests \cup Pairs \cup Call

VARIABLES
    pc,         \* the statement each request runs next
    call,       \* what it was asked to do
    answer,     \* what the client was told
    marked,     \* positions session.delete has marked, to be deleted by the commit
    base,       \* the column values of the position as the session loaded them
    wrote,      \* rows its transaction has deleted or updated, and so has locked
    users, folios, positions,   \* ids of the committed rows
    held,       \* quantity and cost of the committed positions
    faults,     \* bounded counter
    (* history, for the properties *)
    committed,  \* requests whose transaction was committed
    prior       \* the requests that had ended when a request arrived

tables  == <<users, folios, positions, held>>
session == <<marked, base, wrote>>
history == <<committed, prior>>
vars    == <<pc, call, answer, session, tables, faults, history>>

Created(op) == {i \in DOMAIN History : History[i].op = op}

Init ==
    /\ pc = [r \in Requests |-> IF r \in DOMAIN History THEN "done" ELSE "idle"]
    /\ call = [r \in Requests |-> IF r \in DOMAIN History THEN History[r] ELSE None]
    /\ answer = [r \in Requests |-> IF r \in DOMAIN History THEN "ok" ELSE "none"]
    /\ marked = [r \in Requests |-> {}]
    /\ base = [r \in Requests |-> None]
    /\ wrote = [r \in Requests |-> {}]
    /\ users = Created("register") /\ folios = Created("create")
    /\ positions = {} /\ held = [r \in Requests |-> None]
    /\ faults = 0
    /\ committed = DOMAIN History
    /\ prior = [r \in Requests |-> {}]

-----------------------------------------------------------------------------
(* Requests begin and end *)

\* Requests are numbered in the order in which they arrive.
Arrive(r) ==
    /\ pc[r] = "idle" /\ \A t \in 1..(r - 1) : pc[t] # "idle"
    /\ \E c \in Calls : call' = [call EXCEPT ![r] = c]
    /\ pc' = [pc EXCEPT ![r] = "check"]
    /\ prior' = [prior EXCEPT ![r] = {t \in Requests : pc[t] = "done"}]
    /\ UNCHANGED <<answer, session, tables, faults, committed>>

Goto(r, statement) == pc' = [pc EXCEPT ![r] = statement]

\* The transaction is over; an answer once given cannot be taken back.
End(r, a) ==
    /\ Goto(r, "done")
    /\ answer' = [answer EXCEPT ![r] = IF @ = "none" THEN a ELSE @]
    /\ marked' = [marked EXCEPT ![r] = {}]
    /\ base' = [base EXCEPT ![r] = None]
    /\ wrote' = [wrote EXCEPT ![r] = {}]

\* (Mutant of Raise: the transaction is not rolled back.)
RaiseKeepingLocks(r) ==
    /\ Goto(r, "done")
    /\ answer' = [answer EXCEPT ![r] = IF @ = "none" THEN "error" ELSE @]
    /\ UNCHANGED <<call, session, tables, faults, history>>

\* The handler raises one of AppError's, or anything else; get_db rolls back.
Refuse(r) == End(r, "refused") /\ UNCHANGED <<call, tables, faults, history>>
Raise(r) == End(r, "error") /\ UNCHANGED <<call, tables, faults, history>>

\* The handler returns; what is left is get_db's commit.
Return(r, statement) ==
    /\ Goto(r, statement)
    /\ answer' = IF AckFirst THEN [answer EXCEPT ![r] = "ok"] ELSE answer

-----------------------------------------------------------------------------
(* The checks *)

At(r, statement, ops) == pc[r] = statement /\ call[r].op \in ops

Contents(f) == {x \in positions : call[x].folio = f}
SameSymbol(r) == {x \in Contents(call[r].folio) : call[x].name = call[r].name}

\* register: get_by_email
CheckEmail(r) ==
    /\ At(r, "check", {"register"})
    /\ IF \E u \in users : call[u].name = call[r].name
       THEN Refuse(r)
       ELSE /\ Goto(r, "insert")
            /\ UNCHANGED <<call, answer, session, tables, faults, history>>

\* create_portfolio: get_all_for_user
CheckName(r) ==
    /\ At(r, "check", {"create"})
    /\ IF \E f \in folios : call[f].user = call[r].user /\ call[f].name = call[r].name
       THEN Refuse(r)
       ELSE /\ Goto(r, "insert")
            /\ UNCHANGED <<call, answer, session, tables, faults, history>>

\* _get_portfolio_or_raise; its query loads the positions of the portfolio too.
FindPortfolio(r) ==
    /\ At(r, "check", {"add", "update", "remove"})
    /\ IF call[r].folio \in folios /\ call[call[r].folio].user = call[r].user
       THEN /\ Goto(r, "find")
            /\ base' = [base EXCEPT ![r] =
                   IF call[r].op = "update" /\ call[r].position \in Contents(call[r].folio)
                   THEN held[call[r].position] ELSE None]
            /\ UNCHANGED <<call, answer, marked, wrote, tables, faults, history>>
       ELSE Refuse(r)

\* (Mutant of FindSymbol: the answer of the query is not looked at.)
FindSymbolUnchecked(r) ==
    /\ At(r, "find", {"add"})
    /\ Goto(r, "insert")
    /\ UNCHANGED <<call, answer, session, tables, faults, history>>

\* (Mutant of FindSymbol: create does not flush, the commit inserts.)
FindSymbolUnflushed(r) ==
    /\ At(r, "find", {"add"})
    /\ \/ /\ SameSymbol(r) = {}
          /\ Return(r, "insert")
          /\ UNCHANGED <<call, session, tables, faults, history>>
       \/ Cardinality(SameSymbol(r)) = 1 /\ Refuse(r)
       \/ Cardinality(SameSymbol(r)) > 1 /\ Raise(r)

\* add_position: get_by_portfolio_and_symbol.  scalar_one_or_none raises when
\* there are two rows.
FindSymbol(r) ==
    /\ At(r, "find", {"add"})
    /\ \/ /\ SameSymbol(r) = {}
          /\ Goto(r, "insert")
          /\ UNCHANGED <<call, answer, session, tables, faults, history>>
       \/ Cardinality(SameSymbol(r)) = 1 /\ Refuse(r)
       \/ Cardinality(SameSymbol(r)) > 1 /\ Raise(r)

\* update_position, delete_position: get_by_id.  An object the session holds
\* already is returned as it was loaded first; whether it still holds the one
\* that came with the portfolio, which nobody refers to any more, is up to
\* the garbage collector.
FindPosition(r) ==
    /\ At(r, "find", {"update", "remove"})
    /\ IF call[r].position \in Contents(call[r].folio)
       THEN /\ \/ /\ call[r].op = "update"
                  /\ Goto(r, "update")
                  /\ \E b \in {held[call[r].position], base[r]} \ {None} :
                         base' = [base EXCEPT ![r] = b]
                  /\ UNCHANGED <<answer, marked>>
               \/ /\ call[r].op = "remove"
                  /\ marked' = [marked EXCEPT ![r] = {call[r].position}]
                  /\ Return(r, "delete")
                  /\ UNCHANGED base
            /\ UNCHANGED <<call, wrote, tables, faults, history>>
       ELSE Refuse(r)

\* (Mutant of MarkPortfolio: the owner is not looked at.)
MarkPortfolioOfAnyone(r) ==
    /\ At(r, "check", {"delete_portfolio"})
    /\ IF call[r].folio \in folios
       THEN /\ marked' = [marked EXCEPT ![r] = Contents(call[r].folio)]
            /\ Return(r, "delete")
            /\ UNCHANGED <<call, base, wrote, tables, faults, history>>
       ELSE Refuse(r)

\* delete_portfolio: get_by_id, and session.delete, which cascades to the
\* positions that were loaded.
MarkPortfolio(r) ==
    /\ At(r, "check", {"delete_portfolio"})
    /\ IF call[r].folio \in folios /\ call[call[r].folio].user = call[r].user
       THEN /\ marked' = [marked EXCEPT ![r] = Contents(call[r].folio)]
            /\ Return(r, "delete")
            /\ UNCHANGED <<call, base, wrote, tables, faults, history>>
       ELSE Refuse(r)

-----------------------------------------------------------------------------
(* Locks *)

\* The row of an INSERT that is not committed yet.
Inserted(t) == At(t, "commit", {"register", "create", "add"})

\* t's transaction has to end before the next statement of r can go on.  The
\* foreign key of an inserted position takes a shared lock on its portfolio.
Blocks(t, r) ==
    /\ t # r
    /\ \/ /\ At(r, "insert", {"register"})
          /\ Inserted(t) /\ call[t].op = "register" /\ call[t].name = call[r].name
       \/ At(r, "insert", {"add"}) /\ call[r].folio \in wrote[t]
       \/ pc[r] = "update" /\ call[r].position \in wrote[t]
       \/ pc[r] = "delete" /\ marked[r] \cap wrote[t] # {}
       \/ /\ pc[r] = "drop"
          /\ \/ call[r].folio \in wrote[t]
             \/ Inserted(t) /\ call[t].op = "add" /\ call[t].folio = call[r].folio
       \/ pc[r] = "cascade" /\ Contents(call[r].folio) \cap wrote[t] # {}

Free(r) == \A t \in Requests : ~Blocks(t, r)

\* Two transactions wait for each other: the server ends either of them.
Deadlock(r) ==
    /\ \E t \in Requests : Blocks(t, r) /\ Blocks(r, t)
    /\ Raise(r)

-----------------------------------------------------------------------------
(* The writes *)

\* (Mutant of InsertUser: no unique constraint.)
InsertUserAnyway(r) ==
    /\ At(r, "insert", {"register"})
    /\ Return(r, "commit") /\ UNCHANGED <<call, session, tables, faults, history>>

\* flush of a new user: users.email is unique.
InsertUser(r) ==
    /\ At(r, "insert", {"register"}) /\ Free(r)
    /\ IF \E u \in users : call[u].name = call[r].name
       THEN Raise(r)
       ELSE Return(r, "commit") /\ UNCHANGED <<call, session, tables, faults, history>>

\* flush of a new portfolio: nothing but its owner has to exist.
InsertPortfolio(r) ==
    /\ At(r, "insert", {"create"})
    /\ IF call[r].user \in users
       THEN Return(r, "commit") /\ UNCHANGED <<call, session, tables, faults, history>>
       ELSE Raise(r)

\* flush of a new position: its portfolio has to exist.
InsertPosition(r) ==
    /\ At(r, "insert", {"add"}) /\ Free(r)
    /\ IF call[r].folio \in folios
       THEN Return(r, "commit") /\ UNCHANGED <<call, session, tables, faults, history>>
       ELSE Raise(r)

\* (Mutant of Dirty: an unchanged quantity is taken for an unchanged position.)
DirtyQuantity(r) ==
    IF call[r].pair["quantity"] = base[r]["quantity"] THEN {} ELSE Columns

\* The columns that differ from what was loaded.
Dirty(r) == {c \in Columns : call[r].pair[c] # base[r][c]}

\* flush of a changed position: no statement when nothing differs, and
\* StaleDataError when it matches no row.
UpdatePosition(r) ==
    /\ pc[r] = "update"
    /\ \/ /\ Dirty(r) = {}
          /\ Return(r, "commit")
          /\ UNCHANGED <<call, session, tables, faults, history>>
       \/ /\ Dirty(r) # {} /\ Free(r)
          /\ IF call[r].position \in positions
             THEN /\ wrote' = [wrote EXCEPT ![r] = {call[r].position}]
                  /\ Return(r, "commit")
                  /\ UNCHANGED <<call, marked, base, tables, faults, history>>
             ELSE Raise(r)

\* commit's flush deletes the marked positions.  Those that are gone already
\* are no error.  (The rows are locked one by one in the order of their keys,
\* the same for everybody; the model locks them at once.)
DeletePositions(r) ==
    /\ pc[r] = "delete" /\ Free(r)
    /\ wrote' = [wrote EXCEPT ![r] = marked[r] \cap positions]
    /\ Goto(r, IF call[r].op = "remove" THEN "commit" ELSE "drop")
    /\ UNCHANGED <<call, answer, marked, base, tables, faults, history>>

\* ... then the portfolio, if it is still there,
DeletePortfolio(r) ==
    /\ pc[r] = "drop" /\ Free(r)
    /\ IF call[r].folio \in folios
       THEN /\ wrote' = [wrote EXCEPT ![r] = @ \cup {call[r].folio}]
            /\ Goto(r, "cascade")
       ELSE Goto(r, "commit") /\ UNCHANGED wrote
    /\ UNCHANGED <<call, answer, marked, base, tables, faults, history>>

\* (Mutant of CascadePositions: the foreign key does not cascade.)
CascadeNothing(r) ==
    /\ pc[r] = "cascade" /\ Free(r)
    /\ Goto(r, "commit")
    /\ UNCHANGED <<call, answer, session, tables, faults, history>>

\* and, as part of that statement, the positions that reached it after the
\* session loaded it (ON DELETE CASCADE).
CascadePositions(r) ==
    /\ pc[r] = "cascade" /\ Free(r)
    /\ wrote' = [wrote EXCEPT ![r] = @ \cup Contents(call[r].folio)]
    /\ Goto(r, "commit")
    /\ UNCHANGED <<call, answer, marked, base, tables, faults, history>>

-----------------------------------------------------------------------------
(* The end of the transaction *)

Deleted(r) == IF call[r].op = "update" THEN {} ELSE wrote[r]
New(r, op) == IF call[r].op = op THEN {r} ELSE {}

\* (Mutant of Updated: the update is added to what is held.)
UpdatedBy(r) ==
    [c \in Columns |->
        held[call[r].position][c] + call[r].pair[c]]

\* An UPDATE sets the dirty columns of the row as it is by then.
Updated(r) ==
    [c \in Columns |->
        IF c \in Dirty(r) THEN call[r].pair[c] ELSE held[call[r].position][c]]

Apply(r) ==
    /\ users' = users \cup New(r, "register")
    /\ folios' = (folios \cup New(r, "create")) \ Deleted(r)
    /\ positions' = (positions \cup New(r, "add")) \ Deleted(r)
    /\ held' = CASE call[r].op = "add" -> [held EXCEPT ![r] = call[r].pair]
                 [] call[r].op = "update" /\ wrote[r] # {} ->
                        [held EXCEPT ![call[r].position] = Updated(r)]
                 [] OTHER -> held
    /\ committed' = committed \cup {r}

Commit(r) ==
    /\ pc[r] = "commit"
    /\ Apply(r)
    /\ End(r, "ok")
    /\ UNCHANGED <<call, faults, prior>>

\* A database call fails.  During the commit the connection may be lost when
\* the server has committed already; get_db's rollback then does nothing.
Fail(r) ==
    /\ pc[r] \notin {"idle", "done"}
    /\ faults < MaxFaults /\ faults' = faults + 1
    /\ End(r, "error")
    /\ \/ UNCHANGED <<tables, committed>>
       \/ pc[r] = "commit" /\ Apply(r)
    /\ UNCHANGED <<call, prior>>

-----------------------------------------------------------------------------

Statement(r) ==
    \/ CheckEmail(r) \/ CheckName(r) \/ FindPortfolio(r)
    \/ FindSymbol(r) \/ FindPosition(r) \/ MarkPortfolio(r)
    \/ InsertUser(r) \/ InsertPortfolio(r) \/ InsertPosition(r) \/ UpdatePosition(r)
    \/ DeletePositions(r) \/ DeletePortfolio(r) \/ CascadePositions(r)
    \/ Deadlock(r) \/ Commit(r)

Next == \E r \in Requests : Arrive(r) \/ Statement(r) \/ Fail(r)

Spec == Init /\ [][Next]_vars

\* While a request can go on, or waits in a deadlock the server will notice,
\* something happens: the event loop and the server are busy with one of them.
\* (Enough for each, as there are finitely many and none goes round in circles.)
\* Nobody has to make requests, nothing has to fail.
FairSpec == Spec /\ WF_vars(\E r \in Requests : Statement(r))

-----------------------------------------------------------------------------
(* Properties *)

TypeOK ==
    /\ pc \in [Requests -> {"idle", "check", "find", "insert", "update", "delete",
                            "drop", "cascade", "commit", "done"}]
    /\ call \in [Requests -> Call \cup {None}]
    /\ answer \in [Requests -> {"none", "ok", "refused", "error"}]
    /\ marked \in [Requests -> SUBSET Requests]
    /\ base \in [Requests -> Pairs \cup {None}]
    /\ wrote \in [Requests -> SUBSET Requests]
    /\ users \subseteq Requests /\ folios \subseteq Requests /\ positions \subseteq Requests
    /\ held \in [Requests -> Pairs \cup {None}]
    /\ faults \in 0..MaxFaults
    /\ committed \subseteq Requests
    /\ prior \in [Requests -> SUBSET Requests]

\* However adds and deletions interleave, no position is left without its
\* portfolio, where no request could reach it and the ingestor would go on
\* fetching its symbol.
PositionsHaveFolio == \A x \in positions : call[x].folio \in folios

\* Portfolios of one name, and positions of one symbol in a portfolio, come in
\* twos only from requests that overlapped: whoever adds after another has
\* ended, in success, failure or doubt, creates no duplicate.
Overlapped(x, y) == x \notin prior[y] /\ y \notin prior[x]
OnlyRacesDuplicate ==
    /\ \A x, y \in positions :
           x # y /\ call[x].folio = call[y].folio /\ call[x].name = call[y].name
               => Overlapped(x, y)
    /\ \A x, y \in folios :
           x # y /\ call[x].user = call[y].user /\ call[x].name = call[y].name
               => Overlapped(x, y)

\* An e-mail has one account, whatever races.
EmailsUnique == \A x, y \in users : call[x].name = call[y].name => x = y

\* An update during which no other update of the position was committed leaves
\* exactly the pair it was asked for, although it writes only the columns that
\* differ from what it loaded.  (Overlapping updates may leave a mixture.)
UndisturbedUpdate ==
    [][\A r \in Requests :
           /\ r \in committed' \ committed /\ call[r].op = "update"
           /\ call[r].position \in positions'
           /\ \A t \in committed \ prior[r] :
                  ~(call[t].op = "update" /\ call[t].position = call[r].position)
           => held'[call[r].position] = call[r].pair]_vars

\* No request is under way.
Quiet == \A r \in Requests : pc[r] \in {"idle", "done"}

\* What was acknowledged has happened once all requests have ended, unless a
\* database call failed: even when the acknowledgement preceded the commit and
\* the transaction then was the victim of a deadlock.
Happened(r) ==
    \/ r \in committed
    \/ call[r].op = "delete_portfolio" /\ call[r].folio \notin folios
AckedHappens ==
    Quiet => \A r \in Requests : answer[r] = "ok" => Happened(r) \/ faults > 0

\* Locks never stop everybody: while requests are under way one of them need
\* not wait, or two wait for each other, which the server notices.  No locks
\* outlive their request, and nobody waits in a larger circle.
SomebodyGoesOn ==
    ~Quiet => \E r \in Requests :
        /\ pc[r] \notin {"idle", "done"}
        /\ Free(r) \/ \E t \in Requests : Blocks(t, r) /\ Blocks(r, t)

\* Seen from outside, statements, locks and failures disappear: every request
\* does all it was asked for at once or nothing, and only to what its user owns.
Atomic == INSTANCE AtomicStore
ImplementsAtomicStore == Atomic!Spec

\* No request waits for ever for the lock of another: the requests under way
\* all end (there are finitely many).
RequestsEnd == []<>Quiet

\* position_repo.py, line 24 and position/service.py, line 26: at most one
\* position of a portfolio has a symbol.
OnePositionPerSymbol ==
    \A x, y \in positions :
        call[x].folio = call[y].folio /\ call[x].name = call[y].name => x = y

=============================================================================
