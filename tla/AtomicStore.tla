----------------------------- MODULE AtomicStore -----------------------------
(***************************************************************************)
(* What the requests that write the database promise, without statements,  *)
(* locks and failures: each does all it was asked for at once, or nothing, *)
(* and changes only what belongs to the user who sent it.                  *)
(*                                                                         *)
(* It promises no more than READ COMMITTED and the checks of the handlers  *)
(* do: the same symbol may be added twice, and an update may set one of    *)
(* its columns only.                                                       *)
(*                                                                         *)
(* PortfolioStore implements it (PortfolioStore!ImplementsAtomicStore).    *)
(***************************************************************************)
CONSTANTS Requests, Calls, Columns, None

VARIABLES
    call,                       \* what was asked for
    committed,                  \* requests that have been carried out
    users, folios, positions,   \* the rows, named after the requests they come from
    held                        \* quantity and cost of the positions

tables == <<users, folios, positions, held>>
vars   == <<call, committed, tables>>

Init ==
    /\ committed = {r \in Requests : call[r] # None}
    /\ users = {r \in committed : call[r].op = "register"}
    /\ folios = {r \in committed : call[r].op = "create"}
    /\ positions = {} /\ held = [r \in Requests |-> None]

Ask(r) ==
    /\ call[r] = None
    /\ \E c \in Calls : call' = [call EXCEPT ![r] = c]
    /\ UNCHANGED <<committed, tables>>

\* The portfolio of the request is the sender's, the position is in it.
OwnFolio(r) == call[call[r].folio].user = call[r].user
OwnPosition(r) == OwnFolio(r) /\ call[call[r].position].folio = call[r].folio

Register(r) ==
    /\ call[r].op = "register"
    /\ \A u \in users : call[u].name # call[r].name
    /\ users' = users \cup {r}
    /\ UNCHANGED <<folios, positions, held>>

Create(r) ==
    /\ call[r].op = "create" /\ call[r].user \in users
    /\ folios' = folios \cup {r}
    /\ UNCHANGED <<users, positions, held>>

Add(r) ==
    /\ call[r].op = "add" /\ call[r].folio \in folios /\ OwnFolio(r)
    /\ positions' = positions \cup {r}
    /\ held' = [held EXCEPT ![r] = call[r].pair]
    /\ UNCHANGED <<users, folios>>

Update(r) ==
    /\ call[r].op = "update" /\ OwnPosition(r)
    /\ \/ UNCHANGED held
       \/ /\ call[r].position \in positions
          /\ \E changed \in SUBSET Columns :
                 held' = [held EXCEPT ![call[r].position] =
                             [c \in Columns |-> IF c \in changed THEN call[r].pair[c] ELSE @[c]]]
    /\ UNCHANGED <<users, folios, positions>>

Remove(r) ==
    /\ call[r].op = "remove" /\ OwnPosition(r)
    /\ positions' = positions \ {call[r].position}
    /\ UNCHANGED <<users, folios, held>>

\* With everything in it, whenever it was added.
DeletePortfolio(r) ==
    /\ call[r].op = "delete_portfolio" /\ OwnFolio(r)
    /\ folios' = folios \ {call[r].folio}
    /\ positions' = {x \in positions : call[x].folio # call[r].folio}
    /\ UNCHANGED <<users, held>>

CarryOut(r) ==
    /\ call[r] # None /\ r \notin committed
    /\ committed' = committed \cup {r}
    /\ Register(r) \/ Create(r) \/ Add(r) \/ Update(r) \/ Remove(r) \/ DeletePortfolio(r)
    /\ UNCHANGED call

Next == \E r \in Requests : Ask(r) \/ CarryOut(r)

Spec == Init /\ [][Next]_vars

=============================================================================
