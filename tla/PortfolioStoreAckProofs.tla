----------------------- MODULE PortfolioStoreAckProofs -----------------------
(***************************************************************************)
(* The proof that what PortfolioStore acknowledges has happened when all   *)
(* requests have ended, although the answer may precede the commit.        *)
(*                                                                         *)
(* Between its answer and its commit a request can only be lost to a       *)
(* failure or as the victim of a deadlock.  A deadlock then is one between *)
(* two deletions of the same portfolio: one has locked a position that the *)
(* other did not know of, and waits for the portfolio the other has        *)
(* locked.  So what the victim has promised the survivor will do -- or     *)
(* the survivor of the deadlock it dies in.  DebtOK says so.               *)
(***************************************************************************)
EXTENDS PortfolioStoreProofs

\* Nothing is answered before a request has done what it can fail at.
EarlyOK(r) ==
    pc[r] \in {"idle", "check", "find", "insert", "update"} => answer[r] = "none"

\* A deletion of a portfolio keeps to the portfolio and its positions.
DeletionOK(r) ==
    Active(r) /\ pc[r] # "check" /\ call[r].op = "delete_portfolio" =>
        /\ call[r].folio \in Requests /\ pc[call[r].folio] = "done"
        /\ call[call[r].folio].op = "create"
        /\ \A x \in marked[r] : pc[x] = "done" /\ call[x].folio = call[r].folio
        /\ \A x \in wrote[r] : x = call[r].folio \/ call[x].folio = call[r].folio
        /\ pc[r] = "cascade" => call[r].folio \in wrote[r]

\* t is going to delete portfolio f, unless it is gone already.
Deleting(t, f) ==
    /\ Active(t) /\ call[t].op = "delete_portfolio" /\ call[t].folio = f
    /\ pc[t] \in {"drop", "cascade"} \/ (pc[t] = "commit" /\ f \in wrote[t])

\* What r has promised has happened, or somebody is about to do it.
DebtOK(r) ==
    pc[r] = "done" /\ answer[r] = "ok" /\ faults = 0 =>
        \/ r \in committed
        \/ /\ call[r].op = "delete_portfolio"
           /\ call[r].folio \in Requests /\ pc[call[r].folio] = "done"
           /\ call[r].folio \in folios => \E t \in Requests : Deleting(t, call[r].folio)

AckOK(r) == EarlyOK(r) /\ DeletionOK(r) /\ DebtOK(r)
AckInv == Inv /\ \A r \in Requests : AckOK(r)

LEMMA InitAck == Init => AckInv
<1> SUFFICES ASSUME Init PROVE AckInv
  OBVIOUS
<1>1. ASSUME NEW r \in Requests PROVE AckOK(r)
  <2>1. \/ pc[r] = "idle" /\ answer[r] = "none"
        \/ pc[r] = "done" /\ r \in committed
    BY DEF Init
  <2> QED BY <2>1 DEF AckOK, EarlyOK, DeletionOK, DebtOK, Active
<1> QED BY <1>1, InitInv DEF AckInv

-----------------------------------------------------------------------------
(* One request moves *)

\* The rows a request has marked or locked have been there since before.
LEMMA LockedRows ==
    ASSUME Inv, NEW r \in Requests, NEW x \in wrote[r]
    PROVE  x \in Requests /\ pc[x] = "done"
<1>1. wrote[r] \subseteq positions \cup folios
  BY ActiveOK DEF Inv, RequestOK, LocksOK
<1> QED BY <1>1 DEF Inv, RowsOK, TypeOK

\* What the others have promised is not lost by a step of r, if r hands over
\* what it was about to do.
LEMMA OneMoves ==
    ASSUME AckInv, NEW r \in Requests, pc[r] # "done",
           \A t \in Requests \ {r} :
               /\ pc'[t] = pc[t] /\ call'[t] = call[t] /\ answer'[t] = answer[t]
               /\ marked'[t] = marked[t] /\ wrote'[t] = wrote[t],
           committed \subseteq committed', faults' = 0 => faults = 0,
           \A f \in folios' : f \in folios \/ pc[f] # "done",
           \A f \in folios' : faults' = 0 /\ Deleting(r, f) => \E u \in Requests : Deleting(u, f)',
           AckOK(r)'
    PROVE  \A t \in Requests : AckOK(t)'
<1> SUFFICES ASSUME NEW t \in Requests \ {r} PROVE AckOK(t)'
  OBVIOUS
<1>1. AckOK(t) /\ Inv
  BY DEF AckInv
<1>2. \A x \in Requests : pc[x] = "done" => pc'[x] = "done" /\ call'[x] = call[x]
  OBVIOUS
<1>3. EarlyOK(t)'
  BY <1>1 DEF AckOK, EarlyOK
<1>4. DeletionOK(t)'
  <2>1. \A x \in wrote[t] : call'[x] = call[x]
    BY <1>1, <1>2, LockedRows
  <2>2. \A x \in marked[t] : x \in Requests
    BY <1>1 DEF Inv, TypeOK
  <2> QED BY <1>1, <1>2, <2>1, <2>2 DEF AckOK, DeletionOK, Active
<1>5. DebtOK(t)'
  <2> SUFFICES ASSUME pc[t] = "done", answer[t] = "ok", faults' = 0, t \notin committed
               PROVE  DebtOK(t)'
    BY DEF DebtOK
  <2> DEFINE f == call[t].folio
  <2>1. /\ call[t].op = "delete_portfolio" /\ f \in Requests /\ pc[f] = "done"
        /\ f \in folios => \E u \in Requests : Deleting(u, f)
    BY <1>1 DEF AckOK, DebtOK
  <2>2. ASSUME f \in folios' PROVE \E u \in Requests : Deleting(u, f)'
    <3>1. PICK u \in Requests : Deleting(u, f)
      BY <2>1, <2>2
    <3>2. CASE u = r
      BY <2>2, <3>1, <3>2
    <3>3. CASE u # r
      BY <3>1, <3>3 DEF Deleting, Active
    <3> QED BY <3>2, <3>3
  <2> QED BY <1>2, <2>1, <2>2 DEF DebtOK
<1> QED BY <1>3, <1>4, <1>5 DEF AckOK

\* What of a session and an answer End leaves.
LEMMA EndEffect ==
    ASSUME Inv, NEW r \in Requests, NEW a \in {"ok", "refused", "error"}, End(r, a)
    PROVE  /\ pc'[r] = "done" /\ answer'[r] \in {answer[r], a}
           /\ answer[r] = "none" => answer'[r] = a
           /\ \A t \in Requests \ {r} :
               /\ pc'[t] = pc[t] /\ answer'[t] = answer[t]
               /\ marked'[t] = marked[t] /\ wrote'[t] = wrote[t]
  BY DEF End, Goto, Inv, TypeOK

\* A request that gives up before its answer owes nothing.
LEMMA GiveUpKeepsAck ==
    ASSUME AckInv, NEW r \in Requests, pc[r] \in {"check", "find", "insert", "update"},
           Refuse(r) \/ Raise(r)
    PROVE  \A t \in Requests : AckOK(t)'
<1>1. PICK a \in {"refused", "error"} : End(r, a)
  BY DEF Refuse, Raise
<1>2. UNCHANGED <<call, tables, faults, history>>
  BY DEF Refuse, Raise
<1>3. answer'[r] # "ok" /\ pc'[r] = "done"
  BY <1>1, EndEffect DEF AckInv, AckOK, EarlyOK
<1>4. AckOK(r)'
  BY <1>3 DEF AckOK, EarlyOK, DeletionOK, DebtOK, Active
<1>5. ~\E f : Deleting(r, f)
  BY DEF Deleting
<1> QED BY <1>1, <1>2, <1>4, <1>5, EndEffect, OneMoves DEF AckInv, tables, history

\* A request that goes on without committing, and that was not about to
\* delete its portfolio or still is.
LEMMA GoOnKeepsAck ==
    ASSUME AckInv, NEW r \in Requests, Moved(r), UNCHANGED faults,
           pc'[r] \notin {"idle", "done"}, EarlyOK(r)', DeletionOK(r)',
           \A t \in Requests \ {r} : answer'[t] = answer[t] /\ marked'[t] = marked[t],
           \A f \in folios : Deleting(r, f) => Deleting(r, f)'
    PROVE  \A t \in Requests : AckOK(t)'
<1>1. AckOK(r)'
  BY DEF AckOK, DebtOK
<1> QED BY <1>1, OneMoves DEF Moved, Active

-----------------------------------------------------------------------------
(* One lemma per group of statements *)

LEMMA ArriveKeepsAck ==
    ASSUME AckInv, NEW r \in Requests, Arrive(r) PROVE \A t \in Requests : AckOK(t)'
<1>1. /\ pc[r] = "idle" /\ pc' = [pc EXCEPT ![r] = "check"]
      /\ \A t \in Requests \ {r} : call'[t] = call[t]
      /\ UNCHANGED <<answer, marked, wrote, folios, faults, committed>>
  BY DEF Arrive, session, tables, AckInv, Inv, TypeOK
<1>2. pc'[r] = "check" /\ \A t \in Requests \ {r} : pc'[t] = pc[t]
  BY <1>1 DEF AckInv, Inv, TypeOK
<1>3. AckOK(r)'
  BY <1>1, <1>2 DEF AckInv, AckOK, EarlyOK, DeletionOK, DebtOK
<1>4. ~\E f : Deleting(r, f)
  BY <1>1 DEF Deleting
<1> QED BY <1>1, <1>2, <1>3, <1>4, OneMoves

\* The statements of requests that delete no portfolio.
LEMMA StatementKeepsAck ==
    ASSUME AckInv, NEW r \in Requests,
           pc[r] \in {"check", "find", "insert", "update"}, pc'[r] \notin {"idle", "done"},
           pc'[r] \in {"find", "insert", "update"} => answer'[r] = answer[r],
           call[r].op # "delete_portfolio", Moved(r), UNCHANGED faults,
           \A t \in Requests \ {r} : answer'[t] = answer[t] /\ marked'[t] = marked[t],
           pc'[r] # "check"
    PROVE  \A t \in Requests : AckOK(t)'
<1>1. EarlyOK(r)' /\ DeletionOK(r)'
  BY DEF EarlyOK, DeletionOK, Moved, AckInv, AckOK
<1>2. ~\E f : Deleting(r, f)
  BY DEF Deleting
<1> QED BY <1>1, <1>2, GoOnKeepsAck

LEMMA ChecksKeepAck ==
    ASSUME AckInv, NEW r \in Requests,
           CheckEmail(r) \/ CheckName(r) \/ FindPortfolio(r) \/ FindSymbol(r) \/ FindPosition(r)
    PROVE  \A t \in Requests : AckOK(t)'
<1>1. pc[r] \in {"check", "find"} /\ call[r].op # "delete_portfolio"
  BY DEF CheckEmail, CheckName, FindPortfolio, FindSymbol, FindPosition, At
<1>2. CASE Refuse(r) \/ Raise(r)
  BY <1>1, <1>2, GiveUpKeepsAck
<1>3. CASE ~(Refuse(r) \/ Raise(r))
  <2>1. /\ \E s \in {"find", "insert", "update", "delete"} :
              pc' = [pc EXCEPT ![r] = s] /\ (s # "delete" => answer' = answer)
        /\ answer' \in {answer, [answer EXCEPT ![r] = "ok"]}
        /\ marked' = marked \/ \E m : marked' = [marked EXCEPT ![r] = m]
        /\ base' = base \/ \E b : base' = [base EXCEPT ![r] = b]
        /\ UNCHANGED <<call, wrote, tables, faults, history>>
    BY <1>3 DEF CheckEmail, CheckName, FindPortfolio, FindSymbol, FindPosition, Goto, Return, session
  <2>2. Moved(r)
    BY <1>1, <2>1 DEF Moved, Active, tables, history, AckInv, Inv, TypeOK
  <2>3. \A t \in Requests \ {r} : answer'[t] = answer[t] /\ marked'[t] = marked[t]
    BY <2>1 DEF AckInv, Inv, TypeOK
  <2>4. /\ pc'[r] \notin {"idle", "done", "check"}
        /\ pc'[r] \in {"find", "insert", "update"} => answer'[r] = answer[r]
    BY <2>1 DEF AckInv, Inv, TypeOK
  <2> QED BY <1>1, <2>1, <2>2, <2>3, <2>4, StatementKeepsAck
<1> QED BY <1>2, <1>3

LEMMA WritesKeepAck ==
    ASSUME AckInv, NEW r \in Requests,
           InsertUser(r) \/ InsertPortfolio(r) \/ InsertPosition(r) \/ UpdatePosition(r)
    PROVE  \A t \in Requests : AckOK(t)'
<1>1. pc[r] \in {"insert", "update"} /\ call[r].op # "delete_portfolio"
  BY ActiveOK DEF InsertUser, InsertPortfolio, InsertPosition, UpdatePosition, At, AckInv, StageOK,
                  Active
<1>2. CASE Raise(r)
  BY <1>1, <1>2, GiveUpKeepsAck
<1>3. CASE ~Raise(r)
  <2>1. /\ Return(r, "commit")
        /\ wrote' = wrote \/ \E w : wrote' = [wrote EXCEPT ![r] = w]
        /\ UNCHANGED <<call, marked, base, tables, faults, history>>
    BY <1>3 DEF InsertUser, InsertPortfolio, InsertPosition, UpdatePosition, session
  <2>2. Moved(r) /\ pc'[r] = "commit"
    BY <1>1, <2>1 DEF Moved, Active, tables, history, AckInv, Inv, TypeOK, Return, Goto
  <2>3. \A t \in Requests \ {r} : answer'[t] = answer[t] /\ marked'[t] = marked[t]
    BY <2>1 DEF AckInv, Inv, TypeOK, Return
  <2> QED BY <1>1, <2>1, <2>2, <2>3, StatementKeepsAck
<1> QED BY <1>2, <1>3

LEMMA MarkPortfolioKeepsAck ==
    ASSUME AckInv, NEW r \in Requests, MarkPortfolio(r) PROVE \A t \in Requests : AckOK(t)'
<1>1. pc[r] = "check" /\ call[r].op = "delete_portfolio"
  BY DEF MarkPortfolio, At
<1>2. CASE Refuse(r)
  BY <1>1, <1>2, GiveUpKeepsAck
<1>3. CASE ~Refuse(r)
  <2> DEFINE f == call[r].folio
  <2>1. /\ f \in folios /\ Return(r, "delete")
        /\ marked' = [marked EXCEPT ![r] = Contents(f)]
        /\ UNCHANGED <<call, base, wrote, tables, faults, history>>
    BY <1>3 DEF MarkPortfolio
  <2>2. pc'[r] = "delete" /\ marked'[r] = Contents(f) /\ Moved(r)
    BY <1>1, <2>1 DEF Moved, Active, tables, history, AckInv, Inv, TypeOK, Return, Goto
  <2>3. \A t \in Requests \ {r} : answer'[t] = answer[t] /\ marked'[t] = marked[t]
    BY <2>1 DEF AckInv, Inv, TypeOK, Return
  <2>4. wrote'[r] = {}
    BY <1>1, <2>1, ActiveOK DEF AckInv, Active, LocksOK
  <2>5. \A x \in Requests : pc[x] = "done" => pc'[x] = "done"
    BY <1>1, <2>2 DEF Moved
  <2>6. DeletionOK(r)'
    BY <2>1, <2>2, <2>4, <2>5 DEF DeletionOK, Contents, AckInv, Inv, RowsOK, TypeOK
  <2>7. EarlyOK(r)' /\ ~\E g : Deleting(r, g)
    BY <1>1, <2>2 DEF EarlyOK, Deleting
  <2> QED BY <2>1, <2>2, <2>3, <2>6, <2>7, GoOnKeepsAck
<1> QED BY <1>2, <1>3

\* What is locked and deleted, step by step.
LEMMA DeletionsKeepAck ==
    ASSUME AckInv, NEW r \in Requests,
           DeletePositions(r) \/ DeletePortfolio(r) \/ CascadePositions(r)
    PROVE  \A t \in Requests : AckOK(t)'
<1> DEFINE f == call[r].folio
<1>1. pc[r] \in {"delete", "drop", "cascade"} /\ Active(r)
  BY DEF DeletePositions, DeletePortfolio, CascadePositions, Active
<1>2. UNCHANGED <<call, answer, marked, base, tables, faults, history>>
  BY DEF DeletePositions, DeletePortfolio, CascadePositions
<1>3. \E s \in {"drop", "cascade", "commit"} : pc' = [pc EXCEPT ![r] = s]
  BY DEF DeletePositions, DeletePortfolio, CascadePositions, Goto
<1>4. wrote' = wrote \/ \E w : wrote' = [wrote EXCEPT ![r] = w]
  BY DEF DeletePositions, DeletePortfolio, CascadePositions
<1>5. Moved(r) /\ pc'[r] \in {"drop", "cascade", "commit"}
  BY <1>1, <1>2, <1>3, <1>4 DEF Moved, tables, history, AckInv, Inv, TypeOK
<1>6. DeletionOK(r)'
  <2> SUFFICES ASSUME call[r].op = "delete_portfolio" PROVE DeletionOK(r)'
    BY <1>5 DEF DeletionOK, Moved
  <2>1. /\ f \in Requests /\ pc[f] = "done" /\ call[f].op = "create"
        /\ \A x \in marked[r] : pc[x] = "done" /\ call[x].folio = f
        /\ \A x \in wrote[r] : x = f \/ call[x].folio = f
        /\ pc[r] = "cascade" => f \in wrote[r]
    BY <1>1 DEF AckInv, AckOK, DeletionOK
  <2>2. /\ \A x \in wrote'[r] : x \in wrote[r] \/ x \in marked[r] \/ x = f \/ x \in Contents(f)
        /\ pc'[r] = "cascade" => f \in wrote'[r]
    BY DEF DeletePositions, DeletePortfolio, CascadePositions, Goto, AckInv, Inv, TypeOK
  <2>3. \A x \in Requests : pc[x] = "done" => pc'[x] = "done"
    BY <1>1, <1>5 DEF Moved
  <2>4. marked[r] \subseteq Requests
    BY DEF AckInv, Inv, TypeOK
  <2> QED BY <1>2, <2>1, <2>2, <2>3, <2>4 DEF DeletionOK, Contents
<1>7. ASSUME NEW g \in folios, Deleting(r, g) PROVE Deleting(r, g)'
  <2>1. g = f /\ pc[r] \in {"drop", "cascade"}
    BY <1>1, <1>7 DEF Deleting
  <2>2. f \in wrote'[r] /\ pc'[r] \in {"cascade", "commit"}
    BY <2>1, <1>7 DEF DeletePositions, DeletePortfolio, CascadePositions, Goto,
                     AckInv, AckOK, DeletionOK, Active, Deleting, Inv, TypeOK
  <2> QED BY <1>2, <1>7, <2>1, <2>2 DEF Deleting, Active
<1>8. EarlyOK(r)' /\ \A t \in Requests \ {r} : answer'[t] = answer[t] /\ marked'[t] = marked[t]
  BY <1>2, <1>5 DEF EarlyOK
<1> QED BY <1>2, <1>5, <1>6, <1>7, <1>8, GoOnKeepsAck

LEMMA CommitKeepsAck ==
    ASSUME AckInv, NEW r \in Requests, Commit(r) PROVE \A t \in Requests : AckOK(t)'
<1>1. pc[r] = "commit" /\ End(r, "ok") /\ UNCHANGED <<call, faults>>
      /\ committed' = committed \cup {r} /\ folios' = (folios \cup New(r, "create")) \ Deleted(r)
  BY DEF Commit, Apply
<1>2. AckOK(r)'
  BY <1>1, EndEffect DEF AckInv, AckOK, EarlyOK, DeletionOK, DebtOK, Active
<1>3. \A f \in folios' : f \in folios \/ pc[f] # "done"
  BY <1>1 DEF New
<1>4. \A f \in folios' : ~Deleting(r, f)
  BY <1>1 DEF Deleted, Deleting
<1> QED BY <1>1, <1>2, <1>3, <1>4, EndEffect, OneMoves DEF AckInv

LEMMA FailKeepsAck ==
    ASSUME AckInv, NEW r \in Requests, Fail(r) PROVE \A t \in Requests : AckOK(t)'
<1>1. pc[r] \notin {"idle", "done"} /\ End(r, "error") /\ UNCHANGED call
  BY DEF Fail
<1>2. faults' = faults + 1 /\ faults' # 0
  BY DEF Fail, AckInv, Inv, TypeOK
<1>3. /\ committed \subseteq committed'
      /\ \A f \in folios' : f \in folios \/ pc[f] # "done"
  BY DEF Fail, Apply, New, tables
<1>4. AckOK(r)'
  <2>1. pc'[r] = "done"
    BY <1>1, EndEffect DEF AckInv
  <2> QED BY <1>2, <2>1 DEF AckOK, EarlyOK, DeletionOK, DebtOK, Active
<1> QED BY <1>1, <1>2, <1>3, <1>4, EndEffect, OneMoves DEF AckInv

-----------------------------------------------------------------------------
(* Deadlocks *)

\* Of two requests that wait for each other, each has locked something, so
\* both are on their way to delete a portfolio.
LEMMA DeadlockedDelete ==
    ASSUME Inv, NEW r \in Requests, NEW t \in Requests, Blocks(t, r), Blocks(r, t)
    PROVE  pc[r] \in {"drop", "cascade"} /\ call[r].op = "delete_portfolio"
<1>1. pc[r] \in {"insert", "update", "delete", "drop", "cascade"}
  BY DEF Blocks, At
<1>2. wrote[r] # {}
  BY <1>1 DEF Blocks, At, Inserted
<1> QED BY <1>1, <1>2, ActiveOK DEF Active, LocksOK, StageOK

\* And both delete the same portfolio.
LEMMA DeadlockedSame ==
    ASSUME AckInv, NEW r \in Requests, NEW t \in Requests, Blocks(t, r), Blocks(r, t)
    PROVE  Deleting(t, call[r].folio)
<1> DEFINE f == call[r].folio
           g == call[t].folio
<1>1. /\ pc[r] \in {"drop", "cascade"} /\ call[r].op = "delete_portfolio"
      /\ pc[t] \in {"drop", "cascade"} /\ call[t].op = "delete_portfolio"
  BY DeadlockedDelete DEF AckInv
<1>2. /\ call[f].op = "create" /\ call[g].op = "create"
      /\ \A x \in wrote[t] : x = g \/ call[x].folio = g
  BY <1>1 DEF AckInv, AckOK, DeletionOK, Active
<1>3. /\ wrote[t] \subseteq positions \cup folios
      /\ \A x \in folios \cap wrote[t] : x = g
  BY <1>1, ActiveOK DEF AckInv, Active, LocksOK
<1>4. \A x \in positions : call[x].op = "add"
  BY DEF AckInv, Inv, RowsOK
<1>5. CASE pc[r] = "drop"
  <2>1. f \in wrote[t]
    BY <1>1, <1>5 DEF Blocks, At, Inserted
  <2> QED BY <1>1, <1>2, <1>3, <1>4, <2>1 DEF Deleting, Active
<1>6. CASE pc[r] = "cascade"
  <2>1. PICK x \in Contents(f) : x \in wrote[t]
    BY <1>6 DEF Blocks, At
  <2>2. x \in positions /\ call[x].folio = f
    BY <2>1 DEF Contents
  <2>3. f = g
    BY <1>2, <1>4, <2>1, <2>2
  <2> QED BY <1>1, <2>3 DEF Deleting, Active
<1> QED BY <1>1, <1>5, <1>6

\* The survivor takes over what the victim has promised, or was to do for
\* others.
LEMMA DeadlockKeepsAck ==
    ASSUME AckInv, NEW r \in Requests, Deadlock(r) PROVE \A t \in Requests : AckOK(t)'
<1> DEFINE f == call[r].folio
<1>1. PICK t \in Requests : Blocks(t, r) /\ Blocks(r, t) /\ t # r
  BY DEF Deadlock, Blocks
<1>2. /\ pc[r] \in {"drop", "cascade"} /\ call[r].op = "delete_portfolio"
      /\ Deleting(t, f)
  BY <1>1, DeadlockedDelete, DeadlockedSame DEF AckInv
<1>3. End(r, "error") /\ UNCHANGED <<call, folios, faults, committed>>
  BY DEF Deadlock, Raise, tables, history
<1>4. /\ pc'[r] = "done"
      /\ \A u \in Requests \ {r} :
             /\ pc'[u] = pc[u] /\ answer'[u] = answer[u]
             /\ marked'[u] = marked[u] /\ wrote'[u] = wrote[u]
  BY <1>3, EndEffect DEF AckInv
<1>5. Deleting(t, f)'
  BY <1>1, <1>2, <1>3, <1>4 DEF Deleting, Active
<1>6. f \in Requests /\ pc[f] = "done"
  BY <1>2 DEF AckInv, AckOK, DeletionOK, Active
<1>7. AckOK(r)'
  <2>1. DebtOK(r)'
    BY <1>2, <1>3, <1>4, <1>5, <1>6 DEF DebtOK
  <2> QED BY <1>4, <2>1 DEF AckOK, EarlyOK, DeletionOK, Active
<1>8. \A g : Deleting(r, g) => Deleting(t, g)'
  BY <1>3, <1>5 DEF Deleting
<1> QED BY <1>2, <1>3, <1>4, <1>7, <1>8, OneMoves

-----------------------------------------------------------------------------
(* Waiting *)

\* Who makes others wait is under way.
LEMMA BlockersAct ==
    ASSUME Inv, NEW r \in Requests, NEW t \in Requests, Blocks(t, r)
    PROVE  Active(t) /\ (~Free(t) => wrote[t] # {})
<1>1. Inserted(t) \/ wrote[t] # {}
  BY DEF Blocks
<1>2. Inserted(t) => Free(t)
  BY DEF Inserted, At, Free, Blocks
<1>3. ~Active(t) => wrote[t] = {}
  BY DEF Inv, RequestOK
<1>4. Inserted(t) => Active(t)
  BY DEF Inserted, At, Active
<1> QED BY <1>1, <1>2, <1>3, <1>4

\* A blocker that has to wait itself is deleting a portfolio: before it has
\* locked the portfolio it waits for who has, and then for who has locked one
\* of its positions.
LEMMA WaitingBlocker ==
    ASSUME AckInv, NEW t \in Requests, ~Free(t), wrote[t] # {}
    PROVE  /\ Active(t) /\ call[t].op = "delete_portfolio" /\ call[call[t].folio].op = "create"
           /\ \/ pc[t] = "drop"
              \/ pc[t] = "cascade" /\ call[t].folio \in wrote[t]
<1>1. Active(t)
  BY DEF AckInv, Inv, RequestOK
<1>2. pc[t] # "commit"
  BY DEF Free, Blocks, At
<1>3. pc[t] \in {"drop", "cascade"} /\ call[t].op = "delete_portfolio"
  BY <1>1, <1>2, ActiveOK DEF AckInv, LocksOK, StageOK
<1> QED BY <1>1, <1>3 DEF AckInv, AckOK, DeletionOK

\* Two waiting blockers of which one blocks the other delete the same
\* portfolio, and only one of them has locked it.
LEMMA WaitingBlockers ==
    ASSUME AckInv, NEW t \in Requests, NEW u \in Requests, Blocks(u, t),
           ~Free(t), wrote[t] # {}, ~Free(u)
    PROVE  \/ pc[t] = "drop" /\ pc[u] = "cascade" /\ call[u].folio = call[t].folio
           \/ pc[t] = "cascade" /\ pc[u] = "drop" /\ Blocks(t, u)
<1> DEFINE f == call[t].folio
           g == call[u].folio
<1>1. wrote[u] # {} /\ u # t
  BY BlockersAct DEF AckInv, Blocks
<1>2. /\ Active(u) /\ pc[u] \in {"drop", "cascade"} /\ call[u].op = "delete_portfolio"
      /\ call[f].op = "create" /\ call[g].op = "create"
      /\ pc[t] \in {"drop", "cascade"}
      /\ pc[t] = "cascade" => f \in wrote[t]
      /\ pc[u] = "cascade" => g \in wrote[u]
  BY <1>1, WaitingBlocker
<1>3. /\ wrote[u] \subseteq positions \cup folios
      /\ \A x \in folios \cap wrote[u] : x = g /\ pc[u] = "cascade"
      /\ \A x \in wrote[u] : x = g \/ call[x].folio = g
  BY <1>2, ActiveOK DEF AckInv, Active, LocksOK, AckOK, DeletionOK
<1>4. \A x \in positions : call[x].op = "add"
  BY DEF AckInv, Inv, RowsOK
<1>5. wrote[t] \cap wrote[u] = {}
  BY <1>1 DEF AckInv, Inv, Compatible
<1>6. CASE pc[t] = "drop"
  <2>1. f \in wrote[u]
    BY <1>2, <1>6 DEF Blocks, At, Inserted
  <2> QED BY <1>2, <1>3, <1>4, <1>6, <2>1
<1>7. CASE pc[t] = "cascade"
  <2>1. PICK x \in Contents(f) : x \in wrote[u]
    BY <1>7 DEF Blocks, At
  <2>2. f = g
    BY <1>2, <1>3, <1>4, <2>1 DEF Contents
  <2>3. pc[u] = "drop"
    BY <1>2, <1>5, <1>7, <2>2
  <2> QED BY <1>1, <1>2, <1>7, <2>2, <2>3 DEF Blocks
<1> QED BY <1>2, <1>6, <1>7

-----------------------------------------------------------------------------
(* The theorems *)

LEMMA NextAck == AckInv /\ [Next]_vars => AckInv'
<1> SUFFICES ASSUME AckInv, [Next]_vars PROVE \A t \in Requests : AckOK(t)'
  BY NextInv DEF AckInv
<1>1. CASE UNCHANGED vars
  BY <1>1 DEF vars, session, tables, history, AckInv, AckOK, EarlyOK, DeletionOK, DebtOK, Deleting,
              Active
<1>2. ASSUME NEW r \in Requests, Arrive(r) \/ Statement(r) \/ Fail(r)
      PROVE  \A t \in Requests : AckOK(t)'
  BY <1>2, ArriveKeepsAck, ChecksKeepAck, WritesKeepAck, MarkPortfolioKeepsAck, DeletionsKeepAck,
     CommitKeepsAck, FailKeepsAck, DeadlockKeepsAck DEF Statement
<1> QED BY <1>1, <1>2 DEF Next

\* What was acknowledged has happened once all requests have ended, unless a
\* database call failed: even when the answer preceded the commit (get_db of
\* app/dependencies.py) and the transaction was the victim of a deadlock.
THEOREM AcknowledgedHappens == Spec => []AckedHappens
<1>1. AckInv => AckedHappens
  <2> SUFFICES ASSUME AckInv, Quiet, NEW r \in Requests, answer[r] = "ok", faults = 0
               PROVE  Happened(r)
    BY DEF AckedHappens, AckInv, Inv, TypeOK
  <2>1. pc[r] = "done"
    BY DEF Quiet, AckInv, AckOK, EarlyOK
  <2>2. ~\E t \in Requests : Deleting(t, call[r].folio)
    BY DEF Quiet, Deleting, Active
  <2> QED BY <2>1, <2>2 DEF AckInv, AckOK, DebtOK, Happened
<1> QED BY <1>1, InitAck, NextAck, PTL DEF Spec

\* No number of requests can wait in a circle unless two of them wait for each
\* other, which is what the model's Deadlock (the server's) resolves: locks are
\* released with their request, and whoever waits while holding some deletes a
\* portfolio, so after two steps the chain of waiting ends or turns back.
THEOREM LocksResolve == Spec => []SomebodyGoesOn
<1>1. AckInv => SomebodyGoesOn
  <2> SUFFICES ASSUME AckInv, ~Quiet, \A r \in Requests : Active(r) => ~Free(r)
               PROVE  \E r, t \in Requests : Active(r) /\ Blocks(t, r) /\ Blocks(r, t)
    BY DEF SomebodyGoesOn, Active
  <2>1. PICK r \in Requests : Active(r)
    BY DEF Quiet, Active
  <2>2. PICK t \in Requests : Blocks(t, r)
    BY <2>1 DEF Free
  <2>3. Active(t) /\ ~Free(t) /\ wrote[t] # {}
    BY <2>2, BlockersAct DEF AckInv
  <2>4. PICK u \in Requests : Blocks(u, t)
    BY <2>3 DEF Free
  <2>5. Active(u) /\ ~Free(u) /\ wrote[u] # {}
    BY <2>4, BlockersAct DEF AckInv
  <2>6. CASE Blocks(t, u)
    BY <2>3, <2>4, <2>6
  <2>7. CASE ~Blocks(t, u)
    <3>1. pc[u] = "cascade"
      BY <2>3, <2>4, <2>5, <2>7, WaitingBlockers
    <3>2. PICK v \in Requests : Blocks(v, u)
      BY <2>5 DEF Free
    <3>3. ~Free(v)
      BY <3>2, BlockersAct DEF AckInv
    <3> QED BY <2>5, <3>1, <3>2, <3>3, WaitingBlockers
  <2> QED BY <2>6, <2>7
<1> QED BY <1>1, InitAck, NextAck, PTL DEF Spec

\* The only transactions that can wait for each other are deletions of one
\* portfolio (delete_portfolio of portfolio/service.py): adds, updates and
\* removals of positions, registrations and new portfolios never fail for it.
THEOREM OnlyDeletionsDeadlock ==
    Spec => [](\A r, t \in Requests : Blocks(t, r) /\ Blocks(r, t) =>
                   /\ call[r].op = "delete_portfolio" /\ call[t].op = "delete_portfolio"
                   /\ call[r].folio = call[t].folio)
<1>1. AckInv => \A r, t \in Requests : Blocks(t, r) /\ Blocks(r, t) =>
                    /\ call[r].op = "delete_portfolio" /\ call[t].op = "delete_portfolio"
                    /\ call[r].folio = call[t].folio
  BY DeadlockedDelete, DeadlockedSame DEF AckInv, Deleting
<1> QED BY <1>1, InitAck, NextAck, PTL DEF Spec

=============================================================================
