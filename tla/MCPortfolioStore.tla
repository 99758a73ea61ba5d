------------------------- MODULE MCPortfolioStore -------------------------
(* Instances of PortfolioStore for TLC: user 1 owns portfolio 2. *)
EXTENDS PortfolioStore

CONSTANTS mail, mail2, growth, value, aapl

Ask(op, user, folio, position, name, pair) ==
    [op |-> op, user |-> user, folio |-> folio, position |-> position,
     name |-> name, pair |-> pair]

mcNames == {mail, mail2, growth, value, aapl}
mcAmounts == {1, 2}
Both(q, c) == [quantity |-> q, average_cost |-> c]

mcHistory == << Ask("register", None, None, None, mail, None),
                Ask("create", 1, None, None, growth, None) >>

\* What the owner of the portfolio may ask for.
Owner == { Ask("add", 1, 2, None, aapl, Both(1, 1)),
           Ask("update", 1, 2, 3, None, Both(2, 1)),
           Ask("update", 1, 2, 3, None, Both(1, 2)),
           Ask("remove", 1, 2, 3, None, None),
           Ask("delete_portfolio", 1, 2, None, None, None) }

\* Another account, another portfolio, another's portfolio.
Others == { Ask("register", None, None, None, mail2, None),
            Ask("create", 1, None, None, value, None),
            Ask("delete_portfolio", 3, 2, None, None, None) }

mcCalls == Owner \cup Others
mcOwnerCalls == Owner

===========================================================================
