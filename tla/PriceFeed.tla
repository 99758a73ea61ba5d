----------------------------- MODULE PriceFeed -----------------------------
(***************************************************************************)
(* What the ingestors promise to the rest of the system, without ticks,    *)
(* processes or lifetimes: prices appear in the cache, change and expire,  *)
(* and whoever puts one there owes an announcement of it.  An announcement *)
(* is only ever lost to a slip (a failed call, a process that died), of    *)
(* which there are boundedly many.                                         *)
(*                                                                         *)
(* PriceIngestor implements it (PriceIngestor!Feed); LiveUpdates builds on *)
(* it.                                                                     *)
(***************************************************************************)
EXTENDS Integers

CONSTANTS
    Symbols,
    Prices,
    None,        \* no price
    MaxSlips     \* bound on slips

VARIABLES
    cache,       \* the cached price of each symbol
    owed,        \* symbols that some ingestor is about to announce
    slips        \* bounded counter

feedVars == <<cache, owed, slips>>

Init ==
    /\ cache = [s \in Symbols |-> None]
    /\ owed = {}
    /\ slips = 0

Put(s, price) ==
    /\ cache' = [cache EXCEPT ![s] = price]
    /\ owed' = owed \cup {s}
    /\ UNCHANGED slips

\* Subscribers read the cache when they hear the announcement, so one
\* announcement settles every price put until then.
Announce(s) ==
    /\ owed' = owed \ {s}
    /\ UNCHANGED <<cache, slips>>

Expire(s) ==
    /\ cache' = [cache EXCEPT ![s] = None]
    /\ UNCHANGED <<owed, slips>>

\* Something fails: a price is put without its announcement, an owed
\* announcement is dropped or made although the caller saw it fail, or
\* nothing comes of it.
Slip ==
    /\ slips < MaxSlips /\ slips' = slips + 1
    /\ \/ \E s \in Symbols, price \in Prices :
              /\ cache' = [cache EXCEPT ![s] = price]
              /\ owed' \in {owed, owed \cup {s}}
       \/ \E s \in Symbols : owed' = owed \ {s} /\ UNCHANGED cache
       \/ UNCHANGED <<cache, owed>>

Next ==
    \/ \E s \in Symbols, price \in Prices : Put(s, price)
    \/ \E s \in Symbols : Announce(s) \/ Expire(s)
    \/ Slip

Spec == Init /\ [][Next]_feedVars

=============================================================================
