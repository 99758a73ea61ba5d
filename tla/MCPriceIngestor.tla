------------------------- MODULE MCPriceIngestor -------------------------
(* Instances of PriceIngestor for TLC. *)
EXTENDS PriceIngestor

CONSTANTS p1, p2, a, b
mcTwoSymbols == {a, b}
mcOneSymbol  == {a}
mcOne   == {p1}
mcTwo   == {p1, p2}
mcNobody == {}
mcPrices == {1, 2}
mcFallback == 9

=============================================================================
