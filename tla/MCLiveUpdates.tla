-------------------------- MODULE MCLiveUpdates --------------------------
(* Instances of LiveUpdates for TLC. *)
EXTENDS LiveUpdates

CONSTANTS a, b, w1, w2, x, y
mcSymbols == {a}
mcTwoSymbols == {a, b}
mcPrices == {1, 2}
mcSockets == {w1, w2}
mcOneSocket == {w1}
mcPortfolios == {x, y}
mcOnePortfolio == {x}
mcOf == [w \in {w1, w2} |-> IF w = w1 THEN x ELSE y]
mcOfOne == [w \in {w1, w2} |-> x]
mcOfAlone == [w \in {w1} |-> x]

=============================================================================
