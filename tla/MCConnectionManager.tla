----------------------- MODULE MCConnectionManager -----------------------
(* Instances of ConnectionManager for TLC. *)
EXTENDS ConnectionManager

CONSTANTS w1, w2, w3, x, y
mcSockets == {w1, w2, w3}
mcOnePortfolio == {x}
mcPortfolios == {x, y}
mcOf == [w \in mcSockets |-> IF w = w3 THEN y ELSE x]
mcOfOne == [w \in mcSockets |-> x]
mcPayloads == {1}

=============================================================================
