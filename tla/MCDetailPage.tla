--------------------------- MODULE MCDetailPage ---------------------------
(* Instances of DetailPage for TLC. *)
EXTENDS DetailPage

CONSTANTS x, y
mcPortfolios == {x, y}
mcFilled == {x}

===========================================================================
