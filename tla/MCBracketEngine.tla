-------------------------- MODULE MCBracketEngine --------------------------
(* BracketEngine on small instances: one or two lots, two concurrent       *)
(* evaluations, two prices.                                              *)
EXTENDS BracketEngine, TLC

MCPrices == 1..2
MCOnePrice == {1}
EvalSymmetry == Permutations(Evals)
LotSymmetry == Permutations(Lots)

(* Of two lots' exits and an external one, two are placed.                 *)
TwoOrders == Len(book) <= 2
=============================================================================
