------------------------- MODULE MCStrategyHistory -------------------------
(* Instances of StrategyHistory for TLC.                                   *)
EXTENDS StrategyHistory, TLC

CONSTANTS p1, k1

(* The derived id sorts among the random ones.                             *)
Derived == [p \in {p1}, k \in {k1} |-> 2]

Symmetry == Permutations(Contents)
=============================================================================
