------------------------- MODULE MCPositionOwnership -------------------------
(* Instances of PositionOwnership for TLC: one or two followers, two       *)
(* symbols, model values throughout.                                       *)
EXTENDS PositionOwnership, TLC

Symmetry == Permutations(Followers) \cup Permutations(Symbols)
==============================================================================
